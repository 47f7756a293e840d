--------------------------- MODULE ResumeDataSave ---------------------------
(***************************************************************************)
(* SessionWorker::saveAllResumeData: the UI thread queues the command and  *)
(* waits up to 15 s for a promise; the worker asks every torrent for its   *)
(* resume data, writes a file for every alert that comes back and sets the *)
(* promise when its counter of awaited alerts reaches zero.  The counters  *)
(* belong to the worker, not to the command: a call that timed out leaves  *)
(* its alerts behind for the next one.                                     *)
(***************************************************************************)
EXTENDS Integers, Sequences, FiniteSets

CONSTANTS
    Torrents,   \* the valid handles of handlesByTaskId
    None,       \* "no answer"
    MaxCalls    \* bound on the number of calls


VARIABLES
    calls,      \* calls made so far; the last one may be waiting
    waiting,    \* the UI thread is inside saveAllResumeData
    timedOut,   \* history: the calls that gave up
    cmds,       \* the commands queued: call numbers
    pending,    \* pendingResumeDataSaves
    completed,  \* completedResumeDataSaves
    done,       \* resumeDataDone: the call it answers, 0 if reset
    answer,     \* call -> the value of its promise
    jobs,       \* external: <<call, torrent>> libtorrent works on
    alerts,     \* external: their alerts, [call, torrent, ok]
    files       \* history: call -> the files written for it

vars == <<calls, waiting, timedOut, cmds, pending, completed, done, answer,
          jobs, alerts, files>>

Calls == 1..MaxCalls

Init ==
    /\ calls = 0 /\ waiting = FALSE /\ timedOut = {}
    /\ cmds = <<>>
    /\ pending = 0 /\ completed = 0 /\ done = 0
    /\ answer = [n \in Calls |-> None]
    /\ jobs = {} /\ alerts = <<>>
    /\ files = [n \in Calls |-> 0]

\* saveAllResumeData up to the wait.
CallSave ==
    /\ ~waiting /\ calls < MaxCalls
    /\ calls' = calls + 1 /\ waiting' = TRUE
    /\ cmds' = Append(cmds, calls + 1)
    /\ UNCHANGED <<timedOut, pending, completed, done, answer, jobs, alerts, files>>

\* The wait ends with the promise ...
CallReturns ==
    /\ waiting /\ answer[calls] # None
    /\ waiting' = FALSE
    /\ UNCHANGED <<calls, timedOut, cmds, pending, completed, done, answer, jobs,
                   alerts, files>>

\* ... or after 15 s, with 0.
CallTimesOut ==
    /\ waiting /\ answer[calls] = None
    /\ waiting' = FALSE
    /\ timedOut' = timedOut \cup {calls}
    /\ UNCHANGED <<calls, cmds, pending, completed, done, answer, jobs, alerts,
                   files>>

\* libtorrent answers the requests in any order; a torrent may have no resume
\* data to give.
SessionAnswers ==
    /\ \E j \in jobs, ok \in BOOLEAN :
           /\ jobs' = jobs \ {j}
           /\ alerts' = Append(alerts, [call |-> j[1], torrent |-> j[2], ok |-> ok])
    /\ UNCHANGED <<calls, waiting, timedOut, cmds, pending, completed, done,
                   answer, files>>

\* Mutant of HandleSaveAll: the count of the previous save is not reset.
HandleSaveAllKeepsCount ==
    LET n == Head(cmds) IN
    /\ cmds # <<>> /\ cmds' = Tail(cmds)
    /\ completed' = completed
    /\ pending' = Cardinality(Torrents)
    /\ jobs' = jobs \cup ({n} \X Torrents)
    /\ IF Torrents = {}
       THEN answer' = [answer EXCEPT ![n] = 0] /\ done' = 0
       ELSE done' = n /\ UNCHANGED answer
    /\ UNCHANGED <<calls, waiting, timedOut, alerts, files>>

\* Mutant of HandleSaveAll: the requests are made but not counted.
HandleSaveAllUncounted ==
    LET n == Head(cmds) IN
    /\ cmds # <<>> /\ cmds' = Tail(cmds)
    /\ completed' = 0 /\ pending' = 0
    /\ jobs' = jobs \cup ({n} \X Torrents)
    /\ done' = n
    /\ UNCHANGED <<calls, waiting, timedOut, answer, alerts, files>>

\* SaveAllResumeData.
HandleSaveAll ==
    LET n == Head(cmds) IN
    /\ cmds # <<>> /\ cmds' = Tail(cmds)
    /\ completed' = 0
    /\ pending' = Cardinality(Torrents)
    /\ jobs' = jobs \cup ({n} \X Torrents)
    /\ IF Torrents = {}
       THEN answer' = [answer EXCEPT ![n] = 0] /\ done' = 0
       ELSE done' = n /\ UNCHANGED answer
    /\ UNCHANGED <<calls, waiting, timedOut, alerts, files>>

\* One awaited alert less; the last one sets the promise.
CountDown ==
    /\ pending' = pending - 1
    /\ IF pending - 1 <= 0 /\ done # 0
       THEN answer' = [answer EXCEPT ![done] = completed'] /\ done' = 0
       ELSE UNCHANGED <<answer, done>>

\* save_resume_data_alert: the file is written if it can be opened.
HandleSaved ==
    LET a == Head(alerts) IN
    /\ alerts # <<>> /\ a.ok
    /\ alerts' = Tail(alerts)
    /\ \/ /\ completed' = completed + 1
          /\ files' = [files EXCEPT ![a.call] = @ + 1]
       \/ UNCHANGED <<completed, files>>
    /\ CountDown
    /\ UNCHANGED <<calls, waiting, timedOut, cmds, jobs>>

\* Mutant of HandleSaveFailed: a failure is not counted.
HandleSaveFailedIgnored ==
    /\ alerts # <<>> /\ ~Head(alerts).ok
    /\ alerts' = Tail(alerts)
    /\ UNCHANGED <<calls, waiting, timedOut, cmds, pending, completed, done,
                   answer, jobs, files>>

\* save_resume_data_failed_alert.
HandleSaveFailed ==
    /\ alerts # <<>> /\ ~Head(alerts).ok
    /\ alerts' = Tail(alerts)
    /\ UNCHANGED completed
    /\ CountDown
    /\ UNCHANGED <<calls, waiting, timedOut, cmds, jobs, files>>

Worker == HandleSaveAll \/ HandleSaved \/ HandleSaveFailed

\* Every call is over and nothing is left to do.
Ended ==
    /\ calls = MaxCalls /\ ~waiting /\ cmds = <<>> /\ jobs = {} /\ alerts = <<>>
    /\ UNCHANGED vars

Next ==
    \/ CallSave \/ CallReturns \/ CallTimesOut
    \/ SessionAnswers \/ Worker \/ Ended

Spec == Init /\ [][Next]_vars

\* The worker's loop and libtorrent never rest.  Commands and alerts are
\* handled in turns, so neither waits for ever behind the other.
Fairness ==
    /\ WF_vars(SessionAnswers)
    /\ WF_vars(HandleSaveAll)
    /\ WF_vars(HandleSaved \/ HandleSaveFailed)

FairSpec == Spec /\ Fairness

-----------------------------------------------------------------------------

Outstanding(n) ==
    Cardinality({j \in jobs : j[1] = n})
    + Cardinality({i \in DOMAIN alerts : alerts[i].call = n})

\* Every variable keeps its type; without a call that gave up the counter
\* never drops below zero.
TypeOK ==
    /\ calls \in 0..MaxCalls /\ waiting \in BOOLEAN
    /\ timedOut \subseteq Calls /\ cmds \in Seq(Calls)
    /\ pending \in Int /\ (timedOut = {} => pending >= 0)
    /\ completed \in Nat
    /\ done \in 0..MaxCalls
    /\ answer \in [Calls -> Nat \cup {None}]
    /\ jobs \subseteq Calls \X Torrents
    /\ alerts \in Seq([call : Calls, torrent : Torrents, ok : BOOLEAN])
    /\ files \in [Calls -> Nat]

\* As long as no call has given up, the answer is the number of files written
\* for that call, and comes when none of its alerts is outstanding.
AnswerExact ==
    timedOut = {} => \A n \in Calls :
        answer[n] # None => answer[n] = files[n] /\ Outstanding(n) = 0

\* A promise the worker has taken over is set, or given up for that of a
\* later call: failed alerts count too.
PromiseSettled == \A n \in Calls : (done = n) ~> (done # n)

=============================================================================
