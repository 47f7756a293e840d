---------------------------- MODULE SeedingPolicy ----------------------------
(***************************************************************************)
(* What happens after the download: tasks that have seeded enough are      *)
(* stopped, and the computer or the program is when all have finished, or  *)
(* after a time.                                                           *)
(*                                                                         *)
(* The policy is applied to the snapshots of a refresh.  It sends commands *)
(* to the worker, and sees what became of them in later snapshots; until   *)
(* then it remembers which tasks it has stopped, and why.                  *)
(*                                                                         *)
(* The settings arrive as in Preferences, which keeps the timed action and *)
(* the action after the downloads from being set together.                 *)
(***************************************************************************)
EXTENDS Naturals, Sequences, FiniteSets

CONSTANTS
    Tasks,       \* task ids
    MaxOps,      \* bound: steps of the user and of the settings
    MaxMoves     \* bound: steps of the torrents by themselves

VARIABLES
    torrent,     \* the session's torrents
    over,        \* the limits a torrent has passed
    snapshot,    \* the store: the status of each task
    shared,      \* the store: the tasks whose bytes give the ratio of the limit
    refresh,     \* RefreshScheduler::pending_
    cmds,        \* commands to the worker, oldest first
    policy,      \* seedUnlimited_ and seedMaxMinutes_
    actions,     \* cachedAppSettings_: the two actions that are set
    stopped,     \* autoStoppedBySeedRatio_ and autoStoppedBySeedTime_
    triggered,   \* postDownloadActionTriggered_
    timer,       \* timedActionTimer_ is running
    quitting,
    ops, moves,
    stops,       \* history: the stops of a task by each rule, see Seen
    resumed,     \* history: tasks the user has started
    fired        \* history: the actions that were run, with what held then

torrentVars == <<torrent, over, moves>>
policyVars == <<policy, actions, stopped, triggered, timer>>
histories == <<stops, resumed, fired>>
vars == <<torrentVars, snapshot, shared, refresh, cmds, policyVars, quitting, ops, histories>>

Rules == {"ratio", "time"}
Absent == "absent"
Phases == {"downloading", "seeding", "finished"}
Status == Phases \cup {"paused", "queued"}

\* Statuses base::isFinished takes for finished.
Finished == {"seeding", "finished"}

Nothing == "none"
Actions == {Nothing, "poweroff"}

StatusOf(tor) == IF tor.paused THEN "paused" ELSE tor.phase

Present == {t \in Tasks : snapshot[t] # Absent}

Init ==
    /\ torrent \in [Tasks -> [phase : Phases, paused : BOOLEAN]]
    /\ over = [t \in Tasks |-> {}]
    /\ snapshot = [t \in Tasks |-> Absent]
    /\ shared = {} /\ refresh = FALSE /\ cmds = <<>>
    /\ policy \in [unlimited : BOOLEAN, minutes : BOOLEAN]
    /\ actions \in {[timed |-> x, complete |-> y] : x, y \in Actions}
    /\ actions.timed = Nothing \/ actions.complete = Nothing
    /\ stopped = [r \in Rules |-> {}]
    /\ triggered = FALSE
    /\ timer = (actions.timed # Nothing)
    /\ quitting = FALSE /\ ops = 0 /\ moves = 0
    /\ stops = [t \in Tasks |-> [r \in Rules |-> 0]]
    /\ resumed = {} /\ fired = {}

-----------------------------------------------------------------------------
(* The session, its worker, and the store.                                 *)

Move ==
    /\ ~quitting /\ moves < MaxMoves
    /\ moves' = moves + 1
    /\ UNCHANGED <<snapshot, shared, refresh, cmds, policyVars, quitting, ops, histories>>

\* External: a torrent goes to another phase, or passes a limit.
TorrentMoves(t) ==
    /\ ~torrent[t].paused
    /\ \E p \in Phases \ {torrent[t].phase} :
        torrent' = [torrent EXCEPT ![t].phase = p]
    /\ UNCHANGED over
    /\ Move

PassesLimit(t, r) ==
    /\ torrent[t].phase = "seeding" /\ ~torrent[t].paused /\ r \notin over[t]
    /\ over' = [over EXCEPT ![t] = @ \cup {r}]
    /\ UNCHANGED torrent
    /\ Move

\* Mutant of Report: the bytes are taken over once, with the status.
ReportOnce(t) ==
    /\ ~quitting
    /\ snapshot[t] # StatusOf(torrent[t])
    /\ snapshot' = [snapshot EXCEPT ![t] = StatusOf(torrent[t])]
    /\ shared' = IF "ratio" \in over[t] THEN shared \cup {t} ELSE shared
    /\ refresh' = TRUE
    /\ UNCHANGED <<torrentVars, cmds, policyVars, quitting, ops, histories>>

\* A progress event reaches the store, TaskStore tells how.  A torrent that
\* uploads is reported again and again.
Report(t) ==
    /\ ~quitting
    /\ snapshot[t] # StatusOf(torrent[t]) \/ StatusOf(torrent[t]) = "seeding"
    /\ snapshot' = [snapshot EXCEPT ![t] = StatusOf(torrent[t])]
    /\ shared' = IF "ratio" \in over[t] THEN shared \cup {t} ELSE shared
    /\ refresh' = TRUE
    /\ UNCHANGED <<torrentVars, cmds, policyVars, quitting, ops, histories>>

\* Mutant of HandleCmd: a torrent that does not seed any more is not paused.
HandleCmdIfSeeding ==
    /\ cmds # <<>>
    /\ cmds' = Tail(cmds)
    /\ IF Head(cmds).op = "Pause" /\ torrent[Head(cmds).task].phase # "seeding"
       THEN UNCHANGED torrent
       ELSE torrent' = [torrent EXCEPT ![Head(cmds).task].paused = (Head(cmds).op = "Pause")]
    /\ UNCHANGED <<over, moves, snapshot, shared, refresh, policyVars, quitting, ops, histories>>

HandleCmd ==
    /\ cmds # <<>>
    /\ cmds' = Tail(cmds)
    /\ torrent' = [torrent EXCEPT ![Head(cmds).task].paused = (Head(cmds).op = "Pause")]
    /\ UNCHANGED <<over, moves, snapshot, shared, refresh, policyVars, quitting, ops, histories>>

-----------------------------------------------------------------------------
(* The refresh.                                                            *)

\* Mutant of RuleFor: it is not remembered which tasks were stopped.
RuleForForgetful(t) ==
    IF snapshot[t] # "seeding" \/ policy.unlimited THEN Nothing
    ELSE IF t \in shared THEN "ratio"
    ELSE IF policy.minutes /\ "time" \in over[t] THEN "time"
    ELSE Nothing

\* The rule that stops a task in this refresh.  Each stops it once while it is
\* seen seeding, the one by ratio goes first.
RuleFor(t) ==
    IF snapshot[t] # "seeding" \/ policy.unlimited THEN Nothing
    ELSE IF t \in shared /\ t \notin stopped["ratio"] THEN "ratio"
    ELSE IF policy.minutes /\ "time" \in over[t] /\ t \notin stopped["time"] THEN "time"
    ELSE Nothing

\* The pause commands, in the order of the snapshots, which is any.
Pauses(ts) ==
    {q \in [1..Cardinality(ts) -> [op : {"Pause"}, task : ts]] :
        \A i, j \in DOMAIN q : q[i] = q[j] => i = j}

AllFinished == Present # {} /\ \A t \in Present : snapshot[t] \in Finished

\* maybeRunPostDownloadAction and executePostDownloadAction.  To power off, or
\* to quit, ends the program.
PostDownload ==
    /\ triggered' = (actions.timed = Nothing /\ AllFinished)
    /\ IF actions.timed = Nothing /\ AllFinished /\ ~triggered /\ actions.complete # Nothing
       THEN fired' = fired \cup {<<"complete", actions>>} /\ quitting' = TRUE
       ELSE UNCHANGED <<fired, quitting>>

\* What is counted starts anew for a task that is seen not seeding.
Seen(t, r) ==
    IF snapshot[t] # "seeding" THEN 0
    ELSE IF RuleFor(t) = r THEN stops[t][r] + 1 ELSE stops[t][r]

\* uiRefreshScheduler_: applySeedingPolicy on the snapshots.
Refresh ==
    /\ refresh /\ ~quitting
    /\ refresh' = FALSE
    /\ LET Stop(r) == {t \in Present : RuleFor(t) = r}
           gone == {t \in Present : snapshot[t] # "seeding"}
       IN  /\ \E q \in Pauses(Stop("ratio") \cup Stop("time")) : cmds' = cmds \o q
           /\ stopped' = [r \in Rules |-> (stopped[r] \cup Stop(r)) \ gone]
    /\ PostDownload
    /\ stops' = [t \in Tasks |-> [r \in Rules |-> Seen(t, r)]]
    /\ UNCHANGED <<torrentVars, snapshot, shared, policy, actions, timer, ops, resumed>>

-----------------------------------------------------------------------------
(* The user, the settings and the timer.                                   *)

Op ==
    /\ ~quitting /\ ops < MaxOps
    /\ ops' = ops + 1
    /\ UNCHANGED <<torrentVars, quitting, fired>>

\* Start or pause in the context menu: the status is set at once.
Command(op, t, st) ==
    /\ Op
    /\ cmds' = Append(cmds, [op |-> op, task |-> t])
    /\ snapshot' = [snapshot EXCEPT ![t] = st]
    /\ refresh' = TRUE
    /\ resumed' = IF op = "Resume" THEN resumed \cup {t} ELSE resumed
    /\ UNCHANGED <<shared, policyVars, stops>>

StartTask(t) == snapshot[t] \in {"paused", "finished"} /\ Command("Resume", t, "queued")
StopTask(t) == snapshot[t] \in {"downloading", "seeding", "queued"}
                    /\ Command("Pause", t, "paused")

\* The tray: it reads the store, and leaves the statuses to the alerts.
ResumeAllPausedTasks ==
    /\ Op
    /\ LET ts == {t \in Tasks : snapshot[t] = "paused"}
       IN  /\ ts # {}
           /\ \E q \in Pauses(ts) :
                cmds' = cmds \o [i \in DOMAIN q |-> [q[i] EXCEPT !.op = "Resume"]]
           /\ resumed' = resumed \cup ts
    /\ UNCHANGED <<snapshot, shared, refresh, policyVars, stops>>

\* applyRuntimeSettingsFromConfig: what was stopped and run is forgotten.
Forget ==
    /\ stopped' = [r \in Rules |-> {}]
    /\ triggered' = FALSE
    /\ stops' = [t \in Tasks |-> [r \in Rules |-> 0]]

\* Mutant of ScheduleTimedAction: a running timer is not stopped.
ScheduleTimedActionAgain(a) == timer' = (timer \/ a.timed # Nothing)

ScheduleTimedAction(a) == timer' = (a.timed # Nothing)

\* Settings are saved.  What the timer waits for starts anew.
SettingsChanged ==
    /\ Op
    /\ policy' \in [unlimited : BOOLEAN, minutes : BOOLEAN]
    /\ actions' \in {[timed |-> x, complete |-> y] : x, y \in Actions}
    /\ actions'.timed = Nothing \/ actions'.complete = Nothing
    /\ Forget
    /\ ScheduleTimedAction(actions')
    /\ UNCHANGED <<snapshot, shared, refresh, cmds, resumed>>

\* The file of the IP filter has changed: the settings are applied again.
FilterChanged ==
    /\ Op
    /\ Forget
    /\ UNCHANGED <<snapshot, shared, refresh, cmds, policy, actions, timer, resumed>>

\* executeTimedAction.  The shutdown command may fail.
TimerFires ==
    /\ timer /\ ~quitting
    /\ timer' = FALSE
    /\ fired' = fired \cup {<<"timed", actions>>}
    /\ quitting' \in BOOLEAN
    /\ UNCHANGED <<torrentVars, snapshot, shared, refresh, cmds, policy, actions, stopped,
                   triggered, ops, stops, resumed>>

Next ==
    \/ \E t \in Tasks : TorrentMoves(t) \/ Report(t) \/ StartTask(t) \/ StopTask(t)
    \/ \E t \in Tasks, r \in Rules : PassesLimit(t, r)
    \/ HandleCmd \/ Refresh
    \/ ResumeAllPausedTasks \/ SettingsChanged \/ FilterChanged \/ TimerFires

\* The worker's loop, the alerts and the UI timers do not stop.
Fairness == /\ WF_vars(HandleCmd) /\ WF_vars(Refresh)
            /\ \A t \in Tasks : WF_vars(Report(t))

Spec == Init /\ [][Next]_vars /\ Fairness

-----------------------------------------------------------------------------
(* Properties                                                              *)

\* Every variable has the type of its member.
TypeOK ==
    /\ torrent \in [Tasks -> [phase : Phases, paused : BOOLEAN]]
    /\ over \in [Tasks -> SUBSET Rules]
    /\ snapshot \in [Tasks -> Status \cup {Absent}]
    /\ stopped \in [Rules -> SUBSET Tasks]
    /\ {refresh, triggered, timer, quitting} \subseteq BOOLEAN
    /\ \A i \in DOMAIN cmds : cmds[i] \in [op : {"Pause", "Resume"}, task : Tasks]

\* Between two refreshes that see a task not seeding, and two changes of the
\* settings, each rule stops it at most once.
StopsOnce == \A t \in Tasks, r \in Rules : stops[t][r] <= 1

\* The action after the downloads runs only while no timed action is set, and
\* the timed one only while one is.
ActionsApart ==
    \A f \in fired : IF f[1] = "timed" THEN f[2].timed # Nothing ELSE f[2].timed = Nothing

\* A task the policy remembers to have stopped has its pause on the way, or
\* done, unless the user has started it since.
StopsArrive ==
    ~quitting => \A r \in Rules : \A t \in stopped[r] :
        \/ t \in resumed
        \/ torrent[t].paused
        \/ \E i \in DOMAIN cmds : cmds[i] = [op |-> "Pause", task |-> t]

\* A task that seeds past a limit in force.
Due(t) == /\ torrent[t] = [phase |-> "seeding", paused |-> FALSE]
          /\ ~policy.unlimited /\ "ratio" \in over[t]

\* A task that seeds past a limit in force is stopped in the end, if the user
\* has not started it himself.
SeedingStops ==
    \A t \in Tasks : Due(t) ~> (~Due(t) \/ t \in resumed \/ quitting)
=============================================================================
