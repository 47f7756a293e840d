----------------------- MODULE TaskPersistenceProofs -----------------------
(***************************************************************************)
(* The safety properties of TaskPersistence for any tasks and any number   *)
(* of tasks added and removed, crashes, failed writes and corruptions; and *)
(* of ResumeDataSave, which saves what the list restores from.             *)
(***************************************************************************)
EXTENDS TaskPersistence, TLAPS, FiniteSetTheorems, SequenceTheorems

\* writeWholeFileWithBackup is at work, before the new contents are there.
Rotating == pc \in {"removeBak2", "copyBak2", "removeBak", "copyBak"}

\* A list as savePersistedTasks builds it.
Sound(list) == list \in Lists /\ list.ok /\ list.magnets \subseteq list.tasks

\* Which copies exist at each step of a save.
Copies ==
    /\ saves = 0 => file = [n \in Names |-> NoFile]
    /\ saves # 0 => file["main"] # NoFile
    /\ Rotating => saves # 0
    /\ pc \in {"removeBak2", "copyBak2"} => file["bak"] # NoFile
    /\ pc \in {"removeBak", "copyBak"} /\ saves = 2 => file["bak2"] # NoFile
    /\ pc = "commit" /\ saves # 0 => file["bak"] # NoFile
    /\ BackupExists

\* What the primary file holds, and what is about to replace it.
Contents ==
    /\ Rotating \/ pc = "commit" => Sound(out)
    /\ Sound(committed)
    /\ saves # 0 => file["main"] = committed \/ ~file["main"].ok
    /\ saves # 0 /\ faults["corruption"] = 0 => file["main"] = committed

IInv == TypeOK /\ Copies /\ Contents

\* While the process is down nothing is left of a save.
Down == up = TRUE \/ toSave = {}

-----------------------------------------------------------------------------

\* No file is there before the first start.
LEMMA InitIInv == Init => IInv
<1> SUFFICES ASSUME Init PROVE IInv
  OBVIOUS
<1>1. TypeOK
  <2>1. committed \in Lists
    BY DEF Init, List, Lists
  <2>2. faults \in [AllFaults -> 0..MaxFaults] /\ ops \in 0..MaxOps
    BY BoundsAssumption DEF Init
  <2>3. up \in BOOLEAN /\ quitting \in BOOLEAN
    BY DEF Init
  <2>4. /\ file \in [Names -> Lists \cup {NoFile}]
        /\ rd \in [Tasks -> {"none", "empty", "torn", "good"}]
        /\ written \in Lists \cup {NoFile} /\ out \in Lists \cup {NoFile}
    BY DEF Init
  <2>5. /\ listed \subseteq Tasks /\ live \subseteq listed
        /\ magnets \subseteq listed /\ toSave \subseteq live
        /\ writing \in toSave \cup {NoFile}
        /\ pc = "idle" /\ saves \in 0..2
    BY DEF Init
  <2> QED
    BY <2>1, <2>2, <2>3, <2>4, <2>5, Zenon DEF TypeOK
<1>2. Copies
  BY DEF Init, Copies, Rotating, BackupExists
<1>3. Contents
  BY DEF Init, Contents, Rotating, Sound, List, Lists
<1> QED
  BY <1>1, <1>2, <1>3 DEF IInv

\* A step outside a save that leaves the list files and their history alone.
LEMMA Elsewhere ==
    ASSUME IInv, TypeOK', UNCHANGED <<file, history>>,
           faults'["corruption"] = faults["corruption"],
           pc' \in {"idle", "waiting", "sweep", "exit"}
    PROVE  IInv'
<1>1. Copies'
  BY DEF IInv, Copies, Rotating, BackupExists, history
<1>2. Contents'
  BY DEF IInv, Contents, Rotating, Sound, history
<1> QED
  BY <1>1, <1>2 DEF IInv

\* The same of a step of another thread, which may happen during a save.
LEMMA Beside ==
    ASSUME IInv, TypeOK', UNCHANGED <<file, history, faults, pc, out>>
    PROVE  IInv'
<1>1. Copies'
  BY DEF IInv, Copies, Rotating, BackupExists, history
<1>2. Contents'
  BY DEF IInv, Contents, Rotating, Sound, history
<1> QED
  BY <1>1, <1>2 DEF IInv

\* FirstStep skips the rotation of what is not there.
LEMMA SaveTasksInv == ASSUME IInv, SaveTasks PROVE IInv'
<1> DEFINE now == List(listed, magnets \cap listed)
<1>1. Sound(now) /\ now \in Lists
  BY DEF IInv, TypeOK, Sound, List, Lists
<1>2. CASE pc' = "exit" /\ UNCHANGED out
  <2>1. TypeOK'
    BY <1>2 DEF IInv, TypeOK, SaveTasks, session, saver, disk, history
  <2> QED
    BY <1>2, <2>1, Elsewhere DEF SaveTasks, disk
<1>3. CASE pc' = FirstStep /\ out' = now
  <2> HIDE DEF now
  <2>1. TypeOK'
    BY <1>1, <1>3 DEF IInv, TypeOK, SaveTasks, FirstStep, session, saver, disk, history
  <2>2. Copies'
    BY <1>3 DEF IInv, TypeOK, Copies, Rotating, SaveTasks, FirstStep, BackupExists, Names,
          disk, history
  <2>3. Contents'
    BY <1>1, <1>3 DEF IInv, Contents, Rotating, Sound, SaveTasks, disk, history
  <2> QED
    BY <2>1, <2>2, <2>3 DEF IInv
<1> QED
  BY <1>2, <1>3 DEF SaveTasks

\* Each file operation leaves one of the two backups, or the first save's none.
LEMMA RotateInv ==
    ASSUME IInv, RemoveBak2 \/ CopyBak2 \/ RemoveBak \/ CopyBak
    PROVE  IInv'
<1>1. TypeOK'
  <2>1. file' \in [Names -> Lists \cup {NoFile}] /\ pc' \in {"copyBak2", "removeBak", "copyBak", "commit"}
    BY DEF IInv, TypeOK, RemoveBak2, CopyBak2, RemoveBak, CopyBak, FileStep, Names
  <2>2. UNCHANGED <<up, session, written, out, saver, quitting, rd, history, ops, faults>>
    BY DEF RemoveBak2, CopyBak2, RemoveBak, CopyBak, FileStep
  <2> QED
    BY <2>1, <2>2 DEF IInv, TypeOK, session, saver, history
<1>2. Copies'
  BY DEF IInv, TypeOK, Copies, Rotating, BackupExists, RemoveBak2, CopyBak2, RemoveBak,
        CopyBak, FileStep, Names, history
<1>3. Contents'
  BY DEF IInv, TypeOK, Contents, Copies, Rotating, Sound, RemoveBak2, CopyBak2, RemoveBak,
        CopyBak, FileStep, Names, history
<1> QED
  BY <1>1, <1>2, <1>3 DEF IInv

\* The rename brings the new list, or everything stays as it is.
LEMMA CommitInv == ASSUME IInv, Commit PROVE IInv'
<1>1. CASE /\ file' = [file EXCEPT !["main"] = out]
           /\ written' = out /\ committed' = out
           /\ saves' = IF saves < 2 THEN saves + 1 ELSE saves
           /\ UNCHANGED faults
  <2>1. Sound(out) /\ out \in Lists /\ out # NoFile
    BY NoFileAssumption DEF IInv, Contents, Commit, Sound
  <2>2. pc' \in {"idle", "exit"} /\ UNCHANGED <<up, session, out, saver, quitting, rd, ops>>
    BY DEF Commit, AfterSave
  <2>3. /\ file' \in [Names -> Lists \cup {NoFile}] /\ file'["main"] = out
        /\ file'["bak"] = file["bak"] /\ file'["bak2"] = file["bak2"]
        /\ saves \in 0..2 /\ saves' \in 1..2 /\ (saves = 0 => saves' = 1)
    BY <1>1, <2>1 DEF IInv, TypeOK, Names
  <2>4. TypeOK'
    BY <1>1, <2>1, <2>2, <2>3 DEF IInv, TypeOK, session, saver
  <2>5. Copies'
    BY <2>1, <2>2, <2>3 DEF IInv, Copies, Rotating, BackupExists, Commit
  <2>6. Contents'
    BY <1>1, <2>1, <2>2, <2>3 DEF Contents, Rotating, Sound
  <2> QED
    BY <2>4, <2>5, <2>6 DEF IInv
<1>2. CASE Fail("writeFails") /\ UNCHANGED <<file, written, committed, saves>>
  <2>1. faults' \in [AllFaults -> 0..MaxFaults] /\ faults'["corruption"] = faults["corruption"]
    BY <1>2, BoundsAssumption DEF Fail, IInv, TypeOK, AllFaults
  <2>2. pc' \in {"idle", "exit"} /\ UNCHANGED <<up, session, out, saver, quitting, rd, ops>>
    BY DEF Commit, AfterSave
  <2>3. TypeOK'
    BY <1>2, <2>1, <2>2 DEF IInv, TypeOK, session, saver
  <2> QED
    BY <1>2, <2>1, <2>2, <2>3, Elsewhere DEF history
<1> QED
  BY <1>1, <1>2 DEF Commit

\* Tasks come and go without touching the files.
LEMMA UserInv ==
    ASSUME IInv, NEW t \in Tasks, AddTask(t) \/ RemoveTask(t)
    PROVE  IInv'
<1>1. CASE AddTask(t)
  <2>1. TypeOK'
    BY <1>1, BoundsAssumption DEF IInv, TypeOK, AddTask, saver, disk, history
  <2> QED
    BY <1>1, <2>1, Beside DEF AddTask, disk
<1>2. CASE RemoveTask(t)
  <2>1. TypeOK'
    BY <1>2, BoundsAssumption, NoFileAssumption DEF IInv, TypeOK, RemoveTask, disk, history
  <2> QED
    BY <1>2, <2>1, Beside DEF RemoveTask, disk
<1> QED
  BY <1>1, <1>2

\* The worker writes .rd files during a save of the list.
LEMMA WriteRdInv == ASSUME IInv, NEW t \in Tasks, WriteRd(t) PROVE IInv'
<1>1. TypeOK'
  BY NoFileAssumption DEF IInv, TypeOK, WriteRd, session, saver, history
<1> QED
  BY <1>1, Beside DEF WriteRd

\* Resume data and the end of the event loop.
LEMMA ResumeDataInv ==
    ASSUME IInv, SaveResumeData \/ ResumeDataSaved \/ Sweep \/ Quit
    PROVE  IInv'
<1>1. TypeOK'
  BY DEF IInv, TypeOK, SaveResumeData, ResumeDataSaved, Sweep, Quit, session, saver, disk, history
<1>2. UNCHANGED <<file, history, faults>> /\ pc' \in {"idle", "waiting", "sweep"}
  BY DEF SaveResumeData, ResumeDataSaved, Sweep, Quit, disk
<1> QED
  BY <1>1, <1>2, Elsewhere

\* However the process ends, the files stay as they are.
LEMMA EndInv == ASSUME IInv, Exit \/ Crash PROVE IInv'
<1>1. /\ faults' \in [AllFaults -> 0..MaxFaults]
      /\ faults'["corruption"] = faults["corruption"]
  BY BoundsAssumption DEF IInv, TypeOK, Exit, Crash, Fail, AllFaults
<1>2. up' = FALSE /\ Forget /\ UNCHANGED <<disk, history, ops>>
  BY DEF Exit, Crash
<1>3. TypeOK'
  BY <1>1, <1>2 DEF IInv, TypeOK, Forget, disk, history
<1> QED
  BY <1>1, <1>2, <1>3, Elsewhere DEF Forget, disk

\* A corrupted file is not taken for a list.
LEMMA CorruptInv == ASSUME IInv, Corrupt PROVE IInv'
<1>1. /\ file["main"] \in Lists /\ saves # 0
      /\ file' = [file EXCEPT !["main"] = [@ EXCEPT !.ok = FALSE]]
  BY DEF IInv, TypeOK, Copies, Corrupt, Names
<1>2. /\ file' \in [Names -> Lists \cup {NoFile}]
      /\ file'["main"] \in Lists /\ ~file'["main"].ok
      /\ file'["bak"] = file["bak"] /\ file'["bak2"] = file["bak2"]
  BY <1>1 DEF IInv, TypeOK, Names, Lists
<1>3. faults' \in [AllFaults -> 0..MaxFaults] /\ faults'["corruption"] # 0
  BY BoundsAssumption DEF IInv, TypeOK, Corrupt, Fail, AllFaults
<1>4. UNCHANGED <<up, memory, rd, history, ops>>
  BY DEF Corrupt
<1>5. TypeOK'
  BY <1>2, <1>3, <1>4 DEF IInv, TypeOK, memory, session, saver, history
<1>6. Copies'
  BY <1>1, <1>2, <1>4, NoFileAssumption DEF IInv, Copies, Rotating, BackupExists, memory, history
<1>7. Contents'
  BY <1>1, <1>2, <1>3, <1>4 DEF IInv, Contents, Rotating, Sound, memory, history
<1> QED
  BY <1>5, <1>6, <1>7 DEF IInv

\* A start restores tasks of the list it has loaded, and none without one.
LEMMA LoadedSound ==
    ASSUME IInv
    PROVE  /\ Loaded.tasks \subseteq committed.tasks
           /\ Loaded.magnets \subseteq Loaded.tasks
<1>1. CASE saves = 0
  <2>1. Loaded = List({}, {})
    BY <1>1 DEF IInv, Copies, Loaded, Readable, Names
  <2> QED
    BY <2>1 DEF List
<1>2. CASE saves # 0
  <2>1. Readable = file["main"] /\ Readable # NoFile
    BY <1>2 DEF IInv, Copies, Readable
  <2>2. CASE Readable.ok
    BY <1>2, <2>1, <2>2 DEF IInv, Contents, Sound, Loaded
  <2>3. CASE ~Readable.ok
    BY <2>1, <2>3 DEF Loaded, List
  <2> QED
    BY <2>2, <2>3
<1> QED
  BY <1>1, <1>2

\* A start takes what the list and the .rd files say.
LEMMA StartInv == ASSUME IInv, Down, Start PROVE IInv'
<1>1. Loaded.tasks \subseteq Tasks /\ Loaded.magnets \subseteq Tasks
  BY LoadedSound DEF IInv, TypeOK, Contents, Sound, Lists
<1>2. /\ live' \subseteq listed' /\ listed' \subseteq Tasks
      /\ magnets' \subseteq listed'
  BY <1>1 DEF Start, FromResumeData, FromMagnet
<1>3. toSave = {} /\ writing = NoFile
  BY DEF IInv, Down, Start, TypeOK
<1>4. TypeOK'
  BY <1>2, <1>3 DEF Start, IInv, TypeOK, saver, disk, history
<1> QED
  BY <1>4, Beside DEF Start, disk

\* Only the two ends of a process take it down.
LEMMA DownStep == ASSUME IInv, Down, [Next]_vars PROVE Down'
<1>1. CASE Exit \/ Crash
  BY <1>1 DEF Exit, Crash, Forget, Down
<1>2. CASE Corrupt \/ UNCHANGED vars
  BY <1>2 DEF Corrupt, vars, memory, saver, Down
<1>3. CASE UiStep \/ WorkerStep \/ UserStep \/ Start
  <2>1. up' = TRUE
    BY <1>3 DEF IInv, TypeOK, UiStep, Saving, WorkerStep, UserStep, Start,
          SaveTasks, RemoveBak2, CopyBak2, RemoveBak, CopyBak, FileStep, Commit,
          SaveResumeData, ResumeDataSaved, Sweep, WriteRd, AddTask, RemoveTask, Quit
  <2> QED
    BY <2>1 DEF Down
<1> QED
  BY <1>1, <1>2, <1>3 DEF Next

\* Every step preserves the invariant.
LEMMA IInvStep == ASSUME IInv, Down, [Next]_vars PROVE IInv'
<1>1. CASE UiStep
  BY <1>1, SaveTasksInv, RotateInv, CommitInv, ResumeDataInv DEF UiStep, Saving
<1>2. CASE WorkerStep
  BY <1>2, WriteRdInv DEF WorkerStep
<1>3. CASE UserStep
  BY <1>3, UserInv, ResumeDataInv DEF UserStep
<1>4. CASE Exit \/ Crash \/ Corrupt \/ Start
  BY <1>4, EndInv, CorruptInv, StartInv
<1>5. CASE UNCHANGED vars
  <2>1. TypeOK'
    BY <1>5 DEF IInv, TypeOK, vars, memory, session, saver, disk, history
  <2> QED
    BY <1>5, <2>1, Beside DEF vars, memory, disk
<1> QED
  BY <1>1, <1>2, <1>3, <1>4, <1>5 DEF Next

-----------------------------------------------------------------------------
(* Theorems.                                                                *)

\* The invariants hold in every reachable state.
LEMMA Inductive == Spec => [](IInv /\ Down)
<1>1. Init => IInv /\ Down
  BY InitIInv DEF Init, Down
<1>2. IInv /\ Down /\ [Next]_vars => (IInv /\ Down)'
  BY IInvStep, DownStep
<1> QED
  BY <1>1, <1>2, PTL DEF Spec

\* The files, the lists in memory and the session keep their types; the
\* session's torrents are listed.
THEOREM TypeCorrect == Spec => []TypeOK
<1>1. IInv => TypeOK
  BY DEF IInv
<1> QED
  BY <1>1, Inductive, PTL

\* Whatever step of savePersistedTasks a crash interrupts, and whichever write
\* fails, the next start reads the list that was saved last.
THEOREM LastSaveSurvives == Spec => []LastSavedIsRead
<1>1. IInv => LastSavedIsRead
  BY NoFileAssumption DEF IInv, TypeOK, Copies, Contents, LastSavedIsRead, Readable
<1> QED
  BY <1>1, Inductive, PTL

\* writeWholeFileWithBackup keeps a backup from the second save on.
THEOREM BackupKept == Spec => []BackupExists
<1>1. IInv => BackupExists
  BY DEF IInv, Copies
<1> QED
  BY <1>1, Inductive, PTL

\* loadPersistedTasks brings back tasks of the last list saved and no others,
\* whatever .rd files are left.
THEOREM RemovedStayRemoved == Spec => NoResurrection
<1>1. IInv /\ [Next]_vars => [~up /\ up' => live' \subseteq committed.tasks]_vars
  <2> SUFFICES ASSUME IInv, Next, ~up, up'
               PROVE  live' \subseteq committed.tasks
    OBVIOUS
  <2>1. Start
    BY DEF Next, UiStep, Saving, WorkerStep, UserStep, SaveTasks, RemoveBak2, CopyBak2,
           RemoveBak, CopyBak, FileStep, Commit, SaveResumeData, ResumeDataSaved, Sweep,
           WriteRd, AddTask, RemoveTask, Quit, Exit, Crash, Corrupt
  <2> QED
    BY <2>1, LoadedSound DEF Start, FromResumeData, FromMagnet
<1> QED
  BY <1>1, Inductive, PTL DEF Spec, NoResurrection

-----------------------------------------------------------------------------
(* Before the list, the resume data are saved: the call that waits for the *)
(* worker, module ResumeDataSave, for any torrents and number of calls.    *)

CONSTANTS Torrents, None, MaxCalls
VARIABLES calls, waiting, timedOut, cmds, pending, completed, done, answer, jobs, alerts, files
Resume == INSTANCE ResumeDataSave

\* The module counts with its own instance of FiniteSets.
LEMMA SameCardinality == \A S : Resume!Cardinality(S) = Cardinality(S)
  BY DEF Cardinality, Resume!Cardinality

\* What the proofs need to know of the constants.
SaveAssumption ==
    IsFiniteSet(Torrents) /\ MaxCalls \in Nat /\ None \notin Nat

\* The alerts about resume data.
Alerts == [call : Resume!Calls, torrent : Torrents, ok : BOOLEAN]

\* The types that hold whatever happens.
Types ==
    /\ calls \in 0..MaxCalls /\ waiting \in BOOLEAN /\ (waiting => calls > 0)
    /\ timedOut \subseteq Resume!Calls /\ cmds \in Seq(Resume!Calls)
    /\ pending \in Int /\ completed \in Nat /\ done \in 0..MaxCalls
    /\ answer \in [Resume!Calls -> Nat \cup {None}]
    /\ jobs \subseteq Resume!Calls \X Torrents /\ alerts \in Seq(Alerts)
    /\ files \in [Resume!Calls -> Nat]

\* The alerts the worker still awaits, while no call has given up.
Awaited == Cardinality(jobs) + Len(alerts)

\* The call is queued: the worker has nothing left of the calls before.
Queued ==
    /\ waiting /\ cmds = <<calls>> /\ done = 0 /\ Awaited = 0
    /\ answer[calls] = None /\ files[calls] = 0

\* The worker has it: its alerts are the only ones, and all are counted.
Taken ==
    /\ waiting /\ cmds = <<>> /\ done = calls /\ pending > 0
    /\ answer[calls] = None /\ completed = files[calls]

\* It is answered, or there was none.
Settled ==
    /\ cmds = <<>> /\ done = 0 /\ Awaited = 0
    /\ calls > 0 => answer[calls] # None

\* While no call has given up the counter is exact, only the last call has alerts
\* on their way, and each answer is the number of its files.
Exact ==
    /\ pending = Awaited
    /\ \A j \in jobs : j[1] = calls
    /\ \A i \in DOMAIN alerts : alerts[i].call = calls
    /\ \A n \in Resume!Calls : answer[n] # None => n <= calls /\ answer[n] = files[n]
    /\ \A n \in Resume!Calls : n > calls => files[n] = 0
    /\ Queued \/ Taken \/ Settled

SaveInv == Types /\ IsFiniteSet(jobs) /\ (timedOut = {} => Exact)

\* Nothing has been asked for at the start.
LEMMA SaveInit ==
    ASSUME SaveAssumption, Resume!Init
    PROVE  SaveInv
<1>1. Cardinality(jobs) = 0 /\ IsFiniteSet(jobs) /\ Len(alerts) = 0
  BY FS_EmptySet DEF Resume!Init
<1>2. Types
  <2>1. cmds \in Seq(Resume!Calls) /\ alerts \in Seq(Alerts)
        /\ jobs \subseteq Resume!Calls \X Torrents
    BY DEF Resume!Init
  <2>2. answer \in [Resume!Calls -> Nat \cup {None}] /\ files \in [Resume!Calls -> Nat]
    BY DEF Resume!Init
  <2>3. calls \in 0..MaxCalls /\ done \in 0..MaxCalls /\ pending \in Int /\ completed \in Nat
    BY DEF Resume!Init, SaveAssumption
  <2>4. waiting = FALSE /\ timedOut = {}
    BY DEF Resume!Init
  <2> QED
    BY <2>1, <2>2, <2>3, <2>4, Zenon DEF Types
<1>3. Settled
  BY <1>1 DEF Resume!Init, Settled, Awaited
<1>4. Exact
  BY <1>1, <1>3 DEF Resume!Init, Exact, Awaited, Resume!Calls, SaveAssumption
<1> QED
  BY <1>1, <1>2, <1>4 DEF SaveInv

\* The next call finds the one before settled, unless that gave up.
LEMMA CallSaveStep ==
    ASSUME SaveAssumption, SaveInv, Resume!CallSave
    PROVE  SaveInv'
<1>1. Types'
  BY DEF SaveInv, Types, Resume!CallSave, SaveAssumption, Resume!Calls
<1>2. IsFiniteSet(jobs)'
  BY DEF SaveInv, Resume!CallSave
<1>3. ASSUME timedOut' = {} PROVE Exact'
  <2>1. Exact /\ Settled
    BY <1>3 DEF Resume!CallSave, SaveInv, Exact, Queued, Taken
  <2>2. calls + 1 \in Resume!Calls
    BY DEF SaveInv, Types, Resume!CallSave, SaveAssumption, Resume!Calls
  <2>3. jobs = {} /\ alerts = <<>>
    <3>1. Cardinality(jobs) \in Nat /\ Len(alerts) \in Nat
      BY FS_CardinalityType DEF SaveInv, Types
    <3>2. Cardinality(jobs) = 0 /\ Len(alerts) = 0
      BY <2>1, <3>1 DEF Settled, Awaited
    <3> QED
      BY <3>2, FS_EmptySet DEF SaveInv, Types
  <2>4. cmds' = <<calls'>> /\ calls' = calls + 1 /\ calls \in Nat
    BY <2>1 DEF Resume!CallSave, Settled, SaveInv, Types
  <2>5. Awaited' = Awaited /\ UNCHANGED <<pending, completed, done, answer, jobs, alerts, files>>
    BY DEF Resume!CallSave, Awaited
  <2>6. answer[calls + 1] = None /\ files[calls + 1] = 0
    BY <2>1, <2>2, <2>4 DEF Exact, Resume!Calls
  <2>7. Queued'
    BY <2>1, <2>4, <2>5, <2>6 DEF Queued, Settled, Resume!CallSave
  <2>8. /\ \A n \in Resume!Calls : answer[n] # None => n <= calls + 1 /\ answer[n] = files[n]
        /\ \A n \in Resume!Calls : n > calls + 1 => files[n] = 0
    BY <2>1, <2>4 DEF Exact, Resume!Calls, SaveAssumption
  <2> QED
    BY <2>1, <2>3, <2>4, <2>5, <2>7, <2>8 DEF Exact
<1> QED
  BY <1>1, <1>2, <1>3 DEF SaveInv

\* The wait ends.
LEMMA WaitEnds ==
    ASSUME SaveAssumption, SaveInv, Resume!CallReturns \/ Resume!CallTimesOut
    PROVE  SaveInv'
<1>0. calls \in Resume!Calls
  BY DEF SaveInv, Types, Resume!CallReturns, Resume!CallTimesOut, SaveAssumption, Resume!Calls
<1>1. Types'
  BY <1>0 DEF SaveInv, Types, Resume!CallReturns, Resume!CallTimesOut
<1>2. IsFiniteSet(jobs)'
  BY DEF SaveInv, Resume!CallReturns, Resume!CallTimesOut
<1>3. ASSUME timedOut' = {} PROVE Exact'
  <2>1. Resume!CallReturns /\ Exact
    BY <1>3 DEF SaveInv, Resume!CallTimesOut, Resume!CallReturns
  <2>2. Settled
    BY <2>1 DEF Resume!CallReturns, Exact, Queued, Taken
  <2> QED
    BY <2>1, <2>2 DEF Exact, Settled, Awaited, Resume!CallReturns
<1> QED
  BY <1>1, <1>2, <1>3 DEF SaveInv

\* A request that libtorrent answers becomes an alert: what is awaited stays.
LEMMA SessionAnswersStep ==
    ASSUME SaveAssumption, SaveInv, Resume!SessionAnswers
    PROVE  SaveInv'
<1>1. PICK j \in jobs, ok \in BOOLEAN :
           /\ jobs' = jobs \ {j}
           /\ alerts' = Append(alerts, [call |-> j[1], torrent |-> j[2], ok |-> ok])
  BY DEF Resume!SessionAnswers
<1> DEFINE a == [call |-> j[1], torrent |-> j[2], ok |-> ok]
<1>2. UNCHANGED <<calls, waiting, timedOut, cmds, pending, completed, done, answer, files>>
  BY DEF Resume!SessionAnswers
<1>3. alerts \in Seq(Alerts) /\ a \in Alerts
  BY DEF SaveInv, Types, Alerts
<1> HIDE DEF a
<1>4. /\ alerts' \in Seq(Alerts) /\ Len(alerts') = Len(alerts) + 1
      /\ \A i \in DOMAIN alerts' : (i \in DOMAIN alerts /\ alerts'[i] = alerts[i]) \/ alerts'[i] = a
  BY <1>1, <1>3 DEF a
<1>5. IsFiniteSet(jobs) /\ jobs' \subseteq jobs
  BY <1>1 DEF SaveInv
<1>6. IsFiniteSet(jobs') /\ Cardinality(jobs') = Cardinality(jobs) - 1 /\ Cardinality(jobs) \in Nat
  BY <1>1, <1>5, FS_RemoveElement, FS_CardinalityType
<1>7. Types'
  BY <1>2, <1>4, <1>5 DEF SaveInv, Types
<1>8. ASSUME timedOut' = {} PROVE Exact'
  <2>1. Exact
    BY <1>2, <1>8 DEF SaveInv
  <2>2. Awaited' = Awaited
    BY <1>3, <1>4, <1>6 DEF Awaited
  <2>3. a.call = calls
    BY <1>1, <2>1 DEF a, Exact
  <2>4. \A i \in DOMAIN alerts' : alerts'[i].call = calls
    BY <1>4, <2>1, <2>3 DEF Exact
  <2>5. Queued' \/ Taken' \/ Settled'
    BY <1>2, <2>1, <2>2 DEF Exact, Queued, Taken, Settled
  <2> QED
    BY <1>2, <1>5, <2>1, <2>2, <2>4, <2>5 DEF Exact
<1> QED
  BY <1>6, <1>7, <1>8 DEF SaveInv

\* The worker takes the call: as many alerts are awaited as there are torrents.
LEMMA HandleSaveAllStep ==
    ASSUME SaveAssumption, SaveInv, Resume!HandleSaveAll
    PROVE  SaveInv'
<1> DEFINE n == Head(cmds)
           new == {n} \X Torrents
<1>1. n \in Resume!Calls /\ Tail(cmds) \in Seq(Resume!Calls) /\ cmds # <<>>
  BY DEF Resume!HandleSaveAll, SaveInv, Types
<1>2. IsFiniteSet(new) /\ Cardinality(new) = Cardinality(Torrents)
  <2>1. IsFiniteSet({n}) /\ Cardinality({n}) = 1
    BY FS_Singleton
  <2>2. IsFiniteSet(Torrents) /\ Cardinality(Torrents) \in Nat
    BY FS_CardinalityType DEF SaveAssumption
  <2>3. IsFiniteSet(new) /\ Cardinality(new) = Cardinality({n}) * Cardinality(Torrents)
    BY <2>1, <2>2, FS_Product, Zenon
  <2>4. Cardinality({n}) * Cardinality(Torrents) = Cardinality(Torrents)
    <3>1. \A c \in Nat : 1 * c = c
      OBVIOUS
    <3> QED
      BY <2>1, <2>2, <3>1, Zenon
  <2> QED
    BY <2>3, <2>4
<1>3. new \subseteq Resume!Calls \X Torrents
  BY <1>1
<1>4. /\ cmds' = Tail(cmds) /\ completed' = 0 /\ pending' = Cardinality(Torrents)
      /\ jobs' = jobs \cup new
      /\ \/ Torrents = {} /\ answer' = [answer EXCEPT ![n] = 0] /\ done' = 0
         \/ Torrents # {} /\ done' = n /\ UNCHANGED answer
      /\ UNCHANGED <<calls, waiting, timedOut, alerts, files>>
  BY SameCardinality DEF Resume!HandleSaveAll
<1> HIDE DEF n, new
<1>5. IsFiniteSet(jobs')
  BY <1>2, <1>4, FS_Union DEF SaveInv
<1>6. Cardinality(Torrents) \in Nat
  BY FS_CardinalityType DEF SaveAssumption
<1>7. Types'
  <2>1. n \in 0 .. MaxCalls /\ 0 \in 0 .. MaxCalls
    BY <1>1 DEF Resume!Calls, SaveAssumption
  <2>2. answer' \in [Resume!Calls -> Nat \cup {None}]
    BY <1>4 DEF SaveInv, Types
  <2> QED
    BY <1>1, <1>3, <1>4, <1>6, <2>1, <2>2 DEF SaveInv, Types
<1>8. ASSUME timedOut' = {} PROVE Exact'
  <2>1. Exact /\ Queued
    BY <1>1, <1>4, <1>8 DEF SaveInv, Exact, Taken, Settled
  <2>2. jobs = {} /\ alerts = <<>> /\ n = calls /\ Tail(cmds) = <<>>
    <3>1. Cardinality(jobs) \in Nat /\ Len(alerts) \in Nat
      BY FS_CardinalityType DEF SaveInv, Types
    <3>2. Cardinality(jobs) = 0 /\ Len(alerts) = 0
      BY <2>1, <3>1 DEF Queued, Awaited
    <3>3. cmds = <<calls>>
      BY <2>1 DEF Queued
    <3> QED
      BY <3>2, <3>3, FS_EmptySet DEF SaveInv, Types, n
  <2>3. Awaited' = Cardinality(Torrents)
    <3>1. jobs' = new /\ Len(alerts') = 0
      BY <1>4, <2>2
    <3> QED
      BY <1>2, <1>6, <3>1 DEF Awaited
  <2>4. \A j \in jobs' : j[1] = calls
    BY <1>4, <2>2 DEF new
  <2>5. \A i \in DOMAIN alerts' : alerts'[i].call = calls'
    BY <1>4, <2>2
  <2>6. calls \in Nat /\ calls > 0 /\ waiting
    BY <1>1, <2>1, <2>2 DEF Resume!Calls, SaveInv, Types, Queued
  <2>7. CASE Torrents = {}
    <3>1. Cardinality(Torrents) = 0
      BY <2>7, FS_EmptySet
    <3>2. answer' = [answer EXCEPT ![calls] = 0] /\ done' = 0 /\ calls \in Resume!Calls
      BY <1>1, <1>4, <2>2, <2>7
    <3>3. \A m \in Resume!Calls : answer'[m] # None => m <= calls /\ answer'[m] = files[m]
      BY <2>1, <2>6, <3>2 DEF Exact, Queued, SaveInv, Types
    <3>4. answer'[calls] # None
      BY <3>2 DEF SaveInv, Types, SaveAssumption
    <3>5. Settled'
      BY <1>4, <2>2, <2>3, <3>1, <3>2, <3>4 DEF Settled
    <3> QED
      BY <1>4, <2>1, <2>3, <2>4, <2>5, <3>3, <3>5 DEF Exact
  <2>8. CASE Torrents # {}
    <3>1. Cardinality(Torrents) > 0
      BY <1>6, <2>8, FS_EmptySet DEF SaveAssumption
    <3>2. Taken'
      BY <1>4, <2>1, <2>2, <2>6, <2>8, <3>1 DEF Taken, Queued
    <3> QED
      BY <1>4, <2>1, <2>3, <2>4, <2>5, <2>8, <3>2 DEF Exact
  <2> QED
    BY <2>7, <2>8
<1> QED
  BY <1>5, <1>7, <1>8 DEF SaveInv

\* An alert is handled: written or not, it is counted.
LEMMA AlertStep ==
    ASSUME SaveAssumption, SaveInv, Resume!HandleSaved \/ Resume!HandleSaveFailed
    PROVE  SaveInv'
<1> DEFINE a == Head(alerts)
<1>1. /\ alerts # <<>> /\ alerts' = Tail(alerts) /\ Resume!CountDown
      /\ \/ completed' = completed + 1 /\ files' = [files EXCEPT ![a.call] = @ + 1]
         \/ UNCHANGED <<completed, files>>
      /\ UNCHANGED <<calls, waiting, timedOut, cmds, jobs>>
  BY DEF Resume!HandleSaved, Resume!HandleSaveFailed
<1>2. /\ a \in Alerts /\ Tail(alerts) \in Seq(Alerts) /\ Len(alerts') = Len(alerts) - 1
      /\ a = alerts[1] /\ 1 \in DOMAIN alerts /\ Len(alerts) \in Nat /\ Len(alerts) > 0
      /\ \A i \in DOMAIN alerts' : i + 1 \in DOMAIN alerts /\ alerts'[i] = alerts[i + 1]
  BY <1>1 DEF SaveInv, Types
<1> HIDE DEF a
<1>3. a.call \in Resume!Calls
  BY <1>2 DEF Alerts
<1>4. completed' \in Nat /\ files' \in [Resume!Calls -> Nat]
  BY <1>1, <1>3 DEF SaveInv, Types
<1>5. Types'
  <2>1. pending' \in Int
    BY <1>1 DEF Resume!CountDown, SaveInv, Types
  <2>2. done' \in 0 .. MaxCalls /\ answer' \in [Resume!Calls -> Nat \cup {None}]
    <3>1. CASE pending - 1 <= 0 /\ done # 0
      <4>1. done \in Resume!Calls /\ done' = 0 /\ answer' = [answer EXCEPT ![done] = completed']
        BY <1>1, <3>1 DEF Resume!CountDown, SaveInv, Types, Resume!Calls, SaveAssumption
      <4> QED
        BY <1>4, <4>1 DEF SaveInv, Types, SaveAssumption
    <3>2. CASE ~(pending - 1 <= 0 /\ done # 0)
      BY <1>1, <3>2 DEF Resume!CountDown, SaveInv, Types
    <3> QED
      BY <3>1, <3>2
  <2> QED
    BY <1>1, <1>2, <1>4, <2>1, <2>2 DEF SaveInv, Types
<1>6. ASSUME timedOut' = {} PROVE Exact'
  <2>1. Exact /\ IsFiniteSet(jobs)
    BY <1>1, <1>6 DEF SaveInv
  <2>2. Cardinality(jobs) \in Nat
    BY <2>1, FS_CardinalityType
  <2>3. Awaited > 0 /\ Awaited' = Awaited - 1
    BY <1>1, <1>2, <2>2 DEF Awaited
  <2>4. Taken
    BY <2>1, <2>3 DEF Exact, Queued, Settled
  <2>5. a.call = calls /\ calls \in Resume!Calls /\ calls \in Nat \ {0} /\ done = calls
    BY <1>2, <1>3, <2>1, <2>4 DEF Exact, SaveInv, Types, Taken, Resume!Calls
  <2>6. completed' = files'[calls]
    BY <1>1, <2>4, <2>5 DEF Taken, SaveInv, Types
  <2>7. \A m \in Resume!Calls : m # calls => files'[m] = files[m]
    BY <1>1, <2>5 DEF SaveInv, Types
  <2>8. pending' = pending - 1 /\ pending = Awaited
    BY <1>1, <2>1 DEF Resume!CountDown, Exact
  <2>9. \A i \in DOMAIN alerts' : alerts'[i].call = calls
    BY <1>2, <2>1 DEF Exact
  <2>10. \A m \in Resume!Calls : m > calls => files'[m] = 0
    BY <2>1, <2>5, <2>7 DEF Exact, Resume!Calls
  <2>11. CASE pending - 1 <= 0
    <3>1. answer' = [answer EXCEPT ![calls] = completed'] /\ done' = 0
      BY <1>1, <2>5, <2>11 DEF Resume!CountDown
    <3>2. answer'[calls] = files'[calls] /\ answer'[calls] # None
      BY <1>4, <2>5, <2>6, <3>1 DEF SaveInv, Types, SaveAssumption
    <3>3. Awaited' = 0
      BY <2>2, <2>3, <2>8, <2>11, <1>2 DEF Awaited
    <3>4. Settled'
      BY <1>1, <2>4, <3>1, <3>2, <3>3 DEF Settled, Taken
    <3>5. \A m \in Resume!Calls : answer'[m] # None => m <= calls /\ answer'[m] = files'[m]
      BY <2>1, <2>5, <2>7, <3>1, <3>2 DEF Exact, SaveInv, Types
    <3> QED
      BY <1>1, <2>1, <2>3, <2>8, <2>9, <2>10, <3>4, <3>5 DEF Exact
  <2>12. CASE ~(pending - 1 <= 0)
    <3>1. UNCHANGED <<answer, done>>
      BY <1>1, <2>12 DEF Resume!CountDown
    <3>2. Taken'
      BY <1>1, <2>4, <2>6, <2>8, <2>12, <3>1 DEF Taken, SaveInv, Types
    <3>3. \A m \in Resume!Calls : answer[m] # None => m <= calls /\ answer[m] = files'[m]
      BY <2>1, <2>4, <2>7 DEF Exact, Taken
    <3> QED
      BY <1>1, <2>1, <2>3, <2>8, <2>9, <2>10, <3>1, <3>2, <3>3 DEF Exact
  <2> QED
    BY <2>11, <2>12
<1> QED
  BY <1>1, <1>5, <1>6 DEF SaveInv

\* Every step keeps the invariant.
LEMMA SaveNext ==
    ASSUME SaveAssumption, SaveInv, [Resume!Next]_Resume!vars
    PROVE  SaveInv'
<1>1. ASSUME UNCHANGED Resume!vars PROVE SaveInv'
  BY <1>1 DEF Resume!vars, SaveInv, Types, Exact, Queued, Taken, Settled, Awaited
<1>2. Resume!Ended => UNCHANGED Resume!vars
  BY DEF Resume!Ended
<1> QED
  BY <1>1, <1>2, CallSaveStep, WaitEnds, SessionAnswersStep, HandleSaveAllStep, AlertStep
     DEF Resume!Next, Resume!Worker

\* As long as no call has given up, its answer is the number of files written for
\* it and comes when none of its alerts is outstanding; the counter is then exact.
THEOREM SaveIsExact ==
    ASSUME SaveAssumption
    PROVE  Resume!Spec => [](Resume!TypeOK /\ Resume!AnswerExact)
<1>1. Resume!Init => SaveInv
  BY SaveInit
<1>2. SaveInv /\ [Resume!Next]_Resume!vars => SaveInv'
  BY SaveNext
<1>3. ASSUME SaveInv PROVE Resume!TypeOK
  <2>1. timedOut = {} => pending >= 0
    BY <1>3, FS_CardinalityType DEF SaveInv, Types, Exact, Awaited
  <2> QED
    BY <1>3, <2>1 DEF SaveInv, Types, Resume!TypeOK, Alerts
<1>4. ASSUME SaveInv PROVE Resume!AnswerExact
  <2> SUFFICES ASSUME timedOut = {}, NEW n \in Resume!Calls, answer[n] # None
               PROVE  answer[n] = files[n] /\ Resume!Outstanding(n) = 0
    BY DEF Resume!AnswerExact
  <2>1. Exact
    BY <1>4 DEF SaveInv
  <2>2. {j \in jobs : j[1] = n} = {} /\ {i \in DOMAIN alerts : alerts[i].call = n} = {}
    <3>1. CASE n = calls
      <4>1. Settled
        BY <2>1, <3>1 DEF Exact, Queued, Taken
      <4>2. Cardinality(jobs) \in Nat /\ Len(alerts) \in Nat
        BY <1>4, FS_CardinalityType DEF SaveInv, Types
      <4>3. Cardinality(jobs) = 0 /\ Len(alerts) = 0
        BY <4>1, <4>2 DEF Settled, Awaited
      <4> QED
        BY <1>4, <4>3, FS_EmptySet DEF SaveInv, Types
    <3>2. CASE n # calls
      BY <2>1, <3>2 DEF Exact
    <3> QED
      BY <3>1, <3>2
  <2>3. Cardinality({}) = 0
    BY FS_EmptySet
  <2>4. Resume!Outstanding(n) = 0 + 0
    BY <2>2, <2>3, SameCardinality, Zenon DEF Resume!Outstanding
  <2> QED
    BY <2>1, <2>4 DEF Exact
<1> QED
  BY <1>1, <1>2, <1>3, <1>4, PTL DEF Resume!Spec
=============================================================================
