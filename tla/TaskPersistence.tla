-------------------------- MODULE TaskPersistence --------------------------
(***************************************************************************)
(* The task list across restarts: tasks.json with its two backups, the     *)
(* resume data files, and the restore at start-up (AppController's         *)
(* savePersistedTasks, saveResumeData and loadPersistedTasks over          *)
(* base/io.cc, driven by TaskPersistenceCoordinator's timers).             *)
(*                                                                         *)
(* A step is one file operation, so that the process may die between any   *)
(* two.  The UI thread saves the list and waits for resume data; the       *)
(* worker thread writes the .rd files one after the other, in place.  A    *)
(* task list is abstracted to the tasks it names and those it has a magnet *)
(* link for; a .rd file to whether it is complete.                         *)
(***************************************************************************)
EXTENDS Naturals, FiniteSets

CONSTANTS
    Tasks,      \* task ids
    NoFile,     \* "the file does not exist"
    Faults,     \* subset of {"writeFails", "corruption"}
    MaxOps,     \* bound on the tasks added and removed
    MaxFaults   \* bound on crashes, failed writes and corruptions, each

ASSUME BoundsAssumption == MaxOps \in Nat /\ MaxFaults \in Nat

VARIABLES
    up,         \* the process runs
    live,       \* the torrents the session has
    listed,     \* the pipeline's snapshots
    magnets,    \* knownTaskMagnets_
    written,    \* lastPersistedTasksJson_
    pc,         \* what the UI thread is doing
    out,        \* outBytes, the list being written
    toSave,     \* torrents whose resume data the worker has yet to write
    writing,    \* the one whose file it is writing, or NoFile
    file,       \* "main", "bak", "bak2" -> contents
    rd,         \* task -> its .rd file: "none", "empty", "torn", "good"
    quitting,   \* aboutToQuit was emitted
    committed,  \* history: the last list that was saved successfully
    saves,      \* history: how many lists were saved, up to 2
    ops,        \* tasks added and removed so far
    faults      \* fault -> how often it happened

session == <<live, listed, magnets>>
saver   == <<toSave, writing>>
memory  == <<session, saver, written, pc, out, quitting>>
disk   == <<file, rd>>
history == <<committed, saves>>
vars == <<up, memory, disk, history, ops, faults>>

Names == {"main", "bak", "bak2"}

\* A task list on disk; `ok`: its checksum matches.
List(tasks, mags) == [tasks |-> tasks, magnets |-> mags, ok |-> TRUE]

Lists == [tasks : SUBSET Tasks, magnets : SUBSET Tasks, ok : BOOLEAN]

ASSUME NoFileAssumption == NoFile \notin Tasks /\ NoFile \notin Lists

AllFaults == {"crash", "writeFails", "corruption"}

Forget ==
    /\ live' = {} /\ listed' = {} /\ magnets' = {}
    /\ written' = NoFile
    /\ pc' = "idle" /\ out' = NoFile
    /\ toSave' = {} /\ writing' = NoFile /\ quitting' = FALSE

Init ==
    /\ up = FALSE
    /\ live = {} /\ listed = {} /\ magnets = {}
    /\ written = NoFile
    /\ pc = "idle" /\ out = NoFile
    /\ toSave = {} /\ writing = NoFile /\ quitting = FALSE
    /\ file = [n \in Names |-> NoFile]
    /\ rd = [t \in Tasks |-> "none"]
    /\ committed = List({}, {}) /\ saves = 0
    /\ ops = 0
    /\ faults = [f \in AllFaults |-> 0]

-----------------------------------------------------------------------------
(* Tasks come and go while the UI thread is in its event loop.             *)

\* The worker's add alert: the task is listed and its magnet link known.
AddTask(t) ==
    /\ up /\ pc = "idle" /\ ~quitting /\ ops < MaxOps
    /\ t \notin live
    /\ live' = live \cup {t}
    /\ listed' = listed \cup {t}
    /\ magnets' = magnets \cup {t}
    /\ ops' = ops + 1
    /\ UNCHANGED <<up, written, pc, out, saver, quitting, disk, history, faults>>

\* Mutant of RemoveTask: the magnet link outlives the task.
RemoveTaskKeepsMagnet(t) ==
    /\ up /\ pc = "idle" /\ ~quitting /\ ops < MaxOps
    /\ t \in live /\ writing # t
    /\ live' = live \ {t}
    /\ listed' = listed \ {t}
    /\ toSave' = toSave \ {t}
    /\ ops' = ops + 1
    /\ UNCHANGED <<up, magnets, written, pc, out, writing, quitting, disk, history, faults>>

\* The worker's removed alert.  A listed task that the session does not have
\* cannot be removed: the command finds no handle.
RemoveTask(t) ==
    /\ up /\ pc = "idle" /\ ~quitting /\ ops < MaxOps
    /\ t \in live /\ writing # t
    /\ live' = live \ {t}
    /\ listed' = listed \ {t}
    /\ magnets' = magnets \ {t}
    /\ toSave' = toSave \ {t}
    /\ ops' = ops + 1
    /\ UNCHANGED <<up, written, pc, out, writing, quitting, disk, history, faults>>

-----------------------------------------------------------------------------
(* savePersistedTasks.                                                     *)

Fail(f) ==
    /\ faults[f] < MaxFaults
    /\ faults' = [faults EXCEPT ![f] = @ + 1]

FirstStep == IF file["main"] = NoFile THEN "commit"
             ELSE IF file["bak"] # NoFile THEN "removeBak2" ELSE "removeBak"

\* The list is serialised; nothing is written if it has not changed.
SaveTasks ==
    LET now == List(listed, magnets \cap listed) IN
    /\ up /\ pc = "idle"
    /\ IF now = written
       THEN quitting /\ pc' = "exit" /\ UNCHANGED out
       ELSE pc' = FirstStep /\ out' = now
    /\ UNCHANGED <<up, session, written, saver, quitting, disk, history, ops, faults>>

FileStep(from, to) ==
    /\ up /\ pc = from /\ pc' = to
    /\ UNCHANGED <<up, session, written, out, saver, quitting, rd, history, ops, faults>>

RemoveBak2 ==
    /\ FileStep("removeBak2", "copyBak2")
    /\ file' = [file EXCEPT !["bak2"] = NoFile]

CopyBak2 ==
    /\ FileStep("copyBak2", "removeBak")
    /\ file' = [file EXCEPT !["bak2"] = file["bak"]]

\* Mutant of RemoveBak: the older backup goes with the newer one.
RemoveBothBaks ==
    /\ FileStep("removeBak", "copyBak")
    /\ file' = [file EXCEPT !["bak"] = NoFile, !["bak2"] = NoFile]

RemoveBak ==
    /\ FileStep("removeBak", "copyBak")
    /\ file' = [file EXCEPT !["bak"] = NoFile]

CopyBak ==
    /\ FileStep("copyBak", "commit")
    /\ file' = [file EXCEPT !["bak"] = file["main"]]

AfterSave == IF quitting THEN "exit" ELSE "idle"

\* Mutant of Commit: a list whose write failed is remembered as written.
CommitRemembersFailure ==
    /\ up /\ pc = "commit" /\ pc' = AfterSave
    /\ written' = out
    /\ \/ /\ file' = [file EXCEPT !["main"] = out]
          /\ committed' = out
          /\ saves' = IF saves < 2 THEN saves + 1 ELSE saves
          /\ UNCHANGED faults
       \/ /\ "writeFails" \in Faults /\ Fail("writeFails")
          /\ UNCHANGED <<file, committed, saves>>
    /\ UNCHANGED <<up, session, out, saver, quitting, rd, ops>>

\* QSaveFile: the new contents replace the file in one rename, or the write
\* fails and leaves the file alone; only then is the list remembered.
Commit ==
    /\ up /\ pc = "commit" /\ pc' = AfterSave
    /\ \/ /\ file' = [file EXCEPT !["main"] = out]
          /\ written' = out
          /\ committed' = out
          /\ saves' = IF saves < 2 THEN saves + 1 ELSE saves
          /\ UNCHANGED faults
       \/ /\ "writeFails" \in Faults /\ Fail("writeFails")
          /\ UNCHANGED <<file, written, committed, saves>>
    /\ UNCHANGED <<up, session, out, saver, quitting, rd, ops>>

-----------------------------------------------------------------------------
(* saveResumeData and the worker's save_resume_data_alert.                 *)

\* Without tasks the worker is not asked and the files are swept at once.
SaveResumeData ==
    /\ up /\ pc = "idle" /\ ~quitting
    /\ IF listed = {} THEN pc' = "sweep" /\ UNCHANGED toSave
                      ELSE pc' = "waiting" /\ toSave' = live
    /\ UNCHANGED <<up, session, written, out, writing, quitting, disk, history, ops, faults>>

\* Every file is written, or 15 s have passed: the worker goes on writing.
ResumeDataSaved ==
    /\ up /\ pc = "waiting" /\ pc' = "sweep"
    /\ UNCHANGED <<up, session, written, out, saver, quitting, disk, history, ops, faults>>

\* Files of tasks that no longer exist are removed.
Sweep ==
    /\ up /\ pc = "sweep" /\ pc' = "idle"
    /\ rd' = [t \in Tasks |-> IF t \in listed THEN rd[t] ELSE "none"]
    /\ UNCHANGED <<up, session, written, out, saver, quitting, file, history, ops, faults>>

\* The file is truncated when it is opened, then written, then closed.  The
\* next one is not begun before.
WriteRd(t) ==
    /\ up
    /\ \/ /\ writing = NoFile /\ t \in toSave
          /\ rd' = [rd EXCEPT ![t] = "empty"]
          /\ writing' = t /\ UNCHANGED toSave
       \/ /\ writing = t /\ rd[t] = "empty"
          /\ rd' = [rd EXCEPT ![t] = "torn"]
          /\ UNCHANGED <<saver>>
       \/ /\ writing = t /\ rd[t] = "torn"
          /\ rd' = [rd EXCEPT ![t] = "good"]
          /\ writing' = NoFile /\ toSave' = toSave \ {t}
    /\ UNCHANGED <<up, session, written, pc, out, quitting, file, history, ops, faults>>

-----------------------------------------------------------------------------
(* The end of a process and the start of the next.                         *)

\* aboutToQuit saves the list and skips the resume data.
Quit ==
    /\ up /\ pc = "idle" /\ ~quitting
    /\ quitting' = TRUE
    /\ UNCHANGED <<up, session, saver, written, pc, out, disk, history, ops, faults>>

Exit ==
    /\ up /\ pc = "exit"
    /\ up' = FALSE /\ Forget
    /\ UNCHANGED <<disk, history, ops, faults>>

Crash ==
    /\ up
    /\ up' = FALSE /\ Forget
    /\ Fail("crash")
    /\ UNCHANGED <<disk, history, ops>>

\* The bytes of tasks.json change behind the program's back.
Corrupt ==
    /\ "corruption" \in Faults /\ ~up
    /\ file["main"] # NoFile
    /\ file' = [file EXCEPT !["main"].ok = FALSE]
    /\ Fail("corruption")
    /\ UNCHANGED <<up, memory, rd, history, ops>>

\* Mutant of Readable: the backups are preferred to the file.
ReadableBackupFirst == IF file["bak"] # NoFile THEN file["bak"]
                       ELSE IF file["bak2"] # NoFile THEN file["bak2"]
                       ELSE file["main"]

\* readWholeFileWithRecovery: the first copy that exists.
Readable == IF file["main"] # NoFile THEN file["main"]
            ELSE IF file["bak"] # NoFile THEN file["bak"] ELSE file["bak2"]

\* metaByTaskKey: a list whose checksum does not match is not loaded.
Loaded == IF Readable = NoFile THEN List({}, {})
          ELSE IF Readable.ok THEN Readable ELSE List({}, {})

\* The tasks restored from a .rd file: the file has an entry in the list and
\* is not empty ...
FromResumeData == {t \in Loaded.tasks : rd[t] \in {"torn", "good"}}

\* ... and the others from their magnet links.
FromMagnet == Loaded.magnets \ FromResumeData

\* Mutant of Start: every .rd file is restored, listed or not.
StartRestoresEveryRd ==
    LET fromRd == {t \in Tasks : rd[t] \in {"torn", "good"}} IN
    /\ ~up /\ up' = TRUE
    /\ live' = {t \in fromRd : rd[t] = "good"} \cup (Loaded.magnets \ fromRd)
    /\ listed' = fromRd \cup (Loaded.magnets \ fromRd)
    /\ magnets' = Loaded.magnets
    /\ UNCHANGED <<written, pc, out, saver, quitting, disk, history, ops, faults>>

\* loadPersistedTasks.  Torn resume data are refused by read_resume_data in
\* the worker, when the task is already counted as restored from them.
Start ==
    /\ ~up /\ up' = TRUE
    /\ live' = {t \in FromResumeData : rd[t] = "good"} \cup FromMagnet
    /\ listed' = FromResumeData \cup FromMagnet
    /\ magnets' = Loaded.magnets
    /\ UNCHANGED <<written, pc, out, saver, quitting, disk, history, ops, faults>>

-----------------------------------------------------------------------------

Saving == RemoveBak2 \/ CopyBak2 \/ RemoveBak \/ CopyBak \/ Commit

UiStep == SaveTasks \/ Saving \/ SaveResumeData \/ ResumeDataSaved \/ Sweep

WorkerStep == \E t \in Tasks : WriteRd(t)

UserStep == (\E t \in Tasks : AddTask(t) \/ RemoveTask(t)) \/ Quit

Next == UiStep \/ WorkerStep \/ UserStep \/ Exit \/ Crash \/ Corrupt \/ Start

Spec == Init /\ [][Next]_vars

\* The autosave timer fires again and again (SaveTasks competes with the
\* resume timer, so its fairness is strong); what the UI thread has begun it
\* goes on with, and a process told to quit exits.
Fairness ==
    /\ SF_vars(SaveTasks)
    /\ WF_vars(Saving \/ ResumeDataSaved \/ Sweep \/ Exit)

FairSpec == Spec /\ Fairness

-----------------------------------------------------------------------------
(* Properties.                                                             *)

\* Every variable keeps its type; the session's torrents are listed, magnet
\* links are kept of listed tasks only, and resume data are awaited only of
\* torrents the session has.
TypeOK ==
    /\ up \in BOOLEAN /\ quitting \in BOOLEAN
    /\ listed \subseteq Tasks /\ live \subseteq listed
    /\ magnets \subseteq listed /\ toSave \subseteq live
    /\ writing \in toSave \cup {NoFile}
    /\ written \in Lists \cup {NoFile} /\ out \in Lists \cup {NoFile}
    /\ pc \in {"idle", "removeBak2", "copyBak2", "removeBak", "copyBak",
               "commit", "waiting", "sweep", "exit"}
    /\ file \in [Names -> Lists \cup {NoFile}]
    /\ rd \in [Tasks -> {"none", "empty", "torn", "good"}]
    /\ committed \in Lists /\ saves \in 0..2
    /\ ops \in 0..MaxOps /\ faults \in [AllFaults -> 0..MaxFaults]

\* A crash at any point of a save, or a failed write, costs at most the list
\* that was being saved: the copy the next start reads is the last one saved.
LastSavedIsRead ==
    saves > 0 /\ faults["corruption"] = 0 => Readable = committed

\* writeWholeFileWithBackup never leaves the primary file without a copy: from
\* the second save on a backup exists whatever step a crash interrupts.
BackupExists == saves = 2 => file["bak"] # NoFile \/ file["bak2"] # NoFile

\* "This prevents deleted tasks with stale .rd files from reappearing"
\* (loadPersistedTasks): a start brings back only tasks of the last list saved.
NoResurrection == [][~up /\ up' => live' \subseteq committed.tasks]_vars

\* A change of the task list is saved sooner or later, also when the first
\* attempt to write it fails.
EventuallySaved == up ~> (~up \/ committed.tasks = listed)

\* "Fallback to magnet URI for tasks without resume data" (loadPersistedTasks):
\* a saved task whose magnet link is known is back after every start.
EveryTaskRestored ==
    [][~up /\ up' => committed.magnets \subseteq live']_vars

=============================================================================
