------------------------------ MODULE TaskStore ------------------------------
(***************************************************************************)
(* The task list: from libtorrent's alerts to the rows of the table.       *)
(*                                                                         *)
(* The worker thread pops alerts, turns them into views and posts each     *)
(* batch to the UI thread.  There EventIngestOrchestrator maps views to    *)
(* events and TaskStateStore applies them to the snapshots; a refresh, at  *)
(* most one every 100 ms, copies the snapshots into the table.  The UI     *)
(* writes into the same store: a click on "stop" shows its effect at once  *)
(* and a lock keeps updates that are already under way from undoing it.    *)
(*                                                                         *)
(* Menus and message boxes run the event loop, so that batches are         *)
(* ingested while they are open.                                           *)
(*                                                                         *)
(* Of a snapshot the status is kept; names, sizes and rates are left out.  *)
(***************************************************************************)
EXTENDS Naturals, Sequences, SequencesExt, FiniteSets

CONSTANTS
    Tasks,     \* task ids
    Phases,    \* states of a running torrent: subset of the ones of Mapped
    MaxOps,    \* bound: operations of the user
    MaxTurns   \* bound: changes of state that libtorrent makes by itself

VARIABLES
    session,   \* external: task -> its torrent
    changed,   \* external: torrents the next state_update alert reports
    alerts,    \* external: alerts not yet popped, as the views they become
    known,     \* handlesByTaskId: tasks with a handle
    cmds,      \* the worker's queue
    posted,    \* batches posted to the UI thread
    store,     \* TaskStateStore::tasks_: task -> status, "absent" if none
    lock,      \* statusLockUntilMs_: "none", "held" or "over"
    notified,  \* notifiedFinished_
    notices,   \* message boxes "already in the list" that are open
    refresh,   \* RefreshScheduler: its timer runs
    shown,     \* displayedSnapshots_ of the table
    menu,      \* the context menu: the row it was opened on, or NoMenu
    ops, turns,
    gaps       \* history: tasks the list is wrong about, see StoreFollows

sessionVars == <<session, changed, alerts>>
uiVars == <<store, lock, notified, notices, refresh, shown, menu>>
vars == <<sessionVars, known, cmds, posted, uiVars, ops, turns, gaps>>

Absent == "absent"
Status == {"unknown", "queued", "checking", "downloading", "seeding",
           "paused", "finished", "error"}

Gone == [there |-> FALSE, phase |-> "downloading", paused |-> FALSE]

NoMenu == [task |-> "none", status |-> Absent]

View(kind, t, st) == [kind |-> kind, task |-> t, status |-> st]

\* mapTorrentState: a paused torrent is paused, whatever it was doing.  An
\* error is no state: a torrent with one keeps the phase it is in.
Mapped(s) == IF s.paused THEN "paused" ELSE s.phase

Init ==
    /\ session = [t \in Tasks |-> Gone]
    /\ changed = {} /\ alerts = <<>> /\ known = {}
    /\ cmds = <<>> /\ posted = <<>>
    /\ store = [t \in Tasks |-> Absent]
    /\ lock = [t \in Tasks |-> "none"]
    /\ notified = {} /\ notices = 0
    /\ refresh = FALSE
    /\ shown = [t \in Tasks |-> Absent]
    /\ menu = NoMenu
    /\ ops = 0 /\ turns = 0 /\ gaps = {}

-----------------------------------------------------------------------------
(* External: libtorrent.                                                   *)

Turn ==
    /\ turns < MaxTurns
    /\ turns' = turns + 1
    /\ UNCHANGED <<known, cmds, posted, uiVars, ops, gaps>>

\* A torrent goes on to another phase.
TorrentMoves(t) ==
    /\ session[t].there /\ ~session[t].paused
    /\ \E p \in Phases \ {session[t].phase} :
        session' = [session EXCEPT ![t].phase = p]
    /\ changed' = changed \cup {t}
    /\ UNCHANGED alerts
    /\ Turn

\* A torrent meets an error: one alert, and a change of its status.
TorrentFails(t) ==
    /\ session[t].there
    /\ alerts' = Append(alerts, View("error", t, "error"))
    /\ changed' = changed \cup {t}
    /\ UNCHANGED session
    /\ Turn

-----------------------------------------------------------------------------
(* The worker thread.                                                      *)

\* post_torrent_updates: the torrents that changed report their state of now.
PostTorrentUpdates ==
    /\ changed # {}
    /\ alerts' = alerts \o
        [i \in 1..Cardinality(changed) |->
            LET t == SetToSeq(changed)[i] IN View("progress", t, Mapped(session[t]))]
    /\ changed' = {}
    /\ UNCHANGED <<session, known, cmds, posted, uiVars, ops, turns, gaps>>

\* Mutant of Dispatch: empty batches are posted too.
DispatchEmpty ==
    /\ Len(posted) < 2
    /\ posted' = Append(posted, alerts)
    /\ alerts' = <<>>
    /\ known' = known \cup {alerts[i].task : i \in DOMAIN alerts}
    /\ UNCHANGED <<session, changed, cmds, uiVars, ops, turns, gaps>>

\* pop_alerts and the callback: the handles follow the add and the removed
\* alerts, and the views go to the UI thread as one batch.
Dispatch ==
    /\ alerts # <<>>
    /\ known' = FoldLeft(LAMBDA ks, v :
                            CASE v.kind = "added"   -> ks \cup {v.task}
                              [] v.kind = "removed" -> ks \ {v.task}
                              [] OTHER              -> ks,
                         known, alerts)
    /\ posted' = Append(posted, alerts)
    /\ alerts' = <<>>
    /\ UNCHANGED <<session, changed, cmds, uiVars, ops, turns, gaps>>

TakeCmd(op) ==
    /\ cmds # <<>> /\ Head(cmds).op = op
    /\ cmds' = Tail(cmds)
    /\ UNCHANGED <<known, posted, uiVars, ops, turns, gaps>>

\* A task with a handle is a duplicate and answered at once.  Without a handle
\* libtorrent decides; if the torrent is there after all the add fails.
HandleAdd ==
    /\ TakeCmd("Add")
    /\ LET t == Head(cmds).task IN
        \/ /\ t \in known
           /\ alerts' = <<View("duplicate", t, "unknown")>> \o alerts
           /\ UNCHANGED <<session, changed>>
        \/ /\ t \notin known /\ session[t].there
           /\ alerts' = Append(alerts, View("error", t, "error"))
           /\ UNCHANGED <<session, changed>>
        \/ /\ t \notin known /\ ~session[t].there
           /\ session' = [session EXCEPT ![t] = [Gone EXCEPT !.there = TRUE]]
           /\ alerts' = Append(alerts, View("added", t, "unknown"))
           /\ changed' = changed \cup {t}

SetPaused(t, b) ==
    IF t \in known /\ session[t].there /\ session[t].paused # b
    THEN /\ session' = [session EXCEPT ![t].paused = b]
         /\ changed' = changed \cup {t}
    ELSE UNCHANGED <<session, changed>>

HandlePause ==
    /\ TakeCmd("Pause")
    /\ SetPaused(Head(cmds).task, TRUE)
    /\ UNCHANGED alerts

HandleResume ==
    /\ TakeCmd("Resume")
    /\ SetPaused(Head(cmds).task, FALSE)
    /\ UNCHANGED alerts

HandleRemove ==
    /\ TakeCmd("Remove")
    /\ LET t == Head(cmds).task IN
        IF t \in known /\ session[t].there
        THEN /\ session' = [session EXCEPT ![t] = Gone]
             /\ changed' = changed \ {t}
             /\ alerts' = Append(alerts, View("removed", t, "unknown"))
        ELSE UNCHANGED sessionVars

-----------------------------------------------------------------------------
(* The store.                                                              *)

\* Mutant of Applied: a removal is handled with the other events, which
\* create the entry first.
AppliedKeepsEntry(st, v) ==
    CASE v.kind = "error"  -> "error"
      [] v.kind = "status" -> v.status
      [] v.kind = "progress" /\ v.status # "unknown" -> v.status
      [] OTHER -> IF st = Absent THEN "unknown" ELSE st

\* TaskStateStore::applyEvent on the entry of one task.  Every event but a
\* removal and a duplicate creates the entry if there is none.
Applied(st, v) ==
    CASE v.kind = "duplicate" -> st
      [] v.kind = "removed"   -> Absent
      [] v.kind = "error"     -> "error"
      [] v.kind = "status"    -> v.status
      [] v.kind = "progress" /\ v.status # "unknown" -> v.status
      [] OTHER -> IF st = Absent THEN "unknown" ELSE st

Apply(s, v) == [s EXCEPT ![v.task] = Applied(s[v.task], v)]

\* Mutant of Unlocked: the lock is not asked.
UnlockedAlways(v) == v

\* ingest: a progress event of a locked task loses its status.
Unlocked(v) ==
    IF v.kind = "progress" /\ lock[v.task] = "held"
    THEN [v EXCEPT !.status = "unknown"] ELSE v

\* mapAlertToTaskEvent drops the views of no task; none is modelled.
Events == [i \in DOMAIN Head(posted) |-> Unlocked(Head(posted)[i])]

\* What a batch does to a task's entry: the last event that tells its state
\* makes it right, an error alert or a status that is withheld may not.
Tells(v) == \/ v.kind = "removed"
            \/ v.kind = "progress" /\ v.status # "unknown"

Misleads(v) == \/ v.kind = "error"
               \/ v.kind = "progress" /\ v.status = "unknown"

LastOf(evs, t, P(_)) ==
    \E i \in DOMAIN evs :
        /\ evs[i].task = t /\ P(evs[i])
        /\ \A j \in i+1..Len(evs) :
            evs[j].task = t => ~Tells(evs[j]) /\ ~Misleads(evs[j])

\* Mutant of FinishBatch: seeding tasks are announced, finished ones not.
FinishBatchSeeding(s) ==
    /\ notified' = notified \cup {t \in Tasks : s[t] = "seeding"}
    /\ refresh' = TRUE

\* The tray notifications, and the request for a refresh, that end a batch.
FinishBatch(s) ==
    /\ notified' = notified \cup {t \in Tasks : s[t] = "finished"}
    /\ refresh' = TRUE

\* The callback on the UI thread.  With a duplicate in the batch it waits in a
\* message box after the store has changed.
Ingest ==
    /\ posted # <<>>
    /\ posted' = Tail(posted)
    /\ store' = FoldLeft(Apply, store, Events)
    /\ lock' = [t \in Tasks |->
                 IF lock[t] = "over" /\ \E i \in DOMAIN Events :
                        Events[i].task = t /\ Events[i].kind = "progress"
                 THEN "none" ELSE lock[t]]
    /\ gaps' = {t \in gaps : ~LastOf(Events, t, Tells)}
               \cup {t \in Tasks : LastOf(Events, t, Misleads)}
    /\ IF \E i \in DOMAIN Events : Events[i].kind = "duplicate"
       THEN notices' = notices + 1 /\ UNCHANGED <<notified, refresh>>
       ELSE FinishBatch(store') /\ UNCHANGED notices
    /\ UNCHANGED <<sessionVars, known, cmds, shown, menu, ops, turns>>

\* The user closes the message box opened last.
CloseNotice ==
    /\ notices > 0
    /\ notices' = notices - 1
    /\ FinishBatch(store)
    /\ UNCHANGED <<sessionVars, known, cmds, posted, store, lock, shown, menu,
                   ops, turns, gaps>>

\* One second after the click.
LockExpires(t) ==
    /\ lock[t] = "held"
    /\ lock' = [lock EXCEPT ![t] = "over"]
    /\ UNCHANGED <<sessionVars, known, cmds, posted, store, notified, notices,
                   refresh, shown, menu, ops, turns, gaps>>

\* The scheduler's timer: refreshTasks copies the snapshots.
RefreshTimeout ==
    /\ refresh
    /\ refresh' = FALSE
    /\ shown' = store
    /\ UNCHANGED <<sessionVars, known, cmds, posted, store, lock, notified,
                   notices, menu, ops, turns, gaps>>

-----------------------------------------------------------------------------
(* The user.                                                               *)

Free == notices = 0
Op ==
    /\ ops < MaxOps
    /\ ops' = ops + 1
    /\ UNCHANGED <<sessionVars, known, posted, notified, notices, shown, turns>>

Enqueue(op, t) == cmds' = Append(cmds, [op |-> op, task |-> t])

\* A link or a file is added; its entry appears with the alert.
AddTask(t) ==
    /\ Free /\ menu = NoMenu
    /\ Op
    /\ Enqueue("Add", t)
    /\ UNCHANGED <<store, lock, refresh, menu, gaps>>

\* The context menu keeps the status of the row it was opened on.
OpenMenu(t) ==
    /\ Free /\ menu = NoMenu /\ shown[t] # Absent
    /\ menu' = [task |-> t, status |-> shown[t]]
    /\ UNCHANGED <<sessionVars, known, cmds, posted, store, lock, notified,
                   notices, refresh, shown, ops, turns, gaps>>

\* An event of the user goes straight into the store.
Consume(v) ==
    /\ store' = Apply(store, v)
    /\ refresh' = TRUE
    /\ gaps' = IF store[v.task] = Absent THEN gaps \cup {v.task} ELSE gaps

\* Mutant of InjectTransitionalStatus: no refresh is asked for.
InjectSilently(t, st) ==
    /\ store' = Apply(store, View("status", t, st))
    /\ gaps' = gaps \cup {t}
    /\ lock' = [lock EXCEPT ![t] = "held"]
    /\ UNCHANGED refresh

\* injectTransitionalStatus: the status the click asks for, and its lock.
InjectTransitionalStatus(t, st) ==
    /\ store' = Apply(store, View("status", t, st))
    /\ refresh' = TRUE
    /\ gaps' = gaps \cup {t}
    /\ lock' = [lock EXCEPT ![t] = "held"]

Stopped == {"paused", "finished", "error"}
Running == {"downloading", "seeding", "checking", "queued"}

Choose ==
    /\ Free /\ menu # NoMenu
    /\ menu' = NoMenu
    /\ Op

StartTask ==
    /\ Choose /\ menu.status \in Stopped
    /\ Enqueue("Resume", menu.task)
    /\ InjectTransitionalStatus(menu.task, "queued")

StopTask ==
    /\ Choose /\ menu.status \in Running
    /\ Enqueue("Pause", menu.task)
    /\ InjectTransitionalStatus(menu.task, "paused")

ForceStart ==
    /\ Choose
    /\ Enqueue("Resume", menu.task)
    /\ UNCHANGED <<store, lock, refresh, gaps>>

RemoveTask ==
    /\ Choose
    /\ Enqueue("Remove", menu.task)
    /\ UNCHANGED <<store, lock, refresh, gaps>>

\* Rename, move, category and tags: an event with the new values.
EditMeta ==
    /\ Choose
    /\ Consume(View("meta", menu.task, "unknown"))
    /\ UNCHANGED <<cmds, lock>>

\* Pause all, resume all of the tray: by the status in the store, without
\* showing the effect at once.
BatchOf(op, sts) ==
    LET ts == SetToSeq({t \in Tasks : store[t] \in sts})
    IN  [i \in DOMAIN ts |-> [op |-> op, task |-> ts[i]]]

PauseAll ==
    /\ Op
    /\ cmds' = cmds \o BatchOf("Pause", {"downloading", "seeding"})
    /\ UNCHANGED <<store, lock, refresh, menu, gaps>>

ResumeAll ==
    /\ Op
    /\ cmds' = cmds \o BatchOf("Resume", {"paused"})
    /\ UNCHANGED <<store, lock, refresh, menu, gaps>>

-----------------------------------------------------------------------------
Worker ==
    \/ PostTorrentUpdates \/ Dispatch
    \/ HandleAdd \/ HandlePause \/ HandleResume \/ HandleRemove

Next ==
    \/ Worker \/ Ingest \/ CloseNotice \/ RefreshTimeout
    \/ \E t \in Tasks :
        \/ TorrentMoves(t) \/ TorrentFails(t) \/ LockExpires(t)
        \/ AddTask(t) \/ OpenMenu(t)
    \/ StartTask \/ StopTask \/ ForceStart \/ RemoveTask \/ EditMeta
    \/ PauseAll \/ ResumeAll

Spec == Init /\ [][Next]_vars

-----------------------------------------------------------------------------
(* Properties                                                              *)

\* Every variable has the type of its member.
TypeOK ==
    /\ session \in [Tasks -> [there : BOOLEAN, phase : Phases \cup {"downloading"},
                              paused : BOOLEAN]]
    /\ changed \subseteq {t \in Tasks : session[t].there}
    /\ known \subseteq Tasks
    /\ \A i \in DOMAIN cmds :
        cmds[i] \in [op : {"Add", "Pause", "Resume", "Remove"}, task : Tasks]
    /\ \A i \in DOMAIN posted : posted[i] # <<>>
    /\ store \in [Tasks -> Status \cup {Absent}]
    /\ lock \in [Tasks -> {"none", "held", "over"}]
    /\ notified \subseteq Tasks /\ notices \in 0..MaxOps
    /\ refresh \in BOOLEAN
    /\ shown \in [Tasks -> Status \cup {Absent}]
    /\ menu \in [task : Tasks, status : Status] \cup {NoMenu}
    /\ ops \in 0..MaxOps /\ turns \in 0..MaxTurns /\ gaps \subseteq Tasks

On(seq, t) == \E i \in DOMAIN seq : seq[i].task = t

Quiet(t) ==
    /\ ~On(cmds, t) /\ ~On(alerts, t) /\ t \notin changed
    /\ \A i \in DOMAIN posted : ~On(posted[i], t)

\* Once nothing about a task is under way, the list has it exactly if the
\* session has its torrent, and with its status.  The exceptions, kept in
\* gaps until an update or the removal of the task: the status shown at once
\* after a click, an update whose status the lock withheld, an error alert, and
\* an entry created by an edit of a task that had left the list.
StoreFollows ==
    \A t \in Tasks : Quiet(t) /\ t \notin gaps =>
        store[t] = IF session[t].there THEN Mapped(session[t]) ELSE Absent

\* The table lags behind the store only while the refresh timer runs or a
\* message box holds up the request.
NoLostRefresh == shown # store => refresh \/ notices > 0

\* A finished task was announced, unless a message box holds the batch up.
FinishedAnnounced ==
    notices = 0 => \A t \in Tasks : store[t] = "finished" => t \in notified

\* The list of tasks follows the session, the table follows the list, and what
\* has finished was announced.
TasksFollow == StoreFollows /\ NoLostRefresh /\ FinishedAnnounced

\* While the lock of a task is held, no update of the session replaces the
\* status its click has shown, only an error or the removal.
LockHolds ==
    [][\A t \in Tasks :
        /\ lock[t] = "held" /\ lock'[t] = "held"
        /\ ops' = ops /\ store[t] # Absent
        => store'[t] \in {store[t], "error", Absent}]_vars
=============================================================================
