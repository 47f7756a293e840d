------------------------------ MODULE TaskTable ------------------------------
(***************************************************************************)
(* The table of the transfer page and its context menu.                    *)
(*                                                                         *)
(* Every refresh (TaskStore) replaces the rows: the snapshots are filtered *)
(* and sorted anew, so that a row number means another task afterwards.    *)
(* The selection, the current row and the task of the detail panel are     *)
(* carried over by task id.  Qt's selection model reports changes while    *)
(* the rows are being replaced, when the list of snapshots is already the  *)
(* new one and the row numbers are still the old ones.                     *)
(*                                                                         *)
(* The context menu runs the event loop: the table is refreshed under it,  *)
(* and the menu acts on the snapshots it copied when it was opened.        *)
(*                                                                         *)
(* Sort keys change with every snapshot, so a refresh may leave the rows   *)
(* in any order.                                                           *)
(***************************************************************************)
EXTENDS Naturals, Sequences, SequencesExt, FiniteSets, FiniteSetsExt

CONSTANTS
    Tasks,     \* task ids
    NoTask,    \* the null id
    Shown,     \* statuses that occur: a subset of Status
    Filters    \* filters that are used: a subset of the ones of Match

VARIABLES
    snaps,     \* MainWindow::snapshots_: task -> status, "absent" if none
    filter,    \* the checked filter button
    rows,      \* displayedSnapshots_: the tasks of the rows
    sel,       \* selected rows
    cur,       \* current row, 0 if none
    focus,     \* lastFocusedTaskId_
    memory,    \* memoryTaskId_ in memory mode, NoTask otherwise
    detail,    \* the task the detail panel shows
    menu,      \* the open context menu, or NoMenu
    queue,     \* the session's queue: tasks in the order of their positions
    mine       \* history: what was selected after the last step of the user

tableVars == <<rows, sel, cur, focus, memory, detail>>
vars == <<snaps, filter, tableVars, menu, queue, mine>>

Absent == "absent"
Status == {"unknown", "queued", "checking", "downloading", "seeding",
           "paused", "finished", "error"}

NoMenu == [anchor |-> NoTask, picked |-> {}]

TasksAt(rs) == {rows[r] : r \in rs}

RowOf(seq, t) == IF Contains(seq, t) THEN CHOOSE r \in DOMAIN seq : seq[r] = t ELSE 0

\* Tasks are only compared: for the model checker.
Symmetry == Permutations(Tasks)

Running == {"downloading", "checking", "queued", "seeding"}
Stopped == {"paused", "finished", "error"}

\* matchFilter.  Three filters match nothing.
Match(f, st) ==
    CASE f = "all" -> TRUE
      [] f \in {"downloading", "seeding", "finished", "checking", "paused"} -> st = f
      [] f \in {"error", "errorDetail"} -> st = "error"
      [] f \in {"running", "active"} -> st \in Running
      [] f = "stopped" -> st \in Stopped
      [] f = "idle" -> st = "queued"
      [] OTHER -> FALSE

Visible(s, f) == {t \in Tasks : s[t] # Absent /\ Match(f, s[t])}

Init ==
    /\ snaps = [t \in Tasks |-> Absent]
    /\ filter = "all"
    /\ rows = <<>> /\ sel = {} /\ cur = 0
    /\ focus = NoTask /\ memory = NoTask /\ detail = NoTask
    /\ menu = NoMenu
    /\ queue \in SetToSeqs(Tasks)
    /\ mine = {}

-----------------------------------------------------------------------------
(* The refresh.                                                            *)

\* captureTableSelection: the ids of the selected rows, and an anchor among
\* them: the current task, else the last focused one, else any.  With nothing
\* selected the current row counts as selected.
CapturedIds ==
    IF sel = {} /\ cur # 0 THEN TasksAt({cur}) ELSE TasksAt(sel)

CapturedAnchors ==
    IF cur # 0 /\ rows[cur] \in CapturedIds THEN {rows[cur]}
    ELSE IF focus \in CapturedIds THEN {focus}
    ELSE IF CapturedIds # {} THEN CapturedIds ELSE {NoTask}

\* The rows beyond the n that remain are removed one by one from the end.  The
\* selection model moves the current row up with them and reports each selected
\* row it drops; the handler then looks the current row up in the new list.
FocusAfterRemovals(new) ==
    LET n == Len(new)
        c == IF cur > n THEN n ELSE cur
    IN  IF /\ c \in sel
           /\ \E r \in sel : r > n /\ (cur <= n \/ r = n + 1)
        THEN new[c] ELSE focus

\* Mutant of Restore: the selection is carried over by row number.
RestoreByRow(new, ids, anchor, last) ==
    /\ sel' = sel \cap DOMAIN new
    /\ cur' = IF cur \in DOMAIN new THEN cur ELSE 0
    /\ focus' = last

\* restoreTableSelection: the captured tasks that are still visible are
\* selected again.  The anchor becomes current; if it has gone, the last
\* focused task does, and is selected if no other is.
Restore(new, ids, anchor, last) ==
    LET kept == {r \in DOMAIN new : new[r] \in ids}
        wanted == IF Contains(new, anchor) THEN anchor ELSE last
        target == IF RowOf(new, wanted) # 0 THEN RowOf(new, wanted)
                  ELSE IF kept # {} THEN Min(kept) ELSE 0
    IN  /\ sel' = IF kept # {} \/ target = 0 THEN kept ELSE {target}
        /\ cur' = target
        /\ focus' = IF target # 0 THEN new[target] ELSE last

\* Mutant of UpdateDetail: the panel keeps a task that has left the table.
UpdateDetailUnlessEmpty(new, c, mem) ==
    /\ detail' = IF c # 0 THEN new[c] ELSE detail
    /\ memory' = IF c = 0 /\ ~Contains(new, mem) THEN NoTask ELSE mem

\* updateDetailForSelection: the current row, or else the remembered task.
UpdateDetail(new, c, mem) ==
    /\ detail' = IF c # 0 THEN new[c]
                 ELSE IF Contains(new, mem) THEN mem ELSE NoTask
    /\ memory' = IF c = 0 /\ ~Contains(new, mem) THEN NoTask ELSE mem

\* The rows in the order of the sort column, whose keys the model leaves open.
Sorted(ts) == SetToSeqs(ts)

\* setSnapshots, and the copy MainWindow takes of the rows.
SetSnapshots(s, f) ==
    /\ \E new \in Sorted(Visible(s, f)) :
        /\ rows' = new
        /\ IF memory # NoTask
           THEN sel' = {} /\ cur' = 0 /\ UNCHANGED focus
           ELSE \E anchor \in CapturedAnchors :
                    Restore(new, CapturedIds, anchor, FocusAfterRemovals(new))
        /\ UpdateDetail(new, cur', memory)
    /\ UNCHANGED <<menu, queue, mine>>

\* Bound: from one refresh to the next one task appears or changes its status,
\* or any number of them is removed.
Refreshed ==
    {[snaps EXCEPT ![t] = s] : t \in Tasks, s \in Shown}
    \cup {[t \in Tasks |-> IF t \in gone THEN Absent ELSE snaps[t]] : gone \in SUBSET Tasks}

\* The refresh timer, menu open or not.
RefreshTasks ==
    /\ snaps' \in Refreshed
    /\ SetSnapshots(snaps', filter)
    /\ UNCHANGED filter

-----------------------------------------------------------------------------
(* The user, while no menu is open.                                        *)

Idle == menu = NoMenu

\* Every step of the user ends by noting what is selected now.
Noted == mine' = {rows[r] : r \in sel'}

\* Another filter button, or another name to search for: the snapshots of the
\* last refresh are shown again.
SetFilter(f) ==
    /\ menu = NoMenu /\ f # filter
    /\ filter' = f
    /\ SetSnapshots(snaps, f)
    /\ UNCHANGED snaps

\* currentCellChanged, or selectionChanged alone if the row was current before.
MakeCurrent(r) ==
    /\ cur' = r
    /\ focus' = IF r # cur \/ (r \in sel' /\ sel' # sel) THEN rows[r] ELSE focus
    /\ memory' = IF r # cur THEN NoTask ELSE memory
    /\ detail' = rows[r]

Click(r) ==
    /\ Idle
    /\ sel' = {r}
    /\ MakeCurrent(r)
    /\ Noted
    /\ UNCHANGED <<snaps, filter, rows, menu, queue>>

CtrlClick(r) ==
    /\ Idle
    /\ sel' = IF r \in sel THEN sel \ {r} ELSE sel \cup {r}
    /\ MakeCurrent(r)
    /\ Noted
    /\ UNCHANGED <<snaps, filter, rows, menu, queue>>

\* Ctrl+A: the last row becomes current.
SelectAll ==
    /\ rows # <<>>
    /\ Idle
    /\ sel' = DOMAIN rows
    /\ MakeCurrent(Len(rows))
    /\ Noted
    /\ UNCHANGED <<snaps, filter, rows, menu, queue>>

\* A click beside the rows: the detail panel remembers the current task.
ClickEmpty ==
    /\ Idle
    /\ sel' = {} /\ cur' = 0
    /\ IF cur # 0
       THEN /\ memory' = rows[cur] /\ focus' = rows[cur]
            /\ detail' = rows[cur]
       ELSE UNCHANGED <<memory, focus, detail>>
    /\ Noted
    /\ UNCHANGED <<snaps, filter, rows, menu, queue>>

\* showTaskContextMenu, up to menu.exec: the selected snapshots are copied.
OpenMenu(r) ==
    /\ Idle
    /\ sel' = IF r \in sel THEN sel ELSE {r}
    /\ MakeCurrent(r)
    /\ menu' = [anchor |-> rows[r],
                picked |-> {<<t, snaps[t]>> : t \in {rows[i] : i \in sel'}}]
    /\ UNCHANGED <<snaps, filter, rows, queue, mine>>

-----------------------------------------------------------------------------
(* The menu's choices.                                                     *)

Picked == {p[1] : p \in menu.picked}

Choose ==
    /\ menu # NoMenu
    /\ menu' = NoMenu
    /\ UNCHANGED <<snaps, filter, tableVars, mine>>

\* Dismissed, or an operation that is sent for the picked tasks, or for those
\* of them with a certain status; what it does is in TaskStore.
Dismiss == Choose /\ UNCHANGED queue

\* Mutant of MoveTop: the old position is not given up.
MoveTopTwice(q, t) == <<t>> \o q

\* queue_position_top, _bottom, _up and _down.
Without(q, t) == RemoveAt(q, RowOf(q, t))
MoveTop(q, t) == <<t>> \o Without(q, t)
MoveBottom(q, t) == Append(Without(q, t), t)

Swap(q, i, j) == [q EXCEPT ![i] = q[j], ![j] = q[i]]

\* Mutant of MoveUp: one step in the other direction.
MoveUpDown(q, t) ==
    LET i == RowOf(q, t) IN IF i = Len(q) THEN q ELSE Swap(q, i, i + 1)

MoveUp(q, t) ==
    LET i == RowOf(q, t) IN IF i = 1 THEN q ELSE Swap(q, i - 1, i)
MoveDown(q, t) ==
    LET i == RowOf(q, t) IN IF i = Len(q) THEN q ELSE Swap(q, i, i + 1)

\* One command for each task, in the order of selectedRows, which Qt leaves open.
Commands(ts) == SetToSeqs(ts)

\* Start: the picked tasks that were stopped.  A resumed torrent is moved to
\* the top of the queue.
StartPicked ==
    /\ Choose
    /\ \E p \in menu.picked : p[2] \in Stopped
    /\ \E order \in Commands({p[1] : p \in {q \in menu.picked : q[2] \in Stopped}}) :
         queue' = FoldLeft(MoveTop, queue, order)

QueueTop == Choose /\ \E c \in Commands(Picked) : queue' = FoldLeft(MoveTop, queue, c)
QueueBottom == Choose /\ \E c \in Commands(Picked) : queue' = FoldLeft(MoveBottom, queue, c)
QueueUp == Choose /\ \E c \in Commands(Picked) : queue' = FoldLeft(MoveUp, queue, c)
QueueDown == Choose /\ \E c \in Commands(Picked) : queue' = FoldLeft(MoveDown, queue, c)

-----------------------------------------------------------------------------
Next ==
    \/ RefreshTasks
    \/ \E f \in Filters : SetFilter(f)
    \/ \E r \in DOMAIN rows : Click(r) \/ CtrlClick(r) \/ OpenMenu(r)
    \/ SelectAll \/ ClickEmpty
    \/ Dismiss \/ StartPicked
    \/ QueueTop \/ QueueBottom \/ QueueUp \/ QueueDown

Spec == Init /\ [][Next]_vars

-----------------------------------------------------------------------------
(* Properties                                                              *)

\* Every variable has the type of its member.
TypeOK ==
    /\ snaps \in [Tasks -> Status \cup {Absent}]
    /\ filter \in Filters
    /\ \A i, j \in DOMAIN rows : rows[i] \in Tasks /\ (rows[i] = rows[j] => i = j)
    /\ sel \subseteq DOMAIN rows
    /\ cur \in DOMAIN rows \cup {0}
    /\ {focus, memory, detail} \subseteq Tasks \cup {NoTask}
    /\ Picked \subseteq Tasks
    /\ ToSet(queue) = Tasks /\ Len(queue) = Cardinality(Tasks)
    /\ mine \subseteq Tasks

\* The rows are what the filter leaves of the snapshots, and the detail panel
\* shows the task of the current row, or the remembered one, or nothing.
TableConsistent ==
    /\ ToSet(rows) = Visible(snaps, filter)
    /\ detail = IF cur # 0 THEN rows[cur] ELSE memory
    /\ memory # NoTask => cur = 0 /\ sel = {} /\ memory \in ToSet(rows)

\* While one selected task stays visible, a refresh or a filter leaves exactly
\* those selected that were selected before and are still visible.
SelectionKept ==
    [][LET before == TasksAt(sel)
           after == {rows'[r] : r \in sel'}
       IN  /\ <<snaps, filter>>' # <<snaps, filter>>
           /\ before \cap ToSet(rows') # {}
           => after = before \cap ToSet(rows')]_<<rows, sel>>

\* A refresh does not take the detail panel away from a selected task.
DetailKept ==
    [][rows' # rows /\ cur # 0 /\ cur \in sel /\ Contains(rows', rows[cur])
       => detail' = rows[cur]]_vars

\* A menu acts on tasks the user has selected, or clicked to open it.
PicksMine == menu # NoMenu => Picked \subseteq mine \cup {menu.anchor}

Above(q, t, u) == RowOf(q, t) < RowOf(q, u)

\* Commands of the queue menu leave the tasks that were not picked in their
\* order, and none of them takes a picked task past another the wrong way, in
\* whatever order the picked tasks are handled.
QueueMoves ==
    [][\A u \in Tasks \ Picked :
        /\ \A v \in Tasks \ Picked : Above(queue', u, v) <=> Above(queue, u, v)
        /\ \A t \in Picked :
            /\ QueueTop \/ QueueUp \/ StartPicked =>
                (Above(queue, t, u) => Above(queue', t, u))
            /\ QueueBottom \/ QueueDown =>
                (Above(queue, u, t) => Above(queue', u, t))]_queue
=============================================================================
