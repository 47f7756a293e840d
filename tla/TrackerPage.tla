---------------------------- MODULE TrackerPage ----------------------------
(***************************************************************************)
(* The tracker page of a task: its trackers, and the commands that change  *)
(* them.                                                                   *)
(*                                                                         *)
(* While the page is visible a timer reads the trackers again, every third *)
(* second.  The rows that are unfolded stay so: a reload clears the tree,  *)
(* and so does the sort that follows it.  The page asks for a URL in a     *)
(* dialog that runs the event loop; the task is the one that has the focus *)
(* when the dialog is left.                                                *)
(*                                                                         *)
(* The worker edits the list of a torrent as a whole: it reads it, changes *)
(* it and replaces it.                                                     *)
(***************************************************************************)
EXTENDS Naturals, Sequences, SequencesExt, FiniteSets

CONSTANTS
    Tasks,        \* task ids
    Urls,         \* URLs of trackers
    MaxOps,       \* bound: steps of the user and changes of the focus
    MaxTimeouts   \* bound: answers of the worker that are waited for in vain

VARIABLES
    session,      \* by task: the URLs of the trackers, in the order of the tiers
    contacted,    \* by task: the trackers that have answered
    cmds,         \* commands to the worker, oldest first
    taskId,       \* taskId_
    rows,         \* tree_: the task it was asked for, URLs and status
    expanded,     \* the URLs whose rows are unfolded
    visible,      \* the page is shown
    ticking,      \* refreshTimer_ is active
    tick,         \* refreshTick_
    dialog,       \* the dialog or menu: what it is for, and on which task
    ops, timeouts

pageVars == <<taskId, rows, expanded, visible, ticking, tick, dialog>>
vars == <<session, contacted, cmds, pageVars, ops, timeouts>>

Nothing == "none"
EmptyTree == [task |-> Nothing, urls |-> <<>>, working |-> {}]
NoDialog == [op |-> Nothing, url |-> Nothing, task |-> Nothing]

Init ==
    /\ session = [t \in Tasks |-> SetToSeq(Urls \ {CHOOSE u \in Urls : TRUE})]
    /\ contacted = [t \in Tasks |-> {}]
    /\ cmds = <<>>
    /\ taskId = Nothing /\ rows = EmptyTree /\ expanded = {}
    /\ visible = FALSE /\ ticking = FALSE /\ tick = 0
    /\ dialog = NoDialog
    /\ ops = 0 /\ timeouts = 0

-----------------------------------------------------------------------------
(* The worker.                                                             *)

\* External: a URL that is in the list before is dropped.
Distinct(urls) ==
    FoldLeft(LAMBDA kept, u : IF u \in ToSet(kept) THEN kept ELSE Append(kept, u), <<>>, urls)

\* The list without some URLs, in its order.
Without(urls, gone) ==
    FoldLeft(LAMBDA kept, u : IF u \in gone THEN kept ELSE Append(kept, u), <<>>, urls)

\* Mutant of Edited: the first tracker is removed.
EditedFirst(urls, c) ==
    CASE c.op = "add" -> Append(urls, c.new)
      [] c.op = "edit" -> [i \in DOMAIN urls |-> IF urls[i] = c.url THEN c.new ELSE urls[i]]
      [] c.op = "remove" -> Tail(urls)
      [] OTHER -> urls

\* AddTaskTracker, EditTaskTracker and RemoveTaskTracker on the list of URLs.
Edited(urls, c) ==
    CASE c.op = "add" -> Append(urls, c.new)
      [] c.op = "edit" -> [i \in DOMAIN urls |-> IF urls[i] = c.url THEN c.new ELSE urls[i]]
      [] c.op = "remove" -> Without(urls, {c.url})
      [] OTHER -> urls

\* A command for no task is dropped.  mergedTrackers numbers the tiers by the
\* place in the list.
Handle(s, c) ==
    IF c.task = Nothing THEN s ELSE [s EXCEPT ![c.task] = Distinct(Edited(@, c))]

\* A tracker that was replaced has not answered yet.
Kept(con, s) == [t \in Tasks |-> con[t] \cap ToSet(s[t])]

HandleCmd ==
    /\ cmds # <<>>
    /\ session' = Handle(session, Head(cmds))
    /\ contacted' = Kept(contacted, session')
    /\ cmds' = Tail(cmds)
    /\ UNCHANGED <<pageVars, ops, timeouts>>

\* External: a tracker answers.
Answers(t, u) ==
    /\ u \in ToSet(session[t]) /\ u \notin contacted[t]
    /\ contacted' = [contacted EXCEPT ![t] = @ \cup {u}]
    /\ UNCHANGED <<session, cmds, pageVars, ops, timeouts>>

-----------------------------------------------------------------------------
(* The tree.                                                               *)

\* Mutant of Unfolded: the rows are folded by the sort.
UnfoldedNone(urls) == {}

\* reload and applySavedSortIndicator unfold what was unfolded.
Unfolded(urls) == expanded \cap ToSet(urls)

\* QueryTaskTrackersCmd: the trackers in the order of the list, and which of
\* them have answered.
Queried(t, urls, con) == [task |-> t, urls |-> urls[t], working |-> con[t]]

\* reload.  The worker answers after the commands before it, or is waited for
\* in vain: then there are no rows.
Reload(t, queue) ==
    \/ /\ t = Nothing
       /\ rows' = EmptyTree /\ expanded' = {} /\ cmds' = queue
       /\ UNCHANGED <<session, contacted, timeouts>>
    \/ /\ t # Nothing
       /\ session' = FoldLeft(Handle, session, queue)
       /\ contacted' = Kept(contacted, session')
       /\ cmds' = <<>>
       /\ rows' = Queried(t, session', contacted')
       /\ expanded' = Unfolded(session'[t])
       /\ UNCHANGED timeouts
    \/ /\ t # Nothing /\ timeouts < MaxTimeouts
       /\ timeouts' = timeouts + 1
       /\ rows' = EmptyTree /\ expanded' = {} /\ cmds' = queue
       /\ UNCHANGED <<session, contacted>>

Op == ops < MaxOps /\ ops' = ops + 1

\* Mutant of SetSnapshot: a page that is hidden is not loaded.
SetSnapshotVisible(t) ==
    /\ Op
    /\ t # taskId
    /\ taskId' = t
    /\ IF visible THEN Reload(t, cmds)
       ELSE UNCHANGED <<session, contacted, cmds, rows, expanded, timeouts>>
    /\ UNCHANGED <<visible, ticking, tick, dialog>>

\* setSnapshot, or clear when no task has the focus.  For the task the page is
\* on it does nothing.
SetSnapshot(t) ==
    /\ Op
    /\ t # taskId
    /\ taskId' = t
    /\ Reload(t, cmds)
    /\ UNCHANGED <<visible, ticking, tick, dialog>>

\* Mutant of ShowEvent: the timer is not started.
ShowEventStill ==
    /\ Op
    /\ ~visible
    /\ visible' = TRUE /\ ticking' = ticking
    /\ Reload(taskId, cmds)
    /\ UNCHANGED <<taskId, tick, dialog>>

ShowEvent ==
    /\ Op
    /\ ~visible
    /\ visible' = TRUE /\ ticking' = TRUE
    /\ Reload(taskId, cmds)
    /\ UNCHANGED <<taskId, tick, dialog>>

HideEvent ==
    /\ Op
    /\ visible
    /\ visible' = FALSE /\ ticking' = FALSE
    /\ UNCHANGED <<session, contacted, cmds, taskId, rows, expanded, tick, dialog, timeouts>>

\* The seconds to the next announces are counted down in place; a sort they
\* cause folds the rows, which are unfolded again.
CountedDown ==
    /\ expanded' = Unfolded(rows.urls)
    /\ UNCHANGED <<session, contacted, cmds, rows, timeouts>>

\* refreshTimer_
Tick ==
    /\ ticking /\ visible /\ taskId # Nothing
    /\ IF tick >= 2
       THEN tick' = 0 /\ Reload(taskId, cmds)
       ELSE tick' = tick + 1 /\ CountedDown
    /\ UNCHANGED <<taskId, visible, ticking, dialog, ops>>

-----------------------------------------------------------------------------
(* The user.                                                               *)

Fold(u) ==
    /\ Op
    /\ visible /\ u \in ToSet(rows.urls)
    /\ expanded' = IF u \in expanded THEN expanded \ {u} ELSE expanded \cup {u}
    /\ UNCHANGED <<session, contacted, cmds, taskId, rows, visible, ticking, tick, dialog,
                   timeouts>>

\* The button, or the menu on a tracker, which takes the URL.
OpenDialog(op, u) ==
    /\ Op
    /\ visible /\ dialog = NoDialog /\ taskId # Nothing
    /\ IF op = "add" THEN u = Nothing ELSE u \in ToSet(rows.urls)
    /\ dialog' = [op |-> op, url |-> u, task |-> taskId]
    /\ UNCHANGED <<session, contacted, cmds, taskId, rows, expanded, visible, ticking, tick,
                   timeouts>>

\* A URL that is refused, or the same, sends nothing.
LeaveDialog ==
    /\ dialog # NoDialog
    /\ dialog' = NoDialog
    /\ UNCHANGED <<session, contacted, cmds, taskId, rows, expanded, visible, ticking, tick,
                   ops, timeouts>>

\* actionAddTracker, actionEditTracker and actionRemoveTracker.
AcceptDialog(new) ==
    /\ dialog # NoDialog /\ new # dialog.url
    /\ dialog.op = "remove" <=> new = Nothing
    /\ Reload(taskId, Append(cmds, [op |-> dialog.op, task |-> taskId, url |-> dialog.url,
                                    new |-> new]))
    /\ dialog' = NoDialog
    /\ UNCHANGED <<taskId, visible, ticking, tick, ops>>

Next ==
    \/ HandleCmd \/ Tick
    \/ \E t \in Tasks, u \in Urls : Answers(t, u)
    \/ \E t \in Tasks \cup {Nothing} : SetSnapshot(t)
    \/ ShowEvent \/ HideEvent
    \/ \E u \in Urls : Fold(u)
    \/ \E op \in {"add", "edit", "remove"}, u \in Urls \cup {Nothing} : OpenDialog(op, u)
    \/ LeaveDialog
    \/ \E u \in Urls \cup {Nothing} : AcceptDialog(u)

\* The worker's loop and the timer do not stop.
Fairness == WF_vars(HandleCmd) /\ WF_vars(Tick)

Spec == Init /\ [][Next]_vars /\ Fairness

-----------------------------------------------------------------------------
(* Properties                                                              *)

\* No tracker is in a list twice, rows are unfolded that are there, and the
\* timer runs for a visible page.
TypeOK ==
    /\ \A t \in Tasks : Cardinality(ToSet(session[t])) = Len(session[t])
    /\ expanded \subseteq ToSet(rows.urls)
    /\ tick \in 0 .. 2 /\ ticking = visible

\* The rows on the screen are of the task that the commands go to.
RowsOfTask == rows.task \in {taskId, Nothing}

\* What is on the screen follows the session: when nothing is done any more,
\* a visible page shows the trackers and which of them work.
RowsFollow ==
    <>[](visible /\ taskId # Nothing =>
            rows = Queried(taskId, session, contacted))

\* The trackers that no command, on its way or just entered, names stay, in
\* their order.
Named == UNION {{cmds[i].url, cmds[i].new} : i \in DOMAIN cmds}

OthersKept ==
    [][\E new \in Urls : \A t \in Tasks :
            LET named == Named \cup {dialog.url, new}
            IN  Without(session[t], named) = Without(session'[t], named)]_vars

\* A row that is unfolded is only folded by the user, as long as the task and
\* the tracker stay and the worker answers.
StaysUnfolded ==
    [][\A u \in expanded :
            \/ u \in expanded'
            \/ rows' = EmptyTree
            \/ u \notin ToSet(rows'.urls)
            \/ rows' = rows]_vars

=============================================================================
