---------------------------- MODULE ContentPage ----------------------------
(***************************************************************************)
(* The content page of a task: its files as a tree, their priorities and   *)
(* names.                                                                  *)
(*                                                                         *)
(* Every refresh builds the tree anew, also while the context menu or the  *)
(* dialog of a rename is open: both run the event loop.  The menu holds an *)
(* item of the tree it was opened on, the tasks and the selection are read *)
(* when it is left.                                                        *)
(*                                                                         *)
(* The worker is asked for the files and waited for, but not for long; its *)
(* commands are handled in the order they come.  A rename is a job of the  *)
(* disk thread, and the name in the session changes when it is done.       *)
(*                                                                         *)
(* A torrent has one folder.  A path is the name of the folder and the     *)
(* file's own.                                                             *)
(***************************************************************************)
EXTENDS Naturals, Sequences, SequencesExt, FiniteSets

CONSTANTS
    Tasks,      \* task ids
    Files,      \* indices of the files, the same in every torrent
    Offered,    \* levels the menu offers
    Folders,    \* names of folders
    MaxMenus    \* bound: menus that are opened

VARIABLES
    session,    \* by task: path and priority of the files, and sequential
    jobs,       \* renames the disk thread has to do, oldest first
    cmds,       \* commands to the worker, oldest first
    taskId,     \* taskId_
    tree,       \* tree_: the task it was asked for and the rows
    selected,   \* the rows that are selected
    menu,       \* the context menu, or the dialog of a rename
    undefined,  \* an item that is deleted was used
    asked,      \* history: the level last asked for, by task and file
    menus

vars == <<session, jobs, cmds, taskId, tree, selected, menu, undefined, asked, menus>>

None == "none"
Folder == "folder"
Nodes == Files \cup {Folder}

Levels == {"skip", "low", "normal", "high", "highest", "order"}

\* toLtPriority
ToLt(level) == CASE level = "skip" -> 0 [] level = "low" -> 1 [] level = "high" -> 6
                 [] level = "highest" -> 7 [] OTHER -> 4

\* Mutant of ToLevel: the flag is looked at first.
ToLevelFlag(p, sequential) ==
    IF sequential THEN "order" ELSE IF p <= 0 THEN "skip" ELSE IF p >= 7 THEN "highest"
    ELSE IF p >= 6 THEN "high" ELSE IF p >= 4 THEN "normal" ELSE "low"

\* toLevel
ToLevel(p, sequential) ==
    IF p <= 0 THEN "skip" ELSE IF sequential THEN "order" ELSE IF p >= 7 THEN "highest"
    ELSE IF p >= 6 THEN "high" ELSE IF p >= 4 THEN "normal" ELSE "low"

EmptyTree == [task |-> None, rows |-> <<>>]
NoMenu == [is |-> None, node |-> None, path |-> None, stale |-> FALSE,
           task |-> None, picked |-> {}, single |-> FALSE]

Init ==
    /\ session = [t \in Tasks |->
            [folder |-> [f \in Files |-> "d"], prio |-> [f \in Files |-> ToLt("normal")],
             sequential |-> FALSE]]
    /\ jobs = <<>> /\ cmds = <<>>
    /\ taskId = None
    /\ tree = EmptyTree /\ selected = {}
    /\ menu = NoMenu
    /\ undefined = FALSE
    /\ asked = [t \in Tasks |-> [f \in Files |-> "normal"]]
    /\ menus = 0

-----------------------------------------------------------------------------
(* The worker.                                                             *)

\* SetTaskFilePriorityCmd: for the order of the files the torrent is made
\* sequential.
SetPriority(s, c) ==
    [s EXCEPT ![c.task].sequential = @ \/ c.level = "order",
              ![c.task].prio = [f \in Files |-> IF f \in c.files THEN ToLt(c.level) ELSE @[f]]]

\* RenameTaskFileOrFolderCmd on a folder: a job for each file that lies in it
\* under the names the session knows.
RenameJobs(s, c) ==
    SetToSeq({[task |-> c.task, file |-> f, folder |-> c.name] :
                f \in {g \in Files : s[c.task].folder[g] = c.path}})

\* A command for no task, or for one that is gone, is dropped.
Handle(w, c) ==
    IF c.task = None THEN w
    ELSE IF c.op = "priority" THEN [w EXCEPT !.session = SetPriority(@, c)]
    ELSE [w EXCEPT !.jobs = @ \o RenameJobs(w.session, c)]

HandleCmd ==
    /\ cmds # <<>>
    /\ LET w == Handle([session |-> session, jobs |-> jobs], Head(cmds))
       IN  session' = w.session /\ jobs' = w.jobs
    /\ cmds' = Tail(cmds)
    /\ UNCHANGED <<taskId, tree, selected, menu, undefined, asked, menus>>

\* External: the disk thread has renamed the file, or could not.
JobDone ==
    /\ jobs # <<>>
    /\ jobs' = Tail(jobs)
    /\ LET j == Head(jobs)
       IN  session' \in {session, [session EXCEPT ![j.task].folder[j.file] = j.folder]}
    /\ UNCHANGED <<cmds, taskId, tree, selected, menu, undefined, asked, menus>>

-----------------------------------------------------------------------------
(* The tree.                                                               *)

\* QueryTaskFilesCmd: what the worker answers.
Rows(s, t) ==
    [f \in Files |-> [folder |-> s[t].folder[f],
                      level |-> ToLevel(s[t].prio[f], s[t].sequential)]]

\* Mutant of Reselect: the rows that were selected are selected again.
ReselectRows(now) == now

\* reloadTree: the items are deleted, and the selection is gone with them.
Reselect(now) == {}

\* reloadTree.  The answer is waited for until the worker has come through the
\* commands before it, or in vain: then there are no rows.
ReloadTree(t, queue) ==
    /\ selected' = Reselect(selected)
    /\ \/ /\ t # None
          /\ LET w == FoldLeft(Handle, [session |-> session, jobs |-> jobs], queue)
             IN  /\ session' = w.session /\ jobs' = w.jobs
                 /\ tree' = [task |-> t, rows |-> Rows(w.session, t)]
          /\ cmds' = <<>>
       \/ /\ tree' = EmptyTree
          /\ cmds' = queue
          /\ UNCHANGED <<session, jobs>>

\* Mutant of SetSnapshot: the tree is left alone while a menu is open.
SetSnapshotLater(t) ==
    /\ ~undefined
    /\ taskId' = t
    /\ IF menu.is # None THEN UNCHANGED <<session, jobs, cmds, tree, selected>>
       ELSE ReloadTree(t, cmds)
    /\ UNCHANGED <<menu, undefined, asked, menus>>

\* setSnapshot, or clear when no task has the focus.
SetSnapshot(t) ==
    /\ ~undefined
    /\ taskId' = t
    /\ ReloadTree(t, cmds)
    /\ menu' = [menu EXCEPT !.stale = (menu.is # None)]
    /\ UNCHANGED <<undefined, asked, menus>>

-----------------------------------------------------------------------------
(* The user.                                                               *)

Select(ns) ==
    /\ ~undefined /\ menu.is = None /\ tree.task # None
    /\ selected' = ns
    /\ UNCHANGED <<session, jobs, cmds, taskId, tree, menu, undefined, asked, menus>>

\* Mutant of Collected: the folder has an index too.
CollectedFolder(ns) == IF Folder \in ns THEN Nodes ELSE ns

\* collectFileIndices
Collected(ns) == IF Folder \in ns THEN Files ELSE ns

\* showContextMenu.  The click selects the row if it is not.
ShowContextMenu(n) ==
    /\ ~undefined /\ menu.is = None /\ menus < MaxMenus
    /\ taskId # None /\ tree.task # None
    /\ menus' = menus + 1
    /\ selected' = IF n \in selected THEN selected ELSE {n}
    /\ menu' = [NoMenu EXCEPT !.is = "menu", !.node = n, !.task = taskId,
                              !.picked = Collected(selected'),
                              !.single = (Cardinality(selected') = 1)]
    /\ UNCHANGED <<session, jobs, cmds, taskId, tree, undefined, asked>>

CloseMenu ==
    /\ menu.is # None /\ ~undefined
    /\ menu' = NoMenu
    /\ UNCHANGED <<session, jobs, cmds, taskId, tree, selected, undefined, asked, menus>>

\* applyPriorityToSelection, on what is selected now.
ChoosePriority(level) ==
    /\ menu.is = "menu" /\ ~undefined
    /\ menu' = NoMenu
    /\ LET fs == Collected(selected)
       IN  IF fs = {} THEN UNCHANGED <<session, jobs, cmds, tree, selected, asked>>
           ELSE /\ ReloadTree(taskId, Append(cmds, [op |-> "priority", task |-> taskId,
                                                    files |-> fs, level |-> level]))
                /\ asked' = [asked EXCEPT ![taskId] =
                        [f \in Files |-> IF f \in fs THEN level ELSE @[f]]]
    /\ UNCHANGED <<taskId, undefined, menus>>

\* Of one row only.  The path is read from the item, for the dialog.  For the
\* row of a file the same is done with its own name.
ChooseRename ==
    /\ menu.is = "menu" /\ menu.node = Folder /\ menu.single /\ ~undefined
    /\ IF menu.stale
       THEN undefined' = TRUE /\ UNCHANGED menu
       ELSE /\ menu' = [menu EXCEPT !.is = "rename",
                                    !.path = tree.rows[CHOOSE f \in Files : TRUE].folder]
            /\ UNCHANGED undefined
    /\ UNCHANGED <<session, jobs, cmds, taskId, tree, selected, asked, menus>>

\* The command goes to the task that has the focus now, then the item is given
\* its name (applyRenameLocally).
AcceptRename(name) ==
    /\ menu.is = "rename" /\ ~undefined
    /\ cmds' = Append(cmds, [op |-> "rename", task |-> taskId, path |-> menu.path,
                             name |-> name])
    /\ IF menu.stale
       THEN undefined' = TRUE /\ UNCHANGED tree
       ELSE /\ tree' = [tree EXCEPT !.rows = [f \in Files |->
                            IF @[f].folder = menu.path THEN [@[f] EXCEPT !.folder = name]
                            ELSE @[f]]]
            /\ UNCHANGED undefined
    /\ menu' = NoMenu
    /\ UNCHANGED <<session, jobs, taskId, selected, asked, menus>>

Next ==
    \/ HandleCmd \/ JobDone
    \/ \E t \in Tasks \cup {None} : SetSnapshot(t)
    \/ \E ns \in SUBSET Nodes : Select(ns)
    \/ \E n \in Nodes : ShowContextMenu(n)
    \/ \E level \in Offered : ChoosePriority(level)
    \/ ChooseRename \/ CloseMenu
    \/ \E name \in Folders : AcceptRename(name)

Spec == Init /\ [][Next]_vars

-----------------------------------------------------------------------------
(* Properties                                                              *)

\* Priorities are those of libtorrent, the rows are of the tasks there are, and
\* commands name files by their index.
TypeOK ==
    /\ \A t \in Tasks : session[t].prio \in [Files -> {ToLt(l) : l \in Levels}]
    /\ tree.task \in Tasks \cup {None} /\ selected \subseteq Nodes
    /\ \A f \in DOMAIN tree.rows : tree.rows[f].level \in Levels
    /\ \A i \in DOMAIN cmds : cmds[i].op = "priority" => cmds[i].files \subseteq Files

\* The rows on the screen are of the task that the commands go to.
RowsOfTask == tree.task \in {taskId, None}

\* The priority goes to files that were selected when the menu was opened, of
\* the task whose menu it was, whatever was refreshed meanwhile.
PriorityWhereSelected ==
    [][asked' # asked =>
        \A t \in Tasks, f \in Files :
            asked'[t][f] # asked[t][f] => t = menu.task /\ f \in menu.picked]_vars

\* What is asked for a file is what its row shows once the worker is through:
\* a file that shall not be loaded is not, and no other file is left out.
ShownAsAsked ==
    ~undefined /\ tree.task # None /\ cmds = <<>> =>
        \A f \in Files :
            (tree.rows[f].level = "skip") <=> (asked[tree.task][f] = "skip")
=============================================================================
