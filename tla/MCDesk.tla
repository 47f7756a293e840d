------------------------------- MODULE MCDesk -------------------------------
(***************************************************************************)
(* Parts of the main window, each by itself: the task table, the page of a *)
(* task's files and the cookie manager.  They share no state.  A behaviour *)
(* is one of the part that is used; the others stay as they are created.   *)
(***************************************************************************)
EXTENDS TaskTable, TLC

CONSTANTS t1, t2, t3

VARIABLES
    used,       \* the part whose behaviour this is
    session, jobs, cmds, taskId, tree, selected, itemMenu, undefined, asked, menus,
    open, cookies, picked, hint, file, header, rules, presses

contentVars == <<session, jobs, cmds, taskId, tree, selected, itemMenu, undefined, asked, menus>>
cookieVars == <<open, cookies, picked, hint, file, header, rules, presses>>

Content == INSTANCE ContentPage WITH
    Tasks <- {"a", "b"}, Files <- {"f1", "f2"}, Offered <- {"skip", "high", "order"},
    Folders <- {"d", "e"}, MaxMenus <- 2, menu <- itemMenu

Cookie == INSTANCE CookieManager WITH
    Domains <- {"*", "", "A"}, Names <- {"", "x", "X"}, Values <- {"semicolon"},
    MaxRows <- 3, MaxOps <- 9, rows <- cookies, ops <- presses

DeskInit ==
    /\ used \in {"table", "content", "cookies"}
    /\ Init /\ Content!Init /\ Cookie!Init

DeskNext ==
    /\ UNCHANGED used
    /\ \/ used = "table" /\ Next /\ UNCHANGED <<contentVars, cookieVars>>
       \/ used = "content" /\ Content!Next /\ UNCHANGED <<vars, cookieVars>>
       \/ used = "cookies" /\ Cookie!Next /\ UNCHANGED <<vars, contentVars>>

DeskVars == <<used, vars, contentVars, cookieVars>>
DeskSpec == DeskInit /\ [][DeskNext]_DeskVars

-----------------------------------------------------------------------------
\* Every part keeps its types.  What is said of a part is looked at in its own
\* behaviours; in those of the others it does not move.
PartsTypeOK ==
    /\ TypeOK
    /\ used = "content" => Content!TypeOK
    /\ used = "cookies" => Cookie!TypeOK

\* The task table: rows, selection and detail panel belong together, survive a
\* refresh and a filter, and the menu acts on what the user has picked.
TableFollows == [](TableConsistent /\ PicksMine) /\ SelectionKept /\ DetailKept

\* The page of a task's files shows that task and the priorities that were asked
\* for; a priority goes to the files that were selected.
FilesFollow ==
    /\ [](used = "content" => Content!RowsOfTask /\ Content!ShownAsAsked)
    /\ Content!PriorityWhereSelected

\* The cookie manager removes the rows that were selected from top to bottom,
\* announces a save it will refuse, and shows again what it saved.
CookiesKept ==
    /\ Cookie!RemovesWhatIsSelected
    /\ Cookie!RefusalIsAnnounced
    /\ Cookie!SavedComesBack
=============================================================================
