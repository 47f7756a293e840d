------------------------------ MODULE MCWaiting -----------------------------
(***************************************************************************)
(* The parts of the application that wait for another thread, each by      *)
(* itself: saving resume data, adding a magnet link, the seeding policy    *)
(* with the timed actions, and the page of a task's trackers.  They share  *)
(* no state.  A behaviour is one of the part that is used; the others stay *)
(* as they are created.                                                    *)
(***************************************************************************)
EXTENDS ResumeDataSave

VARIABLES
    used,   \* the part whose behaviour this is
    ui, dialog, cached, task, future, promise, adding, selecting, prepared, torrents,
    exports, adds, others, gaps,
    torrent, over, snapshot, shared, refresh, control, policy, actions, stopped, triggered,
    timer, quitting, choices, moves, stops, resumed, fired,
    entries, contacted, edits, taskId, rows, expanded, visible, ticking, tick, asking,
    turns, timeouts

magnetVars == <<ui, dialog, cached, task, future, promise, adding, selecting, prepared,
                torrents, exports, adds, others, gaps>>
seedingVars == <<torrent, over, snapshot, shared, refresh, control, policy, actions, stopped,
                 triggered, timer, quitting, choices, moves, stops, resumed, fired>>
trackerVars == <<entries, contacted, edits, taskId, rows, expanded, visible, ticking, tick,
                 asking, turns, timeouts>>

Magnet == INSTANCE MagnetAdd WITH
    Keys <- {"k1", "k2"}, Files <- {"f1"}, Faults <- {"badInput", "exportFails", "badMetadata"},
    MaxAdds <- 2, MaxOthers <- 1, cmds <- adding, pending <- selecting

Seeding == INSTANCE SeedingPolicy WITH
    Tasks <- {"a"}, MaxOps <- 1, MaxMoves <- 2, cmds <- control, ops <- choices

Tracker == INSTANCE TrackerPage WITH
    Tasks <- {"a", "b"}, Urls <- {"u1", "u2", "u3"}, MaxOps <- 3, MaxTimeouts <- 1,
    session <- entries, cmds <- edits, dialog <- asking, ops <- turns

WaitingInit ==
    /\ used \in {"resume", "magnet", "seeding", "tracker"}
    /\ Init /\ Magnet!Init /\ Seeding!Init /\ Tracker!Init
    \* the seeding policy has many initial states only in its own behaviours
    /\ used # "seeding" =>
         /\ torrent = [t \in {"a"} |-> [phase |-> "seeding", paused |-> FALSE]]
         /\ policy = [unlimited |-> TRUE, minutes |-> TRUE]
         /\ actions = [timed |-> "none", complete |-> "none"]

OnlyResume  == used = "resume"  /\ UNCHANGED <<used, magnetVars, seedingVars, trackerVars>>
OnlyMagnet  == used = "magnet"  /\ UNCHANGED <<used, vars, seedingVars, trackerVars>>
OnlySeeding == used = "seeding" /\ UNCHANGED <<used, vars, magnetVars, trackerVars>>
OnlyTracker == used = "tracker" /\ UNCHANGED <<used, vars, magnetVars, seedingVars>>

WaitingNext ==
    \/ OnlyResume /\ Next
    \/ OnlyMagnet /\ Magnet!Next
    \/ OnlySeeding /\ Seeding!Next
    \/ OnlyTracker /\ Tracker!Next

WaitingVars == <<used, vars, magnetVars, seedingVars, trackerVars>>

\* The fairness of each part in its own behaviours.  "used" never changes, so
\* one condition on a disjunction over the parts says the same as one for each.
WaitingSpec ==
    /\ WaitingInit
    /\ [][WaitingNext]_WaitingVars
    /\ WF_WaitingVars(
         \/ OnlyResume /\ SessionAnswers
         \/ OnlyMagnet /\ Magnet!UiNext
         \/ OnlySeeding /\ Seeding!HandleCmd
         \/ OnlyTracker /\ Tracker!HandleCmd)
    /\ WF_WaitingVars(
         \/ OnlyResume /\ HandleSaveAll
         \/ OnlyMagnet /\ Magnet!TaskNext
         \/ OnlySeeding /\ Seeding!Refresh
         \/ OnlyTracker /\ Tracker!Tick)
    /\ WF_WaitingVars(
         \/ OnlyResume /\ (HandleSaved \/ HandleSaveFailed)
         \/ OnlyMagnet /\ Magnet!Handle
         \/ OnlySeeding /\ Seeding!Report("a"))

-----------------------------------------------------------------------------
\* Every part keeps its types.  What is said of a part is looked at in its own
\* behaviours; in those of the others it does not move.
PartsTypeOK ==
    /\ TypeOK
    /\ used = "magnet" => Magnet!TypeOK
    /\ used = "seeding" => Seeding!TypeOK
    /\ used = "tracker" => Tracker!TypeOK

\* A call that saves resume data is answered, with the number of files that were
\* written since it began, or gives up.
SaveAnswered == [](used = "resume" => AnswerExact) /\ PromiseSettled

\* Adding a magnet link: the temporary torrent belongs to the selection, is given
\* up before the confirmed one is added, and no task is taken away with it; the
\* dialog's wait for the background call ends.
MagnetOwned ==
    /\ [](used = "magnet" => Magnet!TempOwned /\ Magnet!AddAfterCancel)
    /\ Magnet!TasksKept
    /\ Magnet!JoinReturns

\* The seeding policy stops a task that is over a limit in the end, and once; a
\* stop it remembers is on its way or done, and of the two kinds of action only
\* the one that is set fires.
SeedingStopped ==
    /\ [](used = "seeding" =>
            Seeding!StopsOnce /\ Seeding!ActionsApart /\ Seeding!StopsArrive)
    /\ Seeding!SeedingStops

\* The tracker page shows the trackers of its task and follows the session; an
\* edit leaves the other trackers as they are, and what the user unfolded stays
\* unfolded.
TrackersShown ==
    /\ [](used = "tracker" => Tracker!RowsOfTask)
    /\ Tracker!OthersKept
    /\ Tracker!StaysUnfolded
    /\ Tracker!RowsFollow
=============================================================================
