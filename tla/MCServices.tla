----------------------------- MODULE MCServices -----------------------------
(***************************************************************************)
(* What others reach the program by, each by itself: the RSS service, the  *)
(* list of tasks that libtorrent's alerts make, and the built-in HTTP      *)
(* tracker.  They share no state here.  A behaviour is one of the part     *)
(* that is used; the others stay as they are created.                      *)
(***************************************************************************)
EXTENDS MCRssService

VARIABLES
    used,   \* the part whose behaviour this is
    session, changed, alerts, known, cmds, posted, store, lock, notified, notices, refresh,
    shown, menu, choices, turns, gaps, server, sessionPorts, table, buffers, conns, clock,
    pruned, answer, announced, requestsRead, applies

tasksVars == <<session, changed, alerts, known, cmds, posted, store, lock, notified,
               notices, refresh, shown, menu, choices, turns, gaps>>
httpVars == <<server, sessionPorts, table, buffers, conns, clock, pruned, answer, announced,
              requestsRead, applies>>

Tasks == INSTANCE TaskStore WITH
    Tasks <- {"a"}, Phases <- {"downloading", "finished"}, MaxOps <- 4, MaxTurns <- 1,
    ops <- choices

Http == INSTANCE BuiltinHttpTracker WITH
    Conns <- {"c1", "c2"}, Hashes <- {"h1", "h2"}, Ids <- {"p1", "p2"}, PeerTtl <- 2,
    Interval <- 1, MaxPeers <- 1, MaxClock <- 3, MaxReads <- 2, MaxApplies <- 1,
    reads <- requestsRead

\* The parts with many initial states have them in their own behaviours only.
ServicesInit ==
    /\ used \in {"rss", "tasks", "http"}
    /\ Init /\ (used # "rss" => rss.feeds = {})
    /\ Tasks!Init /\ Http!Init

OnlyRss   == used = "rss" /\ UNCHANGED <<used, tasksVars, httpVars>>
OnlyTasks == used = "tasks" /\ UNCHANGED <<used, vars, httpVars>>
OnlyHttp  == used = "http" /\ UNCHANGED <<used, vars, tasksVars>>

ServicesNext ==
    \/ OnlyRss /\ Next
    \/ OnlyTasks /\ Tasks!Next
    \/ OnlyHttp /\ Http!Next

ServicesVars == <<used, vars, tasksVars, httpVars>>
ServicesSpec == ServicesInit /\ [][ServicesNext]_ServicesVars

-----------------------------------------------------------------------------
\* Every part keeps its types.  What is said of a part is looked at in its own
\* behaviours; in those of the others it does not move.
PartsTypeOK ==
    /\ TypeOK
    /\ used = "tasks" => Tasks!TypeOK
    /\ used = "http" => Http!TypeOK

\* The list of tasks follows what the session reports, what it shows follows
\* the list, and what has finished was announced: all as soon as nothing about
\* it is under way, and no message box holds it up.
TasksFollow == used = "tasks" => Tasks!TasksFollow

\* A status that a command has set is not overwritten while it is held.
LockHolds == Tasks!LockHolds

\* The HTTP tracker knows the peers that announced themselves, keeps those that
\* go on doing so, answers with others than the one that asks, and listens on no
\* port of the session.
PeersKnown ==
    /\ [](used = "http" => Http!KnownAnnounced /\ Http!KeptWhileAnnouncing)
    /\ [](used = "http" => Http!PortsApart)
    /\ Http!AnswersOthers
=============================================================================
