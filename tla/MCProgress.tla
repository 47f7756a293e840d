----------------------------- MODULE MCProgress -----------------------------
(***************************************************************************)
(* What must come about in the end, in three parts each by itself: an item *)
(* put into a lane of the download pipeline is settled, an item that the   *)
(* RSS service may download is handed to the pipeline, and metadata that   *)
(* arrive are delivered to the caller who waits for them.  A behaviour is  *)
(* one of the part that is used; the others stay as they are created.      *)
(***************************************************************************)
EXTENDS MCRssDownloadPipeline

VARIABLES
    used,   \* the part whose behaviour this is
    rss, requests, fetches, followUp, views, reloaded, aborted, ops, fails,
    cmds, local, popped, phase, running, handlesByTaskId, pendingAddOpts,
    preparedTorrentInfo, pendingMagnetMeta, promise, callers, issued, closing, torrents,
    asked, alerts, lastGen

rssVars == <<rss, requests, fetches, followUp, views, reloaded, aborted, ops, fails>>
workerVars == <<cmds, local, popped, phase, running, handlesByTaskId, pendingAddOpts,
                preparedTorrentInfo, pendingMagnetMeta, promise, callers, issued, closing,
                torrents, asked, alerts, lastGen>>

\* One feed with three items, each of which can be downloaded.
Rss == INSTANCE RssService WITH
    Items <- 1 .. 3, Feeds <- {"f1"}, FeedOf <- [i \in 1 .. 3 |-> "f1"], Loadable <- 1 .. 3,
    MaxConcurrent <- 1, Batch <- 1, BacklogCap <- 1,
    UserOps <- {"DownloadItem", "IgnoreItem", "ChangeRules", "SaveSettings", "ToggleFeed",
                "RefreshFeed", "RefreshAll"},
    MaxOps <- 1, MaxFails <- 1, MaxNested <- 1, MaxRequests <- 1

\* One call for a magnet's metadata, and a command of somebody else.
Worker == INSTANCE SessionWorker WITH
    None <- "none", Keys <- {"k1"}, Callers <- {"c1"}, KeyOf <- [c \in {"c1"} |-> "k1"],
    ClientOps <- {"AddTorrentFile", "Pause", "Resume", "Remove"}, Faults <- {"badInput"},
    MaxCmds <- 1, call <- callers, requests <- asked

ProgressInit ==
    /\ used \in {"pipeline", "rss", "worker"}
    /\ Init
    /\ Rss!Init /\ (used # "rss" => rss.feeds = {})
    /\ Worker!Init

OnlyPipeline == used = "pipeline" /\ UNCHANGED <<used, rssVars, workerVars>>
OnlyRss      == used = "rss" /\ UNCHANGED <<used, vars, workerVars>>
OnlyWorker   == used = "worker" /\ UNCHANGED <<used, vars, rssVars>>

ProgressVars == <<used, vars, rssVars, workerVars>>

ProgressNext ==
    \/ OnlyPipeline /\ Next
    \/ OnlyRss /\ Rss!Next
    \/ OnlyWorker /\ Worker!Next

\* The fairness of each part in its own behaviours: nothing of the pipeline is
\* enabled as long as nobody enqueues an item.
ProgressSpec ==
    /\ ProgressInit
    /\ [][ProgressNext]_ProgressVars
    /\ Fairness
    /\ WF_rssVars(used = "rss" /\ Rss!RssTimer)
    /\ WF_rssVars(used = "rss" /\ Rss!FetchReturns)
    /\ WF_rssVars(used = "rss" /\ Rss!FollowUp)
    /\ WF_rssVars(used = "rss" /\ Rss!RefreshViews)
    /\ WF_rssVars(used = "rss" /\ Rss!Reloaded)
    /\ \A i \in 1 .. 3 :
         WF_rssVars(used = "rss" /\ \E ok \in BOOLEAN : Rss!Settle(i, ok))
    /\ WF_workerVars(used = "worker" /\ Worker!WorkerStep)
    /\ WF_workerVars(used = "worker" /\ Worker!SessionStep)

-----------------------------------------------------------------------------
\* The RSS service: an item that stays eligible is tried in the end.
EligibleTried == Rss!EligibleTried

\* The session's worker: metadata that have arrived are delivered to the caller
\* who waits.
MetadataDelivered == Worker!MetadataDelivered
=============================================================================
