--------------------------- MODULE SessionWorker ---------------------------
(***************************************************************************)
(* pfd::lt::SessionWorker: the thread that owns the libtorrent session.    *)
(* Client threads put commands into a mutex protected deque; the worker    *)
(* swaps the deque out, handles the commands, pops the session's alerts,   *)
(* handles them, polls the magnets whose metadata is awaited, and loops.   *)
(*                                                                         *)
(* libtorrent is external.  It is modelled from how the worker uses it:    *)
(* async_add_torrent and remove_torrent post requests that the session's   *)
(* own thread executes later, in order, each posting an alert; adding a    *)
(* torrent that is already there posts the alert with the existing handle; *)
(* a handle is valid while the torrent it was issued for is in the         *)
(* session; using an invalid handle throws, which nothing catches.         *)
(*                                                                         *)
(* A torrent handle is the generation number of the torrent it refers to;  *)
(* 0 means "no handle" or "no torrent".  A command handled by the worker   *)
(* is one step, and so is one alert: the session's thread runs in between. *)
(*                                                                         *)
(* Left out: the views handed to the alerts callback, the per-torrent      *)
(* limits, save_resume_data (module ResumeDataSave), the queries, and the  *)
(* commands that only forward to a handle (trackers, priorities, queue     *)
(* position).                                                              *)
(***************************************************************************)
EXTENDS Naturals, Sequences, FiniteSets

CONSTANTS
    Keys,       \* task ids, one per info-hash
    Callers,    \* invocations of prepareMagnetMetadata
    KeyOf,      \* the task id of the magnet each invocation asks about
    None,       \* "no invocation"
    ClientOps,  \* the other commands clients issue in this instance
    Faults,     \* subset of {"badInput", "addFails", "metadataFails",
                \*            "badMetadata"}
    MaxCmds     \* bound on the number of those commands

ASSUME ConstantsAssumption ==
    /\ KeyOf \in [Callers -> Keys]
    /\ None \notin Callers
    /\ MaxCmds \in Nat

VARIABLES
    cmds,               \* Impl::cmds, the shared deque
    local,              \* the swapped batch still to be handled
    popped,             \* the popped alerts still to be handled
    phase,              \* where run() is
    running,            \* Impl::running
    handlesByTaskId,    \* key -> handle (0: no entry)
    pendingAddOpts,     \* key -> "none", "plain" or "top"
    preparedTorrentInfo,\* the keys with cached metadata
    pendingMagnetMeta,  \* key -> the invocation whose promise is awaited
    promise,            \* invocation -> "unset", "value" or "nullopt"
    call,               \* invocation -> how far it and its dialog are
    issued,             \* commands issued by the other clients
    closing,            \* the destructor has queued the shutdown command
    torrents,           \* external: the session's torrents
    requests,           \* external: the session's job queue
    alerts,             \* external: the session's alert queue
    lastGen             \* external: the last torrent generation created

workerVars == <<local, popped, phase, running>>
mapVars    == <<handlesByTaskId, pendingAddOpts, preparedTorrentInfo,
                pendingMagnetMeta>>
clientVars == <<call, issued, closing>>
sessionVars == <<torrents, requests, alerts, lastGen>>
vars == <<cmds, workerVars, mapVars, promise, clientVars, sessionVars>>

AddOps == {"AddMagnet", "AddTorrentFile", "AddFromResumeData"}

\* The calls of prepareMagnetMetadata and what follows them are not among the
\* other commands: they are actions of their own.
ASSUME ClientOpsAssumption == ClientOps \subseteq AddOps \cup {"Pause", "Resume", "Remove"}

AllOps == AddOps \cup {"Pause", "Resume", "Remove", "Prepare", "Cancel",
                       "Finalize", "Shutdown"}
Opts   == {"none", "plain", "top", "paused"}

\* A command; `call` is the invocation a Prepare belongs to, `opt` the one
\* option of the request that the properties are about ("none": a request
\* without options).
Cmd(op, k, c, opt) == [op |-> op, key |-> k, call |-> c, opt |-> opt]

Command == [op : AllOps, key : Keys \cup {None}, call : Callers \cup {None},
            opt : Opts]

\* A torrent of the session.  `temp`: added only to fetch metadata; `upload`:
\* upload_mode, no payload is downloaded; `asked`: the option of the request
\* that created it; `top`: queue_position_top was called.
NoTorrent == [gen |-> 0, temp |-> FALSE, upload |-> FALSE, paused |-> FALSE,
              meta |-> FALSE, top |-> FALSE, asked |-> "none"]

Torrent == [gen : Nat, temp : BOOLEAN, upload : BOOLEAN, paused : BOOLEAN,
            meta : BOOLEAN, top : BOOLEAN, asked : Opts]

AddRequest(t, k)      == [do |-> "add", key |-> k, torrent |-> t]
RemoveRequest(gen, k) == [do |-> "remove", key |-> k,
                          torrent |-> [NoTorrent EXCEPT !.gen = gen]]

AlertTypes == {"added", "addFailed", "removed", "metadata", "metadataFailed"}
Alert(type, k, gen) == [type |-> type, key |-> k, gen |-> gen]

Init ==
    /\ cmds = <<>> /\ local = <<>> /\ popped = <<>>
    /\ phase = "wait" /\ running = TRUE
    /\ handlesByTaskId = [k \in Keys |-> 0]
    /\ pendingAddOpts = [k \in Keys |-> "none"]
    /\ preparedTorrentInfo = {}
    /\ pendingMagnetMeta = [k \in Keys |-> None]
    /\ promise = [c \in Callers |-> "unset"]
    /\ call = [c \in Callers |-> "idle"]
    /\ issued = 0 /\ closing = FALSE
    /\ torrents = [k \in Keys |-> NoTorrent]
    /\ requests = <<>> /\ alerts = <<>> /\ lastGen = 0

-----------------------------------------------------------------------------
(* Client threads.                                                         *)

Alive == phase # "aborted"

\* Impl::enqueue.
Enqueue(cmd) ==
    /\ Alive /\ ~closing
    /\ cmds' = Append(cmds, cmd)

OptsOf(op) == CASE op = "AddTorrentFile"    -> {"none", "plain", "top"}
                [] op = "AddFromResumeData" -> {"none", "paused"}
                [] OTHER                    -> {"none"}

\* addMagnet, addTorrentFile[WithOptions], addFromResumeData, pauseTask,
\* resumeTask, removeTask.
Issue(op, k, opt) ==
    /\ issued < MaxCmds
    /\ Enqueue(Cmd(op, k, None, opt))
    /\ issued' = issued + 1
    /\ UNCHANGED <<workerVars, mapVars, promise, call, closing, sessionVars>>

Goto(c, at) ==
    /\ call' = [call EXCEPT ![c] = at]
    /\ UNCHANGED <<workerVars, mapVars, promise, issued, closing, sessionVars>>

\* prepareMagnetMetadata up to the wait.
CallPrepare(c) ==
    /\ call[c] = "idle"
    /\ Enqueue(Cmd("Prepare", KeyOf[c], c, "none"))
    /\ Goto(c, "waiting")

\* The user closes the dialog while the metadata are still awaited: the task
\* is cancelled, and the wait goes on.
UserGivesUp(c) ==
    /\ call[c] = "waiting"
    /\ Enqueue(Cmd("Cancel", KeyOf[c], None, "none"))
    /\ Goto(c, "closed")

\* The wait ends because the promise is set.
CallReturns(c) ==
    /\ Alive /\ call[c] \in {"waiting", "closed"} /\ promise[c] # "unset"
    /\ Goto(c, IF call[c] = "closed" THEN "cancelled"
               ELSE IF promise[c] = "value" THEN "metadata" ELSE "nothing")
    /\ UNCHANGED cmds

\* The wait ends because timeout_ms have passed ...
CallExpires(c) ==
    /\ Alive /\ call[c] \in {"waiting", "closed"} /\ promise[c] = "unset"
    /\ Goto(c, "expired")
    /\ UNCHANGED cmds

\* ... and only then is the cancel command queued: the worker may have set
\* the promise in between.
CallCancels(c) ==
    /\ call[c] = "expired"
    /\ Enqueue(Cmd("Cancel", KeyOf[c], None, "none"))
    /\ Goto(c, "timedOut")

\* The user closes the selection dialog: cancelPreparedMagnet.
UserCancels(c) ==
    /\ call[c] = "metadata"
    /\ Enqueue(Cmd("Cancel", KeyOf[c], None, "none"))
    /\ Goto(c, "cancelled")

\* The user confirms it: finalizePreparedMagnet.
UserConfirms(c, opt) ==
    /\ call[c] = "metadata"
    /\ Enqueue(Cmd("Finalize", KeyOf[c], None, opt))
    /\ Goto(c, "finalized")

\* The destructor: no client is inside the object any more.
Shutdown ==
    /\ \A c \in Callers : call[c] \notin {"waiting", "closed", "expired", "metadata"}
    /\ Enqueue(Cmd("Shutdown", None, None, "none"))
    /\ closing' = TRUE
    /\ UNCHANGED <<workerVars, mapVars, promise, call, issued, sessionVars>>

-----------------------------------------------------------------------------
(* The session's thread (external).                                        *)

Post(a) == alerts' = Append(alerts, a)

SessionAdds ==
    LET r == Head(requests) IN
    /\ requests # <<>> /\ r.do = "add"
    /\ requests' = Tail(requests)
    /\ \/ /\ "addFails" \in Faults
          /\ Post(Alert("addFailed", r.key, 0))
          /\ UNCHANGED <<torrents, lastGen>>
       \/ /\ torrents[r.key].gen # 0
          /\ Post(Alert("added", r.key, torrents[r.key].gen))
          /\ UNCHANGED <<torrents, lastGen>>
       \/ /\ torrents[r.key].gen = 0
          /\ lastGen' = lastGen + 1
          /\ torrents' = [torrents EXCEPT ![r.key] =
                              [r.torrent EXCEPT !.gen = lastGen + 1]]
          /\ Post(Alert("added", r.key, lastGen + 1))
    /\ UNCHANGED <<cmds, workerVars, mapVars, promise, clientVars>>

\* A request to remove a torrent that is already gone has no effect.
SessionRemoves ==
    LET r == Head(requests) IN
    /\ requests # <<>> /\ r.do = "remove"
    /\ requests' = Tail(requests)
    /\ IF torrents[r.key].gen = r.torrent.gen
       THEN /\ torrents' = [torrents EXCEPT ![r.key] = NoTorrent]
            /\ Post(Alert("removed", r.key, r.torrent.gen))
       ELSE UNCHANGED <<torrents, alerts>>
    /\ UNCHANGED <<cmds, workerVars, mapVars, promise, clientVars, lastGen>>

\* Peers deliver the metadata of a running magnet ...
MetadataArrives(k) ==
    /\ torrents[k].gen # 0 /\ ~torrents[k].meta /\ ~torrents[k].paused
    /\ torrents' = [torrents EXCEPT ![k].meta = TRUE]
    /\ Post(Alert("metadata", k, torrents[k].gen))
    /\ UNCHANGED <<cmds, workerVars, mapVars, promise, clientVars, requests,
                   lastGen>>

\* ... or metadata that does not hash to the info-hash.  Peers may do this
\* any number of times; one such alert at a time waits in the queue.
MetadataFails(k) ==
    /\ "metadataFails" \in Faults
    /\ torrents[k].gen # 0 /\ ~torrents[k].meta /\ ~torrents[k].paused
    /\ \A i \in DOMAIN alerts : alerts[i].type # "metadataFailed"
    /\ Post(Alert("metadataFailed", k, torrents[k].gen))
    /\ UNCHANGED <<cmds, workerVars, mapVars, promise, clientVars, torrents,
                   requests, lastGen>>

-----------------------------------------------------------------------------
(* The worker: commands.                                                   *)

\* torrent_handle::is_valid for the handle stored under k.
Valid(k) == handlesByTaskId[k] # 0 /\ torrents[k].gen = handlesByTaskId[k]

\* An exception leaves the thread's function: std::terminate.
Throw ==
    /\ phase' = "aborted"
    /\ UNCHANGED <<cmds, local, popped, running, mapVars, promise, clientVars,
                   sessionVars>>

Ask(r) == requests' = Append(requests, r)

\* cv.wait_for(200 ms) ends, by a notification or not; the deque is swapped.
Swap ==
    /\ phase = "wait"
    /\ phase' = "commands"
    /\ local' = cmds /\ cmds' = <<>>
    /\ UNCHANGED <<popped, running, mapVars, promise, clientVars, sessionVars>>

\* What every command handler leaves alone, and the step over the command.
NextCmd ==
    /\ local' = Tail(local)
    /\ UNCHANGED <<cmds, popped, phase, running, clientVars, alerts, lastGen>>

Handling(op) == phase = "commands" /\ local # <<>> /\ Head(local).op = op

\* A URI, file or resume data that cannot be parsed is rejected, and so is,
\* by hasActiveTaskForInfoHashes, a duplicate.
Rejected == Valid(Head(local).key) \/ "badInput" \in Faults
Accepted == ~Valid(Head(local).key)

\* Otherwise torrent t is asked for.  A magnet or file has libtorrent's default
\* flags, paused and auto_managed.
AskUnlessRejected(t) ==
    \/ Rejected /\ UNCHANGED requests
    \/ Accepted /\ Ask(AddRequest(t, Head(local).key))

HandleAddMagnet ==
    /\ Handling("AddMagnet")
    /\ AskUnlessRejected([NoTorrent EXCEPT !.paused = TRUE])
    /\ NextCmd
    /\ UNCHANGED <<mapVars, promise, torrents>>

\* AddTorrentFile files its options, if it has any, under the key until the
\* torrent is there.
HandleAddTorrentFile ==
    LET cmd == Head(local) IN
    /\ Handling("AddTorrentFile")
    /\ \/ Rejected /\ UNCHANGED <<requests, pendingAddOpts>>
       \/ /\ Accepted
          /\ Ask(AddRequest([NoTorrent EXCEPT !.paused = TRUE, !.meta = TRUE,
                                              !.asked = cmd.opt], cmd.key))
          /\ pendingAddOpts' = [pendingAddOpts EXCEPT
                 ![cmd.key] = IF cmd.opt = "none" THEN @ ELSE cmd.opt]
    /\ NextCmd
    /\ UNCHANGED <<handlesByTaskId, preparedTorrentInfo, pendingMagnetMeta,
                   promise, torrents>>

\* Mutant of HandleAddFromResumeData: its flag is filed as an add option.
HandleAddFromResumeDataFiles ==
    LET cmd == Head(local) IN
    /\ Handling("AddFromResumeData")
    /\ AskUnlessRejected([NoTorrent EXCEPT !.paused = cmd.opt = "paused",
                                           !.asked = cmd.opt])
    /\ pendingAddOpts' = [pendingAddOpts EXCEPT ![cmd.key] = cmd.opt]
    /\ NextCmd
    /\ UNCHANGED <<handlesByTaskId, preparedTorrentInfo, pendingMagnetMeta,
                   promise, torrents>>

\* Resume data may or may not contain the metadata.
HandleAddFromResumeData ==
    LET cmd == Head(local) IN
    /\ Handling("AddFromResumeData")
    /\ \E meta \in BOOLEAN :
           AskUnlessRejected([NoTorrent EXCEPT !.paused = cmd.opt = "paused",
                                               !.meta = meta, !.asked = cmd.opt])
    /\ NextCmd
    /\ UNCHANGED <<mapVars, promise, torrents>>

\* PrepareMagnetMetadata: a rejected magnet is answered at once, otherwise the
\* promise is filed under the key (over an earlier one) and a torrent in
\* upload mode is asked for.
HandlePrepare ==
    LET cmd == Head(local) IN
    /\ Handling("Prepare")
    /\ \/ /\ Rejected
          /\ promise' = [promise EXCEPT ![cmd.call] = "nullopt"]
          /\ UNCHANGED <<requests, pendingMagnetMeta>>
       \/ /\ Accepted
          /\ pendingMagnetMeta' = [pendingMagnetMeta EXCEPT ![cmd.key] = cmd.call]
          /\ Ask(AddRequest([NoTorrent EXCEPT !.temp = TRUE, !.upload = TRUE],
                            cmd.key))
          /\ UNCHANGED promise
    /\ NextCmd
    /\ UNCHANGED <<handlesByTaskId, pendingAddOpts, preparedTorrentInfo, torrents>>

\* Mutant of HandleCancel: only the caches are cleaned.
HandleCancelForgetsTorrent ==
    LET k == Head(local).key IN
    /\ Handling("Cancel")
    /\ preparedTorrentInfo' = preparedTorrentInfo \ {k}
    /\ pendingMagnetMeta' = [pendingMagnetMeta EXCEPT ![k] = None]
    /\ NextCmd
    /\ UNCHANGED <<handlesByTaskId, pendingAddOpts, promise, torrents, requests>>

\* Mutant of HandleCancel: the awaited promise is not forgotten.
HandleCancelKeepsPending ==
    LET k == Head(local).key IN
    /\ Handling("Cancel")
    /\ IF handlesByTaskId[k] # 0 /\ ~Valid(k)
       THEN Throw
       ELSE /\ IF handlesByTaskId[k] = 0
               THEN UNCHANGED requests
               ELSE Ask(RemoveRequest(handlesByTaskId[k], k))
            /\ handlesByTaskId' = [handlesByTaskId EXCEPT ![k] = 0]
            /\ preparedTorrentInfo' = preparedTorrentInfo \ {k}
            /\ NextCmd
            /\ UNCHANGED <<pendingAddOpts, pendingMagnetMeta, promise, torrents>>

\* CancelPreparedMagnet.
HandleCancel ==
    LET k == Head(local).key IN
    /\ Handling("Cancel")
    /\ IF handlesByTaskId[k] # 0 /\ ~Valid(k)
       THEN Throw
       ELSE /\ IF handlesByTaskId[k] = 0
               THEN UNCHANGED requests
               ELSE Ask(RemoveRequest(handlesByTaskId[k], k))
            /\ handlesByTaskId' = [handlesByTaskId EXCEPT ![k] = 0]
            /\ preparedTorrentInfo' = preparedTorrentInfo \ {k}
            /\ pendingMagnetMeta' = [pendingMagnetMeta EXCEPT ![k] = None]
            /\ NextCmd
            /\ UNCHANGED <<pendingAddOpts, promise, torrents>>

\* FinalizePreparedMagnet: without cached metadata nothing happens; with it,
\* the temporary torrent is replaced by the one the user asked for.
HandleFinalize ==
    LET cmd == Head(local)
        k   == cmd.key
        add == AddRequest([NoTorrent EXCEPT !.paused = TRUE, !.meta = TRUE,
                                            !.asked = cmd.opt], k)
    IN
    /\ Handling("Finalize")
    /\ \/ /\ k \notin preparedTorrentInfo
          /\ NextCmd
          /\ UNCHANGED <<mapVars, promise, torrents, requests>>
       \/ /\ k \in preparedTorrentInfo
          /\ handlesByTaskId[k] # 0 /\ ~Valid(k)
          /\ Throw
       \/ /\ k \in preparedTorrentInfo
          /\ handlesByTaskId[k] = 0 \/ Valid(k)
          /\ requests' = requests
                 \o (IF handlesByTaskId[k] = 0 THEN <<>>
                     ELSE <<RemoveRequest(handlesByTaskId[k], k)>>)
                 \o <<add>>
          /\ handlesByTaskId' = [handlesByTaskId EXCEPT ![k] = 0]
          /\ pendingAddOpts' = [pendingAddOpts EXCEPT ![k] = cmd.opt]
          /\ preparedTorrentInfo' = preparedTorrentInfo \ {k}
          /\ NextCmd
          /\ UNCHANGED <<pendingMagnetMeta, promise, torrents>>

\* Pause does not ask whether the handle is still valid.
HandlePause ==
    LET k == Head(local).key IN
    /\ Handling("Pause")
    /\ IF handlesByTaskId[k] # 0 /\ ~Valid(k)
       THEN Throw
       ELSE /\ torrents' = IF Valid(k)
                           THEN [torrents EXCEPT ![k].paused = TRUE]
                           ELSE torrents
            /\ NextCmd
            /\ UNCHANGED <<mapVars, promise, requests>>

HandleResume ==
    LET k == Head(local).key IN
    /\ Handling("Resume")
    /\ torrents' = IF Valid(k)
                   THEN [torrents EXCEPT ![k].paused = FALSE, ![k].top = TRUE,
                                         ![k].asked = IF @ = "paused" THEN "none" ELSE @]
                   ELSE torrents
    /\ NextCmd
    /\ UNCHANGED <<mapVars, promise, requests>>

\* Remove keeps the map entry; the removed alert will erase it.
HandleRemove ==
    LET k == Head(local).key IN
    /\ Handling("Remove")
    /\ IF handlesByTaskId[k] # 0 /\ ~Valid(k)
       THEN Throw
       ELSE /\ IF Valid(k) THEN Ask(RemoveRequest(handlesByTaskId[k], k))
                           ELSE UNCHANGED requests
            /\ NextCmd
            /\ UNCHANGED <<mapVars, promise, torrents>>

\* Shutdown leaves the rest of the batch unhandled.
HandleShutdown ==
    /\ Handling("Shutdown")
    /\ running' = FALSE
    /\ local' = <<>>
    /\ UNCHANGED <<cmds, popped, phase, mapVars, promise, clientVars,
                   sessionVars>>

HandleCmd ==
    \/ HandleAddMagnet \/ HandleAddTorrentFile \/ HandleAddFromResumeData
    \/ HandlePrepare \/ HandleCancel \/ HandleFinalize
    \/ HandlePause \/ HandleResume \/ HandleRemove \/ HandleShutdown

-----------------------------------------------------------------------------
(* The worker: alerts and the poll.                                        *)

PopAlerts ==
    /\ phase = "commands" /\ local = <<>>
    /\ phase' = "alerts"
    /\ popped' = alerts /\ alerts' = <<>>
    /\ UNCHANGED <<cmds, local, running, mapVars, promise, clientVars, torrents,
                   requests, lastGen>>

NextAlert ==
    /\ popped' = Tail(popped)
    /\ UNCHANGED <<cmds, local, phase, running, clientVars, requests, alerts,
                   lastGen>>

HandlingAlert(type) ==
    phase = "alerts" /\ popped # <<>> /\ Head(popped).type = type

\* configureHandleForMagnetMetadataFetch.
Fetching(t) == [t EXCEPT !.upload = TRUE, !.paused = FALSE]

\* The keys of S whose metadata isValidMagnetMetadata may refuse.
Refusals(S) == IF "badMetadata" \in Faults THEN SUBSET S ELSE {{}}

\* Mutant of Fulfil: the entry is not erased once its promise is set.
FulfilKeepsEntry(S) ==
    /\ \E bad \in Refusals(S) :
           promise' = [c \in Callers |->
               IF \E k \in S : pendingMagnetMeta[k] = c
               THEN IF KeyOf[c] \in bad THEN "nullopt" ELSE "value"
               ELSE promise[c]]
    /\ preparedTorrentInfo' = preparedTorrentInfo \cup S
    /\ UNCHANGED pendingMagnetMeta

\* tryFulfillPendingMagnetMeta for the keys S, awaited and with metadata: the
\* torrent info is cached before the metadata are validated.
Fulfil(S) ==
    /\ \E bad \in Refusals(S) :
           promise' = [c \in Callers |->
               IF \E k \in S : pendingMagnetMeta[k] = c
               THEN IF KeyOf[c] \in bad THEN "nullopt" ELSE "value"
               ELSE promise[c]]
    /\ preparedTorrentInfo' = preparedTorrentInfo \cup S
    /\ pendingMagnetMeta' = [k \in Keys |->
           IF k \in S THEN None ELSE pendingMagnetMeta[k]]

Awaited == {k \in Keys : pendingMagnetMeta[k] # None}

\* add_torrent_alert without an error: the handle is registered, the torrent
\* is started, and the options filed for the key are applied.  If the torrent
\* is gone by then, only the start of an awaited magnet checks for that.
HandleAdded ==
    LET a == Head(popped)
        k == a.key
        gone == torrents[k].gen # a.gen
        top  == pendingAddOpts[k] = "top"
        started == IF k \in Awaited THEN Fetching(torrents[k])
                   ELSE [torrents[k] EXCEPT !.paused = FALSE]
    IN
    /\ HandlingAlert("added")
    /\ IF gone /\ (k \notin Awaited \/ top)
       THEN Throw
       ELSE /\ handlesByTaskId' = [handlesByTaskId EXCEPT ![k] = a.gen]
            /\ torrents' = IF gone THEN torrents
                           ELSE [torrents EXCEPT ![k] =
                                     [started EXCEPT !.top = @ \/ top]]
            /\ pendingAddOpts' = [pendingAddOpts EXCEPT ![k] = "none"]
            /\ NextAlert
            /\ UNCHANGED <<preparedTorrentInfo, pendingMagnetMeta, promise>>

HandleAddFailed ==
    /\ HandlingAlert("addFailed")
    /\ NextAlert
    /\ UNCHANGED <<mapVars, promise, torrents>>

\* Mutant of HandleRemoved: the map entry survives its torrent.
HandleRemovedKeepsHandle ==
    /\ HandlingAlert("removed")
    /\ pendingAddOpts' = [pendingAddOpts EXCEPT ![Head(popped).key] = "none"]
    /\ NextAlert
    /\ UNCHANGED <<handlesByTaskId, preparedTorrentInfo, pendingMagnetMeta,
                   promise, torrents>>

\* torrent_removed_alert.
HandleRemoved ==
    LET k == Head(popped).key IN
    /\ HandlingAlert("removed")
    /\ handlesByTaskId' = [handlesByTaskId EXCEPT ![k] = 0]
    /\ pendingAddOpts' = [pendingAddOpts EXCEPT ![k] = "none"]
    /\ NextAlert
    /\ UNCHANGED <<preparedTorrentInfo, pendingMagnetMeta, promise, torrents>>

\* metadata_received_alert.  If the torrent is gone its handle has no
\* info-hash any more: no key matches, or reading it throws.
HandleMetadata ==
    LET a == Head(popped) IN
    /\ HandlingAlert("metadata")
    /\ \/ /\ torrents[a.key].gen = a.gen
          /\ Fulfil({a.key} \cap Awaited)
          /\ NextAlert
          /\ UNCHANGED <<handlesByTaskId, pendingAddOpts, torrents>>
       \/ /\ torrents[a.key].gen # a.gen
          /\ NextAlert
          /\ UNCHANGED <<mapVars, promise, torrents>>
       \/ /\ torrents[a.key].gen # a.gen
          /\ Throw

\* metadata_failed_alert: whoever waits for the key is answered.
HandleMetadataFailed ==
    LET a == Head(popped)
        k == a.key
    IN
    /\ HandlingAlert("metadataFailed")
    /\ \/ /\ torrents[k].gen = a.gen
          /\ promise' = [c \in Callers |->
                 IF pendingMagnetMeta[k] = c THEN "nullopt" ELSE promise[c]]
          /\ pendingMagnetMeta' = [pendingMagnetMeta EXCEPT ![k] = None]
          /\ NextAlert
          /\ UNCHANGED <<handlesByTaskId, pendingAddOpts, preparedTorrentInfo,
                         torrents>>
       \/ /\ torrents[k].gen # a.gen
          /\ NextAlert
          /\ UNCHANGED <<mapVars, promise, torrents>>
       \/ /\ torrents[k].gen # a.gen
          /\ Throw

HandleAlert ==
    \/ HandleAdded \/ HandleAddFailed \/ HandleRemoved
    \/ HandleMetadata \/ HandleMetadataFailed

\* Mutant of Poll: metadata are only ever noticed through their alert.
PollNothing ==
    /\ phase = "alerts" /\ popped = <<>>
    /\ phase' = IF running THEN "wait" ELSE "stopped"
    /\ UNCHANGED <<cmds, local, popped, running, mapVars, promise, clientVars,
                   sessionVars>>

\* pollPendingMagnetMetadata, and the end of the iteration.
Poll ==
    LET polled == {k \in Awaited : Valid(k)} IN
    /\ phase = "alerts" /\ popped = <<>>
    /\ Fulfil({k \in polled : torrents[k].meta})
    /\ torrents' = [k \in Keys |-> IF k \in polled THEN Fetching(torrents[k])
                                   ELSE torrents[k]]
    /\ phase' = IF running THEN "wait" ELSE "stopped"
    /\ UNCHANGED <<cmds, local, popped, running, handlesByTaskId,
                   pendingAddOpts, clientVars, requests, alerts, lastGen>>

-----------------------------------------------------------------------------

WorkerStep == Swap \/ HandleCmd \/ PopAlerts \/ HandleAlert \/ Poll

\* The session goes on until the worker's thread function destroys it.
SessionRuns == phase \notin {"stopped", "aborted"}

SessionStep == SessionRuns /\ (SessionAdds \/ SessionRemoves)

PeersStep ==
    SessionRuns /\ \E k \in Keys : MetadataArrives(k) \/ MetadataFails(k)

CallStep(c) ==
    \/ CallPrepare(c) \/ CallReturns(c) \/ CallExpires(c) \/ CallCancels(c)
    \/ UserGivesUp(c) \/ UserCancels(c)
    \/ \E opt \in {"plain", "top"} : UserConfirms(c, opt)

ClientStep ==
    \/ \E op \in ClientOps, k \in Keys, opt \in Opts :
           opt \in OptsOf(op) /\ Issue(op, k, opt)
    \/ \E c \in Callers : CallStep(c)
    \/ Shutdown

Ended == phase \in {"stopped", "aborted"} /\ UNCHANGED vars

Next == WorkerStep \/ SessionStep \/ PeersStep \/ ClientStep \/ Ended

Spec == Init /\ [][Next]_vars

\* The worker's loop and the session's thread never rest; nothing is assumed
\* of the clients or of the peers.
Fairness == WF_vars(WorkerStep) /\ WF_vars(SessionStep)

FairSpec == Spec /\ Fairness

-----------------------------------------------------------------------------
(* Properties.                                                             *)

CallStates == {"idle", "waiting", "closed", "metadata", "nothing", "expired",
               "timedOut", "cancelled", "finalized"}

\* Every variable keeps its type.
TypeOK ==
    /\ cmds \in Seq(Command) /\ local \in Seq(Command)
    /\ popped \in Seq([type : AlertTypes, key : Keys, gen : Nat])
    /\ alerts \in Seq([type : AlertTypes, key : Keys, gen : Nat])
    /\ requests \in Seq([do : {"add", "remove"}, key : Keys, torrent : Torrent])
    /\ phase \in {"wait", "commands", "alerts", "stopped", "aborted"}
    /\ running \in BOOLEAN /\ closing \in BOOLEAN
    /\ handlesByTaskId \in [Keys -> Nat]
    /\ pendingAddOpts \in [Keys -> {"none", "plain", "top"}]
    /\ preparedTorrentInfo \subseteq Keys
    /\ pendingMagnetMeta \in [Keys -> Callers \cup {None}]
    /\ promise \in [Callers -> {"unset", "value", "nullopt"}]
    /\ call \in [Callers -> CallStates]
    /\ issued \in 0..MaxCmds
    /\ torrents \in [Keys -> Torrent]
    /\ lastGen \in Nat

\* Nothing is queued anywhere and the worker sleeps.
Quiet ==
    /\ phase = "wait"
    /\ cmds = <<>> /\ requests = <<>> /\ alerts = <<>>

\* h is the handle the worker will hold for k once it has handled the alerts
\* that are outstanding: the last of them that is about k decides.
HandleToBe(k, h) ==
    LET news == popped \o alerts
        mine == {i \in DOMAIN news : news[i].key = k /\ news[i].type \in {"added", "removed"}}
    IN  \/ mine = {} /\ h = handlesByTaskId[k]
        \/ \E i \in mine :
              /\ \A j \in mine : j <= i
              /\ h = IF news[i].type = "added" THEN news[i].gen ELSE 0

\* handlesByTaskId never loses track of the session: once the outstanding
\* alerts are handled, the map holds the handle of the torrent the session
\* has for the key, unless that torrent's removal is already requested.
HandlesTracked ==
    Alive =>
      \A k \in Keys :
        \/ HandleToBe(k, torrents[k].gen)
        \/ /\ HandleToBe(k, 0)
           /\ \E i \in DOMAIN requests :
                requests[i] = RemoveRequest(torrents[k].gen, k)

\* No promise is set twice (std::future_error): whoever is filed in
\* pendingMagnetMeta or still queued has not been answered.
AnsweredOnce ==
    /\ \A k \in Keys : pendingMagnetMeta[k] # None =>
           promise[pendingMagnetMeta[k]] = "unset"
    /\ \A c \in Callers : promise[c] # "unset" =>
           \A i \in DOMAIN (local \o cmds) : (local \o cmds)[i].call # c

\* pendingMagnetMeta is bounded by the calls in progress: whenever the worker
\* has caught up, an entry belongs to a call that still waits.  A call that
\* timed out leaves none behind.
NoPendingLeak ==
    Quiet => \A k \in Keys : pendingMagnetMeta[k] # None =>
                 \E c \in Callers : KeyOf[c] = k /\ call[c] \in {"waiting", "closed", "expired"}

\* "After the user cancels the selection dialog, clean up the temporary magnet
\* task" (session_worker.h, cancelPreparedMagnet): once the worker has caught
\* up, the torrent added to fetch the metadata is out of the session.
CancelCleansUp ==
    Quiet => \A c \in Callers :
        /\ call[c] = "cancelled"
        /\ \A d \in Callers \ {c} : KeyOf[d] = KeyOf[c] => call[d] = "idle"
        => ~torrents[KeyOf[c]].temp

\* Metadata the session has reach the call that waits for them, also when
\* they were there before the call and no alert announces them.
MetadataDelivered ==
    \A c \in Callers :
        (pendingMagnetMeta[KeyOf[c]] = c /\ torrents[KeyOf[c]].meta)
            ~> \/ pendingMagnetMeta[KeyOf[c]] # c
               \/ ~torrents[KeyOf[c]].meta
               \/ ~SessionRuns

\* "Restored paused" (FEATURES_zh.md): a task restored with startPaused stays
\* paused until somebody resumes it.  The add alert's handler resumes it.
RestoredStaysPaused ==
    Quiet => \A k \in Keys : torrents[k].asked = "paused" => torrents[k].paused

\* "Re-add with the cached metadata and apply the options" (session_worker.h,
\* finalizePreparedMagnet): a task added to the top of the queue is put there.
OptionsApplied ==
    Quiet => \A k \in Keys : torrents[k].asked = "top" => torrents[k].top

=============================================================================
