------------------------------ MODULE MagnetAdd ------------------------------
(***************************************************************************)
(* Adding a magnet link through the dialog.                                *)
(*                                                                         *)
(* AppController::presentInteractiveMagnetAdd runs on the UI thread.  It   *)
(* starts prepareMagnetMetadata on a thread of its own (std::async), opens *)
(* the modal AddTorrentDialog, whose timer polls the future, and submits   *)
(* or cleans up when the dialog closes.  The future's destructor joins the *)
(* thread, so the UI thread waits there until the call has returned.       *)
(*                                                                         *)
(* The worker is the queue of module SessionWorker with one step for each  *)
(* command; the session carries requests out at once here, since the lag   *)
(* of its job queue is that module's subject.  What is added is what lies  *)
(* on the UI side: the future, the dialog, the exported .torrent file and  *)
(* the commands of others that fall between.                               *)
(*                                                                         *)
(* Left out: names, sizes and paths, the magnet links kept for saving, and *)
(* the dialog AppController can open for RSS magnets: every request of the *)
(* RSS service asks to be added without one.                               *)
(***************************************************************************)
EXTENDS Naturals, Sequences, FiniteSets

CONSTANTS
    Keys,       \* task ids, one per info-hash
    Files,      \* the files of a torrent
    Faults,     \* subset of {"badInput", "exportFails", "badMetadata"}
    MaxAdds,    \* bound: links the user opens
    MaxOthers   \* bound: commands that do not come from the dialog

NoKey == "noKey"
Adds == 1..MaxAdds

VARIABLES
    ui,         \* the UI thread: where it is and the link it works on
    dialog,     \* the dialog: its metadata state and the files ticked
    cached,     \* cachedMeta: "none", "exported" or "unexported"
    task,       \* the std::async thread of the link
    future,     \* metaFut: "pending", an answer, or "taken" by get()
    promise,    \* link -> the answer the worker has set
    cmds,       \* the worker's queue
    pending,    \* pendingMagnetMeta: key -> the link that waits (0: none)
    prepared,   \* preparedTorrentInfo: keys with cached metadata
    torrents,   \* external: key -> the session's torrent
    exports,    \* keys whose exported .torrent file exists
    adds,       \* links opened so far
    others,     \* commands issued by others so far
    gaps        \* history: keys whose temporary torrent nobody will cancel

uiVars     == <<ui, dialog, cached>>
taskVars   == <<task, future>>
workerVars == <<pending, prepared, torrents, promise>>
vars == <<uiVars, taskVars, workerVars, cmds, exports, adds, others, gaps>>

Answers == {"exported", "unexported", "nullopt"}
NoTorrent == [kind |-> "none", files |-> {}]
Real(w)   == [kind |-> "real", files |-> w]
Temp      == [kind |-> "temp", files |-> Files]

\* A command carries the link opened last, whose promise a Prepare answers.
Cmd(op, k, w, from) ==
    [op |-> op, key |-> k, files |-> w, from |-> from, link |-> adds]

Ops   == {"Prepare", "Cancel", "Finalize", "AddTorrentFile", "AddMagnet",
          "Remove"}
\* "unanswered": a cancel sent while the answer had not been read.
Froms == {"dialog", "unanswered", "timeout", "client"}

\* The dialog on the bare link: no files yet, the controls disabled.
PendingDialog == [meta |-> "pending", ticked |-> {}]
\* The dialog with the file list: every file ticked, the controls enabled.
ReadyDialog   == [meta |-> "ready", ticked |-> Files]
\* The dialog after a failure: a placeholder for the list, OK disabled.
FailedDialog  == [meta |-> "failed", ticked |-> {}]

\* AddTorrentDialog::result: the files wanted are the ticked rows, whether
\* the filter hides them or not.
Wanted == dialog.ticked

Init ==
    /\ ui = [at |-> "idle", key |-> NoKey]
    /\ dialog = PendingDialog
    /\ cached = "none"
    /\ task = "none" /\ future = "pending"
    /\ promise = [a \in Adds |-> "unset"]
    /\ cmds = <<>>
    /\ pending = [k \in Keys |-> 0]
    /\ prepared = {}
    /\ torrents = [k \in Keys |-> NoTorrent]
    /\ exports = {} /\ adds = 0 /\ others = 0 /\ gaps = {}

Alive == ui.at # "aborted"
Go(at) == ui' = [ui EXCEPT !.at = at]
Enqueue(c) == cmds' = Append(cmds, c)

-----------------------------------------------------------------------------
(* The UI thread.                                                          *)

\* presentInteractiveMagnetAdd: the background call is started and the dialog
\* opened on the bare link.
Present(k) ==
    /\ ui.at = "idle"
    /\ adds < MaxAdds
    /\ adds' = adds + 1
    /\ ui' = [at |-> "dialog", key |-> k]
    /\ dialog' = PendingDialog
    /\ cached' = "none"
    /\ task' = "starting" /\ future' = "pending"
    /\ UNCHANGED <<workerVars, cmds, exports, others, gaps>>

\* One line of "open torrent links": the next one waits for this dialog.
OpenTorrentLink(k) == Present(k)

\* The link of the command line comes before anything the user does.
SubmitArgvMagnet(k) == adds = 0 /\ others = 0 /\ Present(k)

\* Mutant of PollMetadata: the answer is taken for metadata unread.
PollMetadataUnchecked ==
    /\ ui.at = "dialog" /\ dialog.meta = "pending"
    /\ future \in Answers
    /\ future' = "taken" /\ cached' = future /\ dialog' = ReadyDialog
    /\ UNCHANGED <<ui, task, workerVars, cmds, exports, adds, others, gaps>>

\* The dialog's timer: the poller asks the future without waiting; an answer
\* without metadata disables the dialog, metadata fill the file list with
\* every file ticked.
PollMetadata ==
    /\ ui.at = "dialog" /\ dialog.meta = "pending"
    /\ future \in Answers
    /\ future' = "taken"
    /\ \/ /\ future = "nullopt"
          /\ dialog' = FailedDialog
          /\ UNCHANGED cached
       \/ /\ future # "nullopt"
          /\ cached' = future
          /\ dialog' = ReadyDialog
    /\ UNCHANGED <<ui, task, workerVars, cmds, exports, adds, others, gaps>>

\* Whatever box changes, the sizes ticked are summed up anew.
Ticked(w) ==
    /\ ui.at = "dialog" /\ dialog.meta = "ready"
    /\ dialog' = [dialog EXCEPT !.ticked = w]
    /\ UNCHANGED <<ui, cached, taskVars, workerVars, cmds, exports, adds,
                   others, gaps>>

\* A click on the box of one file.
Toggle(f) ==
    Ticked(IF f \in dialog.ticked THEN dialog.ticked \ {f}
                                  ELSE dialog.ticked \cup {f})

\* "Select all" and "select none" work on every row, filtered out or not.
SetAllWanted == \E w \in {Files, {}} : Ticked(w)

\* The OK button is enabled only once the metadata are there.
Accept ==
    /\ ui.at = "dialog" /\ dialog.meta = "ready"
    /\ Go("submit")
    /\ UNCHANGED <<dialog, cached, taskVars, workerVars, cmds, exports, adds,
                   others, gaps>>

Reject ==
    /\ ui.at = "dialog"
    /\ Go("cleanup")
    /\ UNCHANGED <<dialog, cached, taskVars, workerVars, cmds, exports, adds,
                   others, gaps>>

\* cleanupPreparedMagnet.  wait_for on a future whose value was taken throws,
\* and nothing catches it.  A cancel sent before the background call has
\* queued its command is handled before that command.
Cleanup ==
    /\ ui.at = "cleanup"
    /\ \/ /\ cached # "none"
          /\ Enqueue(Cmd("Cancel", ui.key, {}, "dialog"))
          /\ Go("join") /\ UNCHANGED <<future, gaps>>
       \/ /\ cached = "none" /\ future = "taken"
          /\ Go("aborted") /\ UNCHANGED <<cmds, future, gaps>>
       \/ /\ cached = "none" /\ future \in {"exported", "unexported"}
          /\ future' = "taken"
          /\ Enqueue(Cmd("Cancel", ui.key, {}, "dialog"))
          /\ Go("join") /\ UNCHANGED gaps
       \/ /\ cached = "none" /\ future = "nullopt"
          /\ future' = "taken"
          /\ Go("join") /\ UNCHANGED <<cmds, gaps>>
       \/ /\ cached = "none" /\ future = "pending"
          /\ Enqueue(Cmd("Cancel", ui.key, {}, "unanswered"))
          /\ gaps' = IF task = "starting" THEN gaps \cup {ui.key} ELSE gaps
          /\ Go("join") /\ UNCHANGED future
    /\ UNCHANGED <<dialog, cached, task, workerVars, exports, adds, others>>

\* Mutant of Submit: the add is queued first and the cancel after it.
SubmitAddFirst ==
    /\ ui.at = "submit"
    /\ cmds' = cmds \o <<Cmd("AddTorrentFile", ui.key, Wanted, "dialog"),
                         Cmd("Cancel", ui.key, {}, "dialog")>>
    /\ Go("remove")
    /\ UNCHANGED <<dialog, cached, taskVars, workerVars, exports, adds, others,
                   gaps>>

\* submitPreparedMagnetAdd: the worker's cached metadata are finalized, or
\* cancelled when a field of the dialog is refused.
SubmitPrepared ==
    \/ Enqueue(Cmd("Finalize", ui.key, Wanted, "dialog"))
    \/ "badInput" \in Faults /\ Enqueue(Cmd("Cancel", ui.key, {}, "dialog"))

\* submitMagnetDialogResult: through the exported file if it exists.
Submit ==
    /\ ui.at = "submit"
    /\ IF cached = "exported" /\ ui.key \in exports
       THEN Enqueue(Cmd("Cancel", ui.key, {}, "dialog")) /\ Go("addFile")
       ELSE SubmitPrepared /\ Go("join")
    /\ UNCHANGED <<dialog, cached, taskVars, workerVars, exports, adds, others,
                   gaps>>

\* submitTorrentFileFromDialog on the exported file.
SubmitTorrentFile ==
    /\ ui.at = "addFile"
    /\ \/ Enqueue(Cmd("AddTorrentFile", ui.key, Wanted, "dialog"))
       \/ "badInput" \in Faults /\ UNCHANGED cmds
    /\ Go("remove")
    /\ UNCHANGED <<dialog, cached, taskVars, workerVars, exports, adds, others,
                   gaps>>

\* QFile::remove of the exported file.
RemoveExport ==
    /\ ui.at = "remove"
    /\ exports' = exports \ {ui.key}
    /\ Go("join")
    /\ UNCHANGED <<dialog, cached, taskVars, workerVars, cmds, adds, others,
                   gaps>>

\* The last owner of the future goes away: its destructor waits for the call.
Join ==
    /\ ui.at = "join"
    /\ task = "done"
    /\ ui' = [at |-> "idle", key |-> NoKey]
    /\ task' = "none"
    /\ UNCHANGED <<dialog, cached, future, workerVars, cmds, exports, adds,
                   others, gaps>>

Other(op, k, w) ==
    /\ others < MaxOthers
    /\ others' = others + 1
    /\ Enqueue(Cmd(op, k, w, "client"))
    /\ UNCHANGED <<uiVars, taskVars, workerVars, exports, adds, gaps>>

\* An RSS download is handed over by the event loop, which runs while the
\* dialog is open, too.
RssAdd(k) == ui.at \in {"idle", "dialog"} /\ Other("AddMagnet", k, Files)

\* A .torrent file is opened from the menu, with a dialog of its own.
OpenTorrentFile(k) ==
    ui.at = "idle" /\ \E w \in SUBSET Files : Other("AddTorrentFile", k, w)

RemoveTask(k) == ui.at = "idle" /\ Other("Remove", k, {})

-----------------------------------------------------------------------------
(* prepareMagnetMetadata on the background thread.                         *)

TaskStep(to) ==
    /\ task' = to
    /\ UNCHANGED <<uiVars, workerVars, exports, adds, others, gaps>>

TaskAsks ==
    /\ Alive /\ task = "starting"
    /\ Enqueue(Cmd("Prepare", ui.key, {}, "dialog"))
    /\ TaskStep("waiting") /\ UNCHANGED future

\* wait_for returns ready.
TaskAnswered ==
    /\ Alive /\ task = "waiting"
    /\ promise[adds] # "unset"
    /\ future' = IF future = "pending" THEN promise[adds] ELSE future
    /\ TaskStep("done") /\ UNCHANGED cmds

\* Mutant of TaskExpires: the call waits without a limit.
TaskNeverExpires == FALSE /\ UNCHANGED vars

\* wait_for times out: the call cancels and answers with nothing.
TaskExpires ==
    /\ Alive /\ task = "waiting"
    /\ promise[adds] = "unset"
    /\ Enqueue(Cmd("Cancel", ui.key, {}, "timeout"))
    /\ future' = IF future = "pending" THEN "nullopt" ELSE future
    /\ TaskStep("done")

-----------------------------------------------------------------------------
(* The worker.  It handles one command after the other.                    *)

Take(op) ==
    /\ Alive /\ cmds # <<>> /\ Head(cmds).op = op
    /\ cmds' = Tail(cmds)
    /\ UNCHANGED <<uiVars, taskVars, adds, others, gaps, exports>>

Put(k, t) == torrents' = [torrents EXCEPT ![k] = t]

\* Mutant of HandlePrepare: no check for a task with the same info-hash.
HandlePrepareUnchecked ==
    /\ Take("Prepare")
    /\ LET k == Head(cmds).key IN
        /\ pending' = [pending EXCEPT ![k] = Head(cmds).link]
        /\ Put(k, IF torrents[k].kind = "none" THEN Temp ELSE torrents[k])
    /\ UNCHANGED <<prepared, promise>>

\* A link whose torrent is there is refused; the others are added for their
\* metadata only.
HandlePrepare ==
    /\ Take("Prepare")
    /\ LET k == Head(cmds).key IN
        \/ /\ torrents[k].kind # "none"
           /\ promise' = [promise EXCEPT ![Head(cmds).link] = "nullopt"]
           /\ UNCHANGED <<pending, prepared, torrents>>
        \/ /\ torrents[k].kind = "none"
           /\ pending' = [pending EXCEPT ![k] = Head(cmds).link]
           /\ Put(k, Temp)
           /\ UNCHANGED <<prepared, promise>>

\* Mutant of HandleCancel: the torrent is forgotten but not removed.
HandleCancelLeavesTorrent ==
    /\ Take("Cancel")
    /\ LET k == Head(cmds).key IN
        /\ prepared' = prepared \ {k}
        /\ pending' = [pending EXCEPT ![k] = 0]
    /\ UNCHANGED <<promise, torrents>>

\* Whatever torrent has the key is removed.
HandleCancel ==
    /\ Take("Cancel")
    /\ LET k == Head(cmds).key IN
        /\ Put(k, NoTorrent)
        /\ prepared' = prepared \ {k}
        /\ pending' = [pending EXCEPT ![k] = 0]
    /\ UNCHANGED promise

HandleFinalize ==
    /\ Take("Finalize")
    /\ LET k == Head(cmds).key IN
        IF k \in prepared
        THEN /\ Put(k, Real(Head(cmds).files))
             /\ prepared' = prepared \ {k}
        ELSE UNCHANGED <<torrents, prepared>>
    /\ UNCHANGED <<pending, promise>>

\* The file a user opens is there; the exported one may be gone.
HandleAddTorrentFile ==
    /\ Take("AddTorrentFile")
    /\ LET c == Head(cmds) IN
        IF /\ c.from = "dialog" => c.key \in exports
           /\ torrents[c.key].kind = "none"
        THEN Put(c.key, Real(c.files))
        ELSE UNCHANGED torrents
    /\ UNCHANGED <<pending, prepared, promise>>

HandleAddMagnet ==
    /\ Take("AddMagnet")
    /\ LET k == Head(cmds).key IN
        IF torrents[k].kind = "none" THEN Put(k, Real(Files))
                                     ELSE UNCHANGED torrents
    /\ UNCHANGED <<pending, prepared, promise>>

HandleRemove ==
    /\ Take("Remove")
    /\ Put(Head(cmds).key, NoTorrent)
    /\ UNCHANGED <<pending, prepared, promise>>

\* What becomes of metadata: they are exported next to the payload, or cannot
\* be written, or are refused because their file list is empty or uneven.
Outcomes ==
    {"exported"}
    \cup (IF "exportFails" \in Faults THEN {"unexported"} ELSE {})
    \cup (IF "badMetadata" \in Faults THEN {"nullopt"} ELSE {})

\* tryFulfillPendingMagnetMeta: the metadata are cached and answer the link
\* that waits.  Refused ones are answered with nothing; the torrent stays.
MetadataArrives(k) ==
    /\ Alive
    /\ pending[k] # 0 /\ torrents[k].kind # "none"
    /\ pending' = [pending EXCEPT ![k] = 0]
    /\ prepared' = prepared \cup {k}
    /\ \E a \in Outcomes :
        /\ promise' = [promise EXCEPT ![pending[k]] = a]
        /\ exports' = IF a = "exported" THEN exports \cup {k} ELSE exports
        /\ gaps' = IF a = "nullopt" THEN gaps \cup {k} ELSE gaps
    /\ UNCHANGED <<uiVars, taskVars, torrents, cmds, adds, others>>

-----------------------------------------------------------------------------
Handle ==
    \/ HandlePrepare \/ HandleCancel \/ HandleFinalize
    \/ HandleAddTorrentFile \/ HandleAddMagnet \/ HandleRemove

TaskNext == TaskAsks \/ TaskAnswered \/ TaskExpires

UiNext == Cleanup \/ Submit \/ SubmitTorrentFile \/ RemoveExport \/ Join

Next ==
    \/ \E k \in Keys :
        \/ OpenTorrentLink(k) \/ SubmitArgvMagnet(k) \/ MetadataArrives(k)
        \/ RssAdd(k) \/ OpenTorrentFile(k) \/ RemoveTask(k)
    \/ PollMetadata \/ SetAllWanted \/ Accept \/ Reject
    \/ \E f \in Files : Toggle(f)
    \/ UiNext \/ TaskNext \/ Handle

Spec == Init /\ [][Next]_vars

\* The UI thread goes on when it is not in an event loop, the background call
\* ends at its time-out, and the worker handles what is queued.
FairSpec == Spec /\ WF_vars(UiNext) /\ WF_vars(TaskNext) /\ WF_vars(Handle)

-----------------------------------------------------------------------------
(* Properties                                                              *)

\* Every variable has the type of its member or local.
TypeOK ==
    /\ ui \in [at : {"idle", "dialog", "cleanup", "submit", "addFile",
                     "remove", "join", "aborted"},
               key : Keys \cup {NoKey}]
    /\ dialog \in [meta : {"pending", "ready", "failed"}, ticked : SUBSET Files]
    /\ cached \in {"none", "exported", "unexported"}
    /\ task \in {"none", "starting", "waiting", "done"}
    /\ future \in Answers \cup {"pending", "taken"}
    /\ promise \in [Adds -> Answers \cup {"unset"}]
    /\ cmds \in Seq([op : Ops, key : Keys, files : SUBSET Files, from : Froms,
                     link : 0..MaxAdds])
    /\ pending \in [Keys -> {0} \cup Adds]
    /\ prepared \in SUBSET Keys
    /\ torrents \in [Keys -> [kind : {"none", "temp", "real"},
                              files : SUBSET Files]]
    /\ exports \in SUBSET Keys /\ gaps \in SUBSET Keys
    /\ adds \in 0..MaxAdds /\ others \in 0..MaxOthers

Queued(op, k) == \E i \in DOMAIN cmds : cmds[i].op = op /\ cmds[i].key = k

\* A torrent added only for its metadata is never forgotten: the link is still
\* being worked on, or a command that removes or replaces it is queued.  The
\* two exceptions the code has are the keys in gaps: a cancel that overtook
\* the prepare, and metadata that were refused.
TempOwned ==
    \A k \in Keys : torrents[k].kind = "temp" =>
        \/ ui.key = k /\ ui.at # "aborted"
        \/ \E op \in {"Cancel", "Finalize", "Remove"} : Queued(op, k)
        \/ ui.at = "aborted"
        \/ k \in gaps

\* When the worker reaches the add of an accepted dialog, nothing is left of
\* the preparation: the cancel was handled before it.
AddAfterCancel ==
    cmds # <<>> /\ Head(cmds).op = "AddTorrentFile" /\ Head(cmds).from = "dialog"
    => LET k == Head(cmds).key IN
        k \notin prepared /\ pending[k] = 0 /\ torrents[k].kind # "temp"

\* A task of the list leaves the session by the user's remove command, or by
\* a cancel sent before the dialog had its answer; once the dialog has shown
\* the files of a link, cancelling or submitting it removes no other's task.
TasksKept ==
    [][\A k \in Keys :
        torrents[k].kind = "real" /\ torrents'[k].kind # "real" =>
            \/ Head(cmds).op = "Remove"
            \/ Head(cmds).op = "Cancel" /\ Head(cmds).from # "dialog"]_vars

\* The UI thread, which waits in the future's destructor, returns.
JoinReturns == ui.at = "join" ~> ui.at = "idle"
=============================================================================
