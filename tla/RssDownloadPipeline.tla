------------------------ MODULE RssDownloadPipeline ------------------------
(***************************************************************************)
(* One lane of the RSS download pipeline                                   *)
(* (app/rss_download_pipeline.cc, app/rss_download_orchestrator.cc) with   *)
(* the handlers AppController installs in it.                              *)
(*                                                                         *)
(* The magnet lane and the .torrent-URL lane are the same code over two    *)
(* sets of members (magnetQueue_/rssTorrentQueue_ and so on); this module  *)
(* models either.  Every critical section of the lane's mutex is one step, *)
(* and so is every post to the UI event loop, so that a thread can be      *)
(* overtaken between pushing an item and scheduling the pump, or between   *)
(* setting the "pump scheduled" flag and posting the pump event.           *)
(***************************************************************************)
EXTENDS Integers, Sequences, FiniteSets

CONSTANTS
  Items,        \* download requests; each is enqueued at most once
  Threads,      \* threads that call enqueue
  UI,           \* the thread that runs the event loop and all handlers
  Limits,       \* arguments of setMagnetMaxInFlight
  DefaultLimit  \* initial value of magnetMaxInFlight_ / rssTorrentMaxInFlight_

ASSUME PipelineAssumption ==
  /\ UI \in Threads
  /\ Limits \subseteq Int
  /\ DefaultLimit \in Nat \ {0}

VARIABLES
  queue,          \* magnetQueue_ / rssTorrentQueue_
  inFlight,       \* magnetInFlight_ / rssTorrentInFlight_
  maxInFlight,    \* magnetMaxInFlight_ / rssTorrentMaxInFlight_
  pumpScheduled,  \* magnetPumpScheduled_ / rssTorrentPumpScheduled_
  pumpEvents,     \* pump calls posted to the event loop, by the closure they carry
  call,           \* where each thread is inside an operation of the pipeline
  stage,          \* how far each item has got
  shuttingDown    \* AppController::shuttingDown_

lane == <<queue, inFlight, maxInFlight, pumpScheduled>>
vars == <<queue, inFlight, maxInFlight, pumpScheduled, pumpEvents, call, stage,
          shuttingDown>>

\* The two closures a pump event can carry: the one enqueue passes looks at
\* shuttingDown_ before it calls the handler, the one finish passes does not.
Closures == {"checked", "direct"}

Idle == [at |-> "idle"]
Calls ==
  {Idle}
    \cup [at : {"push"}, item : Items]           \* limit set, item not pushed yet
    \cup [at : {"schedule", "post"}, fn : Closures]
    \cup [at : {"start"}, item : Items, fn : Closures]

Running == {i \in Items : stage[i] \in {"starting", "fetching", "gotFile", "noFile"}}
Settled == {i \in Items : stage[i] \in {"ok", "fail"}}

Stages == {"new", "calling", "queued", "starting", "fetching", "gotFile", "noFile",
           "ok", "fail"}

Init ==
  /\ queue = <<>>
  /\ inFlight = 0
  /\ maxInFlight = DefaultLimit
  /\ pumpScheduled = FALSE
  /\ pumpEvents = <<>>
  /\ call = [t \in Threads |-> Idle]
  /\ stage = [i \in Items |-> "new"]
  /\ shuttingDown = FALSE

-----------------------------------------------------------------------------
(* enqueue: set the limit, push, schedule the pump.                        *)

\* Variant: setMagnetMaxInFlight stores its argument as it is.
LimitAsGiven(n) == n

AtLeastOne(n) == IF n < 1 THEN 1 ELSE n

\* The RSS download callback drops requests once the application is shutting
\* down.  enqueueMagnet sets the limit first; the URL lane keeps its own.
EnqueueCall(t, i) ==
  /\ call[t] = Idle
  /\ ~shuttingDown
  /\ stage[i] = "new"
  /\ maxInFlight' \in {AtLeastOne(n) : n \in Limits} \cup {maxInFlight}
  /\ call' = [call EXCEPT ![t] = [at |-> "push", item |-> i]]
  /\ stage' = [stage EXCEPT ![i] = "calling"]
  /\ UNCHANGED <<queue, inFlight, pumpScheduled, pumpEvents, shuttingDown>>

EnqueuePush(t) ==
  /\ call[t].at = "push"
  /\ queue' = Append(queue, call[t].item)
  /\ stage' = [stage EXCEPT ![call[t].item] = "queued"]
  /\ call' = [call EXCEPT ![t] = [at |-> "schedule", fn |-> "checked"]]
  /\ UNCHANGED <<inFlight, maxInFlight, pumpScheduled, pumpEvents, shuttingDown>>

\* Variant: the flag is set but not looked at.
SchedulePumpAlways(t) ==
  /\ call[t].at = "schedule"
  /\ pumpScheduled' = TRUE
  /\ call' = [call EXCEPT ![t] = [at |-> "post", fn |-> call[t].fn]]
  /\ UNCHANGED <<queue, inFlight, maxInFlight, pumpEvents, stage, shuttingDown>>

\* The critical section of schedulePump: one caller at a time wins the right
\* to post the pump event.
SchedulePump(t) ==
  /\ call[t].at = "schedule"
  /\ pumpScheduled' = TRUE
  /\ call' = [call EXCEPT ![t] = IF pumpScheduled
                                 THEN Idle
                                 ELSE [at |-> "post", fn |-> call[t].fn]]
  /\ UNCHANGED <<queue, inFlight, maxInFlight, pumpEvents, stage, shuttingDown>>

\* QMetaObject::invokeMethod(owner_, ..., Qt::QueuedConnection)
PostPump(t) ==
  /\ call[t].at = "post"
  /\ pumpEvents' = Append(pumpEvents, call[t].fn)
  /\ call' = [call EXCEPT ![t] = Idle]
  /\ UNCHANGED <<lane, stage, shuttingDown>>

-----------------------------------------------------------------------------
(* The pump, and the handler it starts, on the UI thread.                  *)

\* Variant: one item more than the limit.
SlotFreeOffByOne == inFlight <= maxInFlight

SlotFree == inFlight < maxInFlight

\* Variant: the early return comes before the flag is cleared.
PumpIdleKeepsFlag ==
  /\ call[UI] = Idle
  /\ pumpEvents # <<>>
  /\ ~SlotFree \/ queue = <<>>
  /\ pumpEvents' = Tail(pumpEvents)
  /\ UNCHANGED <<lane, call, stage, shuttingDown>>

\* Nothing to start: no item, or no free slot.
PumpIdle ==
  /\ call[UI] = Idle
  /\ pumpEvents # <<>>
  /\ ~SlotFree \/ queue = <<>>
  /\ pumpScheduled' = FALSE
  /\ pumpEvents' = Tail(pumpEvents)
  /\ UNCHANGED <<queue, inFlight, maxInFlight, call, stage, shuttingDown>>

\* Variant: the item is read with front() and never popped.
PumpStartWithoutPop ==
  /\ call[UI] = Idle
  /\ pumpEvents # <<>>
  /\ SlotFree /\ queue # <<>>
  /\ pumpScheduled' = FALSE
  /\ pumpEvents' = Tail(pumpEvents)
  /\ inFlight' = inFlight + 1
  /\ call' = [call EXCEPT ![UI] =
                [at |-> "start", item |-> Head(queue), fn |-> Head(pumpEvents)]]
  /\ stage' = [stage EXCEPT ![Head(queue)] = "starting"]
  /\ UNCHANGED <<queue, maxInFlight, shuttingDown>>

\* One pump event starts one item.
PumpStart ==
  /\ call[UI] = Idle
  /\ pumpEvents # <<>>
  /\ SlotFree /\ queue # <<>>
  /\ pumpScheduled' = FALSE
  /\ pumpEvents' = Tail(pumpEvents)
  /\ queue' = Tail(queue)
  /\ inFlight' = inFlight + 1
  /\ call' = [call EXCEPT ![UI] =
                [at |-> "start", item |-> Head(queue), fn |-> Head(pumpEvents)]]
  /\ stage' = [stage EXCEPT ![Head(queue)] = "starting"]
  /\ UNCHANGED <<maxInFlight, shuttingDown>>

\* Variant: finish gives the slot back and does not schedule the pump.
SettleWithoutSchedule(i, result) ==
  /\ stage' = [stage EXCEPT ![i] = result]
  /\ inFlight' = IF inFlight > 0 THEN inFlight - 1 ELSE 0
  /\ call' = [call EXCEPT ![UI] = Idle]
  /\ UNCHANGED <<queue, maxInFlight, pumpScheduled, pumpEvents, shuttingDown>>

\* settleRssDownloadIfNeeded followed by the critical section of finish: the
\* UI thread settles the item, gives its slot back, and goes on to schedule
\* the pump for the next one.
SettleAndFinish(i, result) ==
  /\ stage' = [stage EXCEPT ![i] = result]
  /\ inFlight' = IF inFlight > 0 THEN inFlight - 1 ELSE 0
  /\ call' = [call EXCEPT ![UI] = [at |-> "schedule", fn |-> "direct"]]
  /\ UNCHANGED <<queue, maxInFlight, pumpScheduled, pumpEvents, shuttingDown>>

\* The item is settled before the handler returns: the application is shutting
\* down (seen by the closure or by the handler), the URI or URL is rejected,
\* or a magnet is added without asking the user.
StartSettles ==
  /\ call[UI].at = "start"
  /\ \E r \in (IF shuttingDown THEN {"fail"} ELSE {"ok", "fail"}) :
       SettleAndFinish(call[UI].item, r)

\* The handler hands the item to a background task (std::async).
StartFetch ==
  /\ call[UI].at = "start"
  /\ ~shuttingDown
  /\ stage' = [stage EXCEPT ![call[UI].item] = "fetching"]
  /\ call' = [call EXCEPT ![UI] = Idle]
  /\ UNCHANGED <<lane, pumpEvents, shuttingDown>>

\* The background task posts its result to the event loop.  Once the
\* application is shutting down it posts a failure whatever it fetched.
FetchDone(i) ==
  /\ stage[i] = "fetching"
  /\ stage' \in {[stage EXCEPT ![i] = s] :
                   s \in {"noFile"} \cup (IF shuttingDown THEN {} ELSE {"gotFile"})}
  /\ UNCHANGED <<lane, pumpEvents, call, shuttingDown>>

\* Variant: the path for a failed fetch settles the item and returns early.
FetchResultLeaksSlot(i) ==
  /\ call[UI] = Idle
  /\ \/ /\ stage[i] = "gotFile"
        /\ \E r \in {"ok", "fail"} : SettleAndFinish(i, r)
     \/ /\ stage[i] = "noFile"
        /\ stage' = [stage EXCEPT ![i] = "fail"]
        /\ UNCHANGED <<lane, pumpEvents, call, shuttingDown>>

\* The posted result runs on the UI thread; a fetched file can still be refused.
FetchResult(i) ==
  /\ call[UI] = Idle
  /\ stage[i] \in {"gotFile", "noFile"}
  /\ \E r \in {"fail"} \cup (IF stage[i] = "gotFile" THEN {"ok"} ELSE {}) :
       SettleAndFinish(i, r)

-----------------------------------------------------------------------------
\* QApplication::aboutToQuit
AboutToQuit ==
  /\ ~shuttingDown
  /\ shuttingDown' = TRUE
  /\ UNCHANGED <<lane, pumpEvents, call, stage>>

\* The application may end once every thread has returned and every request
\* that was accepted has been settled.
Ended ==
  /\ shuttingDown
  /\ \A t \in Threads : call[t] = Idle
  /\ pumpEvents = <<>>
  /\ \A i \in Items : stage[i] = "new" \/ i \in Settled
  /\ UNCHANGED vars

Next ==
  \/ \E t \in Threads :
       \/ \E i \in Items : EnqueueCall(t, i)
       \/ EnqueuePush(t) \/ SchedulePump(t) \/ PostPump(t)
  \/ PumpIdle \/ PumpStart \/ StartSettles \/ StartFetch
  \/ \E i \in Items : FetchDone(i) \/ FetchResult(i)
  \/ AboutToQuit
  \/ Ended

Spec == Init /\ [][Next]_vars

\* A thread that is inside an operation goes on; the event loop runs posted
\* events as long as the application is not shutting down; a fetch ends,
\* because the request has a transfer timeout.
Fairness ==
  /\ \A t \in Threads : WF_vars(EnqueuePush(t) \/ SchedulePump(t) \/ PostPump(t))
  /\ WF_vars(~shuttingDown /\ (PumpIdle \/ PumpStart))
  /\ WF_vars(StartSettles \/ StartFetch)
  /\ \A i \in Items : WF_vars(FetchDone(i))
  /\ \A i \in Items : WF_vars(~shuttingDown /\ FetchResult(i))

FairSpec == Spec /\ Fairness

-----------------------------------------------------------------------------
(* Properties                                                              *)

\* Every variable has the type its member has in the code.
TypeOK ==
  /\ queue \in Seq(Items)
  /\ inFlight \in Nat
  /\ maxInFlight \in Nat \ {0}
  /\ pumpScheduled \in BOOLEAN
  /\ pumpEvents \in Seq(Closures)
  /\ call \in [Threads -> Calls]
  /\ stage \in [Items -> Stages]
  /\ shuttingDown \in BOOLEAN

\* The flag magnetPumpScheduled_ and the event loop agree: while it is set
\* there is exactly one pump event, posted or about to be, and while it is
\* clear there is none.
SinglePump ==
  /\ pumpScheduled <=> pumpEvents # <<>> \/ \E t \in Threads : call[t].at = "post"
  /\ Len(pumpEvents) <= 1
  /\ \A t \in Threads : call[t].at = "post" =>
       /\ pumpEvents = <<>>
       /\ \A u \in Threads : call[u].at = "post" => u = t

\* No lost wake-up: while an item waits in the queue, a pump is on its way, or
\* an item in flight will call finish, or a thread is about to schedule one.
NoLostWakeup ==
  queue # <<>> =>
    \/ pumpScheduled
    \/ Running # {}
    \/ \E t \in Threads : call[t].at = "schedule"

\* magnetInFlight_ counts the items handed to a handler and not yet settled:
\* every start is matched by one finish, on every path through the handlers,
\* and the max(0, ...) of finish never hides a finish too many.
InFlightExact == inFlight = Cardinality(Running)

Distinct(q) == \A j, k \in DOMAIN q : q[j] = q[k] => j = k
Elements(q) == {q[k] : k \in DOMAIN q}

\* The queue holds each waiting item once and nothing else.
QueueExact ==
  /\ Distinct(queue)
  /\ Elements(queue) = {i \in Items : stage[i] = "queued"}

\* A settled item is never started, fetched or settled again.
SettledOnce == [][\A i \in Settled : stage'[i] = stage[i]]_vars

\* An item that entered the queue is settled, unless the application shuts down.
EverySettled ==
  \A i \in Items : stage[i] = "queued" ~> i \in Settled \/ shuttingDown

\* The pipeline implements the queue its callers rely on.
Abstract == INSTANCE DownloadQueue WITH
  waiting <- queue,
  running <- Running,
  outcome <- [i \in Items |-> IF i \in Settled THEN stage[i] ELSE "none"],
  limit   <- maxInFlight

ImplementsDownloadQueue == Abstract!Spec
=============================================================================
