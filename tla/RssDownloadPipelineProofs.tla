--------------------- MODULE RssDownloadPipelineProofs ---------------------
(***************************************************************************)
(* Proofs about RssDownloadPipeline for any set of items, any set of       *)
(* threads and any limits.                                                 *)
(***************************************************************************)
EXTENDS RssDownloadPipeline, FiniteSetTheorems, SequenceTheorems, TLAPS

\* A thread that is about to push holds an item nobody else has, and only the
\* UI thread runs a handler, on an item that is in flight.
PushOwns ==
  \A t \in Threads : call[t].at = "push" => stage[call[t].item] = "calling"
PushDistinct ==
  \A t, u \in Threads :
    call[t].at = "push" /\ call[u].at = "push" /\ call[t].item = call[u].item => t = u
StartOwns ==
  \A t \in Threads : call[t].at = "start" => t = UI /\ stage[call[t].item] = "starting"
CallsOwnItems == PushOwns /\ PushDistinct /\ StartOwns

\* The inductive invariant of the pump protocol.
IInv ==
  /\ TypeOK
  /\ CallsOwnItems
  /\ QueueExact
  /\ SinglePump
  /\ IsFiniteSet(Running)
  /\ InFlightExact
  /\ NoLostWakeup

(***************************************************************************)
(* Type correctness                                                        *)
(***************************************************************************)

\* The record a thread holds has the fields its program point needs.
LEMMA CallFields ==
  ASSUME NEW c \in Calls
  PROVE  /\ c.at \in {"idle", "push", "schedule", "post", "start"}
         /\ c.at = "push" => c.item \in Items
         /\ c.at \in {"schedule", "post"} => c.fn \in Closures
         /\ c.at = "start" => c.item \in Items /\ c.fn \in Closures
         /\ c.at = "idle" <=> c = Idle
  BY DEF Calls, Idle

\* The records the actions build are calls.
LEMMA CallValues ==
  /\ Idle \in Calls
  /\ \A i \in Items : [at |-> "push", item |-> i] \in Calls
  /\ \A f \in Closures : /\ [at |-> "schedule", fn |-> f] \in Calls
                         /\ [at |-> "post", fn |-> f] \in Calls
  /\ \A i \in Items, f \in Closures : [at |-> "start", item |-> i, fn |-> f] \in Calls
  BY DEF Calls, Idle

\* Every limit the lane can store is positive, because of the clamp.
LEMMA LimitPositive ==
  ASSUME NEW n \in Limits
  PROVE  AtLeastOne(n) \in Nat \ {0}
  BY PipelineAssumption DEF AtLeastOne

\* Every step of the pipeline keeps the types of its members.
LEMMA TypeStep == TypeOK /\ [Next]_vars => TypeOK'
<1> SUFFICES ASSUME TypeOK, [Next]_vars PROVE TypeOK'
  OBVIOUS
<1> USE DEF TypeOK
<1>1. ASSUME NEW t \in Threads, NEW i \in Items, EnqueueCall(t, i) PROVE TypeOK'
  <2>1. maxInFlight' \in Nat \ {0}
    BY <1>1, LimitPositive DEF EnqueueCall
  <2>2. call' \in [Threads -> Calls]
    BY <1>1, CallValues DEF EnqueueCall
  <2>3. stage' \in [Items -> Stages]
    BY <1>1 DEF EnqueueCall, Stages
  <2> QED
    BY <1>1, <2>1, <2>2, <2>3 DEF EnqueueCall
<1>2. ASSUME NEW t \in Threads, EnqueuePush(t) PROVE TypeOK'
  <2>1. call[t] \in Calls /\ call[t].item \in Items
    BY <1>2, CallFields DEF EnqueuePush
  <2>2. call' \in [Threads -> Calls]
    BY <1>2, CallValues DEF EnqueuePush, Closures
  <2>3. stage' \in [Items -> Stages]
    BY <1>2, <2>1 DEF EnqueuePush, Stages
  <2> QED
    BY <1>2, <2>1, <2>2, <2>3 DEF EnqueuePush
<1>3. ASSUME NEW t \in Threads, SchedulePump(t) PROVE TypeOK'
  <2>1. call[t].fn \in Closures
    BY <1>3, CallFields DEF SchedulePump
  <2>2. call' \in [Threads -> Calls]
    BY <1>3, <2>1, CallValues DEF SchedulePump
  <2> QED
    BY <1>3, <2>2 DEF SchedulePump
<1>4. ASSUME NEW t \in Threads, PostPump(t) PROVE TypeOK'
  <2>1. call[t].fn \in Closures
    BY <1>4, CallFields DEF PostPump
  <2>2. call' \in [Threads -> Calls]
    BY <1>4, CallValues DEF PostPump
  <2> QED
    BY <1>4, <2>1, <2>2 DEF PostPump, lane
<1>5. ASSUME PumpIdle PROVE TypeOK'
  <2>1. pumpEvents' \in Seq(Closures)
    BY <1>5 DEF PumpIdle
  <2> QED
    BY <1>5, <2>1 DEF PumpIdle
<1>6. ASSUME PumpStart PROVE TypeOK'
  <2>1. Head(queue) \in Items /\ Head(pumpEvents) \in Closures
    BY <1>6 DEF PumpStart
  <2>2. call' \in [Threads -> Calls]
    BY <1>6, <2>1, CallValues, PipelineAssumption DEF PumpStart
  <2>3. stage' \in [Items -> Stages]
    BY <1>6, <2>1 DEF PumpStart, Stages
  <2>4. queue' \in Seq(Items) /\ pumpEvents' \in Seq(Closures)
    BY <1>6 DEF PumpStart
  <2>5. inFlight' \in Nat /\ maxInFlight' \in Nat \ {0}
    BY <1>6 DEF PumpStart
  <2>6. pumpScheduled' \in BOOLEAN /\ shuttingDown' \in BOOLEAN
    BY <1>6 DEF PumpStart
  <2> QED
    BY <2>2, <2>3, <2>4, <2>5, <2>6
<1>7. ASSUME NEW i \in Items, NEW r \in {"ok", "fail"}, SettleAndFinish(i, r)
      PROVE TypeOK'
  <2>1. call' \in [Threads -> Calls]
    BY <1>7, CallValues, PipelineAssumption DEF SettleAndFinish, Closures
  <2>2. stage' \in [Items -> Stages]
    BY <1>7 DEF SettleAndFinish, Stages
  <2> QED
    BY <1>7, <2>1, <2>2 DEF SettleAndFinish
<1>8. ASSUME StartSettles PROVE TypeOK'
  <2>1. call[UI].item \in Items
    BY <1>8, CallFields, PipelineAssumption DEF StartSettles
  <2> QED
    BY <1>7, <1>8, <2>1 DEF StartSettles
<1>9. ASSUME StartFetch PROVE TypeOK'
  <2>1. call' \in [Threads -> Calls]
    BY <1>9, CallValues, PipelineAssumption DEF StartFetch
  <2>2. stage' \in [Items -> Stages]
    BY <1>9 DEF StartFetch, Stages
  <2> QED
    BY <1>9, <2>1, <2>2 DEF StartFetch, lane
<1>10. ASSUME NEW i \in Items, FetchDone(i) PROVE TypeOK'
  <2>1. stage' \in [Items -> Stages]
    BY <1>10 DEF FetchDone, Stages
  <2> QED
    BY <1>10, <2>1 DEF FetchDone, lane
<1>11. ASSUME NEW i \in Items, FetchResult(i) PROVE TypeOK'
  BY <1>7, <1>11 DEF FetchResult
<1>12. ASSUME AboutToQuit PROVE TypeOK'
  BY <1>12 DEF AboutToQuit, lane
<1>13. ASSUME UNCHANGED vars PROVE TypeOK'
  BY <1>13 DEF vars
<1> QED
  BY <1>1, <1>2, <1>3, <1>4, <1>5, <1>6, <1>8, <1>9, <1>10, <1>11, <1>12, <1>13
  DEF Next, Ended

\* The lane starts with members of the right types.
LEMMA InitTypeOK == Init => TypeOK
<1>1. ASSUME Init PROVE TypeOK
  <2>1. call \in [Threads -> Calls]
    BY <1>1, CallValues DEF Init
  <2>2. stage \in [Items -> Stages]
    BY <1>1 DEF Init, Stages
  <2>3. queue \in Seq(Items) /\ pumpEvents \in Seq(Closures)
    BY <1>1 DEF Init
  <2>4. pumpScheduled \in BOOLEAN /\ shuttingDown \in BOOLEAN
    BY <1>1 DEF Init
  <2> QED
    BY <1>1, <2>1, <2>2, <2>3, <2>4, PipelineAssumption DEF Init, TypeOK
<1> QED
  BY <1>1

\* TypeOK holds in every reachable state of the lane, whatever the threads do.
THEOREM TypeCorrect == Spec => []TypeOK
  BY InitTypeOK, TypeStep, PTL DEF Spec

(***************************************************************************)
(* The pump protocol                                                       *)
(***************************************************************************)

\* Pushing a new element keeps the elements distinct and adds just that one.
LEMMA PushBack ==
  ASSUME NEW S, NEW q \in Seq(S), NEW x \in S, Distinct(q), x \notin Elements(q)
  PROVE  /\ Distinct(Append(q, x))
         /\ Elements(Append(q, x)) = Elements(q) \cup {x}
<1> DEFINE a == Append(q, x)
<1>1. /\ DOMAIN a = 1 .. Len(q) + 1
      /\ DOMAIN q = 1 .. Len(q)
      /\ Len(q) \in Nat
      /\ \A k \in 1 .. Len(q) : a[k] = q[k]
      /\ a[Len(q) + 1] = x
  OBVIOUS
<1>2. Distinct(a)
  BY <1>1 DEF Distinct, Elements
<1>3. Elements(a) = Elements(q) \cup {x}
  BY <1>1 DEF Elements
<1> QED
  BY <1>2, <1>3

\* Popping the front removes just the first of distinct elements.
LEMMA PopFront ==
  ASSUME NEW S, NEW q \in Seq(S), q # <<>>, Distinct(q)
  PROVE  /\ Distinct(Tail(q))
         /\ Elements(Tail(q)) = Elements(q) \ {Head(q)}
         /\ Head(q) \in Elements(q)
<1> DEFINE a == Tail(q)
<1>1. /\ DOMAIN a = 1 .. Len(q) - 1
      /\ DOMAIN q = 1 .. Len(q)
      /\ Len(q) \in Nat \ {0}
      /\ \A k \in 1 .. Len(q) - 1 : a[k] = q[k + 1]
      /\ Head(q) = q[1]
  OBVIOUS
<1>2. Distinct(a)
  BY <1>1 DEF Distinct
<1>3. ASSUME NEW y \in Elements(a) PROVE y \in Elements(q) /\ y # Head(q)
  BY <1>1 DEF Elements, Distinct
<1>4. ASSUME NEW y \in Elements(q), y # Head(q) PROVE y \in Elements(a)
  <2>1. PICK k \in 1 .. Len(q) : y = q[k]
    BY <1>1 DEF Elements
  <2>2. k # 1
    BY <1>1, <1>4, <2>1
  <2>3. k - 1 \in DOMAIN a /\ a[k - 1] = y
    BY <1>1, <2>1, <2>2
  <2> QED
    BY <2>3 DEF Elements
<1>5. Head(q) \in Elements(q)
  BY <1>1 DEF Elements
<1> QED
  BY <1>2, <1>3, <1>4, <1>5

\* The event loop is left without a pump event once the only one has run.
LEMMA LastEvent ==
  ASSUME NEW S, NEW q \in Seq(S), q # <<>>, Len(q) <= 1
  PROVE  Tail(q) = <<>> /\ Len(Tail(q)) = 0
<1>0. Len(q) \in Nat \ {0}
  BY EmptySeq, Zenon
<1>1. Len(q) = 1
  BY <1>0
<1>2. Tail(q) \in Seq(S) /\ Len(Tail(q)) = 0
  BY <1>1, HeadTailProperties
<1> QED
  BY <1>2, EmptySeq

\* enqueue, first step: the caller owns the item, nothing else moves.
LEMMA EnqueueCallStep ==
  ASSUME IInv, TypeOK', NEW t \in Threads, NEW i \in Items, EnqueueCall(t, i)
  PROVE  IInv'
<1> USE DEF IInv, TypeOK
<1>1. /\ call[t].at = "idle"
      /\ call'[t] = [at |-> "push", item |-> i]
      /\ \A u \in Threads \ {t} : call'[u] = call[u]
      /\ stage[i] = "new" /\ stage'[i] = "calling"
      /\ \A j \in Items \ {i} : stage'[j] = stage[j]
      /\ queue' = queue /\ inFlight' = inFlight
      /\ pumpScheduled' = pumpScheduled /\ pumpEvents' = pumpEvents
  BY DEF EnqueueCall, Idle
<1>2. \A u \in Threads : /\ call'[u].at = "post" <=> call[u].at = "post"
                        /\ call'[u].at = "schedule" <=> call[u].at = "schedule"
  BY <1>1
<1>3. CallsOwnItems'
  <2>1. \A u \in Threads : call[u].at \in {"push", "start"} => call[u].item \in Items
    BY CallFields
  <2>2. PushOwns'
    BY <1>1, <2>1 DEF CallsOwnItems, PushOwns
  <2>3. \A u \in Threads \ {t} : call[u].at = "push" => call[u].item # i
    BY <1>1 DEF CallsOwnItems, PushOwns
  <2>4. PushDistinct'
    BY <1>1, <2>3 DEF CallsOwnItems, PushDistinct
  <2>5. StartOwns'
    BY <1>1, <2>1 DEF CallsOwnItems, StartOwns
  <2> QED
    BY <2>2, <2>4, <2>5 DEF CallsOwnItems
<1>4. Running' = Running
  BY <1>1 DEF Running
<1>5. QueueExact'
  BY <1>1 DEF QueueExact
<1>6. SinglePump'
  BY <1>1, <1>2 DEF SinglePump
<1>7. NoLostWakeup'
  BY <1>1, <1>2, <1>4 DEF NoLostWakeup
<1> QED
  BY <1>1, <1>3, <1>4, <1>5, <1>6, <1>7 DEF InFlightExact

\* enqueue, second step: the item enters the queue, and the caller will schedule.
LEMMA EnqueuePushStep ==
  ASSUME IInv, TypeOK', NEW t \in Threads, EnqueuePush(t)
  PROVE  IInv'
<1> USE DEF IInv, TypeOK
<1> DEFINE i == call[t].item
<1>1. /\ call[t].at = "push"
      /\ call'[t] = [at |-> "schedule", fn |-> "checked"]
      /\ \A u \in Threads \ {t} : call'[u] = call[u]
      /\ i \in Items
      /\ stage[i] = "calling" /\ stage'[i] = "queued"
      /\ \A j \in Items \ {i} : stage'[j] = stage[j]
      /\ queue' = Append(queue, i) /\ inFlight' = inFlight
      /\ pumpScheduled' = pumpScheduled /\ pumpEvents' = pumpEvents
  BY CallFields DEF EnqueuePush, CallsOwnItems, PushOwns
<1> HIDE DEF i
<1>2. \A u \in Threads : call'[u].at = "post" <=> call[u].at = "post"
  BY <1>1
<1>3. CallsOwnItems'
  <2>1. \A u \in Threads : call[u].at \in {"push", "start"} => call[u].item \in Items
    BY CallFields
  <2>2. \A u \in Threads \ {t} : call[u].at = "push" => call[u].item # i
    BY <1>1 DEF CallsOwnItems, PushDistinct, i
  <2>3. PushOwns'
    BY <1>1, <2>1, <2>2 DEF CallsOwnItems, PushOwns
  <2>4. PushDistinct'
    BY <1>1 DEF CallsOwnItems, PushDistinct
  <2>5. StartOwns'
    BY <1>1, <2>1 DEF CallsOwnItems, StartOwns
  <2> QED
    BY <2>3, <2>4, <2>5 DEF CallsOwnItems
<1>4. Running' = Running
  BY <1>1 DEF Running
<1>5. QueueExact'
  <2>1. Distinct(queue) /\ Elements(queue) = {j \in Items : stage[j] = "queued"}
    BY DEF QueueExact
  <2>2. /\ Distinct(Append(queue, i))
        /\ Elements(Append(queue, i)) = Elements(queue) \cup {i}
    BY <1>1, <2>1, PushBack
  <2>3. {j \in Items : stage'[j] = "queued"} = {j \in Items : stage[j] = "queued"} \cup {i}
    BY <1>1
  <2> QED
    BY <1>1, <2>1, <2>2, <2>3 DEF QueueExact
<1>6. SinglePump'
  BY <1>1, <1>2 DEF SinglePump
<1>7. NoLostWakeup'
  BY <1>1 DEF NoLostWakeup
<1> QED
  BY <1>1, <1>3, <1>4, <1>5, <1>6, <1>7 DEF InFlightExact

\* schedulePump: the flag is set, and a caller that finds it clear will post.
LEMMA SchedulePumpStep ==
  ASSUME IInv, TypeOK', NEW t \in Threads, SchedulePump(t)
  PROVE  IInv'
<1> USE DEF IInv, TypeOK
<1>1. /\ call[t].at = "schedule"
      /\ call'[t].at = IF pumpScheduled THEN "idle" ELSE "post"
      /\ \A u \in Threads \ {t} : call'[u] = call[u]
      /\ pumpScheduled'
      /\ stage' = stage /\ queue' = queue /\ inFlight' = inFlight
      /\ pumpEvents' = pumpEvents
  BY DEF SchedulePump, Idle
<1>2. CallsOwnItems'
  BY <1>1 DEF CallsOwnItems, PushOwns, PushDistinct, StartOwns
<1>3. Running' = Running
  BY <1>1 DEF Running
<1>4. QueueExact'
  BY <1>1 DEF QueueExact
<1>5. SinglePump'
  <2>1. CASE pumpScheduled
    <3>1. \A u \in Threads : call'[u].at = "post" <=> call[u].at = "post"
      BY <1>1, <2>1
    <3> QED
      BY <1>1, <2>1, <3>1 DEF SinglePump
  <2>2. CASE ~pumpScheduled
    <3>1. pumpEvents = <<>> /\ \A u \in Threads : call[u].at # "post"
      BY <2>2 DEF SinglePump
    <3>2. \A u \in Threads : call'[u].at = "post" <=> u = t
      BY <1>1, <2>2, <3>1
    <3> QED
      BY <1>1, <3>1, <3>2 DEF SinglePump
  <2> QED
    BY <2>1, <2>2
<1>6. NoLostWakeup'
  BY <1>1 DEF NoLostWakeup
<1> QED
  BY <1>1, <1>2, <1>3, <1>4, <1>5, <1>6 DEF InFlightExact

\* The post of the pump event moves it from the thread to the event loop.
LEMMA PostPumpStep ==
  ASSUME IInv, TypeOK', NEW t \in Threads, PostPump(t)
  PROVE  IInv'
<1> USE DEF IInv, TypeOK
<1>1. /\ call[t].at = "post"
      /\ call'[t].at = "idle"
      /\ \A u \in Threads \ {t} : call'[u] = call[u]
      /\ pumpScheduled' = pumpScheduled
      /\ stage' = stage /\ queue' = queue /\ inFlight' = inFlight
      /\ pumpEvents' = Append(pumpEvents, call[t].fn)
  BY DEF PostPump, Idle, lane
<1>2. CallsOwnItems'
  BY <1>1 DEF CallsOwnItems, PushOwns, PushDistinct, StartOwns
<1>3. Running' = Running
  BY <1>1 DEF Running
<1>4. QueueExact'
  BY <1>1 DEF QueueExact
<1>5. SinglePump'
  <2>1. pumpEvents = <<>> /\ pumpScheduled
    BY <1>1 DEF SinglePump
  <2>2. pumpEvents' # <<>> /\ Len(pumpEvents') = 1
    BY <1>1, <2>1
  <2>3. \A u \in Threads : call'[u].at # "post"
    BY <1>1 DEF SinglePump
  <2> QED
    BY <1>1, <2>1, <2>2, <2>3 DEF SinglePump
<1>6. NoLostWakeup'
  BY <1>1, <1>3 DEF NoLostWakeup
<1> QED
  BY <1>1, <1>2, <1>3, <1>4, <1>5, <1>6 DEF InFlightExact

\* A pump event that starts nothing: if an item waits, no slot is free, so some
\* item is in flight and will call finish.  The limit is positive: without the
\* clamp this step would lose the wake-up.
LEMMA PumpIdleStep ==
  ASSUME IInv, TypeOK', PumpIdle
  PROVE  IInv'
<1> USE DEF IInv, TypeOK
<1>1. /\ pumpEvents # <<>>
      /\ inFlight >= maxInFlight \/ queue = <<>>
      /\ ~pumpScheduled'
      /\ pumpEvents' = Tail(pumpEvents)
      /\ call' = call /\ stage' = stage /\ queue' = queue /\ inFlight' = inFlight
  BY DEF PumpIdle, SlotFree
<1>2. CallsOwnItems'
  BY <1>1 DEF CallsOwnItems, PushOwns, PushDistinct, StartOwns
<1>3. Running' = Running
  BY <1>1 DEF Running
<1>4. QueueExact'
  BY <1>1 DEF QueueExact
<1>5. SinglePump'
  <2>1. pumpEvents' = <<>> /\ Len(pumpEvents') = 0
    BY <1>1, LastEvent DEF SinglePump
  <2>2. \A t \in Threads : call'[t].at # "post"
    BY <1>1 DEF SinglePump
  <2> QED
    BY <1>1, <2>1, <2>2 DEF SinglePump
<1>6. NoLostWakeup'
  <2>1. CASE queue = <<>>
    BY <1>1, <2>1 DEF NoLostWakeup
  <2>2. CASE inFlight >= maxInFlight
    <3>1. Cardinality(Running) # 0
      BY <2>2 DEF InFlightExact
    <3>2. Running # {}
      BY <3>1, FS_EmptySet
    <3> QED
      BY <1>3, <3>2 DEF NoLostWakeup
  <2> QED
    BY <1>1, <2>1, <2>2
<1> QED
  BY <1>1, <1>2, <1>3, <1>4, <1>5, <1>6 DEF InFlightExact

\* A pump event that starts the oldest item: the item takes a slot.
LEMMA PumpStartStep ==
  ASSUME IInv, TypeOK', PumpStart
  PROVE  IInv'
<1> USE DEF IInv, TypeOK
<1> DEFINE i == Head(queue)
<1>1. /\ pumpEvents # <<>> /\ queue # <<>>
      /\ ~pumpScheduled'
      /\ pumpEvents' = Tail(pumpEvents)
      /\ queue' = Tail(queue)
      /\ inFlight' = inFlight + 1
      /\ UI \in Threads
      /\ call[UI].at = "idle"
      /\ call'[UI].at = "start" /\ call'[UI].item = i
      /\ \A u \in Threads \ {UI} : call'[u] = call[u]
      /\ i \in Items
      /\ stage'[i] = "starting"
      /\ \A j \in Items \ {i} : stage'[j] = stage[j]
  BY PipelineAssumption DEF PumpStart, Idle
<1>2. /\ Distinct(queue') /\ Elements(queue') = Elements(queue) \ {i}
      /\ i \in Elements(queue)
  BY <1>1, PopFront DEF QueueExact
<1>3. stage[i] = "queued"
  BY <1>2 DEF QueueExact
<1> HIDE DEF i
<1>4. CallsOwnItems'
  <2>1. \A u \in Threads : call[u].at \in {"push", "start"} => call[u].item \in Items
    BY CallFields
  <2>5. \A u \in Threads : call'[u].at = "push" => call'[u] = call[u]
    BY <1>1
  <2>2. PushOwns'
    BY <1>1, <1>3, <2>1, <2>5 DEF CallsOwnItems, PushOwns
  <2>3. PushDistinct'
    BY <2>5 DEF CallsOwnItems, PushDistinct
  <2>4. StartOwns'
    BY <1>1, <1>3, <2>1 DEF CallsOwnItems, StartOwns
  <2> QED
    BY <2>2, <2>3, <2>4 DEF CallsOwnItems
<1>5. Running' = Running \cup {i} /\ i \notin Running
  BY <1>1, <1>3 DEF Running
<1>6. IsFiniteSet(Running') /\ InFlightExact'
  BY <1>1, <1>5, FS_AddElement DEF InFlightExact
<1>7. QueueExact'
  <2>1. {j \in Items : stage'[j] = "queued"} = {j \in Items : stage[j] = "queued"} \ {i}
    BY <1>1
  <2> QED
    BY <1>2, <2>1 DEF QueueExact
<1>8. SinglePump'
  <2>1. pumpEvents' = <<>> /\ Len(pumpEvents') = 0
    BY <1>1, LastEvent DEF SinglePump
  <2>2. \A t \in Threads : call'[t].at # "post"
    BY <1>1 DEF SinglePump
  <2> QED
    BY <1>1, <2>1, <2>2 DEF SinglePump
<1>9. NoLostWakeup'
  BY <1>5 DEF NoLostWakeup
<1> QED
  BY <1>4, <1>6, <1>7, <1>8, <1>9

\* Settling an item in flight gives its slot back; the UI thread will schedule.
LEMMA SettleAndFinishStep ==
  ASSUME IInv, TypeOK', NEW i \in Running, NEW r \in {"ok", "fail"},
         SettleAndFinish(i, r),
         call[UI].at = "idle" \/ (call[UI].at = "start" /\ call[UI].item = i),
         call[UI].at = "idle" => stage[i] # "starting"
  PROVE  IInv'
<1> USE DEF IInv, TypeOK
<1>1. /\ i \in Items
      /\ stage[i] \in {"starting", "fetching", "gotFile", "noFile"}
      /\ stage'[i] = r
      /\ \A j \in Items \ {i} : stage'[j] = stage[j]
      /\ queue' = queue
      /\ pumpScheduled' = pumpScheduled /\ pumpEvents' = pumpEvents
      /\ UI \in Threads
      /\ call'[UI].at = "schedule"
      /\ \A u \in Threads \ {UI} : call'[u] = call[u]
  BY PipelineAssumption DEF SettleAndFinish, Running
<1>2. Running' = Running \ {i}
  BY <1>1 DEF Running
<1>3. IsFiniteSet(Running') /\ InFlightExact'
  <2>1. /\ IsFiniteSet(Running \ {i})
        /\ Cardinality(Running \ {i}) = Cardinality(Running) - 1
    BY FS_RemoveElement
  <2>2. Cardinality(Running) # 0
    BY FS_EmptySet
  <2>3. inFlight' = inFlight - 1
    BY <2>2 DEF InFlightExact, SettleAndFinish
  <2> QED
    BY <1>2, <2>1, <2>3 DEF InFlightExact
<1>4. CallsOwnItems'
  <2>1. \A u \in Threads : call[u].at \in {"push", "start"} => call[u].item \in Items
    BY CallFields
  <2>2. PushOwns'
    BY <1>1, <2>1 DEF CallsOwnItems, PushOwns
  <2>3. PushDistinct'
    BY <1>1 DEF CallsOwnItems, PushDistinct
  <2>4. StartOwns'
    BY <1>1 DEF CallsOwnItems, StartOwns
  <2> QED
    BY <2>2, <2>3, <2>4 DEF CallsOwnItems
<1>5. QueueExact'
  <2>1. {j \in Items : stage'[j] = "queued"} = {j \in Items : stage[j] = "queued"}
    BY <1>1
  <2> QED
    BY <1>1, <2>1 DEF QueueExact
<1>6. SinglePump'
  <2>1. \A t \in Threads : call'[t].at = "post" <=> call[t].at = "post"
    BY <1>1
  <2> QED
    BY <1>1, <2>1 DEF SinglePump
<1>7. NoLostWakeup'
  BY <1>1 DEF NoLostWakeup
<1> QED
  BY <1>3, <1>4, <1>5, <1>6, <1>7

\* Moving an item between two stages in flight changes neither the slots nor
\* the queue.
LEMMA FetchStep ==
  ASSUME IInv, TypeOK', NEW i \in Running, UNCHANGED <<lane, pumpEvents>>,
         NEW s \in {"fetching", "gotFile", "noFile"}, stage' = [stage EXCEPT ![i] = s],
         \/ call' = call /\ stage[i] # "starting"
         \/ call' = [call EXCEPT ![UI] = Idle] /\ call[UI].at = "start"
  PROVE  IInv'
<1> USE DEF IInv, TypeOK
<1>1. /\ i \in Items
      /\ stage[i] \in {"starting", "fetching", "gotFile", "noFile"}
      /\ stage'[i] = s
      /\ \A j \in Items \ {i} : stage'[j] = stage[j]
      /\ queue' = queue /\ inFlight' = inFlight
      /\ pumpScheduled' = pumpScheduled /\ pumpEvents' = pumpEvents
  BY DEF lane, Running
<1>2. /\ \A t \in Threads : call'[t].at # "idle" => call'[t] = call[t]
      /\ \A t \in Threads : call[t].at \in {"push", "schedule", "post"} => call'[t] = call[t]
      /\ \A t \in Threads : call'[t].at = "start" => stage[i] # "starting"
  BY PipelineAssumption DEF Idle, CallsOwnItems, StartOwns
<1>3. Running' = Running
  BY <1>1 DEF Running
<1>4. CallsOwnItems'
  <2>1. \A u \in Threads : call[u].at \in {"push", "start"} => call[u].item \in Items
    BY CallFields
  <2>2. PushOwns'
    BY <1>1, <1>2, <2>1 DEF CallsOwnItems, PushOwns
  <2>3. PushDistinct'
    BY <1>2 DEF CallsOwnItems, PushDistinct
  <2>4. StartOwns'
    BY <1>1, <1>2, <2>1 DEF CallsOwnItems, StartOwns
  <2> QED
    BY <2>2, <2>3, <2>4 DEF CallsOwnItems
<1>5. QueueExact'
  <2>1. {j \in Items : stage'[j] = "queued"} = {j \in Items : stage[j] = "queued"}
    BY <1>1
  <2> QED
    BY <1>1, <2>1 DEF QueueExact
<1>6. SinglePump'
  <2>1. \A t \in Threads : call'[t].at = "post" <=> call[t].at = "post"
    BY <1>2
  <2> QED
    BY <1>1, <2>1 DEF SinglePump
<1>7. NoLostWakeup'
  BY <1>1, <1>2, <1>3 DEF NoLostWakeup
<1> QED
  BY <1>1, <1>3, <1>4, <1>5, <1>6, <1>7 DEF InFlightExact

\* Every step of the pipeline preserves the inductive invariant.
LEMMA IInvStep == IInv /\ [Next]_vars => IInv'
<1> SUFFICES ASSUME IInv, [Next]_vars PROVE IInv'
  OBVIOUS
<1>0. TypeOK /\ TypeOK' /\ UI \in Threads
  BY TypeStep, PipelineAssumption DEF IInv
<1>1. ASSUME NEW t \in Threads, NEW i \in Items, EnqueueCall(t, i) PROVE IInv'
  BY <1>0, <1>1, EnqueueCallStep
<1>2. ASSUME NEW t \in Threads, EnqueuePush(t) PROVE IInv'
  BY <1>0, <1>2, EnqueuePushStep
<1>3. ASSUME NEW t \in Threads, SchedulePump(t) PROVE IInv'
  BY <1>0, <1>3, SchedulePumpStep
<1>4. ASSUME NEW t \in Threads, PostPump(t) PROVE IInv'
  BY <1>0, <1>4, PostPumpStep
<1>5. ASSUME PumpIdle PROVE IInv'
  BY <1>0, <1>5, PumpIdleStep
<1>6. ASSUME PumpStart PROVE IInv'
  BY <1>0, <1>6, PumpStartStep
<1>7. ASSUME call[UI].at = "start"
      PROVE  call[UI].item \in Running /\ stage[call[UI].item] = "starting"
  BY <1>0, <1>7, CallFields DEF IInv, CallsOwnItems, StartOwns, Running, TypeOK
<1>8. ASSUME StartSettles PROVE IInv'
  <2>1. PICK r \in {"ok", "fail"} : SettleAndFinish(call[UI].item, r)
    BY <1>8 DEF StartSettles
  <2>2. call[UI].at = "start"
    BY <1>8 DEF StartSettles
  <2> QED
    BY <1>0, <1>7, <2>1, <2>2, SettleAndFinishStep
<1>9. ASSUME StartFetch PROVE IInv'
  BY <1>0, <1>7, <1>9, FetchStep DEF StartFetch
<1>10. ASSUME NEW i \in Items, FetchDone(i) PROVE IInv'
  <2>1. i \in Running /\ stage[i] # "starting"
    BY <1>10 DEF FetchDone, Running
  <2>2. PICK s \in {"fetching", "gotFile", "noFile"} : stage' = [stage EXCEPT ![i] = s]
    BY <1>10 DEF FetchDone
  <2> QED
    BY <1>0, <1>10, <2>1, <2>2, FetchStep DEF FetchDone
<1>11. ASSUME NEW i \in Items, FetchResult(i) PROVE IInv'
  <2>1. i \in Running /\ stage[i] # "starting"
    BY <1>11 DEF FetchResult, Running
  <2>2. call[UI].at = "idle"
    BY <1>11 DEF FetchResult, Idle
  <2>3. PICK r \in {"ok", "fail"} : SettleAndFinish(i, r)
    BY <1>11 DEF FetchResult
  <2> QED
    BY <1>0, <2>1, <2>2, <2>3, SettleAndFinishStep
<1>12. ASSUME UNCHANGED <<lane, pumpEvents, call, stage>> PROVE IInv'
  <2>1. Running' = Running
    BY <1>12 DEF Running
  <2>2. QueueExact'
    BY <1>12 DEF IInv, lane, QueueExact
  <2>3. SinglePump'
    BY <1>12 DEF IInv, lane, SinglePump
  <2>4. NoLostWakeup' /\ InFlightExact'
    BY <1>12, <2>1 DEF IInv, lane, NoLostWakeup, InFlightExact
  <2>5. CallsOwnItems'
    BY <1>12 DEF IInv, CallsOwnItems, PushOwns, PushDistinct, StartOwns
  <2> QED
    BY <1>0, <2>1, <2>2, <2>3, <2>4, <2>5 DEF IInv
<1>13. ASSUME AboutToQuit \/ UNCHANGED vars PROVE IInv'
  BY <1>12, <1>13 DEF AboutToQuit, vars, lane
<1> QED
  BY <1>1, <1>2, <1>3, <1>4, <1>5, <1>6, <1>8, <1>9, <1>10, <1>11, <1>13
  DEF Next, Ended

\* The initial state satisfies the inductive invariant.
LEMMA IInvInit == Init => IInv
<1> SUFFICES ASSUME Init PROVE IInv
  OBVIOUS
<1>1. TypeOK
  BY InitTypeOK
<1>2. /\ \A t \in Threads : call[t].at = "idle"
      /\ \A i \in Items : stage[i] = "new"
      /\ queue = <<>> /\ pumpEvents = <<>> /\ Len(pumpEvents) = 0
      /\ ~pumpScheduled /\ inFlight = 0
  BY DEF Init, Idle
<1>3. Running = {}
  BY <1>2 DEF Running
<1>4. IsFiniteSet(Running) /\ InFlightExact
  BY <1>2, <1>3, FS_EmptySet DEF InFlightExact
<1>5. QueueExact
  <2>1. DOMAIN queue = {}
    BY <1>2
  <2>2. Elements(queue) = {} /\ Distinct(queue)
    BY <2>1 DEF Elements, Distinct
  <2>3. {i \in Items : stage[i] = "queued"} = {}
    BY <1>2
  <2> QED
    BY <2>2, <2>3 DEF QueueExact
<1>6. SinglePump /\ NoLostWakeup
  BY <1>2 DEF SinglePump, NoLostWakeup
<1>7. CallsOwnItems
  BY <1>2 DEF CallsOwnItems, PushOwns, PushDistinct, StartOwns
<1> QED
  BY <1>1, <1>4, <1>5, <1>6, <1>7 DEF IInv

\* The inductive invariant holds in every reachable state.
LEMMA IInvariant == Spec => []IInv
  BY IInvInit, IInvStep, PTL DEF Spec

\* The flag and the event loop agree in every reachable state.
THEOREM OnePumpAtATime == Spec => []SinglePump
<1>1. IInv => SinglePump
  BY DEF IInv
<1> QED
  BY <1>1, IInvariant, PTL

\* A waiting item is never stranded, for any number of threads and items and
\* any limits the callers ask for.
THEOREM WakeupNeverLost == Spec => []NoLostWakeup
<1>1. IInv => NoLostWakeup
  BY DEF IInv
<1> QED
  BY <1>1, IInvariant, PTL

\* The in-flight counter is exact in every reachable state.
THEOREM InFlightCounterExact == Spec => []InFlightExact
<1>1. IInv => InFlightExact
  BY DEF IInv
<1> QED
  BY <1>1, IInvariant, PTL

(***************************************************************************)
(* A settled item stays settled                                            *)
(***************************************************************************)

\* A step that changes the stage of an item changes one that is not settled.
LEMMA SettledStep ==
  ASSUME IInv, [Next]_vars, NEW i \in Settled
  PROVE  stage'[i] = stage[i]
<1> USE DEF IInv, TypeOK
<1>0. /\ i \in Items /\ stage[i] \in {"ok", "fail"} /\ UI \in Threads
      /\ i \notin Running
  BY PipelineAssumption DEF Settled, Running
<1>1. ASSUME NEW t \in Threads, NEW j \in Items, EnqueueCall(t, j)
      PROVE  stage'[i] = stage[i]
  BY <1>0, <1>1 DEF EnqueueCall
<1>2. ASSUME NEW t \in Threads, EnqueuePush(t) PROVE stage'[i] = stage[i]
  <2>1. stage[call[t].item] = "calling"
    BY <1>2 DEF EnqueuePush, CallsOwnItems, PushOwns
  <2> QED
    BY <1>0, <1>2, <2>1 DEF EnqueuePush
<1>3. ASSUME PumpStart PROVE stage'[i] = stage[i]
  <2>1. Head(queue) \in Elements(queue)
    BY <1>3, PopFront DEF PumpStart, QueueExact
  <2>2. stage[Head(queue)] = "queued"
    BY <2>1 DEF QueueExact
  <2> QED
    BY <1>0, <1>3, <2>2 DEF PumpStart
<1>4. ASSUME NEW j \in Running, NEW s, stage' = [stage EXCEPT ![j] = s]
      PROVE  stage'[i] = stage[i]
  BY <1>0, <1>4
<1>5. ASSUME call[UI].at = "start" PROVE call[UI].item \in Running
  BY <1>0, <1>5, CallFields DEF CallsOwnItems, StartOwns, Running
<1>6. ASSUME StartSettles PROVE stage'[i] = stage[i]
  BY <1>4, <1>5, <1>6 DEF StartSettles, SettleAndFinish
<1>7. ASSUME StartFetch PROVE stage'[i] = stage[i]
  BY <1>4, <1>5, <1>7 DEF StartFetch
<1>8. ASSUME NEW j \in Items, FetchDone(j) PROVE stage'[i] = stage[i]
  <2>1. j \in Running
    BY <1>8 DEF FetchDone, Running
  <2> QED
    BY <1>4, <1>8, <2>1 DEF FetchDone
<1>9. ASSUME NEW j \in Items, FetchResult(j) PROVE stage'[i] = stage[i]
  <2>1. j \in Running
    BY <1>9 DEF FetchResult, Running
  <2> QED
    BY <1>4, <1>9, <2>1 DEF FetchResult, SettleAndFinish
<1> QED
  BY <1>1, <1>2, <1>3, <1>6, <1>7, <1>8, <1>9
  DEF Next, SchedulePump, PostPump, PumpIdle, AboutToQuit, Ended, vars

\* An RSS item is settled at most once: no path through the handlers starts or
\* settles an item whose outcome has been reported.
THEOREM SettledAtMostOnce == Spec => SettledOnce
<1>1. IInv /\ [Next]_vars => [\A i \in Settled : stage'[i] = stage[i]]_vars
  BY SettledStep
<1> QED
  BY <1>1, IInvariant, PTL DEF Spec, SettledOnce

(***************************************************************************)
(* The pipeline implements DownloadQueue                                   *)
(***************************************************************************)

OutcomeOf == [i \in Items |-> IF i \in Settled THEN stage[i] ELSE "none"]

\* Steps of the pump protocol that the callers cannot see.
LEMMA StutterStep ==
  ASSUME Running' = Running, Settled' = Settled,
         \A i \in Settled : stage'[i] = stage[i],
         queue' = queue, maxInFlight' = maxInFlight
  PROVE  UNCHANGED Abstract!vars
<1>1. OutcomeOf' = OutcomeOf
  BY DEF OutcomeOf
<1> QED
  BY <1>1 DEF Abstract!vars, OutcomeOf

\* Each step of the pipeline is a step of the queue or invisible.
LEMMA RefinementStep == IInv /\ [Next]_vars => [Abstract!Next]_Abstract!vars
<1> SUFFICES ASSUME IInv, [Next]_vars PROVE [Abstract!Next]_Abstract!vars
  OBVIOUS
<1> USE DEF IInv, TypeOK
<1>0. UI \in Threads /\ TypeOK'
  BY PipelineAssumption, TypeStep
<1>1. ASSUME NEW t \in Threads, NEW i \in Items, EnqueueCall(t, i)
      PROVE  Abstract!SetLimit
  <2>1. /\ stage[i] = "new" /\ stage'[i] = "calling"
        /\ \A j \in Items \ {i} : stage'[j] = stage[j]
        /\ queue' = queue
    BY <1>1 DEF EnqueueCall
  <2>2. Running' = Running /\ OutcomeOf' = OutcomeOf
    BY <2>1 DEF Running, Settled, OutcomeOf
  <2> QED
    BY <1>0, <2>1, <2>2 DEF Abstract!SetLimit, OutcomeOf
<1>2. ASSUME NEW t \in Threads, EnqueuePush(t)
      PROVE  \E i \in Items : Abstract!Submit(i)
  <2> DEFINE i == call[t].item
  <2>1. /\ i \in Items /\ stage[i] = "calling" /\ stage'[i] = "queued"
        /\ \A j \in Items \ {i} : stage'[j] = stage[j]
        /\ queue' = Append(queue, i) /\ maxInFlight' = maxInFlight
    BY <1>2, CallFields DEF EnqueuePush, CallsOwnItems, PushOwns
  <2> HIDE DEF i
  <2>2. Running' = Running /\ OutcomeOf' = OutcomeOf
    BY <2>1 DEF Running, Settled, OutcomeOf
  <2>3. i \notin Running /\ i \notin Elements(queue) /\ OutcomeOf[i] = "none"
    BY <2>1 DEF Running, QueueExact, OutcomeOf, Settled
  <2>4. Abstract!Submit(i)
    BY <2>1, <2>2, <2>3 DEF Abstract!Submit, Abstract!Known, Elements, OutcomeOf
  <2> QED
    BY <2>1, <2>4
<1>3. ASSUME PumpStart PROVE Abstract!Begin
  <2> DEFINE i == Head(queue)
  <2>1. /\ queue # <<>> /\ queue' = Tail(queue) /\ i \in Items
        /\ inFlight < maxInFlight /\ maxInFlight' = maxInFlight
        /\ stage' = [stage EXCEPT ![i] = "starting"]
    BY <1>3 DEF PumpStart, SlotFree
  <2>2. stage[i] = "queued"
    BY <2>1, PopFront DEF QueueExact
  <2> HIDE DEF i
  <2>3. Running' = Running \cup {i} /\ OutcomeOf' = OutcomeOf
    BY <2>1, <2>2 DEF Running, Settled, OutcomeOf
  <2>4. Abstract!Cardinality(Running) < maxInFlight
    BY <2>1 DEF InFlightExact, Cardinality, Abstract!Cardinality
  <2> QED
    BY <2>1, <2>3, <2>4 DEF Abstract!Begin, OutcomeOf, i
<1>4. ASSUME NEW i \in Running, NEW r \in {"ok", "fail"}, SettleAndFinish(i, r)
      PROVE  Abstract!Complete(i)
  <2>1. /\ i \in Items /\ stage[i] \notin {"ok", "fail"} /\ stage'[i] = r
        /\ \A j \in Items \ {i} : stage'[j] = stage[j]
        /\ queue' = queue /\ maxInFlight' = maxInFlight
    BY <1>4 DEF SettleAndFinish, Running
  <2>2. Running' = Running \ {i} /\ OutcomeOf' = [OutcomeOf EXCEPT ![i] = r]
    BY <2>1 DEF Running, Settled, OutcomeOf
  <2> QED
    BY <2>1, <2>2 DEF Abstract!Complete, OutcomeOf
<1>5. ASSUME call[UI].at = "start" PROVE call[UI].item \in Running
  BY <1>0, <1>5, CallFields DEF CallsOwnItems, StartOwns, Running
<1>6. ASSUME StartSettles PROVE \E i \in Items : Abstract!Complete(i)
  <2>1. PICK r \in {"ok", "fail"} : SettleAndFinish(call[UI].item, r)
    BY <1>6 DEF StartSettles
  <2>2. call[UI].item \in Running
    BY <1>5, <1>6 DEF StartSettles
  <2> QED
    BY <1>4, <2>1, <2>2 DEF Running
<1>7. ASSUME NEW i \in Items, FetchResult(i) PROVE Abstract!Complete(i)
  <2>1. PICK r \in {"ok", "fail"} : SettleAndFinish(i, r)
    BY <1>7 DEF FetchResult
  <2>2. i \in Running
    BY <1>7 DEF FetchResult, Running
  <2> QED
    BY <1>4, <2>1, <2>2
<1>8. ASSUME NEW i \in Running, NEW s \in {"fetching", "gotFile", "noFile"},
             stage' = [stage EXCEPT ![i] = s], UNCHANGED lane
      PROVE  UNCHANGED Abstract!vars
  <2>1. /\ i \in Items /\ i \notin Settled /\ stage'[i] = s
        /\ \A j \in Items \ {i} : stage'[j] = stage[j]
    BY <1>8 DEF Running, Settled
  <2>2. Running' = Running /\ Settled' = Settled
    BY <2>1 DEF Running, Settled
  <2> QED
    BY <1>8, <2>1, <2>2, StutterStep DEF lane, Settled
<1>9. ASSUME StartFetch PROVE UNCHANGED Abstract!vars
  BY <1>5, <1>8, <1>9 DEF StartFetch
<1>10. ASSUME NEW i \in Items, FetchDone(i) PROVE UNCHANGED Abstract!vars
  <2>1. i \in Running
    BY <1>10 DEF FetchDone, Running
  <2>2. PICK s \in {"fetching", "gotFile", "noFile"} : stage' = [stage EXCEPT ![i] = s]
    BY <1>10 DEF FetchDone
  <2> QED
    BY <1>8, <1>10, <2>1, <2>2 DEF FetchDone
<1>11. ASSUME queue' = queue, maxInFlight' = maxInFlight, stage' = stage
       PROVE  UNCHANGED Abstract!vars
  BY <1>11, StutterStep DEF Running, Settled
<1>12. ASSUME NEW t \in Threads, SchedulePump(t) \/ PostPump(t)
       PROVE  UNCHANGED Abstract!vars
  BY <1>11, <1>12 DEF SchedulePump, PostPump, lane
<1>13. ASSUME PumpIdle \/ AboutToQuit \/ UNCHANGED vars PROVE UNCHANGED Abstract!vars
  BY <1>11, <1>13 DEF PumpIdle, AboutToQuit, vars, lane
<1> QED
  BY <1>1, <1>2, <1>3, <1>6, <1>7, <1>9, <1>10, <1>12, <1>13
  DEF Next, Ended, Abstract!Next

\* The threads, pump events and counter of the pipeline implement a first-in
\* first-out queue that begins a request only when a slot is free and completes
\* each at most once.
THEOREM PipelineImplementsQueue == Spec => ImplementsDownloadQueue
<1>1. Init => Abstract!Init
  <2> SUFFICES ASSUME Init PROVE Abstract!Init
    OBVIOUS
  <2>1. Running = {} /\ Settled = {}
    BY DEF Init, Running, Settled
  <2>2. OutcomeOf = [i \in Items |-> "none"]
    BY <2>1 DEF OutcomeOf
  <2> QED
    BY <2>1, <2>2, PipelineAssumption DEF Init, Abstract!Init, OutcomeOf
<1> QED
  BY <1>1, IInvariant, RefinementStep, PTL DEF Spec, Abstract!Spec, ImplementsDownloadQueue
=============================================================================
