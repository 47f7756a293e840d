------------------------------ MODULE LogStore ------------------------------
(***************************************************************************)
(* The log of a task in memory: a ring without locks that many threads     *)
(* append to.  A mutex lets one thread at a time read or clear it.         *)
(*                                                                         *)
(* A slot carries a number that says whose turn it is: the position of the *)
(* push that may write it, or one more once that push has published it.    *)
(* A push first claims a position, then writes the slot, then publishes    *)
(* it, so a reader may find a claimed slot that is not published yet.      *)
(*                                                                         *)
(* head_ is loaded with relaxed order: a thread may see an older value,    *)
(* but none older than it saw before.  Loads of the slots' numbers are     *)
(* taken to see the last store.                                            *)
(***************************************************************************)
EXTENDS Integers, Sequences, SequencesExt, FiniteSets

CONSTANTS
    Capacity,   \* slots, a power of two
    Producers,  \* threads that log
    MaxPush,    \* bound: entries of a thread
    MaxReads    \* bound: snapshots and clears

\* RingBuffer asks for more than none.  That the slots are a power of two only
\* makes the remainder a mask.
ASSUME RingAssumption ==
    Capacity \in Nat \ {0} /\ MaxPush \in Nat /\ MaxReads \in Nat

VARIABLES
    buffer, sequences,  \* buffer_ and sequences_, by slot
    head, tail,         \* head_ and tail_
    dropped,            \* dropped
    push,               \* by thread: where its push is, the head it saw, its entries
    reader,             \* the thread that holds consumer_mutex_
    claims,             \* history: the entry of every position
    lost,               \* history: the entries that were dropped
    reads

vars == <<buffer, sequences, head, tail, dropped, push, reader, claims, lost, reads>>

Slots == 0..(Capacity - 1)
Entries == Producers \X (1..MaxPush)
Empty == <<>>
\* What a move leaves in a slot is an entry still, without its text.
Moved == <<"moved">>
Slot(pos) == pos % Capacity
Entry(p) == <<p, push[p].nth>>

NoReader == [at |-> "none", head |-> 0, left |-> 0, index |-> 0, got |-> <<>>]

Init ==
    /\ buffer = [s \in Slots |-> Empty]
    /\ sequences = [s \in Slots |-> s]
    /\ head = 0 /\ tail = 0 /\ dropped = 0
    /\ push = [p \in Producers |-> [at |-> "idle", head |-> 0, nth |-> 0]]
    /\ reader = NoReader
    /\ claims = <<>> /\ lost = {} /\ reads = 0

-----------------------------------------------------------------------------
(* append: a push, in any thread.                                          *)

At(p, where) == push' = [push EXCEPT ![p].at = where]

\* PushImpl loads head_, perhaps not the newest value.
StartPush(p) ==
    /\ push[p].at \in {"idle", "reload"}
    /\ push[p].at = "idle" => push[p].nth < MaxPush
    /\ \E h \in push[p].head..head :
         push' = [push EXCEPT ![p] = [at |-> "look", head |-> h,
                    nth |-> IF @.at = "idle" THEN @.nth + 1 ELSE @.nth]]
    /\ UNCHANGED <<buffer, sequences, head, tail, dropped, reader, claims, lost, reads>>

\* The slot is free, taken by an older push, or was claimed by another.
Look(p) ==
    /\ push[p].at = "look"
    /\ \E diff \in {sequences[Slot(push[p].head)] - push[p].head} :
         \/ diff = 0 /\ At(p, "claim") /\ UNCHANGED <<dropped, lost>>
         \/ diff > 0 /\ At(p, "reload") /\ UNCHANGED <<dropped, lost>>
         \/ diff < 0 /\ At(p, "idle") /\ dropped' = dropped + 1 /\ lost' = lost \cup {Entry(p)}
    /\ UNCHANGED <<buffer, sequences, head, tail, reader, claims, reads>>

\* Mutant of Claim: a load and a store.
ClaimUnchecked(p) ==
    /\ push[p].at = "claim"
    /\ head' = push[p].head + 1 /\ At(p, "write")
    /\ claims' = Append(claims, Entry(p))
    /\ UNCHANGED <<buffer, sequences, tail, dropped, reader, lost, reads>>

\* compare_exchange_weak: it may fail for no reason, and then knows head_.
Claim(p) ==
    /\ push[p].at = "claim"
    /\ \/ /\ push[p].head = head
          /\ head' = head + 1 /\ At(p, "write")
          /\ claims' = Append(claims, Entry(p))
       \/ /\ push' = [push EXCEPT ![p].at = "look", ![p].head = head]
          /\ UNCHANGED <<head, claims>>
    /\ UNCHANGED <<buffer, sequences, tail, dropped, reader, lost, reads>>

\* Mutant of Write: the number is stored before the entry.
WriteAfterPublish(p) ==
    /\ push[p].at = "write"
    /\ sequences' = [sequences EXCEPT ![Slot(push[p].head)] = push[p].head + 1]
    /\ At(p, "publish")
    /\ UNCHANGED <<buffer, head, tail, dropped, reader, claims, lost, reads>>

Write(p) ==
    /\ push[p].at = "write"
    /\ buffer' = [buffer EXCEPT ![Slot(push[p].head)] = Entry(p)]
    /\ At(p, "publish")
    /\ UNCHANGED <<sequences, head, tail, dropped, reader, claims, lost, reads>>

Publish(p) ==
    /\ push[p].at = "publish"
    /\ sequences' = [sequences EXCEPT ![Slot(push[p].head)] = push[p].head + 1]
    /\ At(p, "idle")
    /\ UNCHANGED <<buffer, head, tail, dropped, reader, claims, lost, reads>>

-----------------------------------------------------------------------------
(* clear and snapshot, one thread at a time.                               *)

StartClear ==
    /\ reader.at = "none" /\ reads < MaxReads /\ reads' = reads + 1
    /\ reader' = [NoReader EXCEPT !.at = "pop", !.head = reader.head]
    /\ UNCHANGED <<buffer, sequences, head, tail, dropped, push, claims, lost>>

\* TryPop: the oldest slot is published, or the ring counts as empty.
Pop ==
    /\ reader.at = "pop"
    /\ \/ /\ sequences[Slot(tail)] = tail + 1
          /\ tail' = tail + 1 /\ reader' = [reader EXCEPT !.at = "take"]
          /\ UNCHANGED dropped
       \/ /\ sequences[Slot(tail)] < tail + 1
          /\ dropped' = 0 /\ reader' = [NoReader EXCEPT !.head = reader.head]
          /\ UNCHANGED tail
    /\ UNCHANGED <<buffer, sequences, head, push, claims, lost, reads>>

Take ==
    /\ reader.at = "take"
    /\ buffer' = [buffer EXCEPT ![Slot(tail - 1)] = Moved]
    /\ reader' = [reader EXCEPT !.at = "free"]
    /\ UNCHANGED <<sequences, head, tail, dropped, push, claims, lost, reads>>

\* Mutant of Free: the turn goes to a push two rounds later.
FreeTwoRounds ==
    /\ reader.at = "free"
    /\ sequences' = [sequences EXCEPT ![Slot(tail - 1)] = tail - 1 + 2 * Capacity]
    /\ reader' = [reader EXCEPT !.at = "pop"]
    /\ UNCHANGED <<buffer, head, tail, dropped, push, claims, lost, reads>>

\* The slot is for the push one round later, and the next slot is looked at.
Free ==
    /\ reader.at = "free"
    /\ sequences' = [sequences EXCEPT ![Slot(tail - 1)] = tail - 1 + Capacity]
    /\ reader' = [reader EXCEPT !.at = "pop"]
    /\ UNCHANGED <<buffer, head, tail, dropped, push, claims, lost, reads>>

\* Size, and at most max_count of the oldest entries.
StartSnapshot ==
    /\ reader.at = "none" /\ reads < MaxReads /\ reads' = reads + 1
    /\ \E h \in reader.head..head, max \in {1, Capacity} :
         \E size \in {IF h >= tail THEN h - tail ELSE 0} :
           reader' = [at |-> "peek", head |-> h, index |-> 0, got |-> <<>>,
                      left |-> IF max < size THEN max ELSE size]
    /\ UNCHANGED <<buffer, sequences, head, tail, dropped, push, claims, lost>>

\* Mutant of Peek: the number of the slot is not looked at.
PeekUnpublished ==
    /\ reader.at = "peek" /\ reader.left > 0
    /\ \E pos \in {tail + reader.index} :
         reader' = [reader EXCEPT !.at = "copy"]
    /\ UNCHANGED <<buffer, sequences, head, tail, dropped, push, claims, lost, reads>>

\* PeekAt: a slot that is claimed and not published is left out.
Peek ==
    /\ reader.at = "peek" /\ reader.left > 0
    /\ \E pos \in {tail + reader.index} :
         reader' = IF sequences[Slot(pos)] >= pos + 1
                   THEN [reader EXCEPT !.at = "copy"]
                   ELSE [reader EXCEPT !.index = @ + 1, !.left = @ - 1]
    /\ UNCHANGED <<buffer, sequences, head, tail, dropped, push, claims, lost, reads>>

\* The entry is copied if the slot has one.
Copy ==
    /\ reader.at = "copy"
    /\ \E e \in {buffer[Slot(tail + reader.index)]} :
         reader' = [reader EXCEPT !.at = "peek", !.index = @ + 1, !.left = @ - 1,
                                  !.got = IF e = Empty THEN @ ELSE Append(@, e)]
    /\ UNCHANGED <<buffer, sequences, head, tail, dropped, push, claims, lost, reads>>

EndSnapshot ==
    /\ reader.at = "peek" /\ reader.left = 0
    /\ reader' = [NoReader EXCEPT !.head = reader.head]
    /\ UNCHANGED <<buffer, sequences, head, tail, dropped, push, claims, lost, reads>>

Next ==
    \/ \E p \in Producers : StartPush(p) \/ Look(p) \/ Claim(p) \/ Write(p) \/ Publish(p)
    \/ StartClear \/ Pop \/ Take \/ Free
    \/ StartSnapshot \/ Peek \/ Copy \/ EndSnapshot

Spec == Init /\ [][Next]_vars

-----------------------------------------------------------------------------
(* Properties                                                              *)

\* Positions never run apart by more than the slots there are.
TypeOK ==
    /\ tail <= head /\ head - tail <= Capacity /\ head = Len(claims)
    /\ \A s \in Slots : buffer[s] \in Entries \cup {Empty, Moved}
                    /\ sequences[s] \in 0..(head + Capacity)
    /\ \A p \in Producers : push[p].head \in 0..head
    /\ lost \subseteq Entries

Writing(p) == push[p].at \in {"write", "publish"}
Reading(s) == \/ reader.at = "copy" /\ s = Slot(tail + reader.index)
              \/ reader.at \in {"take", "free"} /\ s = Slot(tail - 1)

\* A slot is written by one thread at a time and never while it is read or
\* moved out of: without locks, the numbers alone keep the threads apart.
SlotOwned ==
    \A p \in Producers : Writing(p) =>
      /\ ~Reading(Slot(push[p].head))
      /\ \A q \in Producers \ {p} : Writing(q) => Slot(push[q].head) # Slot(push[p].head)

\* The reader never finds a number ahead of its position: TryPop would then
\* spin for ever while it holds the mutex.
NeverSpins == reader.at = "pop" => sequences[Slot(tail)] <= tail + 1

\* An entry that was published and not taken is still in its slot: a push that
\* finds the ring full fails and overwrites nothing.
NothingOverwritten ==
    \A pos \in tail..(head - 1) :
      (\A p \in Producers : Writing(p) => push[p].head # pos)
        => buffer[Slot(pos)] = claims[pos + 1]

\* What is claimed and not freed.
Held == SubSeq(claims, (IF reader.at \in {"take", "free"} THEN tail ELSE tail + 1), head)

\* A snapshot has entries of the log, in the order they were appended, each
\* as its thread wrote it.
SnapshotInOrder ==
    /\ ToSet(reader.got) \subseteq ToSet(Held)
    /\ \A i, j \in DOMAIN reader.got : i < j =>
         \E k, l \in DOMAIN Held : k < l /\ Held[k] = reader.got[i] /\ Held[l] = reader.got[j]

\* The ring is a bounded log: positions are given out one at a time while
\* there is room, and an entry is dropped only when every slot is in use.
Log == INSTANCE BoundedLog WITH queue <- Held
ImplementsBoundedLog == Log!Spec

\* The log store behaves as a bounded queue that drops what does not fit: no
\* slot is two threads' at a time, no pop spins, nothing is overwritten, and a
\* snapshot has the entries in their order.
StoreIsBoundedLog ==
    /\ [](SlotOwned /\ NeverSpins /\ NothingOverwritten)
    /\ []SnapshotInOrder
    /\ ImplementsBoundedLog

=============================================================================
