--------------------------- MODULE LogStoreProofs ---------------------------
(***************************************************************************)
(* What LogStore promises of a ring of any number of slots but one, for    *)
(* any number of threads and of entries: no slot is two threads' at a      *)
(* time, no pop spins, nothing is overwritten, a snapshot is in order, and *)
(* the ring implements BoundedLog.  With one slot the turn of the next     *)
(* push looks the same as a slot that was just published, and nothing of   *)
(* this holds: so the theorems ask for more than one.                      *)
(*                                                                         *)
(* The argument is about a window: the Capacity positions from the first   *)
(* that is not freed.  Two positions of the window are in two slots, so    *)
(* the number of a slot says how far its one position has come.            *)
(*                                                                         *)
(* The second part is about Logger, which writes the log's files: the      *)
(* lines of a thread are in the files in its order, no step loses one, and *)
(* an end of the program finds written what was on its way before it.      *)
(***************************************************************************)
EXTENDS LogStore, SequenceTheorems, FiniteSetTheorems, TLAPS

-----------------------------------------------------------------------------
(* The inductive invariant.                                                *)

\* The first position that is not freed: a pop moves tail_ before it has taken
\* the entry and freed the slot.
First == IF reader.at \in {"take", "free"} THEN tail - 1 ELSE tail
Window == First..(First + Capacity - 1)

\* No push has published the entry of this position.
Unpublished(pos) == pos >= head \/ \E p \in Producers : Writing(p) /\ push[p].head = pos

PushStates == [at : {"idle", "reload", "look", "claim", "write", "publish"},
               head : Nat, nth : 0..MaxPush]
ReaderStates == [at : {"none", "pop", "take", "free", "peek", "copy"}, head : Nat,
                 left : Nat, index : Nat, got : Seq(Entries \cup {Moved})]

Types ==
    /\ head \in Nat /\ tail \in Nat /\ head = Len(claims)
    /\ claims \in Seq(Entries) /\ lost \subseteq Entries
    /\ buffer \in [Slots -> Entries \cup {Empty, Moved}]
    /\ sequences \in [Slots -> Nat]
    /\ push \in [Producers -> PushStates]
    /\ reader \in ReaderStates

\* Positions are claimed within the window; the numbers that threads know are
\* old ones.
Bounds ==
    /\ First \in Nat /\ tail <= head /\ head <= First + Capacity
    /\ \A s \in Slots : sequences[s] <= head + Capacity
    /\ \A p \in Producers : /\ push[p].head <= head
                            /\ push[p].at # "idle" => push[p].nth > 0
                            /\ push[p].at = "claim" => push[p].head < First + Capacity
    /\ reader.head <= head

\* The number of a slot is that of its position in the window, one more when
\* the position is published; it is past every position before the window.
Turns ==
    /\ \A pos \in Window :
         sequences[Slot(pos)] = IF Unpublished(pos) THEN pos ELSE pos + 1
    /\ \A pos \in 0..(First - 1) : sequences[Slot(pos)] > pos

\* Every thread that writes has a position of its own, which a pop has not
\* reached, and writes its own entry there.
Owned ==
    /\ \A p \in Producers : Writing(p) =>
         /\ push[p].head >= tail /\ push[p].head < head
         /\ claims[push[p].head + 1] = Entry(p)
         /\ push[p].at = "publish" => buffer[Slot(push[p].head)] = Entry(p)
    /\ \A p, q \in Producers :
         Writing(p) /\ Writing(q) /\ push[p].head = push[q].head => p = q

\* What is published and not moved out is in its slot.
Kept ==
    \A pos \in First..(head - 1) :
      ~Unpublished(pos) /\ ~(reader.at = "free" /\ pos = First)
        => buffer[Slot(pos)] = claims[pos + 1]

\* Where the i-th entry of the snapshot comes from.
Copies(i) == {k \in 1..reader.index : claims[tail + k] = reader.got[i]}

\* A snapshot has gone through index positions and has some of their entries.
Copied ==
    /\ reader.at \in {"peek", "copy"} => reader.index + reader.left <= head - tail
    /\ reader.at = "copy" => reader.left > 0 /\ ~Unpublished(tail + reader.index)
    /\ reader.at \notin {"peek", "copy"} => reader.got = <<>>
    /\ \A i \in DOMAIN reader.got : Copies(i) # {}
    /\ \A i, j \in DOMAIN reader.got : i < j => \E k \in Copies(i), l \in Copies(j) : k < l

Ring == Types /\ Bounds /\ Turns /\ Owned /\ Kept /\ Copied

-----------------------------------------------------------------------------
(* Slots: the remainder by Capacity.                                       *)

\* A quotient and a remainder below the divisor.
LEMMA Division ==
  ASSUME NEW C \in Nat, C > 0, NEW a \in Nat
  PROVE  a \div C \in Nat /\ a % C \in 0..(C - 1) /\ a = C * (a \div C) + (a % C)
BY SMTT(30)

\* A multiple of C by at least one is at least C.
LEMMA Multiple ==
  ASSUME NEW C \in Nat, C > 0, NEW k \in Int, k >= 1
  PROVE  C * k >= C
BY SMTT(30)

\* They are the only ones: of two, no quotient is the larger.
LEMMA QuotientOnce ==
  ASSUME NEW C \in Nat, C > 0, NEW q \in Nat, NEW u \in Nat,
         NEW r \in 0..(C - 1), NEW v \in 0..(C - 1), C * q + r = C * u + v
  PROVE  q <= u
<1>1. q > u => C * (q - u) >= C
  BY Multiple
<1>2. C * (q - u) = C * q - C * u
  BY SMT
<1> QED
  BY <1>1, <1>2

\* The slot of a position is a slot.
LEMMA SlotInSlots ==
  ASSUME NEW a \in Nat
  PROVE  Slot(a) \in Slots
BY Division, RingAssumption DEF Slot, Slots

\* A round later it is the same slot.
LEMMA SlotNextRound ==
  ASSUME NEW a \in Nat
  PROVE  Slot(a + Capacity) = Slot(a)
<1> DEFINE q == (a \div Capacity) + 1
           r == a % Capacity
           u == (a + Capacity) \div Capacity
           v == (a + Capacity) % Capacity
<1>1. q \in Nat /\ u \in Nat /\ r \in 0..(Capacity - 1) /\ v \in 0..(Capacity - 1)
  BY Division, RingAssumption
<1>2. Capacity * q + r = a + Capacity
  <2>1. Capacity * q = Capacity * (a \div Capacity) + Capacity
    BY Division, RingAssumption
  <2> QED
    BY <2>1, Division, RingAssumption
<1>3. Capacity * u + v = a + Capacity
  BY Division, RingAssumption
<1>4. q = u
  <2> HIDE DEF q, u, r, v
  <2>1. q <= u /\ u <= q
    BY <1>1, <1>2, <1>3, QuotientOnce, RingAssumption
  <2> QED
    BY <2>1, <1>1
<1>5. r = v
  <2> HIDE DEF q, u, r, v
  <2> QED
    BY <1>1, <1>2, <1>3, <1>4, RingAssumption
<1> QED
  BY <1>5 DEF Slot

\* Two positions less than a round apart have two slots.
LEMMA SlotOnce ==
  ASSUME NEW a \in Nat, NEW b \in Nat, Slot(a) = Slot(b), a < b + Capacity, b < a + Capacity
  PROVE  a = b
<1>1. ASSUME NEW c \in Nat, NEW d \in Nat, Slot(c) = Slot(d), c < d + Capacity, d < c
      PROVE  FALSE
  <2> DEFINE k == (c \div Capacity) - (d \div Capacity)
  <2>1. k \in Int /\ c - d = Capacity * k
    BY <1>1, Division, RingAssumption DEF Slot
  <2>2. k >= 1 => Capacity * k >= Capacity
    BY <2>1, Multiple, RingAssumption
  <2>3. k <= 0 => Capacity * k <= 0
    BY <2>1, RingAssumption
  <2> QED
    BY <1>1, <2>1, <2>2, <2>3, RingAssumption
<1> QED
  BY <1>1

-----------------------------------------------------------------------------
(* Steps that claim, write and free nothing.                               *)

\* The positions of the window, as numbers.
LEMMA InWindow ==
  ASSUME Types, Bounds
  PROVE  /\ \A pos \in Window : pos \in Nat
         /\ \A pos \in First..(head - 1) : pos \in Window
         /\ \A p \in Producers : Writing(p) /\ Owned => push[p].head \in tail..(head - 1)
         /\ tail \in {First, First + 1}
BY RingAssumption DEF Types, Bounds, Window, First, Owned, PushStates

\* A thread moves on in its push and neither claims nor publishes.
LEMMA PushAside ==
  ASSUME Ring, NEW p \in Producers, NEW r \in PushStates,
         push' = [push EXCEPT ![p] = r],
         ~Writing(p), r.at \notin {"write", "publish"},
         r.head <= head, r.at # "idle" => r.nth > 0,
         r.at = "claim" => r.head < First + Capacity,
         UNCHANGED <<buffer, sequences, head, tail, reader, claims>>, lost' \subseteq Entries
  PROVE  Ring'
<1> USE DEF Ring
<1>1. push \in [Producers -> PushStates]
  BY DEF Types
<1>2. /\ push'[p] = r
      /\ \A q \in Producers \ {p} : push'[q] = push[q]
  BY <1>1
<1>3. push' \in [Producers -> PushStates]
  BY <1>1
<1>4. First' = First /\ Window' = Window
  BY DEF First, Window
<1>5. \A q \in Producers : /\ Writing(q)' <=> Writing(q)
                           /\ Writing(q) => push'[q] = push[q]
  BY <1>2 DEF Writing
<1>6. \A pos : Unpublished(pos)' <=> Unpublished(pos)
  BY <1>5 DEF Unpublished
<1>7. Types'
  BY <1>3 DEF Types
<1>8. Bounds'
  BY <1>2, <1>4 DEF Bounds
<1>9. Turns'
  BY <1>4, <1>6 DEF Turns
<1>10. Owned'
  BY <1>5 DEF Owned, Entry
<1>11. Kept'
  BY <1>4, <1>6 DEF Kept
<1>12. Copied'
  BY <1>6 DEF Copied, Copies
<1> QED
  BY <1>7, <1>8, <1>9, <1>10, <1>11, <1>12

\* The reader moves on, and neither moves tail_ nor takes or frees anything.
LEMMA ReadAside ==
  ASSUME Ring, reader' \in ReaderStates, reader'.head <= head,
         reader.at \notin {"take", "free"}, reader'.at \notin {"take", "free"},
         UNCHANGED <<buffer, sequences, head, tail, push, claims, lost>>
  PROVE  Types' /\ Bounds' /\ Turns' /\ Owned' /\ Kept'
<1> USE DEF Ring
<1>1. First' = First /\ Window' = Window
  BY DEF First, Window
<1>2. \A pos : Unpublished(pos)' <=> Unpublished(pos)
  BY DEF Unpublished, Writing
<1>3. Types'
  BY DEF Types
<1>4. Bounds'
  BY <1>1 DEF Bounds
<1>5. Turns'
  BY <1>1, <1>2 DEF Turns
<1>6. Owned'
  BY DEF Owned, Writing, Entry
<1>7. Kept'
  BY <1>1, <1>2 DEF Kept
<1> QED
  BY <1>3, <1>4, <1>5, <1>6, <1>7

\* A position that is published is so in the turns, and the reverse.
LEMMA TurnOf ==
  ASSUME Ring, NEW pos \in Window
  PROVE  /\ pos \in Nat
         /\ sequences[Slot(pos)] \in {pos, pos + 1}
         /\ sequences[Slot(pos)] = pos + 1 => ~Unpublished(pos) /\ pos < head
BY InWindow DEF Ring, Turns, Unpublished, Types

-----------------------------------------------------------------------------
(* The steps of a push.                                                    *)

\* A push that loads head_ knows no number ahead of it.
LEMMA RingStartPush ==
  ASSUME Ring, NEW p \in Producers, StartPush(p)
  PROVE  Ring'
<1>1. PICK h \in push[p].head..head :
        push' = [push EXCEPT ![p] = [at |-> "look", head |-> h,
                    nth |-> IF push[p].at = "idle" THEN push[p].nth + 1 ELSE push[p].nth]]
  BY DEF StartPush, Ring, Types
<1> DEFINE r == [at |-> "look", head |-> h,
                 nth |-> IF push[p].at = "idle" THEN push[p].nth + 1 ELSE push[p].nth]
<1>2. /\ push[p] \in PushStates /\ head \in Nat /\ push[p].head <= head
      /\ push[p].at # "idle" => push[p].nth > 0
      /\ lost \subseteq Entries
  BY DEF Ring, Types, Bounds
<1>3. /\ push[p].at \in {"idle", "reload"}
      /\ push[p].at = "idle" => push[p].nth < MaxPush
      /\ UNCHANGED <<buffer, sequences, head, tail, reader, claims, lost>>
  BY DEF StartPush
<1>4. r \in PushStates /\ r.nth > 0 /\ r.head <= head
  BY <1>2, <1>3, RingAssumption DEF PushStates
<1>5. ~Writing(p)
  BY <1>3 DEF Writing
<1> HIDE DEF r
<1>6. r.at = "look"
  BY DEF r
<1> QED
  BY <1>1, <1>2, <1>3, <1>4, <1>5, <1>6, PushAside DEF r

\* The number of a slot is that of the position only within the window.  This
\* is where one slot is too few: the position after the window has the slot of
\* the first, whose number is then one more once it is published.
LEMMA RingLook ==
  ASSUME Ring, Capacity > 1, NEW p \in Producers, Look(p)
  PROVE  Ring' /\ (lost' # lost => head = First + Capacity /\ lost' = lost \cup {Entry(p)})
<1> DEFINE h == push[p].head
           diff == sequences[Slot(h)] - h
<1>1. /\ push[p] \in PushStates /\ h \in Nat /\ h <= head /\ push[p].at = "look"
      /\ push[p].nth > 0
      /\ First \in Nat /\ tail \in Nat /\ head \in Nat /\ head <= First + Capacity
  BY DEF Ring, Types, Bounds, Look, PushStates
<1>2. \/ diff = 0 /\ At(p, "claim") /\ UNCHANGED <<dropped, lost>>
      \/ diff > 0 /\ At(p, "reload") /\ UNCHANGED <<dropped, lost>>
      \/ diff < 0 /\ At(p, "idle") /\ lost' = lost \cup {Entry(p)}
  BY DEF Look
<1>3. UNCHANGED <<buffer, sequences, head, tail, reader, claims>>
  BY DEF Look
<1>4. /\ diff = 0 => h < First + Capacity
      /\ diff < 0 => h = First + Capacity
  <2>1. CASE h \in Window
    BY <2>1, <1>1, TurnOf, RingAssumption DEF Window
  <2>2. CASE h < First
    <3>1. sequences[Slot(h)] \in Nat /\ sequences[Slot(h)] > h
      BY <2>2, <1>1, SlotInSlots DEF Ring, Types, Turns
    <3> QED
      BY <3>1, <2>2, <1>1, RingAssumption
  <2>3. CASE h = First + Capacity
    <3>1. Slot(h) = Slot(First) /\ First \in Window
      BY <2>3, <1>1, SlotNextRound, RingAssumption DEF Window
    <3> QED
      BY <3>1, <2>3, <1>1, TurnOf, RingAssumption
  <2> QED
    BY <2>1, <2>2, <2>3, <1>1, RingAssumption DEF Window
<1>5. ~Writing(p) /\ Entry(p) \in Entries
  BY <1>1, RingAssumption DEF Writing, Entry, Entries, PushStates
<1>6. lost' \subseteq Entries
  BY <1>2, <1>5 DEF Ring, Types
<1>7. PICK where \in {"claim", "reload", "idle"} :
        /\ push' = [push EXCEPT ![p].at = where]
        /\ where = "claim" => h < First + Capacity
  BY <1>2, <1>4 DEF At
<1> DEFINE r == [push[p] EXCEPT !.at = where]
<1>8. /\ r \in PushStates /\ r.at = where /\ r.head = h /\ r.nth = push[p].nth
      /\ push' = [push EXCEPT ![p] = r]
  BY <1>1, <1>7 DEF PushStates
<1>9. Ring'
  <2> HIDE DEF r
  <2> QED
    BY <1>1, <1>3, <1>5, <1>6, <1>7, <1>8, PushAside
<1>10. lost' # lost => diff < 0 /\ lost' = lost \cup {Entry(p)}
  BY <1>2
<1>11. head = First + Capacity \/ ~(h = First + Capacity)
  BY <1>1, RingAssumption
<1> QED
  BY <1>4, <1>9, <1>10, <1>11

\* The compare and exchange gives the next position to one thread, which had
\* seen its slot free: the positions that are in use grow, the window stays.
LEMMA RingClaimWon ==
  ASSUME Ring, NEW p \in Producers, push[p].at = "claim", push[p].head = head,
         head' = head + 1, At(p, "write"), claims' = Append(claims, Entry(p)),
         UNCHANGED <<buffer, sequences, tail, reader, lost>>
  PROVE  Ring'
<1> USE DEF Ring
<1>1. /\ push \in [Producers -> PushStates] /\ head \in Nat /\ tail \in Nat /\ First \in Nat
      /\ tail <= head /\ head < First + Capacity /\ head <= First + Capacity
      /\ claims \in Seq(Entries) /\ Len(claims) = head
      /\ push[p] \in PushStates /\ push[p].nth > 0
  BY RingAssumption DEF Types, Bounds
<1>2. push' = [push EXCEPT ![p].at = "write"]
  BY DEF At
<1>3. /\ push' \in [Producers -> PushStates]
      /\ push'[p].at = "write" /\ push'[p].head = head /\ push'[p].nth = push[p].nth
      /\ \A q \in Producers \ {p} : push'[q] = push[q]
  BY <1>1, <1>2 DEF PushStates
<1>4. Entry(p) \in Entries /\ Entry(p)' = Entry(p)
  BY <1>1, <1>3 DEF Entry, Entries, PushStates
<1>5. /\ claims' \in Seq(Entries) /\ Len(claims') = head + 1
      /\ claims'[head + 1] = Entry(p)
      /\ \A i \in 1..head : claims'[i] = claims[i]
  BY <1>1, <1>4, AppendProperties
<1>6. First' = First /\ Window' = Window
  BY DEF First, Window
<1>7. /\ Writing(p)' /\ ~Writing(p)
      /\ \A q \in Producers \ {p} : Writing(q)' <=> Writing(q)
  BY <1>3 DEF Writing
<1>8. \A pos \in Nat : Unpublished(pos)' <=> Unpublished(pos)
  <2> TAKE pos \in Nat
  <2>1. (\E q \in Producers : Writing(q)' /\ push'[q].head = pos)
          <=> (pos = head \/ \E q \in Producers : Writing(q) /\ push[q].head = pos)
    BY <1>3, <1>7
  <2>2. pos >= head <=> (pos = head \/ pos >= head + 1)
    BY <1>1
  <2> QED
    BY <2>1, <2>2 DEF Unpublished
<1>9. Types'
  BY <1>1, <1>3, <1>5 DEF Types
<1>10. Bounds'
  <2>1. \A s \in Slots : sequences[s] <= head + 1 + Capacity
    BY <1>1, RingAssumption DEF Bounds, Types
  <2>2. \A q \in Producers : /\ push'[q].head <= head + 1
                             /\ push'[q].at # "idle" => push'[q].nth > 0
                             /\ push'[q].at = "claim" => push'[q].head < First + Capacity
    BY <1>1, <1>3 DEF Bounds, Types, PushStates
  <2>3. reader.head <= head + 1
    BY <1>1 DEF Bounds, Types, ReaderStates
  <2> QED
    BY <1>1, <1>6, <2>1, <2>2, <2>3, RingAssumption DEF Bounds
<1>11. Turns'
  BY <1>1, <1>6, <1>8, InWindow DEF Turns
<1>12. Owned'
  <2>1. ASSUME NEW q \in Producers, Writing(q)'
        PROVE  /\ push'[q].head >= tail /\ push'[q].head < head + 1
               /\ claims'[push'[q].head + 1] = Entry(q)'
               /\ push'[q].at = "publish" => buffer[Slot(push'[q].head)] = Entry(q)'
    <3>1. CASE q = p
      BY <3>1, <1>1, <1>3, <1>4, <1>5
    <3>2. CASE q # p
      <4>1. Writing(q) /\ push'[q] = push[q] /\ Entry(q)' = Entry(q)
        BY <2>1, <3>2, <1>3, <1>7 DEF Entry
      <4>2. push[q].head \in tail..(head - 1) /\ push[q].head + 1 \in 1..head
        BY <4>1, <1>1, InWindow DEF Types, Bounds
      <4> QED
        BY <4>1, <4>2, <1>1, <1>5 DEF Owned
    <3> QED
      BY <3>1, <3>2
  <2>2. ASSUME NEW q \in Producers, NEW r \in Producers, Writing(q)', Writing(r)',
               push'[q].head = push'[r].head
        PROVE  q = r
    <3>1. \A t \in Producers \ {p} : Writing(t) => push[t].head # head
      BY <1>1, InWindow
    <3> QED
      BY <2>2, <3>1, <1>3, <1>7 DEF Owned
  <2> QED
    BY <2>1, <2>2 DEF Owned
<1>13. Kept'
  <2> SUFFICES ASSUME NEW pos \in First..head, ~Unpublished(pos)',
                      ~(reader.at = "free" /\ pos = First)
               PROVE  buffer[Slot(pos)] = claims'[pos + 1]
    BY <1>1, <1>6 DEF Kept
  <2>1. pos \in Nat /\ ~Unpublished(pos) /\ pos < head
    BY <1>1, <1>8 DEF Unpublished
  <2>2. pos \in First..(head - 1) /\ pos + 1 \in 1..head
    BY <2>1, <1>1
  <2> QED
    BY <2>1, <2>2, <1>5 DEF Kept
<1>14. Copied'
  <2>1. reader \in ReaderStates
    BY DEF Types
  <2>2. reader.at \notin {"peek", "copy"} => DOMAIN reader.got = {}
    BY DEF Copied
  <2>3. reader.at \in {"peek", "copy"} => \A k \in 1..reader.index : claims'[tail + k] = claims[tail + k]
    BY <1>1, <1>5, <2>1 DEF Copied, ReaderStates
  <2>4. reader.at \in {"peek", "copy"} => reader.index + reader.left <= (head + 1) - tail
    BY <1>1, <2>1 DEF Copied, ReaderStates
  <2>5. reader.at = "copy" => reader.left > 0 /\ ~Unpublished(tail + reader.index)'
    BY <1>1, <1>8, <2>1 DEF Copied, ReaderStates
  <2>6. ASSUME NEW i \in DOMAIN reader.got
        PROVE  Copies(i)' = Copies(i)
    BY <2>2, <2>3, <2>6 DEF Copies
  <2>7. reader.at \notin {"peek", "copy"} => reader.got = <<>>
    BY DEF Copied
  <2> QED
    BY <2>4, <2>5, <2>6, <2>7 DEF Copied, Unpublished
<1> QED
  BY <1>9, <1>10, <1>11, <1>12, <1>13, <1>14

\* Otherwise the push looks again, from where head_ is now.
LEMMA RingClaim ==
  ASSUME Ring, NEW p \in Producers, Claim(p)
  PROVE  Ring'
<1>1. /\ push[p].at = "claim"
      /\ UNCHANGED <<buffer, sequences, tail, reader, lost>>
  BY DEF Claim
<1>2. CASE push[p].head = head /\ head' = head + 1 /\ At(p, "write")
           /\ claims' = Append(claims, Entry(p))
  BY <1>1, <1>2, RingClaimWon
<1>3. CASE push' = [push EXCEPT ![p].at = "look", ![p].head = head]
           /\ UNCHANGED <<head, claims>>
  <2> DEFINE r == [push[p] EXCEPT !.at = "look", !.head = head]
  <2>1. push \in [Producers -> PushStates] /\ head \in Nat /\ push[p].nth > 0 /\ lost \subseteq Entries
    BY <1>1 DEF Ring, Types, Bounds
  <2>2. /\ r \in PushStates /\ r.at = "look" /\ r.head = head /\ r.nth = push[p].nth
    BY <2>1 DEF PushStates
  <2>3. push' = [push EXCEPT ![p] = r]
    BY <1>3, <2>1 DEF PushStates
  <2>4. ~Writing(p)
    BY <1>1 DEF Writing
  <2>5. r.head <= head
    BY <2>1, <2>2
  <2>6. lost' \subseteq Entries
    BY <1>1, <2>1
  <2> HIDE DEF r
  <2> QED
    BY <1>1, <1>3, <2>1, <2>2, <2>3, <2>4, <2>5, <2>6, PushAside
<1> QED
  BY <1>2, <1>3 DEF Claim

\* A thread writes its entry into the slot of its position, which is no other
\* thread's and holds nothing that is published.
LEMMA RingWrite ==
  ASSUME Ring, NEW p \in Producers, Write(p)
  PROVE  Ring'
<1> USE DEF Ring
<1> DEFINE h == push[p].head
<1>1. /\ push[p].at = "write" /\ At(p, "publish")
      /\ buffer' = [buffer EXCEPT ![Slot(h)] = Entry(p)]
      /\ UNCHANGED <<sequences, head, tail, reader, claims, lost>>
  BY DEF Write
<1>2. /\ push \in [Producers -> PushStates] /\ head \in Nat /\ tail \in Nat /\ First \in Nat
      /\ push[p] \in PushStates /\ push[p].nth > 0
      /\ buffer \in [Slots -> Entries \cup {Empty, Moved}]
  BY <1>1 DEF Types, Bounds
<1>3. /\ push' \in [Producers -> PushStates]
      /\ push'[p].at = "publish" /\ push'[p].head = h /\ push'[p].nth = push[p].nth
      /\ \A q \in Producers \ {p} : push'[q] = push[q]
  BY <1>1, <1>2 DEF PushStates, At
<1>4. Entry(p) \in Entries /\ \A q \in Producers : Entry(q)' = Entry(q)
  BY <1>2, <1>3 DEF Entry, Entries, PushStates
<1>5. Writing(p) /\ \A q \in Producers : Writing(q)' <=> Writing(q)
  BY <1>1, <1>3 DEF Writing
<1>6. \A q \in Producers : push'[q].head = push[q].head
  BY <1>3
<1>7. \A pos : Unpublished(pos)' <=> Unpublished(pos)
  BY <1>1, <1>5, <1>6 DEF Unpublished
<1>8. First' = First /\ Window' = Window
  BY <1>1 DEF First, Window
<1>9. /\ h \in Window /\ h \in Nat /\ Slot(h) \in Slots /\ h \in tail..(head - 1)
      /\ \A pos \in Window : pos # h => Slot(pos) # Slot(h)
  <2>1. h \in tail..(head - 1)
    BY <1>5, InWindow
  <2>2. h \in Window /\ h \in Nat
    BY <2>1, <1>2, InWindow
  <2>3. \A pos \in Window : pos # h => Slot(pos) # Slot(h)
    BY <2>2, <1>2, SlotOnce, RingAssumption DEF Window
  <2> QED
    BY <2>1, <2>2, <2>3, SlotInSlots
<1>10. /\ buffer'[Slot(h)] = Entry(p)
       /\ \A pos \in Window : pos # h => buffer'[Slot(pos)] = buffer[Slot(pos)]
  BY <1>1, <1>2, <1>9, InWindow, SlotInSlots
<1>11. Types'
  <2>1. buffer' \in [Slots -> Entries \cup {Empty, Moved}]
    BY <1>1, <1>2, <1>4
  <2> QED
    BY <1>1, <1>3, <2>1 DEF Types
<1>12. Bounds'
  BY <1>1, <1>2, <1>3, <1>8 DEF Bounds
<1>13. Turns'
  BY <1>1, <1>7, <1>8 DEF Turns
<1>14. Owned'
  <2>1. ASSUME NEW q \in Producers, Writing(q)'
        PROVE  /\ push'[q].head >= tail /\ push'[q].head < head
               /\ claims[push'[q].head + 1] = Entry(q)'
               /\ push'[q].at = "publish" => buffer'[Slot(push'[q].head)] = Entry(q)'
    <3>1. /\ Writing(q) /\ push[q].head >= tail /\ push[q].head < head
          /\ claims[push[q].head + 1] = Entry(q)
      BY <2>1, <1>5 DEF Owned
    <3>2. CASE q = p
      BY <3>1, <3>2, <1>3, <1>4, <1>10
    <3>3. CASE q # p
      <4>1. push'[q] = push[q] /\ push[q].head # h
        BY <3>1, <3>3, <1>3, <1>5 DEF Owned
      <4>3. push[q].head \in Window
        <5>1. push[q].head \in tail..(head - 1)
          BY <3>1, InWindow
        <5> QED
          BY <5>1, <1>2, InWindow
      <4>2. push[q].at = "publish" => buffer[Slot(push[q].head)] = Entry(q)
        BY <3>1 DEF Owned
      <4> QED
        BY <3>1, <4>1, <4>2, <4>3, <1>4, <1>10
    <3> QED
      BY <3>2, <3>3
  <2>2. \A q, r \in Producers :
          Writing(q)' /\ Writing(r)' /\ push'[q].head = push'[r].head => q = r
    BY <1>5, <1>6 DEF Owned
  <2> QED
    BY <1>1, <2>1, <2>2 DEF Owned
<1>15. Kept'
  <2> SUFFICES ASSUME NEW pos \in First..(head - 1), ~Unpublished(pos),
                      ~(reader.at = "free" /\ pos = First)
               PROVE  buffer'[Slot(pos)] = claims[pos + 1]
    BY <1>1, <1>7, <1>8 DEF Kept
  <2>1. pos # h /\ pos \in Window
    BY <1>5, InWindow DEF Unpublished
  <2> QED
    BY <2>1, <1>10 DEF Kept
<1>16. Copied'
  BY <1>1, <1>7 DEF Copied, Copies
<1> QED
  BY <1>11, <1>12, <1>13, <1>14, <1>15, <1>16

\* A thread publishes its position: the number of its slot is one more, and
\* those of the other positions are in other slots.
LEMMA RingPublish ==
  ASSUME Ring, NEW p \in Producers, Publish(p)
  PROVE  Ring'
<1> USE DEF Ring
<1>0. PICK h \in Nat : h = push[p].head
  BY DEF Types, PushStates
<1>1. /\ push[p].at = "publish" /\ At(p, "idle")
      /\ sequences' = [sequences EXCEPT ![Slot(h)] = h + 1]
      /\ UNCHANGED <<buffer, head, tail, reader, claims, lost>>
  BY <1>0 DEF Publish
<1>2. /\ push \in [Producers -> PushStates] /\ head \in Nat /\ tail \in Nat /\ First \in Nat
      /\ push[p] \in PushStates /\ sequences \in [Slots -> Nat]
  BY <1>1 DEF Types, Bounds
<1>3. /\ push' \in [Producers -> PushStates]
      /\ push'[p].at = "idle" /\ push'[p].head = h
      /\ \A q \in Producers \ {p} : push'[q] = push[q]
  BY <1>0, <1>1, <1>2 DEF PushStates, At
<1>4. /\ Writing(p) /\ ~Writing(p)'
      /\ \A q \in Producers \ {p} : /\ Writing(q)' <=> Writing(q)
                                    /\ Writing(q) => push[q].head # h
  BY <1>0, <1>1, <1>3 DEF Writing, Owned
<1>5. /\ h \in Window /\ h \in Nat /\ Slot(h) \in Slots /\ h \in tail..(head - 1)
      /\ h \in First..(head - 1)
      /\ \A pos \in Window : pos # h => Slot(pos) # Slot(h)
      /\ \A pos \in 0..(First - 1) : pos < h
  <2>1. h \in tail..(head - 1)
    BY <1>0, <1>4, InWindow
  <2>2. h \in Window /\ h \in Nat /\ h \in First..(head - 1)
    BY <2>1, <1>2, InWindow
  <2>3. \A pos \in Window : pos # h => Slot(pos) # Slot(h)
    BY <2>2, <1>2, SlotOnce, RingAssumption DEF Window
  <2> QED
    BY <2>1, <2>2, <2>3, <1>2, SlotInSlots
<1>6. First' = First /\ Window' = Window
  BY <1>1 DEF First, Window
<1>7. /\ ~Unpublished(h)'
      /\ \A pos \in Nat \ {h} : Unpublished(pos)' <=> Unpublished(pos)
  <2>1. \A pos \in Nat : (\E q \in Producers : Writing(q)' /\ push'[q].head = pos)
          <=> (pos # h /\ \E q \in Producers : Writing(q) /\ push[q].head = pos)
    BY <1>0, <1>3, <1>4
  <2> QED
    BY <2>1, <1>1, <1>2, <1>5 DEF Unpublished
<1>8. /\ sequences' \in [Slots -> Nat] /\ sequences'[Slot(h)] = h + 1
      /\ \A s \in Slots \ {Slot(h)} : sequences'[s] = sequences[s]
  BY <1>1, <1>2, <1>5
<1>9. Types'
  BY <1>1, <1>3, <1>8 DEF Types
<1>10. Bounds'
  <2>1. \A s \in Slots : sequences'[s] <= head + Capacity
    BY <1>2, <1>5, <1>8, RingAssumption DEF Bounds
  <2>2. \A q \in Producers : /\ push'[q].head <= head
                             /\ push'[q].at # "idle" => push'[q].nth > 0
                             /\ push'[q].at = "claim" => push'[q].head < First + Capacity
    BY <1>0, <1>3 DEF Bounds
  <2> QED
    BY <1>1, <1>6, <2>1, <2>2 DEF Bounds
<1>11. Turns'
  <2>1. ASSUME NEW pos \in Window
        PROVE  sequences'[Slot(pos)] = IF Unpublished(pos)' THEN pos ELSE pos + 1
    <3>1. pos \in Nat /\ Slot(pos) \in Slots
      BY InWindow, SlotInSlots
    <3>2. CASE pos = h
      BY <3>2, <1>7, <1>8
    <3>3. CASE pos # h
      BY <3>1, <3>3, <1>5, <1>7, <1>8 DEF Turns
    <3> QED
      BY <3>2, <3>3
  <2>2. ASSUME NEW pos \in 0..(First - 1)
        PROVE  sequences'[Slot(pos)] > pos
    <3>1. pos \in Nat /\ Slot(pos) \in Slots /\ pos < h
      BY <1>2, <1>5, SlotInSlots
    <3>2. sequences[Slot(pos)] > pos
      BY DEF Turns
    <3> QED
      BY <3>1, <3>2, <1>5, <1>8
  <2> QED
    BY <2>1, <2>2, <1>6 DEF Turns
<1>12. Owned'
  <2>1. \A q \in Producers : Writing(q)' =>
          q # p /\ Writing(q) /\ push'[q] = push[q] /\ Entry(q)' = Entry(q)
    BY <1>3, <1>4 DEF Entry
  <2> QED
    BY <1>1, <2>1 DEF Owned
<1>13. Kept'
  <2> SUFFICES ASSUME NEW pos \in First..(head - 1), ~Unpublished(pos)',
                      ~(reader.at = "free" /\ pos = First)
               PROVE  buffer[Slot(pos)] = claims[pos + 1]
    BY <1>1, <1>6 DEF Kept
  <2>1. CASE pos = h
    BY <2>1, <1>0, <1>1, <1>4 DEF Owned, Entry
  <2>2. CASE pos # h
    <3>1. pos \in Nat /\ ~Unpublished(pos)
      BY <2>2, <1>2, <1>7
    <3> QED
      BY <3>1 DEF Kept
  <2> QED
    BY <2>1, <2>2
<1>14. Copied'
  <2>1. reader.at = "copy" => ~Unpublished(tail + reader.index)'
    <3>1. PICK c \in Nat : c = tail + reader.index
      BY <1>2 DEF Types, ReaderStates
    <3>2. reader.at = "copy" => ~Unpublished(c)'
      BY <3>1, <1>7 DEF Copied
    <3> QED
      BY <3>1, <3>2, <1>1 DEF Unpublished
  <2> QED
    BY <1>1, <2>1 DEF Copied, Copies, Unpublished
<1> QED
  BY <1>9, <1>10, <1>11, <1>12, <1>13, <1>14

-----------------------------------------------------------------------------
(* The steps of a clear and of a snapshot.                                 *)

\* A pop takes the first position only when it is published; until it is freed
\* it stays the first of the window.
LEMMA RingPop ==
  ASSUME Ring, Pop
  PROVE  Ring'
<1> USE DEF Ring
<1>1. /\ reader.at = "pop" /\ reader \in ReaderStates /\ reader.head <= head
      /\ First = tail /\ First \in Nat /\ tail \in Nat /\ head \in Nat
      /\ reader.got = <<>> /\ tail \in Window
      /\ UNCHANGED <<buffer, sequences, head, push, claims, lost>>
  BY RingAssumption DEF Pop, Types, Bounds, First, Copied, Window
<1>2. CASE /\ sequences[Slot(tail)] = tail + 1
           /\ tail' = tail + 1 /\ reader' = [reader EXCEPT !.at = "take"]
  <2>1. ~Unpublished(tail) /\ tail < head
    BY <1>1, <1>2, TurnOf
  <2>2. /\ reader' \in ReaderStates /\ reader'.at = "take" /\ reader'.head = reader.head
        /\ reader'.got = <<>>
    BY <1>1, <1>2 DEF ReaderStates
  <2>3. First' = First /\ Window' = Window
    BY <1>1, <1>2, <2>2 DEF First, Window
  <2>4. \A pos : Unpublished(pos)' <=> Unpublished(pos)
    BY <1>1 DEF Unpublished, Writing
  <2>5. Types'
    BY <1>1, <1>2, <2>2 DEF Types
  <2>6. Bounds'
    BY <1>1, <1>2, <2>1, <2>2, <2>3 DEF Bounds
  <2>7. Turns'
    BY <1>1, <2>3, <2>4 DEF Turns
  <2>8. Owned'
    <3>1. \A p \in Producers : Writing(p) => push[p].head >= tail + 1
      BY <1>1, <2>1, InWindow DEF Unpublished
    <3> QED
      BY <1>1, <1>2, <3>1 DEF Owned, Writing, Entry
  <2>9. Kept'
    BY <1>1, <2>2, <2>3, <2>4 DEF Kept
  <2>10. Copied'
    BY <2>2 DEF Copied
  <2> QED
    BY <2>5, <2>6, <2>7, <2>8, <2>9, <2>10
<1>3. CASE UNCHANGED tail /\ reader' = [NoReader EXCEPT !.head = reader.head]
  <2>1. /\ reader' \in ReaderStates /\ reader'.at = "none" /\ reader'.head = reader.head
        /\ reader'.got = <<>>
    BY <1>1, <1>3 DEF ReaderStates, NoReader
  <2>2. Copied'
    BY <2>1 DEF Copied
  <2> QED
    BY <1>1, <1>3, <2>1, <2>2, ReadAside
<1> QED
  BY <1>2, <1>3 DEF Pop

\* The entry of the first position is moved out, which no thread writes.
LEMMA RingTake ==
  ASSUME Ring, Take
  PROVE  Ring'
<1> USE DEF Ring
<1>1. /\ reader.at = "take" /\ reader' = [reader EXCEPT !.at = "free"]
      /\ buffer' = [buffer EXCEPT ![Slot(tail - 1)] = Moved]
      /\ UNCHANGED <<sequences, head, tail, push, claims, lost>>
  BY DEF Take
<1>2. /\ First = tail - 1 /\ First \in Nat /\ tail \in Nat /\ head \in Nat /\ tail <= head
      /\ reader \in ReaderStates /\ reader.got = <<>>
      /\ buffer \in [Slots -> Entries \cup {Empty, Moved}]
  BY <1>1 DEF Types, Bounds, First, Copied
<1>3. /\ reader' \in ReaderStates /\ reader'.at = "free" /\ reader'.head = reader.head
      /\ reader'.got = <<>>
  BY <1>1, <1>2 DEF ReaderStates
<1>4. First' = First /\ Window' = Window
  BY <1>1, <1>3 DEF First, Window
<1>5. \A pos : Unpublished(pos)' <=> Unpublished(pos)
  BY <1>1 DEF Unpublished, Writing
<1>6. /\ First \in Window /\ Slot(First) \in Slots
      /\ \A pos \in Window : pos # First => buffer'[Slot(pos)] = buffer[Slot(pos)]
  <2>1. First \in Window /\ Slot(First) \in Slots
    BY <1>2, SlotInSlots, RingAssumption DEF Window
  <2>2. \A pos \in Window : pos # First => Slot(pos) # Slot(First) /\ Slot(pos) \in Slots
    BY <1>2, SlotOnce, SlotInSlots, RingAssumption DEF Window
  <2> QED
    BY <1>1, <1>2, <2>1, <2>2
<1>7. Types'
  <2>1. buffer' \in [Slots -> Entries \cup {Empty, Moved}]
    BY <1>1, <1>2
  <2> QED
    BY <1>1, <1>3, <2>1 DEF Types
<1>8. Bounds'
  BY <1>1, <1>3, <1>4 DEF Bounds
<1>9. Turns'
  BY <1>1, <1>4, <1>5 DEF Turns
<1>10. Owned'
  <2>1. \A p \in Producers : Writing(p) => push[p].head \in Window /\ push[p].head # First
    <3> SUFFICES ASSUME NEW p \in Producers, Writing(p)
                 PROVE  push[p].head \in Window /\ push[p].head # First
      OBVIOUS
    <3>1. push[p].head \in tail..(head - 1)
      BY InWindow
    <3> QED
      BY <3>1, <1>2, InWindow
  <2> QED
    BY <1>1, <1>6, <2>1 DEF Owned, Writing, Entry
<1>11. Kept'
  <2> SUFFICES ASSUME NEW pos \in First..(head - 1), ~Unpublished(pos), pos # First
               PROVE  buffer'[Slot(pos)] = claims[pos + 1]
    BY <1>1, <1>3, <1>4, <1>5 DEF Kept
  <2>1. pos \in Window
    BY InWindow
  <2> QED
    BY <2>1, <1>6 DEF Kept
<1>12. Copied'
  BY <1>3 DEF Copied
<1> QED
  BY <1>7, <1>8, <1>9, <1>10, <1>11, <1>12

\* The slot of the first position gets the number of the position that comes
\* into the window as the first leaves it.
LEMMA RingFree ==
  ASSUME Ring, Free
  PROVE  Ring'
<1> USE DEF Ring
<1>1. /\ reader.at = "free" /\ reader' = [reader EXCEPT !.at = "pop"]
      /\ sequences' = [sequences EXCEPT ![Slot(tail - 1)] = tail - 1 + Capacity]
      /\ UNCHANGED <<buffer, head, tail, push, claims, lost>>
  BY DEF Free
<1>2. /\ First = tail - 1 /\ First \in Nat /\ tail \in Nat /\ head \in Nat /\ tail <= head
      /\ head <= First + Capacity /\ First < head
      /\ reader \in ReaderStates /\ reader.got = <<>> /\ sequences \in [Slots -> Nat]
  BY <1>1 DEF Types, Bounds, First, Copied
<1>3. /\ reader' \in ReaderStates /\ reader'.at = "pop" /\ reader'.head = reader.head
      /\ reader'.got = <<>>
  BY <1>1, <1>2 DEF ReaderStates
<1>4. First' = First + 1 /\ Window' = (First + 1)..(First + Capacity)
  BY <1>1, <1>2, <1>3, RingAssumption DEF First, Window
<1>5. \A pos : Unpublished(pos)' <=> Unpublished(pos)
  BY <1>1 DEF Unpublished, Writing
<1>6. /\ First \in Window /\ Slot(First) \in Slots
      /\ Slot(First + Capacity) = Slot(First)
      /\ sequences' \in [Slots -> Nat]
      /\ sequences'[Slot(First)] = First + Capacity
      /\ \A s \in Slots \ {Slot(First)} : sequences'[s] = sequences[s]
  <2>1. First \in Window /\ Slot(First) \in Slots /\ Slot(First + Capacity) = Slot(First)
    BY <1>2, SlotInSlots, SlotNextRound, RingAssumption DEF Window
  <2>2. sequences' = [sequences EXCEPT ![Slot(First)] = First + Capacity]
    BY <1>1, <1>2
  <2>3. First + Capacity \in Nat
    BY <1>2, RingAssumption
  <2> QED
    BY <2>1, <2>2, <2>3, <1>2
<1>7. \A pos \in Window : pos # First => Slot(pos) # Slot(First) /\ Slot(pos) \in Slots
  BY <1>2, SlotOnce, SlotInSlots, RingAssumption DEF Window
<1>8. Types'
  BY <1>1, <1>3, <1>6 DEF Types
<1>9. Bounds'
  <2>1. \A s \in Slots : sequences'[s] <= head + Capacity
    BY <1>2, <1>6, RingAssumption DEF Bounds
  <2>2. \A p \in Producers : push[p].head < First + Capacity => push[p].head < First + 1 + Capacity
    BY <1>2, RingAssumption DEF Types, PushStates
  <2>3. First + 1 \in Nat /\ head <= First + 1 + Capacity
    BY <1>2, RingAssumption
  <2> QED
    BY <1>1, <1>2, <1>3, <1>4, <2>1, <2>2, <2>3 DEF Bounds
<1>10. Turns'
  <2>1. ASSUME NEW pos \in Window'
        PROVE  sequences'[Slot(pos)] = IF Unpublished(pos) THEN pos ELSE pos + 1
    <3>1. CASE pos = First + Capacity
      <4>1. Unpublished(pos)
        BY <3>1, <1>2, RingAssumption DEF Unpublished
      <4> QED
        BY <3>1, <4>1, <1>6
    <3>2. CASE pos # First + Capacity
      <4>1. pos \in Window /\ pos # First
        BY <3>2, <1>2, <1>4, RingAssumption DEF Window
      <4> QED
        BY <4>1, <1>6, <1>7 DEF Turns
    <3> QED
      BY <3>1, <3>2
  <2>2. ASSUME NEW pos \in 0..First
        PROVE  sequences'[Slot(pos)] > pos
    <3>1. pos \in Nat /\ Slot(pos) \in Slots
      BY <1>2, SlotInSlots
    <3>2. pos # First => sequences[Slot(pos)] > pos
      BY <1>2 DEF Turns
    <3> QED
      BY <3>1, <3>2, <1>2, <1>6, RingAssumption
  <2> QED
    BY <2>1, <2>2, <1>2, <1>4, <1>5 DEF Turns
<1>11. Owned'
  BY <1>1 DEF Owned, Writing, Entry
<1>12. Kept'
  <2> SUFFICES ASSUME NEW pos \in (First + 1)..(head - 1), ~Unpublished(pos)
               PROVE  buffer[Slot(pos)] = claims[pos + 1]
    BY <1>1, <1>4, <1>5 DEF Kept
  <2>1. pos \in First..(head - 1) /\ pos # First
    BY <1>2
  <2> QED
    BY <2>1 DEF Kept
<1>13. Copied'
  BY <1>3 DEF Copied
<1> QED
  BY <1>8, <1>9, <1>10, <1>11, <1>12, <1>13

\* A reader that begins has gone through nothing.
LEMMA RingStart ==
  ASSUME Ring, StartClear \/ StartSnapshot \/ EndSnapshot
  PROVE  Ring'
<1> USE DEF Ring
<1>1. /\ reader \in ReaderStates /\ reader.head <= head /\ head \in Nat /\ tail \in Nat
      /\ tail <= head
  BY DEF Types, Bounds
<1>2. CASE StartClear \/ EndSnapshot
  <2>1. /\ reader' \in ReaderStates /\ reader'.at \in {"pop", "none"} /\ reader'.got = <<>>
        /\ reader'.head = reader.head
    <3>1. PICK where \in {"pop", "none"} :
            reader' = [at |-> where, head |-> reader.head, left |-> 0, index |-> 0, got |-> <<>>]
      BY <1>2 DEF StartClear, EndSnapshot, NoReader
    <3> QED
      BY <1>1, <3>1 DEF ReaderStates
  <2>2. Copied'
    BY <2>1 DEF Copied
  <2> QED
    BY <1>1, <1>2, <2>1, <2>2, ReadAside DEF StartClear, EndSnapshot
<1>3. CASE StartSnapshot
  <2>1. PICK h \in reader.head..head, max \in {1, Capacity} :
          \E size \in {IF h >= tail THEN h - tail ELSE 0} :
            reader' = [at |-> "peek", head |-> h, index |-> 0, got |-> <<>>,
                       left |-> IF max < size THEN max ELSE size]
    BY <1>3 DEF StartSnapshot
  <2>2. /\ reader.at = "none" /\ UNCHANGED <<buffer, sequences, head, tail, push, claims, lost>>
    BY <1>3 DEF StartSnapshot
  <2>3. /\ reader'.at = "peek" /\ reader'.head = h /\ reader'.index = 0 /\ reader'.got = <<>>
        /\ reader'.left \in Nat /\ reader'.left <= head - tail
    BY <1>1, <2>1, RingAssumption DEF ReaderStates
  <2>4. reader' \in ReaderStates /\ reader'.head <= head
    BY <1>1, <2>1, <2>3 DEF ReaderStates
  <2>5. Copied'
    BY <1>1, <2>2, <2>3 DEF Copied
  <2> QED
    BY <2>2, <2>3, <2>4, <2>5, ReadAside
<1> QED
  BY <1>2, <1>3

\* A snapshot leaves out what is not published, and stops at what is.
LEMMA RingPeek ==
  ASSUME Ring, Peek
  PROVE  Ring'
<1> USE DEF Ring
<1>1. PICK pos : /\ pos = tail + reader.index
                 /\ reader' = IF sequences[Slot(pos)] >= pos + 1
                              THEN [reader EXCEPT !.at = "copy"]
                              ELSE [reader EXCEPT !.index = reader.index + 1,
                                                  !.left = reader.left - 1]
  BY DEF Peek
<1>2. /\ reader.at = "peek" /\ reader.left > 0
      /\ UNCHANGED <<buffer, sequences, head, tail, push, claims, lost>>
  BY DEF Peek
<1>3. /\ reader \in ReaderStates /\ reader.head <= head /\ head \in Nat /\ tail \in Nat
      /\ reader.index + reader.left <= head - tail /\ First = tail /\ head <= First + Capacity
  BY <1>2 DEF Types, Bounds, Copied, First
<1>4. pos \in Nat /\ pos < head /\ pos \in Window
  BY <1>1, <1>2, <1>3, RingAssumption DEF ReaderStates, Window
<1>5. CASE sequences[Slot(pos)] >= pos + 1
  <2>1. reader' = [reader EXCEPT !.at = "copy"]
    BY <1>1, <1>5
  <2>2. /\ reader' \in ReaderStates /\ reader'.at = "copy" /\ reader'.head = reader.head
        /\ reader'.index = reader.index /\ reader'.left = reader.left
        /\ reader'.got = reader.got
    BY <1>3, <2>1 DEF ReaderStates
  <2>3. ~Unpublished(pos)
    BY <1>4, <1>5, TurnOf
  <2>4. ~Unpublished(tail + reader.index)'
    BY <1>1, <1>2, <2>2, <2>3 DEF Unpublished, Writing
  <2>5. Copied'
    BY <1>2, <1>3, <2>2, <2>4 DEF Copied, Copies
  <2> QED
    BY <1>2, <1>3, <2>2, <2>5, ReadAside
<1>6. CASE ~(sequences[Slot(pos)] >= pos + 1)
  <2>1. reader' = [reader EXCEPT !.index = reader.index + 1, !.left = reader.left - 1]
    BY <1>1, <1>6
  <2>2. /\ reader.left - 1 \in Nat /\ reader.index + 1 \in Nat
        /\ 1..reader.index \subseteq 1..(reader.index + 1)
        /\ (reader.index + 1) + (reader.left - 1) <= head - tail
    BY <1>2, <1>3 DEF ReaderStates
  <2>3. /\ reader' \in ReaderStates /\ reader'.at = "peek" /\ reader'.head = reader.head
        /\ reader'.index = reader.index + 1 /\ reader'.left = reader.left - 1
        /\ reader'.got = reader.got
    BY <1>2, <1>3, <2>1, <2>2 DEF ReaderStates
  <2>4. \A i : Copies(i) \subseteq Copies(i)'
    BY <1>2, <2>2, <2>3 DEF Copies
  <2>5. Copied'
    <3>1. \A i \in DOMAIN reader.got : Copies(i)' # {}
      BY <2>4 DEF Copied
    <3>2. \A i, j \in DOMAIN reader.got : i < j => \E k \in Copies(i)', l \in Copies(j)' : k < l
      BY <2>4 DEF Copied
    <3> QED
      BY <1>2, <2>2, <2>3, <3>1, <3>2 DEF Copied
  <2> QED
    BY <1>2, <1>3, <2>3, <2>5, ReadAside
<1> QED
  BY <1>5, <1>6

\* What a snapshot copies is the entry of the position it has come to, which
\* comes after those it has copied.
LEMMA RingCopy ==
  ASSUME Ring, Copy
  PROVE  Ring'
<1> USE DEF Ring
<1>1. PICK pos, e :
        /\ pos = tail + reader.index /\ e = buffer[Slot(pos)]
        /\ reader' = [reader EXCEPT !.at = "peek", !.index = reader.index + 1,
                                    !.left = reader.left - 1,
                                    !.got = IF e = Empty THEN reader.got ELSE Append(reader.got, e)]
  BY DEF Copy
<1>2. /\ reader.at = "copy" /\ reader.left > 0 /\ ~Unpublished(pos)
      /\ UNCHANGED <<buffer, sequences, head, tail, push, claims, lost>>
  BY <1>1 DEF Copy, Copied
<1>3. /\ reader \in ReaderStates /\ reader.head <= head /\ head \in Nat /\ tail \in Nat
      /\ reader.index + reader.left <= head - tail /\ First = tail /\ head <= First + Capacity
      /\ buffer \in [Slots -> Entries \cup {Empty, Moved}]
  BY <1>2 DEF Types, Bounds, Copied, First
<1>4. pos \in Nat /\ pos \in First..(head - 1) /\ Slot(pos) \in Slots
  BY <1>1, <1>2, <1>3, SlotInSlots DEF ReaderStates
<1>5. e = claims[pos + 1] /\ e \in Entries \cup {Empty, Moved}
  BY <1>1, <1>2, <1>3, <1>4 DEF Kept
<1>0. PICK n \in Nat : n = Len(reader.got)
  BY <1>3, LenProperties DEF ReaderStates
<1> DEFINE got == IF e = Empty THEN reader.got ELSE Append(reader.got, e)
<1>6. /\ reader.left - 1 \in Nat /\ reader.index + 1 \in Nat /\ reader.index \in Nat
      /\ reader.got \in Seq(Entries \cup {Moved})
      /\ 1..reader.index \subseteq 1..(reader.index + 1)
      /\ reader.index + 1 \in 1..(reader.index + 1)
      /\ \A k \in 1..reader.index : k < reader.index + 1
      /\ (reader.index + 1) + (reader.left - 1) <= head - tail
  BY <1>2, <1>3 DEF ReaderStates
<1>7. got \in Seq(Entries \cup {Moved})
  BY <1>5, <1>6, AppendProperties
<1>8. /\ reader' \in ReaderStates /\ reader'.at = "peek" /\ reader'.head = reader.head
      /\ reader'.index = reader.index + 1 /\ reader'.left = reader.left - 1
      /\ reader'.got = got
  <2> HIDE DEF got
  <2>1. reader' = [reader EXCEPT !.at = "peek", !.index = reader.index + 1,
                                 !.left = reader.left - 1, !.got = got]
    BY <1>1 DEF got
  <2> QED
    BY <1>3, <1>6, <1>7, <2>1 DEF ReaderStates
<1>9. /\ n \in Nat /\ DOMAIN reader.got = 1..n
      /\ DOMAIN got = 1..n \/ DOMAIN got = 1..(n + 1)
      /\ \A i \in 1..n : got[i] = reader.got[i]
      /\ DOMAIN got = 1..(n + 1) /\ n + 1 \in DOMAIN got => got[n + 1] = e
  BY <1>0, <1>5, <1>6, AppendProperties, LenProperties
<1>10. \A i \in 1..n : Copies(i) \subseteq Copies(i)' /\ Copies(i) \subseteq 1..reader.index
  BY <1>2, <1>6, <1>8, <1>9 DEF Copies
<1>11. n + 1 \in DOMAIN got => reader.index + 1 \in Copies(n + 1)'
  <2>1. tail + (reader.index + 1) = pos + 1
    BY <1>1, <1>3, <1>6
  <2> QED
    BY <1>2, <1>5, <1>6, <1>8, <1>9, <2>1 DEF Copies
<1>12. ASSUME NEW i \in DOMAIN got
       PROVE  Copies(i)' # {}
  <2>1. CASE i \in 1..n
    BY <1>9, <1>10, <2>1 DEF Copied
  <2>2. CASE i = n + 1
    BY <1>11, <1>12, <2>2
  <2> QED
    BY <1>9, <1>12, <2>1, <2>2
<1>13. ASSUME NEW i \in DOMAIN got, NEW j \in DOMAIN got, i < j
       PROVE  \E k \in Copies(i)', l \in Copies(j)' : k < l
  <2>1. i \in 1..n
    BY <1>9, <1>13
  <2>2. CASE j \in 1..n
    BY <1>9, <1>10, <1>13, <2>1, <2>2 DEF Copied
  <2>3. CASE j = n + 1
    <3>1. PICK k \in Copies(i) : TRUE
      BY <1>9, <2>1 DEF Copied
    <3> QED
      BY <1>6, <1>10, <1>11, <1>13, <2>1, <2>3, <3>1
  <2> QED
    BY <1>9, <2>2, <2>3
<1>14. Copied'
  <2> HIDE DEF got
  <2> QED
    BY <1>2, <1>6, <1>8, <1>12, <1>13 DEF Copied
<1> QED
  BY <1>2, <1>3, <1>8, <1>14, ReadAside

-----------------------------------------------------------------------------
(* The invariant, and what is said of the store.                           *)

\* A ring that is created has every position of its window free.
LEMMA RingInit ==
  ASSUME Init
  PROVE  Ring
<1>1. \A pos \in Nat : Slot(pos) \in Slots /\ (pos < Capacity => Slot(pos) = pos)
  <2>1. ASSUME NEW pos \in Nat, pos < Capacity
        PROVE  pos % Capacity = pos
    <3>1. pos \div Capacity \in Nat /\ pos = Capacity * (pos \div Capacity) + (pos % Capacity)
          /\ pos % Capacity \in 0..(Capacity - 1)
      BY Division, RingAssumption
    <3>2. pos \div Capacity >= 1 => Capacity * (pos \div Capacity) >= Capacity
      BY <3>1, Multiple, RingAssumption
    <3>3. pos \div Capacity = 0 => Capacity * (pos \div Capacity) = 0
      BY RingAssumption
    <3> QED
      BY <2>1, <3>1, <3>2, <3>3, RingAssumption
  <2> QED
    BY <2>1, SlotInSlots DEF Slot
<1>2. First = 0 /\ Window = 0..(Capacity - 1) /\ Slots = 0..(Capacity - 1)
  BY RingAssumption DEF Init, First, Window, Slots, NoReader
<1>3. \A p \in Producers : ~Writing(p) /\ push[p] = [at |-> "idle", head |-> 0, nth |-> 0]
  BY DEF Init, Writing
<1>4. Types
  BY <1>2, RingAssumption
     DEF Init, Types, PushStates, ReaderStates, NoReader
<1>5. Bounds
  BY <1>2, <1>3, RingAssumption DEF Init, Bounds, NoReader
<1>6. Turns
  BY <1>1, <1>2, RingAssumption DEF Init, Turns, Unpublished
<1>7. Owned
  BY <1>3 DEF Owned
<1>8. Kept /\ Copied
  BY <1>2 DEF Init, Kept, Copied, NoReader
<1> QED
  BY <1>4, <1>5, <1>6, <1>7, <1>8 DEF Ring

\* Nothing changes in a stutter.
LEMMA RingStutter ==
  ASSUME Ring, UNCHANGED vars
  PROVE  Ring'
<1>1. First' = First /\ Window' = Window
  BY DEF vars, First, Window
<1>2. \A pos : Unpublished(pos)' <=> Unpublished(pos)
  BY DEF vars, Unpublished, Writing
<1>3. Types' /\ Bounds'
  BY <1>1 DEF Ring, vars, Types, Bounds
<1>4. Turns' /\ Kept'
  BY <1>1, <1>2 DEF Ring, vars, Turns, Kept
<1>5. Owned'
  BY DEF Ring, vars, Owned, Writing, Entry
<1>6. Copied'
  BY DEF Ring, vars, Copied, Copies, Unpublished, Writing
<1> QED
  BY <1>3, <1>4, <1>5, <1>6 DEF Ring

\* Every step keeps the ring, if it has more than one slot.
LEMMA RingNext ==
  ASSUME Ring, Capacity > 1, [Next]_vars
  PROVE  Ring'
<1>1. CASE UNCHANGED vars
  BY <1>1, RingStutter
<1>2. ASSUME NEW p \in Producers,
             StartPush(p) \/ Look(p) \/ Claim(p) \/ Write(p) \/ Publish(p)
      PROVE  Ring'
  BY <1>2, RingStartPush, RingLook, RingClaim, RingWrite, RingPublish
<1>3. CASE StartClear \/ Pop \/ Take \/ Free \/ StartSnapshot \/ Peek \/ Copy \/ EndSnapshot
  BY <1>3, RingStart, RingPop, RingTake, RingFree, RingPeek, RingCopy
<1> QED
  BY <1>1, <1>2, <1>3 DEF Next

\* A part of a sequence, from behind the first m elements to the n-th.
LEMMA SubSeqIs ==
  ASSUME NEW S, NEW s \in Seq(S), NEW m \in Nat, NEW n \in Nat, m <= n, n <= Len(s)
  PROVE  /\ SubSeq(s, m + 1, n) \in Seq(S) /\ Len(SubSeq(s, m + 1, n)) = n - m
         /\ DOMAIN SubSeq(s, m + 1, n) = 1..(n - m)
         /\ \A i \in 1..(n - m) : SubSeq(s, m + 1, n)[i] = s[m + i]
<1>1. SubSeq(s, m + 1, n) = [i \in 1..(n - m) |-> s[m + i]]
  OBVIOUS
<1>2. \A i \in 1..(n - m) : s[m + i] \in S
  BY ElementOfSeq
<1> QED
  BY <1>1, <1>2

\* What is held, by position.
LEMMA HeldIs ==
  ASSUME Types, Bounds
  PROVE  /\ Held = SubSeq(claims, First + 1, head)
         /\ Held \in Seq(Entries) /\ Len(Held) = head - First
         /\ DOMAIN Held = 1..(head - First)
         /\ \A k \in 1..(head - First) : Held[k] = claims[First + k]
<1>1. /\ claims \in Seq(Entries) /\ Len(claims) = head /\ First \in Nat /\ head \in Nat
      /\ First <= head /\ tail \in Nat
  BY DEF Types, Bounds, First
<1>2. Held = SubSeq(claims, First + 1, head)
  BY <1>1 DEF Held, First
<1> QED
  BY <1>1, <1>2, SubSeqIs

\* The ring owns its slots, lets no pop spin, overwrites nothing, and gives a
\* snapshot in order.
LEMMA RingIsSafe ==
  ASSUME Ring
  PROVE  TypeOK /\ SlotOwned /\ NeverSpins /\ NothingOverwritten /\ SnapshotInOrder
<1> USE DEF Ring
<1>1. /\ head \in Nat /\ tail \in Nat /\ First \in Nat /\ tail <= head
      /\ head <= First + Capacity /\ tail \in {First, First + 1}
      /\ reader \in ReaderStates
  BY InWindow DEF Types, Bounds
<1>2. TypeOK
  <2>1. head - tail <= Capacity
    BY <1>1, RingAssumption
  <2>2. \A s \in Slots : buffer[s] \in Entries \cup {Empty, Moved}
                      /\ sequences[s] \in 0..(head + Capacity)
    BY <1>1, RingAssumption DEF Types, Bounds
  <2>3. \A p \in Producers : push[p].head \in 0..head
    BY <1>1 DEF Types, Bounds, PushStates
  <2> QED
    BY <1>1, <2>1, <2>2, <2>3 DEF TypeOK, Types
<1>3. SlotOwned
  <2> SUFFICES ASSUME NEW p \in Producers, Writing(p)
               PROVE  /\ ~Reading(Slot(push[p].head))
                      /\ \A q \in Producers \ {p} :
                           Writing(q) => Slot(push[q].head) # Slot(push[p].head)
    BY DEF SlotOwned
  <2>1. \A q \in Producers : Writing(q) => push[q].head \in tail..(head - 1)
    BY InWindow
  <2>2. ASSUME NEW q \in Producers \ {p}, Writing(q)
        PROVE  Slot(push[q].head) # Slot(push[p].head)
    <3>1. push[q].head # push[p].head
      BY <2>2 DEF Owned
    <3> QED
      BY <1>1, <2>1, <2>2, <3>1, SlotOnce, RingAssumption
  <2>3. reader.at = "copy" => Slot(push[p].head) # Slot(tail + reader.index)
    <3>1. reader.at = "copy" => /\ tail + reader.index \in tail..(head - 1)
                                /\ tail + reader.index # push[p].head
      BY <1>1 DEF Copied, ReaderStates, Unpublished
    <3> QED
      BY <1>1, <2>1, <3>1, SlotOnce, RingAssumption
  <2>4. reader.at \in {"take", "free"} => Slot(push[p].head) # Slot(tail - 1)
    <3>1. reader.at \in {"take", "free"} => tail - 1 = First
      BY <1>1 DEF First
    <3> QED
      BY <1>1, <2>1, <3>1, SlotOnce, RingAssumption
  <2> QED
    BY <2>2, <2>3, <2>4 DEF Reading
<1>4. NeverSpins
  <2>1. reader.at = "pop" => tail \in Window
    BY <1>1, RingAssumption DEF First, Window
  <2> QED
    BY <1>1, <2>1, TurnOf DEF NeverSpins
<1>5. NothingOverwritten
  <2> SUFFICES ASSUME NEW pos \in tail..(head - 1),
                      \A p \in Producers : Writing(p) => push[p].head # pos
               PROVE  buffer[Slot(pos)] = claims[pos + 1]
    BY DEF NothingOverwritten
  <2>1. pos \in First..(head - 1) /\ ~Unpublished(pos)
    BY <1>1 DEF Unpublished
  <2>2. reader.at = "free" => pos # First
    BY <1>1 DEF First
  <2> QED
    BY <2>1, <2>2 DEF Kept
<1>6. SnapshotInOrder
  <2>1. ASSUME NEW i \in DOMAIN reader.got, NEW k \in Copies(i)
        PROVE  k \in DOMAIN Held /\ Held[k] = reader.got[i]
    <3>1. reader.at \in {"peek", "copy"}
      BY <2>1 DEF Copied
    <3>2. First = tail /\ k \in 1..(head - First) /\ claims[tail + k] = reader.got[i]
      BY <1>1, <3>1 DEF First, Copied, ReaderStates, Copies
    <3> QED
      BY <3>2, HeldIs
  <2>2. ToSet(reader.got) \subseteq ToSet(Held)
    BY <2>1 DEF Copied, ToSet
  <2>3. ASSUME NEW i \in DOMAIN reader.got, NEW j \in DOMAIN reader.got, i < j
        PROVE  \E k, l \in DOMAIN Held :
                 k < l /\ Held[k] = reader.got[i] /\ Held[l] = reader.got[j]
    <3>1. PICK k \in Copies(i), l \in Copies(j) : k < l
      BY <2>3 DEF Copied
    <3> QED
      BY <2>1, <3>1
  <2> QED
    BY <2>2, <2>3 DEF SnapshotInOrder
<1> QED
  BY <1>2, <1>3, <1>4, <1>5, <1>6

-----------------------------------------------------------------------------
(* The ring implements the bounded log.                                    *)

\* What is held after a step.
LEMMA HeldThen ==
  ASSUME Ring'
  PROVE  Held' = SubSeq(claims', First' + 1, head')
<1>1. tail' \in Nat
  BY DEF Ring, Types
<1>2. /\ reader'.at \in {"take", "free"} => First' = tail' - 1 /\ Held' = SubSeq(claims', tail', head')
      /\ reader'.at \notin {"take", "free"} => First' = tail' /\ Held' = SubSeq(claims', tail' + 1, head')
  BY DEF First, Held
<1>3. \A n \in Nat : (n - 1) + 1 = n
  OBVIOUS
<1> QED
  BY <1>1, <1>2, <1>3

\* What is held depends on three things only.
LEMMA HeldSame ==
  ASSUME Ring, Ring', UNCHANGED <<claims, head>>, First' = First
  PROVE  Held' = Held
<1>1. Held = SubSeq(claims, First + 1, head)
  BY HeldIs DEF Ring
<1>2. Held' = SubSeq(claims', First' + 1, head')
  BY HeldThen
<1> QED
  BY <1>1, <1>2

\* An entry is claimed: it is appended, and there was room.
LEMMA ClaimAppends ==
  ASSUME Ring, Ring', NEW p \in Producers, push[p].at = "claim", push[p].head = head,
         head' = head + 1, claims' = Append(claims, Entry(p)),
         UNCHANGED <<tail, reader, lost>>
  PROVE  Log!Append1(Entry(p)) /\ Entry(p) \in Entries
<1>1. /\ claims \in Seq(Entries) /\ Len(claims) = head /\ First \in Nat /\ head \in Nat
      /\ First <= head /\ head < First + Capacity /\ tail \in Nat
      /\ push[p] \in PushStates /\ push[p].nth > 0
  BY DEF Ring, Types, Bounds, First
<1>2. First' = First
  BY DEF First
<1>3. Entry(p) \in Entries
  BY <1>1, RingAssumption DEF Entry, Entries, PushStates
<1>4. /\ Held \in Seq(Entries) /\ Len(Held) = head - First
      /\ \A k \in 1..(head - First) : Held[k] = claims[First + k]
  BY HeldIs DEF Ring
<1>5. Held' = SubSeq(claims', First + 1, head + 1)
  BY <1>2, HeldThen
<1>6. /\ \A i \in 1..(head + 1 - First) : Held'[i] = claims'[First + i]
      /\ Len(Held') = head + 1 - First /\ Held' \in Seq(Entries)
  <2>1. claims' \in Seq(Entries) /\ Len(claims') = head + 1
    BY <1>1, <1>3, AppendProperties
  <2>2. PICK n \in Nat : n = head + 1
    BY <1>1
  <2>3. First \in Nat /\ First <= n /\ n <= Len(claims')
    BY <1>1, <2>1, <2>2
  <2>4. /\ SubSeq(claims', First + 1, n) \in Seq(Entries)
        /\ Len(SubSeq(claims', First + 1, n)) = n - First
        /\ \A i \in 1..(n - First) : SubSeq(claims', First + 1, n)[i] = claims'[First + i]
    BY <2>1, <2>3, SubSeqIs
  <2>5. Held' = SubSeq(claims', First + 1, n)
    BY <1>1, <1>5, <2>2
  <2>6. n - First = head + 1 - First
    BY <1>1, <2>2
  <2> QED
    BY ONLY <2>4, <2>5, <2>6
<1>7. Held' = Append(Held, Entry(p))
  <2>1. /\ Append(Held, Entry(p)) \in Seq(Entries)
        /\ Len(Append(Held, Entry(p))) = head + 1 - First
        /\ \A k \in 1..(head - First) : Append(Held, Entry(p))[k] = Held[k]
        /\ Append(Held, Entry(p))[head - First + 1] = Entry(p)
    BY <1>1, <1>3, <1>4, AppendProperties
  <2>2. \A i \in 1..head : claims'[i] = claims[i]
    BY <1>1, <1>3, AppendProperties
  <2>3. claims'[head + 1] = Entry(p)
    BY <1>1, <1>3, AppendProperties
  <2>4. ASSUME NEW i \in 1..(head + 1 - First)
        PROVE  Held'[i] = Append(Held, Entry(p))[i]
    <3>1. CASE i = head - First + 1
      <4>1. First + i = head + 1
        BY <1>1, <3>1
      <4> QED
        BY <1>6, <2>1, <2>3, <3>1, <4>1
    <3>2. CASE i # head - First + 1
      <4>1. i \in 1..(head - First) /\ First + i \in 1..head
        BY <1>1, <3>2
      <4> QED
        BY <1>4, <1>6, <2>1, <2>2, <4>1
    <3> QED
      BY <3>1, <3>2
  <2> QED
    BY <1>6, <2>1, <2>4, SeqEqual
<1>8. Len(Held) < Capacity
  BY <1>1, <1>4, RingAssumption
<1> QED
  BY <1>3, <1>7, <1>8 DEF Log!Append1

\* The first position is freed: its entry is removed.
LEMMA FreeRemoves ==
  ASSUME Ring, Ring', Free
  PROVE  Log!Remove
<1>1. /\ reader.at = "free" /\ reader' = [reader EXCEPT !.at = "pop"] /\ reader \in ReaderStates
      /\ UNCHANGED <<head, tail, claims, lost>>
  BY DEF Free, Ring, Types
<1>2. First' = First + 1 /\ First \in Nat /\ First < head /\ head \in Nat /\ tail = First + 1
  BY <1>1 DEF First, ReaderStates, Ring, Types, Bounds
<1>3. /\ Held \in Seq(Entries) /\ Len(Held) = head - First
      /\ \A k \in 1..(head - First) : Held[k] = claims[First + k]
  BY HeldIs DEF Ring
<1>4. Held' = SubSeq(claims, First + 2, head)
  <2>1. Held' = SubSeq(claims', First' + 1, head')
    BY HeldThen
  <2>2. First + 1 + 1 = First + 2
    BY <1>2
  <2> QED
    BY <1>1, <1>2, <2>1, <2>2
<1>5. /\ Held # <<>> /\ Tail(Held) \in Seq(Entries) /\ Len(Tail(Held)) = head - First - 1
      /\ \A i \in 1..(head - First - 1) : Tail(Held)[i] = Held[i + 1]
  BY <1>2, <1>3, HeadTailProperties
<1>6. /\ claims \in Seq(Entries) /\ Len(claims) = head
      /\ Held' = [i \in 1..(head - First - 1) |-> claims[First + 1 + i]]
  <2>1. claims \in Seq(Entries) /\ Len(claims) = head
    BY DEF Ring, Types
  <2>2. SubSeq(claims, First + 2, head) = [i \in 1..(head - First - 1) |-> claims[First + 1 + i]]
    BY <1>2, <2>1
  <2> QED
    BY <1>4, <2>1, <2>2
<1>7. \A i \in 1..(head - First - 1) : Tail(Held)[i] = claims[First + 1 + i]
  <2> TAKE i \in 1..(head - First - 1)
  <2>1. i + 1 \in 1..(head - First) /\ First + (i + 1) = First + 1 + i
    BY <1>2
  <2> QED
    BY <1>3, <1>5, <2>1
<1>8. Held' \in Seq(Entries) /\ Len(Held') = head - First - 1
  <2>1. \A i \in 1..(head - First - 1) : claims[First + 1 + i] \in Entries
    BY <1>2, <1>6, ElementOfSeq
  <2> QED
    BY <1>2, <1>6, <2>1
<1>9. Held' = Tail(Held)
  BY <1>5, <1>6, <1>7, <1>8, SeqEqual
<1> QED
  BY <1>1, <1>5, <1>9 DEF Log!Remove

\* Every step of the ring is one of the bounded log, or none.
LEMMA RingStep ==
  ASSUME Ring, Ring', Capacity > 1, [Next]_vars
  PROVE  [Log!Next]_<<Held, lost>>
<1>1. CASE UNCHANGED vars
  BY <1>1 DEF vars, Held
<1>2. ASSUME NEW p \in Producers, StartPush(p) \/ Write(p) \/ Publish(p)
      PROVE  UNCHANGED <<Held, lost>>
  BY <1>2 DEF StartPush, Write, Publish, Held
<1>3. ASSUME NEW p \in Producers, Look(p)
      PROVE  [Log!Next]_<<Held, lost>>
  <2>1. UNCHANGED <<head, tail, reader, claims>>
    BY <1>3 DEF Look
  <2>2. UNCHANGED Held
    BY <2>1 DEF Held
  <2>3. CASE lost' = lost
    BY <2>2, <2>3
  <2>4. CASE lost' # lost
    <3>1. head = First + Capacity /\ lost' = lost \cup {Entry(p)}
      BY <1>3, <2>4, RingLook
    <3>2. Len(Held) = Capacity
      BY <3>1, HeldIs, RingAssumption DEF Ring, Types, Bounds
    <3>3. Entry(p) \in Entries
      <4>1. push[p] \in PushStates /\ push[p].nth > 0
        BY <1>3 DEF Look, Ring, Types, Bounds
      <4> QED
        BY <4>1, RingAssumption DEF PushStates, Entry, Entries
    <3> QED
      BY <2>2, <3>1, <3>2, <3>3 DEF Log!Next, Log!Drop
  <2> QED
    BY <2>3, <2>4
<1>4. ASSUME NEW p \in Producers, Claim(p)
      PROVE  [Log!Next]_<<Held, lost>>
  <2>1. CASE UNCHANGED <<head, claims>>
    BY <1>4, <2>1 DEF Claim, Held
  <2>2. CASE push[p].head = head /\ head' = head + 1 /\ claims' = Append(claims, Entry(p))
    <3>1. Log!Append1(Entry(p)) /\ Entry(p) \in Entries
      BY <1>4, <2>2, ClaimAppends DEF Claim
    <3> QED
      BY <3>1 DEF Log!Next
  <2> QED
    BY <1>4, <2>1, <2>2 DEF Claim
<1>5. CASE Free
  BY <1>5, FreeRemoves DEF Log!Next
<1>6. CASE StartClear \/ Pop \/ Take \/ StartSnapshot \/ Peek \/ Copy \/ EndSnapshot
  <2>1. UNCHANGED <<claims, head, lost>>
    BY <1>6 DEF StartClear, Pop, Take, StartSnapshot, Peek, Copy, EndSnapshot
  <2>2. reader \in ReaderStates /\ tail \in Nat
    BY DEF Ring, Types
  <2>3. First' = First
    <3>1. CASE Pop
      <4>1. First = tail
        BY <3>1 DEF Pop, First
      <4>2. \/ tail' = tail + 1 /\ reader'.at = "take"
            \/ tail' = tail /\ reader'.at = "none"
        BY <2>2, <3>1 DEF Pop, ReaderStates, NoReader
      <4>3. (tail + 1) - 1 = tail
        BY <2>2
      <4> QED
        BY <4>1, <4>2, <4>3 DEF First
    <3>2. CASE Take
      BY <2>2, <3>2 DEF Take, First, ReaderStates
    <3>3. CASE StartClear \/ StartSnapshot \/ EndSnapshot
      <4>1. reader.at \in {"none", "peek"} /\ tail' = tail
        BY <3>3 DEF StartClear, StartSnapshot, EndSnapshot
      <4>2. reader'.at \in {"none", "pop", "peek"}
        <5>1. CASE StartSnapshot
          BY <5>1 DEF StartSnapshot
        <5>2. CASE StartClear \/ EndSnapshot
          BY <5>2 DEF StartClear, EndSnapshot, NoReader
        <5> QED
          BY <3>3, <5>1, <5>2
      <4> QED
        BY <4>1, <4>2 DEF First
    <3>4. CASE Peek \/ Copy
      <4>1. reader.at \in {"peek", "copy"} /\ reader'.at \in {"peek", "copy"} /\ tail' = tail
        BY <2>2, <3>4 DEF Peek, Copy, ReaderStates
      <4> QED
        BY <4>1 DEF First
    <3> QED
      BY <1>6, <3>1, <3>2, <3>3, <3>4
  <2> QED
    BY <2>1, <2>3, HeldSame
<1> QED
  BY <1>1, <1>2, <1>3, <1>4, <1>5, <1>6 DEF Next

\* The log starts empty.
LEMMA RingStarts ==
  ASSUME Init
  PROVE  Log!Init
<1>1. Ring /\ head = 0 /\ First = 0 /\ lost = {}
  BY RingInit DEF Init, First, NoReader
<1>2. Held \in Seq(Entries) /\ Len(Held) = 0
  BY <1>1, HeldIs DEF Ring
<1> QED
  BY <1>1, <1>2, EmptySeq DEF Log!Init

\* Positions never run apart by more than the slots there are, and every thread
\* knows no position ahead of head_, for any number of slots but one.
THEOREM StoreTypes ==
  ASSUME Capacity > 1
  PROVE  Spec => []TypeOK
<1>1. Init => Ring
  BY RingInit
<1>2. Ring /\ [Next]_vars => Ring'
  BY RingNext
<1>3. Ring => TypeOK
  BY RingIsSafe
<1> QED
  BY <1>1, <1>2, <1>3, PTL DEF Spec

\* The log store is a bounded queue that drops what does not fit: no slot is two
\* threads' at a time, no pop spins, nothing is overwritten, a snapshot is in
\* order, and every step is one of BoundedLog; for any number of slots but one.
THEOREM StoreImplementsBoundedLog ==
  ASSUME Capacity > 1
  PROVE  Spec => StoreIsBoundedLog
<1>1. Init => Ring
  BY RingInit
<1>2. Ring /\ [Next]_vars => Ring'
  BY RingNext
<1>3. Ring => SlotOwned /\ NeverSpins /\ NothingOverwritten /\ SnapshotInOrder
  BY RingIsSafe
<1>4. Init => Log!Init
  BY RingStarts
<1>5. Ring /\ Ring' /\ [Next]_vars => [Log!Next]_<<Held, lost>>
  BY RingStep
<1> QED
  BY <1>1, <1>2, <1>3, <1>4, <1>5, PTL
     DEF Spec, StoreIsBoundedLog, ImplementsBoundedLog, Log!Spec

-----------------------------------------------------------------------------
(* The files that the entries are also written to, module Logger: for any  *)
(* threads, any size of the queue, any lines and any days.  The two        *)
(* modules are proved apart; Logger's formulas are prefixed with Files.    *)

CONSTANTS Threads, Fatal, MaxCmds, Backups, MaxLines, MaxDays, MaxOps
VARIABLES configured, enabled, cmds, writing, fs, policy, logging, ui, today, lowered, before,
          ended, ops
Files == INSTANCE Logger

\* What the proofs need to know of the constants.
LoggerAssumption ==
    /\ MaxDays \in Nat \ {0} /\ MaxCmds \in Nat /\ Backups \subseteq Nat
    /\ Files!Main \notin Threads

-----------------------------------------------------------------------------
(* The inductive invariant.                                                *)

Days == 1..MaxDays
LogLines == [by : Threads, nth : Nat, level : {"info", "error", "fatal"}]
Commands == [is : {"line"}, line : LogLines, path : Days]
            \cup [is : {"reopen"}, path : 0..MaxDays]
            \cup [is : {"barrier"}, by : Threads] \cup [is : {"shutdown"}]
Calls == [at : {Files!Idle, "path", "queue", "direct", "barrier", "wait", "exit"},
          level : {"info", "error", "fatal"}, path : 0..MaxDays]

\* The files, whatever was written.  The buffer is that of the open file.
FilesOK(f) ==
    /\ f = [open |-> f.open, buffer |-> f.buffer, gone |-> f.gone, disk |-> f.disk]
    /\ f.open \in 0..MaxDays /\ f.buffer \in Seq(LogLines)
    /\ f.gone \subseteq Days \X LogLines
    /\ DOMAIN f.disk \subseteq Days \X Nat
    /\ \A n \in DOMAIN f.disk : f.disk[n] \in Seq(LogLines)
    /\ f.open = Files!NoFile => f.buffer = <<>>
    /\ f.open # Files!NoFile => Files!Base(f) \in DOMAIN f.disk

\* All lines come before all others.
AllEarly(A, B) == \A a \in A, b \in B : Files!Early(a, b)
InOrder(s) == \A i, j \in DOMAIN s : i < j => Files!Early(s[i], s[j])

\* The files have the lines of a day in order, the buffer goes on from them.
Ordered(f) ==
    /\ InOrder(f.buffer)
    /\ \A n \in DOMAIN f.disk :
         /\ InOrder(f.disk[n])
         /\ n[1] = f.open => AllEarly(Files!ToSet(f.disk[n]), Files!ToSet(f.buffer))
         /\ \A m \in DOMAIN f.disk : m[1] = n[1] /\ m[2] > n[2] =>
              AllEarly(Files!ToSet(f.disk[m]), Files!ToSet(f.disk[n]))

\* There are no more backups than the last rotation left, and what is gone is
\* older than what the files of its day have.
Oldest(f, backups) ==
    /\ \A n \in DOMAIN f.disk : n[2] <= backups
    /\ \A g \in f.gone :
         /\ g[1] = f.open => AllEarly({g[2]}, Files!ToSet(f.buffer))
         /\ \A n \in DOMAIN f.disk : n[1] = g[1] => AllEarly({g[2]}, Files!ToSet(f.disk[n]))

\* The lines that are written out, and those with the buffer.
DiskLines(f) == UNION {Files!ToSet(f.disk[n]) : n \in DOMAIN f.disk}
GoneLines(f) == {g[2] : g \in f.gone}
Safe(f) == DiskLines(f) \cup GoneLines(f)
LinesOf(f) == Safe(f) \cup Files!ToSet(f.buffer)

\* What the writer has yet to do, with the command it has taken.
QueueOf(cmd, rest) == IF cmd.is = Files!Idle THEN rest ELSE <<cmd>> \o rest
Queue == QueueOf(writing, cmds)
InQueue(a) == \E i \in DOMAIN Queue : Queue[i].is = "line" /\ Queue[i].line = a
OnItsWay(a) == InQueue(a) \/ a \in LinesOf(fs)

\* The number of a line was given to its thread, which has gone on unless the line
\* is on its way to the queue.
Logged(calls, a) ==
    IF calls[a.by].call.at \in {"path", "queue", "direct"}
    THEN a.nth < calls[a.by].nth ELSE a.nth <= calls[a.by].nth

\* The lines are in the files, or the writer gets to them before its i-th command.
Drained(f, queue, lines, i) ==
    \A a \in lines : \/ a \in LinesOf(f)
                     \/ \E j \in DOMAIN queue : j < i /\ queue[j].is = "line" /\ queue[j].line = a

\* The lines among the commands.
LineCount(s) == Cardinality({i \in DOMAIN s : s[i].is = "line"})

LogTypes ==
    /\ {configured, enabled, lowered} \subseteq BOOLEAN
    /\ cmds \in Seq(Commands) /\ writing \in Commands \cup {Files!NoCmd}
    /\ policy \in [size : Nat, backups : Nat]
    /\ logging \in [Threads -> [nth : Nat, call : Calls]]
    /\ today \in Days
    /\ before \in [Threads \cup {Files!Main} -> SUBSET LogLines]
    /\ LineCount(cmds) <= MaxCmds

\* A call that has read the path has one; only errors are written directly.
CallsOK ==
    \A t \in Threads :
      /\ logging[t].call.at \in {"queue", "direct"} => logging[t].call.path # Files!NoFile
      /\ logging[t].call.at = "direct" => logging[t].call.level # "info"

\* The lines in the queue go on from those in the files.
QueueInOrder ==
    \A i \in DOMAIN Queue : Queue[i].is = "line" =>
      /\ Logged(logging, Queue[i].line)
      /\ \A a \in LinesOf(fs) : Files!Early(a, Queue[i].line)
      /\ \A j \in DOMAIN Queue : i < j /\ Queue[j].is = "line" =>
           Files!Early(Queue[i].line, Queue[j].line)

\* Who waits for a barrier waits for one, and all it waits for is before it.
BarriersOK ==
    \A i \in DOMAIN Queue :
      /\ Queue[i].is = "barrier" =>
           /\ logging[Queue[i].by].call.at = "wait"
           /\ \A j \in DOMAIN Queue :
                Queue[j].is = "barrier" /\ Queue[j].by = Queue[i].by => i = j
           /\ Drained(fs, Queue, before[Queue[i].by], i)
      /\ Queue[i].is = "shutdown" => ended # "no" /\ Drained(fs, Queue, before[Files!Main], i)

\* A fatal error's own line, at the steps of its call.
OwnLine ==
    \A t \in Threads :
      /\ logging[t].call.at = "barrier" => OnItsWay(Files!LineOf(t))
      /\ logging[t].call.at = "wait" => Files!LineOf(t) \in before[t] \cup Safe(fs)

Ends ==
    /\ \A t \in Threads : logging[t].call.at = "exit" =>
            before[t] \cup {Files!LineOf(t)} \subseteq Safe(fs)
    /\ ended = "closed" => before[Files!Main] \subseteq Safe(fs)

LogInv ==
    /\ LogTypes /\ CallsOK
    /\ FilesOK(fs) /\ Ordered(fs)
    /\ ~lowered => Oldest(fs, policy.backups)
    /\ \A a \in LinesOf(fs) : Logged(logging, a)
    /\ QueueInOrder /\ BarriersOK /\ OwnLine /\ Ends

-----------------------------------------------------------------------------
(* Lines in a row.                                                         *)

\* What two rows of lines, one after the other, hold, and when they are in order.
LEMMA TwoRows ==
    ASSUME NEW X, NEW s \in Seq(X), NEW q \in Seq(X)
    PROVE  /\ s \o q \in Seq(X)
           /\ Files!ToSet(s \o q) = Files!ToSet(s) \cup Files!ToSet(q)
           /\ InOrder(s) /\ InOrder(q)
                /\ AllEarly(Files!ToSet(s), Files!ToSet(q)) => InOrder(s \o q)
<1>1. /\ Len(s) \in Nat /\ Len(q) \in Nat /\ DOMAIN s = 1 .. Len(s) /\ DOMAIN q = 1 .. Len(q)
      /\ s \o q \in Seq(X) /\ Len(s \o q) = Len(s) + Len(q)
      /\ DOMAIN (s \o q) = 1 .. Len(s) + Len(q)
  OBVIOUS
<1>2. \A i \in 1 .. Len(s) + Len(q) :
         (s \o q)[i] = IF i <= Len(s) THEN s[i] ELSE q[i - Len(s)]
  OBVIOUS
<1>3. \A i \in DOMAIN s : i \in DOMAIN (s \o q) /\ (s \o q)[i] = s[i]
  BY <1>1, <1>2
<1>4. \A i \in DOMAIN q : i + Len(s) \in DOMAIN (s \o q) /\ (s \o q)[i + Len(s)] = q[i]
  BY <1>1, <1>2
<1>5. \A j \in DOMAIN (s \o q) :
         \/ j \in DOMAIN s /\ (s \o q)[j] = s[j]
         \/ j > Len(s) /\ j - Len(s) \in DOMAIN q /\ (s \o q)[j] = q[j - Len(s)]
  BY <1>1, <1>2
<1>6. Files!ToSet(s \o q) = Files!ToSet(s) \cup Files!ToSet(q)
  <2>1. ASSUME NEW x \in Files!ToSet(s \o q) PROVE x \in Files!ToSet(s) \cup Files!ToSet(q)
    <3>1. PICK j \in DOMAIN (s \o q) : x = (s \o q)[j]
      BY <2>1 DEF Files!ToSet
    <3> QED
      BY <1>5, <3>1 DEF Files!ToSet
  <2>2. ASSUME NEW x \in Files!ToSet(s) PROVE x \in Files!ToSet(s \o q)
    <3>1. PICK j \in DOMAIN s : x = s[j]
      BY <2>2 DEF Files!ToSet
    <3> QED
      BY <1>3, <3>1 DEF Files!ToSet
  <2>3. ASSUME NEW x \in Files!ToSet(q) PROVE x \in Files!ToSet(s \o q)
    <3>1. PICK j \in DOMAIN q : x = q[j]
      BY <2>3 DEF Files!ToSet
    <3> QED
      BY <1>4, <3>1 DEF Files!ToSet
  <2> QED
    BY <2>1, <2>2, <2>3
<1>7. ASSUME InOrder(s), InOrder(q), AllEarly(Files!ToSet(s), Files!ToSet(q)),
             NEW i \in DOMAIN (s \o q), NEW j \in DOMAIN (s \o q), i < j
      PROVE  Files!Early((s \o q)[i], (s \o q)[j])
  <2>1. CASE i \in DOMAIN s /\ j \in DOMAIN s
    <3>1. (s \o q)[i] = s[i] /\ (s \o q)[j] = s[j]
      BY <1>3, <2>1
    <3> QED
      BY <1>7, <2>1, <3>1 DEF InOrder
  <2>2. CASE i \in DOMAIN s /\ j \notin DOMAIN s
    <3>1. (s \o q)[i] \in Files!ToSet(s) /\ (s \o q)[j] \in Files!ToSet(q)
      BY <1>5, <1>3, <2>2 DEF Files!ToSet
    <3> QED
      BY <1>7, <3>1 DEF AllEarly
  <2>3. CASE i \notin DOMAIN s
    <3>1. j \notin DOMAIN s
      BY <1>1, <1>7, <2>3
    <3>2. /\ i - Len(s) \in DOMAIN q /\ j - Len(s) \in DOMAIN q /\ i - Len(s) < j - Len(s)
          /\ (s \o q)[i] = q[i - Len(s)] /\ (s \o q)[j] = q[j - Len(s)]
      BY <1>1, <1>5, <1>7, <2>3, <3>1
    <3> QED
      BY <1>7, <3>2 DEF InOrder
  <2> QED
    BY <2>1, <2>2, <2>3
<1> QED
  BY <1>1, <1>6, <1>7 DEF InOrder

\* A row of none.
LEMMA NoRow == <<>> \in Seq(LogLines) /\ Files!ToSet(<<>>) = {} /\ InOrder(<<>>)
<1>1. <<>> \in Seq(LogLines) /\ DOMAIN <<>> = {}
  OBVIOUS
<1> QED
  BY <1>1 DEF Files!ToSet, InOrder

\* A row with one more.
LEMMA OneMore ==
    ASSUME NEW X, NEW s \in Seq(X), NEW x \in X
    PROVE  /\ Append(s, x) \in Seq(X)
           /\ Files!ToSet(Append(s, x)) = Files!ToSet(s) \cup {x}
           /\ InOrder(s) /\ AllEarly(Files!ToSet(s), {x}) => InOrder(Append(s, x))
<1>1. <<x>> \in Seq(X) /\ DOMAIN <<x>> = {1} /\ <<x>>[1] = x
  OBVIOUS
<1>2. Append(s, x) = s \o <<x>>
  BY <1>1, AppendIsConcat
<1>3. Files!ToSet(<<x>>) = {x} /\ InOrder(<<x>>)
  BY <1>1 DEF Files!ToSet, InOrder
<1>6. InOrder(s) /\ AllEarly(Files!ToSet(s), {x}) => InOrder(Append(s, x))
  BY <1>1, <1>2, <1>3, TwoRows
<1>7. Append(s, x) \in Seq(X)
  OBVIOUS
<1>8. Files!ToSet(s \o <<x>>) = Files!ToSet(s) \cup Files!ToSet(<<x>>)
  BY <1>1, TwoRows
<1>9. Files!ToSet(Append(s, x)) = Files!ToSet(s) \cup {x}
  BY <1>2, <1>3, <1>8
<1> QED
  BY <1>6, <1>7, <1>9

-----------------------------------------------------------------------------
(* The files.                                                              *)

\* What an operation on the files leaves: they are in order, no line has gone
\* or come, and what was written out is.
KeptIn(f, g, backups) ==
    /\ FilesOK(g) /\ Ordered(g)
    /\ LinesOf(g) = LinesOf(f) /\ Safe(f) \subseteq Safe(g)
    /\ Oldest(f, backups) => Oldest(g, backups)

\* The buffer is written out.
LEMMA FlushedIs ==
    ASSUME LoggerAssumption, NEW f, FilesOK(f), Ordered(f), NEW backups
    PROVE  /\ KeptIn(f, Files!Flushed(f), backups)
           /\ Files!Flushed(f).buffer = <<>> /\ Files!Flushed(f).open = f.open
           /\ Safe(Files!Flushed(f)) = LinesOf(f)
<1>0. Files!ToSet(<<>>) = {} /\ InOrder(<<>>) /\ <<>> \in Seq(LogLines)
  BY NoRow
<1>1. CASE f.open = Files!NoFile
  <2>1. f.buffer = <<>> /\ Files!Flushed(f) = f
    BY <1>1 DEF FilesOK, Files!Flushed
  <2> QED
    BY <1>0, <2>1 DEF KeptIn, LinesOf
<1>2. CASE f.open # Files!NoFile
  <2> DEFINE g == Files!Flushed(f)
             b == Files!Base(f)
             d == [n \in DOMAIN f.disk |-> IF n = b THEN f.disk[b] \o f.buffer ELSE f.disk[n]]
  <2>1. b \in DOMAIN f.disk /\ DOMAIN f.disk \cup {b} = DOMAIN f.disk
    BY <1>2 DEF FilesOK
  <2>2. f = [open |-> f.open, buffer |-> f.buffer, gone |-> f.gone, disk |-> f.disk]
    BY DEF FilesOK
  <2>3. /\ g = [open |-> f.open, buffer |-> <<>>, gone |-> f.gone, disk |-> d]
        /\ b = <<f.open, 0>> /\ b[1] = f.open /\ b[2] = 0
    BY <1>2, <2>1, <2>2 DEF Files!Flushed, Files!Put, Files!Base
  <2>4. /\ g.open = f.open /\ g.buffer = <<>> /\ g.gone = f.gone /\ DOMAIN g.disk = DOMAIN f.disk
        /\ g.disk[b] = f.disk[b] \o f.buffer
        /\ \A n \in DOMAIN f.disk : n # b => g.disk[n] = f.disk[n]
    <3>1. g.open = f.open /\ g.buffer = <<>> /\ g.gone = f.gone /\ g.disk = d
      BY <2>3
    <3> HIDE DEF g
    <3> QED
      BY <2>1, <3>1
  <2>5. /\ f.disk[b] \in Seq(LogLines) /\ f.buffer \in Seq(LogLines)
        /\ InOrder(f.disk[b]) /\ InOrder(f.buffer)
             /\ AllEarly(Files!ToSet(f.disk[b]), Files!ToSet(f.buffer))
    BY <2>1, <2>3 DEF FilesOK, Ordered
  <2>6. /\ g.disk[b] \in Seq(LogLines)
        /\ Files!ToSet(g.disk[b]) = Files!ToSet(f.disk[b]) \cup Files!ToSet(f.buffer)
        /\ InOrder(g.disk[b])
    BY <2>4, <2>5, TwoRows
  <2> HIDE DEF g, d, b
  <2>7. FilesOK(g)
    <3>1. \A n \in DOMAIN g.disk : g.disk[n] \in Seq(LogLines)
      BY <2>4, <2>6 DEF FilesOK
    <3>2. Files!Base(g) = b
      BY <2>3, <2>4 DEF Files!Base
    <3>3. g = [open |-> g.open, buffer |-> g.buffer, gone |-> g.gone, disk |-> g.disk]
      BY <2>3
    <3> QED
      BY <1>0, <2>1, <2>4, <3>1, <3>2, <3>3 DEF FilesOK
  <2>8. Ordered(g)
    <3>1. \A n \in DOMAIN g.disk : InOrder(g.disk[n])
      BY <2>4, <2>6 DEF Ordered
    <3>2. \A n \in DOMAIN g.disk : AllEarly(Files!ToSet(g.disk[n]), Files!ToSet(g.buffer))
      BY <1>0, <2>4 DEF AllEarly
    <3>3. ASSUME NEW n \in DOMAIN g.disk, NEW m \in DOMAIN g.disk, m[1] = n[1], m[2] > n[2]
          PROVE  AllEarly(Files!ToSet(g.disk[m]), Files!ToSet(g.disk[n]))
      <4>1. AllEarly(Files!ToSet(f.disk[m]), Files!ToSet(f.disk[n])) /\ n[2] \in Nat
            /\ m[2] \in Nat
        BY <2>4, <3>3 DEF Ordered, FilesOK
      <4>2. m # b
        BY <2>3, <3>3, <4>1
      <4>3. CASE n = b
        <5>1. AllEarly(Files!ToSet(f.disk[m]), Files!ToSet(f.buffer))
          BY <2>3, <2>4, <3>3, <4>3 DEF Ordered
        <5> QED
          BY <2>4, <2>6, <4>1, <4>2, <4>3, <5>1 DEF AllEarly
      <4>4. CASE n # b
        BY <2>4, <4>1, <4>2, <4>4
      <4> QED
        BY <4>3, <4>4
    <3> QED
      BY <1>0, <2>4, <3>1, <3>2, <3>3 DEF Ordered
  <2>9. Safe(g) = LinesOf(f) /\ LinesOf(g) = LinesOf(f)
    <3>1. DiskLines(g) = DiskLines(f) \cup Files!ToSet(f.buffer)
      <4>1. ASSUME NEW x \in DiskLines(g) PROVE x \in DiskLines(f) \cup Files!ToSet(f.buffer)
        <5>1. PICK n \in DOMAIN f.disk : x \in Files!ToSet(g.disk[n])
          BY <2>4, <4>1 DEF DiskLines
        <5> QED
          BY <2>4, <2>6, <5>1 DEF DiskLines
      <4>2. ASSUME NEW x \in DiskLines(f) PROVE x \in DiskLines(g)
        <5>1. PICK n \in DOMAIN f.disk : x \in Files!ToSet(f.disk[n])
          BY <4>2 DEF DiskLines
        <5>2. x \in Files!ToSet(g.disk[n]) /\ n \in DOMAIN g.disk
          BY <2>4, <2>6, <5>1
        <5> QED
          BY <5>2 DEF DiskLines
      <4>3. ASSUME NEW x \in Files!ToSet(f.buffer) PROVE x \in DiskLines(g)
        <5>1. b \in DOMAIN g.disk /\ x \in Files!ToSet(g.disk[b])
          BY <2>1, <2>4, <2>6, <4>3
        <5> QED
          BY <5>1 DEF DiskLines
      <4> QED
        BY <4>1, <4>2, <4>3
    <3>2. Safe(g) = LinesOf(f)
      <4>1. GoneLines(g) = GoneLines(f)
        BY <2>4 DEF GoneLines
      <4> QED
        BY <3>1, <4>1 DEF Safe, LinesOf
    <3> QED
      BY <1>0, <2>4, <3>2 DEF LinesOf
  <2>10. ASSUME Oldest(f, backups) PROVE Oldest(g, backups)
    <3>1. \A n \in DOMAIN g.disk : n[2] <= backups
      BY <2>4, <2>10 DEF Oldest
    <3>2. ASSUME NEW x \in g.gone, NEW n \in DOMAIN g.disk, n[1] = x[1]
          PROVE  AllEarly({x[2]}, Files!ToSet(g.disk[n]))
      <4>1. CASE n = b
        <5>1. AllEarly({x[2]}, Files!ToSet(f.disk[b])) /\ AllEarly({x[2]}, Files!ToSet(f.buffer))
          BY <2>3, <2>4, <2>10, <3>2, <4>1 DEF Oldest
        <5> QED
          BY <2>6, <4>1, <5>1 DEF AllEarly
      <4>2. CASE n # b
        BY <2>4, <2>10, <3>2, <4>2 DEF Oldest
      <4> QED
        BY <4>1, <4>2
    <3>3. \A x \in g.gone : AllEarly({x[2]}, Files!ToSet(g.buffer))
      BY <1>0, <2>4 DEF AllEarly
    <3> QED
      BY <3>1, <3>2, <3>3 DEF Oldest
  <2> QED
    BY <2>4, <2>7, <2>8, <2>9, <2>10 DEF KeptIn, LinesOf, g
<1> QED
  BY <1>1, <1>2

\* The file is closed.
LEMMA ClosedIs ==
    ASSUME LoggerAssumption, NEW f, FilesOK(f), Ordered(f), NEW backups
    PROVE  /\ KeptIn(f, Files!Closed(f), backups)
           /\ Files!Closed(f).buffer = <<>> /\ Files!Closed(f).open = Files!NoFile
           /\ Safe(Files!Closed(f)) = LinesOf(f)
<1> DEFINE h == Files!Flushed(f)
           g == Files!Closed(f)
<1>0. Files!ToSet(<<>>) = {} /\ InOrder(<<>>) /\ <<>> \in Seq(LogLines)
  BY NoRow
<1>1. KeptIn(f, h, backups) /\ h.buffer = <<>> /\ Safe(h) = LinesOf(f) /\ FilesOK(h) /\ Ordered(h)
  BY FlushedIs DEF KeptIn
<1>2. h = [open |-> h.open, buffer |-> h.buffer, gone |-> h.gone, disk |-> h.disk]
  BY <1>1 DEF FilesOK
<1>3. g = [h EXCEPT !.open = Files!NoFile]
  BY DEF Files!Closed
<1>4. /\ g = [open |-> Files!NoFile, buffer |-> h.buffer, gone |-> h.gone, disk |-> h.disk]
  BY <1>2, <1>3
<1>5. g.open = Files!NoFile /\ g.buffer = <<>> /\ g.gone = h.gone /\ g.disk = h.disk
  BY <1>1, <1>4
<1> HIDE DEF g, h
<1>6. FilesOK(g)
  <2>1. Files!NoFile \in 0 .. MaxDays
    BY DEF LoggerAssumption, Files!NoFile
  <2> QED
    BY <1>0, <1>1, <1>4, <1>5, <2>1 DEF FilesOK
<1>7. Ordered(g)
  BY <1>0, <1>1, <1>5 DEF Ordered, AllEarly
<1>8. Safe(g) = Safe(h) /\ LinesOf(g) = Safe(h)
  BY <1>0, <1>5 DEF Safe, LinesOf, DiskLines, GoneLines
<1>9. Oldest(f, backups) => Oldest(g, backups)
  <2>1. Oldest(f, backups) => Oldest(h, backups)
    BY <1>1 DEF KeptIn
  <2>2. Oldest(h, backups) => Oldest(g, backups)
    BY <1>0, <1>5 DEF Oldest, AllEarly
  <2> QED
    BY <2>1, <2>2
<1> QED
  BY <1>1, <1>5, <1>6, <1>7, <1>8, <1>9 DEF KeptIn, g, LinesOf

\* Another file is opened: it may be there.
LEMMA ReopenedIs ==
    ASSUME LoggerAssumption, NEW f, FilesOK(f), Ordered(f),
           NEW path \in 0..MaxDays, NEW backups \in Nat
    PROVE  /\ KeptIn(f, Files!Reopened(f, path), backups)
           /\ Files!Reopened(f, path).open = path /\ Files!Reopened(f, path).buffer = <<>>
<1> DEFINE h == Files!Closed(f)
           g == Files!Reopened(f, path)
           b == <<path, 0>>
<1>0. Files!ToSet(<<>>) = {} /\ InOrder(<<>>) /\ <<>> \in Seq(LogLines)
  BY NoRow
<1>1. /\ KeptIn(f, h, backups) /\ h.buffer = <<>> /\ h.open = Files!NoFile
      /\ FilesOK(h) /\ Ordered(h) /\ Safe(h) = LinesOf(f)
  BY ClosedIs DEF KeptIn
<1>2. CASE path = Files!NoFile
  BY <1>1, <1>2 DEF Files!Reopened
<1>3. CASE path # Files!NoFile
  <2>1. h = [open |-> h.open, buffer |-> h.buffer, gone |-> h.gone, disk |-> h.disk]
    BY <1>1 DEF FilesOK
  <2>2. b \in Days \X Nat /\ b[1] = path /\ b[2] = 0
    BY <1>3 DEF Days, LoggerAssumption, Files!NoFile
  <2> DEFINE d == IF b \in DOMAIN h.disk THEN h.disk ELSE Files!Put(h.disk, b, <<>>)
  <2>3. g = [h EXCEPT !.open = path, !.disk = d]
    BY <1>3 DEF Files!Reopened
  <2> HIDE DEF h
  <2>4. /\ DOMAIN d = DOMAIN h.disk \cup {b}
        /\ \A n \in DOMAIN h.disk : d[n] = h.disk[n]
        /\ b \notin DOMAIN h.disk => d[b] = <<>>
    <3>1. CASE b \in DOMAIN h.disk
      BY <3>1
    <3>2. CASE b \notin DOMAIN h.disk
      BY <3>2 DEF Files!Put
    <3> QED
      BY <3>1, <3>2
  <2> HIDE DEF d, g
  <2>5. g = [open |-> path, buffer |-> <<>>, gone |-> h.gone, disk |-> d]
    BY <1>1, <2>1, <2>3
  <2>6. g.open = path /\ g.buffer = <<>> /\ g.gone = h.gone /\ g.disk = d
    BY <2>5
  <2>7. \A n \in DOMAIN d : \/ n \in DOMAIN h.disk /\ d[n] = h.disk[n]
                            \/ n = b /\ d[n] = <<>>
    BY <2>4
  <2>8. FilesOK(g)
    <3>1. \A n \in DOMAIN d : d[n] \in Seq(LogLines)
      BY <1>0, <1>1, <2>7 DEF FilesOK
    <3>2. DOMAIN d \subseteq Days \X Nat
      BY <1>1, <2>2, <2>4 DEF FilesOK
    <3>3. Files!Base(g) = b
      BY <2>6 DEF Files!Base
    <3> QED
      BY <1>0, <1>1, <1>3, <2>4, <2>5, <2>6, <3>1, <3>2, <3>3 DEF FilesOK
  <2>9. Ordered(g)
    <3>1. \A n \in DOMAIN d : InOrder(d[n])
      BY <1>0, <1>1, <2>7 DEF Ordered
    <3>2. \A n \in DOMAIN d : AllEarly(Files!ToSet(d[n]), Files!ToSet(<<>>))
      BY <1>0 DEF AllEarly
    <3>3. ASSUME NEW n \in DOMAIN d, NEW m \in DOMAIN d, m[1] = n[1], m[2] > n[2]
          PROVE  AllEarly(Files!ToSet(d[m]), Files!ToSet(d[n]))
      <4>1. CASE d[m] = <<>> \/ d[n] = <<>>
        BY <1>0, <4>1 DEF AllEarly
      <4>2. CASE n \in DOMAIN h.disk /\ d[n] = h.disk[n] /\ m \in DOMAIN h.disk
            /\ d[m] = h.disk[m]
        BY <1>1, <3>3, <4>2 DEF Ordered
      <4> QED
        BY <2>7, <4>1, <4>2
    <3> QED
      BY <1>0, <2>6, <3>1, <3>2, <3>3 DEF Ordered
  <2>10. Safe(g) = Safe(h) /\ LinesOf(g) = LinesOf(f)
    <3>1. DiskLines(g) = DiskLines(h)
      <4>1. ASSUME NEW x \in DiskLines(g) PROVE x \in DiskLines(h)
        <5>1. PICK n \in DOMAIN d : x \in Files!ToSet(d[n])
          BY <2>6, <4>1 DEF DiskLines
        <5> QED
          BY <1>0, <2>7, <5>1 DEF DiskLines
      <4>2. ASSUME NEW x \in DiskLines(h) PROVE x \in DiskLines(g)
        <5>1. PICK n \in DOMAIN h.disk : x \in Files!ToSet(h.disk[n])
          BY <4>2 DEF DiskLines
        <5>2. n \in DOMAIN g.disk /\ x \in Files!ToSet(g.disk[n])
          BY <2>4, <2>6, <5>1
        <5> QED
          BY <5>2 DEF DiskLines
      <4> QED
        BY <4>1, <4>2
    <3>2. GoneLines(g) = GoneLines(h)
      BY <2>6 DEF GoneLines
    <3> QED
      BY <1>0, <1>1, <2>6, <3>1, <3>2 DEF Safe, LinesOf
  <2>11. ASSUME Oldest(f, backups) PROVE Oldest(g, backups)
    <3>1. Oldest(h, backups)
      BY <1>1, <2>11 DEF KeptIn
    <3>2. \A n \in DOMAIN d : n[2] <= backups
      BY <2>2, <2>7, <3>1 DEF Oldest
    <3>3. \A x \in h.gone : AllEarly({x[2]}, Files!ToSet(<<>>))
      BY <1>0 DEF AllEarly
    <3>4. ASSUME NEW x \in h.gone, NEW n \in DOMAIN d, n[1] = x[1]
          PROVE  AllEarly({x[2]}, Files!ToSet(d[n]))
      <4>1. CASE n \in DOMAIN h.disk /\ d[n] = h.disk[n]
        BY <3>1, <3>4, <4>1 DEF Oldest
      <4>2. CASE d[n] = <<>>
        BY <3>3, <4>2
      <4> QED
        BY <2>7, <4>1, <4>2
    <3> QED
      BY <2>6, <3>2, <3>3, <3>4 DEF Oldest
  <2>12. Safe(f) \subseteq Safe(g)
    BY <1>1, <2>10 DEF LinesOf
  <2> QED
    BY <2>6, <2>8, <2>9, <2>10, <2>11, <2>12 DEF KeptIn, g
<1> QED
  BY <1>2, <1>3

\* A rotation: of the open file's day, backups up to the number move up, the one with it
\* is removed.
LEMMA RotatedIs ==
    ASSUME LoggerAssumption, NEW f, FilesOK(f), Ordered(f), f.open # Files!NoFile,
           f.buffer = <<>>,
           NEW backups \in Nat \ {0}
    PROVE  /\ KeptIn(f, Files!Rotated(f, backups), backups)
           /\ Files!Rotated(f, backups).open = f.open /\ Files!Rotated(f, backups).buffer = <<>>
<1> DEFINE g == Files!Rotated(f, backups)
           b == Files!Base(f)
           kept == {n \in DOMAIN f.disk : n[1] # f.open \/ n[2] > backups}
           moved == {<<f.open, k>> : k \in {k \in 1..backups : <<f.open, k - 1>> \in DOMAIN f.disk}}
           d == [n \in kept \cup moved \cup {b} |->
                   IF n = b THEN <<>>
                   ELSE IF n \in moved THEN f.disk[<<f.open, n[2] - 1>>] ELSE f.disk[n]]
<1>0. Files!ToSet(<<>>) = {} /\ InOrder(<<>>) /\ <<>> \in Seq(LogLines)
  BY NoRow
<1>1. f = [open |-> f.open, buffer |-> f.buffer, gone |-> f.gone, disk |-> f.disk]
  BY DEF FilesOK
<1>2. g = [open |-> f.open, buffer |-> <<>>,
           gone |-> f.gone \cup Files!Removed(f, backups), disk |-> d]
  <2>1. g = [f EXCEPT !.gone = f.gone \cup Files!Removed(f, backups), !.disk = d]
    BY DEF Files!Rotated
  <2> HIDE DEF g, d, kept, moved
  <2> QED
    BY <1>1, <2>1
<1> HIDE DEF g
<1>3. /\ g.open = f.open /\ g.buffer = <<>> /\ g.gone = f.gone \cup Files!Removed(f, backups)
      /\ g.disk = d
  BY <1>2
<1>4. /\ f.open \in Days /\ b = <<f.open, 0>> /\ b[1] = f.open /\ b[2] = 0 /\ b \in Days \X Nat
      /\ b \in DOMAIN f.disk
  BY DEF FilesOK, Days, Files!Base, Files!NoFile, LoggerAssumption
<1>5. DOMAIN f.disk \subseteq Days \X Nat
  BY DEF FilesOK
\* Where a file of the new disk comes from.
<1> DEFINE From(n, m) ==
             /\ m[1] = n[1] /\ d[n] = f.disk[m]
             /\ \/ n[1] = f.open /\ n[2] \in 1..backups /\ m[2] = n[2] - 1
                \/ m = n /\ (n[1] # f.open \/ n[2] > backups)
<1>6. ASSUME NEW n \in DOMAIN d
      PROVE  /\ n \in Days \X Nat
             /\ \/ n = b /\ d[n] = <<>>
                \/ \E m \in DOMAIN f.disk : From(n, m)
  <2>1. CASE n = b
    BY <1>4, <2>1
  <2>2. CASE n # b /\ n \in moved
    <3>1. PICK k \in 1..backups : n = <<f.open, k>> /\ <<f.open, k - 1>> \in DOMAIN f.disk
      BY <2>2
    <3>2. n[1] = f.open /\ n[2] = k /\ n \in Days \X Nat
      BY <1>4, <3>1
    <3>3. d[n] = f.disk[<<f.open, k - 1>>]
      BY <2>2, <3>2
    <3> QED
      BY <3>1, <3>2, <3>3
  <2>3. CASE n # b /\ n \notin moved
    <3>1. n \in kept /\ d[n] = f.disk[n]
      BY <2>3
    <3> QED
      BY <1>5, <3>1
  <2> QED
    BY <2>1, <2>2, <2>3
\* Where a file of the old disk is.
<1>7. ASSUME NEW m \in DOMAIN f.disk
      PROVE  \/ \E n \in DOMAIN d : d[n] = f.disk[m]
             \/ m = <<f.open, backups>>
  <2>1. m \in Days \X Nat /\ m = <<m[1], m[2]>>
    BY <1>5
  <2>2. CASE m \in kept
    <3>1. m[1] # f.open \/ m[2] > backups
      BY <2>2
    <3>2. m # b
      BY <1>4, <2>1, <3>1
    <3>3. ASSUME m \in moved PROVE FALSE
      <4>1. PICK k \in 1..backups : m = <<f.open, k>>
        BY <3>3
      <4> QED
        BY <3>1, <4>1
    <3>4. m \in DOMAIN d /\ d[m] = f.disk[m]
      BY <2>2, <3>2, <3>3
    <3> QED
      BY <3>4
  <2>3. CASE m[1] = f.open /\ m[2] < backups
    <3> DEFINE n == <<f.open, m[2] + 1>>
    <3>1. n[1] = f.open /\ n[2] = m[2] + 1 /\ m[2] + 1 \in 1..backups /\ m = <<f.open,
          (m[2] + 1) - 1>>
      BY <2>1, <2>3
    <3>2. n \in moved
      BY <2>3, <3>1
    <3>3. n # b
      BY <1>4, <2>1, <3>1
    <3>4. d[n] = f.disk[m] /\ n \in DOMAIN d
      BY <3>1, <3>2, <3>3
    <3> QED
      BY <3>4
  <2>4. CASE m[1] = f.open /\ m[2] = backups
    BY <2>1, <2>4
  <2>5. m \in kept \/ (m[1] = f.open /\ (m[2] < backups \/ m[2] = backups))
    <3>1. m[2] \in Nat
      BY <2>1
    <3> QED
      BY <3>1
  <2> QED
    BY <2>2, <2>3, <2>4, <2>5
<1>8. b \in DOMAIN d
  OBVIOUS
<1> HIDE DEF d, kept, moved
<1>9. \A x \in Files!Removed(f, backups) :
         /\ x[1] = f.open /\ <<f.open, backups>> \in DOMAIN f.disk
         /\ x[2] \in Files!ToSet(f.disk[<<f.open, backups>>])
         /\ x \in Days \X LogLines
  <2>1. CASE <<f.open, backups>> \in DOMAIN f.disk
    <3>1. Files!ToSet(f.disk[<<f.open, backups>>]) \subseteq LogLines
      BY <2>1 DEF FilesOK, Files!ToSet
    <3> QED
      BY <1>4, <2>1, <3>1 DEF Files!Removed
  <2>2. CASE <<f.open, backups>> \notin DOMAIN f.disk
    BY <2>2 DEF Files!Removed
  <2> QED
    BY <2>1, <2>2
<1>10. FilesOK(g)
  <2>1. \A n \in DOMAIN d : d[n] \in Seq(LogLines) /\ n \in Days \X Nat
    BY <1>0, <1>6 DEF FilesOK
  <2>2. g.gone \subseteq Days \X LogLines
    BY <1>3, <1>9 DEF FilesOK
  <2>3. Files!Base(g) = b
    BY <1>3, <1>4 DEF Files!Base
  <2>4. f.open \in 0..MaxDays
    BY DEF FilesOK
  <2> QED
    BY <1>0, <1>2, <1>3, <1>8, <2>1, <2>2, <2>3, <2>4 DEF FilesOK
<1>11. Ordered(g)
  <2>1. \A n \in DOMAIN d : InOrder(d[n])
    BY <1>0, <1>6 DEF Ordered
  <2>2. \A n \in DOMAIN d : AllEarly(Files!ToSet(d[n]), Files!ToSet(<<>>))
    BY <1>0 DEF AllEarly
  <2>3. ASSUME NEW n \in DOMAIN d, NEW n2 \in DOMAIN d, n2[1] = n[1], n2[2] > n[2]
        PROVE  AllEarly(Files!ToSet(d[n2]), Files!ToSet(d[n]))
    <3>1. CASE d[n] = <<>> \/ d[n2] = <<>>
      BY <1>0, <3>1 DEF AllEarly
    <3>2. ASSUME NEW m \in DOMAIN f.disk, NEW m2 \in DOMAIN f.disk, From(n, m), From(n2, m2)
          PROVE  AllEarly(Files!ToSet(d[n2]), Files!ToSet(d[n]))
      <4>1. n[2] \in Nat /\ n2[2] \in Nat
        BY <1>6
      <4>2. m2[1] = m[1] /\ m2[2] > m[2]
        BY <2>3, <3>2, <4>1
      <4> QED
        BY <3>2, <4>2 DEF Ordered
    <3> QED
      BY <1>6, <3>1, <3>2
  <2> QED
    BY <1>0, <1>3, <2>1, <2>2, <2>3 DEF Ordered
<1>12. Safe(g) = Safe(f) /\ LinesOf(g) = LinesOf(f)
  <2>1. GoneLines(g) = GoneLines(f) \cup {x[2] : x \in Files!Removed(f, backups)}
    BY <1>3 DEF GoneLines
  <2>2. ASSUME NEW x \in DiskLines(g) PROVE x \in DiskLines(f)
    <3>1. PICK n \in DOMAIN d : x \in Files!ToSet(d[n])
      BY <1>3, <2>2 DEF DiskLines
    <3>2. PICK m \in DOMAIN f.disk : From(n, m)
      BY <1>0, <1>6, <3>1
    <3> QED
      BY <3>1, <3>2 DEF DiskLines
  <2>3. ASSUME NEW x \in DiskLines(f) PROVE x \in DiskLines(g) \cup GoneLines(g)
    <3>1. PICK m \in DOMAIN f.disk : x \in Files!ToSet(f.disk[m])
      BY <2>3 DEF DiskLines
    <3>2. CASE \E n \in DOMAIN d : d[n] = f.disk[m]
      BY <1>3, <3>1, <3>2 DEF DiskLines
    <3>3. CASE m = <<f.open, backups>>
      <4>1. <<f.open, x>> \in Files!Removed(f, backups)
        BY <3>1, <3>3 DEF Files!Removed
      <4>2. <<f.open, x>>[2] \in {y[2] : y \in Files!Removed(f, backups)}
        BY <4>1
      <4> QED
        BY <2>1, <4>2
    <3> QED
      BY <1>7, <3>2, <3>3
  <2>4. {x[2] : x \in Files!Removed(f, backups)} \subseteq DiskLines(f)
    BY <1>9 DEF DiskLines
  <2>5. Safe(g) = Safe(f)
    BY <2>1, <2>2, <2>3, <2>4 DEF Safe
  <2> QED
    BY <1>3, <2>5 DEF LinesOf
<1>13. ASSUME Oldest(f, backups) PROVE Oldest(g, backups)
  <2>1. ASSUME NEW n \in DOMAIN d PROVE n[2] <= backups
    BY <1>4, <1>6, <1>13 DEF Oldest
  <2>2. \A x \in g.gone : AllEarly({x[2]}, Files!ToSet(<<>>))
    BY <1>0 DEF AllEarly
  <2>3. ASSUME NEW x \in g.gone, NEW n \in DOMAIN d, n[1] = x[1]
        PROVE  AllEarly({x[2]}, Files!ToSet(d[n]))
    <3>1. CASE d[n] = <<>>
      BY <2>2, <2>3, <3>1
    <3>2. ASSUME NEW m \in DOMAIN f.disk, From(n, m) PROVE AllEarly({x[2]}, Files!ToSet(d[n]))
      <4>1. CASE x \in f.gone
        BY <1>13, <2>3, <3>2, <4>1 DEF Oldest
      <4>2. CASE x \in Files!Removed(f, backups)
        <5>1. /\ x[1] = f.open /\ <<f.open, backups>> \in DOMAIN f.disk
              /\ x[2] \in Files!ToSet(f.disk[<<f.open, backups>>])
          BY <1>9, <4>2
        <5>2. m[1] = f.open /\ m[2] < backups
          <6>1. n[2] \in Nat /\ n[2] <= backups
            BY <1>6, <2>1
          <6> QED
            BY <2>3, <3>2, <5>1, <6>1
        <5>3. AllEarly(Files!ToSet(f.disk[<<f.open, backups>>]), Files!ToSet(f.disk[m]))
          BY <5>1, <5>2 DEF Ordered
        <5> QED
          BY <3>2, <5>1, <5>3 DEF AllEarly
      <4> QED
        BY <1>3, <4>1, <4>2
    <3> QED
      BY <1>6, <3>1, <3>2
  <2> QED
    BY <1>3, <2>1, <2>2, <2>3 DEF Oldest
<1> QED
  BY <1>3, <1>10, <1>11, <1>12, <1>13 DEF KeptIn, g

\* A rotation, if it is due.
LEMMA RotatedIfNeededIs ==
    ASSUME LoggerAssumption, NEW f, FilesOK(f), Ordered(f), f.open # Files!NoFile,
           policy \in [size : Nat, backups : Nat]
    PROVE  /\ KeptIn(f, Files!RotatedIfNeeded(f), policy.backups)
           /\ Files!RotatedIfNeeded(f).open = f.open
<1>1. /\ KeptIn(f, Files!Flushed(f), policy.backups) /\ Files!Flushed(f).buffer = <<>>
      /\ Files!Flushed(f).open = f.open /\ FilesOK(Files!Flushed(f)) /\ Ordered(Files!Flushed(f))
  BY FlushedIs DEF KeptIn
<1>2. CASE policy.backups = 0
  BY <1>2 DEF Files!RotatedIfNeeded, KeptIn
<1>3. CASE policy.backups # 0
  <2>1. KeptIn(Files!Flushed(f), Files!Rotated(Files!Flushed(f), policy.backups), policy.backups)
    BY <1>1, <1>3, RotatedIs
  <2>2. Files!Rotated(Files!Flushed(f), policy.backups).open = f.open
    BY <1>1, <1>3, RotatedIs
  <2>3. Files!RotatedIfNeeded(f) \in {f, Files!Flushed(f),
                                      Files!Rotated(Files!Flushed(f), policy.backups)}
    BY DEF Files!RotatedIfNeeded
  <2>4. KeptIn(f, Files!Rotated(Files!Flushed(f), policy.backups), policy.backups)
    BY <1>1, <2>1 DEF KeptIn
  <2>5. KeptIn(f, f, policy.backups)
    BY DEF KeptIn
  <2> QED
    BY <1>1, <2>2, <2>3, <2>4, <2>5
<1> QED
  BY <1>2, <1>3

\* A line is written: it comes after all that was written.
LEMMA WrittenIs ==
    ASSUME LoggerAssumption, NEW f, FilesOK(f), Ordered(f),
           policy \in [size : Nat, backups : Nat],
           NEW line \in LogLines, NEW path \in Days, NEW flush \in BOOLEAN,
           AllEarly(LinesOf(f), {line})
    PROVE  LET g == Files!Written(f, line, path, flush)
           IN  /\ FilesOK(g) /\ Ordered(g)
               /\ LinesOf(g) = LinesOf(f) \cup {line} /\ Safe(f) \subseteq Safe(g)
               /\ flush => Safe(g) = LinesOf(g)
               /\ Oldest(f, policy.backups) => Oldest(g, policy.backups)
<1> DEFINE at == IF path # f.open THEN Files!Reopened(f, path) ELSE f
           to == Files!RotatedIfNeeded(at)
           put == [to EXCEPT !.buffer = Append(to.buffer, line)]
           max == policy.backups
<1>0. max \in Nat /\ path \in 0..MaxDays /\ path # Files!NoFile
  BY DEF Days, Files!NoFile, LoggerAssumption
<1>1. KeptIn(f, at, max) /\ at.open = path
  <2>1. KeptIn(f, f, max)
    BY DEF KeptIn
  <2>2. KeptIn(f, Files!Reopened(f, path), max) /\ Files!Reopened(f, path).open = path
    BY <1>0, ReopenedIs
  <2> QED
    BY <2>1, <2>2
<1> HIDE DEF at
<1>2. KeptIn(at, to, max) /\ to.open = path
  BY <1>0, <1>1, RotatedIfNeededIs DEF KeptIn
<1>3. KeptIn(f, to, max)
  BY <1>1, <1>2 DEF KeptIn
<1>4. to = [open |-> to.open, buffer |-> to.buffer, gone |-> to.gone, disk |-> to.disk]
  BY <1>3 DEF KeptIn, FilesOK
<1>5. Files!Written(f, line, path, flush) = IF flush THEN Files!Flushed(put) ELSE put
  BY DEF Files!Written, at
<1> HIDE DEF to
<1>6. /\ put = [open |-> to.open, buffer |-> Append(to.buffer, line), gone |-> to.gone,
               disk |-> to.disk]
  BY <1>4
<1> HIDE DEF put
<1>7. /\ put.open = path /\ put.buffer = Append(to.buffer, line) /\ put.gone = to.gone
      /\ put.disk = to.disk
  BY <1>2, <1>6
<1>8. /\ FilesOK(to) /\ Ordered(to) /\ to.buffer \in Seq(LogLines)
  BY <1>3 DEF KeptIn, FilesOK
<1>9. /\ put.buffer \in Seq(LogLines)
      /\ Files!ToSet(put.buffer) = Files!ToSet(to.buffer) \cup {line}
      /\ InOrder(to.buffer) /\ AllEarly(Files!ToSet(to.buffer), {line}) => InOrder(put.buffer)
  <2>1. ASSUME NEW s \in Seq(LogLines)
        PROVE  /\ Append(s, line) \in Seq(LogLines)
               /\ Files!ToSet(Append(s, line)) = Files!ToSet(s) \cup {line}
               /\ InOrder(s) /\ AllEarly(Files!ToSet(s), {line}) => InOrder(Append(s, line))
    BY OneMore
  <2> QED
    BY <1>7, <1>8, <2>1
<1>10. AllEarly(LinesOf(to), {line}) /\ AllEarly(Files!ToSet(to.buffer), {line})
  BY <1>3 DEF KeptIn, LinesOf, AllEarly
<1>11. FilesOK(put)
  <2>1. Files!Base(put) = Files!Base(to)
    BY <1>2, <1>7 DEF Files!Base
  <2> QED
    BY <1>0, <1>2, <1>6, <1>7, <1>8, <1>9, <2>1 DEF FilesOK
<1>12. Ordered(put)
  <2>1. InOrder(put.buffer)
    BY <1>8, <1>9, <1>10 DEF Ordered
  <2>2. ASSUME NEW n \in DOMAIN to.disk, n[1] = path
        PROVE  AllEarly(Files!ToSet(to.disk[n]), Files!ToSet(put.buffer))
    <3>1. AllEarly(Files!ToSet(to.disk[n]), Files!ToSet(to.buffer))
      BY <1>2, <1>8, <2>2 DEF Ordered
    <3>2. Files!ToSet(to.disk[n]) \subseteq LinesOf(to)
      BY DEF LinesOf, Safe, DiskLines
    <3> QED
      BY <1>9, <1>10, <3>1, <3>2 DEF AllEarly
  <2> QED
    BY <1>7, <1>8, <2>1, <2>2 DEF Ordered
<1>13. Safe(put) = Safe(to) /\ LinesOf(put) = LinesOf(f) \cup {line}
  BY <1>3, <1>7, <1>9 DEF Safe, LinesOf, DiskLines, GoneLines, KeptIn
<1>14. ASSUME Oldest(f, max) PROVE Oldest(put, max)
  <2>1. Oldest(to, max)
    BY <1>3, <1>14 DEF KeptIn
  <2>2. ASSUME NEW x \in to.gone, x[1] = path PROVE AllEarly({x[2]}, Files!ToSet(put.buffer))
    <3>1. AllEarly({x[2]}, Files!ToSet(to.buffer))
      BY <1>2, <2>1, <2>2 DEF Oldest
    <3>2. x[2] \in LinesOf(to)
      BY DEF LinesOf, Safe, GoneLines
    <3> QED
      BY <1>9, <1>10, <3>1, <3>2 DEF AllEarly
  <2> QED
    BY <1>7, <2>1, <2>2 DEF Oldest
<1>15. Safe(f) \subseteq Safe(put)
  BY <1>3, <1>13 DEF KeptIn
<1>16. /\ KeptIn(put, Files!Flushed(put), max) /\ Safe(Files!Flushed(put)) = LinesOf(put)
  BY <1>11, <1>12, FlushedIs
<1>17. CASE flush
  <2>1. Files!Written(f, line, path, flush) = Files!Flushed(put)
    BY <1>5, <1>17
  <2> QED
    BY <1>13, <1>14, <1>15, <1>16, <2>1 DEF KeptIn
<1>18. CASE ~flush
  <2>1. Files!Written(f, line, path, flush) = put
    BY <1>5, <1>18
  <2> QED
    BY <1>11, <1>12, <1>13, <1>14, <1>15, <1>18, <2>1
<1> QED
  BY <1>17, <1>18

-----------------------------------------------------------------------------
(* The queue.                                                              *)

\* The queue when a command is put, taken and done.
LEMMA QueueIs ==
    ASSUME NEW cmd \in Commands \cup {Files!NoCmd}, NEW rest \in Seq(Commands)
    PROVE  /\ QueueOf(cmd, rest) \in Seq(Commands)
           /\ \A x \in Commands : QueueOf(cmd, Append(rest, x)) = Append(QueueOf(cmd, rest), x)
           /\ cmd.is = Files!Idle
                /\ rest # <<>> => QueueOf(Head(rest), Tail(rest)) = QueueOf(cmd, rest)
           /\ cmd.is # Files!Idle =>
                /\ cmd \in Commands /\ QueueOf(cmd, rest) # <<>>
                /\ QueueOf(cmd, rest)[1] = cmd
                /\ QueueOf(Files!NoCmd, rest) = Tail(QueueOf(cmd, rest))
<1>1. QueueOf(Files!NoCmd, rest) = rest /\ Files!NoCmd.is = Files!Idle
  BY DEF QueueOf, Files!NoCmd
<1>2. \A c \in Commands : c.is # Files!Idle /\ QueueOf(c, rest) = <<c>> \o rest
  BY DEF QueueOf, Commands, Files!Idle
<1>3. CASE cmd.is = Files!Idle
  <2>1. \A s \in Seq(Commands) : QueueOf(cmd, s) = s
    BY <1>3 DEF QueueOf
  <2>2. \A x \in Commands : Append(rest, x) \in Seq(Commands)
    OBVIOUS
  <2>3. ASSUME rest # <<>> PROVE QueueOf(Head(rest), Tail(rest)) = rest
    <3>1. Head(rest) \in Commands /\ <<Head(rest)>> \o Tail(rest) = rest
      BY <2>3
    <3>2. Head(rest).is # Files!Idle
      BY <1>2, <3>1
    <3> QED
      BY <3>1, <3>2 DEF QueueOf
  <2> QED
    BY <1>3, <2>1, <2>2, <2>3
<1>4. CASE cmd.is # Files!Idle
  <2>1. cmd \in Commands
    BY <1>1, <1>4
  <2>2. \A s \in Seq(Commands) : QueueOf(cmd, s) = <<cmd>> \o s
    BY <1>4 DEF QueueOf
  <2>3. \A x \in Commands : Append(rest, x) \in Seq(Commands)
    OBVIOUS
  <2>4. \A x \in Commands : <<cmd>> \o Append(rest, x) = Append(<<cmd>> \o rest, x)
    BY <2>1
  <2>5. /\ <<cmd>> \o rest \in Seq(Commands) /\ <<cmd>> \o rest # <<>>
        /\ (<<cmd>> \o rest)[1] = cmd /\ Tail(<<cmd>> \o rest) = rest
    BY <2>1
  <2> QED
    BY <1>1, <1>4, <2>1, <2>2, <2>3, <2>4, <2>5
<1> QED
  BY <1>3, <1>4

\* A row with one more, and a row without its first, by their numbers.
LEMMA RowIs ==
    ASSUME NEW s \in Seq(Commands)
    PROVE  /\ Len(s) \in Nat /\ DOMAIN s = 1..Len(s)
           /\ \A x \in Commands :
                /\ DOMAIN Append(s, x) = 1 .. Len(s) + 1
                /\ \A i \in DOMAIN s : i \in DOMAIN Append(s, x) /\ Append(s, x)[i] = s[i]
                /\ Append(s, x)[Len(s) + 1] = x
           /\ s # <<>> =>
                /\ 1 \in DOMAIN s /\ DOMAIN Tail(s) = 1 .. Len(s) - 1
                /\ \A i \in DOMAIN Tail(s) : i + 1 \in DOMAIN s /\ Tail(s)[i] = s[i + 1]
                /\ \A i \in DOMAIN s : i = 1
                     \/ (i - 1 \in DOMAIN Tail(s) /\ Tail(s)[i - 1] = s[i])
<1>1. Len(s) \in Nat /\ DOMAIN s = 1..Len(s)
  OBVIOUS
<1>2. \A x \in Commands :
         /\ DOMAIN Append(s, x) = 1 .. Len(s) + 1
         /\ \A i \in DOMAIN s : i \in DOMAIN Append(s, x) /\ Append(s, x)[i] = s[i]
         /\ Append(s, x)[Len(s) + 1] = x
  BY <1>1
<1>3. ASSUME s # <<>>
      PROVE  /\ 1 \in DOMAIN s /\ DOMAIN Tail(s) = 1 .. Len(s) - 1
             /\ \A i \in 1 .. Len(s) - 1 : i + 1 \in DOMAIN s /\ Tail(s)[i] = s[i + 1]
  <2>1. Len(s) \in Nat \ {0}
    BY <1>3
  <2>2. Tail(s) \in Seq(Commands) /\ Len(Tail(s)) = Len(s) - 1
    BY <1>3
  <2>3. \A i \in 1 .. Len(s) - 1 : Tail(s)[i] = s[i + 1]
    BY <1>3
  <2> QED
    BY <1>1, <2>1, <2>2, <2>3
<1>4. ASSUME s # <<>>, NEW i \in DOMAIN s, i # 1
      PROVE  i - 1 \in DOMAIN Tail(s) /\ Tail(s)[i - 1] = s[i]
  <2>1. i - 1 \in 1 .. Len(s) - 1
    BY <1>1, <1>4
  <2> QED
    BY <1>3, <1>4, <2>1
<1> QED
  BY <1>1, <1>2, <1>3, <1>4

\* What is queued, and what is on its way or in the files.
LEMMA QueuedIs ==
    ASSUME LogTypes
    PROVE  /\ Queue \in Seq(Commands)
           /\ \A a \in Files!Queued : InQueue(a)
           /\ \A i \in DOMAIN Queue : Queue[i].is = "line" => Queue[i].line \in Files!Queued
           /\ Files!Everywhere = LinesOf(fs) /\ Files!OnDisk \cup Files!Gone = Safe(fs)
<1>1. cmds \in Seq(Commands) /\ writing \in Commands \cup {Files!NoCmd}
  BY DEF LogTypes
<1>2. Queue \in Seq(Commands)
  BY <1>1, QueueIs DEF Queue
<1>3. Files!Everywhere = LinesOf(fs) /\ Files!OnDisk \cup Files!Gone = Safe(fs)
  BY DEF Files!Everywhere, Files!OnDisk, Files!Gone, LinesOf, Safe, DiskLines, GoneLines
<1>4. Len(cmds) \in Nat /\ DOMAIN cmds = 1..Len(cmds)
  BY <1>1
<1>5. CASE writing.is = Files!Idle
  <2>1. Queue = cmds
    BY <1>5 DEF Queue, QueueOf
  <2> QED
    BY <1>2, <1>3, <1>5, <2>1 DEF Files!Queued, InQueue, Files!Idle
<1>6. CASE writing.is # Files!Idle
  <2>1. Queue = <<writing>> \o cmds
    BY <1>6 DEF Queue, QueueOf
  <2>2. /\ DOMAIN Queue = 1 .. Len(cmds) + 1 /\ Queue[1] = writing
        /\ \A i \in 1..Len(cmds) : i + 1 \in DOMAIN Queue /\ Queue[i + 1] = cmds[i]
        /\ \A i \in DOMAIN Queue : i = 1 \/ (i - 1 \in 1..Len(cmds) /\ Queue[i] = cmds[i - 1])
    <3>1. <<writing>> \in Seq(Commands \cup {Files!NoCmd})
          /\ cmds \in Seq(Commands \cup {Files!NoCmd})
      BY <1>1
    <3>2. Len(Queue) = Len(cmds) + 1 /\ DOMAIN Queue = 1 .. Len(cmds) + 1
      BY <1>4, <2>1, <3>1
    <3>3. \A i \in 1 .. Len(cmds) + 1 : Queue[i] = IF i <= 1 THEN writing ELSE cmds[i - 1]
      BY <1>4, <2>1, <3>1
    <3> QED
      BY <1>4, <3>2, <3>3
  <2>3. 1 \in DOMAIN Queue
    BY <1>4, <2>2
  <2>4. ASSUME NEW a \in Files!Queued PROVE InQueue(a)
    <3>1. CASE \E i \in DOMAIN cmds : cmds[i].is = "line" /\ a = cmds[i].line
      BY <1>4, <2>2, <3>1 DEF InQueue
    <3>2. CASE writing.is = "line" /\ a = writing.line
      BY <2>2, <2>3, <3>2 DEF InQueue
    <3> QED
      BY <2>4, <3>1, <3>2 DEF Files!Queued
  <2>5. ASSUME NEW i \in DOMAIN Queue, Queue[i].is = "line" PROVE Queue[i].line \in Files!Queued
    <3>1. CASE i = 1
      BY <2>2, <2>5, <3>1 DEF Files!Queued
    <3>2. CASE i # 1
      BY <1>4, <2>2, <2>5, <3>2 DEF Files!Queued
    <3> QED
      BY <3>1, <3>2
  <2> QED
    BY <1>2, <1>3, <2>4, <2>5
<1> QED
  BY <1>5, <1>6

\* The files have lines.
LEMMA LinesAre ==
    ASSUME NEW f, FilesOK(f) PROVE LinesOf(f) \subseteq LogLines
<1>1. Files!ToSet(f.buffer) \subseteq LogLines
  <2>1. f.buffer \in Seq(LogLines)
    BY DEF FilesOK
  <2> QED
    BY <2>1 DEF Files!ToSet
<1>2. \A n \in DOMAIN f.disk : Files!ToSet(f.disk[n]) \subseteq LogLines
  <2>1. \A n \in DOMAIN f.disk : f.disk[n] \in Seq(LogLines)
    BY DEF FilesOK
  <2> QED
    BY <2>1 DEF Files!ToSet
<1>3. GoneLines(f) \subseteq LogLines
  BY DEF FilesOK, GoneLines
<1> QED
  BY <1>1, <1>2, <1>3 DEF LinesOf, Safe, DiskLines

\* A step that leaves the files alone: the queue stays, or one command is put into it.
Puts(x) == Queue' = Append(Queue, x)

\* What the command that is put must be: a line goes on from all lines before it, an end
\* is asked for by who has not asked for it yet, with all that is on its way.
Fits(x) ==
    /\ x.is = "line" => /\ Logged(logging', x.line)
                        /\ \A a \in LogLines : Logged(logging, a) => Files!Early(a, x.line)
    /\ x.is = "barrier" =>
         /\ logging[x.by].call.at = "barrier" /\ logging'[x.by].call.at = "wait"
         /\ before'[x.by] = Files!Queued \cup Files!ToSet(fs.buffer)
    /\ x.is = "shutdown" =>
         /\ ended = "no" /\ ended' # "no"
         /\ before'[Files!Main] = Files!Queued \cup Files!ToSet(fs.buffer)

\* What a step may do to a call: one that waits goes on waiting, and one that comes to
\* wait, or is about to, has put its barrier, or its line.
CallStep(t, x) ==
    /\ logging[t].call.at = "wait" => logging'[t] = logging[t]
    /\ logging'[t].call.at = "exit" => logging'[t] = logging[t]
    /\ logging'[t].call.at = "wait" =>
         \/ logging'[t] = logging[t]
         \/ /\ Puts(x) /\ x.is = "barrier" /\ x.by = t
            /\ logging[t].call.at = "barrier" /\ Files!LineOf(t)' = Files!LineOf(t)
    /\ logging'[t].call.at = "barrier" =>
         \/ logging'[t] = logging[t]
         \/ Puts(x) /\ x.is = "line" /\ x.line = Files!LineOf(t)'

\* A step that leaves the files alone, and at most puts a command into the queue.
LEMMA QuietStep ==
    ASSUME LoggerAssumption, LogInv, fs' = fs,
           NEW x \in Commands, Queue' = Queue \/ (Puts(x) /\ Fits(x)),
           \A a \in LogLines : Logged(logging, a) => Logged(logging', a),
           \A t \in Threads : CallStep(t, x),
           \A w \in Threads \cup {Files!Main} :
             \/ before'[w] = before[w]
             \/ Puts(x) /\ x.is = "barrier" /\ x.by = w
             \/ Puts(x) /\ x.is = "shutdown" /\ w = Files!Main,
           ended' # "closed", ended # "no" => ended' # "no"
    PROVE  /\ \A a \in LinesOf(fs') : Logged(logging', a)
           /\ QueueInOrder' /\ BarriersOK' /\ OwnLine' /\ Ends'
<1>1. /\ Queue \in Seq(Commands) /\ LinesOf(fs) \subseteq LogLines
      /\ \A a \in Files!Queued : InQueue(a)
      /\ \A i \in DOMAIN Queue : Queue[i].is = "line" => Queue[i].line \in Files!Queued
  BY QueuedIs, LinesAre DEF LogInv
<1>2. /\ Len(Queue) \in Nat /\ DOMAIN Queue = 1..Len(Queue)
      /\ DOMAIN Append(Queue, x) = 1 .. Len(Queue) + 1
      /\ \A i \in DOMAIN Queue : i \in DOMAIN Append(Queue, x) /\ Append(Queue, x)[i] = Queue[i]
      /\ Append(Queue, x)[Len(Queue) + 1] = x
  BY <1>1, RowIs
<1>2a. ASSUME Puts(x)
       PROVE  /\ Len(Queue) + 1 \in DOMAIN Queue' /\ Len(Queue) + 1 \notin DOMAIN Queue
              /\ Queue'[Len(Queue) + 1] = x /\ Fits(x)
  <2>1. Len(Queue) + 1 \in 1 .. Len(Queue) + 1 /\ Len(Queue) + 1 \notin 1..Len(Queue)
    BY <1>2
  <2>2. Queue' = Append(Queue, x)
    BY <1>2a DEF Puts
  <2>3. Queue' # Queue
    BY <1>2, <2>1, <2>2
  <2> QED
    BY <1>2, <2>1, <2>2, <2>3
<1>3. \A i \in DOMAIN Queue : i \in DOMAIN Queue' /\ Queue'[i] = Queue[i]
  BY <1>2 DEF Puts
<1>4. \A i \in DOMAIN Queue' :
         \/ i \in DOMAIN Queue /\ Queue'[i] = Queue[i]
         \/ i = Len(Queue) + 1 /\ Queue'[i] = x /\ Puts(x) /\ Fits(x)
  BY <1>2 DEF Puts
<1>5. \A i \in DOMAIN Queue : Queue[i].is = "line" => Queue[i].line \in LogLines
  BY <1>1 DEF Commands
<1>6. \A a \in LinesOf(fs') : Logged(logging', a)
  BY <1>1 DEF LogInv
<1>7. QueueInOrder'
  <2> SUFFICES ASSUME NEW i \in DOMAIN Queue', Queue'[i].is = "line"
               PROVE  /\ Logged(logging', Queue'[i].line)
                      /\ \A a \in LinesOf(fs') : Files!Early(a, Queue'[i].line)
                      /\ \A j \in DOMAIN Queue' : i < j /\ Queue'[j].is = "line" =>
                           Files!Early(Queue'[i].line, Queue'[j].line)
    BY DEF QueueInOrder
  <2>1. CASE i \in DOMAIN Queue /\ Queue'[i] = Queue[i]
    <3>1. /\ Logged(logging, Queue[i].line)
          /\ \A a \in LinesOf(fs') : Files!Early(a, Queue[i].line)
          /\ \A j \in DOMAIN Queue : i < j /\ Queue[j].is = "line" =>
               Files!Early(Queue[i].line, Queue[j].line)
      BY <2>1 DEF LogInv, QueueInOrder
    <3>2. Logged(logging', Queue[i].line)
      BY <1>5, <2>1, <3>1
    <3>3. ASSUME NEW j \in DOMAIN Queue', i < j, Queue'[j].is = "line"
          PROVE  Files!Early(Queue[i].line, Queue'[j].line)
      BY <1>4, <1>5, <2>1, <3>1, <3>3 DEF Fits
    <3> QED
      BY <2>1, <3>1, <3>2, <3>3
  <2>2. CASE i = Len(Queue) + 1 /\ Queue'[i] = x /\ Puts(x) /\ Fits(x)
    <3>1. Logged(logging', x.line) /\ \A a \in LinesOf(fs') : Files!Early(a, x.line)
      BY <1>1, <2>2 DEF Fits, LogInv
    <3>2. \A j \in DOMAIN Queue' : ~(i < j)
      BY <1>2, <1>4, <2>2
    <3> QED
      BY <2>2, <3>1, <3>2
  <2> QED
    BY <1>4, <2>1, <2>2
<1>8. ASSUME NEW S, NEW i \in DOMAIN Queue, Drained(fs, Queue, S, i)
      PROVE  Drained(fs', Queue', S, i)
  BY <1>3, <1>8 DEF Drained
<1>9. ASSUME Puts(x)
      PROVE Drained(fs', Queue', Files!Queued \cup Files!ToSet(fs.buffer), Len(Queue) + 1)
  <2> SUFFICES ASSUME NEW a \in Files!Queued \cup Files!ToSet(fs.buffer)
               PROVE  \/ a \in LinesOf(fs')
                      \/ \E j \in DOMAIN Queue' : /\ j < Len(Queue) + 1
                                                  /\ Queue'[j].is = "line" /\ Queue'[j].line = a
    BY DEF Drained
  <2>1. CASE a \in Files!ToSet(fs.buffer)
    BY <2>1 DEF LinesOf
  <2>2. CASE a \in Files!Queued
    <3>1. PICK j \in DOMAIN Queue : Queue[j].is = "line" /\ Queue[j].line = a
      BY <1>1, <2>2 DEF InQueue
    <3> QED
      BY <1>2, <1>3, <3>1
  <2> QED
    BY <2>1, <2>2
<1>10. \A i \in DOMAIN Queue : Queue[i].is = "barrier" =>
         /\ Queue[i].by \in Threads /\ logging[Queue[i].by].call.at = "wait"
         /\ \A j \in DOMAIN Queue :
              Queue[j].is = "barrier" /\ Queue[j].by = Queue[i].by => i = j
         /\ Drained(fs, Queue, before[Queue[i].by], i)
  BY <1>1 DEF LogInv, BarriersOK, Commands
<1>11. \A t \in Threads : logging[t].call.at # "barrier" => before'[t] = before[t]
  <2> SUFFICES ASSUME NEW t \in Threads, logging[t].call.at # "barrier"
      PROVE before'[t] = before[t]
    OBVIOUS
  <2>1. t # Files!Main
    BY DEF LoggerAssumption
  <2>2. ~(Puts(x) /\ x.is = "barrier" /\ x.by = t)
    BY <1>2a DEF Fits
  <2> QED
    BY <2>1, <2>2
<1>12. BarriersOK'
  <2>1. ASSUME NEW i \in DOMAIN Queue', Queue'[i].is = "barrier"
        PROVE  /\ logging'[Queue'[i].by].call.at = "wait"
               /\ \A j \in DOMAIN Queue' :
                    Queue'[j].is = "barrier" /\ Queue'[j].by = Queue'[i].by => i = j
               /\ Drained(fs', Queue', before'[Queue'[i].by], i)
    <3>1. CASE i \in DOMAIN Queue /\ Queue'[i] = Queue[i]
      <4> DEFINE t == Queue[i].by
      <4>1. t \in Threads /\ logging[t].call.at = "wait" /\ logging'[t] = logging[t]
        BY <1>10, <2>1, <3>1 DEF CallStep
      <4>2. before'[t] = before[t]
        BY <1>11, <4>1
      <4>3. Drained(fs, Queue, before[t], i)
        BY <1>10, <2>1, <3>1
      <4>4. Drained(fs', Queue', before'[t], i)
        <5>1. Drained(fs', Queue', before[t], i)
          BY <1>8, <3>1, <4>3
        <5> QED
          BY <4>2, <5>1
      <4>5. ASSUME NEW j \in DOMAIN Queue', Queue'[j].is = "barrier", Queue'[j].by = t
            PROVE  i = j
        BY <1>4, <1>10, <2>1, <3>1, <4>1, <4>5 DEF Fits
      <4> QED
        BY <3>1, <4>1, <4>4, <4>5
    <3>2. CASE i = Len(Queue) + 1 /\ Queue'[i] = x /\ Puts(x) /\ Fits(x)
      <4>1. /\ logging[x.by].call.at = "barrier" /\ logging'[x.by].call.at = "wait"
            /\ before'[x.by] = Files!Queued \cup Files!ToSet(fs.buffer)
        BY <2>1, <3>2 DEF Fits
      <4>2. ASSUME NEW j \in DOMAIN Queue', Queue'[j].is = "barrier", Queue'[j].by = x.by
            PROVE  i = j
        BY <1>4, <1>10, <3>2, <4>1, <4>2
      <4>3. Drained(fs', Queue', before'[x.by], i)
        BY <1>9, <3>2, <4>1 DEF Drained
      <4> QED
        BY <3>2, <4>1, <4>2, <4>3
    <3> QED
      BY <1>4, <3>1, <3>2
  <2>2. ASSUME NEW i \in DOMAIN Queue', Queue'[i].is = "shutdown"
        PROVE  ended' # "no" /\ Drained(fs', Queue', before'[Files!Main], i)
    <3>1. CASE i \in DOMAIN Queue /\ Queue'[i] = Queue[i]
      <4>1. ended # "no" /\ Drained(fs, Queue, before[Files!Main], i)
        BY <2>2, <3>1 DEF LogInv, BarriersOK
      <4>2. before'[Files!Main] = before[Files!Main]
        <5>1. ~(Puts(x) /\ x.is = "shutdown")
          BY <1>2a, <4>1 DEF Fits
        <5>2. ~(Puts(x) /\ x.is = "barrier" /\ x.by = Files!Main)
          BY DEF Commands, LoggerAssumption
        <5> QED
          BY <5>1, <5>2
      <4> QED
        BY <1>3, <3>1, <4>1, <4>2 DEF Drained
    <3>2. CASE i = Len(Queue) + 1 /\ Queue'[i] = x /\ Puts(x) /\ Fits(x)
      <4>1. ended' # "no" /\ before'[Files!Main] = Files!Queued \cup Files!ToSet(fs.buffer)
        BY <2>2, <3>2 DEF Fits
      <4> QED
        BY <1>9, <3>2, <4>1 DEF Drained
    <3> QED
      BY <1>4, <3>1, <3>2
  <2> QED
    BY <2>1, <2>2 DEF BarriersOK
<1>13. OwnLine'
  <2>0. \A a \in LogLines : OnItsWay(a) => OnItsWay(a)'
    BY <1>3 DEF OnItsWay, InQueue
  <2>1. ASSUME NEW t \in Threads, logging'[t].call.at = "barrier" PROVE OnItsWay(Files!LineOf(t))'
    <3>1. CASE logging'[t] = logging[t]
      <4>1. OnItsWay(Files!LineOf(t)) /\ Files!LineOf(t)' = Files!LineOf(t)
        BY <2>1, <3>1 DEF LogInv, OwnLine, Files!LineOf
      <4> QED
        BY <1>3, <4>1 DEF OnItsWay, InQueue
    <3>2. CASE Puts(x) /\ x.is = "line" /\ x.line = Files!LineOf(t)'
      <4>1. Len(Queue) + 1 \in DOMAIN Queue' /\ Queue'[Len(Queue) + 1] = x
        BY <1>2a, <3>2
      <4> QED
        BY <3>2, <4>1 DEF OnItsWay, InQueue
    <3> QED
      BY <2>1, <3>1, <3>2 DEF CallStep
  <2>2. ASSUME NEW t \in Threads, logging'[t].call.at = "wait"
        PROVE  Files!LineOf(t)' \in before'[t] \cup Safe(fs)
    <3>1. CASE logging'[t] = logging[t]
      <4>1. Files!LineOf(t) \in before[t] \cup Safe(fs) /\ Files!LineOf(t)' = Files!LineOf(t)
        BY <2>2, <3>1 DEF LogInv, OwnLine, Files!LineOf
      <4> QED
        BY <1>11, <2>2, <3>1, <4>1
    <3>2. CASE /\ Puts(x) /\ x.is = "barrier" /\ x.by = t
               /\ logging[t].call.at = "barrier" /\ Files!LineOf(t)' = Files!LineOf(t)
      <4>1. OnItsWay(Files!LineOf(t))
        BY <3>2 DEF LogInv, OwnLine
      <4>2. Files!LineOf(t) \in Files!Queued \cup Files!ToSet(fs.buffer) \cup Safe(fs)
        BY <1>1, <4>1 DEF OnItsWay, InQueue, LinesOf
      <4>3. before'[t] = Files!Queued \cup Files!ToSet(fs.buffer)
        BY <1>2a, <3>2 DEF Fits
      <4> QED
        BY <3>2, <4>2, <4>3
    <3> QED
      BY <2>2, <3>1, <3>2 DEF CallStep
  <2> QED
    BY <2>1, <2>2 DEF OwnLine
<1>14. Ends'
  <2>1. ASSUME NEW t \in Threads, logging'[t].call.at = "exit"
        PROVE  before'[t] \cup {Files!LineOf(t)'} \subseteq Safe(fs)
    <3>1. logging'[t] = logging[t] /\ Files!LineOf(t)' = Files!LineOf(t)
      BY <2>1 DEF CallStep, Files!LineOf
    <3>2. before'[t] = before[t]
      BY <1>11, <2>1, <3>1
    <3> QED
      BY <2>1, <3>1, <3>2 DEF LogInv, Ends
  <2> QED
    BY <2>1 DEF Ends
<1> QED
  BY <1>6, <1>7, <1>12, <1>13, <1>14

\* The writer has done the command it had taken.
LEMMA DoneStep ==
    ASSUME LoggerAssumption, LogInv, writing \in Commands, writing' = Files!NoCmd, cmds' = cmds,
           before' = before, Safe(fs) \subseteq Safe(fs'),
           LinesOf(fs') = LinesOf(fs) \cup (IF writing.is = "line" THEN {writing.line} ELSE {}),
           \A t \in Threads :
             IF writing.is = "barrier" /\ writing.by = t
             THEN logging'[t].call.at = "exit" /\ Files!LineOf(t)' = Files!LineOf(t)
             ELSE logging'[t] = logging[t],
           writing.is \in {"barrier", "shutdown"} => Safe(fs') = LinesOf(fs'),
           ended' = ended \/ (writing.is = "shutdown" /\ ended' = "closed")
    PROVE  /\ \A a \in LinesOf(fs') : Logged(logging', a)
           /\ QueueInOrder' /\ BarriersOK' /\ OwnLine' /\ Ends'
<1>1. /\ Queue \in Seq(Commands) /\ LinesOf(fs) \subseteq LogLines
  BY QueuedIs, LinesAre DEF LogInv
<1>2. /\ Queue # <<>> /\ Queue[1] = writing /\ Queue' = Tail(Queue)
  <2>1. writing.is # Files!Idle /\ cmds \in Seq(Commands)
    BY DEF Commands, Files!Idle, LogInv, LogTypes
  <2> QED
    BY <2>1, QueueIs DEF Queue
<1>3. /\ 1 \in DOMAIN Queue /\ Len(Queue) \in Nat /\ DOMAIN Queue = 1..Len(Queue)
      /\ DOMAIN Queue' = 1 .. Len(Queue) - 1
      /\ \A i \in DOMAIN Queue' : i + 1 \in DOMAIN Queue /\ Queue'[i] = Queue[i + 1]
      /\ \A i \in DOMAIN Queue : i = 1 \/ (i - 1 \in DOMAIN Queue' /\ Queue'[i - 1] = Queue[i])
  BY <1>1, <1>2, RowIs
<1>4. ASSUME NEW a \in LogLines, Logged(logging, a) PROVE Logged(logging', a)
  <2>1. a.by \in Threads
    BY DEF LogLines
  <2>2. CASE logging'[a.by] = logging[a.by]
    BY <1>4, <2>2 DEF Logged
  <2>3. CASE writing.is = "barrier" /\ writing.by = a.by
    <3>1. logging'[a.by].call.at = "exit" /\ Files!LineOf(a.by)' = Files!LineOf(a.by)
      BY <2>1, <2>3
    <3>2. logging'[a.by].nth = logging[a.by].nth
      BY <3>1 DEF Files!LineOf
    <3>3. logging[a.by].call.at = "wait"
      BY <1>2, <1>3, <2>3 DEF LogInv, BarriersOK
    <3> QED
      BY <1>4, <3>1, <3>2, <3>3 DEF Logged
  <2> QED
    BY <2>1, <2>2, <2>3
<1>5. \A i \in DOMAIN Queue : Queue[i].is = "line" => Queue[i].line \in LogLines
  BY <1>1 DEF Commands
<1>6. \A i \in DOMAIN Queue : Queue[i].is = "line" =>
        /\ Logged(logging', Queue[i].line)
        /\ \A a \in LinesOf(fs) : Files!Early(a, Queue[i].line)
        /\ \A j \in DOMAIN Queue : i < j /\ Queue[j].is = "line" =>
             Files!Early(Queue[i].line, Queue[j].line)
  BY <1>4, <1>5 DEF LogInv, QueueInOrder
<1>7. \A a \in LinesOf(fs') : Logged(logging', a)
  <2>1. \A a \in LinesOf(fs) : Logged(logging', a)
    BY <1>1, <1>4 DEF LogInv
  <2> QED
    BY <1>2, <1>3, <1>6, <2>1
<1>8. QueueInOrder'
  <2> SUFFICES ASSUME NEW i \in DOMAIN Queue', Queue'[i].is = "line"
               PROVE  /\ Logged(logging', Queue'[i].line)
                      /\ \A a \in LinesOf(fs') : Files!Early(a, Queue'[i].line)
                      /\ \A j \in DOMAIN Queue' : i < j /\ Queue'[j].is = "line" =>
                           Files!Early(Queue'[i].line, Queue'[j].line)
    BY DEF QueueInOrder
  <2>1. i \in 1 .. Len(Queue) - 1 /\ i + 1 \in DOMAIN Queue /\ Queue'[i] = Queue[i + 1]
    BY <1>3
  <2>2. Logged(logging', Queue'[i].line)
    BY <1>6, <2>1
  <2>3. ASSUME NEW a \in LinesOf(fs') PROVE Files!Early(a, Queue'[i].line)
    <3>1. CASE a \in LinesOf(fs)
      BY <1>6, <2>1, <3>1
    <3>2. CASE writing.is = "line" /\ a = writing.line
      <4>1. 1 < i + 1
        BY <2>1
      <4> QED
        BY <1>2, <1>3, <1>6, <2>1, <3>2, <4>1
    <3> QED
      BY <3>1, <3>2
  <2>4. ASSUME NEW j \in DOMAIN Queue', i < j, Queue'[j].is = "line"
        PROVE  Files!Early(Queue'[i].line, Queue'[j].line)
    <3>1. /\ j + 1 \in DOMAIN Queue /\ Queue'[j] = Queue[j + 1] /\ j \in 1 .. Len(Queue) - 1
      BY <1>3
    <3>2. i + 1 < j + 1
      BY <2>1, <2>4, <3>1
    <3> QED
      BY <1>6, <2>1, <2>4, <3>1, <3>2
  <2> QED
    BY <2>2, <2>3, <2>4
<1>9. ASSUME NEW S, NEW i \in DOMAIN Queue', Drained(fs, Queue, S, i + 1)
      PROVE  Drained(fs', Queue', S, i)
  <2> SUFFICES ASSUME NEW a \in S, a \notin LinesOf(fs')
               PROVE  \E j \in DOMAIN Queue' :
                        j < i /\ Queue'[j].is = "line" /\ Queue'[j].line = a
    BY DEF Drained
  <2>1. PICK j \in DOMAIN Queue : j < i + 1 /\ Queue[j].is = "line" /\ Queue[j].line = a
    BY <1>9 DEF Drained
  <2>2. j # 1
    BY <1>2, <2>1
  <2>3. j - 1 \in DOMAIN Queue' /\ Queue'[j - 1] = Queue[j]
    BY <1>3, <2>2
  <2>4. j - 1 < i
    BY <1>3, <2>1
  <2> QED
    BY <2>1, <2>3, <2>4
<1>10. \A i \in DOMAIN Queue : Queue[i].is = "barrier" =>
         /\ Queue[i].by \in Threads /\ logging[Queue[i].by].call.at = "wait"
         /\ \A j \in DOMAIN Queue :
              Queue[j].is = "barrier" /\ Queue[j].by = Queue[i].by => i = j
         /\ Drained(fs, Queue, before[Queue[i].by], i)
  BY <1>1 DEF LogInv, BarriersOK, Commands
<1>11. BarriersOK'
  <2>1. ASSUME NEW i \in DOMAIN Queue', Queue'[i].is = "barrier"
        PROVE  /\ logging'[Queue'[i].by].call.at = "wait"
               /\ \A j \in DOMAIN Queue' :
                    Queue'[j].is = "barrier" /\ Queue'[j].by = Queue'[i].by => i = j
               /\ Drained(fs', Queue', before'[Queue'[i].by], i)
    <3> DEFINE t == Queue'[i].by
    <3>1. /\ i \in 1 .. Len(Queue) - 1 /\ i + 1 \in DOMAIN Queue /\ Queue'[i] = Queue[i + 1]
          /\ i + 1 # 1
      BY <1>3
    <3>2. /\ t \in Threads /\ logging[t].call.at = "wait" /\ Drained(fs, Queue, before[t], i + 1)
          /\ \A j \in DOMAIN Queue : Queue[j].is = "barrier" /\ Queue[j].by = t => i + 1 = j
      BY <1>10, <2>1, <3>1
    <3>3. ~(writing.is = "barrier" /\ writing.by = t)
      BY <1>2, <1>3, <3>1, <3>2
    <3>4. logging'[t].call.at = "wait"
      BY <3>2, <3>3
    <3>5. ASSUME NEW j \in DOMAIN Queue', Queue'[j].is = "barrier", Queue'[j].by = t
          PROVE  i = j
      <4>1. j \in 1 .. Len(Queue) - 1 /\ j + 1 \in DOMAIN Queue /\ Queue'[j] = Queue[j + 1]
        BY <1>3
      <4>2. i + 1 = j + 1
        BY <3>2, <3>5, <4>1
      <4> QED
        BY <3>1, <4>1, <4>2
    <3>6. Drained(fs', Queue', before[t], i)
      BY <1>9, <3>2
    <3> QED
      BY <3>4, <3>5, <3>6
  <2>2. ASSUME NEW i \in DOMAIN Queue', Queue'[i].is = "shutdown"
        PROVE  ended' # "no" /\ Drained(fs', Queue', before'[Files!Main], i)
    <3>1. i + 1 \in DOMAIN Queue /\ Queue'[i] = Queue[i + 1]
      BY <1>3
    <3>2. ended # "no" /\ Drained(fs, Queue, before[Files!Main], i + 1)
      BY <2>2, <3>1 DEF LogInv, BarriersOK
    <3> QED
      BY <1>9, <3>2
  <2> QED
    BY <2>1, <2>2 DEF BarriersOK
<1>12. OwnLine'
  <2>1. ASSUME NEW t \in Threads, logging'[t].call.at = "barrier" PROVE OnItsWay(Files!LineOf(t))'
    <3>1. logging'[t] = logging[t]
      BY <2>1
    <3>2. OnItsWay(Files!LineOf(t)) /\ Files!LineOf(t)' = Files!LineOf(t)
      BY <2>1, <3>1 DEF LogInv, OwnLine, Files!LineOf
    <3>3. CASE Files!LineOf(t) \in LinesOf(fs)
      BY <3>2, <3>3 DEF OnItsWay
    <3>4. CASE InQueue(Files!LineOf(t))
      <4>1. PICK i \in DOMAIN Queue : Queue[i].is = "line" /\ Queue[i].line = Files!LineOf(t)
        BY <3>4 DEF InQueue
      <4>2. CASE i = 1
        BY <1>2, <3>2, <4>1, <4>2 DEF OnItsWay
      <4>3. CASE i # 1
        BY <1>3, <3>2, <4>1, <4>3 DEF OnItsWay, InQueue
      <4> QED
        BY <4>2, <4>3
    <3> QED
      BY <3>2, <3>3, <3>4 DEF OnItsWay
  <2>2. ASSUME NEW t \in Threads, logging'[t].call.at = "wait"
        PROVE  Files!LineOf(t)' \in before'[t] \cup Safe(fs')
    <3>1. logging'[t] = logging[t]
      BY <2>2
    <3>2. Files!LineOf(t) \in before[t] \cup Safe(fs) /\ Files!LineOf(t)' = Files!LineOf(t)
      BY <2>2, <3>1 DEF LogInv, OwnLine, Files!LineOf
    <3> QED
      BY <3>2
  <2> QED
    BY <2>1, <2>2 DEF OwnLine
<1>13. Ends'
  <2>0. ASSUME NEW S, Drained(fs, Queue, S, 1), writing.is \in {"barrier", "shutdown"}
        PROVE  S \subseteq Safe(fs')
    <3>1. \A j \in DOMAIN Queue : ~(j < 1)
      BY <1>3
    <3>2. S \subseteq LinesOf(fs)
      BY <2>0, <3>1 DEF Drained
    <3> QED
      BY <2>0, <3>2
  <2>1. ASSUME NEW t \in Threads, logging'[t].call.at = "exit"
        PROVE  before'[t] \cup {Files!LineOf(t)'} \subseteq Safe(fs')
    <3>1. CASE logging'[t] = logging[t]
      <4>1. before[t] \cup {Files!LineOf(t)} \subseteq Safe(fs)
            /\ Files!LineOf(t)' = Files!LineOf(t)
        BY <2>1, <3>1 DEF LogInv, Ends, Files!LineOf
      <4> QED
        BY <4>1
    <3>2. CASE writing.is = "barrier" /\ writing.by = t
      <4>1. logging[t].call.at = "wait" /\ Drained(fs, Queue, before[t], 1)
        BY <1>2, <1>3, <1>10, <3>2
      <4>2. Files!LineOf(t) \in before[t] \cup Safe(fs) /\ Files!LineOf(t)' = Files!LineOf(t)
        BY <3>2, <4>1 DEF LogInv, OwnLine
      <4> QED
        BY <2>0, <3>2, <4>1, <4>2
    <3> QED
      BY <3>1, <3>2
  <2>2. ASSUME ended' = "closed" PROVE before'[Files!Main] \subseteq Safe(fs')
    <3>1. CASE ended = "closed"
      <4>1. before[Files!Main] \subseteq Safe(fs)
        BY <3>1 DEF LogInv, Ends
      <4> QED
        BY <4>1
    <3>2. CASE writing.is = "shutdown"
      <4>1. Drained(fs, Queue, before[Files!Main], 1)
        BY <1>2, <1>3, <3>2 DEF LogInv, BarriersOK
      <4> QED
        BY <2>0, <3>2, <4>1
    <3> QED
      BY <2>2, <3>1, <3>2
  <2> QED
    BY <2>1, <2>2 DEF Ends
<1> QED
  BY <1>7, <1>8, <1>11, <1>12, <1>13

\* The lines in the queue are no more than its commands; taking one makes them no more.
LEMMA LineCounts ==
    ASSUME NEW s \in Seq(Commands)
    PROVE  /\ LineCount(s) \in Nat /\ LineCount(s) <= Len(s)
           /\ \A x \in Commands : x.is # "line" => LineCount(Append(s, x)) = LineCount(s)
           /\ s # <<>> => LineCount(Tail(s)) <= LineCount(s)
<1> DEFINE L(q) == {i \in DOMAIN q : q[i].is = "line"}
<1>1. Len(s) \in Nat /\ DOMAIN s = 1..Len(s)
  OBVIOUS
<1>2. IsFiniteSet(1..Len(s)) /\ Cardinality(1..Len(s)) = Len(s)
  BY <1>1, FS_Interval
<1>3. IsFiniteSet(L(s)) /\ Cardinality(L(s)) \in Nat /\ Cardinality(L(s)) <= Len(s)
  <2>1. L(s) \in SUBSET (1..Len(s))
    BY <1>1
  <2> HIDE DEF L
  <2> QED
    BY <1>2, <2>1, FS_Subset, FS_CardinalityType
<1>4. ASSUME NEW x \in Commands, x.is # "line" PROVE L(Append(s, x)) = L(s)
  <2>1. /\ DOMAIN Append(s, x) = 1 .. Len(s) + 1 /\ Append(s, x)[Len(s) + 1] = x
        /\ \A i \in DOMAIN s : i \in DOMAIN Append(s, x) /\ Append(s, x)[i] = s[i]
    BY RowIs
  <2>2. \A i \in 1 .. Len(s) + 1 : i \in DOMAIN s \/ i = Len(s) + 1
    BY <1>1
  <2> QED
    BY <1>4, <2>1, <2>2
<1>5. ASSUME s # <<>> PROVE Cardinality(L(Tail(s))) <= Cardinality(L(s))
  <2> DEFINE f == [i \in L(Tail(s)) |-> i + 1]
  <2>1. /\ DOMAIN Tail(s) = 1 .. Len(s) - 1
        /\ \A i \in DOMAIN Tail(s) : i + 1 \in DOMAIN s /\ Tail(s)[i] = s[i + 1]
    BY <1>5, RowIs
  <2>2. \A i \in L(Tail(s)) : i \in Int /\ i + 1 \in L(s)
    BY <1>1, <2>1
  <2>3. f \in [L(Tail(s)) -> L(s)]
    BY <2>2
  <2>4. \A i, j \in L(Tail(s)) : f[i] = f[j] => i = j
    BY <2>2
  <2> HIDE DEF f, L
  <2>5. f \in Injection(L(Tail(s)), L(s))
    BY <2>3, <2>4 DEF Injection, IsInjective
  <2> QED
    BY <1>3, <2>5, FS_Injection
<1> QED
  BY <1>3, <1>4, <1>5 DEF LineCount

-----------------------------------------------------------------------------
(* The steps.                                                              *)

\* The log starts with an empty file, or none.
LEMMA LogInvInit ==
    ASSUME LoggerAssumption, Files!Init PROVE LogInv
<1>1. cmds = <<>> /\ writing = Files!NoCmd /\ cmds \in Seq(Commands) /\ DOMAIN cmds = {}
  BY DEF Files!Init
<1>2. Queue = <<>> /\ DOMAIN Queue = {}
  BY <1>1 DEF Queue, QueueOf, Files!NoCmd
<1>3. logging \in [Threads -> [nth : Nat, call : Calls]]
      /\ \A t \in Threads : logging[t].call.at = Files!Idle
  <2>1. Files!NoCall \in Calls /\ Files!NoCall.at = Files!Idle
    BY DEF Files!NoCall, Calls, Files!NoFile, LoggerAssumption
  <2>2. logging = [t \in Threads |-> [nth |-> 0, call |-> Files!NoCall]]
    BY DEF Files!Init
  <2> QED
    BY <2>1, <2>2
<1>4. FilesOK(fs) /\ Ordered(fs) /\ Oldest(fs, 1) /\ LinesOf(fs) = {}
  <2> DEFINE b == <<1, 0>>
  <2>1. CASE configured
    <3> DEFINE d == Files!Put(<<>>, b, <<>>)
    <3>1. fs = [open |-> 1, buffer |-> <<>>, gone |-> {}, disk |-> d]
      BY <2>1 DEF Files!Init
    <3>2. DOMAIN d = {b} /\ d[b] = <<>>
      BY DEF Files!Put
    <3> HIDE DEF d
    <3>3. fs.open = 1 /\ fs.buffer = <<>> /\ fs.gone = {} /\ fs.disk = d
      BY <3>1
    <3>4. b \in Days \X Nat /\ b[1] = 1 /\ b[2] = 0 /\ 1 \in 0..MaxDays /\ 1 # Files!NoFile
      BY DEF Days, LoggerAssumption, Files!NoFile
    <3>5. FilesOK(fs)
      BY <3>1, <3>2, <3>3, <3>4, NoRow DEF FilesOK, Files!Base
    <3>6. Ordered(fs)
      BY <3>2, <3>3, <3>4, NoRow DEF Ordered, AllEarly
    <3>7. Oldest(fs, 1)
      BY <3>2, <3>3, <3>4 DEF Oldest
    <3>8. LinesOf(fs) = {}
      BY <3>2, <3>3, NoRow DEF LinesOf, Safe, DiskLines, GoneLines
    <3> QED
      BY <3>5, <3>6, <3>7, <3>8
  <2>2. CASE ~configured
    <3>1. fs = [open |-> Files!NoFile, buffer |-> <<>>, gone |-> {}, disk |-> <<>>]
      BY <2>2 DEF Files!Init
    <3>2. fs.open = Files!NoFile /\ fs.buffer = <<>> /\ fs.gone = {} /\ DOMAIN fs.disk = {}
      BY <3>1
    <3>3. Files!NoFile \in 0..MaxDays
      BY DEF Files!NoFile, LoggerAssumption
    <3>4. FilesOK(fs)
      BY <3>1, <3>2, <3>3, NoRow DEF FilesOK
    <3> QED
      BY <3>2, <3>4, NoRow DEF Ordered, Oldest, LinesOf, Safe, DiskLines, GoneLines
  <2> QED
    BY <2>1, <2>2
<1>5. LogTypes
  <2>1. LineCount(cmds) <= MaxCmds
    <3>1. LineCount(cmds) <= Len(cmds) /\ Len(cmds) = 0 /\ LineCount(cmds) \in Nat
      BY <1>1, LineCounts
    <3> QED
      BY <3>1 DEF LoggerAssumption
  <2>2. {configured, enabled, lowered} \subseteq BOOLEAN
    BY DEF Files!Init
  <2>3. policy \in [size : Nat, backups : Nat] /\ today \in Days
    BY DEF Files!Init, Days, LoggerAssumption
  <2>4. before \in [Threads \cup {Files!Main} -> SUBSET LogLines]
    BY DEF Files!Init
  <2> QED
    BY <1>1, <1>3, <2>1, <2>2, <2>3, <2>4 DEF LogTypes
<1>6. CallsOK /\ QueueInOrder /\ BarriersOK /\ OwnLine
  BY <1>2, <1>3 DEF CallsOK, QueueInOrder, BarriersOK, OwnLine, Files!Idle
<1>7. Ends
  BY <1>3 DEF Ends, Files!Idle, Files!Init
<1>8. policy.backups = 1
  BY DEF Files!Init
<1> QED
  BY <1>4, <1>5, <1>6, <1>7, <1>8 DEF LogInv

\* The files stay, or the queue stays: what is left to show of such a step.
LEMMA SameFiles ==
    ASSUME LogInv, fs' = fs, lowered' = lowered, policy' = policy, LogTypes', CallsOK',
           \A a \in LinesOf(fs') : Logged(logging', a),
           QueueInOrder', BarriersOK', OwnLine', Ends'
    PROVE  LogInv'
  BY DEF LogInv

\* A thread logs: its next line comes after all of its lines so far.
LEMMA LogKeeps ==
    ASSUME LoggerAssumption, LogInv, Files!Running, NEW t \in Threads, Files!Log(t) PROVE LogInv'
<1>1. PICK level \in {"info", "error", "fatal"} :
        /\ logging[t].call.at = Files!Idle
        /\ logging' = [logging EXCEPT ![t] =
              [nth |-> logging[t].nth + 1,
               call |-> IF enabled \/ level = "fatal"
                        THEN [at |-> "path", level |-> level, path |-> Files!NoFile]
                        ELSE Files!NoCall]]
        /\ UNCHANGED <<configured, enabled, cmds, writing, fs, policy, ui, today, lowered,
                       before, ended, ops>>
  BY DEF Files!Log
<1>2. Queue' = Queue
  BY <1>1 DEF Queue
<1>3. /\ logging \in [Threads -> [nth : Nat, call : Calls]] /\ CallsOK
  BY DEF LogInv, LogTypes
<1>4. Files!NoFile \in 0..MaxDays /\ Files!NoCall \in Calls
  BY DEF Files!NoFile, LoggerAssumption, Calls, Files!NoCall
<1>5. /\ logging'[t].nth = logging[t].nth + 1 /\ logging'[t].nth \in Nat
      /\ logging'[t].call.at \in {"path", Files!Idle} /\ logging'[t].call \in Calls
      /\ \A t2 \in Threads \ {t} : logging'[t2] = logging[t2]
      /\ logging' \in [Threads -> [nth : Nat, call : Calls]]
  <2> DEFINE c == IF enabled \/ level = "fatal"
                  THEN [at |-> "path", level |-> level, path |-> Files!NoFile] ELSE Files!NoCall
  <2>1. c \in Calls /\ c.at \in {"path", Files!Idle}
    BY <1>4 DEF Calls, Files!NoCall
  <2>2. logging' = [logging EXCEPT ![t] = [nth |-> logging[t].nth + 1, call |-> c]]
    BY <1>1
  <2> HIDE DEF c
  <2> QED
    BY <1>3, <2>1, <2>2
<1>6. \A a \in LogLines : Logged(logging, a) => Logged(logging', a)
  <2> SUFFICES ASSUME NEW a \in LogLines, Logged(logging, a) PROVE Logged(logging', a)
    OBVIOUS
  <2>1. a.by \in Threads /\ a.nth \in Nat
    BY DEF LogLines
  <2>2. CASE a.by = t
    BY <1>1, <1>3, <1>5, <2>1, <2>2 DEF Logged, Files!Idle
  <2>3. CASE a.by # t
    BY <1>5, <2>1, <2>3 DEF Logged
  <2> QED
    BY <2>2, <2>3
<1>7. \A t2 \in Threads, x \in Commands : CallStep(t2, x)
  BY <1>1, <1>5 DEF CallStep, Files!Idle
<1>8. PICK x \in Commands : TRUE
  <2>1. [is |-> "shutdown"] \in Commands
    BY DEF Commands
  <2> QED
    BY <2>1
<1>9. LogTypes'
  BY <1>1, <1>5 DEF LogInv, LogTypes
<1>10. CallsOK'
  BY <1>3, <1>5 DEF CallsOK, Files!Idle
<1>11. /\ \A a \in LinesOf(fs') : Logged(logging', a)
       /\ QueueInOrder' /\ BarriersOK' /\ OwnLine' /\ Ends'
  <2>1. fs' = fs /\ before' = before /\ ended' # "closed" /\ (ended # "no" => ended' # "no")
    BY <1>1 DEF Files!Running
  <2> QED
    BY <1>2, <1>6, <1>7, <1>8, <2>1, QuietStep
<1> QED
  BY <1>1, <1>9, <1>10, <1>11, SameFiles

\* A call goes on to another step, or ends, and the queue stays.
LEMMA CallMoves ==
    ASSUME LoggerAssumption, LogInv, Files!Running, NEW t \in Threads, NEW c \in Calls,
           Files!Call(t, c),
           UNCHANGED <<configured, enabled, cmds, writing, fs, policy, ui, today, lowered,
                       before>>,
           logging[t].call.at # "wait",
           c.at \in {Files!Idle, "queue", "direct"},
           c.at # Files!Idle => logging[t].call.at \in {"path", "queue"} /\ c.path # Files!NoFile,
           c.at = "direct" => c.level # "info",
           ended' \in {ended, "fatal"}
    PROVE  LogInv'
<1>1. Queue' = Queue
  BY DEF Queue
<1>2. logging \in [Threads -> [nth : Nat, call : Calls]] /\ CallsOK
  BY DEF LogInv, LogTypes
<1>3. /\ logging'[t].nth = logging[t].nth /\ logging'[t].call = c
      /\ \A t2 \in Threads \ {t} : logging'[t2] = logging[t2]
      /\ logging' \in [Threads -> [nth : Nat, call : Calls]]
  BY <1>2 DEF Files!Call
<1>4. \A a \in LogLines : Logged(logging, a) => Logged(logging', a)
  <2> SUFFICES ASSUME NEW a \in LogLines, Logged(logging, a) PROVE Logged(logging', a)
    OBVIOUS
  <2>1. a.by \in Threads /\ a.nth \in Nat /\ logging[a.by].nth \in Nat
    BY <1>2 DEF LogLines
  <2>2. CASE a.by = t
    BY <1>3, <2>1, <2>2 DEF Logged, Files!Idle
  <2>3. CASE a.by # t
    BY <1>3, <2>1, <2>3 DEF Logged
  <2> QED
    BY <2>2, <2>3
<1>5. \A t2 \in Threads, x \in Commands : CallStep(t2, x)
  BY <1>3 DEF CallStep, Files!Idle
<1>6. PICK x \in Commands : TRUE
  <2>1. [is |-> "shutdown"] \in Commands
    BY DEF Commands
  <2> QED
    BY <2>1
<1>7. LogTypes'
  BY <1>3 DEF LogInv, LogTypes
<1>8. CallsOK'
  BY <1>2, <1>3 DEF CallsOK, Files!Idle
<1>9. /\ \A a \in LinesOf(fs') : Logged(logging', a)
      /\ QueueInOrder' /\ BarriersOK' /\ OwnLine' /\ Ends'
  <2>1. fs' = fs /\ before' = before /\ ended' # "closed" /\ (ended # "no" => ended' # "no")
    BY DEF Files!Running
  <2> QED
    BY <1>1, <1>4, <1>5, <1>6, <2>1, QuietStep
<1> QED
  BY <1>7, <1>8, <1>9, SameFiles

\* The path is read.
LEMMA ReadPathKeeps ==
    ASSUME LoggerAssumption, LogInv, Files!Running, NEW t \in Threads, Files!ReadPath(t)
           PROVE LogInv'
<1>1. /\ logging[t].call.at = "path" /\ logging[t].call \in Calls /\ today \in Days
  BY DEF Files!ReadPath, LogInv, LogTypes
<1>2. Files!NoCall \in Calls /\ Files!NoCall.at = Files!Idle /\ Files!Path \in 0..MaxDays
  BY <1>1 DEF Files!NoFile, LoggerAssumption, Calls, Files!NoCall, Files!Path, Days
<1>3. CASE Files!Path = Files!NoFile
  BY <1>1, <1>2, <1>3, CallMoves DEF Files!ReadPath, Files!Idle
<1>4. CASE Files!Path # Files!NoFile
  <2> DEFINE c == [logging[t].call EXCEPT !.at = "queue", !.path = Files!Path]
  <2>1. c \in Calls /\ c.at = "queue" /\ c.path = Files!Path
    BY <1>1, <1>2 DEF Calls
  <2>2. Files!Call(t, c) /\ ended' = ended
    BY <1>4 DEF Files!ReadPath
  <2> HIDE DEF c
  <2> QED
    BY <1>1, <1>4, <2>1, <2>2, CallMoves DEF Files!ReadPath
<1> QED
  BY <1>3, <1>4

\* The program ends by a fatal error.
LEMMA QuickExitKeeps ==
    ASSUME LoggerAssumption, LogInv, Files!Running, NEW t \in Threads, Files!QuickExit(t)
           PROVE LogInv'
<1>1. Files!NoCall \in Calls /\ Files!NoCall.at = Files!Idle
  BY DEF Files!NoFile, LoggerAssumption, Calls, Files!NoCall
<1> QED
  BY <1>1, CallMoves DEF Files!QuickExit, Files!Idle

\* A line is put into a queue that has room.
LEMMA LinePut ==
    ASSUME LoggerAssumption, LogInv, Files!Running, NEW t \in Threads,
           logging[t].call.at = "queue", Len(cmds) < MaxCmds,
           cmds' = Append(cmds, Files!Cmd(t)), Files!Call(t, Files!After(t)),
           UNCHANGED <<configured, enabled, writing, fs, policy, ui, today, lowered, before,
             ended>>
    PROVE  LogInv'
<1> DEFINE x == Files!Cmd(t)
<1>1. /\ logging \in [Threads -> [nth : Nat, call : Calls]] /\ CallsOK
      /\ logging[t].nth \in Nat /\ logging[t].call \in Calls
      /\ cmds \in Seq(Commands) /\ writing \in Commands \cup {Files!NoCmd}
  BY DEF LogInv, LogTypes
<1>2. /\ Files!LineOf(t) \in LogLines /\ Files!LineOf(t).by = t
      /\ Files!LineOf(t).nth = logging[t].nth
      /\ logging[t].call.path \in Days
  BY <1>1 DEF Files!LineOf, LogLines, Calls, CallsOK, Days, Files!NoFile, LoggerAssumption
<1>3. x \in Commands /\ x.is = "line" /\ x.line = Files!LineOf(t) /\ cmds' = Append(cmds, x)
  BY <1>2 DEF Files!Cmd, Commands
<1> HIDE DEF x
<1>4. Queue' = Append(Queue, x)
  <2>1. \A y \in Commands : QueueOf(writing, Append(cmds, y)) = Append(QueueOf(writing, cmds), y)
    <3>1. cmds \in Seq(Commands) /\ writing \in Commands \cup {Files!NoCmd}
      BY <1>1
    <3> QED
      BY <3>1, QueueIs
  <2>2. writing' = writing
    OBVIOUS
  <2> QED
    BY <1>3, <2>1, <2>2 DEF Queue
<1>5. /\ Files!After(t) \in Calls /\ Files!After(t).at \in {Files!Idle, "barrier"}
      /\ Files!After(t).at = "barrier" => Files!After(t).level = logging[t].call.level
  <2>1. CASE logging[t].call.level = "fatal"
    BY <1>1, <2>1 DEF Files!After, Calls
  <2>2. CASE logging[t].call.level # "fatal"
    BY <2>2 DEF Files!After, Calls, Files!NoCall, Files!NoFile, LoggerAssumption, Files!Idle
  <2> QED
    BY <2>1, <2>2
<1>6. /\ logging'[t].nth = logging[t].nth /\ logging'[t].call = Files!After(t)
      /\ \A t2 \in Threads \ {t} : logging'[t2] = logging[t2]
      /\ logging' \in [Threads -> [nth : Nat, call : Calls]]
  BY <1>1, <1>5 DEF Files!Call
<1>7. \A a \in LogLines : Logged(logging, a) => Logged(logging', a)
      /\ Files!Early(a, Files!LineOf(t))
  <2> SUFFICES ASSUME NEW a \in LogLines, Logged(logging, a)
               PROVE  Logged(logging', a) /\ Files!Early(a, Files!LineOf(t))
    OBVIOUS
  <2>1. a.by \in Threads /\ a.nth \in Nat /\ logging[a.by].nth \in Nat
    BY <1>1 DEF LogLines
  <2>2. CASE a.by = t
    BY <1>2, <1>5, <1>6, <2>1, <2>2 DEF Logged, Files!Early, Files!Idle
  <2>3. CASE a.by # t
    BY <1>2, <1>6, <2>1, <2>3 DEF Logged, Files!Early
  <2> QED
    BY <2>2, <2>3
<1>8. Logged(logging', Files!LineOf(t))
  BY <1>1, <1>2, <1>5, <1>6 DEF Logged, Files!Idle
<1>9. Fits(x)
  BY <1>3, <1>7, <1>8 DEF Fits
<1>10. ASSUME NEW t2 \in Threads PROVE CallStep(t2, x)
  <2>1. CASE t2 = t
    <3>1. logging'[t].call.at = "barrier" => Files!LineOf(t)' = Files!LineOf(t)
      BY <1>5, <1>6 DEF Files!LineOf
    <3> QED
      BY <1>3, <1>4, <1>5, <1>6, <2>1, <3>1 DEF CallStep, Puts, Files!Idle
  <2>2. CASE t2 # t
    BY <1>6, <2>2 DEF CallStep
  <2> QED
    BY <2>1, <2>2
<1>11. LogTypes'
  <2>1. cmds' \in Seq(Commands) /\ Len(cmds') = Len(cmds) + 1 /\ Len(cmds) \in Nat
    BY <1>1, <1>3
  <2>2. LineCount(cmds') <= MaxCmds
    <3>1. LineCount(cmds') <= Len(cmds') /\ LineCount(cmds') \in Nat
      BY <2>1, LineCounts
    <3> QED
      BY <2>1, <3>1 DEF LoggerAssumption
  <2> QED
    BY <1>6, <2>1, <2>2 DEF LogInv, LogTypes
<1>12. CallsOK'
  BY <1>1, <1>5, <1>6 DEF CallsOK, Files!Idle
<1>13. /\ \A a \in LinesOf(fs') : Logged(logging', a)
       /\ QueueInOrder' /\ BarriersOK' /\ OwnLine' /\ Ends'
  <2>1. fs' = fs /\ before' = before /\ ended' # "closed" /\ (ended # "no" => ended' # "no")
    BY DEF Files!Running
  <2> QED
    BY <1>3, <1>4, <1>7, <1>9, <1>10, <2>1, QuietStep DEF Puts
<1> QED
  BY <1>11, <1>12, <1>13, SameFiles

\* A full queue drops the line, or leaves it to its thread.
LEMMA EnqueueKeeps ==
    ASSUME LoggerAssumption, LogInv, Files!Running, NEW t \in Threads, Files!Enqueue(t)
           PROVE LogInv'
<1>1. /\ logging[t].call.at = "queue" /\ logging[t].call \in Calls
      /\ logging[t].call.path # Files!NoFile
  BY DEF Files!Enqueue, LogInv, LogTypes, CallsOK
<1>2. CASE Len(cmds) < MaxCmds
  BY <1>1, <1>2, LinePut DEF Files!Enqueue
<1>3. CASE ~(Len(cmds) < MaxCmds) /\ logging[t].call.level = "info"
  <2>1. Files!NoCall \in Calls /\ Files!NoCall.at = Files!Idle
    BY DEF Files!NoFile, LoggerAssumption, Calls, Files!NoCall
  <2> QED
    BY <1>1, <1>3, <2>1, CallMoves DEF Files!Enqueue, Files!Idle
<1>4. CASE ~(Len(cmds) < MaxCmds) /\ logging[t].call.level # "info"
  <2> DEFINE c == [logging[t].call EXCEPT !.at = "direct"]
  <2>1. c \in Calls /\ c.at = "direct" /\ c.path # Files!NoFile /\ c.level # "info"
    BY <1>1, <1>4 DEF Calls
  <2>2. Files!Call(t, c) /\ cmds' = cmds /\ ended' = ended
    BY <1>4 DEF Files!Enqueue
  <2> HIDE DEF c
  <2> QED
    BY <1>1, <2>1, <2>2, CallMoves DEF Files!Enqueue, Files!Idle
<1> QED
  BY <1>2, <1>3, <1>4

\* An end is asked for: the thread waits for all that is on its way.
LEMMA PutBarrierKeeps ==
    ASSUME LoggerAssumption, LogInv, Files!Running, NEW t \in Threads, Files!PutBarrier(t)
           PROVE LogInv'
<1> DEFINE x == [is |-> "barrier", by |-> t]
           c == [logging[t].call EXCEPT !.at = "wait"]
<1>1. /\ logging \in [Threads -> [nth : Nat, call : Calls]] /\ CallsOK
      /\ logging[t].call \in Calls /\ before \in [Threads \cup {Files!Main} -> SUBSET LogLines]
      /\ cmds \in Seq(Commands) /\ writing \in Commands \cup {Files!NoCmd}
  BY DEF LogInv, LogTypes
<1>2. /\ logging[t].call.at = "barrier" /\ cmds' = Append(cmds, x) /\ Files!Call(t, c)
      /\ before' = [before EXCEPT ![t] = Files!Queued \cup Files!ToSet(fs.buffer)]
      /\ UNCHANGED <<configured, enabled, writing, fs, policy, ui, today, lowered, ended, ops>>
  BY DEF Files!PutBarrier, Files!Asks
<1>3. x \in Commands /\ x.is = "barrier" /\ x.by = t
  BY DEF Commands
<1>4. c \in Calls /\ c.at = "wait" /\ c.level = logging[t].call.level
  BY <1>1 DEF Calls
<1> HIDE DEF x, c
<1>5. Queue' = Append(Queue, x)
  BY <1>1, <1>2, <1>3, QueueIs DEF Queue
<1>6. /\ logging'[t].nth = logging[t].nth /\ logging'[t].call = c
      /\ \A t2 \in Threads \ {t} : logging'[t2] = logging[t2]
      /\ logging' \in [Threads -> [nth : Nat, call : Calls]]
  BY <1>1, <1>2, <1>4 DEF Files!Call
<1>7. \A a \in LogLines : Logged(logging, a) => Logged(logging', a)
  <2> SUFFICES ASSUME NEW a \in LogLines, Logged(logging, a) PROVE Logged(logging', a)
    OBVIOUS
  <2>1. CASE a.by = t
    BY <1>2, <1>4, <1>6, <2>1 DEF Logged
  <2>2. CASE a.by # t
    BY <1>6, <2>2 DEF Logged, LogLines
  <2> QED
    BY <2>1, <2>2
<1>8. /\ before'[t] = Files!Queued \cup Files!ToSet(fs.buffer)
      /\ \A w \in Threads \cup {Files!Main} : w = t \/ before'[w] = before[w]
  BY <1>1, <1>2
<1>9. Fits(x)
  BY <1>2, <1>3, <1>4, <1>6, <1>8 DEF Fits
<1>10. ASSUME NEW t2 \in Threads PROVE CallStep(t2, x)
  <2>1. CASE t2 = t
    <3>1. Files!LineOf(t)' = Files!LineOf(t)
      BY <1>4, <1>6 DEF Files!LineOf
    <3> QED
      BY <1>2, <1>3, <1>4, <1>5, <1>6, <2>1, <3>1 DEF CallStep, Puts
  <2>2. CASE t2 # t
    BY <1>6, <2>2 DEF CallStep
  <2> QED
    BY <2>1, <2>2
<1>11. LogTypes'
  <2>1. cmds' \in Seq(Commands)
    BY <1>1, <1>2, <1>3
  <2>2. LineCount(cmds') <= MaxCmds
    BY <1>1, <1>2, <1>3, LineCounts DEF LogInv, LogTypes
  <2>3. Files!Queued \cup Files!ToSet(fs.buffer) \subseteq LogLines
    <3>1. Files!ToSet(fs.buffer) \subseteq LogLines
      BY LinesAre DEF LogInv, LinesOf
    <3>2. ASSUME NEW a \in Files!Queued PROVE a \in LogLines
      <4>1. InQueue(a) /\ Queue \in Seq(Commands)
        BY <3>2, QueuedIs DEF LogInv
      <4>2. PICK i \in DOMAIN Queue : Queue[i].is = "line" /\ Queue[i].line = a
        BY <4>1 DEF InQueue
      <4>3. Queue[i] \in Commands
        BY <4>1, <4>2
      <4> QED
        BY <4>2, <4>3 DEF Commands
    <3> QED
      BY <3>1, <3>2
  <2>4. before' \in [Threads \cup {Files!Main} -> SUBSET LogLines]
    BY <1>1, <1>2, <2>3
  <2> QED
    BY <1>2, <1>6, <2>1, <2>2, <2>4 DEF LogInv, LogTypes
<1>12. CallsOK'
  BY <1>1, <1>4, <1>6 DEF CallsOK
<1>13. /\ \A a \in LinesOf(fs') : Logged(logging', a)
       /\ QueueInOrder' /\ BarriersOK' /\ OwnLine' /\ Ends'
  <2>1. fs' = fs /\ ended' # "closed" /\ (ended # "no" => ended' # "no")
    BY <1>2 DEF Files!Running
  <2>2. \A w \in Threads \cup {Files!Main} :
          \/ before'[w] = before[w]
          \/ Puts(x) /\ x.is = "barrier" /\ x.by = w
    BY <1>3, <1>5, <1>8 DEF Puts
  <2> QED
    BY <1>3, <1>5, <1>7, <1>9, <1>10, <2>1, <2>2, QuietStep DEF Puts
<1> QED
  BY <1>2, <1>11, <1>12, <1>13, SameFiles

\* The writer takes a command: the queue with it stays.
LEMMA TakeCmdKeeps ==
    ASSUME LoggerAssumption, LogInv, Files!Running, Files!TakeCmd PROVE LogInv'
<1>1. /\ writing.is = Files!Idle /\ cmds # <<>> /\ writing' = Head(cmds) /\ cmds' = Tail(cmds)
      /\ UNCHANGED <<configured, enabled, fs, policy, logging, ui, today, lowered, before, ended,
           ops>>
  BY DEF Files!TakeCmd
<1>2. /\ cmds \in Seq(Commands) /\ writing \in Commands \cup {Files!NoCmd}
      /\ LineCount(cmds) <= MaxCmds
  BY DEF LogInv, LogTypes
<1>3. Queue' = Queue
  BY <1>1, <1>2, QueueIs DEF Queue
<1>4. Head(cmds) \in Commands /\ Tail(cmds) \in Seq(Commands)
  BY <1>1, <1>2
<1>5. LogTypes'
  <2>1. LineCount(cmds') <= MaxCmds
    <3>1. /\ LineCount(Tail(cmds)) <= LineCount(cmds) /\ LineCount(cmds) \in Nat
          /\ LineCount(Tail(cmds)) \in Nat
      BY <1>1, <1>2, <1>4, LineCounts
    <3> QED
      BY <1>1, <1>2, <3>1 DEF LoggerAssumption
  <2> QED
    BY <1>1, <1>4, <2>1 DEF LogInv, LogTypes
<1>6. CallsOK'
  BY <1>1 DEF LogInv, CallsOK
<1>7. /\ \A a \in LinesOf(fs') : Logged(logging', a)
      /\ QueueInOrder' /\ BarriersOK' /\ OwnLine' /\ Ends'
  <2>1. fs' = fs /\ before' = before /\ ended' # "closed" /\ (ended # "no" => ended' # "no")
    BY <1>1 DEF Files!Running
  <2>2. \A a \in LogLines : Logged(logging, a) => Logged(logging', a)
    BY <1>1 DEF Logged
  <2>3. \A t \in Threads : CallStep(t, Head(cmds))
    BY <1>1 DEF CallStep
  <2> QED
    BY <1>3, <1>4, <2>1, <2>2, <2>3, QuietStep
<1> QED
  BY <1>1, <1>5, <1>6, <1>7, SameFiles

\* The user's and the clock's steps leave calls and queue alone.
LEMMA UserKeeps ==
    ASSUME LoggerAssumption, LogInv, Files!Running,
           Files!ChangeOutput \/ Files!SetPolicy \/ Files!Midnight
    PROVE  LogInv'
<1>1. UNCHANGED <<enabled, cmds, writing, fs, logging, before, ended>>
  BY DEF Files!ChangeOutput, Files!SetPolicy, Files!Midnight
<1>2. Queue' = Queue
  BY <1>1 DEF Queue
<1>3. /\ configured' \in BOOLEAN /\ lowered' \in BOOLEAN /\ today' \in Days
      /\ policy' \in [size : Nat, backups : Nat]
      /\ ~lowered' => ~lowered /\ policy.backups <= policy'.backups
  <2>1. /\ configured \in BOOLEAN /\ lowered \in BOOLEAN /\ today \in Days
        /\ policy \in [size : Nat, backups : Nat] /\ policy.backups \in Nat
    BY DEF LogInv, LogTypes
  <2>2. CASE Files!ChangeOutput
    BY <2>1, <2>2 DEF Files!ChangeOutput
  <2>3. CASE Files!Midnight
    BY <2>1, <2>3 DEF Files!Midnight, Days, LoggerAssumption
  <2>4. CASE Files!SetPolicy
    <3>1. PICK size \in {0, 1}, backups \in Backups :
            /\ policy' = [size |-> size, backups |-> backups]
            /\ lowered' = (lowered \/ backups < policy.backups)
            /\ UNCHANGED <<configured, today>>
      BY <2>4 DEF Files!SetPolicy
    <3>2. backups \in Nat
      BY DEF LoggerAssumption
    <3>3. policy' \in [size : Nat, backups : Nat] /\ policy'.backups = backups
      BY <3>1, <3>2
    <3>4. lowered' \in BOOLEAN
      BY <3>1
    <3>5. ~lowered' => ~lowered /\ ~(backups < policy.backups)
      BY <3>1
    <3> QED
      BY <2>1, <3>1, <3>2, <3>3, <3>4, <3>5
  <2> QED
    BY <2>2, <2>3, <2>4
<1>4. LogTypes'
  BY <1>1, <1>3 DEF LogInv, LogTypes
<1>5. CallsOK'
  BY <1>1 DEF LogInv, CallsOK
<1>6. PICK x \in Commands : TRUE
  <2>1. [is |-> "shutdown"] \in Commands
    BY DEF Commands
  <2> QED
    BY <2>1
<1>7. /\ \A a \in LinesOf(fs') : Logged(logging', a)
      /\ QueueInOrder' /\ BarriersOK' /\ OwnLine' /\ Ends'
  <2>1. fs' = fs /\ before' = before /\ ended' # "closed" /\ (ended # "no" => ended' # "no")
    BY <1>1 DEF Files!Running
  <2>2. \A a \in LogLines : Logged(logging, a) => Logged(logging', a)
    BY <1>1 DEF Logged
  <2>3. \A t \in Threads : CallStep(t, x)
    BY <1>1 DEF CallStep
  <2> QED
    BY <1>2, <1>6, <2>1, <2>2, <2>3, QuietStep
<1>8. ASSUME ~lowered' PROVE Oldest(fs', policy'.backups)
  <2>1. Oldest(fs, policy.backups) /\ policy.backups <= policy'.backups
    BY <1>3, <1>8 DEF LogInv
  <2>2. policy.backups \in Nat /\ policy'.backups \in Nat
    BY <1>3 DEF LogInv, LogTypes
  <2>3. \A n \in DOMAIN fs.disk : n[2] \in Nat
    BY DEF LogInv, FilesOK
  <2> QED
    <3>1. \A n \in DOMAIN fs.disk : n[2] <= policy.backups
      BY <2>1 DEF Oldest
    <3>2. \A n \in DOMAIN fs.disk : n[2] <= policy'.backups
      BY <2>1, <2>2, <2>3, <3>1
    <3> QED
      BY <1>1, <2>1, <3>2 DEF Oldest
<1>9. FilesOK(fs') /\ Ordered(fs')
  BY <1>1 DEF LogInv
<1> QED
  BY <1>4, <1>5, <1>7, <1>8, <1>9 DEF LogInv

\* The rest of a change of the output, and the end: a command is put, or none.
LEMMA UiKeeps ==
    ASSUME LoggerAssumption, LogInv, Files!Running, Files!UiStep \/ Files!Exit PROVE LogInv'
<1>1. UNCHANGED <<configured, writing, fs, policy, logging, today, lowered>>
  BY DEF Files!UiStep, Files!Exit
<1>2. /\ cmds \in Seq(Commands) /\ writing \in Commands \cup {Files!NoCmd}
      /\ before \in [Threads \cup {Files!Main} -> SUBSET LogLines]
      /\ LineCount(cmds) <= MaxCmds /\ enabled \in BOOLEAN /\ configured \in BOOLEAN
  BY DEF LogInv, LogTypes
<1>3. PICK x \in Commands :
        /\ x.is \in {"reopen", "shutdown"}
        /\ cmds' = cmds \/ cmds' = Append(cmds, x)
        /\ x.is = "reopen" => before' = before /\ ended' = ended
        /\ x.is = "shutdown" =>
             /\ cmds' = Append(cmds, x) /\ ended = "no" /\ ended' = "asked"
             /\ before' = [before EXCEPT ![Files!Main] = Files!Queued \cup Files!ToSet(fs.buffer)]
  <2>1. CASE Files!UiStep
    <3>1. Files!Path \in 0..MaxDays
      BY DEF Files!Path, LogInv, LogTypes, Days, Files!NoFile, LoggerAssumption
    <3> DEFINE x == [is |-> "reopen", path |-> Files!Path]
    <3>2. x \in Commands /\ x.is = "reopen"
      BY <3>1 DEF Commands
    <3>3. (cmds' = cmds \/ cmds' = Append(cmds, x)) /\ before' = before /\ ended' = ended
      BY <2>1 DEF Files!UiStep
    <3> HIDE DEF x
    <3> QED
      BY <3>2, <3>3
  <2>2. CASE Files!Exit
    <3> DEFINE x == [is |-> "shutdown"]
    <3>1. x \in Commands /\ x.is = "shutdown"
      BY DEF Commands
    <3>2. /\ cmds' = Append(cmds, x) /\ ended = "no" /\ ended' = "asked"
          /\ before' = [before EXCEPT ![Files!Main] = Files!Queued \cup Files!ToSet(fs.buffer)]
      BY <2>2 DEF Files!Exit, Files!Asks
    <3> HIDE DEF x
    <3> QED
      BY <3>1, <3>2
  <2> QED
    BY <2>1, <2>2
<1>4. enabled' \in BOOLEAN
  BY <1>2 DEF Files!UiStep, Files!Exit
<1>5. (Queue' = Queue \/ Puts(x)) /\ (x.is = "shutdown" => Puts(x))
  <2>1. QueueOf(writing, Append(cmds, x)) = Append(QueueOf(writing, cmds), x)
    BY <1>2, QueueIs
  <2>2. cmds' = Append(cmds, x) => Puts(x)
    BY <1>1, <2>1 DEF Queue, Puts
  <2>3. cmds' = cmds => Queue' = Queue
    BY <1>1 DEF Queue
  <2> QED
    BY <1>3, <2>2, <2>3
<1>6. Fits(x)
  <2>1. CASE x.is = "reopen"
    BY <2>1 DEF Fits
  <2>2. CASE x.is = "shutdown"
    BY <1>2, <1>3, <2>2 DEF Fits
  <2> QED
    BY <1>3, <2>1, <2>2
<1>7. /\ before' \in [Threads \cup {Files!Main} -> SUBSET LogLines]
      /\ \A w \in Threads \cup {Files!Main} :
           before'[w] = before[w] \/ (Puts(x) /\ x.is = "shutdown" /\ w = Files!Main)
  <2>1. CASE x.is = "reopen"
    BY <1>2, <1>3, <2>1
  <2>2. CASE x.is = "shutdown"
    <3>1. Files!Queued \cup Files!ToSet(fs.buffer) \subseteq LogLines
      <4>1. Files!ToSet(fs.buffer) \subseteq LogLines
        BY LinesAre DEF LogInv, LinesOf
      <4>2. ASSUME NEW a \in Files!Queued PROVE a \in LogLines
        <5>1. InQueue(a) /\ Queue \in Seq(Commands)
          BY <4>2, QueuedIs DEF LogInv
        <5>2. PICK i \in DOMAIN Queue : Queue[i].is = "line" /\ Queue[i].line = a
          BY <5>1 DEF InQueue
        <5>3. Queue[i] \in Commands
          BY <5>1, <5>2
        <5> QED
          BY <5>2, <5>3 DEF Commands
      <4> QED
        BY <4>1, <4>2
    <3> QED
      BY <1>2, <1>3, <1>5, <2>2, <3>1
  <2> QED
    BY <1>3, <2>1, <2>2
<1>8. LogTypes'
  <2>1. cmds' \in Seq(Commands) /\ LineCount(cmds') <= MaxCmds
    <3>1. Append(cmds, x) \in Seq(Commands)
      BY <1>2
    <3>2. LineCount(Append(cmds, x)) = LineCount(cmds)
      BY <1>2, <1>3, LineCounts
    <3> QED
      BY <1>2, <1>3, <3>1, <3>2
  <2> QED
    BY <1>1, <1>4, <1>7, <2>1 DEF LogInv, LogTypes
<1>9. CallsOK'
  BY <1>1 DEF LogInv, CallsOK
<1>10. /\ \A a \in LinesOf(fs') : Logged(logging', a)
       /\ QueueInOrder' /\ BarriersOK' /\ OwnLine' /\ Ends'
  <2>1. fs' = fs /\ ended' # "closed" /\ (ended # "no" => ended' # "no")
    BY <1>1, <1>3 DEF Files!Running
  <2>2. \A a \in LogLines : Logged(logging, a) => Logged(logging', a)
    BY <1>1 DEF Logged
  <2>3. \A t \in Threads : CallStep(t, x)
    BY <1>1 DEF CallStep
  <2> QED
    BY <1>5, <1>6, <1>7, <2>1, <2>2, <2>3, QuietStep
<1> QED
  BY <1>1, <1>8, <1>9, <1>10, SameFiles

\* The writer writes a line.
LEMMA WriteLineKeeps ==
    ASSUME LoggerAssumption, LogInv, Files!Running, Files!WriteLine
    PROVE  LogInv' /\ LinesOf(fs') = LinesOf(fs) \cup {writing.line}
<1> DEFINE line == writing.line
<1>1. /\ writing.is = "line" /\ writing' = Files!NoCmd
      /\ fs' = Files!Written(fs, line, writing.path, line.level # "info")
      /\ UNCHANGED <<configured, enabled, cmds, policy, logging, ui, today, lowered, before,
                     ended, ops>>
  BY DEF Files!WriteLine
<1>2. writing \in Commands /\ line \in LogLines /\ writing.path \in Days
  BY <1>1 DEF LogInv, LogTypes, Commands, Files!NoCmd, Files!Idle
<1>3. AllEarly(LinesOf(fs), {line})
  <2>1. 1 \in DOMAIN Queue /\ Queue[1] = writing
    <3>1. cmds \in Seq(Commands) /\ writing \in Commands \cup {Files!NoCmd}
          /\ writing.is # Files!Idle
      BY <1>1 DEF LogInv, LogTypes, Files!Idle
    <3>2. Queue \in Seq(Commands) /\ Queue # <<>> /\ Queue[1] = writing
      BY <3>1, QueueIs DEF Queue
    <3> QED
      BY <3>2, RowIs
  <2> QED
    BY <1>1, <2>1 DEF LogInv, QueueInOrder, AllEarly
<1>4. /\ FilesOK(fs) /\ Ordered(fs) /\ policy \in [size : Nat, backups : Nat]
      /\ (line.level # "info") \in BOOLEAN
  BY DEF LogInv, LogTypes
<1> HIDE DEF line
<1>5. /\ FilesOK(fs') /\ Ordered(fs')
      /\ LinesOf(fs') = LinesOf(fs) \cup {line} /\ Safe(fs) \subseteq Safe(fs')
      /\ Oldest(fs, policy.backups) => Oldest(fs', policy.backups)
  BY <1>1, <1>2, <1>3, <1>4, WrittenIs
<1>6. LogTypes'
  BY <1>1 DEF LogInv, LogTypes
<1>7. CallsOK'
  BY <1>1 DEF LogInv, CallsOK
<1>8. /\ \A a \in LinesOf(fs') : Logged(logging', a)
      /\ QueueInOrder' /\ BarriersOK' /\ OwnLine' /\ Ends'
  <2>1. \A t \in Threads :
          IF writing.is = "barrier" /\ writing.by = t
          THEN logging'[t].call.at = "exit" /\ Files!LineOf(t)' = Files!LineOf(t)
          ELSE logging'[t] = logging[t]
    BY <1>1
  <2> QED
    BY <1>1, <1>2, <1>5, <2>1, DoneStep DEF line
<1> QED
  BY <1>1, <1>5, <1>6, <1>7, <1>8 DEF LogInv, line

\* The writer opens a file, writes the buffer out, or closes the file.
LEMMA WriterKeeps ==
    ASSUME LoggerAssumption, LogInv, Files!Running, Files!Reopen \/ Files!Barrier
           \/ Files!Shutdown
    PROVE  LogInv' /\ LinesOf(fs') = LinesOf(fs)
<1>1. /\ FilesOK(fs) /\ Ordered(fs) /\ policy \in [size : Nat, backups : Nat]
      /\ policy.backups \in Nat
      /\ logging \in [Threads -> [nth : Nat, call : Calls]] /\ CallsOK
  BY DEF LogInv, LogTypes
<1>2. /\ writing.is \in {"reopen", "barrier", "shutdown"} /\ writing' = Files!NoCmd
      /\ UNCHANGED <<configured, enabled, cmds, policy, today, lowered, before>>
  BY DEF Files!Reopen, Files!Barrier, Files!Shutdown
<1>3. writing \in Commands
  BY <1>2 DEF LogInv, LogTypes, Commands, Files!NoCmd, Files!Idle
<1>4. /\ KeptIn(fs, fs', policy.backups)
      /\ writing.is \in {"barrier", "shutdown"} => Safe(fs') = LinesOf(fs')
  <2>1. CASE Files!Reopen
    <3>1. writing.path \in 0..MaxDays
      BY <1>3, <2>1 DEF Files!Reopen, Commands
    <3>2. KeptIn(fs, Files!Reopened(fs, writing.path), policy.backups)
      BY <1>1, <3>1, ReopenedIs
    <3> QED
      BY <2>1, <3>2 DEF Files!Reopen
  <2>2. CASE Files!Barrier
    <3>1. KeptIn(fs, Files!Flushed(fs), policy.backups) /\ Safe(Files!Flushed(fs)) = LinesOf(fs)
      BY <1>1, FlushedIs
    <3> QED
      BY <2>2, <3>1 DEF Files!Barrier, KeptIn
  <2>3. CASE Files!Shutdown
    <3>1. KeptIn(fs, Files!Closed(fs), policy.backups) /\ Safe(Files!Closed(fs)) = LinesOf(fs)
      BY <1>1, ClosedIs
    <3> QED
      BY <2>3, <3>1 DEF Files!Shutdown, KeptIn
  <2> QED
    BY <2>1, <2>2, <2>3
<1>5. /\ \A t \in Threads :
           IF writing.is = "barrier" /\ writing.by = t
           THEN /\ logging'[t].call.at = "exit" /\ Files!LineOf(t)' = Files!LineOf(t)
                /\ logging'[t].call \in Calls
           ELSE logging'[t] = logging[t]
      /\ logging' \in [Threads -> [nth : Nat, call : Calls]]
  <2>1. CASE Files!Barrier
    <3>1. PICK b \in Threads : writing.is = "barrier" /\ writing.by = b
      BY <1>3, <2>1 DEF Files!Barrier, Commands
    <3> DEFINE c == [logging[b].call EXCEPT !.at = "exit"]
    <3>2. c \in Calls /\ c.at = "exit" /\ c.level = logging[b].call.level
      BY <1>1 DEF Calls
    <3>3. logging' = [logging EXCEPT ![b].call = c]
      BY <2>1, <3>1 DEF Files!Barrier, Files!Call
    <3> HIDE DEF c
    <3>4. /\ logging'[b].nth = logging[b].nth /\ logging'[b].call = c
          /\ \A t \in Threads \ {b} : logging'[t] = logging[t]
          /\ logging' \in [Threads -> [nth : Nat, call : Calls]]
      BY <1>1, <3>2, <3>3
    <3>5. Files!LineOf(b)' = Files!LineOf(b)
      BY <3>2, <3>4 DEF Files!LineOf
    <3> QED
      BY <3>1, <3>2, <3>4, <3>5
  <2>2. CASE Files!Reopen \/ Files!Shutdown
    BY <1>1, <2>2 DEF Files!Reopen, Files!Shutdown
  <2> QED
    BY <2>1, <2>2
<1>6. LogTypes'
  <2>1. writing' \in Commands \cup {Files!NoCmd}
    BY <1>2
  <2> QED
    BY <1>2, <1>5, <2>1 DEF LogInv, LogTypes
<1>7. CallsOK'
  BY <1>1, <1>5 DEF CallsOK
<1>8. /\ \A a \in LinesOf(fs') : Logged(logging', a)
      /\ QueueInOrder' /\ BarriersOK' /\ OwnLine' /\ Ends'
  <2>1. ended' = ended \/ (writing.is = "shutdown" /\ ended' = "closed")
    BY DEF Files!Reopen, Files!Barrier, Files!Shutdown
  <2>2. LinesOf(fs') = LinesOf(fs) \cup (IF writing.is = "line" THEN {writing.line} ELSE {})
    BY <1>2, <1>4 DEF KeptIn
  <2>3. Safe(fs) \subseteq Safe(fs')
    BY <1>4 DEF KeptIn
  <2> QED
    BY <1>2, <1>3, <1>4, <1>5, <2>1, <2>2, <2>3, DoneStep
<1> QED
  BY <1>2, <1>4, <1>6, <1>7, <1>8 DEF LogInv, KeptIn

\* A thread writes its error by itself: the error comes before what is queued.
LEMMA WriteDirectlyKeeps ==
    ASSUME LoggerAssumption, LogInv, Files!Running, NEW t \in Threads, Files!WriteDirectly(t)
    PROVE  LogInv' /\ LinesOf(fs') = LinesOf(fs) \cup {Files!LineOf(t)}
<1> DEFINE line == Files!LineOf(t)
<1>1. /\ logging[t].call.at = "direct"
      /\ fs' = Files!Written(fs, line, logging[t].call.path, TRUE)
      /\ Files!Call(t, Files!After(t))
      /\ UNCHANGED <<configured, enabled, cmds, writing, policy, ui, today, lowered, before,
                     ended, ops>>
  BY DEF Files!WriteDirectly
<1>2. /\ logging \in [Threads -> [nth : Nat, call : Calls]] /\ CallsOK
      /\ logging[t].nth \in Nat /\ logging[t].call \in Calls
      /\ FilesOK(fs) /\ Ordered(fs) /\ policy \in [size : Nat, backups : Nat]
  BY DEF LogInv, LogTypes
<1>3. /\ line \in LogLines /\ line.by = t /\ line.nth = logging[t].nth
      /\ line.level # "info" /\ logging[t].call.path \in Days
  BY <1>1, <1>2 DEF Files!LineOf, LogLines, Calls, CallsOK, Days, Files!NoFile, LoggerAssumption
<1> HIDE DEF line
<1>4. LinesOf(fs) \subseteq LogLines /\ \A a \in LinesOf(fs) : Logged(logging, a)
  BY <1>2, LinesAre DEF LogInv
<1>5. AllEarly(LinesOf(fs), {line})
  <2> SUFFICES ASSUME NEW a \in LinesOf(fs), a.by = t PROVE a.nth < line.nth
    BY <1>3 DEF AllEarly, Files!Early
  <2> QED
    BY <1>1, <1>3, <1>4 DEF Logged
<1>6. /\ FilesOK(fs') /\ Ordered(fs')
      /\ LinesOf(fs') = LinesOf(fs) \cup {line} /\ Safe(fs) \subseteq Safe(fs')
      /\ Safe(fs') = LinesOf(fs')
      /\ Oldest(fs, policy.backups) => Oldest(fs', policy.backups)
  <2>1. TRUE \in BOOLEAN
    OBVIOUS
  <2> QED
    BY <1>1, <1>2, <1>3, <1>5, <2>1, WrittenIs
<1>7. /\ Files!After(t) \in Calls /\ Files!After(t).at \in {Files!Idle, "barrier"}
      /\ Files!After(t).at = "barrier" => Files!After(t).level = logging[t].call.level
  <2>1. CASE logging[t].call.level = "fatal"
    BY <1>2, <2>1 DEF Files!After, Calls
  <2>2. CASE logging[t].call.level # "fatal"
    BY <2>2 DEF Files!After, Calls, Files!NoCall, Files!NoFile, LoggerAssumption, Files!Idle
  <2> QED
    BY <2>1, <2>2
<1>8. /\ logging'[t].nth = logging[t].nth /\ logging'[t].call = Files!After(t)
      /\ \A t2 \in Threads \ {t} : logging'[t2] = logging[t2]
      /\ logging' \in [Threads -> [nth : Nat, call : Calls]]
  BY <1>1, <1>2, <1>7 DEF Files!Call
<1>9. \A a \in LogLines : Logged(logging, a) => Logged(logging', a)
  <2> SUFFICES ASSUME NEW a \in LogLines, Logged(logging, a) PROVE Logged(logging', a)
    OBVIOUS
  <2>1. a.by \in Threads /\ a.nth \in Nat /\ logging[a.by].nth \in Nat
    BY <1>2 DEF LogLines
  <2>2. CASE a.by = t
    BY <1>1, <1>2, <1>7, <1>8, <2>1, <2>2 DEF Logged, Files!Idle
  <2>3. CASE a.by # t
    BY <1>8, <2>1, <2>3 DEF Logged
  <2> QED
    BY <2>2, <2>3
<1>10. \A a \in LinesOf(fs') : Logged(logging', a)
  <2>1. Logged(logging', line)
    BY <1>2, <1>3, <1>7, <1>8 DEF Logged, Files!Idle
  <2> QED
    BY <1>4, <1>6, <1>9, <2>1
<1>11. /\ Queue' = Queue /\ Queue \in Seq(Commands)
  BY <1>1, QueuedIs DEF Queue, LogInv
<1>12. QueueInOrder'
  <2> SUFFICES ASSUME NEW i \in DOMAIN Queue, Queue[i].is = "line"
               PROVE  /\ Logged(logging', Queue[i].line)
                      /\ \A a \in LinesOf(fs') : Files!Early(a, Queue[i].line)
                      /\ \A j \in DOMAIN Queue : i < j /\ Queue[j].is = "line" =>
                           Files!Early(Queue[i].line, Queue[j].line)
    BY <1>11 DEF QueueInOrder
  <2>1. /\ Logged(logging, Queue[i].line)
        /\ \A a \in LinesOf(fs) : Files!Early(a, Queue[i].line)
        /\ \A j \in DOMAIN Queue : i < j /\ Queue[j].is = "line" =>
             Files!Early(Queue[i].line, Queue[j].line)
    BY DEF LogInv, QueueInOrder
  <2>2. Queue[i].line \in LogLines
    BY <1>11 DEF Commands
  <2>3. Files!Early(line, Queue[i].line)
    BY <1>3 DEF Files!Early
  <2> QED
    BY <1>6, <1>9, <2>1, <2>2, <2>3
<1>13. ASSUME NEW S, NEW i, Drained(fs, Queue, S, i) PROVE Drained(fs', Queue', S, i)
  BY <1>6, <1>11, <1>13 DEF Drained
<1>14. BarriersOK'
  <2>1. ASSUME NEW i \in DOMAIN Queue, Queue[i].is = "barrier"
        PROVE  /\ logging'[Queue[i].by].call.at = "wait"
               /\ \A j \in DOMAIN Queue :
                    Queue[j].is = "barrier" /\ Queue[j].by = Queue[i].by => i = j
               /\ Drained(fs', Queue', before'[Queue[i].by], i)
    <3>1. /\ logging[Queue[i].by].call.at = "wait"
          /\ \A j \in DOMAIN Queue :
               Queue[j].is = "barrier" /\ Queue[j].by = Queue[i].by => i = j
          /\ Drained(fs, Queue, before[Queue[i].by], i)
      BY <2>1 DEF LogInv, BarriersOK
    <3>2. Queue[i].by \in Threads \ {t}
      BY <1>1, <1>11, <2>1, <3>1 DEF Commands
    <3>3. Drained(fs', Queue', before[Queue[i].by], i)
      BY <1>13, <3>1
    <3> QED
      BY <1>1, <1>8, <3>1, <3>2, <3>3
  <2>2. ASSUME NEW i \in DOMAIN Queue, Queue[i].is = "shutdown"
        PROVE  ended' # "no" /\ Drained(fs', Queue', before'[Files!Main], i)
    <3>1. ended # "no" /\ Drained(fs, Queue, before[Files!Main], i)
      BY <2>2 DEF LogInv, BarriersOK
    <3> QED
      BY <1>1, <1>13, <3>1
  <2> QED
    BY <1>11, <2>1, <2>2 DEF BarriersOK
<1>15. OwnLine'
  <2>1. ASSUME NEW t2 \in Threads, logging'[t2].call.at = "barrier"
        PROVE OnItsWay(Files!LineOf(t2))'
    <3>1. CASE t2 = t
      <4>1. Files!LineOf(t)' = line
        BY <1>7, <1>8, <2>1, <3>1 DEF Files!LineOf, line
      <4> QED
        BY <1>6, <3>1, <4>1 DEF OnItsWay
    <3>2. CASE t2 # t
      <4>1. OnItsWay(Files!LineOf(t2)) /\ Files!LineOf(t2)' = Files!LineOf(t2)
        BY <1>8, <2>1, <3>2 DEF LogInv, OwnLine, Files!LineOf
      <4> QED
        BY <1>6, <1>11, <4>1 DEF OnItsWay, InQueue
    <3> QED
      BY <3>1, <3>2
  <2>2. ASSUME NEW t2 \in Threads, logging'[t2].call.at = "wait"
        PROVE  Files!LineOf(t2)' \in before'[t2] \cup Safe(fs')
    <3>1. logging'[t2] = logging[t2]
      BY <1>7, <1>8, <2>2 DEF Files!Idle
    <3>2. Files!LineOf(t2) \in before[t2] \cup Safe(fs) /\ Files!LineOf(t2)' = Files!LineOf(t2)
      BY <2>2, <3>1 DEF LogInv, OwnLine, Files!LineOf
    <3> QED
      BY <1>1, <1>6, <3>2
  <2> QED
    BY <2>1, <2>2 DEF OwnLine
<1>16. Ends'
  <2>1. ASSUME NEW t2 \in Threads, logging'[t2].call.at = "exit"
        PROVE  before'[t2] \cup {Files!LineOf(t2)'} \subseteq Safe(fs')
    <3>1. logging'[t2] = logging[t2]
      BY <1>7, <1>8, <2>1 DEF Files!Idle
    <3>2. before[t2] \cup {Files!LineOf(t2)} \subseteq Safe(fs)
          /\ Files!LineOf(t2)' = Files!LineOf(t2)
      BY <2>1, <3>1 DEF LogInv, Ends, Files!LineOf
    <3> QED
      BY <1>1, <1>6, <3>2
  <2>2. ended' # "closed"
    BY <1>1 DEF Files!Running
  <2> QED
    BY <2>1, <2>2 DEF Ends
<1>17. LogTypes'
  BY <1>1, <1>8 DEF LogInv, LogTypes
<1>18. CallsOK'
  BY <1>2, <1>7, <1>8 DEF CallsOK, Files!Idle
<1>19. LinesOf(fs') = LinesOf(fs) \cup {Files!LineOf(t)}
  BY <1>6 DEF line
<1> QED
  BY <1>1, <1>6, <1>10, <1>12, <1>14, <1>15, <1>16, <1>17, <1>18, <1>19 DEF LogInv

\* Every step keeps the invariant.
LEMMA LogInvNext ==
    ASSUME LoggerAssumption, LogInv, [Files!Next]_Files!vars PROVE LogInv'
<1>1. CASE UNCHANGED Files!vars
  <2> USE <1>1 DEF Files!vars
  <2>1. Queue' = Queue
    BY DEF Queue
  <2>2. LogTypes' /\ CallsOK' /\ \A a \in LinesOf(fs') : Logged(logging', a)
    BY DEF LogInv, LogTypes, CallsOK
  <2>3. QueueInOrder'
    BY <2>1 DEF LogInv, QueueInOrder
  <2>4. BarriersOK'
    <3>1. \A S, i : Drained(fs, Queue, S, i) <=> Drained(fs', Queue', S, i)
      BY <2>1
    <3> QED
      BY <2>1, <3>1 DEF LogInv, BarriersOK
  <2>5. \A t \in Threads : Files!LineOf(t)' = Files!LineOf(t)
        /\ (OnItsWay(Files!LineOf(t)) => OnItsWay(Files!LineOf(t))')
    BY <2>1 DEF Files!LineOf, OnItsWay, InQueue
  <2>6. OwnLine' /\ Ends'
    BY <2>5 DEF LogInv, OwnLine, Ends
  <2> QED
    BY <2>2, <2>3, <2>4, <2>6, SameFiles
<1>2. CASE Files!Next
  <2>1. Files!Running
    BY <1>2 DEF Files!Next
  <2>2. ASSUME NEW t \in Threads,
               Files!Log(t) \/ Files!ReadPath(t) \/ Files!Enqueue(t) \/ Files!WriteDirectly(t)
                 \/ Files!PutBarrier(t)
                 \/ Files!QuickExit(t)
        PROVE  LogInv'
    BY <2>1, <2>2, LogKeeps, ReadPathKeeps, EnqueueKeeps, WriteDirectlyKeeps, PutBarrierKeeps,
       QuickExitKeeps
  <2>3. CASE Files!TakeCmd \/ Files!WriteLine \/ Files!Reopen \/ Files!Barrier \/ Files!Shutdown
    BY <2>1, <2>3, TakeCmdKeeps, WriteLineKeeps, WriterKeeps
  <2>4. CASE Files!ChangeOutput \/ Files!UiStep \/ Files!SetPolicy \/ Files!Midnight \/ Files!Exit
    BY <2>1, <2>4, UserKeeps, UiKeeps
  <2> QED
    BY <1>2, <2>2, <2>3, <2>4 DEF Files!Next
<1> QED
  BY <1>1, <1>2

-----------------------------------------------------------------------------
(* What follows from it.                                                   *)

\* A name of a file is made of its day and its number.
LEMMA NamesAre ==
    ASSUME NEW f, FilesOK(f), NEW n \in DOMAIN f.disk
    PROVE  n = <<n[1], n[2]>> /\ n[1] \in Days /\ n[2] \in Nat
BY DEF FilesOK

\* The files are in order if the invariant says so.
LEMMA OrderIs ==
    ASSUME LogInv PROVE Files!LinesInOrder
<1>1. FilesOK(fs) /\ Ordered(fs)
  BY DEF LogInv
<1> SUFFICES ASSUME NEW day \in 1..MaxDays, NEW k \in Files!Numbers(day),
    NEW l \in Files!Numbers(day),
                    NEW i \in DOMAIN fs.disk[<<day, k>>], NEW j \in DOMAIN fs.disk[<<day, l>>],
                    k > l \/ (k = l /\ i < j)
             PROVE  Files!Early(fs.disk[<<day, k>>][i], fs.disk[<<day, l>>][j])
  BY DEF Files!LinesInOrder
<1> DEFINE m == <<day, k>>
           n == <<day, l>>
<1>2. m \in DOMAIN fs.disk /\ n \in DOMAIN fs.disk
  BY <1>1, NamesAre DEF Files!Numbers
<1>3. m[1] = day /\ m[2] = k /\ n[1] = day /\ n[2] = l
  OBVIOUS
<1>4. CASE k = l /\ i < j
  <2>1. InOrder(fs.disk[m])
    BY <1>1, <1>2 DEF Ordered
  <2> QED
    BY <1>4, <2>1 DEF InOrder
<1>5. CASE k > l
  <2>1. AllEarly(Files!ToSet(fs.disk[m]), Files!ToSet(fs.disk[n]))
    <3> HIDE DEF m, n
    <3> QED
      BY <1>1, <1>2, <1>3, <1>5 DEF Ordered
  <2>2. fs.disk[m][i] \in Files!ToSet(fs.disk[m]) /\ fs.disk[n][j] \in Files!ToSet(fs.disk[n])
    BY DEF Files!ToSet
  <2> QED
    BY <2>1, <2>2 DEF AllEarly
<1> QED
  BY <1>4, <1>5

\* A rotation took the oldest if the invariant says so.
LEMMA GoneIs ==
    ASSUME LogInv PROVE Files!OldestGo
<1>1. FilesOK(fs)
  BY DEF LogInv
<1> SUFFICES ASSUME ~lowered, NEW g \in fs.gone, NEW k \in Files!Numbers(g[1]),
                    NEW line \in Files!ToSet(fs.disk[<<g[1], k>>])
             PROVE  Files!Early(g[2], line)
  BY DEF Files!OldestGo
<1>2. PICK n \in DOMAIN fs.disk : n[1] = g[1] /\ n[2] = k
  BY DEF Files!Numbers
<1>3. <<g[1], k>> = n
  BY <1>1, <1>2, NamesAre
<1>4. AllEarly({g[2]}, Files!ToSet(fs.disk[n]))
  BY <1>2 DEF LogInv, Oldest
<1> QED
  BY <1>3, <1>4 DEF AllEarly

\* The two modules count the members of a set by the same definition.
LEMMA SameCardinality ==
    ASSUME NEW S PROVE Files!Cardinality(S) = Cardinality(S)
  BY DEF Cardinality, Files!Cardinality

\* The files and the queue have the types that TLC checks.
LEMMA TypesAre ==
    ASSUME LogInv PROVE Files!TypeOK
<1>1. FilesOK(fs) /\ LogTypes
  BY DEF LogInv
<1>2. \A n \in DOMAIN fs.disk : n[1] \in 1..MaxDays /\ n[2] \in Nat
  BY <1>1, NamesAre DEF Days
<1>3. \A i \in DOMAIN cmds : cmds[i].is \in {"line", "reopen", "barrier", "shutdown"}
  BY <1>1 DEF LogTypes, Commands
<1>4. Files!Cardinality({i \in DOMAIN cmds : cmds[i].is = "line"}) <= MaxCmds
  BY <1>1, SameCardinality DEF LogTypes, LineCount
<1> QED
  BY <1>1, <1>2, <1>3, <1>4 DEF Files!TypeOK, FilesOK

\* For any threads, any size of the queue and any numbers of backups: the lines of a
\* thread are in the files in its order, what a rotation removes is older than
\* what stays, and an end of the program, also the one after a fatal error, has
\* what was on its way before it written out.
THEOREM LogFilesAreComplete ==
    ASSUME LoggerAssumption
    PROVE  Files!Spec =>
             [](Files!TypeOK /\ Files!FilesComplete)
<1>1. Files!Init => LogInv
  BY LogInvInit
<1>2. LogInv /\ [Files!Next]_Files!vars => LogInv'
  BY LogInvNext
<1>3. LogInv => Files!TypeOK /\ Files!FilesComplete
  <2> SUFFICES ASSUME LogInv PROVE Files!EndDrains
    BY TypesAre, OrderIs, GoneIs DEF Files!FilesComplete
  <2>1. Files!OnDisk \cup Files!Gone = Safe(fs)
    BY QueuedIs DEF LogInv
  <2> QED
    BY <2>1 DEF LogInv, Ends, Files!EndDrains
<1> QED
  BY <1>1, <1>2, <1>3, PTL DEF Files!Spec

\* Where the lines are.
LEMMA EverywhereIs == Files!Everywhere = LinesOf(fs) /\ Files!Everywhere' = LinesOf(fs')
BY DEF Files!Everywhere, Files!OnDisk, Files!Gone, LinesOf, Safe, DiskLines, GoneLines

\* What is put behind the queue leaves the lines in it.
LEMMA QueueGrows ==
    ASSUME LogTypes, writing' = writing,
           cmds' = cmds \/ \E x \in Commands : cmds' = Append(cmds, x)
    PROVE  Files!Queued \subseteq Files!Queued'
<1>1. CASE cmds' = cmds
  BY <1>1 DEF Files!Queued
<1>2. ASSUME NEW x \in Commands, cmds' = Append(cmds, x)
      PROVE Files!Queued \subseteq Files!Queued'
  <2>1. cmds \in Seq(Commands)
    BY DEF LogTypes
  <2>2. \A i \in DOMAIN cmds : i \in DOMAIN cmds' /\ cmds'[i] = cmds[i]
    BY <1>2, <2>1, RowIs
  <2> QED
    BY <2>2 DEF Files!Queued
<1> QED
  BY <1>1, <1>2

\* No step loses a line that is on its way or in the files.
LEMMA NothingIsLost ==
    ASSUME LoggerAssumption, LogInv, Files!Next
    PROVE  Files!Queued \cup Files!Everywhere \subseteq Files!Queued' \cup Files!Everywhere'
<1>1. LogTypes /\ Files!Running /\ cmds \in Seq(Commands)
  BY DEF LogInv, LogTypes, Files!Next
<1>2. CASE fs' = fs /\ writing' = writing
               /\ (cmds' = cmds \/ \E x \in Commands : cmds' = Append(cmds, x))
  BY <1>1, <1>2, QueueGrows, EverywhereIs
<1>3. ASSUME NEW t \in Threads,
             Files!Log(t) \/ Files!ReadPath(t) \/ Files!Enqueue(t) \/ Files!WriteDirectly(t)
               \/ Files!PutBarrier(t)
               \/ Files!QuickExit(t)
      PROVE  Files!Queued \cup Files!Everywhere \subseteq Files!Queued' \cup Files!Everywhere'
  <2>1. CASE Files!Log(t) \/ Files!ReadPath(t) \/ Files!QuickExit(t)
    BY <1>2, <2>1 DEF Files!Log, Files!ReadPath, Files!QuickExit
  <2>2. CASE Files!Enqueue(t)
    <3>1. logging[t].call.at = "queue" /\ logging[t].call \in Calls /\ logging[t].nth \in Nat
          /\ logging[t].call.path \in Days
      BY <1>1, <2>2 DEF Files!Enqueue, LogInv, LogTypes, CallsOK, Calls, Days, Files!NoFile,
         LoggerAssumption
    <3>2. Files!Cmd(t) \in Commands
      BY <3>1 DEF Files!Cmd, Files!LineOf, Commands, LogLines, Calls
    <3> QED
      BY <1>2, <2>2, <3>2 DEF Files!Enqueue
  <2>3. CASE Files!PutBarrier(t)
    <3>1. [is |-> "barrier", by |-> t] \in Commands
      BY DEF Commands
    <3> QED
      BY <1>2, <2>3, <3>1 DEF Files!PutBarrier
  <2>4. CASE Files!WriteDirectly(t)
    <3>1. Files!Queued' = Files!Queued
      BY <2>4 DEF Files!WriteDirectly, Files!Queued
    <3>2. LinesOf(fs) \subseteq LinesOf(fs')
      BY <1>1, <2>4, WriteDirectlyKeeps
    <3> QED
      BY <3>1, <3>2, EverywhereIs
  <2> QED
    BY <1>3, <2>1, <2>2, <2>3, <2>4
<1>4. CASE Files!TakeCmd
  <2>1. /\ cmds # <<>> /\ writing.is = Files!Idle /\ fs' = fs
        /\ writing' = Head(cmds) /\ cmds' = Tail(cmds)
    BY <1>4 DEF Files!TakeCmd
  <2>2. \A i \in DOMAIN cmds : cmds[i] = Head(cmds)
        \/ \E j \in DOMAIN Tail(cmds) : Tail(cmds)[j] = cmds[i]
    <3> SUFFICES ASSUME NEW i \in DOMAIN cmds, i # 1
                 PROVE  \E j \in DOMAIN Tail(cmds) : Tail(cmds)[j] = cmds[i]
      BY <1>1, <2>1
    <3>1. i - 1 \in DOMAIN Tail(cmds) /\ Tail(cmds)[i - 1] = cmds[i]
      BY <1>1, <2>1
    <3> QED
      BY <3>1
  <2>3. Files!Queued = {cmds[i].line : i \in {j \in DOMAIN cmds : cmds[j].is = "line"}}
    BY <2>1 DEF Files!Queued, Files!Idle
  <2>4. ASSUME NEW i \in DOMAIN cmds, cmds[i].is = "line" PROVE cmds[i].line \in Files!Queued'
    <3>1. CASE cmds[i] = Head(cmds)
      BY <2>1, <2>4, <3>1 DEF Files!Queued
    <3>2. ASSUME NEW j \in DOMAIN Tail(cmds), Tail(cmds)[j] = cmds[i]
          PROVE  cmds[i].line \in Files!Queued'
      BY <2>1, <2>4, <3>2 DEF Files!Queued
    <3> QED
      BY <2>2, <3>1, <3>2
  <2>5. Files!Queued \subseteq Files!Queued'
    BY <2>3, <2>4
  <2> QED
    BY <2>1, <2>5, EverywhereIs
<1>5. CASE Files!WriteLine
  <2>1. /\ LinesOf(fs') = LinesOf(fs) \cup {writing.line}
        /\ cmds' = cmds /\ writing.is = "line"
    BY <1>1, <1>5, WriteLineKeeps DEF Files!WriteLine
  <2>2. Files!Queued \subseteq Files!Queued' \cup {writing.line}
    BY <2>1 DEF Files!Queued
  <2> QED
    BY <2>1, <2>2, EverywhereIs
<1>6. CASE Files!Reopen \/ Files!Barrier \/ Files!Shutdown
  <2>1. LinesOf(fs') = LinesOf(fs) /\ cmds' = cmds /\ writing.is # "line"
    BY <1>1, <1>6, WriterKeeps DEF Files!Reopen, Files!Barrier, Files!Shutdown
  <2>2. Files!Queued \subseteq Files!Queued'
    BY <2>1 DEF Files!Queued
  <2> QED
    BY <2>1, <2>2, EverywhereIs
<1>7. CASE Files!ChangeOutput \/ Files!SetPolicy \/ Files!Midnight
  BY <1>2, <1>7 DEF Files!ChangeOutput, Files!SetPolicy, Files!Midnight
<1>8. CASE Files!UiStep
  <2>1. [is |-> "reopen", path |-> Files!Path] \in Commands
    <3>1. Files!Path \in 0..MaxDays
      BY <1>1 DEF Files!Path, LogTypes, Days, Files!NoFile, LoggerAssumption
    <3> QED
      BY <3>1 DEF Commands
  <2> QED
    BY <1>2, <1>8, <2>1 DEF Files!UiStep
<1>9. CASE Files!Exit
  <2>1. [is |-> "shutdown"] \in Commands
    BY DEF Commands
  <2> QED
    BY <1>2, <1>9, <2>1 DEF Files!Exit
<1> QED
  BY <1>3, <1>4, <1>5, <1>6, <1>7, <1>8, <1>9 DEF Files!Next

\* A call with an error ends with the line on its way or in the files.
LEMMA ErrorGoesOn ==
    ASSUME LoggerAssumption, LogInv, Files!Next, NEW t \in Threads,
           logging[t].call.at \in {"queue", "direct"}, logging[t].call.level # "info",
           logging'[t].call.at \notin {"queue", "direct"}
    PROVE  Files!LineOf(t) \in Files!Queued' \cup Files!Everywhere'
<1>1. /\ LogTypes /\ Files!Running /\ cmds \in Seq(Commands) /\ BarriersOK
      /\ logging \in [Threads -> [nth : Nat, call : Calls]]
  BY DEF LogInv, LogTypes, Files!Next
<1>2. ASSUME NEW t2 \in Threads \ {t}, NEW c, Files!Call(t2, c) PROVE FALSE
  BY <1>1, <1>2 DEF Files!Call
<1>3. logging' # logging
  OBVIOUS
<1>4. ASSUME NEW t2 \in Threads,
             Files!Log(t2) \/ Files!ReadPath(t2) \/ Files!PutBarrier(t2) \/ Files!QuickExit(t2)
      PROVE  FALSE
  <2>1. logging[t2].call.at \notin {"queue", "direct"}
    BY <1>4 DEF Files!Log, Files!ReadPath, Files!PutBarrier, Files!QuickExit, Files!Idle
  <2>2. t2 \in Threads \ {t}
    BY <2>1
  <2>3. CASE Files!Log(t2)
    BY <1>1, <2>2, <2>3 DEF Files!Log
  <2> QED
    BY <1>2, <1>4, <2>2, <2>3 DEF Files!ReadPath, Files!PutBarrier, Files!QuickExit
<1>5. ASSUME NEW t2 \in Threads, Files!Enqueue(t2)
      PROVE Files!LineOf(t) \in Files!Queued' \cup Files!Everywhere'
  <2>1. t2 = t
    BY <1>2, <1>5 DEF Files!Enqueue
  <2>2. CASE Len(cmds) < MaxCmds
    <3>1. cmds' = Append(cmds, Files!Cmd(t))
      BY <1>5, <2>1, <2>2 DEF Files!Enqueue
    <3>2. /\ Len(cmds) + 1 \in DOMAIN cmds' /\ cmds'[Len(cmds) + 1] = Files!Cmd(t)
      BY <1>1, <3>1
    <3>3. Files!Cmd(t).is = "line" /\ Files!Cmd(t).line = Files!LineOf(t)
      BY DEF Files!Cmd
    <3> QED
      BY <3>2, <3>3 DEF Files!Queued
  <2>3. CASE ~(Len(cmds) < MaxCmds)
    <3>1. logging' = [logging EXCEPT ![t].call = [logging[t].call EXCEPT !.at = "direct"]]
      BY <1>5, <2>1, <2>3 DEF Files!Enqueue, Files!Call
    <3>2. logging'[t].call.at = "direct"
      BY <1>1, <3>1 DEF Calls
    <3> QED
      BY <3>2
  <2> QED
    BY <2>2, <2>3
<1>6. ASSUME NEW t2 \in Threads, Files!WriteDirectly(t2)
      PROVE Files!LineOf(t) \in Files!Queued' \cup Files!Everywhere'
  <2>1. t2 = t
    BY <1>2, <1>6 DEF Files!WriteDirectly
  <2> QED
    BY <1>1, <1>6, <2>1, WriteDirectlyKeeps, EverywhereIs
<1>7. CASE Files!Barrier
  <2>1. PICK b \in Threads : writing.is = "barrier" /\ writing.by = b
    BY <1>1, <1>7 DEF Files!Barrier, LogTypes, Commands, Files!NoCmd, Files!Idle
  <2>2. Queue \in Seq(Commands) /\ 1 \in DOMAIN Queue /\ Queue[1] = writing
    <3>1. writing \in Commands \cup {Files!NoCmd} /\ writing.is # Files!Idle
      BY <1>1, <2>1 DEF LogTypes, Files!Idle
    <3>2. Queue \in Seq(Commands) /\ Queue # <<>> /\ Queue[1] = writing
      BY <1>1, <3>1, QueueIs DEF Queue
    <3> QED
      BY <3>2, RowIs
  <2>3. logging[b].call.at = "wait"
    BY <1>1, <2>1, <2>2 DEF BarriersOK
  <2>4. b \in Threads \ {t}
    BY <2>3
  <2> QED
    BY <1>2, <1>7, <2>1, <2>4 DEF Files!Barrier
<1>8. CASE Files!TakeCmd \/ Files!WriteLine \/ Files!Reopen \/ Files!Shutdown
      \/ Files!ChangeOutput \/ Files!UiStep \/ Files!SetPolicy
             \/ Files!Midnight \/ Files!Exit
  BY <1>3, <1>8 DEF Files!TakeCmd, Files!WriteLine, Files!Reopen, Files!Shutdown,
     Files!ChangeOutput, Files!UiStep, Files!SetPolicy,
                    Files!Midnight, Files!Exit
<1> QED
  BY <1>4, <1>5, <1>6, <1>7, <1>8 DEF Files!Next

\* No step drops a line that was taken: an error that found the output on gets to
\* the queue or to the file, and what is on its way or in the files stays so.
THEOREM ErrorsAreKept ==
    ASSUME LoggerAssumption
    PROVE  Files!Spec => Files!ErrorsKept
<1> DEFINE Keeps ==
      /\ \A t \in Threads :
           /\ logging[t].call.at \in {"queue", "direct"} /\ logging[t].call.level # "info"
           /\ logging'[t].call.at \notin {"queue", "direct"}
           => Files!LineOf(t) \in Files!Queued' \cup Files!Everywhere'
      /\ Files!Queued \cup Files!Everywhere \subseteq Files!Queued' \cup Files!Everywhere'
<1>1. Files!Init => LogInv
  BY LogInvInit
<1>2. LogInv /\ [Files!Next]_Files!vars => LogInv'
  BY LogInvNext
<1>3. LogInv /\ [Files!Next]_Files!vars => [Keeps]_Files!vars
  <2> SUFFICES ASSUME LogInv, Files!Next PROVE Keeps
    OBVIOUS
  <2> QED
    BY NothingIsLost, ErrorGoesOn
<1> QED
  BY <1>1, <1>2, <1>3, PTL DEF Files!Spec, Files!ErrorsKept
=============================================================================
