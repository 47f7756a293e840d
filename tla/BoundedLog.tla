----------------------------- MODULE BoundedLog -----------------------------
(***************************************************************************)
(* What a full log promises: entries are kept in the order they came, an   *)
(* entry that finds the log full is dropped and nothing is overwritten.    *)
(***************************************************************************)
EXTENDS Naturals, Sequences

CONSTANTS Entries, Capacity

VARIABLES
    queue,      \* the entries, oldest first
    lost        \* the entries that were dropped

Init == queue = <<>> /\ lost = {}

Append1(e) == Len(queue) < Capacity /\ queue' = Append(queue, e) /\ UNCHANGED lost

Drop(e) == Len(queue) = Capacity /\ lost' = lost \cup {e} /\ UNCHANGED queue

Remove == queue # <<>> /\ queue' = Tail(queue) /\ UNCHANGED lost

Next == Remove \/ \E e \in Entries : Append1(e) \/ Drop(e)

Spec == Init /\ [][Next]_<<queue, lost>>
=============================================================================
