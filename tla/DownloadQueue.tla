--------------------------- MODULE DownloadQueue ---------------------------
(***************************************************************************)
(* What the RSS download pipeline promises its callers, without threads,   *)
(* pump events or in-flight counters: a first-in first-out queue of        *)
(* download requests, of which at most `limit' new ones are begun at a     *)
(* time, and each of which is completed at most once.                      *)
(***************************************************************************)
EXTENDS Integers, Sequences, FiniteSets

CONSTANT Items       \* the download requests

VARIABLES
  waiting,           \* requests accepted and not yet begun, oldest first
  running,           \* requests begun and not yet completed
  outcome,           \* what became of each request
  limit              \* how many requests may be running when one is begun

vars == <<waiting, running, outcome, limit>>

Outcomes == {"none", "ok", "fail"}

Known == running \cup {waiting[k] : k \in DOMAIN waiting}

Init ==
  /\ waiting = <<>>
  /\ running = {}
  /\ outcome = [i \in Items |-> "none"]
  /\ limit \in Nat \ {0}

\* A request not seen before is accepted.
Submit(i) ==
  /\ i \notin Known
  /\ outcome[i] = "none"
  /\ waiting' = Append(waiting, i)
  /\ UNCHANGED <<running, outcome, limit>>

\* The caller changes the limit; it never forbids all progress.
SetLimit ==
  /\ limit' \in Nat \ {0}
  /\ UNCHANGED <<waiting, running, outcome>>

\* The oldest waiting request is begun, when a slot is free.
Begin ==
  /\ waiting # <<>>
  /\ Cardinality(running) < limit
  /\ running' = running \cup {Head(waiting)}
  /\ waiting' = Tail(waiting)
  /\ UNCHANGED <<outcome, limit>>

\* A running request is settled, and its slot is free again.
Complete(i) ==
  /\ i \in running
  /\ running' = running \ {i}
  /\ \E r \in {"ok", "fail"} : outcome' = [outcome EXCEPT ![i] = r]
  /\ UNCHANGED <<waiting, limit>>

Next ==
  \/ \E i \in Items : Submit(i) \/ Complete(i)
  \/ SetLimit
  \/ Begin

Spec == Init /\ [][Next]_vars
=============================================================================
