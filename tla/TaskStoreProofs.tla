--------------------------- MODULE TaskStoreProofs ---------------------------
(***************************************************************************)
(* Proofs about TaskStore, for any finite set of tasks and any number of   *)
(* clicks and of changes of the torrents: the list of tasks follows the    *)
(* session, the table follows the list, what has finished is announced and *)
(* a status that a click has set is held.                                  *)
(*                                                                         *)
(* The second part is about TaskTable, which shows the list: the rows, the *)
(* selection and the detail panel belong together, survive a refresh, and  *)
(* a menu acts on what the user has selected.                              *)
(*                                                                         *)
(* The third part is about ContentPage, the page of a task's files: its    *)
(* rows say what was asked, and what is asked goes where it was meant.     *)
(*                                                                         *)
(* The fourth part is about TrackerPage, the page of a task's trackers: a  *)
(* command leaves the trackers it does not name as they are.               *)
(*                                                                         *)
(* The fifth part is about CookieManager, the dialog for the cookies: what *)
(* is removed, what is refused and what comes back.                        *)
(***************************************************************************)
EXTENDS TaskStore, TLAPS, FiniteSetTheorems, SequenceTheorems, WellFoundedInduction

-----------------------------------------------------------------------------
(* Folds over a sequence.                                                   *)

\* Induction over the natural numbers, for a set: what is not in the set has no
\* smallest element.
LEMMA SetInduction ==
    ASSUME NEW T, 0 \in T, \A n \in Nat : n \in T => n + 1 \in T
    PROVE  \A n \in Nat : n \in T
<1> DEFINE D == Nat \ T
           R == OpToRel(<, Nat)
<1> SUFFICES ASSUME D # {} PROVE FALSE
  OBVIOUS
<1>1. IsWellFoundedOn(R, Nat)
  BY NatLessThanWellFounded
<1>2. \A x, y \in Nat : y < x => <<y, x>> \in R
  BY DEF OpToRel
<1> HIDE DEF R
<1>3. D \subseteq Nat
  OBVIOUS
<1> HIDE DEF D
<1>4. PICK x \in D : \A y \in D : ~(<<y, x>> \in R)
  BY <1>1, <1>3, WFMin
<1> USE DEF D
<1>5. x # 0 /\ x - 1 \in Nat /\ x \in Nat
  OBVIOUS
<1>6. x - 1 \in T
  <2>1. <<x - 1, x>> \in R
    BY <1>2, <1>5
  <2> QED
    BY <1>4, <1>5, <2>1
<1> QED
  BY <1>5, <1>6

\* The largest of the numbers up to m + 1, if that is among them.
LEMMA MaxIsLast ==
    ASSUME NEW m \in Nat, NEW s \in SUBSET (1 .. m + 1), m + 1 \in s
    PROVE  Max(s) = m + 1
<1>1. \A y \in s : m + 1 >= y
  OBVIOUS
<1>2. \A x \in s : (\A y \in s : x >= y) => x = m + 1
  OBVIOUS
<1> QED
  BY <1>1, <1>2 DEF Max

\* The equation of a fold from b by the functions G[1], G[2], ... has a solution
\* on the sets of positions up to n.
Folds(f, b, G, n) ==
    f = [s \in SUBSET (1 .. n) |-> IF s = {} THEN b ELSE G[Max(s)][f[s \ {Max(s)}]]]

\* The equation has a solution: by induction over the number of positions, each
\* solution extends the one before.
LEMMA FoldExists ==
    ASSUME NEW S, NEW n \in Nat, NEW G \in [1 .. n -> [S -> S]], NEW b \in S
    PROVE  \E f \in [SUBSET (1 .. n) -> S] : Folds(f, b, G, n)
<1> DEFINE T == {m \in Nat : m <= n => \E f \in [SUBSET (1 .. m) -> S] : Folds(f, b, G, m)}
<1>1. 0 \in T
  <2> DEFINE f == [s \in SUBSET (1 .. 0) |-> b]
  <2>1. \A s \in SUBSET (1 .. 0) : s = {}
    OBVIOUS
  <2>2. f \in [SUBSET (1 .. 0) -> S]
    OBVIOUS
  <2>3. f = [s \in SUBSET (1 .. 0) |-> IF s = {} THEN b ELSE G[Max(s)][f[s \ {Max(s)}]]]
    BY <2>1
  <2> QED
    BY <2>2, <2>3 DEF Folds
<1>2. ASSUME NEW m \in Nat, m \in T, m + 1 <= n
      PROVE  \E f \in [SUBSET (1 .. m + 1) -> S] : Folds(f, b, G, m + 1)
  <2>0. m <= n
    BY <1>2
  <2>1. PICK e \in [SUBSET (1 .. m) -> S] : Folds(e, b, G, m)
    BY <1>2, <2>0 DEF T
  <2> DEFINE f == [s \in SUBSET (1 .. m + 1) |->
                     IF m + 1 \in s THEN G[m + 1][e[s \ {m + 1}]] ELSE e[s]]
  <2>2. \A s \in SUBSET (1 .. m + 1) : s \ {m + 1} \in SUBSET (1 .. m)
    OBVIOUS
  <2>3. \A s \in SUBSET (1 .. m + 1) : m + 1 \notin s => s \in SUBSET (1 .. m)
    OBVIOUS
  <2>4. f \in [SUBSET (1 .. m + 1) -> S]
    <3>1. m + 1 \in 1 .. n
      BY <1>2
    <3>2. G[m + 1] \in [S -> S]
      BY <3>1
    <3> QED
      BY <2>2, <2>3, <3>2
  <2>5. \A s \in SUBSET (1 .. m) : f[s] = e[s]
    <3>1. \A s \in SUBSET (1 .. m) : s \in SUBSET (1 .. m + 1) /\ m + 1 \notin s
      OBVIOUS
    <3> QED
      BY <3>1
  <2>6. ASSUME NEW s \in SUBSET (1 .. m + 1)
        PROVE  f[s] = IF s = {} THEN b ELSE G[Max(s)][f[s \ {Max(s)}]]
    <3>1. CASE m + 1 \in s
      <4>1. Max(s) = m + 1 /\ s # {}
        BY <3>1, MaxIsLast
      <4>2. f[s \ {m + 1}] = e[s \ {m + 1}]
        BY <2>2, <2>5
      <4>3. f[s] = G[m + 1][e[s \ {m + 1}]]
        BY <3>1
      <4> HIDE DEF f
      <4> QED
        BY <4>1, <4>2, <4>3
    <3>2. CASE m + 1 \notin s
      <4>1. s \in SUBSET (1 .. m) /\ s \ {Max(s)} \in SUBSET (1 .. m)
        BY <2>3, <3>2
      <4>2. e[s] = IF s = {} THEN b ELSE G[Max(s)][e[s \ {Max(s)}]]
        BY <2>1, <4>1 DEF Folds
      <4> HIDE DEF f
      <4> QED
        BY <2>5, <4>1, <4>2
    <3> QED
      BY <3>1, <3>2
  <2>7. Folds(f, b, G, m + 1)
    <3>1. f = [s \in SUBSET (1 .. m + 1) |-> f[s]]
      OBVIOUS
    <3> HIDE DEF f
    <3> QED
      BY <2>6, <3>1 DEF Folds
  <2> HIDE DEF f
  <2> QED
    BY <2>4, <2>7
<1>3. ASSUME NEW m \in Nat, m \in T PROVE m + 1 \in T
  <2>1. CASE m + 1 <= n
    <3>1. \E f \in [SUBSET (1 .. m + 1) -> S] : Folds(f, b, G, m + 1)
      BY <1>2, <1>3, <2>1
    <3> QED
      BY <3>1
  <2>2. CASE ~(m + 1 <= n)
    BY <2>2
  <2> QED
    BY <2>1, <2>2
<1> HIDE DEF T
<1>4. \A m \in Nat : m \in T
  BY <1>1, <1>3, SetInduction
<1>5. n \in T /\ n <= n
  BY <1>4
<1> QED
  BY <1>5 DEF T

\* A function on the sets of positions that follows the rule of the fold as long
\* as it stays in S; and the states the fold goes through.
FoldRule(f, b, G, n, S) ==
    /\ f[{}] = b
    /\ \A s \in SUBSET (1 .. n) :
         s # {} /\ f[s \ {Max(s)}] \in S => f[s] = G[Max(s)][f[s \ {Max(s)}]]

FoldPath(h, f, b, G, n) ==
    /\ h[0] = b /\ h[n] = f[1 .. n]
    /\ \A i \in 1 .. n : h[i] = G[i][h[i - 1]]

\* What follows the rule goes through states of S only.
LEMMA FoldSteps ==
    ASSUME NEW S, NEW n \in Nat, NEW G \in [1 .. n -> [S -> S]], NEW b \in S, NEW f,
           FoldRule(f, b, G, n, S)
    PROVE  \E h \in [0 .. n -> S] : FoldPath(h, f, b, G, n)
<1>0. /\ f[{}] = b
      /\ \A s \in SUBSET (1 .. n) :
           s # {} /\ f[s \ {Max(s)}] \in S => f[s] = G[Max(s)][f[s \ {Max(s)}]]
  BY DEF FoldRule
<1>1. \A i \in 1 .. n : f[1 .. (i - 1)] \in S => f[1 .. i] = G[i][f[1 .. (i - 1)]]
  <2> SUFFICES ASSUME NEW i \in 1 .. n, f[1 .. (i - 1)] \in S
               PROVE  f[1 .. i] = G[i][f[1 .. (i - 1)]]
    OBVIOUS
  <2>1. i - 1 \in Nat /\ (i - 1) + 1 = i /\ 1 .. i \in SUBSET (1 .. n) /\ i \in 1 .. i
    OBVIOUS
  <2>2. Max(1 .. i) = i
    BY <2>1, MaxIsLast
  <2>3. (1 .. i) \ {i} = 1 .. (i - 1)
    OBVIOUS
  <2>4. 1 .. i # {}
    BY <2>1
  <2> QED
    BY <1>0, <2>1, <2>2, <2>3, <2>4
<1> DEFINE T == {i \in Nat : i <= n => f[1 .. i] \in S}
<1>2. 1 .. 0 = {}
  OBVIOUS
<1>3. 0 \in T
  BY <1>0, <1>2
<1>4. \A i \in Nat : i \in T => i + 1 \in T
  <2> SUFFICES ASSUME NEW i \in Nat, i \in T, i + 1 <= n PROVE f[1 .. i + 1] \in S
    OBVIOUS
  <2>1. f[1 .. i] \in S
    OBVIOUS
  <2>2. i + 1 \in 1 .. n /\ (i + 1) - 1 = i
    OBVIOUS
  <2>3. f[1 .. i + 1] = G[i + 1][f[1 .. i]]
    BY <1>1, <2>1, <2>2
  <2>4. G[i + 1] \in [S -> S]
    BY <2>2
  <2> QED
    BY <2>1, <2>3, <2>4
<1> HIDE DEF T
<1>5. \A i \in Nat : i \in T
  BY <1>3, <1>4, SetInduction
<1>6. \A i \in 0 .. n : f[1 .. i] \in S
  BY <1>5 DEF T
<1> DEFINE h == [i \in 0 .. n |-> f[1 .. i]]
<1>7. h \in [0 .. n -> S] /\ h[0] = b /\ h[n] = f[1 .. n]
  BY <1>0, <1>2, <1>6
<1>8. \A i \in 1 .. n : h[i] = G[i][h[i - 1]]
  <2> SUFFICES ASSUME NEW i \in 1 .. n PROVE h[i] = G[i][h[i - 1]]
    OBVIOUS
  <2>1. i \in 0 .. n /\ i - 1 \in 0 .. n
    OBVIOUS
  <2>2. h[i] = f[1 .. i] /\ h[i - 1] = f[1 .. (i - 1)]
    BY <2>1
  <2> HIDE DEF h
  <2> QED
    BY <1>1, <1>6, <2>1, <2>2
<1> HIDE DEF h
<1> QED
  BY <1>7, <1>8 DEF FoldPath

-----------------------------------------------------------------------------
(* The invariant.                                                          *)

\* A view that the task list takes a task's state from, rightly or wrongly.
Decides(v) == v.kind \in {"removed", "error", "progress"}

DecidedIn(evs, t) == \E i \in DOMAIN evs : evs[i].task = t /\ Decides(evs[i])

\* What the list has to say in the end of a task whose torrent is s.
Expected(s) == IF s.there THEN Mapped(s) ELSE Absent

\* The view is true of the torrent as it is now.  An error alert may not be.
Right(s, v) ==
    \/ v.kind = "error"
    \/ v.kind = "progress" /\ s.there /\ v.status = Mapped(s)
    \/ v.kind = "removed" /\ ~s.there

\* Every view of the task is true, or another of the batch decides after it.
Settles(s, evs, t) ==
    \A i \in DOMAIN evs :
        evs[i].task = t /\ evs[i].kind # "duplicate" =>
            \/ Right(s, evs[i])
            \/ \E j \in DOMAIN evs : j > i /\ evs[j].task = t /\ Decides(evs[j])

\* Of the batches posted and the one to come, the last that decides is true.
Told(s, batches, coming, t) ==
    /\ Settles(s, coming, t)
    /\ \/ DecidedIn(coming, t)
       \/ \A b \in DOMAIN batches :
            \/ Settles(s, batches[b], t)
            \/ \E c \in DOMAIN batches : c > b /\ DecidedIn(batches[c], t)

Pending(batches, coming, t) ==
    \/ DecidedIn(coming, t)
    \/ \E b \in DOMAIN batches : DecidedIn(batches[b], t)

\* A change is yet to be reported, or what is under way tells the truth; and
\* the list is right about the task, known to be wrong, or will be told.
Followed(t) ==
    t \notin changed =>
        /\ Told(session[t], posted, alerts, t)
        /\ t \in gaps \/ store[t] = Expected(session[t]) \/ Pending(posted, alerts, t)

\* Nothing of a task follows its removal in the same batch.
RemovedLast(evs) ==
    \A i, j \in DOMAIN evs : evs[i].kind = "removed" /\ j > i => evs[j].task # evs[i].task

\* The handle of a removed torrent is kept until its alert is popped.
RemovalsHeld ==
    \A i \in DOMAIN alerts :
        alerts[i].kind = "removed" =>
            alerts[i].task \in known /\ ~session[alerts[i].task].there

Removals ==
    /\ RemovalsHeld /\ RemovedLast(alerts)
    /\ \A b \in DOMAIN posted : RemovedLast(posted[b])

Views ==
    [kind : {"added", "removed", "error", "progress", "duplicate"}, task : Tasks,
     status : Status]

\* A progress alert tells a state that mapTorrentState can give.
InTransit(evs) ==
    /\ evs \in Seq(Views)
    /\ \A i \in DOMAIN evs : evs[i].kind = "progress" => evs[i].status # "unknown"

Torrents == [there : BOOLEAN, phase : Phases \cup {"downloading"}, paused : BOOLEAN]
Cmds == [op : {"Add", "Pause", "Resume", "Remove"}, task : Tasks]
Entries == Status \cup {Absent}

SessionTypes ==
    /\ session \in [Tasks -> Torrents]
    /\ changed \subseteq {t \in Tasks : session[t].there}
    /\ known \subseteq Tasks

QueueTypes ==
    /\ cmds \in Seq(Cmds)
    /\ posted \in Seq(Seq(Views) \ {<<>>})
    /\ \A b \in DOMAIN posted : InTransit(posted[b])
    /\ InTransit(alerts)

ListTypes ==
    /\ store \in [Tasks -> Entries]
    /\ lock \in [Tasks -> {"none", "held", "over"}]
    /\ notified \subseteq Tasks /\ notices \in Nat
    /\ refresh \in BOOLEAN
    /\ shown \in [Tasks -> Entries]
    /\ menu \in [task : Tasks, status : Status] \cup {NoMenu}
    /\ gaps \subseteq Tasks

BoundTypes == ops \in 0 .. MaxOps /\ turns \in 0 .. MaxTurns

\* The positions of a queue that hold an element of a set.
Positions(q, P) == {i \in DOMAIN q : q[i] \in P}

Additions == {c \in Cmds : c.op = "Add"}
HasDuplicate(evs) == \E i \in DOMAIN evs : evs[i].kind = "duplicate"
Answers == {evs \in Seq(Views) : HasDuplicate(evs)}

\* Every open message box is owed to an operation of the user, and so is every
\* one that an addition or an answer under way can open.
Owed ==
    Cardinality(Positions(cmds, Additions)) + Cardinality(Positions(posted, Answers))
        + (IF alerts \in Answers THEN 1 ELSE 0) + notices <= ops

Inv ==
    /\ SessionTypes /\ QueueTypes /\ ListTypes /\ BoundTypes
    /\ \A t \in Tasks : Followed(t)
    /\ Removals
    /\ NoLostRefresh /\ FinishedAnnounced
    /\ Owed

\* The tasks are finitely many, and the phases are those that mapTorrentState
\* gives to a torrent that is not paused.
TaskAssumption ==
    /\ IsFiniteSet(Tasks)
    /\ Phases \subseteq {"queued", "checking", "downloading", "seeding", "finished"}
    /\ MaxOps \in Nat /\ MaxTurns \in Nat

-----------------------------------------------------------------------------
(* Batches.                                                                *)

\* A set of positions that is not empty has a last one.
LEMMA LastPosition ==
    ASSUME NEW n \in Nat, NEW P \in SUBSET (1 .. n), P # {}
    PROVE  \E i \in P : \A j \in P : j <= i
<1> DEFINE T == {m \in Nat : \A Q \in SUBSET (1 .. m) : Q # {} => \E i \in Q : \A j \in Q : j <= i}
<1>1. 0 \in T
  <2>1. \A Q \in SUBSET (1 .. 0) : Q = {}
    OBVIOUS
  <2> QED
    BY <2>1
<1>2. ASSUME NEW m \in Nat, m \in T PROVE m + 1 \in T
  <2> SUFFICES ASSUME NEW Q \in SUBSET (1 .. m + 1), Q # {}
               PROVE  \E i \in Q : \A j \in Q : j <= i
    OBVIOUS
  <2>1. CASE m + 1 \in Q
    <3>1. \A j \in Q : j <= m + 1
      OBVIOUS
    <3> QED
      BY <2>1, <3>1
  <2>2. CASE m + 1 \notin Q
    <3>1. Q \in SUBSET (1 .. m)
      BY <2>2
    <3> QED
      BY <1>2, <3>1
  <2> QED
    BY <2>1, <2>2
<1> HIDE DEF T
<1>3. \A m \in Nat : m \in T
  BY <1>1, <1>2, SetInduction
<1>4. n \in T
  BY <1>3
<1> QED
  BY <1>4 DEF T

\* One batch after the other, in one.
LEMMA Concatenated ==
    ASSUME NEW e \in Seq(Views), NEW f \in Seq(Views)
    PROVE  /\ e \o f \in Seq(Views)
           /\ DOMAIN (e \o f) = 1 .. Len(e) + Len(f)
           /\ DOMAIN e = 1 .. Len(e) /\ DOMAIN f = 1 .. Len(f)
           /\ Len(e) \in Nat /\ Len(f) \in Nat
           /\ \A i \in 1 .. Len(e) : (e \o f)[i] = e[i]
           /\ \A i \in 1 .. Len(f) : (e \o f)[Len(e) + i] = f[i]
           /\ \A i \in DOMAIN (e \o f) :
                \/ i \in DOMAIN e
                \/ i - Len(e) \in DOMAIN f /\ i = Len(e) + (i - Len(e))
<1>1. /\ e \o f \in Seq(Views)
      /\ Len(e \o f) = Len(e) + Len(f)
      /\ \A i \in 1 .. Len(e) + Len(f) :
            (e \o f)[i] = IF i <= Len(e) THEN e[i] ELSE f[i - Len(e)]
  BY ConcatProperties
<1>2. /\ DOMAIN (e \o f) = 1 .. Len(e \o f)
      /\ DOMAIN e = 1 .. Len(e) /\ DOMAIN f = 1 .. Len(f)
      /\ Len(e) \in Nat /\ Len(f) \in Nat
  BY <1>1, LenProperties
<1> DEFINE g == e \o f
<1> HIDE DEF g
<1>3. \A i \in 1 .. Len(e) : g[i] = e[i]
  BY <1>1, <1>2 DEF g
<1>4. \A i \in 1 .. Len(f) : g[Len(e) + i] = f[i]
  BY <1>1, <1>2 DEF g
<1>5. \A i \in 1 .. Len(e) + Len(f) :
        \/ i \in 1 .. Len(e)
        \/ i - Len(e) \in 1 .. Len(f) /\ i = Len(e) + (i - Len(e))
  BY <1>2
<1> QED
  BY <1>1, <1>2, <1>3, <1>4, <1>5 DEF g

\* Two rows of events decide a task's entry together if one of them does.
LEMMA DecidedConcat ==
    ASSUME NEW e \in Seq(Views), NEW f \in Seq(Views), NEW t
    PROVE  DecidedIn(e \o f, t) <=> (DecidedIn(e, t) \/ DecidedIn(f, t))
<1> DEFINE g == e \o f
<1>1. \A i \in DOMAIN e : i \in DOMAIN g /\ g[i] = e[i]
  BY Concatenated
<1>2. \A i \in DOMAIN f : Len(e) + i \in DOMAIN g /\ g[Len(e) + i] = f[i]
  BY Concatenated
<1>3. \A i \in DOMAIN g :
        \/ i \in DOMAIN e /\ g[i] = e[i]
        \/ i - Len(e) \in DOMAIN f /\ g[i] = f[i - Len(e)]
  BY Concatenated
<1> HIDE DEF g
<1>4. ASSUME DecidedIn(g, t) PROVE DecidedIn(e, t) \/ DecidedIn(f, t)
  BY <1>3, <1>4 DEF DecidedIn
<1>5. ASSUME DecidedIn(e, t) PROVE DecidedIn(g, t)
  BY <1>1, <1>5 DEF DecidedIn
<1>6. ASSUME DecidedIn(f, t) PROVE DecidedIn(g, t)
  BY <1>2, <1>6 DEF DecidedIn
<1> QED
  BY <1>4, <1>5, <1>6 DEF g

\* A row of events settles an entry if its end does, and what comes before does or
\* is overruled.
LEMMA SettlesConcat ==
    ASSUME NEW e \in Seq(Views), NEW f \in Seq(Views), NEW t, NEW s,
           Settles(s, f, t), Settles(s, e, t) \/ DecidedIn(f, t)
    PROVE  Settles(s, e \o f, t)
<1> DEFINE g == e \o f
<1>1. \A i \in DOMAIN e : i \in DOMAIN g /\ g[i] = e[i]
  BY Concatenated
<1>2. \A i \in DOMAIN f : Len(e) + i \in DOMAIN g /\ g[Len(e) + i] = f[i]
  BY Concatenated
<1>3. \A i \in DOMAIN g :
        \/ i \in DOMAIN e /\ g[i] = e[i]
        \/ i - Len(e) \in DOMAIN f /\ g[i] = f[i - Len(e)] /\ i = Len(e) + (i - Len(e))
  BY Concatenated
<1>4. DOMAIN e \subseteq 1 .. Len(e) /\ DOMAIN f \subseteq Nat \ {0} /\ Len(e) \in Nat
      /\ DOMAIN g \subseteq Nat
  BY Concatenated
<1> HIDE DEF g
<1> SUFFICES ASSUME NEW i \in DOMAIN g, g[i].task = t, g[i].kind # "duplicate"
             PROVE  \/ Right(s, g[i])
                    \/ \E j \in DOMAIN g : j > i /\ g[j].task = t /\ Decides(g[j])
  BY DEF Settles, g
<1>5. CASE i \in DOMAIN e /\ g[i] = e[i] /\ DecidedIn(f, t)
  <2>1. PICK k \in DOMAIN f : f[k].task = t /\ Decides(f[k])
    BY <1>5 DEF DecidedIn
  <2>2. Len(e) + k > i
    BY <1>4, <1>5
  <2> QED
    BY <1>2, <2>1, <2>2
<1>6. CASE i \in DOMAIN e /\ g[i] = e[i] /\ Settles(s, e, t)
  <2>1. \/ Right(s, e[i])
        \/ \E j \in DOMAIN e : j > i /\ e[j].task = t /\ Decides(e[j])
    BY <1>6 DEF Settles
  <2> QED
    BY <1>1, <1>6, <2>1
<1>7. CASE i - Len(e) \in DOMAIN f /\ g[i] = f[i - Len(e)]
  <2> DEFINE k == i - Len(e)
  <2>1. \/ Right(s, f[k])
        \/ \E j \in DOMAIN f : j > k /\ f[j].task = t /\ Decides(f[j])
    BY <1>7 DEF Settles
  <2>2. CASE \E j \in DOMAIN f : j > k /\ f[j].task = t /\ Decides(f[j])
    <3>1. PICK j \in DOMAIN f : j > k /\ f[j].task = t /\ Decides(f[j])
      BY <2>2
    <3>2. Len(e) + j > i
      BY <1>4, <3>1
    <3> QED
      BY <1>2, <3>1, <3>2
  <2> QED
    BY <1>7, <2>1, <2>2
<1> QED
  BY <1>3, <1>5, <1>6, <1>7

\* A batch of one view.
LEMMA SingleView ==
    ASSUME NEW v \in Views
    PROVE  /\ <<v>> \in Seq(Views)
           /\ (v.kind = "progress" => v.status # "unknown") => InTransit(<<v>>)
           /\ \A t : DecidedIn(<<v>>, t) <=> (v.task = t /\ Decides(v))
           /\ \A s, t : (v.task = t /\ v.kind # "duplicate" => Right(s, v))
                            => Settles(s, <<v>>, t)
           /\ RemovedLast(<<v>>)
           /\ v.kind = "duplicate" <=> <<v>> \in Answers
<1>1. <<v>> \in Seq(Views) /\ DOMAIN <<v>> = {1} /\ <<v>>[1] = v
  OBVIOUS
<1> DEFINE e == <<v>>
<1> HIDE DEF e
<1>2. e \in Seq(Views) /\ DOMAIN e = {1} /\ e[1] = v
  BY <1>1 DEF e
<1>3. /\ (v.kind = "progress" => v.status # "unknown") => InTransit(e)
      /\ \A t : DecidedIn(e, t) <=> (v.task = t /\ Decides(v))
  BY <1>2 DEF InTransit, DecidedIn
<1>4. \A s, t : (v.task = t /\ v.kind # "duplicate" => Right(s, v)) => Settles(s, e, t)
  BY <1>2 DEF Settles
<1>5. RemovedLast(e)
  BY <1>2 DEF RemovedLast
<1>6. v.kind = "duplicate" <=> e \in Answers
  BY <1>2 DEF Answers, HasDuplicate
<1> QED
  BY <1>2, <1>3, <1>4, <1>5, <1>6 DEF e

\* Rows of events that may be on their way may follow one another.
LEMMA InTransitConcat ==
    ASSUME NEW e, NEW f, InTransit(e), InTransit(f)
    PROVE  InTransit(e \o f)
<1>1. e \in Seq(Views) /\ f \in Seq(Views)
  BY DEF InTransit
<1> DEFINE g == e \o f
<1>2. g \in Seq(Views)
  BY <1>1, Concatenated
<1>3. \A i \in DOMAIN g :
        \/ i \in DOMAIN e /\ g[i] = e[i]
        \/ i - Len(e) \in DOMAIN f /\ g[i] = f[i - Len(e)]
  BY <1>1, Concatenated
<1> HIDE DEF g
<1> QED
  BY <1>2, <1>3 DEF InTransit, g

\* A removal stays the last word about its task if the second row says nothing of it.
LEMMA RemovedLastConcat ==
    ASSUME NEW e \in Seq(Views), NEW f \in Seq(Views), RemovedLast(e), RemovedLast(f),
           \A i \in DOMAIN e : \A j \in DOMAIN f :
                e[i].kind = "removed" => f[j].task # e[i].task
    PROVE  RemovedLast(e \o f)
<1> DEFINE g == e \o f
<1>1. \A i \in DOMAIN g :
        \/ i \in DOMAIN e /\ g[i] = e[i] /\ i <= Len(e)
        \/ i - Len(e) \in DOMAIN f /\ g[i] = f[i - Len(e)] /\ i > Len(e)
  BY Concatenated
<1>2. DOMAIN g \subseteq Nat /\ Len(e) \in Nat
  BY Concatenated
<1> HIDE DEF g
<1> SUFFICES ASSUME NEW i \in DOMAIN g, NEW j \in DOMAIN g, g[i].kind = "removed", j > i
             PROVE  g[j].task # g[i].task
  BY DEF RemovedLast, g
<1>3. CASE i \in DOMAIN e /\ g[i] = e[i] /\ j \in DOMAIN e /\ g[j] = e[j]
  BY <1>3 DEF RemovedLast
<1>4. CASE i \in DOMAIN e /\ g[i] = e[i] /\ j - Len(e) \in DOMAIN f /\ g[j] = f[j - Len(e)]
  BY <1>4
<1>5. CASE /\ i - Len(e) \in DOMAIN f /\ g[i] = f[i - Len(e)]
           /\ j - Len(e) \in DOMAIN f /\ g[j] = f[j - Len(e)]
  <2>1. j - Len(e) > i - Len(e)
    BY <1>2
  <2> QED
    BY <1>5, <2>1 DEF RemovedLast
<1>6. ~(i > Len(e) /\ j <= Len(e))
  BY <1>2
<1> QED
  BY <1>1, <1>3, <1>4, <1>5, <1>6

\* Two rows answer an add together if one of them does.
LEMMA AnswersConcat ==
    ASSUME NEW e \in Seq(Views), NEW f \in Seq(Views)
    PROVE  e \o f \in Answers <=> (e \in Answers \/ f \in Answers)
<1> DEFINE g == e \o f
<1>1. \A i \in DOMAIN e : i \in DOMAIN g /\ g[i] = e[i]
  BY Concatenated
<1>2. \A i \in DOMAIN f : Len(e) + i \in DOMAIN g /\ g[Len(e) + i] = f[i]
  BY Concatenated
<1>3. \A i \in DOMAIN g :
        \/ i \in DOMAIN e /\ g[i] = e[i]
        \/ i - Len(e) \in DOMAIN f /\ g[i] = f[i - Len(e)]
  BY Concatenated
<1>4. g \in Seq(Views)
  BY Concatenated
<1> HIDE DEF g
<1>5. HasDuplicate(g) => HasDuplicate(e) \/ HasDuplicate(f)
  BY <1>3 DEF HasDuplicate
<1>6. HasDuplicate(e) => HasDuplicate(g)
  BY <1>1 DEF HasDuplicate
<1>7. HasDuplicate(f) => HasDuplicate(g)
  BY <1>2 DEF HasDuplicate
<1> QED
  BY <1>4, <1>5, <1>6, <1>7 DEF Answers, g

-----------------------------------------------------------------------------
(* What is under way.                                                      *)

\* More alerts: what they decide of a task is true, or they leave it.
LEMMA ToldMore ==
    ASSUME NEW q, NEW e \in Seq(Views), NEW f \in Seq(Views), NEW s, NEW t,
           Settles(s, f, t), Told(s, q, e, t) \/ DecidedIn(f, t)
    PROVE  Told(s, q, e \o f, t)
<1>1. Settles(s, e, t) \/ DecidedIn(f, t)
  BY DEF Told
<1>2. Settles(s, e \o f, t)
  BY <1>1, SettlesConcat
<1>3. DecidedIn(e \o f, t) <=> (DecidedIn(e, t) \/ DecidedIn(f, t))
  BY DecidedConcat
<1> QED
  BY <1>2, <1>3 DEF Told

\* An answer that goes before the others tells nothing.
LEMMA ToldLess ==
    ASSUME NEW q, NEW e \in Seq(Views), NEW v \in Views, v.kind = "duplicate", NEW s, NEW t,
           Told(s, q, e, t)
    PROVE  Told(s, q, <<v>> \o e, t)
<1>1. Settles(s, e, t)
  BY DEF Told
<1>2. <<v>> \in Seq(Views) /\ Settles(s, <<v>>, t)
  BY SingleView
<1>3. Settles(s, <<v>> \o e, t)
  BY <1>1, <1>2, SettlesConcat
<1>4. DecidedIn(e, t) => DecidedIn(<<v>> \o e, t)
  BY <1>2, DecidedConcat
<1> QED
  BY <1>3, <1>4 DEF Told

\* More events, before or after, leave an entry under way.
LEMMA PendingMore ==
    ASSUME NEW q, NEW e \in Seq(Views), NEW f \in Seq(Views), NEW t
    PROVE  /\ Pending(q, e, t) => Pending(q, e \o f, t) /\ Pending(q, f \o e, t)
           /\ DecidedIn(f, t) => Pending(q, e \o f, t)
  BY DecidedConcat DEF Pending

\* A batch goes to the end of a queue, or leaves its front.
LEMMA Appended ==
    ASSUME NEW X, NEW q \in Seq(X), NEW x \in X
    PROVE  /\ Append(q, x) \in Seq(X)
           /\ Len(q) \in Nat /\ DOMAIN q = 1 .. Len(q)
           /\ DOMAIN Append(q, x) = 1 .. Len(q) + 1
           /\ \A b \in DOMAIN q : b \in DOMAIN Append(q, x) /\ Append(q, x)[b] = q[b]
           /\ Append(q, x)[Len(q) + 1] = x
           /\ \A b \in DOMAIN Append(q, x) : b \in DOMAIN q \/ b = Len(q) + 1
  OBVIOUS

\* What the front of a queue and the rest of it are.
LEMMA Popped ==
    ASSUME NEW X, NEW q \in Seq(X), q # <<>>
    PROVE  /\ Tail(q) \in Seq(X) /\ Head(q) \in X /\ Head(q) = q[1]
           /\ Len(q) \in Nat \ {0} /\ DOMAIN q = 1 .. Len(q)
           /\ DOMAIN Tail(q) = 1 .. Len(q) - 1
           /\ \A b \in DOMAIN Tail(q) : b + 1 \in DOMAIN q /\ Tail(q)[b] = q[b + 1]
           /\ \A b \in DOMAIN q : b = 1 \/ (b - 1 \in DOMAIN Tail(q) /\ Tail(q)[b - 1] = q[b])
<1>1. Len(q) \in Nat \ {0} /\ DOMAIN q = 1 .. Len(q)
  OBVIOUS
<1>2. Tail(q) \in Seq(X) /\ Head(q) \in X /\ Head(q) = q[1] /\ Len(Tail(q)) = Len(q) - 1
      /\ DOMAIN Tail(q) = 1 .. Len(q) - 1
  OBVIOUS
<1>3. \A b \in 1 .. Len(q) - 1 : Tail(q)[b] = q[b + 1]
  BY <1>2, HeadTailProperties
<1>4. \A b \in 1 .. Len(q) - 1 : b + 1 \in 1 .. Len(q)
  BY <1>1
<1>5. \A b \in 1 .. Len(q) : b = 1 \/ (b - 1 \in 1 .. Len(q) - 1 /\ (b - 1) + 1 = b)
  BY <1>1
<1>6. \A b \in DOMAIN Tail(q) : b + 1 \in DOMAIN q /\ Tail(q)[b] = q[b + 1]
  BY <1>1, <1>2, <1>3, <1>4
<1>7. ASSUME NEW b \in DOMAIN q, b # 1
      PROVE  b - 1 \in DOMAIN Tail(q) /\ Tail(q)[b - 1] = q[b]
  <2>1. b - 1 \in 1 .. Len(q) - 1 /\ (b - 1) + 1 = b
    BY <1>1, <1>5, <1>7
  <2> QED
    BY <1>2, <1>3, <2>1
<1> QED
  BY <1>1, <1>2, <1>6, <1>7

\* The alerts are popped and go into the queue as a batch.
LEMMA ToldPosted ==
    ASSUME NEW q \in Seq(Seq(Views) \ {<<>>}), NEW e \in Seq(Views) \ {<<>>}, NEW s, NEW t,
           Told(s, q, e, t)
    PROVE  Told(s, Append(q, e), <<>>, t)
<1> DEFINE r == Append(q, e)
           last == Len(q) + 1
<1>1. /\ \A b \in DOMAIN q : b \in DOMAIN r /\ r[b] = q[b] /\ b < last
      /\ last \in DOMAIN r /\ r[last] = e
      /\ \A b \in DOMAIN r : b \in DOMAIN q \/ b = last
  BY Appended
<1> HIDE DEF r, last
<1>2. \A b \in DOMAIN r : \/ Settles(s, r[b], t)
                          \/ \E c \in DOMAIN r : c > b /\ DecidedIn(r[c], t)
  <2> SUFFICES ASSUME NEW b \in DOMAIN r
               PROVE  \/ Settles(s, r[b], t)
                      \/ \E c \in DOMAIN r : c > b /\ DecidedIn(r[c], t)
    OBVIOUS
  <2>1. CASE b = last
    BY <1>1, <2>1 DEF Told
  <2>2. CASE b \in DOMAIN q /\ DecidedIn(e, t)
    <3>1. last > b
      BY <1>1, <2>2, Appended DEF last
    <3> QED
      BY <1>1, <2>2, <3>1
  <2>3. CASE b \in DOMAIN q /\ ~DecidedIn(e, t)
    BY <1>1, <2>3 DEF Told
  <2> QED
    BY <1>1, <2>1, <2>2, <2>3
<1>3. Settles(s, <<>>, t)
  BY DEF Settles
<1> QED
  BY <1>2, <1>3 DEF Told, r

\* Posting the events as a batch leaves an entry under way.
LEMMA PendingPosted ==
    ASSUME NEW q \in Seq(Seq(Views) \ {<<>>}), NEW e \in Seq(Views) \ {<<>>}, NEW t,
           Pending(q, e, t)
    PROVE  Pending(Append(q, e), <<>>, t)
<1>1. /\ \A b \in DOMAIN q : b \in DOMAIN Append(q, e) /\ Append(q, e)[b] = q[b]
      /\ Len(q) + 1 \in DOMAIN Append(q, e) /\ Append(q, e)[Len(q) + 1] = e
  BY Appended
<1> DEFINE r == Append(q, e)
<1> HIDE DEF r
<1>2. /\ \A b \in DOMAIN q : b \in DOMAIN r /\ r[b] = q[b]
      /\ Len(q) + 1 \in DOMAIN r /\ r[Len(q) + 1] = e
  BY <1>1 DEF r
<1>3. \E b \in DOMAIN r : DecidedIn(r[b], t)
  BY <1>2 DEF Pending
<1> QED
  BY <1>3 DEF Pending, r

\* The first batch is taken.
LEMMA ToldTaken ==
    ASSUME NEW q \in Seq(Seq(Views) \ {<<>>}), q # <<>>, NEW e, NEW s, NEW t,
           Told(s, q, e, t)
    PROVE  /\ Told(s, Tail(q), e, t)
           /\ Pending(Tail(q), e, t) \/ Settles(s, Head(q), t)
           /\ Pending(q, e, t) => Pending(Tail(q), e, t) \/ DecidedIn(Head(q), t)
<1> DEFINE r == Tail(q)
<1>1. /\ \A b \in DOMAIN r : b + 1 \in DOMAIN q /\ r[b] = q[b + 1]
      /\ \A b \in DOMAIN q : b = 1 \/ (b - 1 \in DOMAIN r /\ r[b - 1] = q[b])
      /\ DOMAIN q = 1 .. Len(q) /\ DOMAIN r = 1 .. Len(q) - 1 /\ Len(q) \in Nat \ {0}
      /\ Head(q) = q[1]
  BY Popped
<1> HIDE DEF r
<1>2. ASSUME ~DecidedIn(e, t), NEW b \in DOMAIN r
      PROVE  Settles(s, r[b], t) \/ \E c \in DOMAIN r : c > b /\ DecidedIn(r[c], t)
  <2>1. b + 1 \in DOMAIN q /\ r[b] = q[b + 1]
    BY <1>1
  <2>2. \/ Settles(s, q[b + 1], t)
        \/ \E c \in DOMAIN q : c > b + 1 /\ DecidedIn(q[c], t)
    BY <1>2, <2>1 DEF Told
  <2>3. CASE \E c \in DOMAIN q : c > b + 1 /\ DecidedIn(q[c], t)
    <3>1. PICK c \in DOMAIN q : c > b + 1 /\ DecidedIn(q[c], t)
      BY <2>3
    <3>2. c # 1 /\ c - 1 > b
      BY <1>1, <3>1
    <3> QED
      BY <1>1, <3>1, <3>2
  <2> QED
    BY <2>1, <2>2, <2>3
<1>3. Told(s, r, e, t)
  BY <1>2 DEF Told
<1>4. Pending(r, e, t) \/ Settles(s, q[1], t)
  <2> SUFFICES ASSUME ~Pending(r, e, t) PROVE Settles(s, q[1], t)
    OBVIOUS
  <2>1. 1 \in DOMAIN q /\ ~DecidedIn(e, t)
    BY <1>1 DEF Pending
  <2>2. \/ Settles(s, q[1], t)
        \/ \E c \in DOMAIN q : c > 1 /\ DecidedIn(q[c], t)
    BY <2>1 DEF Told
  <2>3. ASSUME NEW c \in DOMAIN q, c > 1, DecidedIn(q[c], t) PROVE FALSE
    <3>1. c - 1 \in DOMAIN r /\ r[c - 1] = q[c]
      BY <1>1, <2>3
    <3> QED
      BY <2>3, <3>1 DEF Pending
  <2> QED
    BY <2>2, <2>3
<1>5. Pending(q, e, t) => Pending(r, e, t) \/ DecidedIn(q[1], t)
  BY <1>1 DEF Pending
<1> QED
  BY <1>1, <1>3, <1>4, <1>5 DEF r

-----------------------------------------------------------------------------
(* Counting.                                                               *)

\* The positions of a queue that are counted are finitely many.
LEMMA CountFinite ==
    ASSUME NEW X, NEW q \in Seq(X), NEW P
    PROVE  IsFiniteSet(Positions(q, P)) /\ Cardinality(Positions(q, P)) \in Nat
<1>1. Len(q) \in Nat /\ Positions(q, P) \in SUBSET (1 .. Len(q))
  BY DEF Positions
<1>2. IsFiniteSet(1 .. Len(q))
  BY <1>1, FS_Interval
<1> QED
  BY <1>1, <1>2, FS_Subset, FS_CardinalityType

\* What one more element adds to the count.
LEMMA CountAppend ==
    ASSUME NEW X, NEW q \in Seq(X), NEW x \in X, NEW P
    PROVE  Cardinality(Positions(Append(q, x), P))
             = Cardinality(Positions(q, P)) + (IF x \in P THEN 1 ELSE 0)
<1>1. CASE x \in P
  <2>1. Positions(Append(q, x), P) = Positions(q, P) \cup {Len(q) + 1}
    BY <1>1, Appended DEF Positions
  <2>2. Len(q) + 1 \notin Positions(q, P)
    BY DEF Positions
  <2> QED
    BY <1>1, <2>1, <2>2, CountFinite, FS_AddElement
<1>2. CASE x \notin P
  <2>1. Positions(Append(q, x), P) = Positions(q, P)
    BY <1>2, Appended DEF Positions
  <2> QED
    BY <1>2, <2>1, CountFinite
<1> QED
  BY <1>1, <1>2

\* What the element at the front had in the count.
LEMMA CountTail ==
    ASSUME NEW X, NEW q \in Seq(X), q # <<>>, NEW P
    PROVE  Cardinality(Positions(q, P))
             = Cardinality(Positions(Tail(q), P)) + (IF Head(q) \in P THEN 1 ELSE 0)
<1> DEFINE A == Positions(q, P) \ {1}
           B == Positions(Tail(q), P)
           f == [i \in B |-> i + 1]
<1>1. /\ \A b \in B : b + 1 \in A /\ b \in Nat
      /\ \A a \in A : a - 1 \in B /\ a \in Nat
      /\ (Head(q) \in P) <=> (1 \in Positions(q, P))
  <2>1. \A b \in B : b \in Nat /\ b \in DOMAIN Tail(q) /\ Tail(q)[b] \in P
    BY Popped DEF Positions
  <2>2. \A a \in A : a \in Nat /\ a \in DOMAIN q /\ q[a] \in P /\ a # 1
    BY Popped DEF Positions
  <2>3. \A b \in B : b + 1 \in A
    BY <2>1, Popped DEF Positions
  <2>4. \A a \in A : a - 1 \in B
    BY <2>2, Popped DEF Positions
  <2>5. (Head(q) \in P) <=> (1 \in Positions(q, P))
    BY Popped DEF Positions
  <2> QED
    BY <2>1, <2>2, <2>3, <2>4, <2>5
<1>2. IsFiniteSet(Positions(q, P)) /\ Cardinality(Positions(q, P)) \in Nat
  BY CountFinite
<1>3. IsFiniteSet(B) /\ Cardinality(B) \in Nat
  BY CountFinite, Popped
<1> HIDE DEF A, B
<1>4. f \in Bijection(B, A)
  <2>1. f \in [B -> A]
    BY <1>1
  <2>2. \A a, b \in B : f[a] = f[b] => a = b
    BY <1>1
  <2>3. \A a \in A : \E b \in B : f[b] = a
    BY <1>1
  <2> QED
    BY <2>1, <2>2, <2>3 DEF Bijection, Injection, Surjection, IsInjective
<1>5. Cardinality(A) = Cardinality(B) /\ IsFiniteSet(A)
  <2>1. ExistsBijection(B, A)
    BY <1>4 DEF ExistsBijection
  <2> QED
    BY <1>3, <2>1, FS_Bijection
<1>6. Cardinality(A) = IF 1 \in Positions(q, P) THEN Cardinality(Positions(q, P)) - 1
                                               ELSE Cardinality(Positions(q, P))
  BY <1>2, FS_RemoveElement DEF A
<1> QED
  BY <1>1, <1>2, <1>3, <1>5, <1>6 DEF B

-----------------------------------------------------------------------------
(* The folds of Ingest and Dispatch, and the order of SetToSeq.            *)

\* The last of a set of positions, and the others.
LEMMA MaxInside ==
    ASSUME NEW n \in Nat, NEW s \in SUBSET (1 .. n), s # {}
    PROVE  Max(s) \in s /\ Max(s) \in 1 .. n /\ s \ {Max(s)} \in SUBSET (1 .. n)
<1>1. PICK i \in s : \A j \in s : j <= i
  BY LastPosition
<1>2. \E x \in s : \A y \in s : x >= y
  BY <1>1
<1> QED
  BY <1>2 DEF Max

\* A batch of n views, and the states of the store while they are applied.
Batch(evs, n) == DOMAIN evs = 1 .. n /\ \A i \in 1 .. n : evs[i] \in Views

Path(h, n, evs) ==
    /\ h \in [0 .. n -> [Tasks -> Entries]]
    /\ \A i \in 1 .. n : h[i] = Apply(h[i - 1], evs[i])

\* An event of a batch keeps the types of the entries.
LEMMA ApplyTypes ==
    ASSUME NEW x \in [Tasks -> Entries], NEW v \in Views
    PROVE  Apply(x, v) \in [Tasks -> Entries]
<1>1. v.task \in Tasks /\ v.kind \in {"added", "removed", "error", "progress", "duplicate"}
      /\ v.status \in Status
  BY DEF Views
<1>2. x[v.task] \in Entries
  BY <1>1
<1>3. Applied(x[v.task], v) \in Entries
  BY <1>1, <1>2 DEF Applied, Entries, Status, Absent
<1> QED
  BY <1>1, <1>3 DEF Apply

\* The entries go through the events one by one.
LEMMA StoreSteps ==
    ASSUME NEW n \in Nat, NEW evs, Batch(evs, n), NEW s \in [Tasks -> Entries]
    PROVE  \E h : Path(h, n, evs) /\ h[0] = s /\ h[n] = FoldLeft(Apply, s, evs)
<1>0. /\ DOMAIN evs = 1 .. n
      /\ \A i \in 1 .. n : \A x \in [Tasks -> Entries] : Apply(x, evs[i]) \in [Tasks -> Entries]
  BY ApplyTypes DEF Batch
<1> DEFINE S == [Tasks -> Entries]
           G == [i \in 1 .. n |-> [x \in S |-> Apply(x, evs[i])]]
           Eq(f) == f = [r \in SUBSET (1 .. n) |->
                          IF r = {} THEN s ELSE Apply(f[r \ {Max(r)}], evs[Max(r)])]
           g == CHOOSE f : Eq(f)
<1>1. FoldLeft(Apply, s, evs) = g[1 .. n]
  BY <1>0 DEF FoldLeft, MapThenFoldSet
<1> HIDE DEF S
<1>2. G \in [1 .. n -> [S -> S]] /\ s \in S
  BY <1>0 DEF S
<1>3. \A i \in 1 .. n : \A x \in S : G[i][x] = Apply(x, evs[i])
  OBVIOUS
<1> HIDE DEF G
<1>4. PICK f \in [SUBSET (1 .. n) -> S] : Folds(f, s, G, n)
  BY <1>2, FoldExists
<1>5. Eq(f)
  <2>1. ASSUME NEW r \in SUBSET (1 .. n), r # {}
        PROVE  G[Max(r)][f[r \ {Max(r)}]] = Apply(f[r \ {Max(r)}], evs[Max(r)])
    <3>1. Max(r) \in 1 .. n /\ f[r \ {Max(r)}] \in S
      BY <2>1, MaxInside
    <3> QED
      BY <1>3, <3>1
  <2> QED
    BY <1>4, <2>1 DEF Folds
<1>6. Eq(g)
  BY <1>5
<1>7. g[{}] = s
  BY <1>6
<1>8. ASSUME NEW r \in SUBSET (1 .. n), r # {}, g[r \ {Max(r)}] \in S
      PROVE  g[r] = G[Max(r)][g[r \ {Max(r)}]]
  <2>1. g[r] = Apply(g[r \ {Max(r)}], evs[Max(r)])
    BY <1>6, <1>8
  <2>2. Max(r) \in 1 .. n
    BY <1>8, MaxInside
  <2> HIDE DEF g
  <2> QED
    BY <1>3, <1>8, <2>1, <2>2
<1> HIDE DEF g, Eq
<1>9. FoldRule(g, s, G, n, S)
  BY <1>7, <1>8 DEF FoldRule
<1>10. PICK h \in [0 .. n -> S] : FoldPath(h, g, s, G, n)
  BY <1>2, <1>9, FoldSteps
<1>11. \A i \in 1 .. n : h[i] = Apply(h[i - 1], evs[i])
  <2>1. \A i \in 1 .. n : h[i - 1] \in S
    OBVIOUS
  <2> QED
    BY <1>3, <1>10, <2>1 DEF FoldPath
<1> QED
  BY <1>1, <1>10, <1>11 DEF S, FoldPath, Path

\* The handles stay handles of tasks.
LEMMA KnownSteps ==
    ASSUME NEW evs \in Seq(Views), NEW k \in SUBSET Tasks
    PROVE  FoldLeft(LAMBDA ks, v :
                      CASE v.kind = "added"   -> ks \cup {v.task}
                        [] v.kind = "removed" -> ks \ {v.task}
                        [] OTHER              -> ks, k, evs) \in SUBSET Tasks
<1> DEFINE n == Len(evs)
           S == SUBSET Tasks
           O(ks, v) == CASE v.kind = "added"   -> ks \cup {v.task}
                         [] v.kind = "removed" -> ks \ {v.task}
                         [] OTHER              -> ks
           G == [i \in 1 .. n |-> [x \in S |-> O(x, evs[i])]]
           Eq(f) == f = [r \in SUBSET (1 .. n) |->
                          IF r = {} THEN k ELSE O(f[r \ {Max(r)}], evs[Max(r)])]
           g == CHOOSE f : Eq(f)
<1>0. n \in Nat /\ DOMAIN evs = 1 .. n
  OBVIOUS
<1>1. FoldLeft(LAMBDA ks, v :
                      CASE v.kind = "added"   -> ks \cup {v.task}
                        [] v.kind = "removed" -> ks \ {v.task}
                        [] OTHER              -> ks, k, evs) = g[1 .. n]
  BY <1>0 DEF FoldLeft, MapThenFoldSet
<1>2. G \in [1 .. n -> [S -> S]] /\ k \in S
  <2>1. \A i \in 1 .. n : evs[i] \in Views
    BY <1>0
  <2>2. \A i \in 1 .. n : \A x \in S : O(x, evs[i]) \in S
    BY <2>1 DEF Views
  <2> QED
    BY <2>2
<1>3. \A i \in 1 .. n : \A x \in S : G[i][x] = O(x, evs[i])
  OBVIOUS
<1> HIDE DEF G, O, S, n
<1>4. PICK f \in [SUBSET (1 .. n) -> S] : Folds(f, k, G, n)
  BY <1>0, <1>2, FoldExists
<1>5. Eq(f)
  <2>1. ASSUME NEW r \in SUBSET (1 .. n), r # {}
        PROVE  G[Max(r)][f[r \ {Max(r)}]] = O(f[r \ {Max(r)}], evs[Max(r)])
    <3>1. Max(r) \in 1 .. n /\ f[r \ {Max(r)}] \in S
      BY <1>0, <2>1, MaxInside
    <3> QED
      BY <1>3, <3>1
  <2> QED
    BY <1>4, <2>1 DEF Folds
<1>6. Eq(g)
  BY <1>5
<1>7. g[{}] = k
  BY <1>6
<1>8. ASSUME NEW r \in SUBSET (1 .. n), r # {}, g[r \ {Max(r)}] \in S
      PROVE  g[r] = G[Max(r)][g[r \ {Max(r)}]]
  <2>1. g[r] = O(g[r \ {Max(r)}], evs[Max(r)])
    BY <1>6, <1>8
  <2>2. Max(r) \in 1 .. n
    BY <1>0, <1>8, MaxInside
  <2> HIDE DEF g
  <2> QED
    BY <1>3, <1>8, <2>1, <2>2
<1> HIDE DEF g, Eq
<1>9. FoldRule(g, k, G, n, S)
  BY <1>7, <1>8 DEF FoldRule
<1>10. PICK h \in [0 .. n -> S] : FoldPath(h, g, k, G, n)
  BY <1>0, <1>2, <1>9, FoldSteps
<1>11. h[n] \in S
  BY <1>0
<1>12. g[1 .. n] \in SUBSET Tasks
  BY <1>10, <1>11 DEF S, FoldPath
<1> QED
  BY <1>1, <1>12

\* A finite set in the order SetToSeq gives it: all of it and nothing else.
LEMMA InOrder ==
    ASSUME NEW S, IsFiniteSet(S)
    PROVE  /\ Cardinality(S) \in Nat
           /\ SetToSeq(S) \in [1 .. Cardinality(S) -> S]
           /\ \A x \in S : \E i \in 1 .. Cardinality(S) : SetToSeq(S)[i] = x
<1> DEFINE n == Cardinality(S)
           f == SetToSeq(S)
<1>1. n \in Nat /\ ExistsBijection(1 .. n, S)
  BY FS_CardinalityType
<1>2. PICK g : g \in Bijection(1 .. n, S)
  BY <1>1 DEF ExistsBijection
<1>3. g \in [1 .. n -> S] /\ IsInjective(g)
  BY <1>2 DEF Bijection, Injection
<1>4. f \in [1 .. n -> S] /\ IsInjective(f)
  BY <1>3 DEF SetToSeq
<1> HIDE DEF f, n
<1>5. f \in Injection(1 .. n, S)
  BY <1>4 DEF Injection
<1>6. IsFiniteSet(1 .. n) /\ Cardinality(1 .. n) = Cardinality(S)
  <2>1. Cardinality(1 .. n) = n
    BY <1>1, FS_Interval
  <2> QED
    BY <1>1, <2>1, FS_Interval DEF n
<1>7. f \in Surjection(1 .. n, S)
  BY <1>5, <1>6, FS_Injection
<1>8. \A x \in S : \E i \in 1 .. n : f[i] = x
  BY <1>7 DEF Surjection
<1> QED
  BY <1>1, <1>4, <1>8 DEF f, n

-----------------------------------------------------------------------------
(* Ingesting a batch.                                                      *)

\* The events are the views of the batch, those of a locked task without status.
LEMMA EventsOfBatch ==
    ASSUME QueueTypes, ListTypes, posted # <<>>
    PROVE  /\ Head(posted) \in Seq(Views) \ {<<>>} /\ InTransit(Head(posted))
           /\ Len(Head(posted)) \in Nat
           /\ DOMAIN Head(posted) = 1 .. Len(Head(posted))
           /\ DOMAIN Events = 1 .. Len(Head(posted)) /\ Len(Events) = Len(Head(posted))
           /\ \A i \in 1 .. Len(Head(posted)) :
                /\ Head(posted)[i] \in Views /\ Events[i] \in Views
                /\ Events[i].task = Head(posted)[i].task
                /\ Events[i].kind = Head(posted)[i].kind
                /\ Events[i].kind = "progress" =>
                     /\ Head(posted)[i].status # "unknown"
                     /\ Events[i].status = IF lock[Events[i].task] = "held" THEN "unknown"
                                           ELSE Head(posted)[i].status
<1> DEFINE q == Head(posted)
           n == Len(q)
<1>1. posted \in Seq(Seq(Views) \ {<<>>}) /\ \A b \in DOMAIN posted : InTransit(posted[b])
  BY DEF QueueTypes
<1>2. q \in Seq(Views) \ {<<>>} /\ q = posted[1] /\ 1 \in DOMAIN posted
  BY <1>1, Popped
<1>3. InTransit(q)
  BY <1>1, <1>2
<1> HIDE DEF q
<1>4. n \in Nat /\ DOMAIN q = 1 .. n
  BY <1>2
<1>5. Events = [i \in 1 .. n |-> Unlocked(q[i])]
  BY <1>4 DEF Events, q
<1>6. ASSUME NEW i \in 1 .. n
      PROVE  /\ q[i] \in Views /\ Unlocked(q[i]) \in Views
             /\ Unlocked(q[i]).task = q[i].task
             /\ Unlocked(q[i]).kind = q[i].kind
             /\ q[i].kind = "progress" =>
                  /\ q[i].status # "unknown"
                  /\ Unlocked(q[i]).status = IF lock[q[i].task] = "held" THEN "unknown"
                                             ELSE q[i].status
  <2>1. q[i] \in Views
    BY <1>2, <1>4
  <2>2. q[i].kind = "progress" => q[i].status # "unknown"
    BY <1>3, <1>4 DEF InTransit
  <2> QED
    BY <2>1, <2>2 DEF Unlocked, Views, Status
<1>7. DOMAIN Events = 1 .. n /\ \A i \in 1 .. n : Events[i] = Unlocked(q[i])
  BY <1>5
<1>8. Len(Events) = n
  BY <1>4, <1>5
<1> HIDE DEF n
<1> QED
  BY <1>2, <1>3, <1>4, <1>6, <1>7, <1>8 DEF q, n

\* So the store goes when a batch is ingested.
LEMMA IngestPath ==
    ASSUME QueueTypes, ListTypes, posted # <<>>
    PROVE  \E h : /\ Path(h, Len(Head(posted)), Events)
                  /\ h[0] = store /\ h[Len(Head(posted))] = FoldLeft(Apply, store, Events)
<1> DEFINE n == Len(Head(posted))
<1>1. n \in Nat /\ Batch(Events, n)
  BY EventsOfBatch DEF Batch
<1>2. store \in [Tasks -> Entries]
  BY DEF ListTypes
<1> HIDE DEF n
<1>3. \E h : Path(h, n, Events) /\ h[0] = store /\ h[n] = FoldLeft(Apply, store, Events)
  BY <1>1, <1>2, StoreSteps
<1> QED
  BY <1>3 DEF n

\* One event changes the entry of its task only.
LEMMA PathStep ==
    ASSUME NEW n \in Nat, NEW evs, Batch(evs, n),
           NEW h, Path(h, n, evs), NEW i \in 1 .. n, NEW t \in Tasks
    PROVE  /\ h[i - 1][t] \in Entries /\ h[i][t] \in Entries
           /\ evs[i].task = t => h[i][t] = Applied(h[i - 1][t], evs[i])
           /\ evs[i].task # t => h[i][t] = h[i - 1][t]
<1>1. i - 1 \in 0 .. n /\ i \in 0 .. n
  OBVIOUS
<1>2. h[i - 1] \in [Tasks -> Entries] /\ h[i] \in [Tasks -> Entries]
      /\ h[i] = Apply(h[i - 1], evs[i])
  BY <1>1 DEF Path
<1>3. evs[i].task \in Tasks
  BY DEF Batch, Views
<1> QED
  BY <1>2, <1>3 DEF Apply

\* Answers leave an entry alone.
Silent(evs, t, p, n) ==
    \A j \in 1 .. n : j > p /\ evs[j].task = t => evs[j].kind = "duplicate"

\* Nothing but answers about a task leaves its entry as it was.
LEMMA PathKeeps ==
    ASSUME NEW n \in Nat, NEW evs, Batch(evs, n),
           NEW h, Path(h, n, evs), NEW t \in Tasks, NEW p \in 0 .. n,
           Silent(evs, t, p, n)
    PROVE  h[n][t] = h[p][t]
<1> DEFINE T == {m \in Nat : p + m <= n => h[p + m][t] = h[p][t]}
<1>1. 0 \in T
  OBVIOUS
<1>2. ASSUME NEW m \in Nat, m \in T PROVE m + 1 \in T
  <2> SUFFICES ASSUME p + (m + 1) <= n PROVE h[p + (m + 1)][t] = h[p][t]
    OBVIOUS
  <2> DEFINE i == p + (m + 1)
  <2>1. i \in 1 .. n /\ i > p /\ i - 1 = p + m /\ p + m <= n
    OBVIOUS
  <2>2. h[i - 1][t] = h[p][t]
    BY <1>2, <2>1
  <2> HIDE DEF i
  <2>3. /\ evs[i].task = t => h[i][t] = Applied(h[i - 1][t], evs[i])
        /\ evs[i].task # t => h[i][t] = h[i - 1][t]
    BY <2>1, PathStep
  <2>4. evs[i].task = t => Applied(h[i - 1][t], evs[i]) = h[i - 1][t]
    BY <2>1 DEF Applied, Silent
  <2>5. h[i][t] = h[p][t]
    BY <2>2, <2>3, <2>4
  <2> QED
    BY <2>5 DEF i
<1> HIDE DEF T
<1>3. \A m \in Nat : m \in T
  BY <1>1, <1>2, SetInduction
<1>4. n - p \in T /\ p + (n - p) = n /\ p + (n - p) <= n
  BY <1>3
<1> QED
  BY <1>4 DEF T

\* A view that is true decides.
LEMMA RightDecides ==
    ASSUME NEW s, NEW v, Right(s, v)
    PROVE  Decides(v)
  BY DEF Right, Decides

\* If a batch settles what is said of a task, the list has the task right after
\* it or is known to be wrong about it.
LEMMA IngestFollows ==
    ASSUME QueueTypes, ListTypes, posted # <<>>, NEW t \in Tasks,
           session[t].there \in BOOLEAN,
           store' = FoldLeft(Apply, store, Events),
           gaps' = {u \in gaps : ~LastOf(Events, u, Tells)}
                   \cup {u \in Tasks : LastOf(Events, u, Misleads)},
           Settles(session[t], Head(posted), t),
           DecidedIn(Head(posted), t) \/ t \in gaps \/ store[t] = Expected(session[t])
    PROVE  t \in gaps' \/ store'[t] = Expected(session[t])
<1> DEFINE q == Head(posted)
           n == Len(q)
           e == Events
           s == session[t]
<1>1. /\ n \in Nat /\ DOMAIN q = 1 .. n /\ DOMAIN e = 1 .. n /\ Len(e) = n
      /\ \A i \in 1 .. n :
           /\ q[i] \in Views /\ e[i] \in Views
           /\ e[i].task = q[i].task /\ e[i].kind = q[i].kind
           /\ e[i].kind = "progress" =>
                /\ q[i].status # "unknown"
                /\ e[i].status = IF lock[e[i].task] = "held" THEN "unknown" ELSE q[i].status
  BY EventsOfBatch
<1>2. PICK h : Path(h, n, e) /\ h[0] = store /\ h[n] = store'
  BY IngestPath
<1>3. Settles(s, q, t) /\ (DecidedIn(q, t) \/ t \in gaps \/ store[t] = Expected(s))
  OBVIOUS
<1>4. /\ \A u \in Tasks : LastOf(e, u, Misleads) => u \in gaps'
      /\ \A u \in gaps : ~LastOf(e, u, Tells) => u \in gaps'
  OBVIOUS
<1> HIDE DEF q, n, e, s
<1>0. Batch(e, n)
  BY <1>1 DEF Batch
<1>5. \A v : (Tells(v) \/ Misleads(v)) => Decides(v)
  BY DEF Tells, Misleads, Decides
<1>6. CASE ~DecidedIn(q, t)
  <2>1. \A j \in 1 .. n : e[j].task = t => e[j].kind = "duplicate"
    <3> SUFFICES ASSUME NEW j \in 1 .. n, e[j].task = t, e[j].kind # "duplicate" PROVE FALSE
      OBVIOUS
    <3>1. q[j].task = t /\ q[j].kind # "duplicate" /\ j \in DOMAIN q
      BY <1>1
    <3>2. Right(s, q[j]) \/ \E k \in DOMAIN q : k > j /\ q[k].task = t /\ Decides(q[k])
      BY <1>3, <3>1 DEF Settles
    <3> QED
      BY <1>6, <3>1, <3>2, RightDecides DEF DecidedIn
  <2>2. h[n][t] = h[0][t]
    <3>1. 0 \in 0 .. n /\ Silent(e, t, 0, n)
      BY <1>1, <2>1 DEF Silent
    <3> QED
      BY <1>0, <1>1, <1>2, <3>1, PathKeeps
  <2>3. ~LastOf(e, t, Tells)
    <3>1. \A j \in 1 .. n : e[j].task = t => ~Tells(e[j])
      BY <2>1 DEF Tells
    <3> QED
      BY <1>1, <3>1 DEF LastOf
  <2> QED
    BY <1>2, <1>3, <1>4, <1>6, <2>2, <2>3 DEF s
<1>7. CASE DecidedIn(q, t)
  <2> DEFINE P == {i \in 1 .. n : q[i].task = t /\ Decides(q[i])}
  <2>1. P \in SUBSET (1 .. n) /\ P # {}
    BY <1>1, <1>7 DEF DecidedIn
  <2>2. PICK i \in P : \A j \in P : j <= i
    BY <1>1, <2>1, LastPosition
  <2>3. i \in 1 .. n /\ q[i].task = t /\ Decides(q[i]) /\ e[i].task = t
    BY <1>1, <2>2
  <2>4. \A j \in 1 .. n : j > i /\ q[j].task = t => ~Decides(q[j])
    BY <2>2
  <2>5. Right(s, q[i])
    <3>1. i \in DOMAIN q /\ q[i].kind # "duplicate"
      BY <1>1, <2>3 DEF Decides
    <3> QED
      BY <1>1, <1>3, <2>3, <2>4, <3>1 DEF Settles
  <2>6. \A j \in 1 .. n : j > i /\ e[j].task = t => e[j].kind = "duplicate"
    <3> SUFFICES ASSUME NEW j \in 1 .. n, j > i, e[j].task = t, e[j].kind # "duplicate"
                 PROVE  FALSE
      OBVIOUS
    <3>1. q[j].task = t /\ q[j].kind # "duplicate" /\ j \in DOMAIN q
      BY <1>1
    <3>2. Right(s, q[j]) \/ \E k \in DOMAIN q : k > j /\ q[k].task = t /\ Decides(q[k])
      BY <1>3, <3>1 DEF Settles
    <3>3. CASE Right(s, q[j])
      BY <2>4, <3>1, <3>3, RightDecides
    <3>4. ASSUME NEW k \in DOMAIN q, k > j, q[k].task = t, Decides(q[k]) PROVE FALSE
      <4>1. k \in 1 .. n /\ k > i
        BY <1>1, <2>3, <3>4
      <4> QED
        BY <2>4, <3>4, <4>1
    <3> QED
      BY <3>2, <3>3, <3>4
  <2>7. h[n][t] = h[i][t]
    <3>1. i \in 0 .. n /\ Silent(e, t, i, n)
      BY <2>3, <2>6 DEF Silent
    <3> QED
      BY <1>0, <1>1, <1>2, <3>1, PathKeeps
  <2>8. h[i][t] = Applied(h[i - 1][t], e[i])
    BY <1>0, <1>1, <1>2, <2>3, PathStep
  <2>9. \A j \in i + 1 .. Len(e) : e[j].task = t => ~Tells(e[j]) /\ ~Misleads(e[j])
    <3>1. \A j \in i + 1 .. Len(e) : j \in 1 .. n /\ j > i
      BY <1>1, <2>3
    <3>2. \A j \in 1 .. n : e[j].kind = "duplicate" => ~Tells(e[j]) /\ ~Misleads(e[j])
      BY DEF Tells, Misleads
    <3> QED
      BY <2>6, <3>1, <3>2
  <2>10. CASE Misleads(e[i])
    <3>1. LastOf(e, t, Misleads)
      BY <1>1, <2>3, <2>9, <2>10 DEF LastOf
    <3> QED
      BY <1>4, <3>1
  <2>11. CASE ~Misleads(e[i])
    <3>1. e[i].kind = q[i].kind /\ q[i].kind \in {"progress", "removed"}
          /\ (q[i].kind = "progress" => e[i].status # "unknown" /\ e[i].status = q[i].status)
      BY <1>1, <2>3, <2>11 DEF Misleads, Decides
    <3>2. CASE q[i].kind = "progress"
      <4>1. s.there /\ q[i].status = Mapped(s)
        BY <2>5, <3>2 DEF Right
      <4>2. Applied(h[i - 1][t], e[i]) = q[i].status
        BY <3>1, <3>2 DEF Applied
      <4> QED
        BY <1>2, <2>7, <2>8, <4>1, <4>2 DEF Expected, s
    <3>3. CASE q[i].kind = "removed"
      <4>1. ~s.there
        BY <2>5, <3>3 DEF Right
      <4>2. Applied(h[i - 1][t], e[i]) = Absent
        BY <3>1, <3>3 DEF Applied
      <4> QED
        BY <1>2, <2>7, <2>8, <4>1, <4>2 DEF Expected, s
    <3> QED
      BY <3>1, <3>2, <3>3
  <2> QED
    BY <2>10, <2>11
<1> QED
  BY <1>6, <1>7

-----------------------------------------------------------------------------
(* What a step that leaves variables alone preserves.                      *)

\* The session keeps its types while it does not move.
LEMMA SessionSame ==
    ASSUME SessionTypes, UNCHANGED <<session, changed, known>>
    PROVE  SessionTypes'
  BY DEF SessionTypes

\* The window is as it was.
LEMMA ListSame ==
    ASSUME ListTypes, NoLostRefresh, FinishedAnnounced, UNCHANGED <<uiVars, gaps>>
    PROVE  ListTypes' /\ NoLostRefresh' /\ FinishedAnnounced'
  BY DEF ListTypes, NoLostRefresh, FinishedAnnounced, uiVars

\* The batches keep their types while only commands are queued.
LEMMA BatchesSame ==
    ASSUME QueueTypes, UNCHANGED <<posted, alerts>>, cmds' \in Seq(Cmds)
    PROVE  QueueTypes'
  BY DEF QueueTypes, InTransit

\* Removals stay the last word while session and alerts do not move.
LEMMA RemovalsSame ==
    ASSUME Removals, UNCHANGED <<session, known, posted, alerts>>
    PROVE  Removals'
  BY DEF Removals, RemovalsHeld, RemovedLast

\* The user and the window: an entry is as it was or is known to be wrong.
LEMMA FollowedSame ==
    ASSUME UNCHANGED <<session, changed, posted, alerts>>, NEW t \in Tasks, Followed(t),
           t \in gaps' \/ (store'[t] = store[t] /\ t \notin gaps)
    PROVE  Followed(t)'
  BY DEF Followed, Told, Pending, Settles, DecidedIn, Right, Expected

\* More alerts: they settle what they say.  What they do not decide is as it
\* was.
LEMMA FollowedMore ==
    ASSUME QueueTypes, UNCHANGED <<posted, store, gaps>>, NEW t \in Tasks, Followed(t),
           NEW f \in Seq(Views), alerts' = alerts \o f,
           \/ t \in changed'
           \/ /\ Settles(session'[t], f, t)
              /\ DecidedIn(f, t) \/ (t \notin changed /\ session'[t] = session[t])
    PROVE  Followed(t)'
<1> DEFINE s == session'[t]
           q == posted
           e == alerts
<1> SUFFICES ASSUME t \notin changed'
             PROVE  /\ Told(s, q, e \o f, t)
                    /\ t \in gaps \/ store[t] = Expected(s) \/ Pending(q, e \o f, t)
  BY DEF Followed, Told, Pending, Settles, DecidedIn, Right, Expected, Mapped, Decides
<1>1. e \in Seq(Views)
  BY DEF QueueTypes, InTransit
<1>2. Settles(s, f, t)
  OBVIOUS
<1>3. CASE DecidedIn(f, t)
  BY <1>1, <1>2, <1>3, ToldMore, PendingMore
<1>4. CASE t \notin changed /\ session'[t] = session[t]
  <2>1. /\ Told(s, q, e, t)
        /\ t \in gaps \/ store[t] = Expected(s) \/ Pending(q, e, t)
    BY <1>4 DEF Followed
  <2>2. Told(s, q, e \o f, t)
    BY <1>1, <1>2, <2>1, ToldMore
  <2>3. Pending(q, e, t) => Pending(q, e \o f, t)
    BY <1>1, PendingMore
  <2> QED
    BY <2>1, <2>2, <2>3
<1> QED
  BY <1>3, <1>4

\* More alerts, none of a task whose removal is among those not yet popped.
LEMMA RemovalsMore ==
    ASSUME QueueTypes, Removals, UNCHANGED <<posted, known>>,
           NEW f \in Seq(Views), alerts' = alerts \o f, RemovedLast(f),
           \A u \in known \cap Tasks : ~session[u].there => ~session'[u].there,
           \A j \in DOMAIN f : f[j].task \notin known \/ session[f[j].task].there,
           \A j \in DOMAIN f : f[j].kind = "removed" =>
                f[j].task \in known /\ ~session'[f[j].task].there
    PROVE  Removals'
<1> DEFINE g == alerts \o f
           e == alerts
<1>1. e \in Seq(Views) /\ \A i \in DOMAIN e : e[i].task \in Tasks
  <2>1. e \in Seq(Views)
    BY DEF QueueTypes, InTransit
  <2>2. \A i \in DOMAIN e : e[i] \in Views
    BY <2>1
  <2> QED
    BY <2>1, <2>2 DEF Views
<1>2. \A i \in DOMAIN g :
        \/ i \in DOMAIN e /\ g[i] = e[i]
        \/ i - Len(e) \in DOMAIN f /\ g[i] = f[i - Len(e)]
  BY <1>1, Concatenated
<1>3. \A i \in DOMAIN e :
        e[i].kind = "removed" => e[i].task \in known /\ ~session[e[i].task].there
  BY DEF Removals, RemovalsHeld
<1>4. RemovedLast(e) /\ \A b \in DOMAIN posted : RemovedLast(posted[b])
  BY DEF Removals
<1>5. \A i \in DOMAIN e : \A j \in DOMAIN f : e[i].kind = "removed" => f[j].task # e[i].task
  BY <1>3
<1>6. RemovedLast(g)
  BY <1>1, <1>4, <1>5, RemovedLastConcat
<1> HIDE DEF g, e
<1>7. \A i \in DOMAIN g :
        g[i].kind = "removed" => g[i].task \in known /\ ~session'[g[i].task].there
  BY <1>1, <1>2, <1>3
<1>8. alerts' = g
  BY DEF g
<1> QED
  BY <1>4, <1>6, <1>7, <1>8 DEF Removals, RemovalsHeld, RemovedLast

\* More alerts, of the right kind.
LEMMA BatchesMore ==
    ASSUME QueueTypes, UNCHANGED posted, cmds' \in Seq(Cmds), NEW f, InTransit(f),
           alerts' = alerts \o f
    PROVE  QueueTypes'
<1>1. InTransit(alerts')
  BY InTransitConcat DEF QueueTypes
<1> QED
  BY <1>1 DEF QueueTypes, InTransit

\* The counts are numbers.
LEMMA Counts ==
    ASSUME QueueTypes
    PROVE  /\ Cardinality(Positions(cmds, Additions)) \in Nat
           /\ Cardinality(Positions(posted, Answers)) \in Nat
  BY CountFinite DEF QueueTypes

\* The worker takes a command.
LEMMA Taken ==
    ASSUME QueueTypes, NEW op, TakeCmd(op)
    PROVE  /\ Head(cmds) \in Cmds /\ Head(cmds).task \in Tasks /\ cmds' \in Seq(Cmds)
           /\ Cardinality(Positions(cmds, Additions))
                = Cardinality(Positions(cmds', Additions)) + (IF op = "Add" THEN 1 ELSE 0)
           /\ Cardinality(Positions(cmds', Additions)) \in Nat
<1>1. cmds \in Seq(Cmds) /\ cmds # <<>> /\ Head(cmds).op = op /\ cmds' = Tail(cmds)
  BY DEF TakeCmd, QueueTypes
<1>2. Head(cmds) \in Cmds /\ Tail(cmds) \in Seq(Cmds)
  BY <1>1, Popped
<1>3. Head(cmds) \in Additions <=> op = "Add"
  BY <1>1, <1>2 DEF Additions
<1>4. Cardinality(Positions(cmds, Additions))
        = Cardinality(Positions(Tail(cmds), Additions))
          + (IF Head(cmds) \in Additions THEN 1 ELSE 0)
  BY <1>1, CountTail
<1>5. Cardinality(Positions(Tail(cmds), Additions)) \in Nat
  BY <1>2, CountFinite
<1> QED
  BY <1>1, <1>2, <1>3, <1>4, <1>5 DEF Cmds

\* No task is held up by what is not said.
LEMMA NothingSaid ==
    /\ InTransit(<<>>) /\ <<>> \notin Answers /\ RemovedLast(<<>>)
    /\ \A s, t : Settles(s, <<>>, t)
    /\ \A e \in Seq(Views) : e \o <<>> = e
  BY DEF InTransit, Answers, HasDuplicate, RemovedLast, Settles

-----------------------------------------------------------------------------
(* The steps of libtorrent and of the worker.                              *)

\* The bounds are kept by what is neither a turn nor an operation.
LEMMA BoundsSame ==
    ASSUME BoundTypes, UNCHANGED <<ops, turns>>
    PROVE  BoundTypes'
  BY DEF BoundTypes

\* The task's torrent is replaced by another: its status may have changed.
LEMMA TorrentSet ==
    ASSUME SessionTypes, NEW t \in Tasks, NEW s \in Torrents, s.there,
           session' = [session EXCEPT ![t] = s], changed' = changed \cup {t}, UNCHANGED known
    PROVE  SessionTypes' /\ \A u \in Tasks : u # t => session'[u] = session[u]
  BY DEF SessionTypes

\* A torrent of the session goes on: no alert, a change to report.
LEMMA TorrentGoesOn ==
    ASSUME SessionTypes, QueueTypes, \A u \in Tasks : Followed(u), Removals,
           NEW t \in Tasks, NEW s \in Torrents, s.there, session[t].there,
           session' = [session EXCEPT ![t] = s], changed' = changed \cup {t},
           UNCHANGED <<known, alerts, posted, store, gaps>>, cmds' \in Seq(Cmds)
    PROVE  SessionTypes' /\ QueueTypes' /\ (\A u \in Tasks : Followed(u)') /\ Removals'
<1>1. SessionTypes' /\ \A u \in Tasks : u # t => session'[u] = session[u]
  BY TorrentSet
<1>2. QueueTypes'
  BY BatchesSame
<1>3. alerts' = alerts \o <<>> /\ <<>> \in Seq(Views)
  BY NothingSaid DEF QueueTypes, InTransit
<1>4. \A u \in Tasks : Followed(u)'
  <2> SUFFICES ASSUME NEW u \in Tasks PROVE Followed(u)'
    OBVIOUS
  <2>1. u \in changed' \/ (u \notin changed /\ session'[u] = session[u])
    BY <1>1
  <2>2. Settles(session'[u], <<>>, u)
    BY NothingSaid
  <2> QED
    BY <1>3, <2>1, <2>2, FollowedMore
<1>5. Removals'
  <2>1. \A u \in known \cap Tasks : ~session[u].there => ~session'[u].there
    BY <1>1
  <2>2. RemovedLast(<<>>) /\ DOMAIN <<>> = {}
    BY NothingSaid
  <2> DEFINE f == <<>>
  <2>3. /\ f \in Seq(Views) /\ alerts' = alerts \o f /\ RemovedLast(f)
        /\ \A j \in DOMAIN f : f[j].task \notin known \/ session[f[j].task].there
        /\ \A j \in DOMAIN f : f[j].kind = "removed" =>
                f[j].task \in known /\ ~session'[f[j].task].there
    BY <1>3, <2>2
  <2> HIDE DEF f
  <2> QED
    BY <2>1, <2>3, RemovalsMore
<1> QED
  BY <1>1, <1>2, <1>4, <1>5

\* What stays owed as long as nothing is added, answered or closed.
LEMMA OwedSame ==
    ASSUME Owed, QueueTypes, ops \in Nat, notices \in Nat, UNCHANGED <<posted, notices>>,
           Cardinality(Positions(cmds', Additions)) = Cardinality(Positions(cmds, Additions)),
           alerts' \in Answers => alerts \in Answers, ops' \in Nat, ops' >= ops
    PROVE  Owed'
<1>1. /\ Cardinality(Positions(cmds, Additions)) \in Nat
      /\ Cardinality(Positions(posted, Answers)) \in Nat
  BY Counts
<1>2. Positions(posted', Answers') = Positions(posted, Answers)
      /\ Answers' = Answers /\ Additions' = Additions
  BY DEF Answers, Additions, HasDuplicate
<1> QED
  BY <1>1, <1>2 DEF Owed

\* A torrent goes on by itself.
LEMMA TorrentMovesStep ==
    ASSUME TaskAssumption, Inv, NEW t \in Tasks, TorrentMoves(t)
    PROVE  Inv'
<1>1. /\ SessionTypes /\ QueueTypes /\ ListTypes /\ BoundTypes /\ Removals
      /\ \A u \in Tasks : Followed(u)
      /\ NoLostRefresh /\ FinishedAnnounced /\ Owed
  BY DEF Inv
<1>2. /\ UNCHANGED <<known, cmds, posted, alerts, uiVars, ops, gaps>>
      /\ changed' = changed \cup {t} /\ session[t].there
      /\ turns < MaxTurns /\ turns' = turns + 1
  BY DEF TorrentMoves, Turn
<1>3. PICK p \in Phases : session' = [session EXCEPT ![t].phase = p]
  BY DEF TorrentMoves
<1>4. session[t] \in Torrents
  BY <1>1 DEF SessionTypes
<1>5. [session[t] EXCEPT !.phase = p] \in Torrents /\ [session[t] EXCEPT !.phase = p].there
  BY <1>2, <1>4 DEF Torrents
<1>6. session' = [session EXCEPT ![t] = [session[t] EXCEPT !.phase = p]]
  BY <1>3
<1>7. store' = store /\ cmds' \in Seq(Cmds)
  BY <1>1, <1>2 DEF uiVars, QueueTypes
<1>8. SessionTypes' /\ QueueTypes' /\ (\A u \in Tasks : Followed(u)') /\ Removals'
  BY <1>1, <1>2, <1>5, <1>6, <1>7, TorrentGoesOn
<1>9. BoundTypes'
  BY <1>1, <1>2 DEF BoundTypes, TaskAssumption
<1>10. ListTypes' /\ NoLostRefresh' /\ FinishedAnnounced'
  BY <1>1, <1>2, ListSame
<1>11. Owed'
  <2>1. ops \in Nat /\ notices \in Nat /\ notices' = notices
    BY <1>1, <1>2 DEF BoundTypes, ListTypes, uiVars
  <2> QED
    BY <1>1, <1>2, <2>1, OwedSame
<1> QED
  BY <1>8, <1>9, <1>10, <1>11 DEF Inv

\* An error alert of a torrent that is there, or that has no handle.
LEMMA ErrorAlert ==
    ASSUME SessionTypes, QueueTypes, \A u \in Tasks : Followed(u), Removals,
           NEW t \in Tasks, session[t].there, changed' \in {changed, changed \cup {t}},
           alerts' = Append(alerts, View("error", t, "error")),
           UNCHANGED <<session, known, posted, store, gaps>>, cmds' \in Seq(Cmds)
    PROVE  /\ SessionTypes' /\ QueueTypes' /\ (\A u \in Tasks : Followed(u)') /\ Removals'
           /\ alerts' \in Answers => alerts \in Answers
<1> DEFINE v == View("error", t, "error")
           f == <<v>>
<1>1. v \in Views /\ v.kind = "error" /\ v.task = t
  BY DEF View, Views, Status
<1>2. f \in Seq(Views) /\ InTransit(f) /\ RemovedLast(f) /\ f \notin Answers
      /\ DOMAIN f = {1} /\ f[1] = v
  BY <1>1, SingleView
<1>3. \A s, u : Settles(s, f, u)
  BY <1>1, SingleView DEF Right
<1>4. DecidedIn(f, t)
  BY <1>1, SingleView DEF Decides
<1>5. alerts \in Seq(Views)
  BY DEF QueueTypes, InTransit
<1>6. alerts' = alerts \o f
  BY <1>1, <1>5, AppendIsConcat
<1> HIDE DEF v, f
<1>7. SessionTypes'
  BY DEF SessionTypes
<1>8. QueueTypes'
  BY <1>2, <1>6, BatchesMore
<1>9. \A u \in Tasks : Followed(u)'
  <2> SUFFICES ASSUME NEW u \in Tasks PROVE Followed(u)'
    OBVIOUS
  <2>1. \/ u \in changed'
        \/ /\ Settles(session'[u], f, u)
           /\ DecidedIn(f, u) \/ (u \notin changed /\ session'[u] = session[u])
    BY <1>3, <1>4
  <2> QED
    BY <1>2, <1>6, <2>1, FollowedMore
<1>10. Removals'
  BY <1>1, <1>2, <1>6, RemovalsMore
<1>11. alerts' \in Answers => alerts \in Answers
  <2>1. alerts \o f \in Answers <=> (alerts \in Answers \/ f \in Answers)
    BY <1>2, <1>5, AnswersConcat
  <2> QED
    BY <1>2, <1>6, <2>1
<1> QED
  BY <1>7, <1>8, <1>9, <1>10, <1>11

\* A torrent fails, with an error alert.
LEMMA TorrentFailsStep ==
    ASSUME TaskAssumption, Inv, NEW t \in Tasks, TorrentFails(t)
    PROVE  Inv'
<1>1. /\ SessionTypes /\ QueueTypes /\ ListTypes /\ BoundTypes /\ Removals
      /\ \A u \in Tasks : Followed(u)
      /\ NoLostRefresh /\ FinishedAnnounced /\ Owed
  BY DEF Inv
<1>2. /\ UNCHANGED <<session, known, cmds, posted, uiVars, ops, gaps>>
      /\ changed' = changed \cup {t} /\ session[t].there
      /\ alerts' = Append(alerts, View("error", t, "error"))
      /\ turns < MaxTurns /\ turns' = turns + 1
  BY DEF TorrentFails, Turn
<1>3. store' = store /\ cmds' \in Seq(Cmds) /\ changed' \in {changed, changed \cup {t}}
  BY <1>1, <1>2 DEF uiVars, QueueTypes
<1>4. /\ SessionTypes' /\ QueueTypes' /\ (\A u \in Tasks : Followed(u)') /\ Removals'
      /\ alerts' \in Answers => alerts \in Answers
  BY <1>1, <1>2, <1>3, ErrorAlert
<1>5. BoundTypes'
  BY <1>1, <1>2 DEF BoundTypes, TaskAssumption
<1>6. ListTypes' /\ NoLostRefresh' /\ FinishedAnnounced'
  BY <1>1, <1>2, ListSame
<1>7. Owed'
  <2>1. ops \in Nat /\ notices \in Nat /\ notices' = notices
    BY <1>1, <1>2 DEF BoundTypes, ListTypes, uiVars
  <2> QED
    BY <1>1, <1>2, <1>4, <2>1, OwedSame
<1> QED
  BY <1>4, <1>5, <1>6, <1>7 DEF Inv

\* A step of the worker leaves the window and the counters alone.
LEMMA WindowSame ==
    ASSUME ListTypes, NoLostRefresh, FinishedAnnounced, BoundTypes,
           UNCHANGED <<uiVars, ops, turns, gaps>>
    PROVE  /\ ListTypes' /\ NoLostRefresh' /\ FinishedAnnounced' /\ BoundTypes'
           /\ store' = store /\ notices' = notices /\ ops \in Nat /\ notices \in Nat
           /\ ops' \in Nat /\ ops' >= ops
<1>1. ListTypes' /\ NoLostRefresh' /\ FinishedAnnounced'
  BY ListSame
<1>2. BoundTypes'
  BY BoundsSame
<1>3. ops \in Nat /\ notices \in Nat /\ ops' = ops /\ notices' = notices /\ store' = store
  BY DEF BoundTypes, ListTypes, uiVars
<1> QED
  BY <1>1, <1>2, <1>3

\* The status a torrent is reported with.
LEMMA MappedStatus ==
    ASSUME TaskAssumption, NEW s \in Torrents
    PROVE  Mapped(s) \in Status \ {"unknown"}
<1>1. s.phase \in {"queued", "checking", "downloading", "seeding", "finished"}
  BY DEF Torrents, TaskAssumption
<1> QED
  BY <1>1 DEF Mapped, Status

\* The worker asks for the updates: each torrent that changed is told as it is.
LEMMA PostTorrentUpdatesStep ==
    ASSUME TaskAssumption, Inv, PostTorrentUpdates
    PROVE  Inv'
<1>1. /\ SessionTypes /\ QueueTypes /\ ListTypes /\ BoundTypes /\ Removals
      /\ \A u \in Tasks : Followed(u)
      /\ NoLostRefresh /\ FinishedAnnounced /\ Owed
  BY DEF Inv
<1> DEFINE n == Cardinality(changed)
           o == SetToSeq(changed)
           f == [i \in 1 .. n |-> View("progress", o[i], Mapped(session[o[i]]))]
<1>2. /\ UNCHANGED <<session, known, cmds, posted, uiVars, ops, turns, gaps>>
      /\ changed' = {} /\ alerts' = alerts \o f
  BY DEF PostTorrentUpdates
<1>3. changed \subseteq Tasks /\ \A u \in changed : session[u].there /\ session[u] \in Torrents
  BY <1>1 DEF SessionTypes
<1>4. IsFiniteSet(changed)
  BY <1>3, FS_Subset DEF TaskAssumption
<1>5. /\ n \in Nat /\ o \in [1 .. n -> changed]
      /\ \A u \in changed : \E i \in 1 .. n : o[i] = u
  BY <1>4, InOrder
<1> HIDE DEF n, o
<1>6. ASSUME NEW i \in 1 .. n
      PROVE  /\ f[i] \in Views /\ f[i].kind = "progress" /\ f[i].task = o[i]
             /\ f[i].status = Mapped(session[o[i]]) /\ f[i].status # "unknown"
             /\ o[i] \in changed
  <2>1. o[i] \in changed /\ o[i] \in Tasks /\ session[o[i]] \in Torrents
    BY <1>3, <1>5
  <2>2. Mapped(session[o[i]]) \in Status \ {"unknown"}
    BY <2>1, MappedStatus
  <2>3. f[i] = View("progress", o[i], Mapped(session[o[i]]))
    OBVIOUS
  <2> HIDE DEF f
  <2> QED
    BY <2>1, <2>2, <2>3 DEF View, Views
<1>7. DOMAIN f = 1 .. n
  OBVIOUS
<1>8. f \in Seq(Views)
  <2>1. f \in [1 .. n -> Views]
    BY <1>6
  <2> QED
    BY <1>5, <2>1
<1> HIDE DEF f
<1>9. InTransit(f)
  BY <1>6, <1>7, <1>8 DEF InTransit
<1>10. f \notin Answers /\ RemovedLast(f)
  BY <1>6, <1>7 DEF Answers, HasDuplicate, RemovedLast
<1>11. \A u \in Tasks : Settles(session[u], f, u)
  BY <1>3, <1>6, <1>7 DEF Settles, Right
<1>12. \A u \in changed : DecidedIn(f, u)
  BY <1>5, <1>6, <1>7 DEF DecidedIn, Decides
<1>13. /\ ListTypes' /\ NoLostRefresh' /\ FinishedAnnounced' /\ BoundTypes'
       /\ store' = store /\ notices' = notices /\ ops \in Nat /\ notices \in Nat
       /\ ops' \in Nat /\ ops' >= ops
  BY <1>1, <1>2, WindowSame
<1>14. SessionTypes'
  BY <1>1, <1>2 DEF SessionTypes
<1>15. QueueTypes'
  <2>1. cmds' \in Seq(Cmds)
    BY <1>1, <1>2 DEF QueueTypes
  <2> QED
    BY <1>1, <1>2, <1>9, <2>1, BatchesMore
<1>16. \A u \in Tasks : Followed(u)'
  <2> SUFFICES ASSUME NEW u \in Tasks PROVE Followed(u)'
    OBVIOUS
  <2>1. /\ Settles(session'[u], f, u)
        /\ DecidedIn(f, u) \/ (u \notin changed /\ session'[u] = session[u])
    BY <1>2, <1>11, <1>12
  <2> QED
    BY <1>1, <1>2, <1>8, <1>13, <2>1, FollowedMore
<1>17. Removals'
  <2>1. \A j \in DOMAIN f : f[j].task \notin known \/ session[f[j].task].there
    BY <1>3, <1>6, <1>7
  <2>2. \A j \in DOMAIN f : f[j].kind # "removed"
    BY <1>6, <1>7
  <2> QED
    BY <1>1, <1>2, <1>8, <1>10, <2>1, <2>2, RemovalsMore
<1>18. Owed'
  <2>1. alerts \in Seq(Views)
    BY <1>1 DEF QueueTypes, InTransit
  <2>2. alerts \o f \in Answers <=> (alerts \in Answers \/ f \in Answers)
    BY <1>8, <2>1, AnswersConcat
  <2> QED
    BY <1>1, <1>2, <1>10, <1>13, <2>2, OwedSame
<1> QED
  BY <1>13, <1>14, <1>15, <1>16, <1>17, <1>18 DEF Inv

\* The worker posts the alerts as a batch.
LEMMA DispatchStep ==
    ASSUME TaskAssumption, Inv, Dispatch
    PROVE  Inv'
<1>1. /\ SessionTypes /\ QueueTypes /\ ListTypes /\ BoundTypes /\ Removals
      /\ \A u \in Tasks : Followed(u)
      /\ NoLostRefresh /\ FinishedAnnounced /\ Owed
  BY DEF Inv
<1>2. /\ UNCHANGED <<session, changed, cmds, uiVars, ops, turns, gaps>>
      /\ alerts # <<>> /\ alerts' = <<>> /\ posted' = Append(posted, alerts)
  BY DEF Dispatch
<1> DEFINE X == Seq(Views) \ {<<>>}
<1>3. /\ alerts \in X /\ InTransit(alerts) /\ posted \in Seq(X)
      /\ \A b \in DOMAIN posted : InTransit(posted[b])
  BY <1>1, <1>2 DEF QueueTypes, InTransit
<1>4. /\ posted' \in Seq(X)
      /\ \A b \in DOMAIN posted' : (b \in DOMAIN posted /\ posted'[b] = posted[b])
                                   \/ posted'[b] = alerts
  <2> HIDE DEF X
  <2> QED
    BY <1>2, <1>3, Appended
<1>5. known' \subseteq Tasks
  <2>1. known \in SUBSET Tasks /\ alerts \in Seq(Views)
    BY <1>1, <1>3 DEF SessionTypes
  <2> QED
    BY <2>1, KnownSteps DEF Dispatch
<1>6. /\ ListTypes' /\ NoLostRefresh' /\ FinishedAnnounced' /\ BoundTypes'
      /\ store' = store /\ notices' = notices /\ ops \in Nat /\ notices \in Nat
  BY <1>1, <1>2, WindowSame
<1>7. SessionTypes'
  BY <1>1, <1>2, <1>5 DEF SessionTypes
<1>8. QueueTypes'
  <2>1. \A b \in DOMAIN posted' : InTransit(posted'[b])
    BY <1>3, <1>4
  <2>2. InTransit(alerts') /\ cmds' \in Seq(Cmds)
    BY <1>1, <1>2, NothingSaid DEF QueueTypes
  <2> QED
    BY <1>4, <2>1, <2>2 DEF QueueTypes, InTransit, Views, Cmds
<1>9. \A u \in Tasks : Followed(u)'
  <2> SUFFICES ASSUME NEW u \in Tasks, u \notin changed PROVE Followed(u)'
    BY <1>2 DEF Followed
  <2>1. /\ Told(session[u], posted, alerts, u)
        /\ u \in gaps \/ store[u] = Expected(session[u]) \/ Pending(posted, alerts, u)
    BY <1>1 DEF Followed
  <2>2. Told(session[u], Append(posted, alerts), <<>>, u)
    BY <1>3, <2>1, ToldPosted
  <2>3. Pending(posted, alerts, u) => Pending(Append(posted, alerts), <<>>, u)
    BY <1>3, PendingPosted
  <2>4. /\ Told(session'[u], posted', alerts', u)
        /\ u \in gaps' \/ store'[u] = Expected(session'[u]) \/ Pending(posted', alerts', u)
    BY <1>2, <1>6, <2>1, <2>2, <2>3
  <2> QED
    BY <2>4 DEF Followed, Told, Pending, Settles, DecidedIn, Right, Expected, Mapped, Decides
<1>10. Removals'
  <2>1. RemovedLast(alerts) /\ \A b \in DOMAIN posted : RemovedLast(posted[b])
    BY <1>1 DEF Removals
  <2>2. \A b \in DOMAIN posted' : RemovedLast(posted'[b])
    BY <1>4, <2>1
  <2>3. RemovedLast(alerts') /\ DOMAIN alerts' = {}
    BY <1>2, NothingSaid
  <2> QED
    BY <2>2, <2>3 DEF Removals, RemovalsHeld, RemovedLast
<1>11. Owed'
  <2> HIDE DEF X
  <2>1. Cardinality(Positions(Append(posted, alerts), Answers))
          = Cardinality(Positions(posted, Answers)) + (IF alerts \in Answers THEN 1 ELSE 0)
    BY <1>3, CountAppend
  <2>2. Answers' = Answers /\ Additions' = Additions
    BY DEF Answers, Additions, HasDuplicate
  <2>3. Positions(cmds', Additions') = Positions(cmds, Additions)
    BY <1>2, <2>2
  <2>4. Positions(posted', Answers') = Positions(Append(posted, alerts), Answers)
    BY <1>2, <2>2
  <2>5. alerts' \notin Answers'
    BY <1>2, <2>2, NothingSaid
  <2>6. /\ Cardinality(Positions(cmds, Additions)) \in Nat
        /\ Cardinality(Positions(posted, Answers)) \in Nat
    BY <1>1, Counts
  <2>7. Cardinality(Positions(cmds, Additions)) + Cardinality(Positions(posted, Answers))
          + (IF alerts \in Answers THEN 1 ELSE 0) + notices <= ops
    BY <1>1 DEF Owed
  <2>8. Cardinality(Positions(cmds', Additions')) + Cardinality(Positions(posted', Answers'))
          + (IF alerts' \in Answers' THEN 1 ELSE 0) + notices' <= ops'
    BY <1>2, <1>6, <2>1, <2>3, <2>4, <2>5, <2>6, <2>7
  <2> QED
    BY <2>8 DEF Owed, Positions
<1> QED
  BY <1>6, <1>7, <1>8, <1>9, <1>10, <1>11 DEF Inv

\* A command that neither adds nor is answered leaves what is owed.
LEMMA OwedTaken ==
    ASSUME Inv, NEW op, op # "Add", TakeCmd(op), alerts' \in Answers => alerts \in Answers
    PROVE  Owed'
<1>1. QueueTypes /\ ListTypes /\ NoLostRefresh /\ FinishedAnnounced /\ BoundTypes /\ Owed
  BY DEF Inv
<1>2. UNCHANGED <<uiVars, ops, turns, gaps>> /\ posted' = posted
  BY DEF TakeCmd
<1>3. /\ notices' = notices /\ ops \in Nat /\ notices \in Nat /\ ops' \in Nat /\ ops' >= ops
  BY <1>1, <1>2, WindowSame
<1>4. /\ Cardinality(Positions(cmds, Additions)) = Cardinality(Positions(cmds', Additions))
      /\ Cardinality(Positions(cmds', Additions)) \in Nat
  <2>1. /\ Cardinality(Positions(cmds, Additions))
             = Cardinality(Positions(cmds', Additions)) + (IF op = "Add" THEN 1 ELSE 0)
        /\ Cardinality(Positions(cmds', Additions)) \in Nat
    BY <1>1, Taken
  <2> QED
    BY <2>1
<1> QED
  BY <1>1, <1>2, <1>3, <1>4, OwedSame

\* Pausing and resuming: nothing, or a change of the torrent's status.
LEMMA SetPausedStep ==
    ASSUME TaskAssumption, Inv, NEW op, op # "Add", TakeCmd(op), NEW b \in BOOLEAN,
           SetPaused(Head(cmds).task, b), UNCHANGED alerts
    PROVE  Inv'
<1>1. /\ SessionTypes /\ QueueTypes /\ ListTypes /\ BoundTypes /\ Removals
      /\ \A u \in Tasks : Followed(u)
      /\ NoLostRefresh /\ FinishedAnnounced /\ Owed
  BY DEF Inv
<1>2. UNCHANGED <<known, posted, uiVars, ops, turns, gaps>>
  BY DEF TakeCmd
<1>3. Head(cmds).task \in Tasks /\ cmds' \in Seq(Cmds)
  BY <1>1, Taken
<1>4. /\ ListTypes' /\ NoLostRefresh' /\ FinishedAnnounced' /\ BoundTypes'
      /\ store' = store /\ notices' = notices
  BY <1>1, <1>2, WindowSame
<1> DEFINE t == Head(cmds).task
<1>5. SessionTypes' /\ QueueTypes' /\ (\A u \in Tasks : Followed(u)') /\ Removals'
  <2>1. CASE t \in known /\ session[t].there /\ session[t].paused # b
    <3>1. session' = [session EXCEPT ![t].paused = b] /\ changed' = changed \cup {t}
      BY <2>1 DEF SetPaused
    <3> HIDE DEF t
    <3>2. session[t] \in Torrents /\ t \in Tasks
      BY <1>1, <1>3 DEF SessionTypes, t
    <3>3. /\ [session[t] EXCEPT !.paused = b] \in Torrents
          /\ [session[t] EXCEPT !.paused = b].there
      BY <2>1, <3>2 DEF Torrents
    <3>4. session' = [session EXCEPT ![t] = [session[t] EXCEPT !.paused = b]]
      BY <3>1
    <3> QED
      BY <1>1, <1>2, <1>3, <1>4, <2>1, <3>1, <3>2, <3>3, <3>4, TorrentGoesOn
  <2>2. CASE ~(t \in known /\ session[t].there /\ session[t].paused # b)
    <3>1. UNCHANGED <<session, changed>>
      BY <2>2 DEF SetPaused
    <3>2. SessionTypes' /\ QueueTypes' /\ Removals'
      BY <1>1, <1>2, <1>3, <3>1, SessionSame, BatchesSame, RemovalsSame
    <3>3. \A u \in Tasks : Followed(u)'
      <4> SUFFICES ASSUME NEW u \in Tasks PROVE Followed(u)'
        OBVIOUS
      <4>1. u \in gaps' \/ (store'[u] = store[u] /\ u \notin gaps)
        BY <1>2, <1>4
      <4> QED
        BY <1>1, <1>2, <3>1, <4>1, FollowedSame
    <3> QED
      BY <3>2, <3>3
  <2> QED
    BY <2>1, <2>2
<1>6. Owed'
  BY OwedTaken
<1> QED
  BY <1>4, <1>5, <1>6 DEF Inv

\* The worker removes a torrent.
LEMMA HandleRemoveStep ==
    ASSUME TaskAssumption, Inv, HandleRemove
    PROVE  Inv'
<1>1. /\ SessionTypes /\ QueueTypes /\ ListTypes /\ BoundTypes /\ Removals
      /\ \A u \in Tasks : Followed(u)
      /\ NoLostRefresh /\ FinishedAnnounced /\ Owed
  BY DEF Inv
<1>2. TakeCmd("Remove") /\ UNCHANGED <<known, posted, uiVars, ops, turns, gaps>>
  BY DEF HandleRemove, TakeCmd
<1>3. Head(cmds).task \in Tasks /\ cmds' \in Seq(Cmds)
  BY <1>1, <1>2, Taken
<1>4. /\ ListTypes' /\ NoLostRefresh' /\ FinishedAnnounced' /\ BoundTypes'
      /\ store' = store /\ notices' = notices
  BY <1>1, <1>2, WindowSame
<1> DEFINE t == Head(cmds).task
           v == View("removed", t, "unknown")
           f == <<v>>
<1>5. CASE t \in known /\ session[t].there
  <2>1. /\ session' = [session EXCEPT ![t] = Gone]
        /\ changed' = changed \ {t}
        /\ alerts' = Append(alerts, v)
    BY <1>5 DEF HandleRemove
  <2> HIDE DEF t
  <2>2. t \in Tasks
    BY <1>3 DEF t
  <2>3. v \in Views /\ v.kind = "removed" /\ v.task = t
    BY <2>2 DEF View, Views, Status
  <2> HIDE DEF v
  <2>4. f \in Seq(Views) /\ InTransit(f) /\ RemovedLast(f) /\ f \notin Answers
        /\ DOMAIN f = {1} /\ f[1] = v
    BY <2>3, SingleView
  <2>5. /\ session \in [Tasks -> Torrents] /\ Gone \in Torrents /\ ~Gone.there
        /\ changed \subseteq {u \in Tasks : session[u].there} /\ known \subseteq Tasks
    BY <1>1 DEF SessionTypes, Gone, Torrents
  <2>6. session'[t] = Gone /\ \A u \in Tasks : u # t => session'[u] = session[u]
    BY <2>1, <2>2, <2>5
  <2>7. \A u \in Tasks : Settles(session'[u], f, u)
    BY <2>3, <2>5, <2>6, SingleView DEF Right
  <2>8. DecidedIn(f, t)
    BY <2>3, SingleView DEF Decides
  <2>9. alerts \in Seq(Views)
    BY <1>1 DEF QueueTypes, InTransit
  <2>10. alerts' = alerts \o f
    BY <2>1, <2>3, <2>9, AppendIsConcat
  <2> HIDE DEF f
  <2>11. SessionTypes'
    <3>1. session' \in [Tasks -> Torrents]
      BY <2>1, <2>5
    <3>2. changed' \subseteq {u \in Tasks : session'[u].there}
      BY <2>1, <2>5, <2>6
    <3> QED
      BY <1>2, <2>5, <3>1, <3>2 DEF SessionTypes, Torrents
  <2>12. QueueTypes'
    BY <1>1, <1>2, <1>3, <2>4, <2>10, BatchesMore
  <2>13. \A u \in Tasks : Followed(u)'
    <3> SUFFICES ASSUME NEW u \in Tasks PROVE Followed(u)'
      OBVIOUS
    <3>1. \/ u \in changed'
          \/ /\ Settles(session'[u], f, u)
             /\ DecidedIn(f, u) \/ (u \notin changed /\ session'[u] = session[u])
      BY <2>1, <2>6, <2>7, <2>8
    <3> QED
      BY <1>1, <1>2, <1>4, <2>4, <2>10, <3>1, FollowedMore
  <2>14. Removals'
    <3>1. \A u \in known \cap Tasks : ~session[u].there => ~session'[u].there
      BY <2>5, <2>6
    <3>2. /\ \A j \in DOMAIN f : f[j].task \notin known \/ session[f[j].task].there
          /\ \A j \in DOMAIN f : f[j].kind = "removed" =>
                f[j].task \in known /\ ~session'[f[j].task].there
      BY <1>5, <2>3, <2>4, <2>5, <2>6
    <3> QED
      BY <1>1, <1>2, <2>4, <2>10, <3>1, <3>2, RemovalsMore
  <2>15. Owed'
    <3>1. alerts \o f \in Answers <=> (alerts \in Answers \/ f \in Answers)
      BY <2>4, <2>9, AnswersConcat
    <3> QED
      BY <1>2, <2>4, <2>10, <3>1, OwedTaken
  <2> QED
    BY <1>4, <2>11, <2>12, <2>13, <2>14, <2>15 DEF Inv
<1>6. CASE ~(t \in known /\ session[t].there)
  <2>1. UNCHANGED <<session, changed, alerts>>
    BY <1>6 DEF HandleRemove, sessionVars
  <2>2. SessionTypes' /\ QueueTypes' /\ Removals'
    BY <1>1, <1>2, <1>3, <2>1, SessionSame, BatchesSame, RemovalsSame
  <2>3. \A u \in Tasks : Followed(u)'
    <3> SUFFICES ASSUME NEW u \in Tasks PROVE Followed(u)'
      OBVIOUS
    <3>1. u \in gaps' \/ (store'[u] = store[u] /\ u \notin gaps)
      BY <1>2, <1>4
    <3> QED
      BY <1>1, <1>2, <2>1, <3>1, FollowedSame
  <2>4. Owed'
    BY <1>2, <2>1, OwedTaken
  <2> QED
    BY <1>4, <2>2, <2>3, <2>4 DEF Inv
<1> QED
  BY <1>5, <1>6

\* An addition that is taken may be answered: what is owed for it is owed on.
LEMMA OwedAdded ==
    ASSUME Inv, TakeCmd("Add")
    PROVE  Owed'
<1>1. QueueTypes /\ ListTypes /\ NoLostRefresh /\ FinishedAnnounced /\ BoundTypes /\ Owed
  BY DEF Inv
<1>2. UNCHANGED <<uiVars, ops, turns, gaps>> /\ posted' = posted
  BY DEF TakeCmd
<1>3. /\ notices' = notices /\ ops \in Nat /\ notices \in Nat /\ ops' = ops
  BY <1>1, <1>2, WindowSame
<1>4. /\ Cardinality(Positions(cmds, Additions)) = Cardinality(Positions(cmds', Additions)) + 1
      /\ Cardinality(Positions(cmds', Additions)) \in Nat
  BY <1>1, Taken
<1>5. Cardinality(Positions(posted, Answers)) \in Nat
  BY <1>1, Counts
<1>6. Answers' = Answers /\ Additions' = Additions
      /\ Positions(posted', Answers') = Positions(posted, Answers)
      /\ Positions(cmds', Additions') = Positions(cmds', Additions)
  BY <1>2 DEF Answers, Additions, HasDuplicate
<1>7. Cardinality(Positions(cmds, Additions)) + Cardinality(Positions(posted, Answers))
        + (IF alerts \in Answers THEN 1 ELSE 0) + notices <= ops
  BY <1>1 DEF Owed
<1>8. Cardinality(Positions(cmds', Additions')) + Cardinality(Positions(posted', Answers'))
        + (IF alerts' \in Answers' THEN 1 ELSE 0) + notices' <= ops'
  BY <1>3, <1>4, <1>5, <1>6, <1>7
<1> QED
  BY <1>8 DEF Owed, Positions

\* The worker adds a torrent, or answers that it is there already.
LEMMA HandleAddStep ==
    ASSUME TaskAssumption, Inv, HandleAdd
    PROVE  Inv'
<1>1. /\ SessionTypes /\ QueueTypes /\ ListTypes /\ BoundTypes /\ Removals
      /\ \A u \in Tasks : Followed(u)
      /\ NoLostRefresh /\ FinishedAnnounced /\ Owed
  BY DEF Inv
<1>2. TakeCmd("Add") /\ UNCHANGED <<known, posted, uiVars, ops, turns, gaps>>
  BY DEF HandleAdd, TakeCmd
<1>3. Head(cmds).task \in Tasks /\ cmds' \in Seq(Cmds)
  BY <1>1, <1>2, Taken
<1>4. /\ ListTypes' /\ NoLostRefresh' /\ FinishedAnnounced' /\ BoundTypes'
      /\ store' = store /\ notices' = notices
  BY <1>1, <1>2, WindowSame
<1>5. Owed'
  BY <1>2, OwedAdded
<1>6. alerts \in Seq(Views) /\ InTransit(alerts)
  BY <1>1 DEF QueueTypes, InTransit
<1>7. PICK t \in Tasks :
        \/ /\ t \in known
           /\ alerts' = <<View("duplicate", t, "unknown")>> \o alerts
           /\ UNCHANGED <<session, changed>>
        \/ /\ t \notin known /\ session[t].there
           /\ alerts' = Append(alerts, View("error", t, "error"))
           /\ UNCHANGED <<session, changed>>
        \/ /\ t \notin known /\ ~session[t].there
           /\ session' = [session EXCEPT ![t] = [Gone EXCEPT !.there = TRUE]]
           /\ alerts' = Append(alerts, View("added", t, "unknown"))
           /\ changed' = changed \cup {t}
  BY <1>3 DEF HandleAdd
<1>8. CASE /\ t \in known
           /\ alerts' = <<View("duplicate", t, "unknown")>> \o alerts
           /\ UNCHANGED <<session, changed>>
  <2> DEFINE v == View("duplicate", t, "unknown")
             f == <<v>>
             g == f \o alerts
  <2>1. v \in Views /\ v.kind = "duplicate"
    BY DEF View, Views, Status
  <2> HIDE DEF v
  <2>2. f \in Seq(Views) /\ InTransit(f) /\ RemovedLast(f) /\ DOMAIN f = {1} /\ f[1] = v
    BY <2>1, SingleView
  <2>3. alerts' = g
    BY <1>8 DEF v
  <2>4. \A u \in Tasks : Followed(u)'
    <3> SUFFICES ASSUME NEW u \in Tasks, u \notin changed PROVE Followed(u)'
      BY <1>8 DEF Followed
    <3>1. /\ Told(session[u], posted, alerts, u)
          /\ u \in gaps \/ store[u] = Expected(session[u]) \/ Pending(posted, alerts, u)
      BY <1>1 DEF Followed
    <3>2. Told(session[u], posted, g, u)
      BY <1>6, <2>1, <3>1, ToldLess
    <3>3. Pending(posted, alerts, u) => Pending(posted, g, u)
      BY <1>6, <2>2, PendingMore
    <3>4. /\ Told(session'[u], posted', alerts', u)
          /\ u \in gaps' \/ store'[u] = Expected(session'[u]) \/ Pending(posted', alerts', u)
      BY <1>2, <1>4, <1>8, <2>3, <3>1, <3>2, <3>3
    <3> QED
      BY <3>4 DEF Followed, Told, Pending, Settles, DecidedIn, Right, Expected, Mapped, Decides
  <2>5. QueueTypes'
    <3>1. InTransit(alerts')
      BY <1>6, <2>2, <2>3, InTransitConcat
    <3> QED
      BY <1>1, <1>2, <1>3, <3>1 DEF QueueTypes, InTransit
  <2>6. Removals'
    <3>1. RemovedLast(alerts) /\ (\A b \in DOMAIN posted : RemovedLast(posted[b]))
          /\ \A i \in DOMAIN alerts : alerts[i].kind = "removed" =>
                alerts[i].task \in known /\ ~session[alerts[i].task].there
      BY <1>1 DEF Removals, RemovalsHeld
    <3>2. \A i \in DOMAIN f : f[i].kind # "removed"
      BY <2>1, <2>2
    <3>3. RemovedLast(g)
      BY <1>6, <2>2, <3>1, <3>2, RemovedLastConcat
    <3>4. \A i \in DOMAIN g :
            \/ i \in DOMAIN f /\ g[i] = f[i]
            \/ i - Len(f) \in DOMAIN alerts /\ g[i] = alerts[i - Len(f)]
      BY <1>6, <2>2, Concatenated
    <3> HIDE DEF g, f
    <3>5. \A i \in DOMAIN g : g[i].kind = "removed" =>
                g[i].task \in known /\ ~session[g[i].task].there
      BY <3>1, <3>2, <3>4
    <3> QED
      BY <1>2, <1>8, <2>3, <3>1, <3>3, <3>5 DEF Removals, RemovalsHeld, RemovedLast
  <2>7. SessionTypes'
    BY <1>1, <1>2, <1>8, SessionSame
  <2> QED
    BY <1>4, <1>5, <2>4, <2>5, <2>6, <2>7 DEF Inv
<1>9. CASE /\ t \notin known /\ session[t].there
           /\ alerts' = Append(alerts, View("error", t, "error"))
           /\ UNCHANGED <<session, changed>>
  <2>1. changed' \in {changed, changed \cup {t}}
    BY <1>9
  <2>2. SessionTypes' /\ QueueTypes' /\ (\A u \in Tasks : Followed(u)') /\ Removals'
    BY <1>1, <1>2, <1>3, <1>4, <1>9, <2>1, ErrorAlert
  <2> QED
    BY <1>4, <1>5, <2>2 DEF Inv
<1>10. CASE /\ t \notin known /\ ~session[t].there
            /\ session' = [session EXCEPT ![t] = [Gone EXCEPT !.there = TRUE]]
            /\ alerts' = Append(alerts, View("added", t, "unknown"))
            /\ changed' = changed \cup {t}
  <2> DEFINE v == View("added", t, "unknown")
             f == <<v>>
             s == [Gone EXCEPT !.there = TRUE]
  <2>1. s \in Torrents /\ s.there
    BY DEF Gone, Torrents
  <2>2. v \in Views /\ v.kind = "added" /\ v.task = t
    BY DEF View, Views, Status
  <2>3. alerts' = Append(alerts, v) /\ session' = [session EXCEPT ![t] = s]
    BY <1>10
  <2> HIDE DEF v, s
  <2>4. f \in Seq(Views) /\ InTransit(f) /\ RemovedLast(f) /\ f \notin Answers
        /\ DOMAIN f = {1} /\ f[1] = v
    BY <2>2, SingleView
  <2>5. \A u \in Tasks : u # t => \A x : Settles(x, f, u)
    BY <2>2, SingleView
  <2>6. alerts' = alerts \o f
    BY <1>6, <2>2, <2>3, AppendIsConcat
  <2> HIDE DEF f
  <2>7. SessionTypes' /\ \A u \in Tasks : u # t => session'[u] = session[u]
    BY <1>1, <1>2, <1>10, <2>1, <2>3, TorrentSet
  <2>8. QueueTypes'
    BY <1>1, <1>2, <1>3, <2>4, <2>6, BatchesMore
  <2>9. \A u \in Tasks : Followed(u)'
    <3> SUFFICES ASSUME NEW u \in Tasks PROVE Followed(u)'
      OBVIOUS
    <3>1. \/ u \in changed'
          \/ /\ Settles(session'[u], f, u)
             /\ DecidedIn(f, u) \/ (u \notin changed /\ session'[u] = session[u])
      BY <1>10, <2>5, <2>7
    <3> QED
      BY <1>1, <1>2, <1>4, <2>4, <2>6, <3>1, FollowedMore
  <2>10. Removals'
    <3>1. \A u \in known \cap Tasks : ~session[u].there => ~session'[u].there
      BY <1>10, <2>7
    <3>2. /\ \A j \in DOMAIN f : f[j].task \notin known \/ session[f[j].task].there
          /\ \A j \in DOMAIN f : f[j].kind # "removed"
      BY <1>10, <2>2, <2>4
    <3> QED
      BY <1>1, <1>2, <2>4, <2>6, <3>1, <3>2, RemovalsMore
  <2> QED
    BY <1>4, <1>5, <2>7, <2>8, <2>9, <2>10 DEF Inv
<1> QED
  BY <1>7, <1>8, <1>9, <1>10

-----------------------------------------------------------------------------
(* The steps of the window.                                                *)

\* What follows from a batch without an answer, and from a closed message box.
LEMMA FinishedBatch ==
    ASSUME ListTypes, FinishBatch(store'), store' \in [Tasks -> Entries]
    PROVE  /\ notified' \subseteq Tasks /\ refresh' = TRUE
           /\ NoLostRefresh' /\ FinishedAnnounced'
  BY DEF FinishBatch, NoLostRefresh, FinishedAnnounced, ListTypes

\* A batch arrives in the list.
LEMMA IngestStep ==
    ASSUME TaskAssumption, Inv, Ingest
    PROVE  Inv'
<1>1. /\ SessionTypes /\ QueueTypes /\ ListTypes /\ BoundTypes /\ Removals
      /\ \A u \in Tasks : Followed(u)
      /\ NoLostRefresh /\ FinishedAnnounced /\ Owed
  BY DEF Inv
<1>2. /\ UNCHANGED <<session, changed, alerts, known, cmds, shown, menu, ops, turns>>
      /\ posted # <<>> /\ posted' = Tail(posted)
      /\ store' = FoldLeft(Apply, store, Events)
      /\ gaps' = {t \in gaps : ~LastOf(Events, t, Tells)}
                 \cup {t \in Tasks : LastOf(Events, t, Misleads)}
  BY DEF Ingest, sessionVars
<1> DEFINE X == Seq(Views) \ {<<>>}
           q == Head(posted)
<1>3. posted \in Seq(X) /\ \A b \in DOMAIN posted : InTransit(posted[b])
  BY <1>1 DEF QueueTypes
<1>4. /\ q \in X /\ InTransit(q) /\ Len(q) \in Nat
      /\ DOMAIN q = 1 .. Len(q) /\ DOMAIN Events = 1 .. Len(q)
      /\ \A i \in 1 .. Len(q) : Events[i].kind = q[i].kind
  BY <1>1, <1>2, EventsOfBatch
<1>5. /\ posted' \in Seq(X)
      /\ \A b \in DOMAIN posted' : b + 1 \in DOMAIN posted /\ posted'[b] = posted[b + 1]
  <2> HIDE DEF X
  <2> QED
    BY <1>2, <1>3, Popped
<1>6. store' \in [Tasks -> Entries]
  <2>1. PICK h : Path(h, Len(q), Events) /\ h[Len(q)] = store'
    BY <1>1, <1>2, IngestPath
  <2>2. Len(q) \in 0 .. Len(q)
    BY <1>4
  <2> QED
    BY <2>1, <2>2 DEF Path
<1>7. (\E i \in DOMAIN Events : Events[i].kind = "duplicate") <=> q \in Answers
  BY <1>4 DEF Answers, HasDuplicate
<1>8. \/ /\ q \in Answers
         /\ notices' = notices + 1 /\ UNCHANGED <<notified, refresh>>
      \/ /\ q \notin Answers
         /\ FinishBatch(store') /\ UNCHANGED notices
  BY <1>7 DEF Ingest
<1>9. notices \in Nat
  BY <1>1 DEF ListTypes
<1>10. /\ notices' = notices + (IF q \in Answers THEN 1 ELSE 0)
       /\ notified' \subseteq Tasks /\ refresh' \in BOOLEAN
       /\ NoLostRefresh' /\ FinishedAnnounced'
  <2>1. CASE q \in Answers /\ notices' = notices + 1 /\ UNCHANGED <<notified, refresh>>
    <3>1. notices' > 0 /\ notices' # 0
      BY <1>9, <2>1
    <3>2. NoLostRefresh' /\ FinishedAnnounced'
      BY <3>1 DEF NoLostRefresh, FinishedAnnounced
    <3> QED
      BY <1>1, <2>1, <3>2 DEF ListTypes
  <2>2. CASE q \notin Answers /\ FinishBatch(store') /\ UNCHANGED notices
    <3>1. notified' \subseteq Tasks /\ refresh' = TRUE /\ NoLostRefresh' /\ FinishedAnnounced'
      BY <1>1, <1>6, <2>2, FinishedBatch
    <3> QED
      BY <1>9, <2>2, <3>1
  <2> QED
    BY <1>8, <2>1, <2>2
<1>11. ListTypes'
  <2>1. lock' \in [Tasks -> {"none", "held", "over"}]
    <3>1. lock \in [Tasks -> {"none", "held", "over"}]
      BY <1>1 DEF ListTypes
    <3>2. lock' = [t \in Tasks |->
                 IF lock[t] = "over" /\ \E i \in DOMAIN Events :
                        Events[i].task = t /\ Events[i].kind = "progress"
                 THEN "none" ELSE lock[t]]
      BY DEF Ingest
    <3> QED
      BY <3>1, <3>2
  <2>2. gaps' \subseteq Tasks
    BY <1>1, <1>2 DEF ListTypes
  <2>3. notices' \in Nat
    BY <1>9, <1>10
  <2>4. shown' \in [Tasks -> Entries] /\ menu' \in [task : Tasks, status : Status] \cup {NoMenu}
    BY <1>1, <1>2 DEF ListTypes
  <2> QED
    BY <1>6, <1>10, <2>1, <2>2, <2>3, <2>4 DEF ListTypes, Entries
<1>12. QueueTypes'
  <2>1. \A b \in DOMAIN posted' : InTransit(posted'[b])
    BY <1>3, <1>5
  <2>2. InTransit(alerts') /\ cmds' \in Seq(Cmds)
    BY <1>1, <1>2 DEF QueueTypes
  <2> QED
    BY <1>5, <2>1, <2>2 DEF QueueTypes, InTransit, Views, Cmds
<1>13. \A t \in Tasks : Followed(t)'
  <2> SUFFICES ASSUME NEW t \in Tasks, t \notin changed PROVE Followed(t)'
    BY <1>2 DEF Followed
  <2> DEFINE s == session[t]
  <2>1. /\ Told(s, posted, alerts, t)
        /\ t \in gaps \/ store[t] = Expected(s) \/ Pending(posted, alerts, t)
    BY <1>1 DEF Followed
  <2>2. /\ Told(s, Tail(posted), alerts, t)
        /\ Pending(Tail(posted), alerts, t) \/ Settles(s, q, t)
        /\ Pending(posted, alerts, t) => Pending(Tail(posted), alerts, t) \/ DecidedIn(q, t)
    BY <1>2, <1>3, <2>1, ToldTaken
  <2>3. Pending(Tail(posted), alerts, t) \/ t \in gaps' \/ store'[t] = Expected(s)
    <3> SUFFICES ASSUME ~Pending(Tail(posted), alerts, t)
                 PROVE  t \in gaps' \/ store'[t] = Expected(s)
      OBVIOUS
    <3>1. Settles(s, q, t) /\ (DecidedIn(q, t) \/ t \in gaps \/ store[t] = Expected(s))
      BY <2>1, <2>2
    <3>2. s.there \in BOOLEAN
      BY <1>1 DEF SessionTypes, Torrents
    <3> QED
      BY <1>1, <1>2, <3>1, <3>2, IngestFollows
  <2>4. /\ Told(session'[t], posted', alerts', t)
        /\ t \in gaps' \/ store'[t] = Expected(session'[t]) \/ Pending(posted', alerts', t)
    BY <1>2, <2>2, <2>3
  <2> QED
    BY <2>4 DEF Followed, Told, Pending, Settles, DecidedIn, Right, Expected, Mapped, Decides
<1>14. Removals'
  <2>1. RemovedLast(alerts) /\ RemovalsHeld /\ \A b \in DOMAIN posted : RemovedLast(posted[b])
    BY <1>1 DEF Removals
  <2>2. \A b \in DOMAIN posted' : RemovedLast(posted'[b])
    BY <1>5, <2>1
  <2> QED
    BY <1>2, <2>1, <2>2 DEF Removals, RemovalsHeld, RemovedLast
<1>15. SessionTypes' /\ BoundTypes'
  BY <1>1, <1>2, SessionSame, BoundsSame
<1>16. Owed'
  <2> HIDE DEF X
  <2>1. Cardinality(Positions(posted, Answers))
          = Cardinality(Positions(Tail(posted), Answers)) + (IF q \in Answers THEN 1 ELSE 0)
    BY <1>2, <1>3, CountTail
  <2>2. Answers' = Answers /\ Additions' = Additions
    BY DEF Answers, Additions, HasDuplicate
  <2>3. Positions(cmds', Additions') = Positions(cmds, Additions)
    BY <1>2, <2>2
  <2>4. Positions(posted', Answers') = Positions(Tail(posted), Answers)
    BY <1>2, <2>2
  <2>5. /\ Cardinality(Positions(cmds, Additions)) \in Nat
        /\ Cardinality(Positions(posted, Answers)) \in Nat
    BY <1>1, Counts
  <2>6. Cardinality(Positions(Tail(posted), Answers)) \in Nat
    BY <1>2, <1>5, CountFinite
  <2>7. Cardinality(Positions(cmds, Additions)) + Cardinality(Positions(posted, Answers))
          + (IF alerts \in Answers THEN 1 ELSE 0) + notices <= ops
    BY <1>1 DEF Owed
  <2>8. ops \in Nat
    BY <1>1 DEF BoundTypes
  <2>9. Cardinality(Positions(cmds', Additions')) + Cardinality(Positions(posted', Answers'))
          + (IF alerts' \in Answers' THEN 1 ELSE 0) + notices' <= ops'
    BY <1>2, <1>9, <1>10, <2>1, <2>2, <2>3, <2>4, <2>5, <2>6, <2>7, <2>8
  <2> QED
    BY <2>9 DEF Owed, Positions
<1> QED
  BY <1>10, <1>11, <1>12, <1>13, <1>14, <1>15, <1>16 DEF Inv

\* The session and the queues are as they were, and no box is opened.
LEMMA WorldSame ==
    ASSUME Inv, UNCHANGED <<sessionVars, known, cmds, posted, ops, turns, store, gaps>>,
           notices' \in Nat, notices' <= notices,
           ListTypes', NoLostRefresh', FinishedAnnounced'
    PROVE  Inv'
<1>1. /\ SessionTypes /\ QueueTypes /\ ListTypes /\ BoundTypes /\ Removals
      /\ (\A u \in Tasks : Followed(u)) /\ Owed
  BY DEF Inv
<1>2. UNCHANGED <<session, changed, alerts>>
  BY DEF sessionVars
<1>3. cmds' \in Seq(Cmds)
  BY <1>1 DEF QueueTypes
<1>4. SessionTypes' /\ QueueTypes' /\ Removals' /\ BoundTypes'
  BY <1>1, <1>2, <1>3, SessionSame, BatchesSame, RemovalsSame, BoundsSame
<1>5. \A u \in Tasks : Followed(u)'
  <2> SUFFICES ASSUME NEW u \in Tasks PROVE Followed(u)'
    OBVIOUS
  <2>1. u \in gaps' \/ (store'[u] = store[u] /\ u \notin gaps)
    OBVIOUS
  <2> QED
    BY <1>1, <1>2, <2>1, FollowedSame
<1>6. Owed'
  <2>1. /\ Cardinality(Positions(cmds, Additions)) \in Nat
        /\ Cardinality(Positions(posted, Answers)) \in Nat
    BY <1>1, Counts
  <2>2. Answers' = Answers /\ Additions' = Additions
        /\ Positions(posted', Answers') = Positions(posted, Answers)
        /\ Positions(cmds', Additions') = Positions(cmds, Additions)
    BY DEF Answers, Additions, HasDuplicate
  <2>3. Cardinality(Positions(cmds, Additions)) + Cardinality(Positions(posted, Answers))
          + (IF alerts \in Answers THEN 1 ELSE 0) + notices <= ops
    BY <1>1 DEF Owed
  <2>4. ops \in Nat /\ notices \in Nat
    BY <1>1 DEF BoundTypes, ListTypes
  <2>5. Cardinality(Positions(cmds', Additions')) + Cardinality(Positions(posted', Answers'))
          + (IF alerts' \in Answers' THEN 1 ELSE 0) + notices' <= ops'
    BY <1>2, <2>1, <2>2, <2>3, <2>4
  <2> QED
    BY <2>5 DEF Owed, Positions
<1> QED
  BY <1>4, <1>5, <1>6 DEF Inv

\* A message box is closed.
LEMMA CloseNoticeStep ==
    ASSUME Inv, CloseNotice
    PROVE  Inv'
<1>1. ListTypes /\ NoLostRefresh /\ FinishedAnnounced
  BY DEF Inv
<1>2. /\ UNCHANGED <<sessionVars, known, cmds, posted, store, lock, shown, menu, ops, turns, gaps>>
      /\ notices > 0 /\ notices' = notices - 1 /\ FinishBatch(store')
  BY DEF CloseNotice, FinishBatch
<1>3. notices' \in Nat /\ notices' <= notices
  BY <1>1, <1>2 DEF ListTypes
<1>4. store' \in [Tasks -> Entries]
  BY <1>1, <1>2 DEF ListTypes
<1>5. notified' \subseteq Tasks /\ refresh' = TRUE /\ NoLostRefresh' /\ FinishedAnnounced'
  BY <1>1, <1>2, <1>4, FinishedBatch
<1>6. ListTypes'
  BY <1>1, <1>2, <1>3, <1>5 DEF ListTypes
<1> QED
  BY <1>2, <1>3, <1>5, <1>6, WorldSame

\* A lock runs out.
LEMMA LockExpiresStep ==
    ASSUME Inv, NEW t \in Tasks, LockExpires(t)
    PROVE  Inv'
<1>1. ListTypes /\ NoLostRefresh /\ FinishedAnnounced
  BY DEF Inv
<1>2. /\ UNCHANGED <<sessionVars, known, cmds, posted, store, notified, notices, refresh,
                     shown, menu, ops, turns, gaps>>
      /\ lock' = [lock EXCEPT ![t] = "over"]
  BY DEF LockExpires
<1>3. lock' \in [Tasks -> {"none", "held", "over"}]
  BY <1>1, <1>2 DEF ListTypes
<1>4. ListTypes' /\ notices' \in Nat /\ notices' <= notices
  BY <1>1, <1>2, <1>3 DEF ListTypes
<1>5. NoLostRefresh' /\ FinishedAnnounced'
  BY <1>1, <1>2 DEF NoLostRefresh, FinishedAnnounced
<1> QED
  BY <1>2, <1>4, <1>5, WorldSame

\* The refresh timer fires.
LEMMA RefreshTimeoutStep ==
    ASSUME Inv, RefreshTimeout
    PROVE  Inv'
<1>1. ListTypes /\ NoLostRefresh /\ FinishedAnnounced
  BY DEF Inv
<1>2. /\ UNCHANGED <<sessionVars, known, cmds, posted, store, lock, notified, notices,
                     menu, ops, turns, gaps>>
      /\ refresh' = FALSE /\ shown' = store
  BY DEF RefreshTimeout
<1>3. ListTypes' /\ notices' \in Nat /\ notices' <= notices
  <2>1. shown' \in [Tasks -> Entries] /\ notices \in Nat
    BY <1>1, <1>2 DEF ListTypes
  <2>2. refresh' \in BOOLEAN
    BY <1>2
  <2>3. ListTypes'
    BY <1>1, <1>2, <2>1, <2>2 DEF ListTypes
  <2> QED
    BY <1>2, <2>1, <2>3
<1>4. NoLostRefresh' /\ FinishedAnnounced'
  BY <1>1, <1>2 DEF NoLostRefresh, FinishedAnnounced
<1> QED
  BY <1>2, <1>3, <1>4, WorldSame

\* The context menu opens.
LEMMA OpenMenuStep ==
    ASSUME Inv, NEW t \in Tasks, OpenMenu(t)
    PROVE  Inv'
<1>1. ListTypes /\ NoLostRefresh /\ FinishedAnnounced
  BY DEF Inv
<1>2. /\ UNCHANGED <<sessionVars, known, cmds, posted, store, lock, notified, notices,
                     refresh, shown, ops, turns, gaps>>
      /\ menu' = [task |-> t, status |-> shown[t]] /\ shown[t] # Absent
  BY DEF OpenMenu
<1>3. shown[t] \in Status
  BY <1>1, <1>2 DEF ListTypes, Entries
<1>4. menu' \in [task : Tasks, status : Status]
  BY <1>2, <1>3
<1>5. ListTypes' /\ notices' \in Nat /\ notices' <= notices
  BY <1>1, <1>2, <1>4 DEF ListTypes
<1>6. NoLostRefresh' /\ FinishedAnnounced'
  BY <1>1, <1>2 DEF NoLostRefresh, FinishedAnnounced
<1> QED
  BY <1>2, <1>5, <1>6, WorldSame

-----------------------------------------------------------------------------
(* The steps of the user.                                                  *)

\* An operation: at most one addition more, and the list changes only where it
\* is known to be wrong afterwards.
LEMMA OpStep ==
    ASSUME TaskAssumption, Inv, ops < MaxOps, ops' = ops + 1,
           UNCHANGED <<sessionVars, known, posted, notices, turns>>,
           cmds' \in Seq(Cmds),
           Cardinality(Positions(cmds', Additions))
             <= Cardinality(Positions(cmds, Additions)) + 1,
           \A t \in Tasks : t \in gaps' \/ (store'[t] = store[t] /\ t \notin gaps),
           ListTypes', NoLostRefresh', FinishedAnnounced'
    PROVE  Inv'
<1>1. /\ SessionTypes /\ QueueTypes /\ ListTypes /\ BoundTypes /\ Removals
      /\ (\A u \in Tasks : Followed(u)) /\ Owed
  BY DEF Inv
<1>2. UNCHANGED <<session, changed, alerts>>
  BY DEF sessionVars
<1>3. SessionTypes' /\ QueueTypes' /\ Removals'
  BY <1>1, <1>2, SessionSame, BatchesSame, RemovalsSame
<1>4. BoundTypes' /\ ops \in Nat /\ notices \in Nat
  BY <1>1 DEF BoundTypes, TaskAssumption, ListTypes
<1>5. \A u \in Tasks : Followed(u)'
  BY <1>1, <1>2, FollowedSame
<1>6. Owed'
  <2>1. /\ Cardinality(Positions(cmds, Additions)) \in Nat
        /\ Cardinality(Positions(posted, Answers)) \in Nat
    BY <1>1, Counts
  <2>2. Answers' = Answers /\ Additions' = Additions
        /\ Positions(posted', Answers') = Positions(posted, Answers)
        /\ Positions(cmds', Additions') = Positions(cmds', Additions)
    BY DEF Answers, Additions, HasDuplicate
  <2>3. Cardinality(Positions(cmds, Additions)) + Cardinality(Positions(posted, Answers))
          + (IF alerts \in Answers THEN 1 ELSE 0) + notices <= ops
    BY <1>1 DEF Owed
  <2>4. Cardinality(Positions(cmds', Additions)) \in Nat
    BY CountFinite
  <2>5. Cardinality(Positions(cmds', Additions')) + Cardinality(Positions(posted', Answers'))
          + (IF alerts' \in Answers' THEN 1 ELSE 0) + notices' <= ops'
    BY <1>2, <1>4, <2>1, <2>2, <2>3, <2>4
  <2> QED
    BY <2>5 DEF Owed, Positions
<1> QED
  BY <1>3, <1>4, <1>5, <1>6 DEF Inv

\* A command is queued.
LEMMA Enqueued ==
    ASSUME QueueTypes, NEW op \in {"Add", "Pause", "Resume", "Remove"}, NEW t \in Tasks,
           Enqueue(op, t)
    PROVE  /\ cmds' \in Seq(Cmds)
           /\ Cardinality(Positions(cmds', Additions))
                <= Cardinality(Positions(cmds, Additions)) + 1
<1> DEFINE c == [op |-> op, task |-> t]
<1>1. cmds \in Seq(Cmds) /\ c \in Cmds /\ cmds' = Append(cmds, c)
  BY DEF QueueTypes, Cmds, Enqueue
<1> HIDE DEF c
<1>2. Append(cmds, c) \in Seq(Cmds)
  BY <1>1, Appended
<1>3. Cardinality(Positions(Append(cmds, c), Additions))
        = Cardinality(Positions(cmds, Additions)) + (IF c \in Additions THEN 1 ELSE 0)
  BY <1>1, CountAppend
<1>4. Cardinality(Positions(cmds, Additions)) \in Nat
  BY Counts
<1> QED
  BY <1>1, <1>2, <1>3, <1>4

\* The user adds a task.
LEMMA AddTaskStep ==
    ASSUME TaskAssumption, Inv, NEW t \in Tasks, AddTask(t)
    PROVE  Inv'
<1>1. QueueTypes /\ ListTypes /\ NoLostRefresh /\ FinishedAnnounced
  BY DEF Inv
<1>2. /\ ops < MaxOps /\ ops' = ops + 1 /\ Enqueue("Add", t)
      /\ UNCHANGED <<sessionVars, known, posted, notices, turns>>
      /\ UNCHANGED <<store, lock, refresh, menu, gaps, notified, shown>>
  BY DEF AddTask, Op
<1>3. /\ cmds' \in Seq(Cmds)
      /\ Cardinality(Positions(cmds', Additions))
                <= Cardinality(Positions(cmds, Additions)) + 1
  BY <1>1, <1>2, Enqueued
<1>4. ListTypes' /\ NoLostRefresh' /\ FinishedAnnounced'
  BY <1>1, <1>2, ListSame DEF uiVars
<1>5. \A u \in Tasks : u \in gaps' \/ (store'[u] = store[u] /\ u \notin gaps)
  BY <1>2
<1> QED
  BY <1>2, <1>3, <1>4, <1>5, OpStep

\* The row the menu was opened on.
LEMMA Chosen ==
    ASSUME ListTypes, Choose
    PROVE  /\ menu.task \in Tasks /\ menu.status \in Status
           /\ menu' = NoMenu /\ ops < MaxOps /\ ops' = ops + 1
           /\ UNCHANGED <<sessionVars, known, posted, notices, turns, notified, shown>>
<1>1. menu \in [task : Tasks, status : Status]
  BY DEF ListTypes, Choose
<1> QED
  BY <1>1 DEF Choose, Op

\* A status set by a click: the refresh is asked for and the entry is known to
\* be ahead.
LEMMA Injected ==
    ASSUME ListTypes, FinishedAnnounced, NEW t \in Tasks, NEW st \in Status, st # "finished",
           InjectTransitionalStatus(t, st), menu' = NoMenu,
           UNCHANGED <<notices, notified, shown>>
    PROVE  /\ ListTypes' /\ NoLostRefresh' /\ FinishedAnnounced'
           /\ \A u \in Tasks : u \in gaps' \/ (store'[u] = store[u] /\ u \notin gaps)
<1>1. Applied(store[t], View("status", t, st)) = st
  BY DEF Applied, View
<1>2. store' = [store EXCEPT ![t] = st]
  BY <1>1 DEF InjectTransitionalStatus, Apply, View
<1>3. /\ refresh' = TRUE /\ gaps' = gaps \cup {t} /\ lock' = [lock EXCEPT ![t] = "held"]
  BY DEF InjectTransitionalStatus
<1>4. store \in [Tasks -> Entries] /\ st \in Entries
  BY DEF ListTypes, Entries
<1>5. store' \in [Tasks -> Entries] /\ store'[t] = st
      /\ \A u \in Tasks : u # t => store'[u] = store[u]
  BY <1>2, <1>4
<1>6. lock' \in [Tasks -> {"none", "held", "over"}]
  BY <1>3 DEF ListTypes
<1>7. ListTypes'
  <2>1. refresh' \in BOOLEAN /\ gaps' \subseteq Tasks
    BY <1>3 DEF ListTypes
  <2> QED
    BY <1>5, <1>6, <2>1 DEF ListTypes
<1>8. NoLostRefresh'
  BY <1>3 DEF NoLostRefresh
<1>9. FinishedAnnounced'
  BY <1>5 DEF FinishedAnnounced
<1> QED
  BY <1>3, <1>5, <1>7, <1>8, <1>9

\* The user starts or stops a task.
LEMMA StartStopStep ==
    ASSUME TaskAssumption, Inv, StartTask \/ StopTask
    PROVE  Inv'
<1>1. QueueTypes /\ ListTypes /\ NoLostRefresh /\ FinishedAnnounced
  BY DEF Inv
<1>2. PICK op \in {"Pause", "Resume"}, st \in {"queued", "paused"} :
        Choose /\ Enqueue(op, menu.task) /\ InjectTransitionalStatus(menu.task, st)
  BY DEF StartTask, StopTask
<1>3. /\ menu.task \in Tasks
      /\ menu' = NoMenu /\ ops < MaxOps /\ ops' = ops + 1
      /\ UNCHANGED <<sessionVars, known, posted, notices, turns, notified, shown>>
  BY <1>1, <1>2, Chosen
<1>4. /\ cmds' \in Seq(Cmds)
      /\ Cardinality(Positions(cmds', Additions))
                <= Cardinality(Positions(cmds, Additions)) + 1
  BY <1>1, <1>2, <1>3, Enqueued
<1>5. st \in Status /\ st # "finished"
  BY DEF Status
<1>6. /\ ListTypes' /\ NoLostRefresh' /\ FinishedAnnounced'
      /\ \A u \in Tasks : u \in gaps' \/ (store'[u] = store[u] /\ u \notin gaps)
  BY <1>1, <1>2, <1>3, <1>5, Injected
<1> QED
  BY <1>3, <1>4, <1>6, OpStep

\* The user forces the start of a task or removes it.
LEMMA ForceOrRemoveStep ==
    ASSUME TaskAssumption, Inv, ForceStart \/ RemoveTask
    PROVE  Inv'
<1>1. QueueTypes /\ ListTypes /\ NoLostRefresh /\ FinishedAnnounced
  BY DEF Inv
<1>2. PICK op \in {"Resume", "Remove"} : Choose /\ Enqueue(op, menu.task)
  BY DEF ForceStart, RemoveTask
<1>3. UNCHANGED <<store, lock, refresh, gaps>>
  BY DEF ForceStart, RemoveTask
<1>4. /\ menu.task \in Tasks
      /\ menu' = NoMenu /\ ops < MaxOps /\ ops' = ops + 1
      /\ UNCHANGED <<sessionVars, known, posted, notices, turns, notified, shown>>
  BY <1>1, <1>2, Chosen
<1>5. /\ cmds' \in Seq(Cmds)
      /\ Cardinality(Positions(cmds', Additions))
                <= Cardinality(Positions(cmds, Additions)) + 1
  BY <1>1, <1>2, <1>4, Enqueued
<1>6. ListTypes' /\ NoLostRefresh' /\ FinishedAnnounced'
  BY <1>1, <1>3, <1>4 DEF ListTypes, NoLostRefresh, FinishedAnnounced
<1>7. \A u \in Tasks : u \in gaps' \/ (store'[u] = store[u] /\ u \notin gaps)
  BY <1>3
<1> QED
  BY <1>4, <1>5, <1>6, <1>7, OpStep

\* The user edits a task.
LEMMA EditMetaStep ==
    ASSUME TaskAssumption, Inv, EditMeta
    PROVE  Inv'
<1>1. QueueTypes /\ ListTypes /\ NoLostRefresh /\ FinishedAnnounced
  BY DEF Inv
<1> DEFINE t == menu.task
           v == View("meta", t, "unknown")
<1>2. Choose /\ Consume(v) /\ UNCHANGED <<cmds, lock>>
  BY DEF EditMeta
<1>3. /\ t \in Tasks
      /\ menu' = NoMenu /\ ops < MaxOps /\ ops' = ops + 1
      /\ UNCHANGED <<sessionVars, known, posted, notices, turns, notified, shown>>
  BY <1>1, <1>2, Chosen
<1> HIDE DEF t
<1>4. /\ store' = [store EXCEPT ![t] = Applied(store[t], v)] /\ refresh' = TRUE
      /\ gaps' = IF store[t] = Absent THEN gaps \cup {t} ELSE gaps
  BY <1>2 DEF Consume, Apply, View
<1>5. Applied(store[t], v) = IF store[t] = Absent THEN "unknown" ELSE store[t]
  BY DEF Applied, View
<1> HIDE DEF v
<1>6. store \in [Tasks -> Entries] /\ store[t] \in Entries /\ "unknown" \in Entries
  BY <1>1, <1>3 DEF ListTypes, Entries, Status
<1>7. /\ store' \in [Tasks -> Entries]
      /\ store'[t] = IF store[t] = Absent THEN "unknown" ELSE store[t]
      /\ \A u \in Tasks : u # t => store'[u] = store[u]
  BY <1>3, <1>4, <1>5, <1>6
<1>8. \A u \in Tasks : u \in gaps' \/ (store'[u] = store[u] /\ u \notin gaps)
  BY <1>3, <1>4, <1>7
<1>9. ListTypes'
  <2>1. refresh' \in BOOLEAN /\ gaps' \subseteq Tasks
    BY <1>1, <1>3, <1>4 DEF ListTypes
  <2> QED
    BY <1>1, <1>2, <1>3, <1>7, <2>1 DEF ListTypes
<1>10. NoLostRefresh' /\ FinishedAnnounced'
  <2>1. NoLostRefresh'
    BY <1>4 DEF NoLostRefresh
  <2>2. \A u \in Tasks : store'[u] = "finished" => store[u] = "finished"
    BY <1>7
  <2>3. FinishedAnnounced'
    BY <1>1, <1>3, <2>2 DEF FinishedAnnounced
  <2> QED
    BY <2>1, <2>3
<1>11. /\ cmds' \in Seq(Cmds)
       /\ Cardinality(Positions(cmds', Additions))
                <= Cardinality(Positions(cmds, Additions)) + 1
  <2>1. Cardinality(Positions(cmds, Additions)) \in Nat
    BY <1>1, Counts
  <2> QED
    BY <1>1, <1>2, <2>1 DEF QueueTypes
<1> QED
  BY <1>3, <1>8, <1>9, <1>10, <1>11, OpStep

\* Commands for a set of tasks, none an addition.
LEMMA BatchQueued ==
    ASSUME TaskAssumption, QueueTypes, NEW op \in {"Pause", "Resume"}, NEW sts,
           cmds' = cmds \o BatchOf(op, sts)
    PROVE  /\ cmds' \in Seq(Cmds)
           /\ Cardinality(Positions(cmds', Additions))
                <= Cardinality(Positions(cmds, Additions)) + 1
<1> DEFINE U == {t \in Tasks : store[t] \in sts}
           o == SetToSeq(U)
           n == Cardinality(U)
           r == BatchOf(op, sts)
<1>1. U \in SUBSET Tasks /\ IsFiniteSet(U)
  BY FS_Subset DEF TaskAssumption
<1>2. n \in Nat /\ o \in [1 .. n -> U]
  <2> HIDE DEF U
  <2> QED
    BY <1>1, InOrder
<1>3. r = [i \in 1 .. n |-> [op |-> op, task |-> o[i]]]
  BY <1>2 DEF BatchOf
<1> HIDE DEF U, o, n
<1>4. \A i \in 1 .. n : [op |-> op, task |-> o[i]] \in Cmds \ Additions
  BY <1>1, <1>2 DEF Cmds, Additions
<1> HIDE DEF r
<1>5. r \in [1 .. n -> Cmds]
  BY <1>3, <1>4
<1>6. r \in Seq(Cmds) /\ Len(r) = n /\ \A i \in 1 .. n : r[i] \notin Additions
  BY <1>2, <1>3, <1>4, <1>5
<1>7. cmds \in Seq(Cmds) /\ cmds' = cmds \o r
  BY DEF QueueTypes, r
<1>8. /\ cmds' \in Seq(Cmds) /\ Len(cmds') = Len(cmds) + n /\ Len(cmds) \in Nat
      /\ \A i \in 1 .. Len(cmds) + n :
            cmds'[i] = IF i <= Len(cmds) THEN cmds[i] ELSE r[i - Len(cmds)]
  <2>1. cmds \in Seq(Cmds) /\ r \in Seq(Cmds)
    BY <1>6, <1>7
  <2>2. /\ cmds \o r \in Seq(Cmds) /\ Len(cmds \o r) = Len(cmds) + Len(r)
        /\ \A i \in 1 .. Len(cmds) + Len(r) :
              (cmds \o r)[i] = IF i <= Len(cmds) THEN cmds[i] ELSE r[i - Len(cmds)]
    BY <2>1, ConcatProperties
  <2>3. Len(cmds) \in Nat
    BY <2>1
  <2> QED
    BY <1>6, <1>7, <2>2, <2>3
<1>9. DOMAIN cmds = 1 .. Len(cmds) /\ DOMAIN cmds' = 1 .. Len(cmds) + n
  BY <1>7, <1>8
<1>10. Positions(cmds', Additions) = Positions(cmds, Additions)
  <2>1. ASSUME NEW i \in Positions(cmds, Additions) PROVE i \in Positions(cmds', Additions)
    BY <1>2, <1>8, <1>9, <2>1 DEF Positions
  <2>2. ASSUME NEW i \in Positions(cmds', Additions) PROVE i \in Positions(cmds, Additions)
    <3>1. i \in 1 .. Len(cmds) + n /\ cmds'[i] \in Additions
      BY <1>9, <2>2 DEF Positions
    <3>2. i <= Len(cmds)
      <4> SUFFICES ASSUME ~(i <= Len(cmds)) PROVE FALSE
        OBVIOUS
      <4>1. i - Len(cmds) \in 1 .. n /\ cmds'[i] = r[i - Len(cmds)]
        BY <1>2, <1>8, <3>1
      <4> QED
        BY <1>6, <3>1, <4>1
    <3> QED
      BY <1>8, <1>9, <3>1, <3>2 DEF Positions
  <2> QED
    BY <2>1, <2>2
<1>11. Cardinality(Positions(cmds, Additions)) \in Nat
  BY Counts
<1> QED
  BY <1>8, <1>10, <1>11

\* The user pauses or resumes all tasks.
LEMMA AllStep ==
    ASSUME TaskAssumption, Inv, PauseAll \/ ResumeAll
    PROVE  Inv'
<1>1. QueueTypes /\ ListTypes /\ NoLostRefresh /\ FinishedAnnounced
  BY DEF Inv
<1>2. /\ ops < MaxOps /\ ops' = ops + 1
      /\ UNCHANGED <<sessionVars, known, posted, notices, turns, notified, shown>>
      /\ UNCHANGED <<store, lock, refresh, menu, gaps>>
  BY DEF PauseAll, ResumeAll, Op
<1>3. \/ cmds' = cmds \o BatchOf("Pause", {"downloading", "seeding"})
      \/ cmds' = cmds \o BatchOf("Resume", {"paused"})
  BY DEF PauseAll, ResumeAll
<1>4. /\ cmds' \in Seq(Cmds)
      /\ Cardinality(Positions(cmds', Additions))
                <= Cardinality(Positions(cmds, Additions)) + 1
  BY <1>1, <1>3, BatchQueued
<1>5. ListTypes' /\ NoLostRefresh' /\ FinishedAnnounced'
  BY <1>1, <1>2, ListSame DEF uiVars
<1>6. \A u \in Tasks : u \in gaps' \/ (store'[u] = store[u] /\ u \notin gaps)
  BY <1>2
<1> QED
  BY <1>2, <1>4, <1>5, <1>6, OpStep

-----------------------------------------------------------------------------
(* The theorems.                                                           *)

\* The invariant holds at the start.
LEMMA InvInit ==
    ASSUME TaskAssumption, Init
    PROVE  Inv
<1>1. SessionTypes
  BY DEF Init, SessionTypes, Gone, Torrents
<1>2. QueueTypes
  <2>1. cmds = <<>> /\ posted = <<>> /\ alerts = <<>>
    BY DEF Init
  <2>2. InTransit(alerts)
    BY <2>1, NothingSaid
  <2> QED
    BY <2>1, <2>2 DEF QueueTypes
<1>3. ListTypes
  <2>1. store \in [Tasks -> Entries] /\ shown \in [Tasks -> Entries]
    BY DEF Init, Entries
  <2>2. lock \in [Tasks -> {"none", "held", "over"}]
    BY DEF Init
  <2> QED
    BY <2>1, <2>2 DEF ListTypes, Init
<1>4. BoundTypes
  BY DEF Init, BoundTypes, TaskAssumption
<1>5. \A t \in Tasks : Followed(t)
  <2> SUFFICES ASSUME NEW t \in Tasks PROVE Followed(t)
    OBVIOUS
  <2>1. posted = <<>> /\ alerts = <<>> /\ store[t] = Absent /\ session[t] = Gone
    BY DEF Init
  <2>2. Settles(session[t], alerts, t)
    BY <2>1, NothingSaid
  <2>3. Told(session[t], posted, alerts, t)
    BY <2>1, <2>2 DEF Told
  <2>4. store[t] = Expected(session[t])
    BY <2>1 DEF Expected, Gone
  <2> QED
    BY <2>3, <2>4 DEF Followed
<1>6. Removals
  <2>1. posted = <<>> /\ alerts = <<>>
    BY DEF Init
  <2> QED
    BY <2>1 DEF Removals, RemovalsHeld, RemovedLast
<1>7. NoLostRefresh /\ FinishedAnnounced
  BY DEF Init, NoLostRefresh, FinishedAnnounced, Absent
<1>8. Owed
  <2>1. posted = <<>> /\ alerts = <<>> /\ cmds = <<>> /\ notices = 0 /\ ops = 0
    BY DEF Init
  <2>2. Positions(cmds, Additions) = {} /\ Positions(posted, Answers) = {}
    BY <2>1 DEF Positions
  <2>3. alerts \notin Answers
    BY <2>1, NothingSaid
  <2> QED
    BY <2>1, <2>2, <2>3, FS_EmptySet DEF Owed
<1> QED
  BY <1>1, <1>2, <1>3, <1>4, <1>5, <1>6, <1>7, <1>8 DEF Inv

\* A step of others keeps the invariant.
LEMMA InvStutter ==
    ASSUME Inv, UNCHANGED vars
    PROVE  Inv'
<1>1. ListTypes /\ NoLostRefresh /\ FinishedAnnounced
  BY DEF Inv
<1>2. UNCHANGED <<sessionVars, known, cmds, posted, uiVars, ops, turns, gaps>>
  BY DEF vars
<1>3. ListTypes' /\ NoLostRefresh' /\ FinishedAnnounced'
  BY <1>1, <1>2, ListSame
<1>4. notices' = notices /\ store' = store /\ notices \in Nat
  BY <1>1, <1>2 DEF uiVars, ListTypes
<1>5. notices' \in Nat /\ notices' <= notices
  BY <1>4
<1> QED
  BY <1>2, <1>3, <1>4, <1>5, WorldSame

\* Every step keeps the invariant.
LEMMA InvNext ==
    ASSUME TaskAssumption, Inv, Next
    PROVE  Inv'
<1>1. CASE Worker
  <2>1. CASE HandlePause
    <3>1. TakeCmd("Pause") /\ SetPaused(Head(cmds).task, TRUE) /\ UNCHANGED alerts
      BY <2>1 DEF HandlePause
    <3> QED
      BY <3>1, SetPausedStep
  <2>2. CASE HandleResume
    <3>1. TakeCmd("Resume") /\ SetPaused(Head(cmds).task, FALSE) /\ UNCHANGED alerts
      BY <2>2 DEF HandleResume
    <3> QED
      BY <3>1, SetPausedStep
  <2> QED
    BY <1>1, <2>1, <2>2, PostTorrentUpdatesStep, DispatchStep, HandleAddStep, HandleRemoveStep
    DEF Worker
<1>2. CASE Ingest \/ CloseNotice \/ RefreshTimeout
  BY <1>2, IngestStep, CloseNoticeStep, RefreshTimeoutStep
<1>3. ASSUME NEW t \in Tasks, \/ TorrentMoves(t) \/ TorrentFails(t) \/ LockExpires(t)
                              \/ AddTask(t) \/ OpenMenu(t)
      PROVE  Inv'
  BY <1>3, TorrentMovesStep, TorrentFailsStep, LockExpiresStep, AddTaskStep, OpenMenuStep
<1>4. CASE \/ StartTask \/ StopTask \/ ForceStart \/ RemoveTask \/ EditMeta
           \/ PauseAll \/ ResumeAll
  BY <1>4, StartStopStep, ForceOrRemoveStep, EditMetaStep, AllStep
<1> QED
  BY <1>1, <1>2, <1>3, <1>4 DEF Next

\* The invariant of the task list holds in every behaviour.
THEOREM InvHolds ==
    ASSUME TaskAssumption
    PROVE  Spec => []Inv
<1>1. Init => Inv
  BY InvInit
<1>2. Inv /\ [Next]_vars => Inv'
  BY InvNext, InvStutter
<1> QED
  BY <1>1, <1>2, PTL DEF Spec

\* Every variable of the task list keeps its type; in particular no more message
\* boxes are open than the user did operations.
THEOREM TaskTypes ==
    ASSUME TaskAssumption
    PROVE  Spec => []TypeOK
<1>1. Inv => TypeOK
  <2> SUFFICES ASSUME Inv PROVE TypeOK
    OBVIOUS
  <2>1. SessionTypes /\ QueueTypes /\ ListTypes /\ BoundTypes /\ Owed
    BY DEF Inv
  <2>2. notices \in 0 .. MaxOps
    <3>1. /\ Cardinality(Positions(cmds, Additions)) \in Nat
          /\ Cardinality(Positions(posted, Answers)) \in Nat
      BY <2>1, Counts
    <3>2. notices \in Nat /\ ops \in 0 .. MaxOps
      BY <2>1 DEF ListTypes, BoundTypes
    <3>3. Cardinality(Positions(cmds, Additions)) + Cardinality(Positions(posted, Answers))
            + (IF alerts \in Answers THEN 1 ELSE 0) + notices <= ops
      BY <2>1 DEF Owed
    <3>4. notices <= ops
      BY <3>1, <3>2, <3>3
    <3> QED
      BY <3>2, <3>4 DEF TaskAssumption
  <2>3. \A i \in DOMAIN cmds : cmds[i] \in Cmds
    <3>1. cmds \in Seq(Cmds)
      BY <2>1 DEF QueueTypes
    <3> QED
      BY <3>1
  <2>4. \A i \in DOMAIN posted : posted[i] # <<>>
    <3>1. posted \in Seq(Seq(Views) \ {<<>>})
      BY <2>1 DEF QueueTypes
    <3> QED
      BY <3>1
  <2> QED
    BY <2>1, <2>2, <2>3, <2>4
    DEF TypeOK, SessionTypes, ListTypes, BoundTypes, Cmds, Torrents, Entries
<1> QED
  BY <1>1, InvHolds, PTL

\* Once nothing about a task is under way, the list has it exactly if the
\* session has its torrent, and with its status, unless it is among the gaps.
THEOREM ListFollowsSession ==
    ASSUME TaskAssumption
    PROVE  Spec => []StoreFollows
<1>1. Inv => StoreFollows
  <2> SUFFICES ASSUME Inv, NEW t \in Tasks, Quiet(t), t \notin gaps
               PROVE  store[t] = IF session[t].there THEN Mapped(session[t]) ELSE Absent
    BY DEF StoreFollows
  <2>1. Followed(t)
    BY DEF Inv
  <2>2. ~Pending(posted, alerts, t) /\ t \notin changed
    BY DEF Quiet, On, Pending, DecidedIn
  <2> QED
    BY <2>1, <2>2 DEF Followed, Expected
<1> QED
  BY <1>1, InvHolds, PTL

\* The list follows the session, the table the list, and the finished are announced,
\* whatever torrents, worker, batches, message boxes and the user do in between.
THEOREM TasksAreFollowed ==
    ASSUME TaskAssumption
    PROVE  Spec => []TasksFollow
<1>1. Inv /\ StoreFollows => TasksFollow
  BY DEF Inv, TasksFollow
<1> QED
  BY <1>1, InvHolds, ListFollowsSession, PTL

\* A batch ingested while the lock of a listed task is held leaves its status,
\* or makes it an error, or removes the task: a removal is the last of its task
\* in a batch, so that nothing of the batch creates the entry again.
LEMMA IngestKeepsLocked ==
    ASSUME Inv, Ingest, NEW t \in Tasks, lock[t] = "held", store[t] # Absent
    PROVE  store'[t] \in {store[t], "error", Absent}
<1>1. QueueTypes /\ ListTypes /\ Removals
  BY DEF Inv
<1>2. posted # <<>> /\ store' = FoldLeft(Apply, store, Events)
  BY DEF Ingest
<1> DEFINE q == Head(posted)
           n == Len(q)
           e == Events
<1>3. /\ n \in Nat /\ DOMAIN q = 1 .. n /\ DOMAIN e = 1 .. n
      /\ \A i \in 1 .. n :
           /\ e[i] \in Views
           /\ e[i].task = q[i].task /\ e[i].kind = q[i].kind
           /\ e[i].kind = "progress" =>
                e[i].status = IF lock[e[i].task] = "held" THEN "unknown" ELSE q[i].status
  BY <1>1, <1>2, EventsOfBatch
<1>4. RemovedLast(q)
  <2>1. q = posted[1] /\ 1 \in DOMAIN posted
    BY <1>1, <1>2, Popped DEF QueueTypes
  <2> QED
    BY <1>1, <2>1 DEF Removals
<1>5. PICK h : Path(h, n, e) /\ h[0] = store /\ h[n] = store'
  BY <1>1, <1>2, IngestPath
<1> HIDE DEF q, n, e
<1>6. Batch(e, n)
  BY <1>3 DEF Batch
<1> DEFINE RemovedBy(m) == \E j \in 1 .. n : j <= m /\ e[j].task = t /\ e[j].kind = "removed"
           Good(m) == /\ h[m][t] \in {store[t], "error", Absent}
                      /\ h[m][t] = Absent => RemovedBy(m)
           T == {m \in Nat : m <= n => Good(m)}
<1>7. 0 \in T
  BY <1>5
<1>8. ASSUME NEW m \in Nat, m \in T PROVE m + 1 \in T
  <2> SUFFICES ASSUME m + 1 <= n PROVE Good(m + 1)
    OBVIOUS
  <2> DEFINE i == m + 1
  <2>1. i \in 1 .. n /\ i - 1 = m /\ m <= n
    BY <1>3
  <2>2. Good(m)
    BY <1>8, <2>1
  <2>3. \A j \in 1 .. n : j <= m => j <= i
    BY <2>1
  <2>4. RemovedBy(m) => RemovedBy(i)
    BY <2>3
  <2> HIDE DEF i
  <2>5. /\ e[i].task = t => h[i][t] = Applied(h[m][t], e[i])
        /\ e[i].task # t => h[i][t] = h[m][t]
    BY <1>3, <1>5, <1>6, <2>1, PathStep
  <2>6. CASE e[i].task # t
    BY <2>2, <2>4, <2>5, <2>6 DEF i
  <2>7. CASE e[i].task = t
    <3>1. ~RemovedBy(m)
      <4> SUFFICES ASSUME NEW j \in 1 .. n, j <= m, e[j].task = t, e[j].kind = "removed"
                   PROVE  FALSE
        OBVIOUS
      <4>1. i > j
        BY <2>1 DEF i
      <4>2. q[j].kind = "removed" /\ q[j].task = q[i].task /\ j \in DOMAIN q /\ i \in DOMAIN q
        BY <1>3, <2>1, <2>7
      <4> QED
        BY <1>4, <4>1, <4>2 DEF RemovedLast
    <3>2. h[m][t] \in {store[t], "error"} /\ h[m][t] # Absent
      BY <2>2, <3>1
    <3>3. e[i].kind \in {"added", "removed", "error", "progress", "duplicate"}
      BY <1>3, <2>1 DEF Views
    <3>4. e[i].kind = "progress" => e[i].status = "unknown"
      BY <1>3, <2>1, <2>7
    <3>5. \/ e[i].kind = "removed" /\ h[i][t] = Absent
          \/ e[i].kind = "error" /\ h[i][t] = "error"
          \/ h[i][t] = h[m][t]
      BY <2>5, <2>7, <3>2, <3>3, <3>4 DEF Applied
    <3>6. e[i].kind = "removed" => RemovedBy(i)
      BY <2>1, <2>7 DEF i
    <3>7. "error" # Absent
      BY DEF Absent
    <3>8. Good(i)
      BY <3>2, <3>5, <3>6, <3>7
    <3> QED
      BY <3>8 DEF i
  <2> QED
    BY <2>6, <2>7
<1> HIDE DEF T
<1>9. \A m \in Nat : m \in T
  BY <1>7, <1>8, SetInduction
<1>10. n \in T /\ n <= n
  BY <1>3, <1>9
<1>11. Good(n)
  BY <1>10 DEF T
<1> QED
  BY <1>5, <1>11

\* While the lock of a task is held, no update of the session replaces the
\* status its click has shown, only an error or the removal.
THEOREM LockIsKept ==
    ASSUME TaskAssumption
    PROVE  Spec => LockHolds
<1> DEFINE Held == \A t \in Tasks :
                     /\ lock[t] = "held" /\ lock'[t] = "held"
                     /\ ops' = ops /\ store[t] # Absent
                     => store'[t] \in {store[t], "error", Absent}
<1>1. Inv /\ [Next]_vars => [Held]_vars
  <2> SUFFICES ASSUME Inv, Next, NEW t \in Tasks, lock[t] = "held", ops' = ops, store[t] # Absent
               PROVE  store'[t] \in {store[t], "error", Absent}
    OBVIOUS
  <2>1. CASE Ingest
    BY <2>1, IngestKeepsLocked
  <2>2. ops \in Nat
    BY DEF Inv, BoundTypes
  <2>3. ASSUME Op PROVE FALSE
    BY <2>2, <2>3 DEF Op
  <2>4. CASE ~Ingest
    <3>1. store' = store
      <4>1. CASE Worker
        BY <4>1 DEF Worker, PostTorrentUpdates, Dispatch, HandleAdd, HandlePause, HandleResume,
                    HandleRemove, TakeCmd, uiVars
      <4>2. CASE CloseNotice \/ RefreshTimeout
        BY <4>2 DEF CloseNotice, RefreshTimeout
      <4>3. ASSUME NEW u \in Tasks, \/ TorrentMoves(u) \/ TorrentFails(u) \/ LockExpires(u)
                                    \/ AddTask(u) \/ OpenMenu(u)
            PROVE  store' = store
        BY <4>3 DEF TorrentMoves, TorrentFails, Turn, LockExpires, AddTask, OpenMenu, uiVars
      <4>4. CASE \/ StartTask \/ StopTask \/ ForceStart \/ RemoveTask \/ EditMeta
                 \/ PauseAll \/ ResumeAll
        <5>1. Op
          BY <4>4 DEF StartTask, StopTask, ForceStart, RemoveTask, EditMeta, PauseAll,
                      ResumeAll, Choose
        <5> QED
          BY <2>3, <5>1
      <4> QED
        BY <2>4, <4>1, <4>2, <4>3, <4>4 DEF Next
    <3> QED
      BY <3>1
  <2> QED
    BY <2>1, <2>4
<1> QED
  BY <1>1, InvHolds, PTL DEF LockHolds, Spec

-----------------------------------------------------------------------------
(* The table that shows the list, module TaskTable: for any finite set of  *)
(* tasks and any statuses and filters.  The two modules are proved apart;  *)
(* TaskTable's formulas are prefixed with Table.                           *)

CONSTANTS NoTask, Shown, Filters
VARIABLES snaps, filter, rows, sel, cur, focus, memory, detail, rowMenu, queue, mine
Table == INSTANCE TaskTable WITH menu <- rowMenu

\* What the proofs need to know of the tasks.
TableAssumption == IsFiniteSet(Tasks) /\ NoTask \notin Tasks

\* Rows of tasks, each in one of them.
IsTable(new) ==
    /\ new \in Seq(Tasks)
    /\ \A i, j \in DOMAIN new : new[i] = new[j] => i = j

\* A refresh selects a task by itself only if nothing that was selected is left,
\* and then this one only.
ChosenRows == Table!TasksAt(sel) \subseteq mine \/ \E r \in DOMAIN rows : sel = {r}

TableInv ==
    /\ IsTable(rows)
    /\ sel \subseteq DOMAIN rows /\ cur \in DOMAIN rows \cup {0}
    /\ {focus, memory, detail} \subseteq Tasks \cup {NoTask}
    /\ Table!TableConsistent /\ ChosenRows /\ Table!PicksMine

\* The rows in which tasks of a set are.
RowsOf(new, ids) == {r \in DOMAIN new : new[r] \in ids}

-----------------------------------------------------------------------------
(* Rows.                                                                   *)

\* The two modules count the members of a set by the same definition.
LEMMA SameCount ==
    ASSUME NEW S PROVE Table!Cardinality(S) = Cardinality(S)
  BY DEF Cardinality, Table!Cardinality

\* The rows of a sorted set have its members, each once: an injection into a set
\* of the same size meets all of it.
LEMMA SortedIs ==
    ASSUME TableAssumption, NEW S \in SUBSET Tasks, NEW new \in Table!Sorted(S)
    PROVE  IsTable(new) /\ Table!ToSet(new) = S
<1> DEFINE n == Table!Cardinality(S)
<1>1. IsFiniteSet(S) /\ n \in Nat
  BY FS_Subset, FS_CardinalityType, SameCount DEF TableAssumption
<1>2. new \in [1..n -> S] /\ \A i, j \in 1..n : i # j => new[i] # new[j]
  BY DEF Table!Sorted, Table!SetToSeqs
<1>3. IsFiniteSet(1..n) /\ Cardinality(1..n) = n
  BY <1>1, FS_Interval, SameCount
<1> HIDE DEF n
<1>4. new \in Injection(1..n, S)
  BY <1>2 DEF Injection, IsInjective
<1>5. new \in Surjection(1..n, S)
  BY <1>1, <1>3, <1>4, FS_Injection, SameCount DEF n
<1>6. \A t \in S : \E i \in 1..n : new[i] = t
  BY <1>5 DEF Surjection
<1>7. new \in Seq(Tasks) /\ DOMAIN new = 1..n
  BY <1>1, <1>2
<1> QED
  BY <1>2, <1>6, <1>7 DEF IsTable, Table!ToSet

\* The row of a task.
LEMMA RowOfIs ==
    ASSUME NEW new, IsTable(new), NEW t
    PROVE  /\ Table!Contains(new, t) <=> t \in Table!ToSet(new)
           /\ Table!RowOf(new, t) \in DOMAIN new \cup {0}
           /\ Table!RowOf(new, t) # 0 <=> t \in Table!ToSet(new)
           /\ Table!RowOf(new, t) # 0 => new[Table!RowOf(new, t)] = t
<1>1. DOMAIN new = 1..Len(new) /\ Len(new) \in Nat
  BY DEF IsTable
<1>2. Table!Contains(new, t) <=> t \in Table!ToSet(new)
  BY <1>1 DEF Table!Contains, Table!ToSet
<1>3. CASE t \in Table!ToSet(new)
  <2>1. \E r \in DOMAIN new : new[r] = t
    BY <1>3 DEF Table!ToSet
  <2>2. Table!RowOf(new, t) \in DOMAIN new /\ new[Table!RowOf(new, t)] = t
    BY <1>2, <1>3, <2>1 DEF Table!RowOf
  <2> QED
    BY <1>1, <1>2, <1>3, <2>2
<1>4. CASE t \notin Table!ToSet(new)
  BY <1>2, <1>4 DEF Table!RowOf
<1> QED
  BY <1>2, <1>3, <1>4

\* The first of some rows is one of them.
LEMMA FirstIs ==
    ASSUME NEW D \in SUBSET Nat, D # {}
    PROVE  Table!Min(D) \in D
<1> DEFINE R == OpToRel(<, Nat)
<1>1. IsWellFoundedOn(R, Nat)
  BY NatLessThanWellFounded
<1>2. \A x, y \in Nat : y < x => <<y, x>> \in R
  BY DEF OpToRel
<1> HIDE DEF R
<1>3. PICK x \in D : \A y \in D : ~(<<y, x>> \in R)
  BY <1>1, WFMin
<1>4. ASSUME NEW y \in D PROVE x <= y
  <2>1. x \in Nat /\ y \in Nat
    OBVIOUS
  <2>2. ~(y < x)
    BY <1>2, <1>3, <2>1
  <2> QED
    BY <2>1, <2>2
<1> QED
  BY <1>4 DEF Table!Min

\* What is captured before a refresh.
LEMMA CapturedIs ==
    ASSUME TableAssumption, TableInv, memory = NoTask
    PROVE  /\ Table!CapturedIds \subseteq Tasks
           /\ Table!CapturedAnchors \subseteq Tasks \cup {NoTask}
           /\ sel # {} => Table!CapturedIds = Table!TasksAt(sel)
           /\ sel = {} => \A r, s \in Table!CapturedIds : r = s
           /\ cur # 0 /\ cur \in sel => Table!CapturedAnchors = {rows[cur]}
<1>1. /\ IsTable(rows) /\ sel \subseteq DOMAIN rows /\ cur \in DOMAIN rows \cup {0}
      /\ \A r \in DOMAIN rows : rows[r] \in Tasks
  BY DEF TableInv, IsTable
<1>2. Table!CapturedIds \subseteq Tasks
  BY <1>1 DEF Table!CapturedIds, Table!TasksAt
<1> QED
  BY <1>1, <1>2 DEF Table!CapturedIds, Table!CapturedAnchors, Table!TasksAt

\* The last focused task stays one, or none, while rows are removed.
LEMMA FocusIs ==
    ASSUME TableInv, NEW new, IsTable(new)
    PROVE  Table!FocusAfterRemovals(new) \in Tasks \cup {NoTask}
<1>1. /\ sel \subseteq 1..Len(rows) /\ cur \in 0..Len(rows) /\ Len(rows) \in Nat
      /\ focus \in Tasks \cup {NoTask}
  BY DEF TableInv, IsTable
<1>2. Len(new) \in Nat /\ \A r \in 1..Len(new) : new[r] \in Tasks
  BY DEF IsTable
<1> QED
  BY <1>1, <1>2 DEF Table!FocusAfterRemovals

\* What a refresh selects: the tasks that were, if one of them is left.
LEMMA RestoreIs ==
    ASSUME NEW new, IsTable(new), NEW ids, NEW anchor,
           NEW last \in Tasks \cup {NoTask}, Table!Restore(new, ids, anchor, last)
    PROVE  /\ sel' \subseteq DOMAIN new /\ cur' \in DOMAIN new \cup {0}
           /\ focus' \in Tasks \cup {NoTask}
           /\ RowsOf(new, ids) # {} => sel' = RowsOf(new, ids)
           /\ sel' = RowsOf(new, ids) \/ \E r \in DOMAIN new : sel' = {r}
           /\ anchor \in Table!ToSet(new) => cur' # 0 /\ new[cur'] = anchor
<1> DEFINE kept == RowsOf(new, ids)
           wanted == IF Table!Contains(new, anchor) THEN anchor ELSE last
           target == IF Table!RowOf(new, wanted) # 0 THEN Table!RowOf(new, wanted)
                     ELSE IF kept # {} THEN Table!Min(kept) ELSE 0
<1>1. /\ sel' = IF kept # {} \/ target = 0 THEN kept ELSE {target}
      /\ cur' = target
      /\ focus' = IF target # 0 THEN new[target] ELSE last
  BY DEF Table!Restore, RowsOf
<1>2. DOMAIN new \subseteq Nat /\ 0 \notin DOMAIN new /\ \A r \in DOMAIN new : new[r] \in Tasks
  BY DEF IsTable
<1>3. kept \subseteq DOMAIN new
  BY DEF RowsOf
<1>4. kept # {} => Table!Min(kept) \in kept
  BY <1>2, <1>3, FirstIs
<1> HIDE DEF kept, wanted
<1>5. Table!RowOf(new, wanted) \in DOMAIN new \cup {0}
  BY RowOfIs
<1>6. target \in DOMAIN new \cup {0}
  BY <1>3, <1>4, <1>5
<1>7. ASSUME anchor \in Table!ToSet(new) PROVE target # 0 /\ new[target] = anchor
  <2>1. wanted = anchor
    BY <1>7, RowOfIs DEF wanted
  <2> QED
    BY <1>7, <2>1, RowOfIs
<1> HIDE DEF target
<1> QED
  BY <1>1, <1>2, <1>3, <1>6, <1>7 DEF kept

-----------------------------------------------------------------------------
(* The steps.                                                              *)

\* What a refresh may not do.
KeepsSelection ==
    Table!TasksAt(sel) \cap Table!ToSet(rows') # {}
      => {rows'[r] : r \in sel'} = Table!TasksAt(sel) \cap Table!ToSet(rows')
KeepsDetail ==
    cur # 0 /\ cur \in sel /\ Table!Contains(rows', rows[cur]) => detail' = rows[cur]

\* Other snapshots, or another filter.
LEMMA SnapshotsKeep ==
    ASSUME TableAssumption, TableInv,
           Table!SetSnapshots(snaps', filter')
    PROVE  TableInv' /\ KeepsSelection /\ KeepsDetail
<1>1. PICK new \in Table!Sorted(Table!Visible(snaps', filter')) :
        /\ rows' = new
        /\ IF memory # NoTask
           THEN sel' = {} /\ cur' = 0 /\ UNCHANGED focus
           ELSE \E anchor \in Table!CapturedAnchors :
                    Table!Restore(new, Table!CapturedIds, anchor, Table!FocusAfterRemovals(new))
        /\ Table!UpdateDetail(new, cur', memory)
  BY DEF Table!SetSnapshots
<1>2. IsTable(new) /\ Table!ToSet(new) = Table!Visible(snaps', filter')
  BY SortedIs DEF Table!Visible
<1>3. rowMenu' = rowMenu /\ mine' = mine
  BY DEF Table!SetSnapshots
<1>4. /\ detail' = IF cur' # 0 THEN new[cur']
                   ELSE IF memory \in Table!ToSet(new) THEN memory ELSE NoTask
      /\ memory' = IF cur' = 0 /\ memory \notin Table!ToSet(new) THEN NoTask ELSE memory
  BY <1>1, <1>2, RowOfIs DEF Table!UpdateDetail
<1>5. Table!PicksMine'
  BY <1>3 DEF TableInv, Table!PicksMine, Table!Picked
<1>6. \A r \in DOMAIN new : new[r] \in Tasks /\ r # 0
  BY <1>2 DEF IsTable
<1>7. NoTask \notin Table!ToSet(new)
  BY <1>6 DEF Table!ToSet, TableAssumption
<1>8. CASE memory # NoTask
  <2>1. sel' = {} /\ cur' = 0 /\ focus' = focus
    BY <1>1, <1>8
  <2>2. sel = {} /\ cur = 0 /\ {focus, memory} \subseteq Tasks \cup {NoTask}
    BY <1>8 DEF TableInv, Table!TableConsistent
  <2>3. Table!TableConsistent'
    BY <1>1, <1>2, <1>4, <1>8, <2>1 DEF Table!TableConsistent
  <2>4. ChosenRows'
    BY <2>1 DEF ChosenRows, Table!TasksAt
  <2>5. KeepsSelection /\ KeepsDetail
    BY <2>2 DEF KeepsSelection, KeepsDetail, Table!TasksAt
  <2> QED
    BY <1>1, <1>2, <1>4, <1>5, <2>1, <2>2, <2>3, <2>4, <2>5 DEF TableInv
<1>9. CASE memory = NoTask
  <2>1. PICK anchor \in Table!CapturedAnchors :
          Table!Restore(new, Table!CapturedIds, anchor, Table!FocusAfterRemovals(new))
    BY <1>1, <1>9
  <2>2. Table!FocusAfterRemovals(new) \in Tasks \cup {NoTask}
    BY <1>2, FocusIs
  <2>3. /\ sel' \subseteq DOMAIN new /\ cur' \in DOMAIN new \cup {0}
        /\ focus' \in Tasks \cup {NoTask}
        /\ RowsOf(new, Table!CapturedIds) # {} => sel' = RowsOf(new, Table!CapturedIds)
        /\ sel' = RowsOf(new, Table!CapturedIds) \/ \E r \in DOMAIN new : sel' = {r}
        /\ anchor \in Table!ToSet(new) => cur' # 0 /\ new[cur'] = anchor
    BY <1>2, <2>1, <2>2, RestoreIs
  <2>4. memory' = NoTask /\ detail' = IF cur' # 0 THEN new[cur'] ELSE NoTask
    BY <1>4, <1>7, <1>9
  <2>5. Table!TableConsistent'
    BY <1>1, <1>2, <2>4 DEF Table!TableConsistent
  <2>6. ChosenRows'
    <3>1. CASE \E r \in DOMAIN new : sel' = {r}
      BY <1>1, <3>1 DEF ChosenRows
    <3>2. CASE sel' = RowsOf(new, Table!CapturedIds) /\ sel = {}
      <4>1. \A r, s \in sel' : r = s
        BY <1>2, <1>9, <3>2, CapturedIs DEF RowsOf, IsTable
      <4>2. sel' = {} \/ \E r \in DOMAIN new : sel' = {r}
        BY <2>3, <4>1
      <4> QED
        BY <1>1, <4>2 DEF ChosenRows, Table!TasksAt
    <3>3. CASE sel' = RowsOf(new, Table!CapturedIds) /\ sel # {}
                /\ Table!TasksAt(sel) \subseteq mine
      <4>1. Table!CapturedIds \subseteq mine
        BY <1>9, <3>3, CapturedIs
      <4> QED
        BY <1>1, <1>3, <3>3, <4>1 DEF ChosenRows, Table!TasksAt, RowsOf
    <3>4. CASE sel' = RowsOf(new, Table!CapturedIds) /\ sel # {}
                /\ \E r \in DOMAIN rows : sel = {r}
      <4>1. \A r, s \in Table!CapturedIds : r = s
        BY <1>9, <3>4, CapturedIs DEF Table!TasksAt
      <4>2. \A r, s \in sel' : r = s
        BY <1>2, <3>4, <4>1 DEF RowsOf, IsTable
      <4>3. sel' = {} \/ \E r \in DOMAIN new : sel' = {r}
        BY <2>3, <4>2
      <4> QED
        BY <1>1, <4>3 DEF ChosenRows, Table!TasksAt
    <3> QED
      BY <2>3, <3>1, <3>2, <3>3, <3>4 DEF TableInv, ChosenRows
  <2>7. KeepsSelection
    <3> SUFFICES ASSUME Table!TasksAt(sel) \cap Table!ToSet(new) # {}
                 PROVE  {new[r] : r \in sel'} = Table!TasksAt(sel) \cap Table!ToSet(new)
      BY <1>1 DEF KeepsSelection
    <3>1. Table!CapturedIds = Table!TasksAt(sel)
      BY <1>9, CapturedIs DEF Table!TasksAt
    <3>2. sel' = RowsOf(new, Table!TasksAt(sel))
      BY <2>3, <3>1 DEF RowsOf, Table!ToSet
    <3> QED
      BY <3>2 DEF RowsOf, Table!ToSet
  <2>8. KeepsDetail
    <3> SUFFICES ASSUME cur # 0, cur \in sel, Table!Contains(new, rows[cur])
                 PROVE  detail' = rows[cur]
      BY <1>1 DEF KeepsDetail
    <3>1. anchor = rows[cur]
      BY <1>9, CapturedIs
    <3>2. anchor \in Table!ToSet(new)
      BY <1>2, <3>1, RowOfIs
    <3> QED
      BY <2>3, <2>4, <3>1, <3>2
  <2>9. IsTable(rows') /\ sel' \subseteq DOMAIN rows' /\ cur' \in DOMAIN rows' \cup {0}
    BY <1>1, <1>2, <2>3
  <2>10. {focus', memory', detail'} \subseteq Tasks \cup {NoTask}
    BY <1>6, <2>3, <2>4
  <2> QED
    BY <1>5, <2>5, <2>6, <2>7, <2>8, <2>9, <2>10 DEF TableInv
<1> QED
  BY <1>8, <1>9

\* The menu has the tasks of the selected rows.
LEMMA PickedIs ==
    ASSUME NEW r, Table!OpenMenu(r)
    PROVE  Table!Picked' = {rows[i] : i \in sel'}
<1>1. rowMenu'.picked = {<<t, snaps[t]>> : t \in {rows[i] : i \in sel'}}
  BY DEF Table!OpenMenu
<1>2. Table!Picked' = {p[1] : p \in {<<t, snaps[t]>> : t \in {rows[i] : i \in sel'}}}
  BY <1>1 DEF Table!Picked
<1>3. ASSUME NEW S PROVE {p[1] : p \in {<<t, snaps[t]>> : t \in S}} = S
  <2>1. ASSUME NEW t \in S PROVE t \in {p[1] : p \in {<<u, snaps[u]>> : u \in S}}
    <3>1. <<t, snaps[t]>>[1] = t
      OBVIOUS
    <3> QED
      BY <3>1, Zenon
  <2>2. ASSUME NEW p \in {<<u, snaps[u]>> : u \in S} PROVE p[1] \in S
    OBVIOUS
  <2> QED
    BY <2>1, <2>2
<1> QED
  BY <1>2, <1>3

\* A click.
LEMMA ClickKeeps ==
    ASSUME TableAssumption, TableInv, NEW r \in DOMAIN rows,
           Table!Click(r) \/ Table!CtrlClick(r) \/ Table!OpenMenu(r)
    PROVE  TableInv'
<1>1. /\ IsTable(rows) /\ sel \subseteq DOMAIN rows /\ r # 0 /\ rows[r] \in Tasks
      /\ {focus, memory} \subseteq Tasks \cup {NoTask}
  BY DEF TableInv, IsTable
<1>2. /\ Table!MakeCurrent(r) /\ rows' = rows /\ snaps' = snaps /\ filter' = filter
      /\ rowMenu = Table!NoMenu /\ sel' \subseteq DOMAIN rows
  BY <1>1 DEF Table!Click, Table!CtrlClick, Table!OpenMenu, Table!Idle
<1>3. /\ cur' = r /\ detail' = rows[r]
      /\ focus' \in Tasks \cup {NoTask}
      /\ memory' = IF r # cur THEN NoTask ELSE memory
  BY <1>1, <1>2 DEF Table!MakeCurrent
<1>4. memory' = NoTask
  BY <1>1, <1>3 DEF TableInv, Table!TableConsistent
<1>5. Table!TableConsistent'
  BY <1>1, <1>2, <1>3, <1>4 DEF TableInv, Table!TableConsistent, Table!Visible
<1>6. ChosenRows' /\ Table!PicksMine'
  <2>1. CASE Table!Click(r) \/ Table!CtrlClick(r)
    <3>1. mine' = {rows[i] : i \in sel'} /\ rowMenu' = Table!NoMenu
      BY <1>2, <2>1 DEF Table!Click, Table!CtrlClick, Table!Noted
    <3> QED
      BY <1>2, <3>1 DEF ChosenRows, Table!TasksAt, Table!PicksMine
  <2>2. CASE Table!OpenMenu(r)
    <3>1. /\ sel' = IF r \in sel THEN sel ELSE {r}
          /\ rowMenu' = [anchor |-> rows[r],
                      picked |-> {<<t, snaps[t]>> : t \in {rows[i] : i \in sel'}}]
          /\ mine' = mine
      BY <2>2 DEF Table!OpenMenu
    <3>2. ChosenRows'
      BY <1>2, <3>1 DEF TableInv, ChosenRows, Table!TasksAt
    <3>3. Table!Picked' = {rows[i] : i \in sel'}
      BY <2>2, PickedIs
    <3>4. {rows[i] : i \in sel'} \subseteq mine \cup {rows[r]}
      <4>1. CASE sel' = {r}
        BY <4>1
      <4>2. CASE sel' # {r}
        BY <3>1, <4>2 DEF TableInv, ChosenRows, Table!TasksAt
      <4> QED
        BY <4>1, <4>2
    <3> QED
      BY <3>1, <3>2, <3>3, <3>4 DEF Table!PicksMine
  <2> QED
    BY <2>1, <2>2
<1> QED
  BY <1>1, <1>2, <1>3, <1>4, <1>5, <1>6 DEF TableInv

\* All rows are selected, or none.
LEMMA AllOrNoneKeeps ==
    ASSUME TableAssumption, TableInv, Table!SelectAll \/ Table!ClickEmpty
    PROVE  TableInv'
<1>1. /\ IsTable(rows) /\ sel \subseteq DOMAIN rows /\ cur \in DOMAIN rows \cup {0}
      /\ \A r \in DOMAIN rows : rows[r] \in Tasks /\ r # 0
      /\ {focus, memory, detail} \subseteq Tasks \cup {NoTask}
  BY DEF TableInv, IsTable
<1>2. /\ rows' = rows /\ snaps' = snaps /\ filter' = filter /\ rowMenu' = Table!NoMenu
      /\ sel' \subseteq DOMAIN rows /\ mine' = {rows[i] : i \in sel'}
  BY DEF Table!SelectAll, Table!ClickEmpty, Table!Idle, Table!Noted
<1>3. ChosenRows' /\ Table!PicksMine'
  BY <1>2 DEF ChosenRows, Table!TasksAt, Table!PicksMine
<1>4. /\ cur' \in DOMAIN rows \cup {0}
      /\ {focus', memory', detail'} \subseteq Tasks \cup {NoTask} /\ Table!TableConsistent'
  <2>1. CASE Table!SelectAll
    <3>1. /\ Len(rows) \in DOMAIN rows /\ Table!MakeCurrent(Len(rows))
      BY <1>1, <2>1 DEF Table!SelectAll, IsTable
    <3>2. /\ cur' = Len(rows) /\ cur' # 0 /\ detail' = rows[Len(rows)] /\ memory' = NoTask
          /\ focus' \in Tasks \cup {NoTask}
      BY <1>1, <3>1 DEF Table!MakeCurrent, TableInv, Table!TableConsistent
    <3>3. Table!TableConsistent'
      BY <1>2, <3>2 DEF TableInv, Table!TableConsistent, Table!Visible
    <3> QED
      BY <1>1, <3>1, <3>2, <3>3
  <2>2. CASE Table!ClickEmpty
    <3>1. sel' = {} /\ cur' = 0
      BY <2>2 DEF Table!ClickEmpty
    <3>2. CASE cur # 0
      <4>1. memory' = rows[cur] /\ focus' = rows[cur] /\ detail' = rows[cur]
        BY <2>2, <3>2 DEF Table!ClickEmpty
      <4>2. rows[cur] \in Table!ToSet(rows) /\ rows[cur] \in Tasks
        BY <1>1, <3>2 DEF Table!ToSet
      <4> QED
        BY <1>2, <3>1, <4>1, <4>2 DEF TableInv, Table!TableConsistent, Table!Visible
    <3>3. CASE cur = 0
      <4>1. memory' = memory /\ focus' = focus /\ detail' = detail
        BY <2>2, <3>3 DEF Table!ClickEmpty
      <4> QED
        BY <1>1, <1>2, <3>1, <3>3, <4>1 DEF TableInv, Table!TableConsistent, Table!Visible
    <3> QED
      BY <3>2, <3>3
  <2> QED
    BY <2>1, <2>2
<1> QED
  BY <1>1, <1>2, <1>3, <1>4 DEF TableInv

\* A choice from the menu, or nothing, leaves the table alone.
LEMMA SameTable ==
    ASSUME TableInv, UNCHANGED <<snaps, filter, Table!tableVars, mine>>,
           rowMenu' = rowMenu \/ rowMenu' = Table!NoMenu
    PROVE  TableInv'
<1>1. /\ rows' = rows /\ sel' = sel /\ cur' = cur /\ focus' = focus /\ memory' = memory
      /\ detail' = detail /\ snaps' = snaps /\ filter' = filter /\ mine' = mine
  BY DEF Table!tableVars
<1>2. Table!TableConsistent' /\ ChosenRows'
  BY <1>1 DEF TableInv, Table!TableConsistent, Table!Visible, ChosenRows, Table!TasksAt
<1>3. Table!PicksMine'
  BY <1>1 DEF TableInv, Table!PicksMine, Table!Picked
<1> QED
  BY <1>1, <1>2, <1>3 DEF TableInv

\* Every step keeps the invariant; one that is of the user leaves the rows.
LEMMA TableNext ==
    ASSUME TableAssumption, TableInv, [Table!Next]_Table!vars
    PROVE  /\ TableInv'
           /\ \/ KeepsSelection /\ KeepsDetail
              \/ UNCHANGED <<snaps, filter, rows>>
<1>1. CASE UNCHANGED Table!vars
  <2>1. UNCHANGED <<snaps, filter, Table!tableVars, mine, rowMenu, rows>>
    BY <1>1 DEF Table!vars, Table!tableVars
  <2> QED
    BY <2>1, SameTable
<1>2. CASE Table!RefreshTasks
  <2>1. Table!SetSnapshots(snaps', filter')
    BY <1>2 DEF Table!RefreshTasks
  <2> QED
    BY <2>1, SnapshotsKeep
<1>3. ASSUME NEW f \in Filters, Table!SetFilter(f)
      PROVE  TableInv' /\ KeepsSelection /\ KeepsDetail
  <2>1. Table!SetSnapshots(snaps', filter')
    BY <1>3 DEF Table!SetFilter
  <2> QED
    BY <2>1, SnapshotsKeep
<1>4. ASSUME NEW r \in DOMAIN rows, Table!Click(r) \/ Table!CtrlClick(r) \/ Table!OpenMenu(r)
      PROVE  TableInv' /\ UNCHANGED <<snaps, filter, rows>>
  BY <1>4, ClickKeeps DEF Table!Click, Table!CtrlClick, Table!OpenMenu
<1>5. CASE Table!SelectAll \/ Table!ClickEmpty
  BY <1>5, AllOrNoneKeeps DEF Table!SelectAll, Table!ClickEmpty
<1>6. CASE Table!Dismiss \/ Table!StartPicked \/ Table!QueueTop \/ Table!QueueBottom
      \/ Table!QueueUp \/ Table!QueueDown
  <2>1. Table!Choose
    BY <1>6 DEF Table!Dismiss, Table!StartPicked, Table!QueueTop, Table!QueueBottom,
       Table!QueueUp, Table!QueueDown
  <2>2. UNCHANGED <<snaps, filter, Table!tableVars, mine, rows>> /\ rowMenu' = Table!NoMenu
    BY <2>1 DEF Table!Choose, Table!tableVars
  <2> QED
    BY <2>2, SameTable
<1> QED
  BY <1>1, <1>2, <1>3, <1>4, <1>5, <1>6 DEF Table!Next

\* The program starts without rows.
LEMMA TableInit ==
    ASSUME TableAssumption, Table!Init PROVE TableInv
<1>1. /\ rows = <<>> /\ sel = {} /\ cur = 0 /\ focus = NoTask /\ memory = NoTask
      /\ detail = NoTask /\ rowMenu = Table!NoMenu /\ snaps = [t \in Tasks |-> Table!Absent]
  BY DEF Table!Init
<1>2. IsTable(rows) /\ Table!ToSet(rows) = {}
  BY <1>1 DEF IsTable, Table!ToSet
<1>3. Table!TableConsistent
  BY <1>1, <1>2 DEF Table!TableConsistent, Table!Visible
<1>4. ChosenRows /\ Table!PicksMine
  BY <1>1 DEF ChosenRows, Table!TasksAt, Table!PicksMine
<1> QED
  BY <1>1, <1>2, <1>3, <1>4 DEF TableInv

\* The rows are what the filter leaves of the list, the detail panel shows the task of the
\* current row or the remembered one, and a menu acts on what the user has selected, whatever
\* refreshes come in between.
THEOREM MenuActsOnSelection ==
    ASSUME TableAssumption
    PROVE  Table!Spec => [](Table!TableConsistent /\ Table!PicksMine)
<1>1. TableInv => Table!TableConsistent /\ Table!PicksMine
  BY DEF TableInv
<1>2. TableInv /\ [Table!Next]_Table!vars => TableInv'
  BY TableNext
<1>3. Table!Init => TableInv
  BY TableInit
<1> QED
  BY <1>1, <1>2, <1>3, PTL DEF Table!Spec

\* A refresh and a filter keep selected what was, as long as one of it is visible, and
\* leave the detail panel with its task.
THEOREM SelectionIsKept ==
    ASSUME TableAssumption
    PROVE  Table!Spec => Table!SelectionKept /\ Table!DetailKept
<1> DEFINE Kept ==
      LET before == Table!TasksAt(sel)
          after == {rows'[r] : r \in sel'}
      IN  /\ <<snaps, filter>>' # <<snaps, filter>>
          /\ before \cap Table!ToSet(rows') # {}
          => after = before \cap Table!ToSet(rows')
    Shows ==
      rows' # rows /\ cur # 0 /\ cur \in sel /\ Table!Contains(rows', rows[cur])
        => detail' = rows[cur]
<1>1. TableInv /\ [Table!Next]_Table!vars => TableInv'
  BY TableNext
<1>2. TableInv /\ [Table!Next]_Table!vars => [Kept]_<<rows, sel>>
  BY TableNext DEF KeepsSelection
<1>3. TableInv /\ [Table!Next]_Table!vars => [Shows]_Table!vars
  BY TableNext DEF KeepsDetail
<1>4. Table!Init => TableInv
  BY TableInit
<1> QED
  BY <1>1, <1>2, <1>3, <1>4, PTL DEF Table!Spec, Table!SelectionKept, Table!DetailKept

-----------------------------------------------------------------------------
(* The queue of the session, which the menu changes.                        *)

\* The number of tasks.
N == Cardinality(Tasks)

\* The order of the session's queue: every task is at one position.
Ranking(q) ==
    /\ q \in Seq(Tasks) /\ Len(q) = N
    /\ \A i, j \in 1..N : q[i] = q[j] => i = j
    /\ \A t \in Tasks : \E i \in 1..N : q[i] = t

\* The positions of a ranking.
LEMMA PositionIs ==
    ASSUME TableAssumption, NEW q, Ranking(q)
    PROVE  /\ N \in Nat
           /\ \A t \in Tasks : Table!RowOf(q, t) \in 1..N /\ q[Table!RowOf(q, t)] = t
           /\ \A i \in 1..N : q[i] \in Tasks /\ Table!RowOf(q, q[i]) = i
<1>1. N \in Nat
  BY FS_CardinalityType DEF TableAssumption, N
<1>2. DOMAIN q = 1..N /\ \A i \in 1..N : q[i] \in Tasks
  BY <1>1 DEF Ranking
<1>3. ASSUME NEW t \in Tasks PROVE Table!RowOf(q, t) \in 1..N /\ q[Table!RowOf(q, t)] = t
  <2>1. \E i \in 1..N : q[i] = t
    BY DEF Ranking
  <2>2. Table!Contains(q, t)
    BY <2>1 DEF Ranking, Table!Contains
  <2>3. Table!RowOf(q, t) = CHOOSE r \in 1..N : q[r] = t
    BY <1>2, <2>2 DEF Table!RowOf
  <2> QED
    BY <2>1, <2>3
<1>4. ASSUME NEW i \in 1..N PROVE Table!RowOf(q, q[i]) = i
  BY <1>2, <1>3 DEF Ranking
<1> QED
  BY <1>1, <1>2, <1>3, <1>4

\* What a command for task t leaves: the others are in their order, and t is past
\* none of them the wrong way.
Rest(q, new, t) ==
    /\ Ranking(new)
    /\ \A u, v \in Tasks \ {t} : Table!Above(new, u, v) <=> Table!Above(q, u, v)
Raised(q, new, t) ==
    Rest(q, new, t) /\ \A u \in Tasks \ {t} : Table!Above(q, t, u) => Table!Above(new, t, u)
Lowered(q, new, t) ==
    Rest(q, new, t) /\ \A u \in Tasks \ {t} : Table!Above(q, u, t) => Table!Above(new, u, t)

\* A permutation p of the positions, and its inverse r: all but position k stay in
\* their order.
Permutes(q, new, p, r, k) ==
    /\ new \in Seq(Tasks) /\ Len(new) = N
    /\ p \in [1..N -> 1..N] /\ r \in [1..N -> 1..N]
    /\ \A i \in 1..N : r[p[i]] = i /\ p[r[i]] = i
    /\ \A i \in 1..N : new[i] = q[r[i]]
    /\ \A i, j \in 1..N \ {k} : p[i] < p[j] <=> i < j
Rises(p, k) == \A j \in 1..N : k < j => p[k] < p[j]
Sinks(p, k) == \A j \in 1..N : j < k => p[j] < p[k]

\* What a permutation of the positions does to the tasks.
LEMMA Permuted ==
    ASSUME TableAssumption, NEW q, Ranking(q), NEW t \in Tasks, NEW new, NEW p, NEW r,
           Permutes(q, new, p, r, Table!RowOf(q, t))
    PROVE  /\ Rises(p, Table!RowOf(q, t)) => Raised(q, new, t)
           /\ Sinks(p, Table!RowOf(q, t)) => Lowered(q, new, t)
<1> USE DEF Permutes
<1>1. /\ N \in Nat
      /\ \A x \in Tasks : Table!RowOf(q, x) \in 1..N /\ q[Table!RowOf(q, x)] = x
      /\ \A i \in 1..N : q[i] \in Tasks /\ Table!RowOf(q, q[i]) = i
  BY PositionIs
<1>2. Ranking(new)
  <2>1. ASSUME NEW i \in 1..N, NEW j \in 1..N, new[i] = new[j] PROVE i = j
    <3>1. r[i] \in 1..N /\ r[j] \in 1..N /\ q[r[i]] = q[r[j]]
      BY <2>1
    <3>2. r[i] = r[j]
      BY <3>1 DEF Ranking
    <3> QED
      BY <3>2
  <2>2. ASSUME NEW x \in Tasks PROVE \E i \in 1..N : new[i] = x
    <3>1. PICK i \in 1..N : q[i] = x
      BY DEF Ranking
    <3>2. p[i] \in 1..N /\ new[p[i]] = x
      BY <3>1
    <3> QED
      BY <3>2
  <2> QED
    BY <2>1, <2>2 DEF Ranking
<1>3. ASSUME NEW x \in Tasks PROVE Table!RowOf(new, x) = p[Table!RowOf(q, x)]
  <2>1. p[Table!RowOf(q, x)] \in 1..N /\ new[p[Table!RowOf(q, x)]] = x
    BY <1>1
  <2>2. \A i \in 1..N : Table!RowOf(new, new[i]) = i
    BY <1>2, PositionIs
  <2> QED
    BY <2>1, <2>2
<1> DEFINE k == Table!RowOf(q, t)
<1>4. k \in 1..N /\ \A x \in Tasks \ {t} : Table!RowOf(q, x) \in 1..N \ {k}
  BY <1>1
<1>5. \A i, j \in 1..N \ {k} : p[i] < p[j] <=> i < j
  OBVIOUS
<1>6. Table!RowOf(new, t) = p[k]
  BY <1>3
<1> HIDE DEF k
<1>7. \A u, v \in Tasks \ {t} : Table!Above(new, u, v) <=> Table!Above(q, u, v)
  BY <1>3, <1>4, <1>5 DEF Table!Above
<1>8. ASSUME \A j \in 1..N : k < j => p[k] < p[j], NEW u \in Tasks \ {t}, Table!Above(q, t, u)
      PROVE  Table!Above(new, t, u)
  BY <1>3, <1>4, <1>6, <1>8 DEF Table!Above, k
<1>9. ASSUME \A j \in 1..N : j < k => p[j] < p[k], NEW u \in Tasks \ {t}, Table!Above(q, u, t)
      PROVE  Table!Above(new, u, t)
  BY <1>3, <1>4, <1>6, <1>9 DEF Table!Above, k
<1>10. Rest(q, new, t)
  BY <1>2, <1>7 DEF Rest
<1>11. Rises(p, k) => Raised(q, new, t)
  BY <1>8, <1>10 DEF Raised, Rises
<1>12. Sinks(p, k) => Lowered(q, new, t)
  BY <1>9, <1>10 DEF Lowered, Sinks
<1> QED
  BY <1>11, <1>12 DEF k

\* A queue without a task.
LEMMA WithoutIs ==
    ASSUME TableAssumption, NEW q, Ranking(q), NEW t \in Tasks
    PROVE  /\ Table!RowOf(q, t) \in 1..N /\ N \in Nat /\ q[Table!RowOf(q, t)] = t
           /\ Table!Without(q, t) \in Seq(Tasks) /\ Len(Table!Without(q, t)) = N - 1
           /\ \A i \in 1..(N - 1) :
                Table!Without(q, t)[i] = IF i < Table!RowOf(q, t) THEN q[i] ELSE q[i + 1]
<1> DEFINE k == Table!RowOf(q, t)
<1>1. k \in 1..N /\ q[k] = t /\ N \in Nat
  BY PositionIs
<1>2. q \in Seq(Tasks) /\ Len(q) = N
  BY DEF Ranking
<1>3. Table!Without(q, t) = SubSeq(q, 1, k - 1) \o SubSeq(q, k + 1, N)
  BY <1>2 DEF Table!Without, Table!RemoveAt
<1> HIDE DEF k
<1>4. /\ SubSeq(q, 1, k - 1) \in Seq(Tasks) /\ Len(SubSeq(q, 1, k - 1)) = k - 1
      /\ \A i \in 1..(k - 1) : SubSeq(q, 1, k - 1)[i] = q[i]
  BY <1>1, <1>2
<1>5. /\ SubSeq(q, k + 1, N) \in Seq(Tasks) /\ Len(SubSeq(q, k + 1, N)) = N - k
      /\ \A i \in 1..(N - k) : SubSeq(q, k + 1, N)[i] = q[k + i]
  BY <1>1, <1>2
<1>6. /\ Table!Without(q, t) \in Seq(Tasks) /\ Len(Table!Without(q, t)) = N - 1
      /\ \A i \in 1..(N - 1) : Table!Without(q, t)[i] = IF i < k THEN q[i] ELSE q[i + 1]
  <2>1. Table!Without(q, t) \in Seq(Tasks) /\ Len(Table!Without(q, t)) = N - 1
    BY <1>1, <1>3, <1>4, <1>5
  <2>2. ASSUME NEW i \in 1..(N - 1), i < k PROVE Table!Without(q, t)[i] = q[i]
    BY <1>1, <1>3, <1>4, <1>5, <2>2
  <2>3. ASSUME NEW i \in 1..(N - 1), ~(i < k) PROVE Table!Without(q, t)[i] = q[i + 1]
    <3>1. i - (k - 1) \in 1..(N - k) /\ k + (i - (k - 1)) = i + 1
      BY <1>1, <2>3
    <3> DEFINE a == SubSeq(q, 1, k - 1)
               b == SubSeq(q, k + 1, N)
    <3> HIDE DEF a, b
    <3>2. /\ Table!Without(q, t) = a \o b /\ a \in Seq(Tasks) /\ b \in Seq(Tasks)
          /\ Len(a) = k - 1 /\ Len(b) = N - k
      BY <1>3, <1>4, <1>5 DEF a, b
    <3>3. i \in (Len(a) + 1)..(Len(a) + Len(b))
      BY <1>1, <2>3, <3>2
    <3>4. (a \o b)[i] = b[i - Len(a)]
      BY <3>2, <3>3
    <3>5. Table!Without(q, t)[i] = SubSeq(q, k + 1, N)[i - (k - 1)]
      BY <3>2, <3>4 DEF b
    <3> QED
      BY <1>5, <3>1, <3>5
  <2> QED
    BY <2>1, <2>2, <2>3
<1> QED
  BY <1>1, <1>6 DEF k

\* A command that moves a task to the top.
LEMMA MoveTopIs ==
    ASSUME TableAssumption, NEW q, Ranking(q), NEW t \in Tasks
    PROVE  Raised(q, Table!MoveTop(q, t), t)
<1> DEFINE k == Table!RowOf(q, t)
           new == Table!MoveTop(q, t)
           w == Table!Without(q, t)
           p == [i \in 1..N |-> IF i = k THEN 1 ELSE IF i < k THEN i + 1 ELSE i]
           r == [i \in 1..N |-> IF i = 1 THEN k ELSE IF i <= k THEN i - 1 ELSE i]
<1>1. /\ k \in 1..N /\ N \in Nat /\ q[k] = t /\ w \in Seq(Tasks) /\ Len(w) = N - 1
      /\ \A i \in 1..(N - 1) : w[i] = IF i < k THEN q[i] ELSE q[i + 1]
  BY WithoutIs
<1>2. new = <<t>> \o w
  BY DEF Table!MoveTop
<1> HIDE DEF k, new, w
<1>3. new \in Seq(Tasks) /\ Len(new) = N
  BY <1>1, <1>2
<1>4. new[1] = t /\ \A i \in 2..N : new[i] = w[i - 1]
  BY <1>1, <1>2
<1>5. \A i \in 1..N : new[i] = q[r[i]]
  BY <1>1, <1>4
<1>6. p \in [1..N -> 1..N] /\ r \in [1..N -> 1..N]
  BY <1>1
<1>7. \A i \in 1..N : r[p[i]] = i /\ p[r[i]] = i
  BY <1>1
<1>8. /\ \A i, j \in 1..N \ {k} : p[i] < p[j] <=> i < j
      /\ Rises(p, k)
  BY <1>1 DEF Rises
<1> HIDE DEF p, r
<1>9. Permutes(q, new, p, r, k)
  BY <1>3, <1>5, <1>6, <1>7, <1>8 DEF Permutes
<1> QED
  BY <1>8, <1>9, Permuted DEF k, new

\* To the bottom.
LEMMA MoveBottomIs ==
    ASSUME TableAssumption, NEW q, Ranking(q), NEW t \in Tasks
    PROVE  Lowered(q, Table!MoveBottom(q, t), t)
<1> DEFINE k == Table!RowOf(q, t)
           new == Table!MoveBottom(q, t)
           w == Table!Without(q, t)
           p == [i \in 1..N |-> IF i = k THEN N ELSE IF i < k THEN i ELSE i - 1]
           r == [i \in 1..N |-> IF i = N THEN k ELSE IF i < k THEN i ELSE i + 1]
<1>1. /\ k \in 1..N /\ N \in Nat /\ q[k] = t /\ w \in Seq(Tasks) /\ Len(w) = N - 1
      /\ \A i \in 1..(N - 1) : w[i] = IF i < k THEN q[i] ELSE q[i + 1]
  BY WithoutIs
<1>2. new = Append(w, t)
  BY DEF Table!MoveBottom
<1> HIDE DEF k, new, w
<1>3. new \in Seq(Tasks) /\ Len(new) = N
  BY <1>1, <1>2
<1>4. new[N] = t /\ \A i \in 1..(N - 1) : new[i] = w[i]
  BY <1>1, <1>2
<1>5. \A i \in 1..N : new[i] = q[r[i]]
  BY <1>1, <1>4
<1>6. p \in [1..N -> 1..N] /\ r \in [1..N -> 1..N]
  BY <1>1
<1>7. \A i \in 1..N : r[p[i]] = i /\ p[r[i]] = i
  BY <1>1
<1>8. /\ \A i, j \in 1..N \ {k} : p[i] < p[j] <=> i < j
      /\ Sinks(p, k)
  BY <1>1 DEF Sinks
<1> HIDE DEF p, r
<1>9. Permutes(q, new, p, r, k)
  BY <1>3, <1>5, <1>6, <1>7, <1>8 DEF Permutes
<1> QED
  BY <1>8, <1>9, Permuted DEF k, new

\* Two neighbours change places: the first of them goes down, the second up.
LEMMA SwapIs ==
    ASSUME TableAssumption, NEW q, Ranking(q), NEW k \in Nat, k \in 1..N, k + 1 \in 1..N
    PROVE  /\ Lowered(q, Table!Swap(q, k, k + 1), q[k])
           /\ Raised(q, Table!Swap(q, k, k + 1), q[k + 1])
<1> DEFINE new == Table!Swap(q, k, k + 1)
           p == [i \in 1..N |-> IF i = k THEN k + 1 ELSE IF i = k + 1 THEN k ELSE i]
<1>1. /\ N \in Nat /\ \A i \in 1..N : q[i] \in Tasks /\ Table!RowOf(q, q[i]) = i
      /\ q \in Seq(Tasks) /\ Len(q) = N
  BY PositionIs DEF Ranking
<1>2. new = [q EXCEPT ![k] = q[k + 1], ![k + 1] = q[k]]
  BY DEF Table!Swap
<1> HIDE DEF new
<1>3. DOMAIN q = 1..N
  BY <1>1
<1>4. new = [i \in 1..N |-> IF i = k + 1 THEN q[k] ELSE IF i = k THEN q[k + 1] ELSE q[i]]
  BY <1>2, <1>3
<1>5. new \in Seq(Tasks) /\ Len(new) = N /\ \A i \in 1..N : new[i] = q[p[i]]
  BY <1>1, <1>4
<1>6. p \in [1..N -> 1..N] /\ \A i \in 1..N : p[p[i]] = i
  BY <1>1
<1>7. /\ \A i, j \in 1..N \ {k} : p[i] < p[j] <=> i < j
      /\ \A i, j \in 1..N \ {k + 1} : p[i] < p[j] <=> i < j
      /\ Sinks(p, k) /\ Rises(p, k + 1)
  BY <1>1 DEF Sinks, Rises
<1> HIDE DEF p
<1>8. /\ Table!RowOf(q, q[k]) = k /\ Table!RowOf(q, q[k + 1]) = k + 1
      /\ q[k] \in Tasks /\ q[k + 1] \in Tasks
  BY <1>1
<1>9. Lowered(q, new, q[k])
  <2>1. Permutes(q, new, p, p, k)
    BY <1>5, <1>6, <1>7 DEF Permutes
  <2> QED
    BY <1>7, <1>8, <2>1, Permuted
<1>10. Raised(q, new, q[k + 1])
  <2>1. Permutes(q, new, p, p, k + 1)
    BY <1>5, <1>6, <1>7 DEF Permutes
  <2> QED
    BY <1>7, <1>8, <2>1, Permuted
<1> QED
  BY <1>9, <1>10 DEF new

\* One place up.
LEMMA MoveUpIs ==
    ASSUME TableAssumption, NEW q, Ranking(q), NEW t \in Tasks
    PROVE  Raised(q, Table!MoveUp(q, t), t)
<1>1. N \in Nat /\ Table!RowOf(q, t) \in 1..N /\ q[Table!RowOf(q, t)] = t
  BY PositionIs
<1>2. CASE Table!RowOf(q, t) = 1
  BY <1>2 DEF Table!MoveUp, Raised, Rest
<1>3. CASE Table!RowOf(q, t) # 1
  <2>1. PICK k \in Nat : k \in 1..N /\ k + 1 = Table!RowOf(q, t)
    BY <1>1, <1>3
  <2>2. Table!MoveUp(q, t) = Table!Swap(q, k, k + 1)
    BY <1>3, <2>1 DEF Table!MoveUp
  <2> QED
    BY <1>1, <2>1, <2>2, SwapIs
<1> QED
  BY <1>2, <1>3

\* One place down.
LEMMA MoveDownIs ==
    ASSUME TableAssumption, NEW q, Ranking(q), NEW t \in Tasks
    PROVE  Lowered(q, Table!MoveDown(q, t), t)
<1>1. N \in Nat /\ Table!RowOf(q, t) \in 1..N /\ q[Table!RowOf(q, t)] = t /\ Len(q) = N
  BY PositionIs DEF Ranking
<1>2. CASE Table!RowOf(q, t) = N
  BY <1>1, <1>2 DEF Table!MoveDown, Lowered, Rest
<1>3. CASE Table!RowOf(q, t) # N
  <2>1. Table!RowOf(q, t) + 1 \in 1..N /\ Table!RowOf(q, t) \in Nat
    BY <1>1, <1>3
  <2>2. Table!MoveDown(q, t) = Table!Swap(q, Table!RowOf(q, t), Table!RowOf(q, t) + 1)
    BY <1>1, <1>3 DEF Table!MoveDown
  <2> QED
    BY <1>1, <2>1, <2>2, SwapIs
<1> QED
  BY <1>2, <1>3

-----------------------------------------------------------------------------
(* A command for each of the picked tasks.                                 *)

\* Commands for the first n tasks of c, and the rankings a queue goes through while they
\* are done.
Ordered(c, n) == DOMAIN c = 1 .. n /\ \A i \in 1 .. n : c[i] \in Tasks
Rankings == {q \in Seq(Tasks) : Ranking(q)}
Ups(h, c, n) ==
    /\ h \in [0 .. n -> Rankings]
    /\ \A i \in 1 .. n : Raised(h[i - 1], h[i], c[i])
Downs(h, c, n) ==
    /\ h \in [0 .. n -> Rankings]
    /\ \A i \in 1 .. n : Lowered(h[i - 1], h[i], c[i])

\* Moved to the top one by one.
LEMMA TopSteps ==
    ASSUME TableAssumption, NEW s, Ranking(s), NEW n \in Nat, NEW c, Ordered(c, n)
    PROVE  \E h : Ups(h, c, n) /\ h[0] = s /\ h[n] = Table!FoldLeft(Table!MoveTop, s, c)
<1>0. /\ DOMAIN c = 1 .. n
      /\ \A i \in 1 .. n : \A x \in Rankings :
           Raised(x, Table!MoveTop(x, c[i]), c[i]) /\ Table!MoveTop(x, c[i]) \in Rankings
  <2>1. ASSUME NEW i \in 1 .. n, NEW x \in Rankings
        PROVE  Raised(x, Table!MoveTop(x, c[i]), c[i]) /\ Table!MoveTop(x, c[i]) \in Rankings
    <3>1. Raised(x, Table!MoveTop(x, c[i]), c[i])
      BY MoveTopIs DEF Ordered, Rankings
    <3>2. Ranking(Table!MoveTop(x, c[i]))
      BY <3>1 DEF Raised, Rest
    <3> QED
      BY <3>1, <3>2 DEF Rankings, Ranking
  <2> QED
    BY <2>1 DEF Ordered
<1> DEFINE S == Rankings
           G == [i \in 1 .. n |-> [x \in S |-> Table!MoveTop(x, c[i])]]
           Eq(f) == f = [r \in SUBSET (1 .. n) |->
                          IF r = {} THEN s ELSE Table!MoveTop(f[r \ {Max(r)}], c[Max(r)])]
           g == CHOOSE f : Eq(f)
<1>1. Table!FoldLeft(Table!MoveTop, s, c) = g[1 .. n]
  BY <1>0 DEF Table!FoldLeft, Table!MapThenFoldSet, Max, Table!Max
<1>2. G \in [1 .. n -> [S -> S]] /\ s \in S
  BY <1>0 DEF S, Rankings, Ranking
<1> HIDE DEF S
<1>3. \A i \in 1 .. n : \A x \in S : G[i][x] = Table!MoveTop(x, c[i])
  OBVIOUS
<1> HIDE DEF G
<1>4. PICK f \in [SUBSET (1 .. n) -> S] : Folds(f, s, G, n)
  BY <1>2, FoldExists
<1>5. Eq(f)
  <2>1. ASSUME NEW r \in SUBSET (1 .. n), r # {}
        PROVE  G[Max(r)][f[r \ {Max(r)}]] = Table!MoveTop(f[r \ {Max(r)}], c[Max(r)])
    <3>1. Max(r) \in 1 .. n /\ f[r \ {Max(r)}] \in S
      BY <2>1, MaxInside
    <3> QED
      BY <1>3, <3>1
  <2> QED
    BY <1>4, <2>1 DEF Folds
<1>6. Eq(g)
  BY <1>5
<1>7. g[{}] = s
  BY <1>6
<1>8. ASSUME NEW r \in SUBSET (1 .. n), r # {}, g[r \ {Max(r)}] \in S
      PROVE  g[r] = G[Max(r)][g[r \ {Max(r)}]]
  <2>1. g[r] = Table!MoveTop(g[r \ {Max(r)}], c[Max(r)])
    BY <1>6, <1>8
  <2>2. Max(r) \in 1 .. n
    BY <1>8, MaxInside
  <2> HIDE DEF g
  <2> QED
    BY <1>3, <1>8, <2>1, <2>2
<1> HIDE DEF g, Eq
<1>9. FoldRule(g, s, G, n, S)
  BY <1>7, <1>8 DEF FoldRule
<1>10. PICK h \in [0 .. n -> S] : FoldPath(h, g, s, G, n)
  BY <1>2, <1>9, FoldSteps
<1>11. \A i \in 1 .. n : Raised(h[i - 1], h[i], c[i])
  <2>1. \A i \in 1 .. n : h[i - 1] \in S
    OBVIOUS
  <2> QED
    BY <1>0, <1>3, <1>10, <2>1 DEF FoldPath, S
<1> QED
  BY <1>1, <1>10, <1>11 DEF S, FoldPath, Ups

\* Moved up one by one.
LEMMA UpSteps ==
    ASSUME TableAssumption, NEW s, Ranking(s), NEW n \in Nat, NEW c, Ordered(c, n)
    PROVE  \E h : Ups(h, c, n) /\ h[0] = s /\ h[n] = Table!FoldLeft(Table!MoveUp, s, c)
<1>0. /\ DOMAIN c = 1 .. n
      /\ \A i \in 1 .. n : \A x \in Rankings :
           Raised(x, Table!MoveUp(x, c[i]), c[i]) /\ Table!MoveUp(x, c[i]) \in Rankings
  <2>1. ASSUME NEW i \in 1 .. n, NEW x \in Rankings
        PROVE  Raised(x, Table!MoveUp(x, c[i]), c[i]) /\ Table!MoveUp(x, c[i]) \in Rankings
    <3>1. Raised(x, Table!MoveUp(x, c[i]), c[i])
      BY MoveUpIs DEF Ordered, Rankings
    <3>2. Ranking(Table!MoveUp(x, c[i]))
      BY <3>1 DEF Raised, Rest
    <3> QED
      BY <3>1, <3>2 DEF Rankings, Ranking
  <2> QED
    BY <2>1 DEF Ordered
<1> DEFINE S == Rankings
           G == [i \in 1 .. n |-> [x \in S |-> Table!MoveUp(x, c[i])]]
           Eq(f) == f = [r \in SUBSET (1 .. n) |->
                          IF r = {} THEN s ELSE Table!MoveUp(f[r \ {Max(r)}], c[Max(r)])]
           g == CHOOSE f : Eq(f)
<1>1. Table!FoldLeft(Table!MoveUp, s, c) = g[1 .. n]
  BY <1>0 DEF Table!FoldLeft, Table!MapThenFoldSet, Max, Table!Max
<1>2. G \in [1 .. n -> [S -> S]] /\ s \in S
  BY <1>0 DEF S, Rankings, Ranking
<1> HIDE DEF S
<1>3. \A i \in 1 .. n : \A x \in S : G[i][x] = Table!MoveUp(x, c[i])
  OBVIOUS
<1> HIDE DEF G
<1>4. PICK f \in [SUBSET (1 .. n) -> S] : Folds(f, s, G, n)
  BY <1>2, FoldExists
<1>5. Eq(f)
  <2>1. ASSUME NEW r \in SUBSET (1 .. n), r # {}
        PROVE  G[Max(r)][f[r \ {Max(r)}]] = Table!MoveUp(f[r \ {Max(r)}], c[Max(r)])
    <3>1. Max(r) \in 1 .. n /\ f[r \ {Max(r)}] \in S
      BY <2>1, MaxInside
    <3> QED
      BY <1>3, <3>1
  <2> QED
    BY <1>4, <2>1 DEF Folds
<1>6. Eq(g)
  BY <1>5
<1>7. g[{}] = s
  BY <1>6
<1>8. ASSUME NEW r \in SUBSET (1 .. n), r # {}, g[r \ {Max(r)}] \in S
      PROVE  g[r] = G[Max(r)][g[r \ {Max(r)}]]
  <2>1. g[r] = Table!MoveUp(g[r \ {Max(r)}], c[Max(r)])
    BY <1>6, <1>8
  <2>2. Max(r) \in 1 .. n
    BY <1>8, MaxInside
  <2> HIDE DEF g
  <2> QED
    BY <1>3, <1>8, <2>1, <2>2
<1> HIDE DEF g, Eq
<1>9. FoldRule(g, s, G, n, S)
  BY <1>7, <1>8 DEF FoldRule
<1>10. PICK h \in [0 .. n -> S] : FoldPath(h, g, s, G, n)
  BY <1>2, <1>9, FoldSteps
<1>11. \A i \in 1 .. n : Raised(h[i - 1], h[i], c[i])
  <2>1. \A i \in 1 .. n : h[i - 1] \in S
    OBVIOUS
  <2> QED
    BY <1>0, <1>3, <1>10, <2>1 DEF FoldPath, S
<1> QED
  BY <1>1, <1>10, <1>11 DEF S, FoldPath, Ups

\* Moved to the bottom one by one.
LEMMA BottomSteps ==
    ASSUME TableAssumption, NEW s, Ranking(s), NEW n \in Nat, NEW c, Ordered(c, n)
    PROVE  \E h : Downs(h, c, n) /\ h[0] = s /\ h[n] = Table!FoldLeft(Table!MoveBottom, s, c)
<1>0. /\ DOMAIN c = 1 .. n
      /\ \A i \in 1 .. n : \A x \in Rankings :
           Lowered(x, Table!MoveBottom(x, c[i]), c[i]) /\ Table!MoveBottom(x, c[i]) \in Rankings
  <2>1. ASSUME NEW i \in 1 .. n, NEW x \in Rankings
        PROVE  /\ Lowered(x, Table!MoveBottom(x, c[i]), c[i])
               /\ Table!MoveBottom(x, c[i]) \in Rankings
    <3>1. Lowered(x, Table!MoveBottom(x, c[i]), c[i])
      BY MoveBottomIs DEF Ordered, Rankings
    <3>2. Ranking(Table!MoveBottom(x, c[i]))
      BY <3>1 DEF Lowered, Rest
    <3> QED
      BY <3>1, <3>2 DEF Rankings, Ranking
  <2> QED
    BY <2>1 DEF Ordered
<1> DEFINE S == Rankings
           G == [i \in 1 .. n |-> [x \in S |-> Table!MoveBottom(x, c[i])]]
           Eq(f) == f = [r \in SUBSET (1 .. n) |->
                          IF r = {} THEN s ELSE Table!MoveBottom(f[r \ {Max(r)}], c[Max(r)])]
           g == CHOOSE f : Eq(f)
<1>1. Table!FoldLeft(Table!MoveBottom, s, c) = g[1 .. n]
  BY <1>0 DEF Table!FoldLeft, Table!MapThenFoldSet, Max, Table!Max
<1>2. G \in [1 .. n -> [S -> S]] /\ s \in S
  BY <1>0 DEF S, Rankings, Ranking
<1> HIDE DEF S
<1>3. \A i \in 1 .. n : \A x \in S : G[i][x] = Table!MoveBottom(x, c[i])
  OBVIOUS
<1> HIDE DEF G
<1>4. PICK f \in [SUBSET (1 .. n) -> S] : Folds(f, s, G, n)
  BY <1>2, FoldExists
<1>5. Eq(f)
  <2>1. ASSUME NEW r \in SUBSET (1 .. n), r # {}
        PROVE  G[Max(r)][f[r \ {Max(r)}]] = Table!MoveBottom(f[r \ {Max(r)}], c[Max(r)])
    <3>1. Max(r) \in 1 .. n /\ f[r \ {Max(r)}] \in S
      BY <2>1, MaxInside
    <3> QED
      BY <1>3, <3>1
  <2> QED
    BY <1>4, <2>1 DEF Folds
<1>6. Eq(g)
  BY <1>5
<1>7. g[{}] = s
  BY <1>6
<1>8. ASSUME NEW r \in SUBSET (1 .. n), r # {}, g[r \ {Max(r)}] \in S
      PROVE  g[r] = G[Max(r)][g[r \ {Max(r)}]]
  <2>1. g[r] = Table!MoveBottom(g[r \ {Max(r)}], c[Max(r)])
    BY <1>6, <1>8
  <2>2. Max(r) \in 1 .. n
    BY <1>8, MaxInside
  <2> HIDE DEF g
  <2> QED
    BY <1>3, <1>8, <2>1, <2>2
<1> HIDE DEF g, Eq
<1>9. FoldRule(g, s, G, n, S)
  BY <1>7, <1>8 DEF FoldRule
<1>10. PICK h \in [0 .. n -> S] : FoldPath(h, g, s, G, n)
  BY <1>2, <1>9, FoldSteps
<1>11. \A i \in 1 .. n : Lowered(h[i - 1], h[i], c[i])
  <2>1. \A i \in 1 .. n : h[i - 1] \in S
    OBVIOUS
  <2> QED
    BY <1>0, <1>3, <1>10, <2>1 DEF FoldPath, S
<1> QED
  BY <1>1, <1>10, <1>11 DEF S, FoldPath, Downs

\* Moved down one by one.
LEMMA DownSteps ==
    ASSUME TableAssumption, NEW s, Ranking(s), NEW n \in Nat, NEW c, Ordered(c, n)
    PROVE  \E h : Downs(h, c, n) /\ h[0] = s /\ h[n] = Table!FoldLeft(Table!MoveDown, s, c)
<1>0. /\ DOMAIN c = 1 .. n
      /\ \A i \in 1 .. n : \A x \in Rankings :
           Lowered(x, Table!MoveDown(x, c[i]), c[i]) /\ Table!MoveDown(x, c[i]) \in Rankings
  <2>1. ASSUME NEW i \in 1 .. n, NEW x \in Rankings
        PROVE  Lowered(x, Table!MoveDown(x, c[i]), c[i]) /\ Table!MoveDown(x, c[i]) \in Rankings
    <3>1. Lowered(x, Table!MoveDown(x, c[i]), c[i])
      BY MoveDownIs DEF Ordered, Rankings
    <3>2. Ranking(Table!MoveDown(x, c[i]))
      BY <3>1 DEF Lowered, Rest
    <3> QED
      BY <3>1, <3>2 DEF Rankings, Ranking
  <2> QED
    BY <2>1 DEF Ordered
<1> DEFINE S == Rankings
           G == [i \in 1 .. n |-> [x \in S |-> Table!MoveDown(x, c[i])]]
           Eq(f) == f = [r \in SUBSET (1 .. n) |->
                          IF r = {} THEN s ELSE Table!MoveDown(f[r \ {Max(r)}], c[Max(r)])]
           g == CHOOSE f : Eq(f)
<1>1. Table!FoldLeft(Table!MoveDown, s, c) = g[1 .. n]
  BY <1>0 DEF Table!FoldLeft, Table!MapThenFoldSet, Max, Table!Max
<1>2. G \in [1 .. n -> [S -> S]] /\ s \in S
  BY <1>0 DEF S, Rankings, Ranking
<1> HIDE DEF S
<1>3. \A i \in 1 .. n : \A x \in S : G[i][x] = Table!MoveDown(x, c[i])
  OBVIOUS
<1> HIDE DEF G
<1>4. PICK f \in [SUBSET (1 .. n) -> S] : Folds(f, s, G, n)
  BY <1>2, FoldExists
<1>5. Eq(f)
  <2>1. ASSUME NEW r \in SUBSET (1 .. n), r # {}
        PROVE  G[Max(r)][f[r \ {Max(r)}]] = Table!MoveDown(f[r \ {Max(r)}], c[Max(r)])
    <3>1. Max(r) \in 1 .. n /\ f[r \ {Max(r)}] \in S
      BY <2>1, MaxInside
    <3> QED
      BY <1>3, <3>1
  <2> QED
    BY <1>4, <2>1 DEF Folds
<1>6. Eq(g)
  BY <1>5
<1>7. g[{}] = s
  BY <1>6
<1>8. ASSUME NEW r \in SUBSET (1 .. n), r # {}, g[r \ {Max(r)}] \in S
      PROVE  g[r] = G[Max(r)][g[r \ {Max(r)}]]
  <2>1. g[r] = Table!MoveDown(g[r \ {Max(r)}], c[Max(r)])
    BY <1>6, <1>8
  <2>2. Max(r) \in 1 .. n
    BY <1>8, MaxInside
  <2> HIDE DEF g
  <2> QED
    BY <1>3, <1>8, <2>1, <2>2
<1> HIDE DEF g, Eq
<1>9. FoldRule(g, s, G, n, S)
  BY <1>7, <1>8 DEF FoldRule
<1>10. PICK h \in [0 .. n -> S] : FoldPath(h, g, s, G, n)
  BY <1>2, <1>9, FoldSteps
<1>11. \A i \in 1 .. n : Lowered(h[i - 1], h[i], c[i])
  <2>1. \A i \in 1 .. n : h[i - 1] \in S
    OBVIOUS
  <2> QED
    BY <1>0, <1>3, <1>10, <2>1 DEF FoldPath, S
<1> QED
  BY <1>1, <1>10, <1>11 DEF S, FoldPath, Downs

\* What commands for tasks of P leave: the others in their order, and no task of P
\* past another the wrong way.
RestAll(q, new, P) ==
    /\ Ranking(new)
    /\ \A u, v \in Tasks \ P : Table!Above(new, u, v) <=> Table!Above(q, u, v)
RaisedAll(q, new, P) ==
    /\ RestAll(q, new, P)
    /\ \A t \in P, u \in Tasks \ P : Table!Above(q, t, u) => Table!Above(new, t, u)
LoweredAll(q, new, P) ==
    /\ RestAll(q, new, P)
    /\ \A t \in P, u \in Tasks \ P : Table!Above(q, u, t) => Table!Above(new, u, t)

\* By induction over the number of commands.
LEMMA RaisedByAll ==
    ASSUME NEW P \in SUBSET Tasks, NEW n \in Nat, NEW c, Ordered(c, n),
           \A i \in 1 .. n : c[i] \in P, NEW h, Ups(h, c, n)
    PROVE  RaisedAll(h[0], h[n], P)
<1> DEFINE T == {i \in Nat : i <= n => RaisedAll(h[0], h[i], P)}
<1>1. 0 \in T
  BY DEF Ups, Rankings, RaisedAll, RestAll
<1>2. \A i \in Nat : i \in T => i + 1 \in T
  <2> SUFFICES ASSUME NEW i \in Nat, i \in T, i + 1 <= n
               PROVE  RaisedAll(h[0], h[i + 1], P)
    OBVIOUS
  <2>1. i + 1 \in 1 .. n /\ (i + 1) - 1 = i
    OBVIOUS
  <2>2. Raised(h[i], h[i + 1], c[i + 1]) /\ c[i + 1] \in P
    BY <2>1 DEF Ups
  <2>3. RaisedAll(h[0], h[i], P)
    OBVIOUS
  <2> HIDE DEF T
  <2> QED
    BY <2>2, <2>3 DEF RaisedAll, RestAll, Raised, Rest
<1> HIDE DEF T
<1>3. \A i \in Nat : i \in T
  BY <1>1, <1>2, SetInduction
<1> QED
  BY <1>3 DEF T

\* The same downwards.
LEMMA LoweredByAll ==
    ASSUME NEW P \in SUBSET Tasks, NEW n \in Nat, NEW c, Ordered(c, n),
           \A i \in 1 .. n : c[i] \in P, NEW h, Downs(h, c, n)
    PROVE  LoweredAll(h[0], h[n], P)
<1> DEFINE T == {i \in Nat : i <= n => LoweredAll(h[0], h[i], P)}
<1>1. 0 \in T
  BY DEF Downs, Rankings, LoweredAll, RestAll
<1>2. \A i \in Nat : i \in T => i + 1 \in T
  <2> SUFFICES ASSUME NEW i \in Nat, i \in T, i + 1 <= n
               PROVE  LoweredAll(h[0], h[i + 1], P)
    OBVIOUS
  <2>1. i + 1 \in 1 .. n /\ (i + 1) - 1 = i
    OBVIOUS
  <2>2. Lowered(h[i], h[i + 1], c[i + 1]) /\ c[i + 1] \in P
    BY <2>1 DEF Downs
  <2>3. LoweredAll(h[0], h[i], P)
    OBVIOUS
  <2> HIDE DEF T
  <2> QED
    BY <2>2, <2>3 DEF LoweredAll, RestAll, Lowered, Rest
<1> HIDE DEF T
<1>3. \A i \in Nat : i \in T
  BY <1>1, <1>2, SetInduction
<1> QED
  BY <1>3 DEF T

\* A set of tasks in an order.
LEMMA CommandsAre ==
    ASSUME TableAssumption, NEW P \in SUBSET Tasks, NEW c \in Table!Commands(P)
    PROVE  \E n \in Nat : Ordered(c, n) /\ \A i \in 1 .. n : c[i] \in P
<1>1. Table!Cardinality(P) \in Nat
  BY FS_Subset, FS_CardinalityType, SameCount DEF TableAssumption
<1>2. c \in [1 .. Table!Cardinality(P) -> P]
  BY DEF Table!Commands, Table!SetToSeqs
<1> QED
  BY <1>1, <1>2 DEF Ordered

\* What the proofs need to know of the filters and the statuses.
FilterAssumption == "all" \in Filters /\ Shown \subseteq Table!Status

QueueInv == Ranking(queue) /\ mine \subseteq Tasks /\ Table!Picked \subseteq Tasks

\* What a step may not do to the queue.
KeepsQueue ==
    \A u \in Tasks \ Table!Picked :
        /\ \A v \in Tasks \ Table!Picked :
                      Table!Above(queue', u, v) <=> Table!Above(queue, u, v)
        /\ \A t \in Table!Picked :
            /\ Table!QueueTop \/ Table!QueueUp \/ Table!StartPicked =>
                (Table!Above(queue, t, u) => Table!Above(queue', t, u))
            /\ Table!QueueBottom \/ Table!QueueDown =>
                (Table!Above(queue, u, t) => Table!Above(queue', u, t))

\* The choices of the menu that move tasks upwards.
LEMMA ChosenRaised ==
    ASSUME TableAssumption, QueueInv, Table!QueueTop \/ Table!QueueUp \/ Table!StartPicked
    PROVE  RaisedAll(queue, queue', Table!Picked)
<1>1. Table!Picked \in SUBSET Tasks /\ Ranking(queue)
  BY DEF QueueInv
<1>2. \E P \in SUBSET Table!Picked : \E c \in Table!Commands(P) :
        \/ queue' = Table!FoldLeft(Table!MoveTop, queue, c)
        \/ queue' = Table!FoldLeft(Table!MoveUp, queue, c)
  <2>1. {p[1] : p \in {q \in rowMenu.picked : q[2] \in Table!Stopped}} \in SUBSET Table!Picked
    BY DEF Table!Picked
  <2>2. Table!Picked \in SUBSET Table!Picked
    OBVIOUS
  <2>3. CASE Table!StartPicked
    BY <2>1, <2>3 DEF Table!StartPicked
  <2>4. CASE Table!QueueTop
    BY <2>2, <2>4 DEF Table!QueueTop
  <2>5. CASE Table!QueueUp
    BY <2>2, <2>5 DEF Table!QueueUp
  <2> QED
    BY <2>3, <2>4, <2>5
<1>3. PICK P \in SUBSET Table!Picked : \E c \in Table!Commands(P) :
        \/ queue' = Table!FoldLeft(Table!MoveTop, queue, c)
        \/ queue' = Table!FoldLeft(Table!MoveUp, queue, c)
  BY <1>2
<1>4. PICK c \in Table!Commands(P) :
        \/ queue' = Table!FoldLeft(Table!MoveTop, queue, c)
        \/ queue' = Table!FoldLeft(Table!MoveUp, queue, c)
  BY <1>3
<1>5. PICK n \in Nat : Ordered(c, n) /\ \A i \in 1 .. n : c[i] \in Table!Picked
  BY <1>1, CommandsAre
<1>6. \E h : Ups(h, c, n) /\ h[0] = queue /\ h[n] = queue'
  BY <1>1, <1>4, <1>5, TopSteps, UpSteps
<1> QED
  BY <1>1, <1>5, <1>6, RaisedByAll

\* And downwards.
LEMMA ChosenLowered ==
    ASSUME TableAssumption, QueueInv, Table!QueueBottom \/ Table!QueueDown
    PROVE  LoweredAll(queue, queue', Table!Picked)
<1>1. Table!Picked \in SUBSET Tasks /\ Ranking(queue)
  BY DEF QueueInv
<1>2. PICK c \in Table!Commands(Table!Picked) :
        \/ queue' = Table!FoldLeft(Table!MoveBottom, queue, c)
        \/ queue' = Table!FoldLeft(Table!MoveDown, queue, c)
  BY DEF Table!QueueBottom, Table!QueueDown
<1>3. PICK n \in Nat : Ordered(c, n) /\ \A i \in 1 .. n : c[i] \in Table!Picked
  BY <1>1, CommandsAre
<1>4. \E h : Downs(h, c, n) /\ h[0] = queue /\ h[n] = queue'
  BY <1>1, <1>2, <1>3, BottomSteps, DownSteps
<1> QED
  BY <1>1, <1>3, <1>4, LoweredByAll

\* Every step leaves the queue an order of the tasks, and leaves it alone or moves in
\* it what was picked.
LEMMA QueueNext ==
    ASSUME TableAssumption, TableInv, TableInv', QueueInv, [Table!Next]_Table!vars
    PROVE  QueueInv' /\ (queue' = queue \/ KeepsQueue)
<1>1. /\ \A r \in DOMAIN rows : rows[r] \in Tasks
      /\ sel' \subseteq DOMAIN rows'
  BY DEF TableInv, IsTable
<1>2. CASE Table!QueueTop \/ Table!QueueUp \/ Table!StartPicked \/ Table!QueueBottom
      \/ Table!QueueDown
  <2>1. mine' = mine /\ Table!Picked' = {}
    BY <1>2 DEF Table!QueueTop, Table!QueueUp, Table!StartPicked, Table!QueueBottom,
       Table!QueueDown, Table!Choose, Table!Picked, Table!NoMenu
  <2>2. /\ Table!QueueTop \/ Table!QueueUp \/ Table!StartPicked =>
             RaisedAll(queue, queue', Table!Picked)
        /\ Table!QueueBottom \/ Table!QueueDown => LoweredAll(queue, queue', Table!Picked)
    BY ChosenRaised, ChosenLowered
  <2>3. RestAll(queue, queue', Table!Picked)
    BY <1>2, <2>2 DEF RaisedAll, LoweredAll
  <2>4. KeepsQueue
    BY <2>2, <2>3 DEF KeepsQueue, RaisedAll, LoweredAll, RestAll
  <2> QED
    BY <2>1, <2>3, <2>4 DEF QueueInv, RestAll
<1>3. ASSUME queue' = queue, mine' \subseteq Tasks, Table!Picked' \subseteq Tasks
      PROVE  QueueInv'
  BY <1>3 DEF QueueInv
<1>4. CASE Table!RefreshTasks \/ \E f \in Filters : Table!SetFilter(f)
  <2>1. queue' = queue /\ mine' = mine /\ rowMenu' = rowMenu
    BY <1>4 DEF Table!RefreshTasks, Table!SetFilter, Table!SetSnapshots
  <2> QED
    BY <1>3, <2>1 DEF QueueInv, Table!Picked
<1>5. ASSUME NEW r \in DOMAIN rows, Table!Click(r) \/ Table!CtrlClick(r)
      PROVE  QueueInv' /\ queue' = queue
  <2>1. queue' = queue /\ rows' = rows /\ mine' = {rows[i] : i \in sel'} /\ rowMenu' = rowMenu
    BY <1>5 DEF Table!Click, Table!CtrlClick, Table!Noted
  <2> QED
    BY <1>1, <1>3, <2>1 DEF QueueInv, Table!Picked
<1>6. ASSUME NEW r \in DOMAIN rows, Table!OpenMenu(r) PROVE QueueInv' /\ queue' = queue
  <2>1. queue' = queue /\ rows' = rows /\ mine' = mine
    BY <1>6 DEF Table!OpenMenu
  <2>2. Table!Picked' = {rows[i] : i \in sel'}
    BY <1>6, PickedIs
  <2> QED
    BY <1>1, <1>3, <2>1, <2>2 DEF QueueInv
<1>7. CASE Table!SelectAll \/ Table!ClickEmpty
  <2>1. queue' = queue /\ rows' = rows /\ mine' = {rows[i] : i \in sel'} /\ rowMenu' = rowMenu
    BY <1>7 DEF Table!SelectAll, Table!ClickEmpty, Table!Noted
  <2> QED
    BY <1>1, <1>3, <2>1 DEF QueueInv, Table!Picked
<1>8. CASE Table!Dismiss
  <2>1. queue' = queue /\ mine' = mine /\ Table!Picked' = {}
    BY <1>8 DEF Table!Dismiss, Table!Choose, Table!Picked, Table!NoMenu
  <2> QED
    BY <1>3, <2>1 DEF QueueInv
<1>9. CASE UNCHANGED Table!vars
  <2>1. queue' = queue /\ mine' = mine /\ rowMenu' = rowMenu
    BY <1>9 DEF Table!vars
  <2> QED
    BY <1>3, <2>1 DEF QueueInv, Table!Picked
<1> QED
  BY <1>2, <1>4, <1>5, <1>6, <1>7, <1>8, <1>9 DEF Table!Next, Table!RefreshTasks,
     Table!SetFilter, Table!SetSnapshots, Table!Dismiss, Table!Choose, Table!vars

\* The session starts with its tasks in some order.
LEMMA QueueInit ==
    ASSUME TableAssumption, Table!Init PROVE QueueInv
<1>1. queue \in Table!SetToSeqs(Tasks) /\ mine = {} /\ rowMenu = Table!NoMenu
  BY DEF Table!Init
<1>2. Table!Sorted(Tasks) = Table!SetToSeqs(Tasks)
  BY DEF Table!Sorted
<1>3. IsTable(queue) /\ Table!ToSet(queue) = Tasks
  BY <1>1, <1>2, SortedIs
<1>4. N \in Nat /\ queue \in [1 .. N -> Tasks]
  BY <1>1, FS_CardinalityType, SameCount DEF Table!SetToSeqs, TableAssumption, N
<1>5. Ranking(queue)
  BY <1>3, <1>4 DEF Ranking, IsTable, Table!ToSet
<1>6. Table!Picked = {}
  BY <1>1 DEF Table!Picked, Table!NoMenu
<1> QED
  BY <1>1, <1>5, <1>6 DEF QueueInv

\* Commands of the queue menu leave the others in their order and no picked task goes
\* past another the wrong way, for any number of tasks and in any order of the commands.
THEOREM QueueMovesPicked ==
    ASSUME TableAssumption
    PROVE  Table!Spec => Table!QueueMoves
<1> DEFINE I == TableInv /\ QueueInv
           Keeps ==
             \A u \in Tasks \ Table!Picked :
                 /\ \A v \in Tasks \ Table!Picked :
                      Table!Above(queue', u, v) <=> Table!Above(queue, u, v)
                 /\ \A t \in Table!Picked :
                     /\ Table!QueueTop \/ Table!QueueUp \/ Table!StartPicked =>
                         (Table!Above(queue, t, u) => Table!Above(queue', t, u))
                     /\ Table!QueueBottom \/ Table!QueueDown =>
                         (Table!Above(queue, u, t) => Table!Above(queue', u, t))
<1>1. I /\ [Table!Next]_Table!vars => I'
  BY TableNext, QueueNext
<1>2. I /\ [Table!Next]_Table!vars => [Keeps]_queue
  BY TableNext, QueueNext DEF KeepsQueue
<1>3. Table!Init => I
  BY TableInit, QueueInit
<1> HIDE DEF I
<1> QED
  BY <1>1, <1>2, <1>3, PTL DEF Table!Spec, Table!QueueMoves

\* The types that TLC checks.
THEOREM TableTypes ==
    ASSUME TableAssumption, FilterAssumption
    PROVE  Table!Spec => []Table!TypeOK
<1> DEFINE T == snaps \in [Tasks -> Table!Status \cup {Table!Absent}] /\ filter \in Filters
           I == TableInv /\ QueueInv /\ T
<1>1. I /\ [Table!Next]_Table!vars => I'
  <2> SUFFICES ASSUME I, [Table!Next]_Table!vars PROVE I'
    OBVIOUS
  <2>1. TableInv' /\ QueueInv'
    BY TableNext, QueueNext
  <2>2. CASE Table!RefreshTasks
    <3>1. snaps' \in Table!Refreshed /\ filter' = filter
      BY <2>2 DEF Table!RefreshTasks
    <3>2. snaps' \in [Tasks -> Table!Status \cup {Table!Absent}]
      BY <3>1 DEF Table!Refreshed, FilterAssumption
    <3> QED
      BY <2>1, <3>1, <3>2
  <2>3. CASE \E f \in Filters : Table!SetFilter(f)
    BY <2>1, <2>3 DEF Table!SetFilter
  <2>4. CASE UNCHANGED <<snaps, filter>>
    BY <2>1, <2>4
  <2> QED
    BY <2>2, <2>3, <2>4 DEF Table!Next, Table!vars, Table!Click, Table!CtrlClick, Table!OpenMenu,
       Table!SelectAll, Table!ClickEmpty, Table!Dismiss, Table!StartPicked, Table!QueueTop,
         Table!QueueBottom, Table!QueueUp, Table!QueueDown, Table!Choose
<1>2. Table!Init => I
  BY TableInit, QueueInit DEF Table!Init, FilterAssumption
<1>3. ASSUME I PROVE Table!TypeOK
  <2>1. N \in Nat /\ Len(queue) = Table!Cardinality(Tasks) /\ Table!ToSet(queue) = Tasks
    <3>1. Ranking(queue) /\ N \in Nat
      BY <1>3, FS_CardinalityType DEF QueueInv, TableAssumption, N
    <3>2. DOMAIN queue = 1 .. N /\ \A i \in 1 .. N : queue[i] \in Tasks
      BY <3>1 DEF Ranking
    <3> QED
      BY <3>1, <3>2, SameCount DEF Ranking, Table!ToSet, N
  <2>2. \A i, j \in DOMAIN rows : rows[i] \in Tasks /\ (rows[i] = rows[j] => i = j)
    BY <1>3 DEF TableInv, IsTable
  <2> QED
    BY <1>3, <2>1, <2>2 DEF Table!TypeOK, TableInv, QueueInv
<1> HIDE DEF I
<1>4. I => Table!TypeOK
  BY <1>3
<1> QED
  BY <1>1, <1>2, <1>4, PTL DEF Table!Spec

-----------------------------------------------------------------------------
(* The page of a task's files, module ContentPage: for any tasks, any      *)
(* finite set of files, any levels and folders and any number of menus.    *)
(* Its formulas are prefixed with Page.                                    *)

CONSTANTS Files, Offered, Folders, MaxMenus
VARIABLES pageSession, jobs, pageCmds, taskId, tree, selected, itemMenu, undefined, asked, menus
Page == INSTANCE ContentPage WITH session <- pageSession, cmds <- pageCmds, menu <- itemMenu

\* What the proofs need to know: a torrent has files, "none" is no task, the row of the
\* folder is no file, and the menu offers levels.
ContentAssumption ==
    /\ IsFiniteSet(Files) /\ Files # {} /\ Page!Folder \notin Files
    /\ Page!None \notin Tasks /\ Offered \subseteq Page!Levels

Prios == {Page!ToLt(l) : l \in Page!Levels}
Paths == Folders \cup {"d"}
Sessions == [Tasks -> [folder : [Files -> Paths], prio : [Files -> Prios], sequential : BOOLEAN]]
Job == [task : Tasks, file : Files, folder : Folders]
PageCmds ==
    [op : {"priority"}, task : Tasks, files : SUBSET Files, level : Offered]
    \cup [op : {"rename"}, task : Tasks \cup {Page!None}, path : Paths, name : Folders]
PageRows == [Files -> [folder : Paths, level : Page!Levels]]
Trees == {Page!EmptyTree} \cup [task : Tasks, rows : PageRows]
Menus == [is : {Page!None, "menu", "rename"}, node : Page!Nodes \cup {Page!None},
          path : Paths \cup {Page!None}, stale : BOOLEAN, task : Tasks \cup {Page!None},
          picked : SUBSET Files, single : BOOLEAN]
Works == [session : Sessions, jobs : Seq(Job)]

PageTypes ==
    /\ pageSession \in Sessions /\ jobs \in Seq(Job) /\ pageCmds \in Seq(PageCmds)
    /\ taskId \in Tasks \cup {Page!None} /\ tree \in Trees /\ selected \subseteq Page!Nodes
    /\ asked \in [Tasks -> [Files -> Page!Levels]]
    /\ itemMenu \in Menus
    /\ itemMenu.is = "menu" => itemMenu.task \in Tasks
    /\ itemMenu.is = "rename" => itemMenu.path \in Paths

\* A command sets the priority of a file.
Sets(c, t, f) == c.op = "priority" /\ c.task = t /\ f \in c.files

\* The last command after the first k of q that sets a file's priority asks for the
\* level in a; without one the session has it already.
LastAsks(q, k, t, f, a) ==
    \E i \in (k + 1)..Len(q) :
        /\ Sets(q[i], t, f) /\ q[i].level = a[t][f]
        /\ \A j \in (i + 1)..Len(q) : ~Sets(q[j], t, f)
NoneSets(q, k, t, f) == \A i \in (k + 1)..Len(q) : ~Sets(q[i], t, f)
HasAsked(s, t, f, a) == s[t].prio[f] = 0 <=> a[t][f] = "skip"
Agrees(s, q, k, a) ==
    \A t \in Tasks, f \in Files :
        LastAsks(q, k, t, f, a) \/ (NoneSets(q, k, t, f) /\ HasAsked(s, t, f, a))

\* What the rows of a task say.
TreeRight ==
    tree.task # Page!None =>
        \A f \in Files : tree.rows[f].level = "skip" <=> asked[tree.task][f] = "skip"

\* The menu is of the row that is selected, as long as nothing was refreshed.
MenuRight ==
    /\ itemMenu.is = "menu" =>
         selected = {} \/ (itemMenu.task = taskId /\ itemMenu.picked = Page!Collected(selected))
    /\ itemMenu.is # Page!None /\ ~itemMenu.stale => tree.task # Page!None

PageInv ==
    /\ PageTypes /\ Agrees(pageSession, pageCmds, 0, asked)
    /\ TreeRight /\ MenuRight /\ Page!RowsOfTask

-----------------------------------------------------------------------------
(* The commands.                                                           *)

\* Priorities of libtorrent.
LEMMA LevelsAre ==
    /\ Prios \subseteq Nat
    /\ \A l \in Page!Levels : Page!ToLt(l) \in Prios /\ (Page!ToLt(l) = 0 <=> l = "skip")
    /\ \A p \in Prios, b \in BOOLEAN :
         Page!ToLevel(p, b) \in Page!Levels /\ (Page!ToLevel(p, b) = "skip" <=> p = 0)
<1>1. \A l \in Page!Levels : Page!ToLt(l) \in {0, 1, 4, 6, 7} /\ (Page!ToLt(l) = 0 <=> l = "skip")
  BY DEF Page!Levels, Page!ToLt
<1>2. Prios \subseteq {0, 1, 4, 6, 7}
  BY <1>1 DEF Prios
<1>3. \A p \in {0, 1, 4, 6, 7}, b \in BOOLEAN :
        Page!ToLevel(p, b) \in Page!Levels /\ (Page!ToLevel(p, b) = "skip" <=> p = 0)
  BY DEF Page!ToLevel, Page!Levels
<1> QED
  BY <1>1, <1>2, <1>3 DEF Prios

\* The two modules put a set in order by the same definition.
LEMMA SameOrder ==
    ASSUME NEW S PROVE Page!SetToSeq(S) = SetToSeq(S)
  BY DEF SetToSeq, Page!SetToSeq, Cardinality, Page!Cardinality, IsInjective, Page!IsInjective

\* The jobs of a rename are jobs.
LEMMA RenameJobsAre ==
    ASSUME ContentAssumption, NEW s, NEW c \in PageCmds, c.op = "rename", c.task # Page!None
    PROVE  Page!RenameJobs(s, c) \in Seq(Job)
<1> DEFINE R == {g \in Files : s[c.task].folder[g] = c.path}
           D == {[task |-> c.task, file |-> f, folder |-> c.name] : f \in R}
<1>1. c.task \in Tasks /\ c.name \in Folders
  BY DEF PageCmds
<1>2. D \subseteq Job
  BY <1>1 DEF Job
<1>3. IsFiniteSet(D)
  <2>1. IsFiniteSet(R)
    BY FS_Subset DEF ContentAssumption
  <2> DEFINE F == [f \in R |-> [task |-> c.task, file |-> f, folder |-> c.name]]
  <2>2. F \in Surjection(R, D)
    BY DEF Surjection
  <2> HIDE DEF R, D, F
  <2> QED
    BY <2>1, <2>2, FS_Surjection
<1>4. Page!RenameJobs(s, c) = Page!SetToSeq(D)
  BY DEF Page!RenameJobs
<1> HIDE DEF D
<1>5. Cardinality(D) \in Nat /\ Page!SetToSeq(D) \in [1 .. Cardinality(D) -> D]
  BY <1>3, InOrder, SameOrder
<1> QED
  BY <1>2, <1>4, <1>5

\* A command is handled: the last one about a file leaves it as asked.
LEMMA HandleIs ==
    ASSUME ContentAssumption, NEW w \in Works, NEW q \in Seq(PageCmds),
           NEW k \in Nat, k + 1 \in 1..Len(q), NEW a \in [Tasks -> [Files -> Page!Levels]]
    PROVE  /\ Page!Handle(w, q[k + 1]) \in Works
           /\ Agrees(w.session, q, k, a) => Agrees(Page!Handle(w, q[k + 1]).session, q, k + 1, a)
<1> DEFINE c == q[k + 1]
           v == Page!Handle(w, c)
<1>1. c \in PageCmds /\ w.session \in Sessions /\ w.jobs \in Seq(Job)
  BY DEF Works
<1>2. w = [session |-> w.session, jobs |-> w.jobs]
  BY DEF Works
<1> HIDE DEF c
<1>3. CASE c.op = "priority"
  <2>1. /\ c.task \in Tasks /\ c.files \in SUBSET Files /\ c.level \in Page!Levels
        /\ c.task # Page!None
    BY <1>1, <1>3 DEF PageCmds, ContentAssumption
  <2>2. v = [session |-> Page!SetPriority(w.session, c), jobs |-> w.jobs]
    BY <1>2, <1>3, <2>1 DEF Page!Handle
  <2>3. Page!SetPriority(w.session, c) = [w.session EXCEPT ![c.task] =
          [folder |-> @.folder, sequential |-> (@.sequential \/ c.level = "order"),
           prio |-> [f \in Files |-> IF f \in c.files THEN Page!ToLt(c.level) ELSE @.prio[f]]]]
    BY SMTT(60), <1>1, <2>1 DEF Page!SetPriority, Sessions
  <2>4. v.session \in Sessions
    BY <1>1, <2>1, <2>2, <2>3, LevelsAre DEF Sessions
  <2>5. v \in Works
    BY <1>1, <2>2, <2>4 DEF Works
  <2>6. \A t \in Tasks, f \in Files :
          v.session[t].prio[f] =
            IF t = c.task /\ f \in c.files THEN Page!ToLt(c.level) ELSE w.session[t].prio[f]
    BY <1>1, <2>1, <2>2, <2>3 DEF Sessions
  <2> HIDE DEF v
  <2>7. ASSUME Agrees(w.session, q, k, a), NEW t \in Tasks, NEW f \in Files
        PROVE  LastAsks(q, k + 1, t, f, a)
                 \/ (NoneSets(q, k + 1, t, f) /\ HasAsked(v.session, t, f, a))
    <3>1. CASE NoneSets(q, k, t, f) /\ HasAsked(w.session, t, f, a)
      <4>1. ~Sets(c, t, f) /\ NoneSets(q, k + 1, t, f)
        BY <3>1 DEF NoneSets, c
      <4> QED
        BY <1>3, <2>6, <3>1, <4>1 DEF Sets, HasAsked
    <3>2. CASE LastAsks(q, k, t, f, a)
      <4>1. PICK i \in (k + 1)..Len(q) :
              /\ Sets(q[i], t, f) /\ q[i].level = a[t][f]
              /\ \A j \in (i + 1)..Len(q) : ~Sets(q[j], t, f)
        BY <3>2 DEF LastAsks
      <4>2. CASE i = k + 1
        <5>1. v.session[t].prio[f] = Page!ToLt(c.level) /\ c.level = a[t][f]
          BY <2>6, <4>1, <4>2 DEF Sets, c
        <5> QED
          BY <2>1, <4>1, <4>2, <5>1, LevelsAre DEF NoneSets, HasAsked
      <4>3. CASE i # k + 1
        BY <4>1, <4>3 DEF LastAsks
      <4> QED
        BY <4>2, <4>3
    <3> QED
      BY <2>7, <3>1, <3>2 DEF Agrees
  <2> QED
    BY <2>5, <2>7 DEF Agrees, v, c
<1>4. CASE c.op # "priority"
  <2>1. v.session = w.session /\ v \in Works
    <3>1. CASE c.task = Page!None
      BY <3>1 DEF Page!Handle
    <3>2. CASE c.task # Page!None
      <4>1. v = [session |-> w.session, jobs |-> w.jobs \o Page!RenameJobs(w.session, c)]
        BY <1>2, <1>4, <3>2 DEF Page!Handle
      <4>2. c.op = "rename"
        BY <1>1, <1>4 DEF PageCmds
      <4>3. Page!RenameJobs(w.session, c) \in Seq(Job)
        BY <1>1, <3>2, <4>2, RenameJobsAre
      <4> QED
        BY <1>1, <4>1, <4>3 DEF Works
    <3> QED
      BY <3>1, <3>2
  <2> HIDE DEF v
  <2>2. \A t, f : ~Sets(c, t, f)
    BY <1>4 DEF Sets
  <2>3. ASSUME Agrees(w.session, q, k, a), NEW t \in Tasks, NEW f \in Files
        PROVE  LastAsks(q, k + 1, t, f, a)
                 \/ (NoneSets(q, k + 1, t, f) /\ HasAsked(v.session, t, f, a))
    <3>1. CASE NoneSets(q, k, t, f) /\ HasAsked(w.session, t, f, a)
      BY <2>1, <3>1 DEF NoneSets, HasAsked
    <3>2. CASE LastAsks(q, k, t, f, a)
      <4>1. PICK i \in (k + 1)..Len(q) :
              /\ Sets(q[i], t, f) /\ q[i].level = a[t][f]
              /\ \A j \in (i + 1)..Len(q) : ~Sets(q[j], t, f)
        BY <3>2 DEF LastAsks
      <4>2. i # k + 1
        BY <2>2, <4>1 DEF c
      <4> QED
        BY <4>1, <4>2 DEF LastAsks
    <3> QED
      BY <2>3, <3>1, <3>2 DEF Agrees
  <2> QED
    BY <2>1, <2>3 DEF Agrees, v, c
<1> QED
  BY <1>3, <1>4

\* All commands are handled one after the other: the priorities are what was asked.
LEMMA AllHandled ==
    ASSUME ContentAssumption, NEW w \in Works, NEW q \in Seq(PageCmds),
           NEW a \in [Tasks -> [Files -> Page!Levels]], Agrees(w.session, q, 0, a)
    PROVE  /\ Page!FoldLeft(Page!Handle, w, q) \in Works
           /\ \A t \in Tasks, f \in Files :
                HasAsked(Page!FoldLeft(Page!Handle, w, q).session, t, f, a)
<1> DEFINE n == Len(q)
           S == Works
           G == [i \in 1 .. n |-> [x \in S |-> Page!Handle(x, q[i])]]
           Eq(f) == f = [r \in SUBSET (1 .. n) |->
                          IF r = {} THEN w ELSE Page!Handle(f[r \ {Max(r)}], q[Max(r)])]
           g == CHOOSE f : Eq(f)
<1>0. /\ n \in Nat /\ DOMAIN q = 1 .. n
      /\ \A i \in 1 .. n : \A x \in Works : Page!Handle(x, q[i]) \in Works
  <2>1. ASSUME NEW i \in 1 .. n, NEW x \in Works PROVE Page!Handle(x, q[i]) \in Works
    <3>1. i - 1 \in Nat /\ (i - 1) + 1 = i
      OBVIOUS
    <3> QED
      BY <3>1, HandleIs
  <2> QED
    BY <2>1
<1> HIDE DEF n
<1>1. Page!FoldLeft(Page!Handle, w, q) = g[1 .. n]
  BY <1>0 DEF Page!FoldLeft, Page!MapThenFoldSet, Max, Page!Max
<1>2. G \in [1 .. n -> [S -> S]] /\ w \in S
  BY <1>0 DEF S
<1> HIDE DEF S
<1>3. \A i \in 1 .. n : \A x \in S : G[i][x] = Page!Handle(x, q[i])
  OBVIOUS
<1> HIDE DEF G
<1>4. PICK e \in [SUBSET (1 .. n) -> S] : Folds(e, w, G, n)
  BY <1>0, <1>2, FoldExists
<1>5. Eq(e)
  <2>1. ASSUME NEW r \in SUBSET (1 .. n), r # {}
        PROVE  G[Max(r)][e[r \ {Max(r)}]] = Page!Handle(e[r \ {Max(r)}], q[Max(r)])
    <3>1. Max(r) \in 1 .. n /\ e[r \ {Max(r)}] \in S
      BY <1>0, <2>1, MaxInside
    <3> QED
      BY <1>3, <3>1
  <2> QED
    BY <1>4, <2>1 DEF Folds
<1>6. Eq(g)
  BY <1>5
<1>7. g[{}] = w
  BY <1>6
<1>8. ASSUME NEW r \in SUBSET (1 .. n), r # {}, g[r \ {Max(r)}] \in S
      PROVE  g[r] = G[Max(r)][g[r \ {Max(r)}]]
  <2>1. g[r] = Page!Handle(g[r \ {Max(r)}], q[Max(r)])
    BY <1>6, <1>8
  <2>2. Max(r) \in 1 .. n
    BY <1>0, <1>8, MaxInside
  <2> HIDE DEF g
  <2> QED
    BY <1>3, <1>8, <2>1, <2>2
<1> HIDE DEF g, Eq
<1>9. FoldRule(g, w, G, n, S)
  BY <1>7, <1>8 DEF FoldRule
<1>10. PICK h \in [0 .. n -> S] : FoldPath(h, g, w, G, n)
  BY <1>0, <1>2, <1>9, FoldSteps
<1>11. h[0] = w /\ h[n] = g[1 .. n] /\ \A i \in 1 .. n : h[i] = Page!Handle(h[i - 1], q[i])
  <2>1. \A i \in 1 .. n : h[i - 1] \in S
    BY <1>0
  <2> QED
    BY <1>3, <1>10, <2>1 DEF FoldPath
<1> DEFINE T == {i \in Nat : i <= n => Agrees(h[i].session, q, i, a)}
<1>12. 0 \in T
  BY <1>11
<1>13. \A i \in Nat : i \in T => i + 1 \in T
  <2> SUFFICES ASSUME NEW i \in Nat, i \in T, i + 1 <= n
               PROVE  Agrees(h[i + 1].session, q, i + 1, a)
    OBVIOUS
  <2>1. i + 1 \in 1 .. n /\ (i + 1) - 1 = i /\ i \in 0 .. n
    BY <1>0
  <2>2. Agrees(h[i].session, q, i, a)
    BY <2>1
  <2>3. h[i] \in Works /\ h[i + 1] = Page!Handle(h[i], q[i + 1])
    BY <1>11, <2>1 DEF S
  <2> HIDE DEF T
  <2> QED
    BY <2>1, <2>2, <2>3, HandleIs DEF n
<1> HIDE DEF T
<1>14. \A i \in Nat : i \in T
  BY <1>12, <1>13, SetInduction
<1>15. Agrees(h[n].session, q, n, a)
  BY <1>0, <1>14 DEF T
<1>16. \A t \in Tasks, f \in Files : HasAsked(h[n].session, t, f, a)
  <2>1. (n + 1)..Len(q) = {}
    BY <1>0 DEF n
  <2> QED
    BY <1>15, <2>1 DEF Agrees, LastAsks
<1>17. h[n] \in Works
  BY <1>0 DEF S
<1> QED
  BY <1>1, <1>11, <1>16, <1>17

\* The first command is done.
LEMMA TailAgrees ==
    ASSUME NEW s, NEW q \in Seq(PageCmds), q # <<>>, NEW a, Agrees(s, q, 1, a)
    PROVE  Agrees(s, Tail(q), 0, a)
<1>1. Len(q) \in Nat /\ Len(q) > 0 /\ Len(Tail(q)) = Len(q) - 1
  OBVIOUS
<1>2. \A i \in 1..Len(Tail(q)) : Tail(q)[i] = q[i + 1]
  OBVIOUS
<1>3. ASSUME NEW t \in Tasks, NEW f \in Files, NoneSets(q, 1, t, f)
      PROVE  NoneSets(Tail(q), 0, t, f)
  BY <1>1, <1>2, <1>3 DEF NoneSets
<1>4. ASSUME NEW t \in Tasks, NEW f \in Files, LastAsks(q, 1, t, f, a)
      PROVE  LastAsks(Tail(q), 0, t, f, a)
  <2>1. PICK i \in 2..Len(q) : /\ Sets(q[i], t, f) /\ q[i].level = a[t][f]
                               /\ \A j \in (i + 1)..Len(q) : ~Sets(q[j], t, f)
    BY <1>4 DEF LastAsks
  <2>2. i - 1 \in 1..Len(Tail(q)) /\ Tail(q)[i - 1] = q[i]
    BY <1>1, <1>2
  <2>3. \A j \in ((i - 1) + 1)..Len(Tail(q)) : ~Sets(Tail(q)[j], t, f)
    BY <1>1, <1>2, <2>1
  <2> DEFINE k == i - 1
             p == Tail(q)
  <2>4. k \in (0 + 1)..Len(p) /\ Sets(p[k], t, f) /\ p[k].level = a[t][f]
    BY <2>1, <2>2
  <2>5. \A j \in (k + 1)..Len(p) : ~Sets(p[j], t, f)
    BY <2>3
  <2> HIDE DEF k, p
  <2>6. LastAsks(p, 0, t, f, a)
    BY <2>4, <2>5 DEF LastAsks
  <2> QED
    BY <2>6 DEF p
<1> QED
  BY <1>3, <1>4 DEF Agrees

\* A command is queued: one that asks for a level, or a rename.
LEMMA AppendAgrees ==
    ASSUME NEW s, NEW q \in Seq(PageCmds), NEW a, NEW c \in PageCmds, NEW b,
           Agrees(s, q, 0, a),
           \A t \in Tasks, f \in Files :
             b[t][f] = IF Sets(c, t, f) THEN c.level ELSE a[t][f]
    PROVE  Agrees(s, Append(q, c), 0, b)
<1> DEFINE p == Append(q, c)
           n == Len(q) + 1
<1>1. n \in Nat /\ Len(p) = n /\ p[n] = c /\ \A i \in 1..Len(q) : p[i] = q[i]
  OBVIOUS
<1>2. 1..n = 1..Len(q) \cup {n} /\ \A i \in 1..Len(q) : (i + 1)..n = (i + 1)..Len(q) \cup {n}
  OBVIOUS
<1> HIDE DEF p
<1>3. ASSUME NEW t \in Tasks, NEW f \in Files
      PROVE  LastAsks(p, 0, t, f, b) \/ (NoneSets(p, 0, t, f) /\ HasAsked(s, t, f, b))
  <2>1. CASE Sets(c, t, f)
    <3>1. n \in (0 + 1)..Len(p) /\ Sets(p[n], t, f) /\ p[n].level = b[t][f]
      BY <1>1, <2>1
    <3>2. (n + 1)..Len(p) = {}
      BY <1>1
    <3> QED
      BY <3>1, <3>2 DEF LastAsks
  <2>2. CASE ~Sets(c, t, f) /\ LastAsks(q, 0, t, f, a)
    <3>1. PICK i \in 1..Len(q) : /\ Sets(q[i], t, f) /\ q[i].level = a[t][f]
                                 /\ \A j \in (i + 1)..Len(q) : ~Sets(q[j], t, f)
      BY <2>2 DEF LastAsks
    <3>2. \A j \in (i + 1)..Len(p) : ~Sets(p[j], t, f)
      BY <1>1, <1>2, <2>2, <3>1
    <3>3. i \in (0 + 1)..Len(p) /\ p[i] = q[i] /\ b[t][f] = a[t][f]
      BY <1>1, <2>2
    <3> QED
      BY <3>1, <3>2, <3>3 DEF LastAsks
  <2>3. CASE ~Sets(c, t, f) /\ NoneSets(q, 0, t, f) /\ HasAsked(s, t, f, a)
    <3>1. \A i \in (0 + 1)..Len(p) : ~Sets(p[i], t, f)
      BY <1>1, <1>2, <2>3 DEF NoneSets
    <3>2. b[t][f] = a[t][f]
      BY <2>3
    <3> QED
      BY <2>3, <3>1, <3>2 DEF NoneSets, HasAsked
  <2> QED
    BY <2>1, <2>2, <2>3 DEF Agrees
<1> QED
  BY <1>3 DEF Agrees, p

\* The tree is built anew, or emptied.
LEMMA ReloadIs ==
    ASSUME ContentAssumption, pageSession \in Sessions, jobs \in Seq(Job),
           NEW t \in Tasks \cup {Page!None}, NEW q \in Seq(PageCmds),
           NEW a \in [Tasks -> [Files -> Page!Levels]], Agrees(pageSession, q, 0, a),
           Page!ReloadTree(t, q)
    PROVE  /\ pageSession' \in Sessions /\ jobs' \in Seq(Job) /\ pageCmds' \in Seq(PageCmds)
           /\ tree' \in Trees /\ selected' = {} /\ Agrees(pageSession', pageCmds', 0, a)
           /\ tree'.task \in {t, Page!None}
           /\ tree'.task # Page!None =>
                \A f \in Files : tree'.rows[f].level = "skip" <=> a[tree'.task][f] = "skip"
<1>1. selected' = {}
  BY DEF Page!ReloadTree, Page!Reselect
<1>2. CASE tree' = Page!EmptyTree /\ pageCmds' = q /\ pageSession' = pageSession /\ jobs' = jobs
  BY <1>1, <1>2 DEF Page!EmptyTree, Trees
<1>3. CASE /\ t # Page!None
           /\ \E w :
                /\ w = Page!FoldLeft(Page!Handle, [session |-> pageSession, jobs |-> jobs], q)
                     /\ pageSession' = w.session /\ jobs' = w.jobs /\ pageCmds' = <<>>
                     /\ tree' = [task |-> t, rows |-> Page!Rows(w.session, t)]
  <2>1. PICK w : /\ w = Page!FoldLeft(Page!Handle, [session |-> pageSession, jobs |-> jobs], q)
                 /\ pageSession' = w.session /\ jobs' = w.jobs /\ pageCmds' = <<>>
                 /\ tree' = [task |-> t, rows |-> Page!Rows(w.session, t)]
    BY <1>3
  <2>2. t \in Tasks
    BY <1>3
  <2>3. [session |-> pageSession, jobs |-> jobs] \in Works
    BY DEF Works
  <2>4. w \in Works /\ \A u \in Tasks, f \in Files : HasAsked(w.session, u, f, a)
    BY <2>1, <2>3, AllHandled
  <2>5. w.session \in Sessions /\ w.jobs \in Seq(Job)
    BY <2>4 DEF Works
  <2>6. \A f \in Files : /\ w.session[t].prio[f] \in Prios /\ w.session[t].sequential \in BOOLEAN
                         /\ w.session[t].folder[f] \in Paths
    BY <2>2, <2>5 DEF Sessions
  <2>7. Page!Rows(w.session, t) \in PageRows
    BY <2>6, LevelsAre DEF Page!Rows, PageRows
  <2>8. \A f \in Files : Page!Rows(w.session, t)[f].level = "skip" <=> a[t][f] = "skip"
    BY <2>2, <2>4, <2>6, LevelsAre DEF Page!Rows, HasAsked
  <2>9. tree' \in Trees /\ tree'.task = t
    BY <2>1, <2>2, <2>7 DEF Trees
  <2>10. Agrees(w.session, <<>>, 0, a)
    BY <2>4 DEF Agrees, NoneSets
  <2> QED
    BY <1>1, <2>1, <2>5, <2>8, <2>9, <2>10
<1> QED
  BY <1>2, <1>3 DEF Page!ReloadTree

-----------------------------------------------------------------------------
(* The steps.                                                              *)

\* A step that changes what is asked changes it where the menu is.
AsksOfMenu ==
    asked' # asked =>
        \A t \in Tasks, f \in Files :
            asked'[t][f] # asked[t][f] => t = itemMenu.task /\ f \in itemMenu.picked

\* The files of the selected rows.
LEMMA CollectedIs ==
    ASSUME ContentAssumption, NEW ns \in SUBSET Page!Nodes
    PROVE  Page!Collected(ns) \in SUBSET Files /\ (ns = {} => Page!Collected(ns) = {})
BY DEF Page!Collected, Page!Nodes, ContentAssumption

\* No menu.
LEMMA NoMenuIs == Page!NoMenu \in Menus /\ Page!NoMenu.is = Page!None
BY DEF Page!NoMenu, Menus, Page!None

\* The worker.
LEMMA HandleCmdStep ==
    ASSUME ContentAssumption, PageInv, Page!HandleCmd
    PROVE  PageInv' /\ asked' = asked
<1> DEFINE w == [session |-> pageSession, jobs |-> jobs]
           v == Page!Handle(w, Head(pageCmds))
<1>1. /\ pageSession \in Sessions /\ jobs \in Seq(Job) /\ pageCmds \in Seq(PageCmds)
      /\ pageCmds # <<>>
      /\ asked \in [Tasks -> [Files -> Page!Levels]] /\ Agrees(pageSession, pageCmds, 0, asked)
  BY DEF PageInv, PageTypes, Page!HandleCmd
<1>2. w \in Works /\ w.session = pageSession
  BY <1>1 DEF Works
<1>3. pageSession' = v.session /\ jobs' = v.jobs /\ pageCmds' = Tail(pageCmds)
  BY DEF Page!HandleCmd
<1>4. /\ 0 + 1 \in 1..Len(pageCmds) /\ Head(pageCmds) = pageCmds[0 + 1]
      /\ Tail(pageCmds) \in Seq(PageCmds)
  BY <1>1
<1> HIDE DEF w
<1>5. v \in Works /\ Agrees(v.session, pageCmds, 1, asked)
  BY <1>1, <1>2, <1>4, HandleIs
<1> HIDE DEF v
<1>6. v.session \in Sessions /\ v.jobs \in Seq(Job)
  BY <1>5 DEF Works
<1>7. Agrees(v.session, Tail(pageCmds), 0, asked)
  BY <1>1, <1>5, TailAgrees
<1>8. UNCHANGED <<taskId, tree, selected, itemMenu, asked>>
  BY DEF Page!HandleCmd
<1>9. PageTypes'
  BY <1>3, <1>4, <1>6, <1>8 DEF PageInv, PageTypes
<1>10. Agrees(pageSession, pageCmds, 0, asked)'
  BY <1>3, <1>7, <1>8
<1>11. (TreeRight /\ MenuRight /\ Page!RowsOfTask)'
  BY <1>8 DEF PageInv, TreeRight, MenuRight, Page!RowsOfTask
<1> QED
  BY <1>8, <1>9, <1>10, <1>11 DEF PageInv

\* The disk thread.
LEMMA JobDoneStep ==
    ASSUME ContentAssumption, PageInv, Page!JobDone
    PROVE  PageInv' /\ asked' = asked
<1> DEFINE j == Head(jobs)
<1>1. /\ pageSession \in Sessions /\ jobs \in Seq(Job) /\ jobs # <<>>
      /\ Agrees(pageSession, pageCmds, 0, asked)
  BY DEF PageInv, PageTypes, Page!JobDone
<1>2. j \in Job /\ Tail(jobs) \in Seq(Job)
  BY <1>1
<1>3. /\ pageSession' \in {pageSession, [pageSession EXCEPT ![j.task].folder[j.file] = j.folder]}
      /\ jobs' = Tail(jobs) /\ UNCHANGED <<pageCmds, taskId, tree, selected, itemMenu, asked>>
  BY DEF Page!JobDone
<1> HIDE DEF j
<1>4. j.task \in Tasks /\ j.file \in Files /\ j.folder \in Paths
  BY <1>2 DEF Job, Paths
<1>5. pageSession' \in Sessions /\ \A t \in Tasks : pageSession'[t].prio = pageSession[t].prio
  <2>1. CASE pageSession' = pageSession
    BY <1>1, <2>1
  <2>2. CASE pageSession' = [pageSession EXCEPT ![j.task].folder[j.file] = j.folder]
    <3> DEFINE old == pageSession[j.task]
    <3>1. old \in [folder : [Files -> Paths], prio : [Files -> Prios], sequential : BOOLEAN]
      BY <1>1, <1>4 DEF Sessions
    <3> DEFINE new == [old EXCEPT !.folder = [old.folder EXCEPT ![j.file] = j.folder]]
    <3>2. /\ new \in [folder : [Files -> Paths], prio : [Files -> Prios], sequential : BOOLEAN]
          /\ new.prio = old.prio
      BY <1>4, <3>1
    <3>3. pageSession' = [pageSession EXCEPT ![j.task] = new]
      BY <2>2
    <3> HIDE DEF new
    <3> QED
      BY <1>1, <1>4, <3>2, <3>3 DEF Sessions
  <2> QED
    BY <1>3, <2>1, <2>2
<1>6. Agrees(pageSession', pageCmds, 0, asked)
  BY <1>1, <1>5 DEF Agrees, HasAsked
<1>7. PageTypes'
  BY <1>2, <1>3, <1>5 DEF PageInv, PageTypes
<1>8. Agrees(pageSession, pageCmds, 0, asked)'
  BY <1>3, <1>6
<1>9. (TreeRight /\ MenuRight /\ Page!RowsOfTask)'
  BY <1>3 DEF PageInv, TreeRight, MenuRight, Page!RowsOfTask
<1> QED
  BY <1>3, <1>7, <1>8, <1>9 DEF PageInv

\* Another task, or another look at the same.
LEMMA SetSnapshotStep ==
    ASSUME ContentAssumption, PageInv, NEW t \in Tasks \cup {Page!None}, Page!SetSnapshot(t)
    PROVE  PageInv' /\ asked' = asked
<1>1. /\ pageSession \in Sessions /\ jobs \in Seq(Job) /\ pageCmds \in Seq(PageCmds)
      /\ itemMenu \in Menus
      /\ asked \in [Tasks -> [Files -> Page!Levels]] /\ Agrees(pageSession, pageCmds, 0, asked)
  BY DEF PageInv, PageTypes
<1>2. /\ Page!ReloadTree(t, pageCmds) /\ taskId' = t /\ asked' = asked
      /\ itemMenu' = [itemMenu EXCEPT !.stale = (itemMenu.is # Page!None)]
  BY DEF Page!SetSnapshot
<1>3. /\ pageSession' \in Sessions /\ jobs' \in Seq(Job) /\ pageCmds' \in Seq(PageCmds)
      /\ tree' \in Trees /\ selected' = {} /\ Agrees(pageSession', pageCmds', 0, asked)
      /\ tree'.task \in {t, Page!None}
      /\ tree'.task # Page!None =>
           \A f \in Files : tree'.rows[f].level = "skip" <=> asked[tree'.task][f] = "skip"
  BY <1>1, <1>2, ReloadIs
<1>4. /\ itemMenu' \in Menus /\ itemMenu'.is = itemMenu.is /\ itemMenu'.task = itemMenu.task
      /\ itemMenu'.path = itemMenu.path /\ itemMenu'.stale = (itemMenu.is # Page!None)
  BY <1>1, <1>2 DEF Menus
<1>5. PageTypes'
  BY <1>2, <1>3, <1>4 DEF PageInv, PageTypes
<1>6. Agrees(pageSession, pageCmds, 0, asked)'
  BY <1>2, <1>3
<1>7. TreeRight' /\ Page!RowsOfTask'
  BY <1>2, <1>3 DEF TreeRight, Page!RowsOfTask
<1>8. MenuRight'
  BY <1>3, <1>4 DEF MenuRight
<1> QED
  BY <1>2, <1>5, <1>6, <1>7, <1>8 DEF PageInv

\* The user selects rows, opens or closes a menu, or chooses to rename.
LEMMA LookStep ==
    ASSUME ContentAssumption, PageInv,
           \/ \E ns \in SUBSET Page!Nodes : Page!Select(ns)
           \/ \E n \in Page!Nodes : Page!ShowContextMenu(n)
           \/ Page!ChooseRename \/ Page!CloseMenu
    PROVE  PageInv' /\ asked' = asked
<1>1. UNCHANGED <<pageSession, jobs, pageCmds, taskId, tree, asked>>
  BY DEF Page!Select, Page!ShowContextMenu, Page!ChooseRename, Page!CloseMenu
<1>2. ASSUME selected' \subseteq Page!Nodes, itemMenu' \in Menus, MenuRight',
             itemMenu'.is = "menu" => itemMenu'.task \in Tasks,
             itemMenu'.is = "rename" => itemMenu'.path \in Paths
      PROVE  PageInv' /\ asked' = asked
  <2>1. PageTypes'
    BY <1>1, <1>2 DEF PageInv, PageTypes
  <2>2. Agrees(pageSession, pageCmds, 0, asked)'
    BY <1>1 DEF PageInv
  <2>3. (TreeRight /\ Page!RowsOfTask)'
    BY <1>1 DEF PageInv, TreeRight, Page!RowsOfTask
  <2> QED
    BY <1>1, <1>2, <2>1, <2>2, <2>3 DEF PageInv
<1>3. ASSUME NEW ns \in SUBSET Page!Nodes, Page!Select(ns) PROVE PageInv' /\ asked' = asked
  <2>1. selected' = ns /\ itemMenu' = itemMenu /\ itemMenu.is = Page!None
    BY <1>3 DEF Page!Select
  <2>2. MenuRight'
    BY <2>1 DEF MenuRight, Page!None
  <2> QED
    BY <1>2, <2>1, <2>2 DEF PageInv, PageTypes, Page!None
<1>4. ASSUME NEW n \in Page!Nodes, Page!ShowContextMenu(n) PROVE PageInv' /\ asked' = asked
  <2>1. /\ selected' = IF n \in selected THEN selected ELSE {n}
        /\ itemMenu' = [Page!NoMenu EXCEPT !.is = "menu", !.node = n, !.task = taskId,
                                  !.picked = Page!Collected(selected'),
                                  !.single = (Page!Cardinality(selected') = 1)]
        /\ taskId # Page!None /\ tree.task # Page!None
    BY <1>4 DEF Page!ShowContextMenu
  <2>2. selected' \in SUBSET Page!Nodes /\ taskId \in Tasks
    BY <2>1 DEF PageInv, PageTypes
  <2>3. Page!Collected(selected') \in SUBSET Files
    BY <2>2, CollectedIs
  <2>4. itemMenu' = [is |-> "menu", node |-> n, path |-> Page!None, stale |-> FALSE,
                 task |-> taskId, picked |-> Page!Collected(selected'),
                 single |-> (Page!Cardinality(selected') = 1)]
    BY <2>1 DEF Page!NoMenu
  <2>5. itemMenu' \in Menus /\ itemMenu'.is = "menu" /\ itemMenu'.task = taskId
        /\ itemMenu'.picked = Page!Collected(selected') /\ itemMenu'.stale = FALSE
    BY <2>2, <2>3, <2>4 DEF Menus
  <2>6. MenuRight'
    BY <1>1, <2>1, <2>5 DEF MenuRight
  <2> QED
    BY <1>2, <2>2, <2>5, <2>6
<1>5. CASE Page!ChooseRename
  <2>1. itemMenu \in Menus /\ itemMenu.is = "menu" /\ selected' = selected
    BY <1>5 DEF Page!ChooseRename, PageInv, PageTypes
  <2>2. CASE itemMenu.stale
    <3>1. itemMenu' = itemMenu
      BY <1>5, <2>2 DEF Page!ChooseRename
    <3>2. MenuRight'
      BY <1>1, <2>1, <3>1 DEF PageInv, MenuRight
    <3> QED
      BY <1>2, <2>1, <3>1, <3>2 DEF PageInv, PageTypes
  <2>3. CASE ~itemMenu.stale
    <3> DEFINE p == tree.rows[CHOOSE f \in Files : TRUE].folder
    <3>1. itemMenu' = [itemMenu EXCEPT !.is = "rename", !.path = p]
      BY <1>5, <2>3 DEF Page!ChooseRename
    <3>2. tree.task # Page!None
      BY <2>1, <2>3 DEF PageInv, MenuRight, Page!None
    <3>3. tree.rows \in PageRows
      BY <3>2 DEF PageInv, PageTypes, Trees, Page!EmptyTree
    <3>4. p \in Paths
      BY <3>3 DEF PageRows, ContentAssumption
    <3> HIDE DEF p
    <3>5. /\ itemMenu' \in Menus /\ itemMenu'.is = "rename" /\ itemMenu'.path = p
          /\ itemMenu'.stale = itemMenu.stale
      BY <2>1, <3>1, <3>4 DEF Menus
    <3>6. MenuRight'
      BY <1>1, <3>2, <3>5 DEF MenuRight
    <3> QED
      BY <1>2, <2>1, <3>4, <3>5, <3>6 DEF PageInv, PageTypes
  <2> QED
    BY <2>2, <2>3
<1>6. CASE Page!CloseMenu
  <2>1. itemMenu' = Page!NoMenu /\ selected' = selected
    BY <1>6 DEF Page!CloseMenu
  <2>2. MenuRight'
    BY <2>1, NoMenuIs DEF MenuRight, Page!None
  <2> QED
    BY <1>2, <2>1, <2>2, NoMenuIs DEF PageInv, PageTypes, Page!None
<1> QED
  BY <1>3, <1>4, <1>5, <1>6

\* A level is chosen, for the rows that are selected now.
LEMMA ChoosePriorityStep ==
    ASSUME ContentAssumption, PageInv, NEW level \in Offered, Page!ChoosePriority(level)
    PROVE  PageInv' /\ AsksOfMenu
<1> DEFINE fs == Page!Collected(selected)
           c == [op |-> "priority", task |-> taskId, files |-> fs, level |-> level]
<1>1. /\ pageSession \in Sessions /\ jobs \in Seq(Job) /\ pageCmds \in Seq(PageCmds)
      /\ asked \in [Tasks -> [Files -> Page!Levels]] /\ Agrees(pageSession, pageCmds, 0, asked)
      /\ taskId \in Tasks \cup {Page!None} /\ selected \in SUBSET Page!Nodes
      /\ itemMenu.is = "menu" /\ itemMenu.task \in Tasks
  BY DEF PageInv, PageTypes, Page!ChoosePriority
<1>2. taskId' = taskId /\ itemMenu' = Page!NoMenu
  BY DEF Page!ChoosePriority
<1>3. MenuRight' /\ itemMenu' \in Menus /\ itemMenu'.is = Page!None
  BY <1>2, NoMenuIs DEF MenuRight, Page!None
<1>4. CASE fs = {}
  <2>1. UNCHANGED <<pageSession, jobs, pageCmds, tree, selected, asked>>
    BY <1>4 DEF Page!ChoosePriority
  <2>2. PageTypes'
    BY <1>2, <1>3, <2>1 DEF PageInv, PageTypes, Page!None
  <2>3. Agrees(pageSession, pageCmds, 0, asked)' /\ (TreeRight /\ Page!RowsOfTask)'
    BY <1>2, <2>1 DEF PageInv, TreeRight, Page!RowsOfTask
  <2> QED
    BY <1>3, <2>1, <2>2, <2>3 DEF PageInv, AsksOfMenu
<1>5. CASE fs # {}
  <2>1. fs \in SUBSET Files /\ taskId = itemMenu.task /\ itemMenu.picked = fs /\ taskId \in Tasks
    BY <1>1, <1>5, CollectedIs DEF PageInv, MenuRight
  <2>2. /\ Page!ReloadTree(taskId, Append(pageCmds, c))
        /\ asked' = [asked EXCEPT ![taskId] =
                        [f \in Files |-> IF f \in fs THEN level ELSE @[f]]]
    BY <1>5 DEF Page!ChoosePriority
  <2> HIDE DEF fs
  <2>3. c \in PageCmds /\ level \in Page!Levels
    BY <2>1 DEF PageCmds, ContentAssumption
  <2>4. \A t, f : Sets(c, t, f) <=> t = taskId /\ f \in fs
    BY DEF Sets
  <2>5. c.level = level
    OBVIOUS
  <2> HIDE DEF c
  <2>6. asked' \in [Tasks -> [Files -> Page!Levels]]
    BY <1>1, <2>1, <2>2, <2>3
  <2>7. \A t \in Tasks, f \in Files :
          asked'[t][f] = IF Sets(c, t, f) THEN c.level ELSE asked[t][f]
    BY <1>1, <2>1, <2>2, <2>4, <2>5
  <2>8. Agrees(pageSession, Append(pageCmds, c), 0, asked')
    BY <1>1, <2>3, <2>7, AppendAgrees
  <2>9. Append(pageCmds, c) \in Seq(PageCmds)
    BY <1>1, <2>3
  <2>10. /\ pageSession' \in Sessions /\ jobs' \in Seq(Job) /\ pageCmds' \in Seq(PageCmds)
         /\ tree' \in Trees /\ selected' = {} /\ Agrees(pageSession', pageCmds', 0, asked')
         /\ tree'.task \in {taskId, Page!None}
         /\ tree'.task # Page!None =>
              \A f \in Files : tree'.rows[f].level = "skip" <=> asked'[tree'.task][f] = "skip"
    BY <1>1, <2>2, <2>6, <2>8, <2>9, ReloadIs
  <2>11. PageTypes'
    BY <1>1, <1>2, <1>3, <2>6, <2>10 DEF PageTypes, Page!None
  <2>12. Agrees(pageSession, pageCmds, 0, asked)' /\ (TreeRight /\ Page!RowsOfTask)'
    BY <1>2, <2>10 DEF TreeRight, Page!RowsOfTask
  <2>13. AsksOfMenu
    BY <2>1, <2>4, <2>7 DEF AsksOfMenu
  <2> QED
    BY <1>3, <2>11, <2>12, <2>13 DEF PageInv
<1> QED
  BY <1>4, <1>5

\* A new name.
LEMMA AcceptRenameStep ==
    ASSUME ContentAssumption, PageInv, NEW name \in Folders, Page!AcceptRename(name)
    PROVE  PageInv' /\ asked' = asked
<1> DEFINE c == [op |-> "rename", task |-> taskId, path |-> itemMenu.path, name |-> name]
<1>1. /\ pageCmds \in Seq(PageCmds) /\ Agrees(pageSession, pageCmds, 0, asked) /\ tree \in Trees
      /\ taskId \in Tasks \cup {Page!None} /\ itemMenu.path \in Paths /\ itemMenu.is = "rename"
  BY DEF PageInv, PageTypes, Page!AcceptRename
<1>2. /\ pageCmds' = Append(pageCmds, c) /\ itemMenu' = Page!NoMenu
      /\ UNCHANGED <<pageSession, jobs, taskId, selected, asked>>
  BY DEF Page!AcceptRename
<1>3. c \in PageCmds
  BY <1>1 DEF PageCmds
<1>4. \A t, f : ~Sets(c, t, f)
  BY DEF Sets
<1> HIDE DEF c
<1>5. Agrees(pageSession, Append(pageCmds, c), 0, asked)
  BY <1>1, <1>3, <1>4, AppendAgrees
<1>6. Append(pageCmds, c) \in Seq(PageCmds)
  BY <1>1, <1>3
<1>7. /\ tree' \in Trees /\ tree'.task = tree.task
      /\ tree.task # Page!None => \A f \in Files : tree'.rows[f].level = tree.rows[f].level
  <2>1. CASE itemMenu.stale
    <3>1. tree' = tree
      BY <2>1 DEF Page!AcceptRename
    <3> QED
      BY <1>1, <3>1
  <2>2. CASE ~itemMenu.stale
    <3>1. tree.task # Page!None
      BY <1>1, <2>2 DEF PageInv, MenuRight, Page!None
    <3>2. tree \in [task : Tasks, rows : PageRows]
      BY <1>1, <3>1 DEF Trees, Page!EmptyTree
    <3> DEFINE new == [f \in Files |->
                          IF tree.rows[f].folder = itemMenu.path
                          THEN [tree.rows[f] EXCEPT !.folder = name] ELSE tree.rows[f]]
    <3>3. tree' = [tree EXCEPT !.rows = new]
      BY <2>2 DEF Page!AcceptRename
    <3>4. new \in PageRows /\ \A f \in Files : new[f].level = tree.rows[f].level
      <4>1. ASSUME NEW f \in Files
            PROVE  /\ new[f] \in [folder : Paths, level : Page!Levels]
                   /\ new[f].level = tree.rows[f].level
        <5>1. tree.rows[f] \in [folder : Paths, level : Page!Levels] /\ name \in Paths
          BY <3>2 DEF PageRows, Paths
        <5> QED
          BY <5>1
      <4> QED
        BY <4>1 DEF PageRows
    <3> HIDE DEF new
    <3>5. tree' \in [task : Tasks, rows : PageRows] /\ tree'.task = tree.task /\ tree'.rows = new
      BY <3>2, <3>3, <3>4
    <3> QED
      BY <3>4, <3>5 DEF Trees
  <2> QED
    BY <2>1, <2>2
<1>8. PageTypes'
  BY <1>2, <1>6, <1>7, NoMenuIs DEF PageInv, PageTypes, Page!None
<1>9. Agrees(pageSession, pageCmds, 0, asked)'
  BY <1>2, <1>5
<1>10. (TreeRight /\ Page!RowsOfTask)'
  BY <1>2, <1>7 DEF PageInv, TreeRight, Page!RowsOfTask
<1>11. MenuRight'
  BY <1>2, NoMenuIs DEF MenuRight, Page!None
<1> QED
  BY <1>2, <1>8, <1>9, <1>10, <1>11 DEF PageInv

\* Every step keeps the invariant, and asks where the menu is.
LEMMA PageNext ==
    ASSUME ContentAssumption, PageInv, [Page!Next]_Page!vars
    PROVE  PageInv' /\ AsksOfMenu
<1>1. CASE UNCHANGED Page!vars
  BY <1>1 DEF Page!vars, PageInv, PageTypes, TreeRight, MenuRight, Page!RowsOfTask, AsksOfMenu
<1>2. CASE \/ Page!HandleCmd \/ Page!JobDone
           \/ \E t \in Tasks \cup {Page!None} : Page!SetSnapshot(t)
           \/ \E ns \in SUBSET Page!Nodes : Page!Select(ns)
           \/ \E n \in Page!Nodes : Page!ShowContextMenu(n)
           \/ Page!ChooseRename \/ Page!CloseMenu
           \/ \E name \in Folders : Page!AcceptRename(name)
  BY <1>2, HandleCmdStep, JobDoneStep, SetSnapshotStep, LookStep, AcceptRenameStep
     DEF AsksOfMenu
<1>3. CASE \E level \in Offered : Page!ChoosePriority(level)
  BY <1>3, ChoosePriorityStep
<1> QED
  BY <1>1, <1>2, <1>3 DEF Page!Next

\* At the start every file is loaded, and nothing was asked.
LEMMA PageInit ==
    ASSUME ContentAssumption, Page!Init PROVE PageInv
<1>1. "normal" \in Page!Levels /\ Page!ToLt("normal") # 0
  BY DEF Page!Levels, Page!ToLt
<1>2. Page!ToLt("normal") \in Prios
  BY <1>1, LevelsAre
<1>3. pageSession \in Sessions
  BY <1>2 DEF Page!Init, Sessions, Paths
<1>4. PageTypes
  BY <1>1, <1>3, NoMenuIs DEF Page!Init, PageTypes, Trees, Page!None
<1>5. Agrees(pageSession, pageCmds, 0, asked)
  BY <1>1 DEF Page!Init, Agrees, NoneSets, HasAsked
<1>6. TreeRight /\ MenuRight /\ Page!RowsOfTask
  BY NoMenuIs DEF Page!Init, TreeRight, MenuRight, Page!RowsOfTask, Page!EmptyTree, Page!None
<1> QED
  BY <1>4, <1>5, <1>6 DEF PageInv

\* The types that TLC checks.
THEOREM PageTypesHold ==
    ASSUME ContentAssumption
    PROVE  Page!Spec => []Page!TypeOK
<1>1. PageInv /\ [Page!Next]_Page!vars => PageInv'
  BY PageNext
<1>2. Page!Init => PageInv
  BY PageInit
<1>3. ASSUME PageInv PROVE Page!TypeOK
  <2>1. \A t \in Tasks : pageSession[t].prio \in [Files -> {Page!ToLt(l) : l \in Page!Levels}]
    BY <1>3 DEF PageInv, PageTypes, Sessions, Prios
  <2>2. /\ tree.task \in Tasks \cup {Page!None}
        /\ \A f \in DOMAIN tree.rows : tree.rows[f].level \in Page!Levels
    BY <1>3 DEF PageInv, PageTypes, Trees, Page!EmptyTree, PageRows
  <2>3. \A i \in DOMAIN pageCmds : pageCmds[i].op = "priority" => pageCmds[i].files \subseteq Files
    <3>1. \A i \in DOMAIN pageCmds : pageCmds[i] \in PageCmds
      BY <1>3 DEF PageInv, PageTypes
    <3> QED
      BY <3>1 DEF PageCmds
  <2> QED
    BY <1>3, <2>1, <2>2, <2>3 DEF Page!TypeOK, PageInv, PageTypes
<1>4. PageInv => Page!TypeOK
  BY <1>3
<1> QED
  BY <1>1, <1>2, <1>4, PTL DEF Page!Spec

\* The page shows the files of its task and, once the worker is through, what was asked
\* for each of them.
THEOREM FilesAreShown ==
    ASSUME ContentAssumption
    PROVE  Page!Spec => [](Page!RowsOfTask /\ Page!ShownAsAsked)
<1>1. PageInv /\ [Page!Next]_Page!vars => PageInv'
  BY PageNext
<1>2. Page!Init => PageInv
  BY PageInit
<1>3. PageInv => Page!RowsOfTask /\ Page!ShownAsAsked
  BY DEF PageInv, TreeRight, Page!ShownAsAsked
<1> QED
  BY <1>1, <1>2, <1>3, PTL DEF Page!Spec

\* A level is asked for files that were selected when the menu was opened, of its task,
\* whatever was refreshed under it.
THEOREM PriorityIsOfMenu ==
    ASSUME ContentAssumption
    PROVE  Page!Spec => Page!PriorityWhereSelected
<1> DEFINE A ==
      asked' # asked =>
          \A t \in Tasks, f \in Files :
              asked'[t][f] # asked[t][f] => t = itemMenu.task /\ f \in itemMenu.picked
<1>1. PageInv /\ [Page!Next]_Page!vars => PageInv'
  BY PageNext
<1>2. PageInv /\ [Page!Next]_Page!vars => [A]_Page!vars
  BY PageNext DEF AsksOfMenu
<1>3. Page!Init => PageInv
  BY PageInit
<1> QED
  BY <1>1, <1>2, <1>3, PTL DEF Page!Spec, Page!PriorityWhereSelected

-----------------------------------------------------------------------------
(* The page of a task's trackers, module TrackerPage: for any tasks, any   *)
(* finite set of URLs and any number of steps of the user and answers that *)
(* are waited for in vain.  Its formulas are prefixed with List.           *)

CONSTANTS Urls, MaxTimeouts
VARIABLES lists, contacted, edits, listTask, urlRows, expanded, visible, ticking, tick,
          asking, pageOps, timeouts
List == INSTANCE TrackerPage WITH
    session <- lists, cmds <- edits, dialog <- asking, taskId <- listTask,
    rows <- urlRows, ops <- pageOps

(* Lists of URLs.                                                           *)

\* The lists that Without goes through: the URLs are looked at one by one.
WithoutPath(h, s, V, K) ==
    /\ h \in [0 .. Len(s) -> Seq(V)] /\ h[0] = <<>> /\ h[Len(s)] = List!Without(s, K)
    /\ \A i \in 1 .. Len(s) :
         h[i] = IF s[i] \in K THEN h[i - 1] ELSE Append(h[i - 1], s[i])

\* Without goes through such lists.
LEMMA WithoutSteps ==
    ASSUME NEW V, NEW s \in Seq(V), NEW K
    PROVE  \E h : WithoutPath(h, s, V, K)
<1> DEFINE n == Len(s)
           S == Seq(V)
           O(k, u) == IF u \in K THEN k ELSE Append(k, u)
           G == [i \in 1 .. n |-> [x \in S |-> O(x, s[i])]]
           Eq(f) == f = [r \in SUBSET (1 .. n) |->
                          IF r = {} THEN <<>> ELSE O(f[r \ {Max(r)}], s[Max(r)])]
           g == CHOOSE f : Eq(f)
<1>0. n \in Nat /\ DOMAIN s = 1 .. n /\ \A i \in 1 .. n : s[i] \in V
  OBVIOUS
<1>1. List!Without(s, K) = g[1 .. n]
  BY <1>0 DEF List!Without, List!FoldLeft, List!MapThenFoldSet, Max, List!Max
<1>2. G \in [1 .. n -> [S -> S]] /\ <<>> \in S
  BY <1>0
<1>3. \A i \in 1 .. n : \A x \in S : G[i][x] = O(x, s[i])
  OBVIOUS
<1> HIDE DEF G, O, S, n
<1>4. PICK e \in [SUBSET (1 .. n) -> S] : Folds(e, <<>>, G, n)
  BY <1>0, <1>2, FoldExists
<1>5. Eq(e)
  <2>1. ASSUME NEW r \in SUBSET (1 .. n), r # {}
        PROVE  G[Max(r)][e[r \ {Max(r)}]] = O(e[r \ {Max(r)}], s[Max(r)])
    <3>1. Max(r) \in 1 .. n /\ e[r \ {Max(r)}] \in S
      BY <1>0, <2>1, MaxInside
    <3> QED
      BY <1>3, <3>1
  <2> QED
    BY <1>4, <2>1 DEF Folds
<1>6. Eq(g)
  BY <1>5
<1>7. g[{}] = <<>>
  BY <1>6
<1>8. ASSUME NEW r \in SUBSET (1 .. n), r # {}, g[r \ {Max(r)}] \in S
      PROVE  g[r] = G[Max(r)][g[r \ {Max(r)}]]
  <2>1. g[r] = O(g[r \ {Max(r)}], s[Max(r)])
    BY <1>6, <1>8
  <2>2. Max(r) \in 1 .. n
    BY <1>0, <1>8, MaxInside
  <2> HIDE DEF g
  <2> QED
    BY <1>3, <1>8, <2>1, <2>2
<1> HIDE DEF g, Eq
<1>9. FoldRule(g, <<>>, G, n, S)
  BY <1>7, <1>8 DEF FoldRule
<1>10. PICK h \in [0 .. n -> S] : FoldPath(h, g, <<>>, G, n)
  BY <1>0, <1>2, <1>9, FoldSteps
<1>11. \A i \in 1 .. n : h[i] = O(h[i - 1], s[i])
  <2>1. \A i \in 1 .. n : h[i - 1] \in S
    BY <1>0
  <2> QED
    BY <1>3, <1>10, <2>1 DEF FoldPath
<1>12. WithoutPath(h, s, V, K)
  BY <1>1, <1>10, <1>11 DEF S, O, n, FoldPath, WithoutPath
<1> QED
  BY <1>12

\* One URL more.
LEMMA WithoutAppend ==
    ASSUME NEW V, NEW s \in Seq(V), NEW u \in V, NEW K
    PROVE  /\ List!Without(s, K) \in Seq(V)
           /\ u \in K => List!Without(Append(s, u), K) = List!Without(s, K)
           /\ u \notin K => List!Without(Append(s, u), K) = Append(List!Without(s, K), u)
<1> DEFINE n == Len(s)
           p == Append(s, u)
<1>1. n \in Nat /\ p \in Seq(V) /\ Len(p) = n + 1 /\ p[n + 1] = u
      /\ \A i \in 1 .. n : p[i] = s[i]
  OBVIOUS
<1> HIDE DEF p
<1>2. PICK h : WithoutPath(h, s, V, K)
  BY WithoutSteps
<1>3. PICK k : WithoutPath(k, p, V, K)
  BY <1>1, WithoutSteps
<1>4. /\ h \in [0 .. n -> Seq(V)] /\ h[0] = <<>> /\ h[n] = List!Without(s, K)
      /\ \A i \in 1 .. n :
           h[i] = IF s[i] \in K THEN h[i - 1] ELSE Append(h[i - 1], s[i])
  BY <1>2 DEF WithoutPath
<1>5. /\ k \in [0 .. n + 1 -> Seq(V)] /\ k[0] = <<>> /\ k[n + 1] = List!Without(p, K)
      /\ \A i \in 1 .. n + 1 :
           k[i] = IF p[i] \in K THEN k[i - 1] ELSE Append(k[i - 1], p[i])
  BY <1>1, <1>3 DEF WithoutPath
<1> HIDE DEF n
<1> DEFINE T == {i \in Nat : i <= n => k[i] = h[i]}
<1>6. 0 \in T
  BY <1>4, <1>5
<1>7. \A i \in Nat : i \in T => i + 1 \in T
  <2> SUFFICES ASSUME NEW i \in Nat, i \in T, i + 1 <= n PROVE k[i + 1] = h[i + 1]
    OBVIOUS
  <2>1. i + 1 \in 1 .. n /\ i + 1 \in 1 .. n + 1 /\ (i + 1) - 1 = i /\ k[i] = h[i]
    BY <1>1
  <2>2. h[i + 1] = IF s[i + 1] \in K THEN h[i] ELSE Append(h[i], s[i + 1])
    BY <1>4, <2>1
  <2>3. k[i + 1] = IF p[i + 1] \in K THEN k[i] ELSE Append(k[i], p[i + 1])
    BY <1>5, <2>1
  <2> QED
    BY <1>1, <2>1, <2>2, <2>3
<1> HIDE DEF T
<1>8. \A i \in Nat : i \in T
  BY <1>6, <1>7, SetInduction
<1>9. k[n] = h[n] /\ n + 1 \in 1 .. n + 1 /\ (n + 1) - 1 = n /\ n \in 0 .. n
  BY <1>1, <1>8 DEF T
<1>10. k[n + 1] = IF u \in K THEN k[n] ELSE Append(k[n], u)
  BY <1>1, <1>5, <1>9
<1>11. List!Without(p, K) = IF u \in K THEN h[n] ELSE Append(h[n], u)
  BY <1>5, <1>9, <1>10
<1>12. h[n] \in Seq(V)
  BY <1>4, <1>9
<1> QED
  BY <1>4, <1>11, <1>12 DEF p

\* Nothing is left of nothing.
LEMMA WithoutEmpty ==
    ASSUME NEW K PROVE List!Without(<<>>, K) = <<>>
<1>1. <<>> \in Seq({}) /\ Len(<<>>) = 0
  OBVIOUS
<1>2. PICK h : WithoutPath(h, <<>>, {}, K)
  BY <1>1, WithoutSteps
<1> QED
  BY <1>1, <1>2 DEF WithoutPath

\* The same for Distinct.
DistinctPath(h, s, V) ==
    /\ h \in [0 .. Len(s) -> Seq(V)] /\ h[0] = <<>> /\ h[Len(s)] = List!Distinct(s)
    /\ \A i \in 1 .. Len(s) :
         h[i] = IF s[i] \in List!ToSet(h[i - 1]) THEN h[i - 1] ELSE Append(h[i - 1], s[i])

\* Distinct goes through such lists.
LEMMA DistinctSteps ==
    ASSUME NEW V, NEW s \in Seq(V)
    PROVE  \E h : DistinctPath(h, s, V)
<1> DEFINE n == Len(s)
           S == Seq(V)
           O(k, u) == IF u \in List!ToSet(k) THEN k ELSE Append(k, u)
           G == [i \in 1 .. n |-> [x \in S |-> O(x, s[i])]]
           Eq(f) == f = [r \in SUBSET (1 .. n) |->
                          IF r = {} THEN <<>> ELSE O(f[r \ {Max(r)}], s[Max(r)])]
           g == CHOOSE f : Eq(f)
<1>0. n \in Nat /\ DOMAIN s = 1 .. n /\ \A i \in 1 .. n : s[i] \in V
  OBVIOUS
<1>1. List!Distinct(s) = g[1 .. n]
  BY <1>0 DEF List!Distinct, List!FoldLeft, List!MapThenFoldSet, Max, List!Max
<1>2. G \in [1 .. n -> [S -> S]] /\ <<>> \in S
  BY <1>0
<1>3. \A i \in 1 .. n : \A x \in S : G[i][x] = O(x, s[i])
  OBVIOUS
<1> HIDE DEF G, O, S, n
<1>4. PICK e \in [SUBSET (1 .. n) -> S] : Folds(e, <<>>, G, n)
  BY <1>0, <1>2, FoldExists
<1>5. Eq(e)
  <2>1. ASSUME NEW r \in SUBSET (1 .. n), r # {}
        PROVE  G[Max(r)][e[r \ {Max(r)}]] = O(e[r \ {Max(r)}], s[Max(r)])
    <3>1. Max(r) \in 1 .. n /\ e[r \ {Max(r)}] \in S
      BY <1>0, <2>1, MaxInside
    <3> QED
      BY <1>3, <3>1
  <2> QED
    BY <1>4, <2>1 DEF Folds
<1>6. Eq(g)
  BY <1>5
<1>7. g[{}] = <<>>
  BY <1>6
<1>8. ASSUME NEW r \in SUBSET (1 .. n), r # {}, g[r \ {Max(r)}] \in S
      PROVE  g[r] = G[Max(r)][g[r \ {Max(r)}]]
  <2>1. g[r] = O(g[r \ {Max(r)}], s[Max(r)])
    BY <1>6, <1>8
  <2>2. Max(r) \in 1 .. n
    BY <1>0, <1>8, MaxInside
  <2> HIDE DEF g
  <2> QED
    BY <1>3, <1>8, <2>1, <2>2
<1> HIDE DEF g, Eq
<1>9. FoldRule(g, <<>>, G, n, S)
  BY <1>7, <1>8 DEF FoldRule
<1>10. PICK h \in [0 .. n -> S] : FoldPath(h, g, <<>>, G, n)
  BY <1>0, <1>2, <1>9, FoldSteps
<1>11. \A i \in 1 .. n : h[i] = O(h[i - 1], s[i])
  <2>1. \A i \in 1 .. n : h[i - 1] \in S
    BY <1>0
  <2> QED
    BY <1>3, <1>10, <2>1 DEF FoldPath
<1>12. DistinctPath(h, s, V)
  BY <1>1, <1>10, <1>11 DEF S, O, n, FoldPath, DistinctPath
<1> QED
  BY <1>12

\* One URL more.
LEMMA DistinctAppend ==
    ASSUME NEW V, NEW s \in Seq(V), NEW u \in V
    PROVE  /\ List!Distinct(s) \in Seq(V)
           /\ List!Distinct(Append(s, u)) =
                IF u \in List!ToSet(List!Distinct(s)) THEN List!Distinct(s)
                ELSE Append(List!Distinct(s), u)
<1> DEFINE n == Len(s)
           p == Append(s, u)
<1>1. n \in Nat /\ p \in Seq(V) /\ Len(p) = n + 1 /\ p[n + 1] = u
      /\ \A i \in 1 .. n : p[i] = s[i]
  OBVIOUS
<1> HIDE DEF p
<1>2. PICK h : DistinctPath(h, s, V)
  BY DistinctSteps
<1>3. PICK k : DistinctPath(k, p, V)
  BY <1>1, DistinctSteps
<1>4. /\ h \in [0 .. n -> Seq(V)] /\ h[0] = <<>> /\ h[n] = List!Distinct(s)
      /\ \A i \in 1 .. n :
           h[i] = IF s[i] \in List!ToSet(h[i - 1]) THEN h[i - 1] ELSE Append(h[i - 1], s[i])
  BY <1>2 DEF DistinctPath
<1>5. /\ k \in [0 .. n + 1 -> Seq(V)] /\ k[0] = <<>> /\ k[n + 1] = List!Distinct(p)
      /\ \A i \in 1 .. n + 1 :
           k[i] = IF p[i] \in List!ToSet(k[i - 1]) THEN k[i - 1] ELSE Append(k[i - 1], p[i])
  BY <1>1, <1>3 DEF DistinctPath
<1> HIDE DEF n
<1> DEFINE T == {i \in Nat : i <= n => k[i] = h[i]}
<1>6. 0 \in T
  BY <1>4, <1>5
<1>7. \A i \in Nat : i \in T => i + 1 \in T
  <2> SUFFICES ASSUME NEW i \in Nat, i \in T, i + 1 <= n PROVE k[i + 1] = h[i + 1]
    OBVIOUS
  <2>1. i + 1 \in 1 .. n /\ i + 1 \in 1 .. n + 1 /\ (i + 1) - 1 = i /\ k[i] = h[i]
    BY <1>1
  <2>2. h[i + 1] = IF s[i + 1] \in List!ToSet(h[i]) THEN h[i] ELSE Append(h[i], s[i + 1])
    BY <1>4, <2>1
  <2>3. k[i + 1] = IF p[i + 1] \in List!ToSet(k[i]) THEN k[i] ELSE Append(k[i], p[i + 1])
    BY <1>5, <2>1
  <2> QED
    BY <1>1, <2>1, <2>2, <2>3
<1> HIDE DEF T
<1>8. \A i \in Nat : i \in T
  BY <1>6, <1>7, SetInduction
<1>9. k[n] = h[n] /\ n + 1 \in 1 .. n + 1 /\ (n + 1) - 1 = n /\ n \in 0 .. n
  BY <1>1, <1>8 DEF T
<1>10. k[n + 1] = IF u \in List!ToSet(k[n]) THEN k[n] ELSE Append(k[n], u)
  BY <1>1, <1>5, <1>9
<1>11. List!Distinct(p) = IF u \in List!ToSet(h[n]) THEN h[n] ELSE Append(h[n], u)
  BY <1>5, <1>9, <1>10
<1>12. h[n] \in Seq(V)
  BY <1>4, <1>9
<1> QED
  BY <1>4, <1>11, <1>12 DEF p

\* Nothing is left of nothing.
LEMMA DistinctEmpty ==
    List!Distinct(<<>>) = <<>>
<1>1. <<>> \in Seq({}) /\ Len(<<>>) = 0
  OBVIOUS
<1>2. PICK h : DistinctPath(h, <<>>, {})
  BY <1>1, DistinctSteps
<1> QED
  BY <1>1, <1>2 DEF DistinctPath

\* What holds of the empty list, and of one URL more, holds of every list.
LEMMA ListInduction ==
    ASSUME NEW V, NEW T, <<>> \in T,
           \A s \in Seq(V), u \in V : s \in T => Append(s, u) \in T
    PROVE  Seq(V) \subseteq T
<1> DEFINE D == {n \in Nat : \A s \in Seq(V) : Len(s) = n => s \in T}
<1>1. 0 \in D
  OBVIOUS
<1>2. ASSUME NEW n \in Nat, n \in D PROVE n + 1 \in D
  <2> SUFFICES ASSUME NEW s \in Seq(V), Len(s) = n + 1 PROVE s \in T
    OBVIOUS
  <2> DEFINE f == [i \in 1 .. n |-> s[i]]
  <2>1. f \in Seq(V) /\ Len(f) = n /\ s[n + 1] \in V
    OBVIOUS
  <2>2. Append(f, s[n + 1]) = s
    OBVIOUS
  <2>3. f \in T
    BY <1>2, <2>1
  <2> HIDE DEF f
  <2> QED
    BY <2>1, <2>2, <2>3
<1> HIDE DEF D
<1>3. \A n \in Nat : n \in D
  BY <1>1, <1>2, SetInduction
<1> QED
  BY <1>3 DEF D

\* No URL is in a list twice, but for those of N.
Single(s, K) == \A i, j \in DOMAIN s : s[i] = s[j] /\ s[i] \notin K => i = j

\* One URL more in a list.
LEMMA MoreIs ==
    ASSUME NEW V, NEW s \in Seq(V), NEW u \in V
    PROVE  /\ Append(s, u) \in Seq(V) /\ List!ToSet(Append(s, u)) = List!ToSet(s) \cup {u}
           /\ \A K : Single(Append(s, u), K) <=>
                      Single(s, K) /\ (u \in List!ToSet(s) => u \in K)
<1> DEFINE n == Len(s)
           p == Append(s, u)
<1>1. /\ n \in Nat /\ p \in Seq(V) /\ DOMAIN s = 1 .. n /\ DOMAIN p = 1 .. n + 1
      /\ p[n + 1] = u /\ \A i \in 1 .. n : p[i] = s[i]
  OBVIOUS
<1> HIDE DEF n, p
<1>2. List!ToSet(p) = List!ToSet(s) \cup {u}
  BY <1>1 DEF List!ToSet
<1>3. ASSUME NEW K, Single(s, K), u \in List!ToSet(s) => u \in K PROVE Single(p, K)
  <2> SUFFICES ASSUME NEW i \in 1 .. n + 1, NEW j \in 1 .. n + 1, p[i] = p[j], p[i] \notin K
               PROVE  i = j
    BY <1>1 DEF Single
  <2>1. CASE i \in 1 .. n /\ j \in 1 .. n
    BY <1>1, <1>3, <2>1 DEF Single
  <2>2. CASE i = n + 1 /\ j \in 1 .. n
    BY <1>1, <1>3, <2>2 DEF List!ToSet
  <2>3. CASE j = n + 1 /\ i \in 1 .. n
    BY <1>1, <1>3, <2>3 DEF List!ToSet
  <2> QED
    BY <1>1, <2>1, <2>2, <2>3
<1>4. ASSUME NEW K, Single(p, K) PROVE Single(s, K) /\ (u \in List!ToSet(s) => u \in K)
  <2>1. Single(s, K)
    BY <1>1, <1>4 DEF Single
  <2>2. ASSUME u \in List!ToSet(s), u \notin K PROVE FALSE
    <3>1. PICK i \in 1 .. n : s[i] = u
      BY <1>1, <2>2 DEF List!ToSet
    <3>2. i \in 1 .. n + 1 /\ n + 1 \in 1 .. n + 1 /\ i # n + 1
      BY <1>1
    <3> QED
      BY <1>1, <1>4, <2>2, <3>1, <3>2 DEF Single
  <2> QED
    BY <2>1, <2>2
<1> QED
  BY <1>1, <1>2, <1>3, <1>4 DEF p

\* The same for every set of URLs and every list.
LEMMA WithoutMore ==
    ASSUME NEW V
    PROVE  \A G, r, u : r \in Seq(V) /\ u \in V =>
             /\ List!Without(r, G) \in Seq(V)
             /\ List!Without(Append(r, u), G) =
                  IF u \in G THEN List!Without(r, G) ELSE Append(List!Without(r, G), u)
<1>1. ASSUME NEW G, NEW r \in Seq(V), NEW u \in V
      PROVE  /\ List!Without(r, G) \in Seq(V)
             /\ List!Without(Append(r, u), G) =
                  IF u \in G THEN List!Without(r, G) ELSE Append(List!Without(r, G), u)
  <2>1. /\ List!Without(r, G) \in Seq(V)
        /\ u \in G => List!Without(Append(r, u), G) = List!Without(r, G)
        /\ u \notin G => List!Without(Append(r, u), G) = Append(List!Without(r, G), u)
    BY WithoutAppend
  <2>2. QED
    BY <2>1
<1>2. QED
  BY <1>1

\* A list without some URLs has the others, each as often as before; of what stays,
\* nothing more goes if it stays anyway.
LEMMA WithoutKeeps ==
    ASSUME NEW V, NEW M, NEW s \in Seq(V)
    PROVE  /\ List!Without(s, M) \in Seq(V)
           /\ List!ToSet(List!Without(s, M)) = List!ToSet(s) \ M
           /\ Single(s, {}) => Single(List!Without(s, M), {})
           /\ \A K : M \subseteq K => List!Without(List!Without(s, M), K) = List!Without(s, K)
<1>0. \A G, r, u : r \in Seq(V) /\ u \in V =>
        /\ List!Without(r, G) \in Seq(V)
        /\ List!Without(Append(r, u), G) =
             IF u \in G THEN List!Without(r, G) ELSE Append(List!Without(r, G), u)
  BY WithoutMore
<1> DEFINE W(r) == List!Without(r, M)
           T == {r \in Seq(V) : /\ W(r) \in Seq(V) /\ List!ToSet(W(r)) = List!ToSet(r) \ M
                                /\ Single(r, {}) => Single(W(r), {})}
<1>1. <<>> \in T
  <2>1. W(<<>>) = <<>> /\ <<>> \in Seq(V)
    BY WithoutEmpty
  <2>2. List!ToSet(<<>>) = {} /\ Single(<<>>, {})
    BY DEF List!ToSet, Single
  <2> HIDE DEF W
  <2> QED
    BY <2>1, <2>2
<1>2. ASSUME NEW r \in Seq(V), NEW u \in V, r \in T PROVE Append(r, u) \in T
  <2>1. W(r) \in Seq(V) /\ W(Append(r, u)) = IF u \in M THEN W(r) ELSE Append(W(r), u)
    BY <1>0
  <2>2. List!ToSet(W(r)) = List!ToSet(r) \ M /\ (Single(r, {}) => Single(W(r), {}))
    BY <1>2
  <2>3. /\ Append(r, u) \in Seq(V) /\ List!ToSet(Append(r, u)) = List!ToSet(r) \cup {u}
        /\ Single(Append(r, u), {}) => Single(r, {}) /\ u \notin List!ToSet(r)
    BY MoreIs
  <2> HIDE DEF W
  <2>4. CASE u \in M
    BY <2>1, <2>2, <2>3, <2>4
  <2>5. CASE u \notin M
    <3>1. /\ Append(W(r), u) \in Seq(V)
          /\ List!ToSet(Append(W(r), u)) = List!ToSet(W(r)) \cup {u}
          /\ Single(W(r), {}) /\ u \notin List!ToSet(W(r)) => Single(Append(W(r), u), {})
      BY <2>1, MoreIs
    <3> QED
      BY <2>1, <2>2, <2>3, <2>5, <3>1
  <2> QED
    BY <2>4, <2>5
<1>3. s \in T
  <2> HIDE DEF T
  <2> QED
    BY <1>1, <1>2, ListInduction
<1>4. ASSUME NEW K, M \subseteq K
      PROVE  List!Without(List!Without(s, M), K) = List!Without(s, K)
  <2> DEFINE U == {r \in Seq(V) : List!Without(List!Without(r, M), K) = List!Without(r, K)}
  <2>1. <<>> \in U
    BY WithoutEmpty
  <2>2. ASSUME NEW r \in Seq(V), NEW u \in V, r \in U PROVE Append(r, u) \in U
    <3>1. /\ List!Without(r, M) \in Seq(V)
          /\ List!Without(Append(r, u), M) =
               IF u \in M THEN List!Without(r, M) ELSE Append(List!Without(r, M), u)
      BY <1>0
    <3>2. List!Without(Append(r, u), K) =
            IF u \in K THEN List!Without(r, K) ELSE Append(List!Without(r, K), u)
      BY <1>0
    <3>3. List!Without(Append(List!Without(r, M), u), K) =
            IF u \in K THEN List!Without(List!Without(r, M), K)
            ELSE Append(List!Without(List!Without(r, M), K), u)
      BY <1>0, <3>1
    <3>4. Append(r, u) \in Seq(V) /\ (u \in M => u \in K)
      BY <1>4
    <3> QED
      BY <2>2, <3>1, <3>2, <3>3, <3>4
  <2> HIDE DEF U
  <2>3. s \in U
    BY <2>1, <2>2, ListInduction
  <2> QED
    BY <2>3 DEF U
<1> QED
  BY <1>3, <1>4

\* Of a list in which only URLs of N are repeated, the same is left without those of N
\* when the repeated ones are dropped.
LEMMA DistinctIs ==
    ASSUME NEW V, NEW s \in Seq(V)
    PROVE  /\ List!Distinct(s) \in Seq(V) /\ Single(List!Distinct(s), {})
           /\ \A K : Single(s, K) => List!Without(List!Distinct(s), K) = List!Without(s, K)
<1> DEFINE T == {r \in Seq(V) : /\ Single(List!Distinct(r), {})
                                /\ List!ToSet(List!Distinct(r)) = List!ToSet(r)}
<1>1. <<>> \in T
  BY DistinctEmpty DEF List!ToSet, Single
<1>2. ASSUME NEW r \in Seq(V), NEW u \in V, r \in T PROVE Append(r, u) \in T
  <2> DEFINE d == List!Distinct(r)
  <2>1. /\ d \in Seq(V)
        /\ List!Distinct(Append(r, u)) = IF u \in List!ToSet(d) THEN d ELSE Append(d, u)
    BY DistinctAppend
  <2>2. Append(r, u) \in Seq(V) /\ List!ToSet(Append(r, u)) = List!ToSet(r) \cup {u}
    BY MoreIs
  <2>3. Single(d, {}) /\ List!ToSet(d) = List!ToSet(r)
    BY <1>2
  <2> HIDE DEF d
  <2>4. List!ToSet(Append(d, u)) = List!ToSet(d) \cup {u}
        /\ (u \notin List!ToSet(d) => Single(Append(d, u), {}))
    BY <2>1, <2>3, MoreIs
  <2> QED
    BY <2>1, <2>2, <2>3, <2>4
<1>3. \A r \in Seq(V) : r \in T
  <2> HIDE DEF T
  <2> QED
    BY <1>1, <1>2, ListInduction
<1>4. ASSUME NEW K, Single(s, K)
      PROVE  List!Without(List!Distinct(s), K) = List!Without(s, K)
  <2> DEFINE U == {r \in Seq(V) :
                     Single(r, K) => List!Without(List!Distinct(r), K) = List!Without(r, K)}
  <2>1. <<>> \in U
    BY DistinctEmpty, WithoutEmpty
  <2>2. ASSUME NEW r \in Seq(V), NEW u \in V, r \in U PROVE Append(r, u) \in U
    <3> SUFFICES ASSUME Single(Append(r, u), K)
                 PROVE  List!Without(List!Distinct(Append(r, u)), K) = List!Without(Append(r, u), K)
      BY MoreIs
    <3> DEFINE d == List!Distinct(r)
    <3>1. /\ d \in Seq(V)
          /\ List!Distinct(Append(r, u)) = IF u \in List!ToSet(d) THEN d ELSE Append(d, u)
      BY DistinctAppend
    <3>2. List!ToSet(d) = List!ToSet(r)
      BY <1>3
    <3>3. Single(r, K) /\ (u \in List!ToSet(r) => u \in K)
      BY MoreIs
    <3>4. List!Without(d, K) = List!Without(r, K)
      BY <2>2, <3>3
    <3>5. \A y \in Seq(V) : List!Without(Append(y, u), K) =
            IF u \in K THEN List!Without(y, K) ELSE Append(List!Without(y, K), u)
      BY WithoutAppend
    <3>6. List!ToSet(d) = List!ToSet(r) /\ Append(r, u) \in Seq(V)
      BY <3>2
    <3> HIDE DEF d
    <3> QED
      BY <3>1, <3>2, <3>3, <3>4, <3>5, <3>6
  <2> HIDE DEF U
  <2>3. s \in U
    BY <2>1, <2>2, ListInduction
  <2> QED
    BY <1>4, <2>3 DEF U
<1>5. List!Distinct(s) \in Seq(V)
  <2>1. CASE s = <<>>
    BY <2>1, DistinctEmpty
  <2>2. CASE s # <<>>
    <3>1. s[1] \in V
      BY <2>2
    <3> QED
      BY <3>1, DistinctAppend
  <2> QED
    BY <2>1, <2>2
<1> QED
  BY <1>3, <1>4, <1>5

-----------------------------------------------------------------------------
(* A command changes the list of its task; its URLs aside, nothing.        *)

\* What the proofs need to know: there is a URL, and a torrent starts with a list.
TrackerAssumption == IsFiniteSet(Urls) /\ Urls # {}

\* The words that stand in lists and commands, and the commands.
Words == Urls \cup {List!Nothing}
Ops == {"add", "edit", "remove", List!Nothing}
Command == [op : Ops, task : Tasks \cup {List!Nothing}, url : Words, new : Words]

\* The URLs of a command are among some: a removal has none that is new.
Within(c, K) == c.url \in K /\ (c.op # "remove" => c.new \in K)

\* One URL is replaced by another, both of N.
LEMMA ReplacedIs ==
    ASSUME NEW s \in Seq(Words), Single(s, {}), NEW u \in Words, NEW w \in Words
    PROVE  LET e == [i \in DOMAIN s |-> IF s[i] = u THEN w ELSE s[i]]
           IN  /\ e \in Seq(Words)
               /\ \A K : u \in K /\ w \in K =>
                           Single(e, K) /\ List!Without(e, K) = List!Without(s, K)
<1> DEFINE R(r) == [i \in DOMAIN r |-> IF r[i] = u THEN w ELSE r[i]]
<1>1. \A r \in Seq(Words) : R(r) \in Seq(Words)
  OBVIOUS
<1>2. ASSUME NEW K, u \in K, w \in K
      PROVE  Single(R(s), K) /\ List!Without(R(s), K) = List!Without(s, K)
  <2>1. Single(R(s), K)
    BY <1>2 DEF Single
  <2> DEFINE T == {r \in Seq(Words) : List!Without(R(r), K) = List!Without(r, K)}
  <2>2. <<>> \in T
    <3>1. R(<<>>) = <<>>
      OBVIOUS
    <3> QED
      BY <3>1
  <2>3. ASSUME NEW r \in Seq(Words), NEW v \in Words, r \in T PROVE Append(r, v) \in T
    <3> DEFINE x == IF v = u THEN w ELSE v
    <3>0. x \in Words /\ R(r) \in Seq(Words) /\ Append(r, v) \in Seq(Words)
      OBVIOUS
    <3>1. R(Append(r, v)) = Append(R(r), x)
      <4> DEFINE n == Len(r)
                 p == Append(r, v)
      <4>1. /\ n \in Nat /\ DOMAIN r = 1 .. n /\ DOMAIN p = 1 .. n + 1 /\ p[n + 1] = v
            /\ \A i \in 1 .. n : p[i] = r[i]
        OBVIOUS
      <4>2. R(p) \in Seq(Words) /\ Len(R(p)) = n + 1 /\ Len(R(r)) = n
        BY <3>0
      <4>3. Append(R(r), x) \in Seq(Words) /\ Len(Append(R(r), x)) = n + 1
        BY <3>0, <4>2
      <4>4. /\ Append(R(r), x)[n + 1] = x
            /\ \A i \in 1 .. n : Append(R(r), x)[i] = R(r)[i]
        BY <3>0, <4>2
      <4> HIDE DEF n, p
      <4>5. \A i \in 1 .. n + 1 : R(p)[i] = Append(R(r), x)[i]
        <5>1. R(p)[n + 1] = x
          BY <4>1
        <5>2. \A i \in 1 .. n : R(p)[i] = R(r)[i]
          BY <4>1
        <5>3. \A i \in 1 .. n + 1 : i \in 1 .. n \/ i = n + 1
          BY <4>1
        <5> HIDE DEF R, x
        <5> QED
          BY <4>4, <5>1, <5>2, <5>3
      <4> HIDE DEF R, x
      <4>6. R(p) = Append(R(r), x)
        BY <4>2, <4>3, <4>5, SeqEqual
      <4> QED
        BY <4>6 DEF p
    <3>2. x \in K <=> v \in K
      BY <1>2
    <3>3. x \notin K => x = v
      BY <1>2
    <3>4. List!Without(R(r), K) = List!Without(r, K)
      BY <2>3
    <3> HIDE DEF R, x
    <3>5. List!Without(Append(R(r), x), K) =
            IF x \in K THEN List!Without(R(r), K) ELSE Append(List!Without(R(r), K), x)
      BY <3>0, WithoutAppend
    <3>6. List!Without(Append(r, v), K) =
            IF v \in K THEN List!Without(r, K) ELSE Append(List!Without(r, K), v)
      BY WithoutAppend
    <3> QED
      BY <3>0, <3>1, <3>2, <3>3, <3>4, <3>5, <3>6
  <2> HIDE DEF T
  <2>4. s \in T
    BY <2>2, <2>3, ListInduction
  <2> QED
    BY <2>1, <2>4 DEF T
<1> QED
  BY <1>1, <1>2

\* A list after a command.
LEMMA EditedIs ==
    ASSUME NEW s \in Seq(Words), Single(s, {}), NEW c \in Command
    PROVE  /\ List!Distinct(List!Edited(s, c)) \in Seq(Words)
           /\ Single(List!Distinct(List!Edited(s, c)), {})
           /\ \A K : Within(c, K) =>
                       List!Without(List!Distinct(List!Edited(s, c)), K) = List!Without(s, K)
<1> DEFINE e == List!Edited(s, c)
<1>1. c.op \in Ops /\ c.url \in Words /\ c.new \in Words
  BY DEF Command
<1>2. /\ e \in Seq(Words)
      /\ \A K : Within(c, K) => Single(e, K) /\ List!Without(e, K) = List!Without(s, K)
  <2>0. \A K : Single(s, K)
    BY DEF Single
  <2>1. CASE c.op = "add"
    <3>1. e = Append(s, c.new)
      BY <2>1 DEF List!Edited
    <3>2. e \in Seq(Words)
      BY <1>1, <3>1
    <3>3. ASSUME NEW K, Within(c, K)
          PROVE  Single(e, K) /\ List!Without(e, K) = List!Without(s, K)
      <4>1. c.new \in K
        BY <2>1, <3>3 DEF Within
      <4> HIDE DEF e
      <4>2. Single(e, K)
        BY <1>1, <2>0, <3>1, <4>1, MoreIs
      <4>3. List!Without(e, K) = List!Without(s, K)
        BY <1>1, <3>1, <4>1, WithoutAppend
      <4> QED
        BY <4>2, <4>3
    <3> QED
      BY <3>2, <3>3
  <2>2. CASE c.op = "edit"
    <3> DEFINE f == [i \in DOMAIN s |-> IF s[i] = c.url THEN c.new ELSE s[i]]
    <3>1. e = f
      BY <2>2 DEF List!Edited
    <3>3. /\ f \in Seq(Words)
          /\ \A K : c.url \in K /\ c.new \in K =>
                      Single(f, K) /\ List!Without(f, K) = List!Without(s, K)
      BY <1>1, ReplacedIs
    <3>2. \A K : Within(c, K) => c.url \in K /\ c.new \in K
      BY <2>2 DEF Within
    <3> HIDE DEF e, f
    <3> QED
      BY <3>1, <3>2, <3>3
  <2>3. CASE c.op = "remove"
    <3>1. e = List!Without(s, {c.url})
      BY <2>3 DEF List!Edited
    <3>2. \A K : Within(c, K) => {c.url} \subseteq K
      BY DEF Within
    <3>3. e \in Seq(Words) /\ Single(e, {})
      BY <3>1, WithoutKeeps
    <3>4. \A K : Single(e, K)
      BY <3>3 DEF Single
    <3>5. \A K : {c.url} \subseteq K => List!Without(e, K) = List!Without(s, K)
      BY <3>1, WithoutKeeps
    <3> HIDE DEF e
    <3> QED
      BY <3>2, <3>3, <3>4, <3>5
  <2>4. CASE c.op = List!Nothing
    <3>1. e = s
      BY <2>4 DEF List!Edited, List!Nothing
    <3> HIDE DEF e
    <3> QED
      BY <2>0, <3>1
  <2> QED
    BY <1>1, <2>1, <2>2, <2>3, <2>4 DEF Ops
<1> HIDE DEF e
<1>3. /\ List!Distinct(e) \in Seq(Words) /\ Single(List!Distinct(e), {})
      /\ \A K : Single(e, K) => List!Without(List!Distinct(e), K) = List!Without(e, K)
  BY <1>2, DistinctIs
<1> QED
  BY <1>2, <1>3 DEF e

\* The lists of the session, and that those two agree but for some URLs.
Lists == {x \in [Tasks -> Seq(Words)] : \A t \in Tasks : Single(x[t], {})}
Same(x, y, K) == \A t \in Tasks : List!Without(x[t], K) = List!Without(y[t], K)

\* The worker handles a command.
LEMMA EditHandled ==
    ASSUME NEW x \in Lists, NEW c \in Command
    PROVE  /\ List!Handle(x, c) \in Lists
           /\ \A K : Within(c, K) => Same(List!Handle(x, c), x, K)
<1>0. x \in [Tasks -> Seq(Words)] /\ \A t \in Tasks : Single(x[t], {})
  BY DEF Lists
<1>1. CASE c.task = List!Nothing
  BY <1>1 DEF List!Handle, Same
<1>2. CASE c.task # List!Nothing
  <2>1. c.task \in Tasks
    BY <1>2 DEF Command
  <2> DEFINE d == List!Distinct(List!Edited(x[c.task], c))
  <2>2. List!Handle(x, c) = [x EXCEPT ![c.task] = d]
    BY <1>2 DEF List!Handle
  <2>3. /\ d \in Seq(Words) /\ Single(d, {})
        /\ \A K : Within(c, K) => List!Without(d, K) = List!Without(x[c.task], K)
    BY <1>0, <2>1, EditedIs
  <2> HIDE DEF d
  <2>4. [x EXCEPT ![c.task] = d] \in Lists
    BY <1>0, <2>1, <2>3 DEF Lists
  <2>5. \A t \in Tasks : [x EXCEPT ![c.task] = d][t] = IF t = c.task THEN d ELSE x[t]
    BY <1>0
  <2> QED
    BY <2>2, <2>3, <2>4, <2>5 DEF Same
<1> QED
  BY <1>1, <1>2

\* The worker handles the commands of a queue.
LEMMA EditsHandled ==
    ASSUME NEW x \in Lists, NEW q \in Seq(Command)
    PROVE  /\ List!FoldLeft(List!Handle, x, q) \in Lists
           /\ \A K : (\A i \in DOMAIN q : Within(q[i], K)) =>
                       Same(List!FoldLeft(List!Handle, x, q), x, K)
<1> DEFINE n == Len(q)
           S == Lists
           G == [i \in 1 .. n |-> [y \in S |-> List!Handle(y, q[i])]]
           Eq(f) == f = [r \in SUBSET (1 .. n) |->
                          IF r = {} THEN x ELSE List!Handle(f[r \ {Max(r)}], q[Max(r)])]
           g == CHOOSE f : Eq(f)
<1>0. n \in Nat /\ DOMAIN q = 1 .. n /\ \A i \in 1 .. n : q[i] \in Command
  OBVIOUS
<1>1. List!FoldLeft(List!Handle, x, q) = g[1 .. n]
  BY <1>0 DEF List!FoldLeft, List!MapThenFoldSet, Max, List!Max
<1> HIDE DEF n
<1>2. G \in [1 .. n -> [S -> S]] /\ x \in S
  <2>1. \A i \in 1 .. n : \A y \in S : List!Handle(y, q[i]) \in S
    BY <1>0, EditHandled
  <2> HIDE DEF S
  <2> QED
    BY <2>1 DEF S
<1> HIDE DEF S
<1>3. \A i \in 1 .. n : \A y \in S : G[i][y] = List!Handle(y, q[i])
  OBVIOUS
<1> HIDE DEF G
<1>4. PICK f \in [SUBSET (1 .. n) -> S] : Folds(f, x, G, n)
  BY <1>0, <1>2, FoldExists
<1>5. Eq(f)
  <2>1. ASSUME NEW r \in SUBSET (1 .. n), r # {}
        PROVE  G[Max(r)][f[r \ {Max(r)}]] = List!Handle(f[r \ {Max(r)}], q[Max(r)])
    <3>1. Max(r) \in 1 .. n /\ f[r \ {Max(r)}] \in S
      BY <1>0, <2>1, MaxInside
    <3> QED
      BY <1>3, <3>1
  <2> QED
    BY <1>4, <2>1 DEF Folds
<1>6. Eq(g)
  BY <1>5
<1>7. g[{}] = x
  BY <1>6
<1>8. ASSUME NEW r \in SUBSET (1 .. n), r # {}, g[r \ {Max(r)}] \in S
      PROVE  g[r] = G[Max(r)][g[r \ {Max(r)}]]
  <2>1. g[r] = List!Handle(g[r \ {Max(r)}], q[Max(r)])
    BY <1>6, <1>8
  <2>2. Max(r) \in 1 .. n
    BY <1>0, <1>8, MaxInside
  <2> HIDE DEF g
  <2> QED
    BY <1>3, <1>8, <2>1, <2>2
<1> HIDE DEF g, Eq
<1>9. FoldRule(g, x, G, n, S)
  BY <1>7, <1>8 DEF FoldRule
<1>10. PICK h \in [0 .. n -> S] : FoldPath(h, g, x, G, n)
  BY <1>0, <1>2, <1>9, FoldSteps
<1>11. \A i \in 1 .. n : h[i] = List!Handle(h[i - 1], q[i])
  <2>1. \A i \in 1 .. n : h[i - 1] \in S
    BY <1>0
  <2> QED
    BY <1>3, <1>10, <2>1 DEF FoldPath
<1>12. ASSUME NEW K, \A i \in 1 .. n : Within(q[i], K) PROVE Same(h[n], x, K)
  <2> DEFINE T == {i \in Nat : i <= n => Same(h[i], x, K)}
  <2>1. 0 \in T
    BY <1>10 DEF FoldPath, Same
  <2>2. ASSUME NEW i \in Nat, i \in T PROVE i + 1 \in T
    <3> SUFFICES ASSUME i + 1 <= n PROVE Same(h[i + 1], x, K)
      OBVIOUS
    <3>1. i + 1 \in 1 .. n /\ (i + 1) - 1 = i /\ i \in 0 .. n /\ Same(h[i], x, K)
      BY <1>0, <2>2
    <3>2. h[i] \in Lists /\ h[i + 1] = List!Handle(h[i], q[i + 1]) /\ q[i + 1] \in Command
      BY <1>0, <1>11, <3>1 DEF S
    <3>3. Same(List!Handle(h[i], q[i + 1]), h[i], K)
      BY <1>12, <3>1, <3>2, EditHandled
    <3> QED
      BY <3>1, <3>2, <3>3 DEF Same
  <2> HIDE DEF T
  <2>3. \A i \in Nat : i \in T
    BY <2>1, <2>2, SetInduction
  <2> QED
    BY <1>0, <2>3 DEF T
<1>13. h[n] \in S /\ h[n] = g[1 .. n]
  BY <1>0, <1>10 DEF FoldPath
<1> QED
  BY <1>0, <1>1, <1>12, <1>13 DEF S

-----------------------------------------------------------------------------
(* The page.                                                               *)

\* Lists without repetition, commands and a dialog of their types; the rows are of the task
\* of the page, and unfolded are some of them.
TrackerInv ==
    /\ lists \in Lists /\ edits \in Seq(Command)
    /\ listTask \in Tasks \cup {List!Nothing} /\ List!RowsOfTask
    /\ asking \in [op : Ops, url : Words, task : Tasks \cup {List!Nothing}]
    /\ expanded \subseteq List!ToSet(urlRows.urls)
    /\ tick \in 0 .. 2 /\ ticking = visible

\* What a step may not do: to the lists, and to the rows.
ListsKept == \E new \in Urls : Same(lists, lists', List!Named \cup {asking.url, new})
FoldsKept ==
    \A u \in expanded :
        \/ u \in expanded' \/ urlRows' = List!EmptyTree
        \/ u \notin List!ToSet(urlRows'.urls) \/ urlRows' = urlRows

\* A command in the queue has its URLs among those that are named.
LEMMA NamedAll ==
    ASSUME NEW i \in DOMAIN edits, NEW M PROVE Within(edits[i], List!Named \cup M)
<1>1. {edits[i].url, edits[i].new} \subseteq List!Named
  BY DEF List!Named
<1> QED
  BY <1>1 DEF Within

\* Lists that do not change are kept.
LEMMA SameLists ==
    ASSUME TrackerAssumption, lists' = lists PROVE ListsKept
<1>1. PICK new \in Urls : TRUE
  BY DEF TrackerAssumption
<1> QED
  BY <1>1 DEF ListsKept, Same

\* A reload shows the rows of the task, folded as before, and changes what the commands
\* change.
LEMMA ReloadedIs ==
    ASSUME TrackerInv, NEW t \in Tasks \cup {List!Nothing}, NEW q \in Seq(Command),
           List!Reload(t, q)
    PROVE  /\ lists' \in Lists /\ edits' \in Seq(Command)
           /\ urlRows'.task \in {t, List!Nothing} /\ expanded' \subseteq List!ToSet(urlRows'.urls)
           /\ \A K : (\A i \in DOMAIN q : Within(q[i], K)) => Same(lists, lists', K)
           /\ FoldsKept
<1>0. lists \in Lists
  BY DEF TrackerInv
<1>1. CASE urlRows' = List!EmptyTree /\ expanded' = {} /\ edits' = q /\ lists' = lists
  <2>1. List!EmptyTree.task = List!Nothing
    BY DEF List!EmptyTree
  <2> QED
    BY <1>0, <1>1, <2>1 DEF Same, FoldsKept
<1>2. CASE /\ t # List!Nothing /\ lists' = List!FoldLeft(List!Handle, lists, q) /\ edits' = <<>>
           /\ urlRows' = List!Queried(t, lists', contacted')
           /\ expanded' = List!Unfolded(lists'[t])
  <2>1. /\ urlRows'.task = t /\ urlRows'.urls = lists'[t]
        /\ expanded' = expanded \cap List!ToSet(lists'[t])
    BY <1>2 DEF List!Queried, List!Unfolded
  <2>2. /\ lists' \in Lists
        /\ \A K : (\A i \in DOMAIN q : Within(q[i], K)) => Same(lists, lists', K)
    BY <1>0, <1>2, EditsHandled DEF Same
  <2>3. <<>> \in Seq(Command)
    OBVIOUS
  <2> QED
    BY <1>2, <2>1, <2>2, <2>3 DEF FoldsKept
<1> QED
  BY <1>1, <1>2 DEF List!Reload

\* A reload of the task of the page.
LEMMA ReloadStep ==
    ASSUME TrackerInv, NEW t \in Tasks \cup {List!Nothing}, List!Reload(t, edits),
           listTask' = t, asking' = asking, ticking' = visible', tick' \in 0 .. 2,
           TrackerAssumption
    PROVE  TrackerInv' /\ ListsKept /\ FoldsKept
<1>0. /\ edits \in Seq(Command)
      /\ asking \in [op : Ops, url : Words, task : Tasks \cup {List!Nothing}]
  BY DEF TrackerInv
<1>1. /\ lists' \in Lists /\ edits' \in Seq(Command)
      /\ urlRows'.task \in {t, List!Nothing} /\ expanded' \subseteq List!ToSet(urlRows'.urls)
      /\ \A K : (\A i \in DOMAIN edits : Within(edits[i], K)) => Same(lists, lists', K)
      /\ FoldsKept
  BY <1>0, ReloadedIs
<1>2. PICK new \in Urls : TRUE
  BY DEF TrackerAssumption
<1>3. Same(lists, lists', List!Named \cup {asking.url, new})
  BY <1>1, NamedAll
<1>4. TrackerInv'
  BY <1>0, <1>1 DEF TrackerInv, List!RowsOfTask
<1> QED
  BY <1>1, <1>2, <1>3, <1>4 DEF ListsKept

\* The worker handles the oldest command.
LEMMA EditStep ==
    ASSUME TrackerAssumption, TrackerInv, List!HandleCmd
    PROVE  TrackerInv' /\ ListsKept /\ FoldsKept
<1>1. /\ lists \in Lists /\ edits \in Seq(Command) /\ edits # <<>>
      /\ lists' = List!Handle(lists, Head(edits)) /\ edits' = Tail(edits)
      /\ UNCHANGED List!pageVars
  BY DEF List!HandleCmd, TrackerInv
<1> DEFINE c == Head(edits)
<1>2. c \in Command /\ Tail(edits) \in Seq(Command) /\ 1 \in DOMAIN edits /\ c = edits[1]
  BY <1>1
<1>3. PICK new \in Urls : TRUE
  BY DEF TrackerAssumption
<1>4. Within(c, List!Named \cup {asking.url, new})
  BY <1>2, NamedAll
<1> HIDE DEF c
<1>5. /\ List!Handle(lists, c) \in Lists
      /\ Same(List!Handle(lists, c), lists, List!Named \cup {asking.url, new})
  BY <1>1, <1>2, <1>4, EditHandled
<1>6. lists' = List!Handle(lists, c)
  BY <1>1 DEF c
<1>7. TrackerInv'
  BY <1>1, <1>2, <1>5, <1>6 DEF TrackerInv, List!RowsOfTask, List!pageVars
<1>8. ListsKept
  BY <1>5, <1>6 DEF ListsKept, Same
<1> QED
  BY <1>1, <1>7, <1>8 DEF FoldsKept, List!pageVars

\* The timer: every third time the trackers are read, else the rows are folded as before.
LEMMA TickStep ==
    ASSUME TrackerAssumption, TrackerInv, List!Tick
    PROVE  TrackerInv' /\ ListsKept /\ FoldsKept
<1>1. /\ listTask' = listTask /\ visible' = visible /\ ticking' = ticking /\ asking' = asking
      /\ tick \in 0 .. 2 /\ listTask \in Tasks \cup {List!Nothing} /\ ticking = visible
  BY DEF List!Tick, TrackerInv
<1>2. CASE tick' = 0 /\ List!Reload(listTask, edits)
  BY <1>1, <1>2, ReloadStep
<1>3. CASE tick < 2 /\ tick' = tick + 1 /\ List!CountedDown
  <2>1. /\ expanded' = expanded \cap List!ToSet(urlRows.urls) /\ urlRows' = urlRows
        /\ lists' = lists /\ edits' = edits /\ tick' \in 0 .. 2
    BY <1>1, <1>3 DEF List!CountedDown, List!Unfolded
  <2>2. TrackerInv'
    BY <1>1, <2>1 DEF TrackerInv, List!RowsOfTask
  <2> QED
    BY <2>1, <2>2, SameLists DEF FoldsKept
<1> QED
  BY <1>1, <1>2, <1>3 DEF List!Tick

\* The dialog is accepted: its command joins the queue.
LEMMA AcceptDialogStep ==
    ASSUME TrackerAssumption, TrackerInv, NEW w \in Words, List!AcceptDialog(w)
    PROVE  TrackerInv' /\ ListsKept /\ FoldsKept
<1> DEFINE c == [op |-> asking.op, task |-> listTask, url |-> asking.url, new |-> w]
           q == Append(edits, c)
<1>1. /\ edits \in Seq(Command) /\ listTask \in Tasks \cup {List!Nothing}
      /\ asking \in [op : Ops, url : Words, task : Tasks \cup {List!Nothing}]
      /\ tick \in 0 .. 2 /\ ticking = visible
  BY DEF TrackerInv
<1>2. /\ List!Reload(listTask, q) /\ asking' = List!NoDialog
      /\ UNCHANGED <<listTask, visible, ticking, tick>>
      /\ asking.op = "remove" <=> w = List!Nothing
  BY DEF List!AcceptDialog
<1>3. c \in Command
  BY <1>1 DEF Command
<1>4. /\ q \in Seq(Command)
      /\ \A i \in DOMAIN q : (i \in DOMAIN edits /\ q[i] = edits[i]) \/ q[i] = c
  <2> HIDE DEF c
  <2> QED
    BY <1>1, <1>3
<1>5. PICK new \in Urls : w # List!Nothing => new = w
  BY DEF TrackerAssumption, Words
<1> DEFINE K == List!Named \cup {asking.url, new}
<1>6. Within(c, K)
  <2>1. c.url \in K
    OBVIOUS
  <2>2. c.op # "remove" => c.new \in K
    BY <1>2, <1>5
  <2> QED
    BY <2>1, <2>2 DEF Within
<1>7. \A i \in DOMAIN q : Within(q[i], K)
  <2> HIDE DEF c
  <2>1. \A i \in DOMAIN edits : Within(edits[i], K)
    BY NamedAll
  <2> HIDE DEF K, q
  <2> QED
    BY <1>4, <1>6, <2>1
<1> HIDE DEF c, q, K
<1>8. /\ lists' \in Lists /\ edits' \in Seq(Command)
      /\ urlRows'.task \in {listTask, List!Nothing}
      /\ expanded' \subseteq List!ToSet(urlRows'.urls)
      /\ \A M : (\A i \in DOMAIN q : Within(q[i], M)) => Same(lists, lists', M)
      /\ FoldsKept
  BY <1>1, <1>2, <1>4, ReloadedIs
<1>9. ListsKept
  <2>1. Same(lists, lists', K)
    BY <1>7, <1>8
  <2> QED
    BY <2>1 DEF ListsKept, K
<1>10. List!NoDialog \in [op : Ops, url : Words, task : Tasks \cup {List!Nothing}]
  BY DEF List!NoDialog, Ops, Words
<1>11. TrackerInv'
  BY <1>1, <1>2, <1>8, <1>10 DEF TrackerInv, List!RowsOfTask
<1> QED
  BY <1>8, <1>9, <1>11

\* The user and the trackers: what leaves the lists alone.
LEMMA QuietStep ==
    ASSUME TrackerAssumption, TrackerInv,
           \/ \E t \in Tasks, u \in Urls : List!Answers(t, u)
           \/ List!HideEvent
           \/ \E u \in Urls : List!Fold(u)
           \/ \E op \in {"add", "edit", "remove"}, u \in Urls \cup {List!Nothing} :
                List!OpenDialog(op, u)
           \/ List!LeaveDialog
    PROVE  TrackerInv' /\ ListsKept /\ FoldsKept
<1>1. /\ lists' = lists /\ edits' = edits /\ listTask' = listTask
      /\ urlRows' = urlRows /\ tick' = tick
  BY DEF List!Answers, List!HideEvent, List!Fold, List!OpenDialog, List!LeaveDialog,
         List!pageVars
<1>2. ticking' = visible'
  BY DEF List!Answers, List!HideEvent, List!Fold, List!OpenDialog, List!LeaveDialog,
         List!pageVars, TrackerInv
<1>3. expanded' \subseteq List!ToSet(urlRows.urls)
  BY DEF List!Answers, List!HideEvent, List!Fold, List!OpenDialog, List!LeaveDialog,
         List!pageVars, TrackerInv
<1>4. asking' \in [op : Ops, url : Words, task : Tasks \cup {List!Nothing}]
  <2>0. asking \in [op : Ops, url : Words, task : Tasks \cup {List!Nothing}]
    BY DEF TrackerInv
  <2>1. ASSUME NEW op \in {"add", "edit", "remove"}, NEW u \in Urls \cup {List!Nothing},
               List!OpenDialog(op, u)
        PROVE  asking' \in [op : Ops, url : Words, task : Tasks \cup {List!Nothing}]
    <3>1. asking' = [op |-> op, url |-> u, task |-> listTask] /\ op \in Ops /\ u \in Words
      BY <2>1 DEF List!OpenDialog, Ops, Words
    <3>2. listTask \in Tasks \cup {List!Nothing}
      BY DEF TrackerInv
    <3> QED
      BY <3>1, <3>2
  <2>2. CASE List!LeaveDialog
    BY <2>2 DEF List!LeaveDialog, List!NoDialog, Ops, Words
  <2>3. CASE asking' = asking
    BY <2>0, <2>3
  <2> QED
    BY <2>1, <2>2, <2>3 DEF List!Answers, List!HideEvent, List!Fold, List!pageVars
<1>5. TrackerInv'
  BY <1>1, <1>2, <1>3, <1>4 DEF TrackerInv, List!RowsOfTask
<1> QED
  BY <1>1, <1>5, SameLists DEF FoldsKept

\* Every step keeps the invariant, the lists and the rows.
LEMMA TrackerNext ==
    ASSUME TrackerAssumption, TrackerInv, [List!Next]_List!vars
    PROVE  TrackerInv' /\ ListsKept /\ FoldsKept
<1>1. CASE UNCHANGED List!vars
  <2>1. lists' = lists /\ urlRows' = urlRows
    BY <1>1 DEF List!vars, List!pageVars
  <2>2. TrackerInv'
    BY <1>1 DEF TrackerInv, List!RowsOfTask, List!vars, List!pageVars
  <2> QED
    BY <2>1, <2>2, SameLists DEF FoldsKept
<1>2. ASSUME NEW t \in Tasks \cup {List!Nothing}, List!SetSnapshot(t)
      PROVE  TrackerInv' /\ ListsKept /\ FoldsKept
  <2>1. /\ List!Reload(t, edits) /\ listTask' = t /\ asking' = asking /\ ticking' = ticking
        /\ visible' = visible /\ tick' = tick /\ ticking = visible /\ tick \in 0 .. 2
    BY <1>2 DEF List!SetSnapshot, TrackerInv
  <2> QED
    BY <2>1, ReloadStep
<1>3. CASE List!ShowEvent
  <2>1. /\ List!Reload(listTask, edits) /\ listTask' = listTask /\ asking' = asking
        /\ ticking' = visible' /\ tick' \in 0 .. 2 /\ listTask \in Tasks \cup {List!Nothing}
    BY <1>3 DEF List!ShowEvent, TrackerInv
  <2> QED
    BY <2>1, ReloadStep
<1>4. ASSUME NEW w \in Urls \cup {List!Nothing}, List!AcceptDialog(w)
      PROVE  TrackerInv' /\ ListsKept /\ FoldsKept
  BY <1>4, AcceptDialogStep DEF Words
<1> QED
  BY <1>1, <1>2, <1>3, <1>4, EditStep, TickStep, QuietStep DEF List!Next

\* The two modules count, and put a set in order, by the same definitions.
LEMMA TrackerOrder ==
    ASSUME NEW S
    PROVE  List!Cardinality(S) = Cardinality(S) /\ List!SetToSeq(S) = SetToSeq(S)
  BY DEF List!Cardinality, Cardinality, SetToSeq, List!SetToSeq, IsInjective,
         List!IsInjective

\* At the start each task has all trackers but one.
LEMMA TrackerInit ==
    ASSUME TrackerAssumption, List!Init PROVE TrackerInv
<1> DEFINE S == Urls \ {CHOOSE u \in Urls : TRUE}
           f == SetToSeq(S)
<1>1. IsFiniteSet(S)
  BY FS_RemoveElement DEF TrackerAssumption
<1>2. S \subseteq Words
  BY DEF Words
<1>3. lists = [t \in Tasks |-> f]
  BY TrackerOrder DEF List!Init
<1> HIDE DEF S
<1>4. Cardinality(S) \in Nat /\ f \in [1 .. Cardinality(S) -> S]
  BY <1>1, InOrder
<1>5. PICK g \in [1 .. Cardinality(S) -> S] : IsInjective(g)
  <2>1. ExistsBijection(1 .. Cardinality(S), S)
    BY <1>1, FS_CardinalityType
  <2> QED
    BY <2>1 DEF ExistsBijection, Bijection, Injection
<1>6. IsInjective(f)
  BY <1>5 DEF SetToSeq
<1> HIDE DEF f
<1>7. f \in Seq(Words)
  BY <1>2, <1>4
<1>8. Single(f, {})
  BY <1>6 DEF Single, IsInjective
<1>9. lists \in Lists
  BY <1>3, <1>7, <1>8 DEF Lists
<1>10. List!NoDialog \in [op : Ops, url : Words, task : Tasks \cup {List!Nothing}]
  BY DEF List!NoDialog, Ops, Words
<1>11. /\ edits = <<>> /\ listTask = List!Nothing /\ urlRows.task = List!Nothing
       /\ expanded = {}
       /\ asking = List!NoDialog /\ tick = 0 /\ ticking = FALSE /\ visible = FALSE
  BY DEF List!Init, List!EmptyTree
<1>12. edits \in Seq(Command)
  BY <1>11
<1>13. asking \in [op : Ops, url : Words, task : Tasks \cup {List!Nothing}]
  BY <1>10, <1>11
<1>14. /\ listTask \in Tasks \cup {List!Nothing} /\ List!RowsOfTask
       /\ expanded \subseteq List!ToSet(urlRows.urls)
  BY <1>11 DEF List!RowsOfTask
<1>15. tick \in 0 .. 2
  BY <1>11
<1>16. ticking = visible
  BY <1>11, Zenon
<1> QED
  BY <1>9, <1>12, <1>13, <1>14, <1>15, <1>16 DEF TrackerInv

\* A list without repetition has as many members as places.
LEMMA SingleCounts ==
    ASSUME NEW s \in Seq(Words), Single(s, {}) PROVE Cardinality(List!ToSet(s)) = Len(s)
<1>1. Len(s) \in Nat /\ DOMAIN s = 1 .. Len(s) /\ s \in [1 .. Len(s) -> List!ToSet(s)]
  BY DEF List!ToSet
<1>2. s \in Injection(1 .. Len(s), List!ToSet(s))
  BY <1>1 DEF Single, Injection, IsInjective
<1>3. s \in Surjection(1 .. Len(s), List!ToSet(s))
  BY <1>1 DEF Surjection, List!ToSet
<1>4. ExistsBijection(1 .. Len(s), List!ToSet(s))
  BY <1>2, <1>3 DEF ExistsBijection, Bijection
<1>5. IsFiniteSet(1 .. Len(s)) /\ Cardinality(1 .. Len(s)) = Len(s)
  BY <1>1, FS_Interval
<1> QED
  BY <1>4, <1>5, FS_Bijection

\* The types that TLC checks: no tracker is twice in a list.
THEOREM TrackerTypesHold ==
    ASSUME TrackerAssumption
    PROVE  List!Spec => []List!TypeOK
<1>1. TrackerInv /\ [List!Next]_List!vars => TrackerInv'
  BY TrackerNext
<1>2. List!Init => TrackerInv
  BY TrackerInit
<1>3. TrackerInv => List!TypeOK
  <2>1. ASSUME TrackerInv, NEW t \in Tasks
        PROVE  List!Cardinality(List!ToSet(lists[t])) = Len(lists[t])
    <3>1. lists[t] \in Seq(Words) /\ Single(lists[t], {})
      BY <2>1 DEF TrackerInv, Lists
    <3> QED
      BY <3>1, SingleCounts, TrackerOrder
  <2> QED
    BY <2>1 DEF List!TypeOK, TrackerInv
<1> QED
  BY <1>1, <1>2, <1>3, PTL DEF List!Spec

\* The rows of the tracker page are those of the task the commands go to, whatever is
\* waited for in vain (TrackerDetailPage::reload).
THEOREM RowsAreOfTask ==
    ASSUME TrackerAssumption
    PROVE  List!Spec => []List!RowsOfTask
<1>1. TrackerInv /\ [List!Next]_List!vars => TrackerInv'
  BY TrackerNext
<1>2. List!Init => TrackerInv
  BY TrackerInit
<1>3. TrackerInv => List!RowsOfTask
  BY DEF TrackerInv
<1> QED
  BY <1>1, <1>2, <1>3, PTL DEF List!Spec

\* The worker replaces the whole list of a torrent (mergedTrackers): the trackers that
\* no command names stay, in their order, however many commands one step handles.
THEOREM OthersAreKept ==
    ASSUME TrackerAssumption
    PROVE  List!Spec => List!OthersKept
<1>1. TrackerInv /\ [List!Next]_List!vars => TrackerInv'
  BY TrackerNext
<1>2. List!Init => TrackerInv
  BY TrackerInit
<1>3. ASSUME TrackerInv, [List!Next]_List!vars
      PROVE  \E new \in Urls : \A t \in Tasks :
               LET named == List!Named \cup {asking.url, new}
               IN  List!Without(lists[t], named) = List!Without(lists'[t], named)
  BY <1>3, TrackerNext DEF ListsKept, Same
<1> QED
  BY <1>1, <1>2, <1>3, PTL DEF List!Spec, List!OthersKept

\* A row that is unfolded stays so through the reloads of the timer and the sort, as long
\* as the worker answers and the tracker is there (TrackerDetailPage::reload).
THEOREM RowsStayUnfolded ==
    ASSUME TrackerAssumption
    PROVE  List!Spec => List!StaysUnfolded
<1>1. TrackerInv /\ [List!Next]_List!vars => TrackerInv'
  BY TrackerNext
<1>2. List!Init => TrackerInv
  BY TrackerInit
<1>3. ASSUME TrackerInv, [List!Next]_List!vars
      PROVE  \A u \in expanded :
               \/ u \in expanded'
               \/ urlRows' = List!EmptyTree
               \/ u \notin List!ToSet(urlRows'.urls)
               \/ urlRows' = urlRows
  BY <1>3, TrackerNext DEF FoldsKept
<1> QED
  BY <1>1, <1>2, <1>3, PTL DEF List!Spec, List!StaysUnfolded

-----------------------------------------------------------------------------
(* The cookies, module CookieManager: for any cells the user writes and    *)
(* tables of any length.  Its formulas are prefixed with Cookie.           *)

CONSTANTS Domains, Values, Names, MaxRows, MaxPresses
VARIABLES open, cookies, picked, hint, file, header, rules, presses
Cookie == INSTANCE CookieManager WITH
    MaxOps <- MaxPresses, rows <- cookies, ops <- presses

(* Lists of rows.                                                          *)

\* The lists that Those goes through: the rows are looked at one by one.
ThosePath(h, s, V, K) ==
    /\ h \in [0 .. Len(s) -> Seq(V)] /\ h[0] = <<>> /\ h[Len(s)] = Cookie!Those(s, K)
    /\ \A i \in 1 .. Len(s) :
         h[i] = IF s[i] \in K THEN Append(h[i - 1], s[i]) ELSE h[i - 1]

\* Those goes through such lists.
LEMMA ThoseSteps ==
    ASSUME NEW V, NEW s \in Seq(V), NEW K
    PROVE  \E h : ThosePath(h, s, V, K)
<1> DEFINE n == Len(s)
           S == Seq(V)
           O(k, u) == IF u \in K THEN Append(k, u) ELSE k
           G == [i \in 1 .. n |-> [x \in S |-> O(x, s[i])]]
           Eq(f) == f = [r \in SUBSET (1 .. n) |->
                          IF r = {} THEN <<>> ELSE O(f[r \ {Max(r)}], s[Max(r)])]
           g == CHOOSE f : Eq(f)
<1>0. n \in Nat /\ DOMAIN s = 1 .. n /\ \A i \in 1 .. n : s[i] \in V
  OBVIOUS
<1>1. Cookie!Those(s, K) = g[1 .. n]
  BY <1>0 DEF Cookie!Those, Cookie!FoldLeft, Cookie!MapThenFoldSet, Max, Cookie!Max
<1>2. G \in [1 .. n -> [S -> S]] /\ <<>> \in S
  BY <1>0
<1>3. \A i \in 1 .. n : \A x \in S : G[i][x] = O(x, s[i])
  OBVIOUS
<1> HIDE DEF G, O, S, n
<1>4. PICK e \in [SUBSET (1 .. n) -> S] : Folds(e, <<>>, G, n)
  BY <1>0, <1>2, FoldExists
<1>5. Eq(e)
  <2>1. ASSUME NEW r \in SUBSET (1 .. n), r # {}
        PROVE  G[Max(r)][e[r \ {Max(r)}]] = O(e[r \ {Max(r)}], s[Max(r)])
    <3>1. Max(r) \in 1 .. n /\ e[r \ {Max(r)}] \in S
      BY <1>0, <2>1, MaxInside
    <3> QED
      BY <1>3, <3>1
  <2> QED
    BY <1>4, <2>1 DEF Folds
<1>6. Eq(g)
  BY <1>5
<1>7. g[{}] = <<>>
  BY <1>6
<1>8. ASSUME NEW r \in SUBSET (1 .. n), r # {}, g[r \ {Max(r)}] \in S
      PROVE  g[r] = G[Max(r)][g[r \ {Max(r)}]]
  <2>1. g[r] = O(g[r \ {Max(r)}], s[Max(r)])
    BY <1>6, <1>8
  <2>2. Max(r) \in 1 .. n
    BY <1>0, <1>8, MaxInside
  <2> HIDE DEF g
  <2> QED
    BY <1>3, <1>8, <2>1, <2>2
<1> HIDE DEF g, Eq
<1>9. FoldRule(g, <<>>, G, n, S)
  BY <1>7, <1>8 DEF FoldRule
<1>10. PICK h \in [0 .. n -> S] : FoldPath(h, g, <<>>, G, n)
  BY <1>0, <1>2, <1>9, FoldSteps
<1>11. \A i \in 1 .. n : h[i] = O(h[i - 1], s[i])
  <2>1. \A i \in 1 .. n : h[i - 1] \in S
    BY <1>0
  <2> QED
    BY <1>3, <1>10, <2>1 DEF FoldPath
<1>12. ThosePath(h, s, V, K)
  BY <1>1, <1>10, <1>11 DEF S, O, n, FoldPath, ThosePath
<1> QED
  BY <1>12

\* One row more.
LEMMA ThoseAppend ==
    ASSUME NEW V, NEW s \in Seq(V), NEW u \in V, NEW K
    PROVE  /\ Cookie!Those(s, K) \in Seq(V)
           /\ u \notin K => Cookie!Those(Append(s, u), K) = Cookie!Those(s, K)
           /\ u \in K => Cookie!Those(Append(s, u), K) = Append(Cookie!Those(s, K), u)
<1> DEFINE n == Len(s)
           p == Append(s, u)
<1>1. n \in Nat /\ p \in Seq(V) /\ Len(p) = n + 1 /\ p[n + 1] = u
      /\ \A i \in 1 .. n : p[i] = s[i]
  OBVIOUS
<1> HIDE DEF p
<1>2. PICK h : ThosePath(h, s, V, K)
  BY ThoseSteps
<1>3. PICK k : ThosePath(k, p, V, K)
  BY <1>1, ThoseSteps
<1>4. /\ h \in [0 .. n -> Seq(V)] /\ h[0] = <<>> /\ h[n] = Cookie!Those(s, K)
      /\ \A i \in 1 .. n :
           h[i] = IF s[i] \in K THEN Append(h[i - 1], s[i]) ELSE h[i - 1]
  BY <1>2 DEF ThosePath
<1>5. /\ k \in [0 .. n + 1 -> Seq(V)] /\ k[0] = <<>> /\ k[n + 1] = Cookie!Those(p, K)
      /\ \A i \in 1 .. n + 1 :
           k[i] = IF p[i] \in K THEN Append(k[i - 1], p[i]) ELSE k[i - 1]
  BY <1>1, <1>3 DEF ThosePath
<1> HIDE DEF n
<1> DEFINE T == {i \in Nat : i <= n => k[i] = h[i]}
<1>6. 0 \in T
  BY <1>4, <1>5
<1>7. \A i \in Nat : i \in T => i + 1 \in T
  <2> SUFFICES ASSUME NEW i \in Nat, i \in T, i + 1 <= n PROVE k[i + 1] = h[i + 1]
    BY SMTT(30)
  <2>1. i + 1 \in 1 .. n /\ i + 1 \in 1 .. n + 1 /\ (i + 1) - 1 = i /\ k[i] = h[i]
    BY <1>1
  <2>2. h[i + 1] = IF s[i + 1] \in K THEN Append(h[i], s[i + 1]) ELSE h[i]
    BY <1>4, <2>1
  <2>3. k[i + 1] = IF p[i + 1] \in K THEN Append(k[i], p[i + 1]) ELSE k[i]
    BY <1>5, <2>1
  <2> QED
    BY <1>1, <2>1, <2>2, <2>3
<1> HIDE DEF T
<1>8. \A i \in Nat : i \in T
  BY <1>6, <1>7, SetInduction
<1>9. k[n] = h[n] /\ n + 1 \in 1 .. n + 1 /\ (n + 1) - 1 = n /\ n \in 0 .. n
  BY <1>1, <1>8 DEF T
<1>10. k[n + 1] = IF u \in K THEN Append(k[n], u) ELSE k[n]
  BY <1>1, <1>5, <1>9
<1>11. Cookie!Those(p, K) = IF u \in K THEN Append(h[n], u) ELSE h[n]
  BY <1>5, <1>9, <1>10
<1>12. h[n] \in Seq(V)
  BY <1>4, <1>9
<1> QED
  BY <1>4, <1>11, <1>12 DEF p

\* Nothing is left of nothing.
LEMMA ThoseEmpty ==
    ASSUME NEW K PROVE Cookie!Those(<<>>, K) = <<>>
<1>1. <<>> \in Seq({}) /\ Len(<<>>) = 0
  OBVIOUS
<1>2. PICK h : ThosePath(h, <<>>, {}, K)
  BY <1>1, ThoseSteps
<1> QED
  BY <1>1, <1>2 DEF ThosePath

\* No two rows of a list are in R.
Apart(s, R) == \A i, j \in DOMAIN s : i # j => <<s[i], s[j]>> \notin R

\* One row more in a list.
LEMMA RowMore ==
    ASSUME NEW V, NEW s \in Seq(V), NEW u \in V
    PROVE  Append(s, u) \in Seq(V) /\ Cookie!ToSet(Append(s, u)) = Cookie!ToSet(s) \cup {u}
<1> DEFINE n == Len(s)
           p == Append(s, u)
<1>1. /\ n \in Nat /\ p \in Seq(V) /\ DOMAIN s = 1 .. n /\ DOMAIN p = 1 .. n + 1
      /\ p[n + 1] = u /\ \A i \in 1 .. n : p[i] = s[i]
  OBVIOUS
<1> HIDE DEF n, p
<1>2. Cookie!ToSet(p) = Cookie!ToSet(s) \cup {u}
  BY <1>1 DEF Cookie!ToSet
<1> QED
  BY <1>1, <1>2 DEF p

\* It makes two of the list be in R only together with one that was there.
LEMMA RowsApart ==
    ASSUME NEW V, NEW s \in Seq(V), NEW u \in V, NEW R
    PROVE  Apart(Append(s, u), R) <=>
             Apart(s, R) /\ \A x \in Cookie!ToSet(s) : <<x, u>> \notin R /\ <<u, x>> \notin R
<1> DEFINE n == Len(s)
           p == Append(s, u)
<1>1. /\ n \in Nat /\ p \in Seq(V) /\ DOMAIN s = 1 .. n /\ DOMAIN p = 1 .. n + 1
      /\ p[n + 1] = u /\ \A i \in 1 .. n : p[i] = s[i]
  OBVIOUS
<1> HIDE DEF n, p
<1>3. \A x : x \in Cookie!ToSet(s) <=> \E i \in 1 .. n : x = s[i]
  BY <1>1 DEF Cookie!ToSet
<1>4. ASSUME Apart(s, R), \A x \in Cookie!ToSet(s) : <<x, u>> \notin R /\ <<u, x>> \notin R
      PROVE  Apart(p, R)
  <2> SUFFICES ASSUME NEW i \in 1 .. n + 1, NEW j \in 1 .. n + 1, i # j
               PROVE  <<p[i], p[j]>> \notin R
    BY <1>1 DEF Apart
  <2>1. CASE i \in 1 .. n /\ j \in 1 .. n
    BY <1>1, <1>4, <2>1 DEF Apart
  <2>2. CASE i = n + 1 /\ j \in 1 .. n
    BY <1>1, <1>3, <1>4, <2>2
  <2>3. CASE j = n + 1 /\ i \in 1 .. n
    BY <1>1, <1>3, <1>4, <2>3
  <2> QED
    BY <1>1, <2>1, <2>2, <2>3
<1>5. ASSUME Apart(p, R)
      PROVE  Apart(s, R) /\ \A x \in Cookie!ToSet(s) : <<x, u>> \notin R /\ <<u, x>> \notin R
  <2>1. Apart(s, R)
    BY <1>1, <1>5 DEF Apart
  <2>2. ASSUME NEW i \in 1 .. n PROVE <<s[i], u>> \notin R /\ <<u, s[i]>> \notin R
    <3>1. i \in 1 .. n + 1 /\ n + 1 \in 1 .. n + 1 /\ i # n + 1
      BY <1>1
    <3> QED
      BY <1>1, <1>5, <3>1 DEF Apart
  <2> QED
    BY <1>3, <2>1, <2>2
<1> QED
  BY <1>4, <1>5 DEF p

\* What is taken from a list is in it.
LEMMA ThoseIs ==
    ASSUME NEW V, NEW M, NEW s \in Seq(V)
    PROVE  Cookie!Those(s, M) \in Seq(V)
      /\ Cookie!ToSet(Cookie!Those(s, M)) = Cookie!ToSet(s) \cap M
<1> DEFINE W(r) == Cookie!Those(r, M)
           T == {r \in Seq(V) : W(r) \in Seq(V) /\ Cookie!ToSet(W(r)) = Cookie!ToSet(r) \cap M}
<1>1. <<>> \in T
  <2>1. W(<<>>) = <<>> /\ <<>> \in Seq(V)
    BY ThoseEmpty
  <2>2. Cookie!ToSet(<<>>) = {}
    BY DEF Cookie!ToSet
  <2> HIDE DEF W
  <2> QED
    BY <2>1, <2>2
<1>2. ASSUME NEW r \in Seq(V), NEW u \in V, r \in T PROVE Append(r, u) \in T
  <2>1. /\ W(r) \in Seq(V)
        /\ u \notin M => W(Append(r, u)) = W(r)
        /\ u \in M => W(Append(r, u)) = Append(W(r), u)
    BY ThoseAppend
  <2>2. Cookie!ToSet(W(r)) = Cookie!ToSet(r) \cap M
    BY <1>2
  <2>3. Append(r, u) \in Seq(V) /\ Cookie!ToSet(Append(r, u)) = Cookie!ToSet(r) \cup {u}
    BY RowMore
  <2> HIDE DEF W
  <2>4. CASE u \notin M
    BY <2>1, <2>2, <2>3, <2>4
  <2>5. CASE u \in M
    <3>1. Append(W(r), u) \in Seq(V)
          /\ Cookie!ToSet(Append(W(r), u)) = Cookie!ToSet(W(r)) \cup {u}
      BY <2>1, RowMore
    <3>2. W(Append(r, u)) = Append(W(r), u)
      BY <2>1, <2>5
    <3>3. Cookie!ToSet(W(Append(r, u))) = Cookie!ToSet(Append(r, u)) \cap M
      BY <2>2, <2>3, <2>5, <3>1, <3>2
    <3> QED
      BY <2>3, <3>1, <3>2, <3>3
  <2> QED
    BY <2>4, <2>5
<1>3. s \in T
  <2> HIDE DEF T
  <2> QED
    BY <1>1, <1>2, ListInduction
<1> QED
  BY <1>3

\* Two rows that are taken are two of the list.
LEMMA ThoseApart ==
    ASSUME NEW V, NEW M, NEW R, NEW s \in Seq(V), Apart(s, R)
    PROVE  Apart(Cookie!Those(s, M), R)
<1> DEFINE W(r) == Cookie!Those(r, M)
           T == {r \in Seq(V) : Apart(r, R) => Apart(W(r), R)}
<1>1. <<>> \in T
  <2>1. W(<<>>) = <<>> /\ <<>> \in Seq(V)
    BY ThoseEmpty
  <2>2. Apart(<<>>, R)
    BY DEF Apart
  <2> HIDE DEF W
  <2> QED
    BY <2>1, <2>2
<1>2. ASSUME NEW r \in Seq(V), NEW u \in V, r \in T PROVE Append(r, u) \in T
  <2>1. /\ W(r) \in Seq(V)
        /\ u \notin M => W(Append(r, u)) = W(r)
        /\ u \in M => W(Append(r, u)) = Append(W(r), u)
    BY ThoseAppend
  <2>2. Cookie!ToSet(W(r)) \subseteq Cookie!ToSet(r)
    <3>1. Cookie!ToSet(Cookie!Those(r, M)) = Cookie!ToSet(r) \cap M
      BY ThoseIs
    <3> QED
      BY <3>1
  <2> HIDE DEF W
  <2>3. Append(r, u) \in Seq(V)
    OBVIOUS
  <2>4. SUFFICES ASSUME Apart(Append(r, u), R) PROVE Apart(W(Append(r, u)), R)
    BY <2>3
  <2>5. Apart(r, R) /\ \A x \in Cookie!ToSet(r) : <<x, u>> \notin R /\ <<u, x>> \notin R
    BY <2>4, RowsApart
  <2>6. Apart(W(r), R)
    BY <1>2, <2>5
  <2>7. CASE u \notin M
    BY <2>1, <2>6, <2>7
  <2>8. CASE u \in M
    <3>1. \A x \in Cookie!ToSet(W(r)) : <<x, u>> \notin R /\ <<u, x>> \notin R
      BY <2>2, <2>5
    <3>2. Apart(Append(W(r), u), R)
      BY <2>1, <2>6, <3>1, RowsApart
    <3> QED
      BY <2>1, <2>8, <3>2
  <2> QED
    BY <2>7, <2>8
<1>3. s \in T
  <2> HIDE DEF T
  <2> QED
    BY <1>1, <1>2, ListInduction
<1> QED
  BY <1>3

\* A list without its row i.
LEMMA RemoveAtIs ==
    ASSUME NEW V, NEW t \in Seq(V), NEW i \in DOMAIN t
    PROVE  /\ Cookie!RemoveAt(t, i) \in Seq(V) /\ Len(Cookie!RemoveAt(t, i)) = Len(t) - 1
           /\ \A k \in 1 .. (Len(t) - 1) :
                Cookie!RemoveAt(t, i)[k] = IF k < i THEN t[k] ELSE t[k + 1]
<1> DEFINE n == Len(t)
           a == SubSeq(t, 1, i - 1)
           b == SubSeq(t, i + 1, n)
<1>1. n \in Nat /\ i \in 1 .. n /\ DOMAIN t = 1 .. n
  OBVIOUS
<1>2. /\ a \in Seq(V) /\ Len(a) = i - 1
      /\ \A k \in 1 .. (i - 1) : a[k] = t[k]
  BY <1>1
<1>3. /\ b \in Seq(V) /\ Len(b) = n - i
      /\ \A k \in 1 .. (n - i) : b[k] = t[k + i]
  BY <1>1
<1>4. Cookie!RemoveAt(t, i) = a \o b
  BY DEF Cookie!RemoveAt
<1> HIDE DEF a, b
<1>5. a \o b \in Seq(V) /\ Len(a \o b) = n - 1
  <2>1. a \o b \in Seq(V) /\ Len(a \o b) = Len(a) + Len(b)
    BY <1>2, <1>3, ConcatProperties
  <2> QED
    BY <1>1, <1>2, <1>3, <2>1
<1>6. ASSUME NEW k \in 1 .. (n - 1) PROVE (a \o b)[k] = IF k < i THEN t[k] ELSE t[k + 1]
  <2>1. CASE k < i
    BY <1>1, <1>2, <1>3, <2>1
  <2>2. CASE ~(k < i)
    <3>1. k - (i - 1) \in 1 .. (n - i) /\ k - (i - 1) + i = k + 1
      BY <1>1, <2>2
    <3>2. (a \o b)[k] = b[k - (i - 1)]
      BY <1>1, <1>2, <1>3, <2>2
    <3>3. b[k - (i - 1)] = t[k - (i - 1) + i]
      BY <1>3, <3>1
    <3> QED
      BY <2>2, <3>1, <3>2, <3>3
  <2> QED
    BY <2>1, <2>2
<1> QED
  BY <1>4, <1>5, <1>6

\* The tables the remove button goes through: the rows selected are removed, the
\* last one first.
Shrinking(h, r, p, V) ==
    /\ h \in [0 .. Len(p) -> Seq(V)] /\ h[0] = r /\ h[Len(p)] = Cookie!Without(r, p)
    /\ \A i \in 1 .. Len(p) :
         LET q == p[(Len(p) - i) + 1]
         IN  h[i] = IF q \in DOMAIN h[i - 1] THEN Cookie!RemoveAt(h[i - 1], q) ELSE h[i - 1]

\* Without goes through such tables.
LEMMA ShrinkSteps ==
    ASSUME NEW V, NEW r \in Seq(V), NEW p \in Seq(Nat)
    PROVE  \E h : Shrinking(h, r, p, V)
<1> DEFINE n == Len(p)
           s == Cookie!Reverse(p)
           S == Seq(V)
           O(k, u) == IF u \in DOMAIN k THEN Cookie!RemoveAt(k, u) ELSE k
           G == [i \in 1 .. n |-> [x \in S |-> O(x, s[i])]]
           Eq(f) == f = [x \in SUBSET (1 .. n) |->
                          IF x = {} THEN r ELSE O(f[x \ {Max(x)}], s[Max(x)])]
           g == CHOOSE f : Eq(f)
<1>0. /\ n \in Nat /\ DOMAIN s = 1 .. n /\ Len(s) = n
      /\ \A i \in 1 .. n : s[i] = p[(n - i) + 1]
  BY DEF Cookie!Reverse
<1>1. Cookie!Without(r, p) = g[1 .. n]
  BY <1>0 DEF Cookie!Without, Cookie!FoldLeft, Cookie!MapThenFoldSet, Max, Cookie!Max
<1>2. G \in [1 .. n -> [S -> S]] /\ r \in S
  <2>1. ASSUME NEW x \in S, NEW u PROVE O(x, u) \in S
    <3>1. CASE u \in DOMAIN x
      <4>1. Cookie!RemoveAt(x, u) \in S
        BY <2>1, <3>1, RemoveAtIs
      <4> QED
        BY <3>1, <4>1
    <3>2. CASE u \notin DOMAIN x
      BY <2>1, <3>2
    <3> QED
      BY <3>1, <3>2
  <2> HIDE DEF O, S
  <2>2. r \in S
    BY DEF S
  <2> QED
    BY <2>1, <2>2
<1>3. \A i \in 1 .. n : \A x \in S : G[i][x] = O(x, s[i])
  OBVIOUS
<1> HIDE DEF G, O, S, n, s
<1>4. PICK e \in [SUBSET (1 .. n) -> S] : Folds(e, r, G, n)
  BY <1>0, <1>2, FoldExists
<1>5. Eq(e)
  <2>1. ASSUME NEW x \in SUBSET (1 .. n), x # {}
        PROVE  G[Max(x)][e[x \ {Max(x)}]] = O(e[x \ {Max(x)}], s[Max(x)])
    <3>1. Max(x) \in 1 .. n /\ e[x \ {Max(x)}] \in S
      BY <1>0, <2>1, MaxInside
    <3> QED
      BY <1>3, <3>1
  <2> QED
    BY <1>4, <2>1 DEF Folds
<1>6. Eq(g)
  BY <1>5
<1>7. g[{}] = r
  BY <1>6
<1>8. ASSUME NEW x \in SUBSET (1 .. n), x # {}, g[x \ {Max(x)}] \in S
      PROVE  g[x] = G[Max(x)][g[x \ {Max(x)}]]
  <2>1. g[x] = O(g[x \ {Max(x)}], s[Max(x)])
    BY <1>6, <1>8
  <2>2. Max(x) \in 1 .. n
    BY <1>0, <1>8, MaxInside
  <2> HIDE DEF g
  <2> QED
    BY <1>3, <1>8, <2>1, <2>2
<1> HIDE DEF g, Eq
<1>9. FoldRule(g, r, G, n, S)
  BY <1>7, <1>8 DEF FoldRule
<1>10. PICK h \in [0 .. n -> S] : FoldPath(h, g, r, G, n)
  BY <1>0, <1>2, <1>9, FoldSteps
<1>11. \A i \in 1 .. n : h[i] = O(h[i - 1], s[i])
  <2>1. \A i \in 1 .. n : i - 1 \in 0 .. n
    BY <1>0
  <2>2. \A i \in 1 .. n : h[i - 1] \in S
    BY <1>10, <2>1
  <2> QED
    BY <1>3, <1>10, <2>2 DEF FoldPath
<1>12. \A i \in 1 .. n : h[i] = O(h[i - 1], p[(n - i) + 1])
  BY <1>0, <1>11
<1>13. Shrinking(h, r, p, V)
  BY <1>1, <1>10, <1>12 DEF S, O, n, FoldPath, Shrinking
<1> QED
  BY <1>13

\* Of the rows that are left no two are in R, if no two were before.
LEMMA WithoutFree ==
    ASSUME NEW V, NEW R, NEW r \in Seq(V), NEW p \in Seq(Nat), Apart(r, R)
    PROVE  Cookie!Without(r, p) \in Seq(V) /\ Apart(Cookie!Without(r, p), R)
<1>1. PICK h : Shrinking(h, r, p, V)
  BY ShrinkSteps
<1> DEFINE n == Len(p)
           T == {i \in Nat : i <= n => Apart(h[i], R)}
<1>2. n \in Nat /\ h \in [0 .. n -> Seq(V)] /\ h[0] = r /\ h[n] = Cookie!Without(r, p)
  BY <1>1 DEF Shrinking
<1>3. ASSUME NEW t \in Seq(V), NEW i \in DOMAIN t, Apart(t, R)
      PROVE Apart(Cookie!RemoveAt(t, i), R)
  <2> DEFINE u == Cookie!RemoveAt(t, i)
             m == Len(t)
             at(k) == IF k < i THEN k ELSE k + 1
  <2>1. /\ m \in Nat /\ DOMAIN t = 1 .. m /\ DOMAIN u = 1 .. (m - 1)
        /\ \A k \in 1 .. (m - 1) : u[k] = IF k < i THEN t[k] ELSE t[k + 1]
    BY RemoveAtIs
  <2> HIDE DEF u, m
  <2>2. \A k \in 1 .. (m - 1) : at(k) \in 1 .. m /\ u[k] = t[at(k)]
    BY <2>1
  <2>3. \A j, k \in 1 .. (m - 1) : j # k => at(j) # at(k)
    BY <2>1
  <2> HIDE DEF at
  <2>4. Apart(u, R)
    BY <1>3, <2>1, <2>2, <2>3 DEF Apart
  <2> QED
    BY <2>4 DEF u
<1>4. 0 \in T
  BY <1>2
<1>5. ASSUME NEW i \in Nat, i \in T PROVE i + 1 \in T
  <2> SUFFICES ASSUME i + 1 <= n PROVE Apart(h[i + 1], R)
    OBVIOUS
  <2>1. i + 1 \in 1 .. n /\ (i + 1) - 1 = i /\ h[i] \in Seq(V) /\ Apart(h[i], R)
    BY <1>2, <1>5
  <2>2. PICK q : h[i + 1] = IF q \in DOMAIN h[i] THEN Cookie!RemoveAt(h[i], q) ELSE h[i]
    BY <1>1, <2>1 DEF Shrinking
  <2> QED
    BY <1>3, <2>1, <2>2
<1> HIDE DEF T
<1>6. \A i \in Nat : i \in T
  BY <1>4, <1>5, SetInduction
<1>7. n \in T /\ n \in 0 .. n
  BY <1>2, <1>6
<1> QED
  BY <1>2, <1>7 DEF T

-----------------------------------------------------------------------------
(* Rows that are removed.                                                  *)

\* The number of a row that is left when the rows of Q are gone: how many of the
\* rows up to it are left.
Rank(Q, i) == Cardinality({j \in 1 .. i : j \notin Q})

\* The next row has the next number, if it is left.
LEMMA RankNext ==
    ASSUME NEW Q, NEW i \in Nat
    PROVE  /\ Rank(Q, i) \in Nat /\ Rank(Q, 0) = 0
           /\ i + 1 \in Q => Rank(Q, i + 1) = Rank(Q, i)
           /\ i + 1 \notin Q => Rank(Q, i + 1) = Rank(Q, i) + 1
<1> DEFINE A == {j \in 1 .. i : j \notin Q}
           B == {j \in 1 .. i + 1 : j \notin Q}
<1>1. IsFiniteSet(1 .. i) /\ A \subseteq 1 .. i
  BY FS_Interval
<1>2. IsFiniteSet(A)
  BY <1>1, FS_Subset
<1>3. Cardinality(A) \in Nat
  BY <1>2, FS_CardinalityType
<1>4. ASSUME i + 1 \in Q PROVE B = A
  BY <1>4
<1>5. ASSUME i + 1 \notin Q PROVE B = A \cup {i + 1} /\ i + 1 \notin A
  BY <1>5
<1>6. {j \in 1 .. 0 : j \notin Q} = {}
  OBVIOUS
<1>7. Rank(Q, 0) = 0
  BY <1>6, FS_EmptySet DEF Rank
<1>8. Rank(Q, i) = Cardinality(A) /\ Rank(Q, i + 1) = Cardinality(B)
  BY DEF Rank
<1> HIDE DEF A, B
<1>9. i + 1 \notin A => Cardinality(A \cup {i + 1}) = Cardinality(A) + 1
  BY <1>2, FS_AddElement
<1> QED
  BY <1>3, <1>4, <1>5, <1>7, <1>8, <1>9

\* Of two rows that are left the later one has the larger number.
LEMMA RankGrows ==
    ASSUME NEW Q, NEW i \in Nat, NEW k \in Nat, i < k, k \notin Q
    PROVE  Rank(Q, i) < Rank(Q, k)
<1> DEFINE T == {d \in Nat : Rank(Q, i) <= Rank(Q, i + d)}
<1>1. 0 \in T
  BY RankNext
<1>2. ASSUME NEW d \in Nat, d \in T PROVE d + 1 \in T
  <2>1. /\ Rank(Q, i + d) \in Nat
        /\ i + d + 1 \in Q => Rank(Q, i + d + 1) = Rank(Q, i + d)
        /\ i + d + 1 \notin Q => Rank(Q, i + d + 1) = Rank(Q, i + d) + 1
    BY RankNext
  <2>2. Rank(Q, i) \in Nat /\ i + d + 1 = i + (d + 1)
    BY RankNext
  <2> QED
    BY <1>2, <2>1, <2>2
<1> HIDE DEF T
<1>3. \A d \in Nat : d \in T
  BY <1>1, <1>2, SetInduction
<1>4. k - 1 - i \in Nat /\ i + (k - 1 - i) = k - 1 /\ k - 1 \in Nat /\ (k - 1) + 1 = k
  OBVIOUS
<1>5. Rank(Q, i) <= Rank(Q, k - 1)
  BY <1>3, <1>4 DEF T
<1>6. /\ Rank(Q, k - 1) \in Nat
      /\ (k - 1) + 1 \notin Q => Rank(Q, (k - 1) + 1) = Rank(Q, k - 1) + 1
  BY <1>4, RankNext
<1>7. Rank(Q, i) \in Nat
  BY RankNext
<1> QED
  BY <1>4, <1>5, <1>6, <1>7

\* A row before all of Q keeps its number.
LEMMA RankFirst ==
    ASSUME NEW Q, NEW i \in Nat, \A x \in Q : x > i
    PROVE  Rank(Q, i) = i
<1>1. {j \in 1 .. i : j \notin Q} = 1 .. i
  OBVIOUS
<1>2. Cardinality(1 .. i) = IF 1 > i THEN 0 ELSE i - 1 + 1
  BY FS_Interval
<1>3. Cardinality(1 .. i) = i
  BY <1>2
<1> QED
  BY <1>1, <1>3 DEF Rank

\* One row more in Q, and the rows behind it move up by one.
LEMMA RankLess ==
    ASSUME NEW Q, NEW i \in Nat, NEW q \in Nat \ {0}, q \notin Q
    PROVE  /\ q > i => Rank(Q \cup {q}, i) = Rank(Q, i)
           /\ q <= i => Rank(Q \cup {q}, i) = Rank(Q, i) - 1
<1> DEFINE A == {j \in 1 .. i : j \notin Q}
           B == {j \in 1 .. i : j \notin Q \cup {q}}
<1>1. IsFiniteSet(1 .. i) /\ A \subseteq 1 .. i
  BY FS_Interval
<1>2. IsFiniteSet(A)
  BY <1>1, FS_Subset
<1>4. ASSUME q > i PROVE B = A
  BY <1>4
<1>5. ASSUME q <= i PROVE B = A \ {q} /\ q \in A
  BY <1>5
<1>6. Rank(Q, i) = Cardinality(A) /\ Rank(Q \cup {q}, i) = Cardinality(B)
  BY DEF Rank
<1> HIDE DEF A, B
<1>7. q \in A => Cardinality(A \ {q}) = Cardinality(A) - 1
  BY <1>2, FS_RemoveElement
<1> QED
  BY <1>4, <1>5, <1>6, <1>7

\* In t are the rows of r but those of Q, in their order.
LeftOf(t, r, Q) ==
    \A k \in DOMAIN t : \E i \in DOMAIN r \ Q : Rank(Q, i) = k /\ t[k] = r[i]

\* A row before all those that are gone is removed where it stands.
LEMMA OneLess ==
    ASSUME NEW V, NEW r \in Seq(V), NEW t \in Seq(V), NEW Q \in SUBSET Nat,
           LeftOf(t, r, Q), NEW q, q \in DOMAIN t, q \in DOMAIN r, \A x \in Q : q < x
    PROVE  LeftOf(Cookie!RemoveAt(t, q), r, Q \cup {q})
<1> DEFINE u == Cookie!RemoveAt(t, q)
           m == Len(t)
           n == Len(r)
           P == Q \cup {q}
<1>1. /\ m \in Nat /\ n \in Nat /\ DOMAIN t = 1 .. m /\ DOMAIN r = 1 .. n
      /\ q \in 1 .. m /\ q \in 1 .. n /\ q \in Nat \ {0} /\ q \notin Q
  OBVIOUS
<1>2. /\ u \in Seq(V) /\ Len(u) = m - 1 /\ DOMAIN u = 1 .. (m - 1)
      /\ \A k \in 1 .. (m - 1) : u[k] = IF k < q THEN t[k] ELSE t[k + 1]
  BY RemoveAtIs
<1> HIDE DEF u, m, n
<1>3. \A k \in 1 .. m : \E i \in 1 .. n : i \notin Q /\ Rank(Q, i) = k /\ t[k] = r[i]
  BY <1>1 DEF LeftOf
<1>4. ASSUME NEW i \in 1 .. n, i <= q PROVE i \notin Q /\ Rank(Q, i) = i
  <2>1. i \in Nat /\ \A x \in Q : x > i
    BY <1>1, <1>4
  <2>2. i \notin Q
    BY <2>1
  <2> QED
    BY <2>1, <2>2, RankFirst
<1>5. ASSUME NEW k \in 1 .. (m - 1)
      PROVE  \E i \in 1 .. n : i \notin P /\ Rank(P, i) = k /\ u[k] = r[i]
  <2>1. CASE k < q
    <3>1. k \in 1 .. m /\ k \in 1 .. n /\ k \in Nat
      BY <1>1, <2>1
    <3>2. PICK i \in 1 .. n : i \notin Q /\ Rank(Q, i) = k /\ t[k] = r[i]
      BY <1>3, <3>1
    <3>3. k \notin Q /\ Rank(Q, k) = k
      BY <1>4, <2>1, <3>1
    <3>4. i \in Nat /\ (i < k => Rank(Q, i) < Rank(Q, k)) /\ (k < i => Rank(Q, k) < Rank(Q, i))
      BY <1>1, <3>1, <3>2, <3>3, RankGrows
    <3>5. i = k
      BY <3>1, <3>2, <3>3, <3>4
    <3>6. Rank(P, k) = Rank(Q, k)
      BY <1>1, <2>1, <3>1, RankLess
    <3> QED
      BY <1>2, <2>1, <3>1, <3>2, <3>3, <3>5, <3>6
  <2>2. CASE ~(k < q)
    <3>1. k + 1 \in 1 .. m
      BY <1>1
    <3>2. PICK i \in 1 .. n : i \notin Q /\ Rank(Q, i) = k + 1 /\ t[k + 1] = r[i]
      BY <1>3, <3>1
    <3>3. q < i
      BY <1>1, <1>4, <2>2, <3>2
    <3>4. Rank(P, i) = Rank(Q, i) - 1
      <4>1. i \in Nat /\ q <= i
        BY <1>1, <3>3
      <4> QED
        BY <1>1, <4>1, RankLess
    <3>5. i \notin P /\ u[k] = t[k + 1]
      BY <1>1, <1>2, <2>2, <3>2, <3>3
    <3> QED
      BY <3>2, <3>4, <3>5
  <2> QED
    BY <2>1, <2>2
<1>6. LeftOf(u, r, P)
  BY <1>1, <1>2, <1>5 DEF LeftOf
<1> QED
  BY <1>6 DEF u

\* Rows that were selected from top to bottom are the ones that are gone.
LEMMA RemovedAre ==
    ASSUME NEW V, NEW r \in Seq(V), NEW p \in Seq(Nat), Cookie!ToSet(p) \subseteq DOMAIN r,
           \A i, j \in DOMAIN p : i < j => p[i] < p[j]
    PROVE  /\ Cookie!Without(r, p) \in Seq(V) /\ Len(Cookie!Without(r, p)) = Len(r) - Len(p)
           /\ LeftOf(Cookie!Without(r, p), r, Cookie!ToSet(p))
<1> DEFINE m == Len(p)
           n == Len(r)
           Q(d) == {p[i] : i \in (m - d + 1) .. m}
<1>1. /\ m \in Nat /\ n \in Nat /\ DOMAIN p = 1 .. m /\ DOMAIN r = 1 .. n
      /\ \A i \in 1 .. m : p[i] \in 1 .. n
  <2>1. \A i \in DOMAIN p : p[i] \in DOMAIN r
    BY DEF Cookie!ToSet
  <2> QED
    BY <2>1
<1>2. PICK h : Shrinking(h, r, p, V)
  BY ShrinkSteps
<1>3. /\ h \in [0 .. m -> Seq(V)] /\ h[0] = r /\ h[m] = Cookie!Without(r, p)
      /\ \A i \in 1 .. m :
           h[i] = IF p[(m - i) + 1] \in DOMAIN h[i - 1]
                  THEN Cookie!RemoveAt(h[i - 1], p[(m - i) + 1])
                  ELSE h[i - 1]
  BY <1>2 DEF Shrinking
<1>4. \A i, j \in 1 .. m : i < j => p[i] < p[j]
  BY <1>1
<1> HIDE DEF m, n
<1>5. \A d \in Nat : d < m => p[m - d] <= n - d
  <2> DEFINE T == {d \in Nat : d < m => p[m - d] <= n - d}
  <2>1. 0 \in T
    BY <1>1
  <2>2. ASSUME NEW d \in Nat, d \in T PROVE d + 1 \in T
    <3> SUFFICES ASSUME d + 1 < m PROVE p[m - (d + 1)] <= n - (d + 1)
      OBVIOUS
    <3>1. m - (d + 1) \in 1 .. m /\ m - d \in 1 .. m /\ m - (d + 1) < m - d /\ d < m
      BY <1>1
    <3>2. p[m - (d + 1)] < p[m - d] /\ p[m - (d + 1)] \in 1 .. n /\ p[m - d] \in 1 .. n
      BY <1>1, <1>4, <3>1
    <3>3. p[m - d] <= n - d
      BY <2>2, <3>1
    <3> QED
      BY <1>1, <3>2, <3>3
  <2> HIDE DEF T
  <2>3. \A d \in Nat : d \in T
    BY <2>1, <2>2, SetInduction
  <2> QED
    BY <2>3 DEF T
<1> DEFINE T == {d \in Nat : d <= m => Len(h[d]) = n - d /\ LeftOf(h[d], r, Q(d))}
<1>6. 0 \in T
  <2>1. Q(0) = {}
    BY <1>1
  <2>2. Len(h[0]) = n - 0
    BY <1>1, <1>3 DEF n
  <2>3. ASSUME NEW k \in 1 .. n PROVE Rank({}, k) = k
    <3>1. k \in Nat /\ \A x \in {} : x > k
      OBVIOUS
    <3> QED
      BY <3>1, RankFirst
  <2>4. LeftOf(r, r, {})
    BY <1>1, <2>3 DEF LeftOf
  <2> HIDE DEF Q
  <2> QED
    BY <1>3, <2>1, <2>2, <2>4
<1>7. ASSUME NEW d \in Nat, d \in T PROVE d + 1 \in T
  <2> SUFFICES ASSUME d + 1 <= m
               PROVE  Len(h[d + 1]) = n - (d + 1) /\ LeftOf(h[d + 1], r, Q(d + 1))
    OBVIOUS
  <2> DEFINE q == p[m - d]
  <2>1. /\ d + 1 \in 1 .. m /\ (d + 1) - 1 = d /\ (m - (d + 1)) + 1 = m - d
        /\ m - d \in 1 .. m /\ d < m /\ d <= m /\ d \in 0 .. m
    BY <1>1
  <2>2. Len(h[d]) = n - d /\ LeftOf(h[d], r, Q(d)) /\ h[d] \in Seq(V)
    BY <1>3, <1>7, <2>1
  <2>3. q \in 1 .. n /\ q <= n - d
    BY <1>1, <1>5, <2>1
  <2>4. q \in DOMAIN h[d] /\ q \in DOMAIN r
    BY <1>1, <2>2, <2>3
  <2>5. \A x \in Q(d) : q < x
    BY <1>1, <1>4, <2>1
  <2>6. Q(d + 1) = Q(d) \cup {q}
    <3>1. (m - (d + 1) + 1) .. m = {m - d} \cup ((m - d + 1) .. m)
      BY <1>1, <2>1
    <3> QED
      BY <3>1
  <2>7. h[d + 1] = Cookie!RemoveAt(h[d], q)
    BY <1>3, <2>1, <2>4
  <2>9. Q(d) \in SUBSET Nat
    <3>1. \A i \in (m - d + 1) .. m : i \in 1 .. m /\ p[i] \in Nat
      BY <1>1, <2>1
    <3> QED
      BY <3>1
  <2> HIDE DEF Q, q
  <2>8. /\ Len(Cookie!RemoveAt(h[d], q)) = Len(h[d]) - 1
        /\ LeftOf(Cookie!RemoveAt(h[d], q), r, Q(d) \cup {q})
    <3> DEFINE t == h[d]
               U == Q(d)
    <3>1. /\ t \in Seq(V) /\ U \in SUBSET Nat /\ LeftOf(t, r, U)
          /\ q \in DOMAIN t /\ q \in DOMAIN r /\ \A x \in U : q < x
      BY <2>2, <2>4, <2>5, <2>9
    <3> HIDE DEF t, U
    <3>2. LeftOf(Cookie!RemoveAt(t, q), r, U \cup {q})
      BY <3>1, OneLess
    <3>3. Len(Cookie!RemoveAt(t, q)) = Len(t) - 1
      BY <3>1, RemoveAtIs
    <3> QED
      BY <3>2, <3>3 DEF t, U
  <2>10. LeftOf(h[d + 1], r, Q(d + 1))
    BY <2>6, <2>7, <2>8
  <2>11. Len(h[d + 1]) = n - (d + 1)
    BY <1>1, <2>2, <2>7, <2>8
  <2> QED
    BY <2>10, <2>11
<1> HIDE DEF T
<1>8. \A d \in Nat : d \in T
  BY <1>6, <1>7, SetInduction
<1>9. Len(h[m]) = n - m /\ LeftOf(h[m], r, Q(m)) /\ h[m] \in Seq(V)
  <2> HIDE DEF Q
  <2>1. m \in T /\ m <= m /\ m \in 0 .. m
    BY <1>1, <1>8
  <2>2. Len(h[m]) = n - m /\ LeftOf(h[m], r, Q(m))
    BY <2>1 DEF T
  <2> QED
    BY <1>3, <2>1, <2>2
<1>10. Q(m) = Cookie!ToSet(p)
  <2>1. (m - m + 1) .. m = 1 .. m
    BY <1>1
  <2> QED
    BY <1>1, <2>1 DEF Cookie!ToSet
<1> QED
  BY <1>3, <1>9, <1>10 DEF m, n

\* What is left is given by the numbers alone.
LeftTable(n, r, Q) ==
    [k \in 1 .. n |->
       r[CHOOSE i \in DOMAIN r \ Q : Cookie!Cardinality({j \in 1 .. i : j \notin Q}) = k]]

\* The two modules count by the same definition.
LEMMA CookieCount ==
    ASSUME NEW S PROVE Cookie!Cardinality(S) = Cardinality(S)
  BY DEF Cookie!Cardinality, Cardinality

\* There is but one row of a number.
LEMMA LeftIs ==
    ASSUME NEW V, NEW r \in Seq(V), NEW t \in Seq(V), NEW Q, LeftOf(t, r, Q)
    PROVE  t = LeftTable(Len(t), r, Q)
<1>1. ASSUME NEW k \in DOMAIN t
      PROVE  t[k] = r[CHOOSE i \in DOMAIN r \ Q : Rank(Q, i) = k]
  <2>1. PICK i \in DOMAIN r \ Q : Rank(Q, i) = k /\ t[k] = r[i]
    BY <1>1 DEF LeftOf
  <2>2. \A x, y \in DOMAIN r \ Q : x \in Nat /\ (x < y => Rank(Q, x) < Rank(Q, y))
    BY RankGrows
  <2>3. \A x \in Nat : Rank(Q, x) \in Nat
    BY RankNext
  <2>4. ASSUME NEW x \in DOMAIN r \ Q, Rank(Q, x) = k PROVE x = i
    <3>1. x \in Nat /\ i \in Nat /\ Rank(Q, x) \in Nat
      BY <2>1, <2>2, <2>3
    <3>2. (x < i => Rank(Q, x) < Rank(Q, i)) /\ (i < x => Rank(Q, i) < Rank(Q, x))
      BY <2>1, <2>2
    <3> QED
      BY <2>1, <2>4, <3>1, <3>2
  <2>5. (CHOOSE x \in DOMAIN r \ Q : Rank(Q, x) = k) = i
    BY <2>1, <2>4
  <2> QED
    BY <2>1, <2>5
<1>2. DOMAIN t = 1 .. Len(t) /\ t = [k \in 1 .. Len(t) |-> t[k]]
  OBVIOUS
<1>3. t = [k \in 1 .. Len(t) |-> r[CHOOSE i \in DOMAIN r \ Q : Rank(Q, i) = k]]
  BY <1>1, <1>2
<1> QED
  BY <1>3, CookieCount DEF Rank, LeftTable

-----------------------------------------------------------------------------
(* The table, the file and the two settings.                               *)

\* What the proofs need to know: a cell may be left empty, and the user can write
\* a domain in lower case as well.
CookieAssumption == "" \in Names /\ \A d \in Domains : Cookie!Lower(d) \in Domains \cup {"*", "a"}

Cells == Domains \cup {"*", "a"}
Contents == Values \cup {"", "before"}
CookieRows == [domain : Cells, name : Names, value : Contents, hidden : BOOLEAN]
GlobalPairs == [name : Names, value : Contents]
DomainRules == [domain : Cells, name : Names, value : Contents]

\* Two rows that are marked, and two with one key.
Alike == {p \in CookieRows \X CookieRows :
            /\ p[1].name # "" /\ Cookie!Lower(p[1].name) = Cookie!Lower(p[2].name)
            /\ Cookie!Lower(Cookie!Domain(p[1].domain)) = Cookie!Lower(Cookie!Domain(p[2].domain))}
OneKey == {p \in CookieRows \X CookieRows : Cookie!SameKey(p[1], p[2])}

\* The hint may say too much, as it stays when rows go, but never too little.
CookieInv ==
    /\ open \in BOOLEAN /\ hint \in BOOLEAN
    /\ cookies \in Seq(CookieRows) /\ file \in Seq(CookieRows)
    /\ picked \in Seq(Nat) /\ Cookie!ToSet(picked) \subseteq DOMAIN cookies
    /\ header \in Seq(GlobalPairs) /\ rules \in Seq(DomainRules)
    /\ \A i, j \in DOMAIN rules :
         rules[i].domain = rules[j].domain
           /\ Cookie!Lower(rules[i].name) = Cookie!Lower(rules[j].name)
           => i = j
    /\ hint \/ Apart(cookies, Alike)

\* A cell is written in lower case, or as the star.
LEMMA CellsAre ==
    ASSUME CookieAssumption, NEW d \in Cells
    PROVE  Cookie!Lower(d) \in Cells /\ Cookie!Domain(d) \in Cells
  BY DEF CookieAssumption, Cells, Cookie!Lower, Cookie!Domain

\* Without marked rows no two are alike.
LEMMA MarkedAre ==
    ASSUME NEW s \in Seq(CookieRows), Cookie!Marked(s) = {}
    PROVE  Apart(s, Alike)
<1> SUFFICES ASSUME NEW i \in DOMAIN s, NEW j \in DOMAIN s, i # j, <<s[i], s[j]>> \in Alike
             PROVE  FALSE
  BY DEF Apart
<1>1. /\ s[i].name # "" /\ Cookie!Lower(s[i].name) = Cookie!Lower(s[j].name)
      /\ Cookie!Lower(Cookie!Domain(s[i].domain)) = Cookie!Lower(Cookie!Domain(s[j].domain))
  BY DEF Alike
<1>2. i \in Cookie!Marked(s)
  BY <1>1 DEF Cookie!Marked
<1> QED
  BY <1>2

\* The rows with a name.
LEMMA NamedAre ==
    ASSUME NEW s \in Seq(CookieRows)
    PROVE  /\ Cookie!Named(s) \in Seq(CookieRows)
           /\ Cookie!ToSet(Cookie!Named(s)) = {w \in Cookie!ToSet(s) : w.name # ""}
<1> DEFINE M == {w \in Cookie!ToSet(s) : w.name # ""}
<1>1. Cookie!Named(s) = Cookie!Those(s, M) /\ Cookie!ToSet(s) \cap M = M
  BY DEF Cookie!Named
<1> HIDE DEF M
<1>2. Cookie!Those(s, M) \in Seq(CookieRows)
      /\ Cookie!ToSet(Cookie!Those(s, M)) = Cookie!ToSet(s) \cap M
  BY ThoseIs
<1>3. Cookie!Named(s) \in Seq(CookieRows) /\ Cookie!ToSet(Cookie!Named(s)) = M
  BY <1>1, <1>2
<1> QED
  BY <1>3 DEF M

\* Two with a name are two rows.
LEMMA NamedApart ==
    ASSUME NEW s \in Seq(CookieRows), NEW R, Apart(s, R)
    PROVE  Apart(Cookie!Named(s), R)
<1> DEFINE M == {w \in Cookie!ToSet(s) : w.name # ""}
<1>1. Cookie!Named(s) = Cookie!Those(s, M)
  BY DEF Cookie!Named
<1> HIDE DEF M
<1>2. Apart(Cookie!Those(s, M), R)
  BY ThoseApart
<1> QED
  BY <1>1, <1>2

\* Two lists, one after the other.
LEMMA BothAre ==
    ASSUME NEW V, NEW s \in Seq(V), NEW t \in Seq(V)
    PROVE  s \o t \in Seq(V) /\ Cookie!ToSet(s \o t) = Cookie!ToSet(s) \cup Cookie!ToSet(t)
<1> DEFINE c == s \o t
           m == Len(s)
           n == Len(t)
<1>1. /\ c \in Seq(V) /\ Len(c) = m + n /\ m \in Nat /\ n \in Nat
      /\ \A i \in 1 .. m + n : c[i] = IF i <= m THEN s[i] ELSE t[i - m]
  BY ConcatProperties
<1>2. DOMAIN s = 1 .. m /\ DOMAIN t = 1 .. n /\ DOMAIN c = 1 .. m + n
  BY <1>1
<1> HIDE DEF c, m, n
<1>3. \A i \in 1 .. m : i \in 1 .. m + n /\ c[i] = s[i]
  BY <1>1
<1>4. \A i \in 1 .. n : i + m \in 1 .. m + n /\ c[i + m] = t[i]
  BY <1>1
<1>5. \A i \in 1 .. m + n : (i \in 1 .. m /\ c[i] = s[i]) \/ (i - m \in 1 .. n /\ c[i] = t[i - m])
  BY <1>1
<1>6. Cookie!ToSet(c) = Cookie!ToSet(s) \cup Cookie!ToSet(t)
  BY <1>2, <1>3, <1>4, <1>5 DEF Cookie!ToSet
<1> QED
  BY <1>1, <1>6 DEF c

\* What the dialog shows of two settings.
LoadedOf(hd, rl) == [i \in DOMAIN hd |-> Cookie!Row("*", hd[i].name, Cookie!Cut(hd[i].value))]
                    \o [i \in DOMAIN rl |-> Cookie!Row(rl[i].domain, rl[i].name, rl[i].value)]

\* What is loaded: a row for each pair of the header and for each rule, and no other.
LEMMA LoadedIs ==
    ASSUME NEW hd \in Seq(GlobalPairs), NEW rl \in Seq(DomainRules)
    PROVE  /\ LoadedOf(hd, rl) \in Seq(CookieRows)
           /\ Cookie!ToSet(LoadedOf(hd, rl)) =
                {Cookie!Row("*", c.name, Cookie!Cut(c.value)) : c \in Cookie!ToSet(hd)}
                \cup {Cookie!Row(c.domain, c.name, c.value) : c \in Cookie!ToSet(rl)}
<1> DEFINE a == [i \in DOMAIN hd |-> Cookie!Row("*", hd[i].name, Cookie!Cut(hd[i].value))]
           b == [i \in DOMAIN rl |-> Cookie!Row(rl[i].domain, rl[i].name, rl[i].value)]
<1>1. \A c \in GlobalPairs : Cookie!Row("*", c.name, Cookie!Cut(c.value)) \in CookieRows
  BY DEF GlobalPairs, CookieRows, Cookie!Row, Cookie!Cut, Cells, Contents
<1>2. \A c \in DomainRules : Cookie!Row(c.domain, c.name, c.value) \in CookieRows
  BY DEF DomainRules, CookieRows, Cookie!Row, Cells, Contents
<1>3. a \in Seq(CookieRows) /\ b \in Seq(CookieRows)
  <2>1. \A i \in DOMAIN hd : hd[i] \in GlobalPairs
    OBVIOUS
  <2>2. \A i \in DOMAIN rl : rl[i] \in DomainRules
    OBVIOUS
  <2>3. DOMAIN hd = 1 .. Len(hd) /\ DOMAIN rl = 1 .. Len(rl) /\ Len(hd) \in Nat /\ Len(rl) \in Nat
    OBVIOUS
  <2>4. a \in [1 .. Len(hd) -> CookieRows]
    BY <1>1, <2>1, <2>3
  <2>5. b \in [1 .. Len(rl) -> CookieRows]
    BY <1>2, <2>2, <2>3
  <2> HIDE DEF a, b
  <2> QED
    BY <2>3, <2>4, <2>5
<1>4. Cookie!ToSet(a) = {Cookie!Row("*", c.name, Cookie!Cut(c.value)) : c \in Cookie!ToSet(hd)}
  BY DEF Cookie!ToSet
<1>5. Cookie!ToSet(b) = {Cookie!Row(c.domain, c.name, c.value) : c \in Cookie!ToSet(rl)}
  BY DEF Cookie!ToSet
<1>6. LoadedOf(hd, rl) = a \o b
  BY DEF LoadedOf
<1> HIDE DEF a, b
<1> QED
  BY <1>3, <1>4, <1>5, <1>6, BothAre

\* The lines of an export are rows.
LEMMA LinesAre ==
    ASSUME CookieAssumption, NEW s \in Seq(CookieRows)
    PROVE  Cookie!Lines(s) \in Seq(CookieRows)
<1> DEFINE t == Cookie!Named(s)
<1>1. t \in Seq(CookieRows)
  BY NamedAre
<1>2. \A w \in CookieRows : Cookie!Row(Cookie!Domain(w.domain), w.name, w.value) \in CookieRows
  <2>1. \A w \in CookieRows : /\ w.domain \in Cells /\ w.name \in Names /\ w.value \in Contents
                              /\ Cookie!Domain(w.domain) \in Cells
    BY CellsAre DEF CookieRows
  <2> QED
    BY <2>1 DEF CookieRows, Cookie!Row
<1>3. Cookie!Lines(s) =
        [i \in DOMAIN t |-> Cookie!Row(Cookie!Domain(t[i].domain), t[i].name, t[i].value)]
  BY DEF Cookie!Lines
<1> HIDE DEF t
<1>4. DOMAIN t = 1 .. Len(t) /\ Len(t) \in Nat /\ \A i \in DOMAIN t : t[i] \in CookieRows
  BY <1>1
<1>5. Cookie!Lines(s) \in [1 .. Len(t) -> CookieRows]
  BY <1>2, <1>3, <1>4
<1> QED
  BY <1>4, <1>5

\* What is saved: each row with a name in one of the two settings.
LEMMA GlobalsAre ==
    ASSUME cookies \in Seq(CookieRows)
    PROVE  /\ Cookie!Globals \in Seq(GlobalPairs)
           /\ Cookie!ToSet(Cookie!Globals) =
                {[name |-> w.name, value |-> w.value] :
                   w \in {x \in Cookie!ToSet(Cookie!Named(cookies)) : Cookie!AllDomains(x.domain)}}
<1> DEFINE S == {w \in Cookie!ToSet(cookies) : Cookie!AllDomains(w.domain)}
           t == Cookie!Those(Cookie!Named(cookies), S)
<1>1. /\ Cookie!Named(cookies) \in Seq(CookieRows)
      /\ Cookie!ToSet(Cookie!Named(cookies)) = {w \in Cookie!ToSet(cookies) : w.name # ""}
  BY NamedAre
<1>2. t \in Seq(CookieRows) /\ Cookie!ToSet(t) = Cookie!ToSet(Cookie!Named(cookies)) \cap S
  <2> HIDE DEF S
  <2> QED
    BY <1>1, ThoseIs
<1>3. Cookie!ToSet(t) = {x \in Cookie!ToSet(Cookie!Named(cookies)) : Cookie!AllDomains(x.domain)}
  BY <1>1, <1>2
<1>4. Cookie!Globals = [i \in DOMAIN t |-> [name |-> t[i].name, value |-> t[i].value]]
  BY DEF Cookie!Globals
<1> HIDE DEF t, S
<1>5. DOMAIN t = 1 .. Len(t) /\ Len(t) \in Nat /\ \A i \in DOMAIN t : t[i] \in CookieRows
  BY <1>2
<1>6. \A w \in CookieRows : [name |-> w.name, value |-> w.value] \in GlobalPairs
  BY DEF CookieRows, GlobalPairs
<1>7. Cookie!Globals \in [1 .. Len(t) -> GlobalPairs]
  BY <1>4, <1>5, <1>6
<1>8. Cookie!ToSet(Cookie!Globals) = {[name |-> w.name, value |-> w.value] : w \in Cookie!ToSet(t)}
  BY <1>4 DEF Cookie!ToSet
<1> QED
  BY <1>3, <1>5, <1>7, <1>8

\* The rows for one domain: each has its rule, and each rule is of such a row.
LEMMA RulesAre ==
    ASSUME CookieAssumption, cookies \in Seq(CookieRows)
    PROVE  /\ Cookie!Rules \in Seq(DomainRules)
           /\ Cookie!ToSet(Cookie!Rules) =
                {[domain |-> Cookie!Lower(w.domain), name |-> w.name, value |-> w.value] :
                   w \in {x \in Cookie!ToSet(Cookie!Named(cookies)) : ~Cookie!AllDomains(x.domain)}}
           /\ ~Cookie!Duplicate => \A i, j \in DOMAIN Cookie!Rules :
                /\ Cookie!Rules[i].domain = Cookie!Rules[j].domain
                /\ Cookie!Lower(Cookie!Rules[i].name) = Cookie!Lower(Cookie!Rules[j].name)
                => i = j
<1> DEFINE S == {w \in Cookie!ToSet(cookies) : ~Cookie!AllDomains(w.domain)}
           t == Cookie!Those(Cookie!Named(cookies), S)
           line(w) == [domain |-> Cookie!Lower(w.domain), name |-> w.name, value |-> w.value]
<1>1. /\ Cookie!Named(cookies) \in Seq(CookieRows)
      /\ Cookie!ToSet(Cookie!Named(cookies)) = {w \in Cookie!ToSet(cookies) : w.name # ""}
  BY NamedAre
<1>2. t \in Seq(CookieRows) /\ Cookie!ToSet(t) = Cookie!ToSet(Cookie!Named(cookies)) \cap S
  <2> HIDE DEF S
  <2> QED
    BY <1>1, ThoseIs
<1>12. ASSUME Apart(Cookie!Named(cookies), OneKey) PROVE Apart(t, OneKey)
  <2> HIDE DEF S
  <2> QED
    BY <1>1, <1>12, ThoseApart
<1>3. Cookie!ToSet(t) = {x \in Cookie!ToSet(Cookie!Named(cookies)) : ~Cookie!AllDomains(x.domain)}
  BY <1>1, <1>2
<1>4. Cookie!Rules = [i \in DOMAIN t |-> line(t[i])]
  BY DEF Cookie!Rules
<1>5. ASSUME ~Cookie!Duplicate PROVE Apart(Cookie!Named(cookies), OneKey)
  BY <1>5 DEF Cookie!Duplicate, Apart, OneKey
<1> HIDE DEF t, S
<1>6. DOMAIN t = 1 .. Len(t) /\ Len(t) \in Nat /\ \A i \in DOMAIN t : t[i] \in CookieRows
  BY <1>2
<1>7. \A w \in CookieRows : line(w) \in DomainRules
  <2>1. \A w \in CookieRows : /\ w.domain \in Cells /\ w.name \in Names /\ w.value \in Contents
                              /\ Cookie!Lower(w.domain) \in Cells
    BY CellsAre DEF CookieRows
  <2> QED
    BY <2>1 DEF DomainRules
<1>8. Cookie!Rules \in [1 .. Len(t) -> DomainRules]
  <2> HIDE DEF line
  <2> QED
    BY <1>4, <1>6, <1>7
<1>9. Cookie!ToSet(Cookie!Rules) = {line(w) : w \in Cookie!ToSet(t)}
  BY <1>4 DEF Cookie!ToSet
<1>10. ASSUME ~Cookie!Duplicate, NEW i \in DOMAIN Cookie!Rules, NEW j \in DOMAIN Cookie!Rules,
              Cookie!Rules[i].domain = Cookie!Rules[j].domain,
              Cookie!Lower(Cookie!Rules[i].name) = Cookie!Lower(Cookie!Rules[j].name)
       PROVE  i = j
  <2>1. Apart(t, OneKey)
    BY <1>5, <1>10, <1>12
  <2>2. i \in DOMAIN t /\ j \in DOMAIN t /\ t[i] \in CookieRows /\ t[j] \in CookieRows
    BY <1>4, <1>6, <1>10
  <2>3. Cookie!SameKey(t[i], t[j])
    BY <1>4, <1>10, <2>2 DEF Cookie!SameKey
  <2>4. <<t[i], t[j]>> \in OneKey
    BY <2>2, <2>3 DEF OneKey
  <2> QED
    BY <2>1, <2>2, <2>4 DEF Apart
<1>11. Cookie!Rules \in Seq(DomainRules)
  BY <1>6, <1>8
<1> QED
  BY <1>3, <1>9, <1>10, <1>11

\* A save that is refused: the hint was there.
LEMMA RefusedHasHint ==
    ASSUME CookieInv, Cookie!Duplicate
    PROVE  hint
<1> SUFFICES ASSUME Apart(cookies, Alike) PROVE FALSE
  BY DEF CookieInv
<1> DEFINE t == Cookie!Named(cookies)
<1>1. cookies \in Seq(CookieRows)
  BY DEF CookieInv
<1>2. t \in Seq(CookieRows) /\ Cookie!ToSet(t) = {w \in Cookie!ToSet(cookies) : w.name # ""}
      /\ Apart(t, Alike)
  BY <1>1, NamedAre, NamedApart
<1>3. PICK i \in DOMAIN t, j \in DOMAIN t : i # j /\ Cookie!SameKey(t[i], t[j])
  BY DEF Cookie!Duplicate
<1> HIDE DEF t
<1>4. t[i] \in CookieRows /\ t[j] \in CookieRows /\ t[i] \in Cookie!ToSet(t)
  <2>1. t[i] \in CookieRows /\ t[j] \in CookieRows
    <3>1. t \in Seq(CookieRows)
      BY <1>2
    <3> QED
      BY <3>1
  <2>2. t[i] \in Cookie!ToSet(t)
    BY <1>3 DEF Cookie!ToSet
  <2> QED
    BY <2>1, <2>2
<1>5. t[i].name # ""
  BY <1>2, <1>4
<1>6. Cookie!Lower(t[i].name) = Cookie!Lower(t[j].name)
      /\ Cookie!Lower(t[i].domain) = Cookie!Lower(t[j].domain)
  BY <1>3 DEF Cookie!SameKey
<1>7. Cookie!Lower(Cookie!Domain(t[i].domain)) = Cookie!Lower(Cookie!Domain(t[j].domain))
  BY <1>6 DEF Cookie!Lower, Cookie!Domain
<1>8. <<t[i], t[j]>> \in Alike
  BY <1>4, <1>5, <1>6, <1>7 DEF Alike
<1> QED
  BY <1>2, <1>3, <1>8 DEF Apart

-----------------------------------------------------------------------------
(* The invariant, and the results.                                         *)

\* Types a step may not disturb: the table and what is said about it.
LEMMA ShownIs ==
    ASSUME NEW s \in Seq(CookieRows), Cookie!Displayed(s)
    PROVE  /\ cookies' \in Seq(CookieRows) /\ cookies' = s /\ hint' \in BOOLEAN
           /\ hint' \/ Apart(cookies', Alike)
<1>1. cookies' = s /\ hint' = (Cookie!Marked(s) # {})
  BY DEF Cookie!Displayed
<1>2. Cookie!Marked(s) = {} => Apart(s, Alike)
  BY MarkedAre
<1> QED
  BY <1>1, <1>2

\* The table is gone with the dialog.
LEMMA EmptyIs ==
    /\ <<>> \in Seq(CookieRows) /\ <<>> \in Seq(Nat) /\ <<>> \in Seq(GlobalPairs)
    /\ <<>> \in Seq(DomainRules) /\ Cookie!ToSet(<<>>) = {} /\ DOMAIN <<>> = {}
    /\ Apart(<<>>, Alike)
  BY DEF Cookie!ToSet, Apart

\* Before the dialog is opened there are no rows.
LEMMA CookieInit ==
    ASSUME Cookie!Init PROVE CookieInv
  BY EmptyIs DEF Cookie!Init, CookieInv

\* The steps of the buttons and cells keep it.
LEMMA CookieTable ==
    ASSUME CookieAssumption, CookieInv,
           Cookie!OpenDialog \/ Cookie!AddRow \/ Cookie!EditRow \/ Cookie!PickRow
             \/ Cookie!RemoveRows \/ Cookie!FilterRows
           \/ Cookie!ExportRows \/ Cookie!ImportRows
    PROVE  CookieInv'
<1>0. /\ open \in BOOLEAN /\ hint \in BOOLEAN
      /\ cookies \in Seq(CookieRows) /\ file \in Seq(CookieRows)
      /\ picked \in Seq(Nat) /\ Cookie!ToSet(picked) \subseteq DOMAIN cookies
      /\ header \in Seq(GlobalPairs) /\ rules \in Seq(DomainRules)
      /\ \A i, j \in DOMAIN rules :
           rules[i].domain = rules[j].domain
             /\ Cookie!Lower(rules[i].name) = Cookie!Lower(rules[j].name)
             => i = j
      /\ hint \/ Apart(cookies, Alike)
  BY DEF CookieInv
<1> DEFINE Settled == header' = header /\ rules' = rules
<1>1. CASE Cookie!OpenDialog
  <2>1. /\ open' = TRUE /\ Cookie!Displayed(Cookie!Loaded) /\ picked' = <<>> /\ file' = file
        /\ Settled
    BY <1>1 DEF Cookie!OpenDialog
  <2>2. Cookie!Loaded = LoadedOf(header, rules)
    BY DEF Cookie!Loaded, LoadedOf
  <2>3. Cookie!Loaded \in Seq(CookieRows)
    BY <1>0, <2>2, LoadedIs
  <2>4. cookies' \in Seq(CookieRows) /\ hint' \in BOOLEAN /\ (hint' \/ Apart(cookies', Alike))
    BY <2>1, <2>3, ShownIs
  <2> QED
    BY <1>0, <2>1, <2>4, EmptyIs DEF CookieInv
<1>2. CASE Cookie!AddRow
  <2> DEFINE w == Cookie!Row("*", "", "")
             s == Append(cookies, w)
  <2>1. /\ open' = open /\ Cookie!Displayed(s) /\ picked' = picked /\ file' = file /\ Settled
    BY <1>2 DEF Cookie!AddRow
  <2>2. w \in CookieRows
    BY DEF Cookie!Row, CookieRows, Cells, Contents, CookieAssumption
  <2> HIDE DEF w
  <2>3. s \in Seq(CookieRows) /\ DOMAIN cookies \subseteq DOMAIN s
    BY <1>0, <2>2
  <2> HIDE DEF s
  <2>4. /\ cookies' \in Seq(CookieRows) /\ cookies' = s /\ hint' \in BOOLEAN
        /\ hint' \/ Apart(cookies', Alike)
    BY <2>1, <2>3, ShownIs
  <2> QED
    BY <1>0, <2>1, <2>3, <2>4 DEF CookieInv
<1>3. CASE Cookie!EditRow
  <2>1. PICK i \in DOMAIN cookies, d \in Domains, n \in Names, v \in Values :
          /\ Cookie!Displayed([cookies EXCEPT ![i] = Cookie!Row(d, n, v)])
          /\ open' = open /\ picked' = picked /\ file' = file /\ Settled
    BY <1>3 DEF Cookie!EditRow
  <2> DEFINE w == Cookie!Row(d, n, v)
             s == [cookies EXCEPT ![i] = w]
  <2>2. w \in CookieRows
    BY DEF Cookie!Row, CookieRows, Cells, Contents
  <2> HIDE DEF w
  <2>3. s \in Seq(CookieRows) /\ DOMAIN s = DOMAIN cookies
    BY <1>0, <2>2
  <2>4. Cookie!Displayed(s)
    BY <2>1 DEF w
  <2> HIDE DEF s
  <2>5. /\ cookies' \in Seq(CookieRows) /\ cookies' = s /\ hint' \in BOOLEAN
        /\ hint' \/ Apart(cookies', Alike)
    BY <2>3, <2>4, ShownIs
  <2> QED
    BY <1>0, <2>1, <2>3, <2>5 DEF CookieInv
<1>4. CASE Cookie!PickRow
  <2>1. PICK i \in DOMAIN cookies :
          /\ picked' = Append(picked, i)
          /\ open' = open /\ cookies' = cookies /\ hint' = hint /\ file' = file /\ Settled
    BY <1>4 DEF Cookie!PickRow
  <2>2. i \in Nat
    BY <1>0
  <2>3. Append(picked, i) \in Seq(Nat)
        /\ Cookie!ToSet(Append(picked, i)) = Cookie!ToSet(picked) \cup {i}
    BY <1>0, <2>2, RowMore
  <2> QED
    BY <1>0, <2>1, <2>3 DEF CookieInv
<1>5. CASE Cookie!RemoveRows
  <2>1. /\ cookies' = Cookie!Without(cookies, picked) /\ picked' = <<>>
        /\ open' = open /\ hint' = hint /\ file' = file /\ Settled
    BY <1>5 DEF Cookie!RemoveRows
  <2>2. Cookie!Without(cookies, picked) \in Seq(CookieRows)
    <3>1. Apart(cookies, {})
      BY DEF Apart
    <3> QED
      BY <1>0, <3>1, WithoutFree
  <2>3. Apart(cookies, Alike) => Apart(Cookie!Without(cookies, picked), Alike)
    BY <1>0, WithoutFree
  <2> QED
    BY <1>0, <2>1, <2>2, <2>3, EmptyIs DEF CookieInv
<1>6. CASE Cookie!FilterRows
  <2>1. PICK n \in Names :
          /\ cookies' = [i \in DOMAIN cookies |->
               [cookies[i] EXCEPT !.hidden =
                  n # "" /\ Cookie!Lower(cookies[i].name) # Cookie!Lower(n)]]
          /\ open' = open /\ picked' = picked /\ hint' = hint /\ file' = file /\ Settled
    BY <1>6 DEF Cookie!FilterRows
  <2>2. DOMAIN cookies = 1 .. Len(cookies) /\ Len(cookies) \in Nat
        /\ \A i \in DOMAIN cookies : cookies[i] \in CookieRows
    BY <1>0
  <2>3. \A i \in DOMAIN cookies :
          /\ cookies'[i] \in CookieRows /\ cookies'[i].name = cookies[i].name
          /\ cookies'[i].domain = cookies[i].domain
    <3> SUFFICES ASSUME NEW i \in DOMAIN cookies
                 PROVE  /\ cookies'[i] \in CookieRows /\ cookies'[i].name = cookies[i].name
                        /\ cookies'[i].domain = cookies[i].domain
      OBVIOUS
    <3>1. cookies[i] \in CookieRows
      BY <2>2
    <3>2. PICK b \in BOOLEAN : cookies'[i] = [cookies[i] EXCEPT !.hidden = b]
      BY <2>1
    <3> QED
      BY <3>1, <3>2 DEF CookieRows
  <2>4. DOMAIN cookies' = DOMAIN cookies /\ cookies' \in Seq(CookieRows)
    <3>1. cookies' \in [1 .. Len(cookies) -> CookieRows]
      BY <2>1, <2>2, <2>3
    <3> QED
      BY <2>2, <3>1
  <2>5. ASSUME Apart(cookies, Alike) PROVE Apart(cookies', Alike)
    <3> SUFFICES ASSUME NEW i \in DOMAIN cookies, NEW j \in DOMAIN cookies, i # j,
                        <<cookies'[i], cookies'[j]>> \in Alike
                 PROVE  FALSE
      BY <2>4 DEF Apart
    <3>1. <<cookies[i], cookies[j]>> \in Alike
      BY <2>2, <2>3 DEF Alike
    <3> QED
      BY <2>5, <3>1 DEF Apart
  <2> QED
    BY <1>0, <2>1, <2>4, <2>5 DEF CookieInv
<1>7. CASE Cookie!ExportRows
  <2>1. /\ file' = Cookie!Lines(cookies) /\ open' = open /\ cookies' = cookies /\ picked' = picked
        /\ hint' = hint /\ Settled
    BY <1>7 DEF Cookie!ExportRows
  <2>2. Cookie!Lines(cookies) \in Seq(CookieRows)
    BY <1>0, LinesAre
  <2> QED
    BY <1>0, <2>1, <2>2 DEF CookieInv
<1>8. CASE Cookie!ImportRows
  <2> DEFINE s == cookies \o file
  <2>1. /\ Cookie!Displayed(s) /\ file' = <<>> /\ open' = open /\ picked' = picked /\ Settled
    BY <1>8 DEF Cookie!ImportRows
  <2>2. s \in Seq(CookieRows) /\ DOMAIN cookies \subseteq DOMAIN s
    <3>1. s \in Seq(CookieRows) /\ Len(s) = Len(cookies) + Len(file)
      BY <1>0, ConcatProperties
    <3> HIDE DEF s
    <3> QED
      BY <1>0, <3>1
  <2> HIDE DEF s
  <2>3. /\ cookies' \in Seq(CookieRows) /\ cookies' = s /\ hint' \in BOOLEAN
        /\ hint' \/ Apart(cookies', Alike)
    BY <2>1, <2>2, ShownIs
  <2> QED
    BY <1>0, <2>1, <2>2, <2>3, EmptyIs DEF CookieInv
<1> QED
  BY <1>1, <1>2, <1>3, <1>4, <1>5, <1>6, <1>7, <1>8

\* The steps that leave the dialog keep it, and those that do nothing.
LEMMA CookieNext ==
    ASSUME CookieAssumption, CookieInv, [Cookie!Next]_Cookie!vars
    PROVE  CookieInv'
<1>0. /\ open \in BOOLEAN /\ hint \in BOOLEAN
      /\ cookies \in Seq(CookieRows) /\ file \in Seq(CookieRows)
      /\ picked \in Seq(Nat) /\ Cookie!ToSet(picked) \subseteq DOMAIN cookies
      /\ header \in Seq(GlobalPairs) /\ rules \in Seq(DomainRules)
      /\ \A i, j \in DOMAIN rules :
           rules[i].domain = rules[j].domain
             /\ Cookie!Lower(rules[i].name) = Cookie!Lower(rules[j].name)
             => i = j
      /\ hint \/ Apart(cookies, Alike)
  BY DEF CookieInv
<1>1. ASSUME UNCHANGED <<Cookie!dialog, header, rules>> PROVE CookieInv'
  BY <1>0, <1>1 DEF Cookie!dialog, CookieInv
<1>2. CASE Cookie!OpenDialog \/ Cookie!AddRow \/ Cookie!EditRow \/ Cookie!PickRow
      \/ Cookie!RemoveRows \/ Cookie!FilterRows
           \/ Cookie!ExportRows \/ Cookie!ImportRows
  BY <1>2, CookieTable
<1>3. CASE Cookie!SaveRefused
  BY <1>1, <1>3 DEF Cookie!SaveRefused
<1>4. CASE Cookie!SaveRows
  <2>1. CASE UNCHANGED <<Cookie!dialog, header, rules>>
    BY <1>1, <2>1
  <2>2. CASE header' = Cookie!Globals /\ rules' = Cookie!Rules
        /\ (Cookie!Left \/ UNCHANGED Cookie!dialog)
    <3>1. Cookie!Globals \in Seq(GlobalPairs)
      BY <1>0, GlobalsAre
    <3>2. ~Cookie!Duplicate
      BY <1>4 DEF Cookie!SaveRows
    <3>3. /\ Cookie!Rules \in Seq(DomainRules)
          /\ \A i, j \in DOMAIN Cookie!Rules :
               /\ Cookie!Rules[i].domain = Cookie!Rules[j].domain
               /\ Cookie!Lower(Cookie!Rules[i].name) = Cookie!Lower(Cookie!Rules[j].name)
               => i = j
      BY <1>0, <3>2, RulesAre
    <3>4. header' \in Seq(GlobalPairs) /\ rules' \in Seq(DomainRules)
          /\ \A i, j \in DOMAIN rules' :
               /\ rules'[i].domain = rules'[j].domain
               /\ Cookie!Lower(rules'[i].name) = Cookie!Lower(rules'[j].name)
               => i = j
      BY <2>2, <3>1, <3>3
    <3>5. CASE Cookie!Left
      BY <3>4, <3>5, EmptyIs DEF Cookie!Left, CookieInv
    <3>6. CASE UNCHANGED Cookie!dialog
      BY <1>0, <3>4, <3>6 DEF Cookie!dialog, CookieInv
    <3> QED
      BY <2>2, <3>5, <3>6
  <2> QED
    BY <1>4, <2>1, <2>2 DEF Cookie!SaveRows
<1>5. CASE Cookie!CloseDialog
  BY <1>0, <1>5, EmptyIs DEF Cookie!CloseDialog, Cookie!Left, CookieInv
<1>6. CASE UNCHANGED Cookie!vars
  BY <1>1, <1>6 DEF Cookie!vars, Cookie!dialog
<1> QED
  BY <1>2, <1>3, <1>4, <1>5, <1>6 DEF Cookie!Next

\* What is saved comes back: each cookie from the setting it went to.
LEMMA SavedAre ==
    ASSUME CookieAssumption, CookieInv, header' = Cookie!Globals, rules' = Cookie!Rules
    PROVE  {[domain |-> r.domain, name |-> r.name, value |-> r.value] :
              r \in Cookie!ToSet(Cookie!Loaded')} =
           {IF c.domain = "*" THEN [c EXCEPT !.value = Cookie!Cut(c.value)] ELSE c :
              c \in Cookie!Meant}
<1> DEFINE K == Cookie!ToSet(Cookie!Named(cookies))
           cookie(d, n, v) == [domain |-> d, name |-> n, value |-> v]
           meant(w) == cookie(Cookie!Lower(Cookie!Domain(w.domain)), w.name, w.value)
           back(c) == IF c.domain = "*" THEN [c EXCEPT !.value = Cookie!Cut(c.value)] ELSE c
           again(w) == IF Cookie!AllDomains(w.domain) THEN cookie("*", w.name, Cookie!Cut(w.value))
                       ELSE cookie(Cookie!Lower(w.domain), w.name, w.value)
<1>0. cookies \in Seq(CookieRows)
  BY DEF CookieInv
<1>1. /\ Cookie!Globals \in Seq(GlobalPairs)
      /\ Cookie!ToSet(Cookie!Globals) = {[name |-> w.name, value |-> w.value] :
                             w \in {x \in K : Cookie!AllDomains(x.domain)}}
  BY <1>0, GlobalsAre
<1>2. /\ Cookie!Rules \in Seq(DomainRules)
      /\ Cookie!ToSet(Cookie!Rules) = {cookie(Cookie!Lower(w.domain), w.name, w.value) :
                           w \in {x \in K : ~Cookie!AllDomains(x.domain)}}
  BY <1>0, RulesAre
<1>3. Cookie!Loaded' = LoadedOf(Cookie!Globals, Cookie!Rules)
  BY DEF Cookie!Loaded, LoadedOf
<1>4. Cookie!ToSet(Cookie!Loaded') =
        {Cookie!Row("*", c.name, Cookie!Cut(c.value)) : c \in Cookie!ToSet(Cookie!Globals)}
        \cup {Cookie!Row(c.domain, c.name, c.value) : c \in Cookie!ToSet(Cookie!Rules)}
  BY <1>1, <1>2, <1>3, LoadedIs
<1>5. \A w : back(meant(w)) = again(w)
  <2> TAKE w
  <2>1. CASE Cookie!AllDomains(w.domain)
    <3>1. meant(w) = cookie("*", w.name, w.value)
      BY <2>1 DEF Cookie!AllDomains, Cookie!Domain, Cookie!Lower
    <3> QED
      BY <2>1, <3>1
  <2>2. CASE ~Cookie!AllDomains(w.domain)
    <3>1. meant(w) = cookie(Cookie!Lower(w.domain), w.name, w.value)
          /\ Cookie!Lower(w.domain) # "*"
      BY <2>2 DEF Cookie!AllDomains, Cookie!Domain, Cookie!Lower
    <3> QED
      BY <2>2, <3>1
  <2> QED
    BY <2>1, <2>2
<1>6. {back(c) : c \in Cookie!Meant} = {again(w) : w \in K}
  <2>1. Cookie!Meant = {meant(w) : w \in K}
    BY DEF Cookie!Meant
  <2> HIDE DEF back, meant, again, K
  <2> QED
    BY <1>5, <2>1
<1>7. {cookie(r.domain, r.name, r.value) : r \in Cookie!ToSet(Cookie!Loaded')} =
        {again(w) : w \in K}
  <2>1. \A d, n,
        v : LET r == Cookie!Row(d, n, v) IN cookie(r.domain, r.name, r.value) = cookie(d, n, v)
    BY DEF Cookie!Row
  <2>2. {cookie(r.domain, r.name, r.value) : r \in Cookie!ToSet(Cookie!Loaded')} =
          {cookie("*", c.name, Cookie!Cut(c.value)) : c \in Cookie!ToSet(Cookie!Globals)}
          \cup {cookie(c.domain, c.name, c.value) : c \in Cookie!ToSet(Cookie!Rules)}
    <3> HIDE DEF cookie, K
    <3> QED
      BY <1>4, <2>1
  <2>3. {cookie("*", c.name, Cookie!Cut(c.value)) : c \in Cookie!ToSet(Cookie!Globals)} =
          {cookie("*", w.name, Cookie!Cut(w.value)) : w \in {x \in K : Cookie!AllDomains(x.domain)}}
    <3> DEFINE M == {x \in K : Cookie!AllDomains(x.domain)}
               pair(w) == [name |-> w.name, value |-> w.value]
               star(c) == cookie("*", c.name, Cookie!Cut(c.value))
    <3>1. Cookie!ToSet(Cookie!Globals) = {pair(w) : w \in M}
      BY <1>1
    <3>2. \A w : star(pair(w)) = star(w)
      OBVIOUS
    <3> HIDE DEF M, pair, star
    <3>3. {star(c) : c \in Cookie!ToSet(Cookie!Globals)} = {star(w) : w \in M}
      BY <3>1, <3>2
    <3> QED
      BY <3>3 DEF M, star
  <2>4. {cookie(c.domain, c.name, c.value) : c \in Cookie!ToSet(Cookie!Rules)} =
          {cookie(Cookie!Lower(w.domain), w.name, w.value) :
             w \in {x \in K : ~Cookie!AllDomains(x.domain)}}
    <3> HIDE DEF K
    <3> QED
      BY <1>2
  <2> HIDE DEF cookie, K
  <2> QED
    BY <2>2, <2>3, <2>4
<1> QED
  BY <1>6, <1>7

\* The table, the settings and the selection keep their types, and no name is saved
\* twice for one domain.
THEOREM CookieTypesHold ==
    ASSUME CookieAssumption
    PROVE  Cookie!Spec => []Cookie!TypeOK
<1>1. CookieInv /\ [Cookie!Next]_Cookie!vars => CookieInv'
  BY CookieNext
<1>2. Cookie!Init => CookieInv
  BY CookieInit
<1>3. CookieInv => Cookie!TypeOK
  <2> SUFFICES ASSUME CookieInv PROVE Cookie!TypeOK
    OBVIOUS
  <2>1. cookies \in Seq(CookieRows)
    BY DEF CookieInv
  <2>2. \A i \in DOMAIN cookies : cookies[i] \in CookieRows
    BY <2>1
  <2> QED
    BY <2>2 DEF CookieInv, Cookie!TypeOK, CookieRows, Cells, Contents
<1> QED
  BY <1>1, <1>2, <1>3, PTL DEF Cookie!Spec

\* What the dialog saved it shows again when it is opened next, each cookie for the
\* domain it was meant for: for all tables, however they came to be.
THEOREM CookiesComeBack ==
    ASSUME CookieAssumption
    PROVE  Cookie!Spec => Cookie!SavedComesBack
<1>1. CookieInv /\ [Cookie!Next]_Cookie!vars => CookieInv'
  BY CookieNext
<1>2. Cookie!Init => CookieInv
  BY CookieInit
<1>3. ASSUME CookieInv, Cookie!SaveRows, ~open'
      PROVE  header' = Cookie!Globals /\ rules' = Cookie!Rules
  <2>1. open
    BY <1>3 DEF Cookie!SaveRows
  <2>2. ~UNCHANGED Cookie!dialog
    BY <1>3, <2>1 DEF Cookie!dialog
  <2> QED
    BY <1>3, <2>2 DEF Cookie!SaveRows
<1>4. CookieInv /\ [Cookie!Next]_Cookie!vars =>
        (Cookie!SaveRows /\ ~open' =>
           {[domain |-> r.domain, name |-> r.name, value |-> r.value] :
              r \in Cookie!ToSet(Cookie!Loaded')} =
           {IF c.domain = "*" THEN [c EXCEPT !.value = Cookie!Cut(c.value)] ELSE c :
              c \in Cookie!Meant})
  BY <1>3, SavedAre
<1> QED
  BY <1>1, <1>2, <1>4, PTL DEF Cookie!Spec, Cookie!SavedComesBack

\* The dialog never refuses to save without a hint above the table that says so,
\* although the hint is not made anew when rows are removed.
THEOREM RefusalHasHint ==
    ASSUME CookieAssumption
    PROVE  Cookie!Spec => Cookie!RefusalIsAnnounced
<1>1. CookieInv /\ [Cookie!Next]_Cookie!vars => CookieInv'
  BY CookieNext
<1>2. Cookie!Init => CookieInv
  BY CookieInit
<1>3. CookieInv /\ [Cookie!Next]_Cookie!vars => (Cookie!SaveRefused => hint)
  BY RefusedHasHint DEF Cookie!SaveRefused
<1> QED
  BY <1>1, <1>2, <1>3, PTL DEF Cookie!Spec, Cookie!RefusalIsAnnounced

\* The remove button removes the rows that were selected and no other, if they were
\* selected from top to bottom, from tables of any length.
THEOREM SelectedAreRemoved ==
    ASSUME CookieAssumption
    PROVE  Cookie!Spec => Cookie!RemovesWhatIsSelected
<1>1. CookieInv /\ [Cookie!Next]_Cookie!vars => CookieInv'
  BY CookieNext
<1>2. Cookie!Init => CookieInv
  BY CookieInit
<1>3. ASSUME CookieInv, Cookie!RemoveRows, \A i,
      j \in DOMAIN picked : i < j => picked[i] < picked[j]
      PROVE  cookies' = LeftTable(Len(cookies) - Len(picked), cookies, Cookie!ToSet(picked))
  <2> DEFINE t == Cookie!Without(cookies, picked)
  <2>1. cookies \in Seq(CookieRows) /\ picked \in Seq(Nat)
        /\ Cookie!ToSet(picked) \subseteq DOMAIN cookies
    BY <1>3 DEF CookieInv
  <2>2. /\ t \in Seq(CookieRows) /\ Len(t) = Len(cookies) - Len(picked)
        /\ LeftOf(t, cookies, Cookie!ToSet(picked))
    BY <1>3, <2>1, RemovedAre
  <2>3. cookies' = t
    BY <1>3 DEF Cookie!RemoveRows
  <2> HIDE DEF t
  <2>4. t = LeftTable(Len(t), cookies, Cookie!ToSet(picked))
    BY <2>1, <2>2, LeftIs
  <2> QED
    BY <2>2, <2>3, <2>4
<1>4. CookieInv /\ [Cookie!Next]_Cookie!vars =>
        (Cookie!RemoveRows /\ (\A i, j \in DOMAIN picked : i < j => picked[i] < picked[j])
           => cookies' = [k \in 1..(Len(cookies) - Len(picked)) |->
                         cookies[CHOOSE i \in DOMAIN cookies \ Cookie!ToSet(picked) :
                           Cookie!Cardinality({j \in 1..i : j \notin Cookie!ToSet(picked)}) = k]])
  BY <1>3 DEF LeftTable
<1> QED
  BY <1>1, <1>2, <1>4, PTL DEF Cookie!Spec, Cookie!RemovesWhatIsSelected
=============================================================================
