---------------------- MODULE BuiltinHttpTrackerProofs ----------------------
(***************************************************************************)
(* Proofs about BuiltinHttpTracker, for any connections, info-hashes, peer *)
(* ids and times: the peers that are known are those that announced        *)
(* themselves, nobody who goes on doing so is forgotten, the answers, and  *)
(* the port.                                                               *)
(***************************************************************************)
EXTENDS BuiltinHttpTracker, TLAPS, FiniteSetTheorems

\* The port is none of the session's, unless the tracker does not listen.
ServerOK ==
    /\ server = Closed \/ (server.port # 0 /\ server.bind \in {"localhost", "lan"})
    /\ server.port # 0 =>
         server.port # sessionPorts.listen /\ server.port # sessionPorts.monitor

\* The buffer of a connection holds what came on that very connection.
ConnsOK ==
    /\ conns \in [Conns -> [client : Clients \cup {Nothing}, sent : Hashes \cup {Nothing}]]
    /\ buffers \in [Conns -> Hashes \cup {Nothing}]
    /\ \A c \in Conns : conns[c] # NoConn /\ conns[c].sent # Nothing => buffers[c] = conns[c].sent

\* An entry of the table is what its peer announced last.
Recorded(h, i) ==
    /\ <<h, i>> \in DOMAIN announced
    /\ ~announced[<<h, i>>].stopped
    /\ announced[<<h, i>>].client = table[h][i].client
    /\ announced[<<h, i>>].seen = table[h][i].seen

\* Who announced himself lately and did not stop has an entry.
Remembered(h, i) ==
    <<h, i>> \in DOMAIN announced /\ ~announced[<<h, i>>].stopped
      /\ clock - announced[<<h, i>>].seen <= Interval => i \in Known(h)

PeersOK ==
    /\ clock \in Nat /\ DOMAIN table = Hashes
    /\ DOMAIN announced \subseteq Hashes \X Ids
    /\ \A x \in DOMAIN announced : announced[x].seen \in 0 .. clock
    /\ \A h \in Hashes :
         /\ Known(h) \subseteq Ids /\ IsFiniteSet(Known(h))
         /\ \A i \in Known(h) : Recorded(h, i) /\ table[h][i].client # "ipv6"
         /\ \A i \in Ids : Remembered(h, i)

Inv == ServerOK /\ ConnsOK /\ PeersOK

\* The times of the code: a peer is told to announce itself more often than the
\* time to live, and an answer may name one peer at least.
Times ==
    /\ PeerTtl \in Nat /\ Interval \in Nat /\ Interval <= PeerTtl
    /\ MaxPeers \in Nat \ {0}

-----------------------------------------------------------------------------
(* The steps.                                                              *)

\* Initially nothing listens and nobody is known.
LEMMA InitInv == Init => Inv
<1> SUFFICES ASSUME Init PROVE Inv
  OBVIOUS
<1>1. ServerOK
  BY DEF Init, ServerOK, Closed
<1>2. ConnsOK
  BY DEF Init, ConnsOK, NoConn, Nothing
<1>3. PeersOK
  <2>1. DOMAIN announced = {} /\ clock = 0 /\ DOMAIN table = Hashes
    BY DEF Init
  <2>2. \A h \in Hashes : Known(h) = {}
    BY DEF Init, Known
  <2> QED
    BY <2>1, <2>2, FS_EmptySet DEF PeersOK, Remembered
<1> QED
  BY <1>1, <1>2, <1>3 DEF Inv

\* To apply the settings leaves the peers and the connections alone.
LEMMA ApplyKeeps ==
    ASSUME Inv, NEW s \in Settings, Apply(s)
    PROVE  Inv'
<1>1. ServerOK'
  <2>1. sessionPorts' = [listen |-> s.listen, monitor |-> s.monitor]
    BY DEF Apply
  <2>2. CASE server' = Closed
    BY <2>2 DEF ServerOK, Closed
  <2>3. CASE server' = Listening(s) /\ ~Conflicts(s)
    <3>1. /\ s.port \in {0, 1} /\ s.listen \in {1, 5} /\ s.monitor \in {0, 1}
          /\ s.bind \in {"localhost", "lan"}
      BY DEF Settings, Ports
    <3>2. s.port # 0 => s.port # s.listen /\ s.port # s.monitor
      BY <2>3, <3>1 DEF Conflicts
    <3> QED
      BY <2>1, <2>3, <3>1, <3>2 DEF ServerOK, Listening, Assigned
  <2> QED
    BY <2>2, <2>3 DEF Apply
<1>2. UNCHANGED <<table, buffers, conns, clock, announced>>
  BY DEF Apply
<1>3. ConnsOK'
  BY <1>2 DEF Inv, ConnsOK
<1>4. PeersOK'
  BY <1>2 DEF Inv, PeersOK, Recorded, Remembered, Known
<1> QED
  BY <1>1, <1>3, <1>4 DEF Inv

\* A client connects, sends the first piece of a request, or leaves.
LEMMA ConnsKeep ==
    ASSUME Inv, NEW c \in Conns,
           \/ \E client \in Clients : Connect(c, client)
           \/ \E h \in Hashes : ReadPart(c, h)
           \/ Leaves(c)
    PROVE  Inv'
<1>1. UNCHANGED <<server, sessionPorts, table, clock, announced>>
  BY DEF Connect, ReadPart, Leaves
<1>2. ServerOK'
  BY <1>1 DEF Inv, ServerOK
<1>3. PeersOK'
  BY <1>1 DEF Inv, PeersOK, Recorded, Remembered, Known
<1>4. ConnsOK'
  <2>1. ASSUME NEW client \in Clients, Connect(c, client)
        PROVE  ConnsOK'
    BY <2>1 DEF Inv, ConnsOK, Connect, NoConn
  <2>2. ASSUME NEW h \in Hashes, ReadPart(c, h)
        PROVE  ConnsOK'
    BY <2>2 DEF Inv, ConnsOK, ReadPart, Buffered
  <2>3. CASE Leaves(c)
    BY <2>3 DEF Inv, ConnsOK, Leaves, Disconnected, NoConn
  <2> QED
    BY <2>1, <2>2, <2>3
<1> QED
  BY <1>2, <1>3, <1>4 DEF Inv

\* The clock goes on.
LEMMA TickKeeps ==
    ASSUME Times, Inv, Tick
    PROVE  Inv'
<1>1. UNCHANGED <<server, sessionPorts, table, buffers, conns, announced>> /\ clock' = clock + 1
  BY DEF Tick
<1>2. ServerOK' /\ ConnsOK'
  BY <1>1 DEF Inv, ServerOK, ConnsOK
<1>3. PeersOK'
  <2>1. clock' \in Nat /\ \A x \in DOMAIN announced' : announced'[x].seen \in 0 .. clock'
    BY <1>1 DEF Inv, PeersOK
  <2>2. ASSUME NEW h \in Hashes, NEW i \in Ids
        PROVE  Remembered(h, i)'
    BY <1>1, <2>2 DEF Inv, PeersOK, Remembered, Known, Times
  <2> QED
    BY <1>1, <2>1, <2>2 DEF Inv, PeersOK, Recorded, Known
<1> QED
  BY <1>2, <1>3 DEF Inv

\* The timer takes away only who has not announced himself for the time to live.
LEMMA PruneKeeps ==
    ASSUME Times, Inv, Prune
    PROVE  Inv'
<1>1. UNCHANGED <<server, sessionPorts, buffers, conns, clock, announced>>
  BY DEF Prune
<1>2. ServerOK' /\ ConnsOK'
  BY <1>1 DEF Inv, ServerOK, ConnsOK
<1>3. ASSUME NEW h \in Hashes
      PROVE  /\ Known(h)' = {i \in Known(h) : clock - table[h][i].seen <= PeerTtl}
             /\ \A i \in Known(h)' : table'[h][i] = table[h][i]
  BY <1>3 DEF Prune, Known, Restrict
<1>4. PeersOK'
  <2>1. DOMAIN table' = Hashes
    BY DEF Prune
  <2>2. ASSUME NEW h \in Hashes
        PROVE  /\ Known(h)' \subseteq Ids /\ IsFiniteSet(Known(h)')
               /\ \A i \in Known(h)' : Recorded(h, i)' /\ table'[h][i].client # "ipv6"
               /\ \A i \in Ids : Remembered(h, i)'
    <3>1. Known(h)' \subseteq Ids /\ IsFiniteSet(Known(h)')
      BY <1>3, FS_Subset DEF Inv, PeersOK
    <3>2. \A i \in Known(h)' : Recorded(h, i)' /\ table'[h][i].client # "ipv6"
      BY <1>1, <1>3 DEF Inv, PeersOK, Recorded
    <3>3. ASSUME NEW i \in Ids, <<h, i>> \in DOMAIN announced, ~announced[<<h, i>>].stopped,
                 clock - announced[<<h, i>>].seen <= Interval
          PROVE  i \in Known(h)'
      <4>1. i \in Known(h) /\ Recorded(h, i)
        BY <3>3 DEF Inv, PeersOK, Remembered
      <4>2. announced[<<h, i>>].seen \in Nat /\ clock \in Nat
        BY <3>3 DEF Inv, PeersOK
      <4> QED
        BY <1>3, <3>3, <4>1, <4>2 DEF Recorded, Times
    <3> QED
      BY <1>1, <3>1, <3>2, <3>3 DEF Remembered
  <2> QED
    BY <1>1, <2>1, <2>2 DEF Inv, PeersOK
<1> QED
  BY <1>2, <1>4 DEF Inv

\* A request is complete: it is about the info-hash that came on this connection.
LEMMA ReadKeeps ==
    ASSUME Times, Inv, NEW c \in Conns, NEW i \in Ids, NEW r \in Requests, ReadRest(c, i, r)
    PROVE  Inv'
<1> DEFINE h == buffers[c]
           client == conns[c].client
<1>1. UNCHANGED <<server, sessionPorts, clock>>
  BY DEF ReadRest
<1>2. ServerOK'
  BY <1>1 DEF Inv, ServerOK
<1>3. ConnsOK'
  BY DEF Inv, ConnsOK, ReadRest, Disconnected, NoConn
<1>4. /\ h \in Hashes /\ h = conns[c].sent
      /\ client \in Clients \cup {Nothing} /\ client # "ipv6"
  BY DEF Inv, ConnsOK, ReadRest, Clients, Nothing
<1>5. CASE ~r.ok
  <2>1. UNCHANGED <<table, announced>>
    BY <1>5 DEF ReadRest
  <2>2. PeersOK'
    BY <1>1, <2>1 DEF Inv, PeersOK, Recorded, Remembered, Known
  <2> QED
    BY <1>2, <1>3, <2>2 DEF Inv
<1>6. CASE r.ok
  <2> DEFINE said == [client |-> client, stopped |-> r.stopped, seen |-> clock]
  <2>1. /\ table' = IF r.stopped THEN Remove(h, i)
                    ELSE Upsert(h, i, [client |-> client, seen |-> clock])
        /\ announced' = [x \in DOMAIN announced \cup {<<h, i>>} |->
                           IF x = <<h, i>> THEN said ELSE announced[x]]
    BY <1>4, <1>6 DEF ReadRest
  <2>2. /\ DOMAIN announced' = DOMAIN announced \cup {<<h, i>>}
        /\ announced'[<<h, i>>] = said
        /\ \A x \in DOMAIN announced : x # <<h, i>> => announced'[x] = announced[x]
    BY <2>1
  <2>3. /\ DOMAIN table' = Hashes
        /\ \A g \in Hashes : g # h => table'[g] = table[g]
        /\ DOMAIN table'[h] = IF r.stopped THEN Known(h) \ {i} ELSE Known(h) \cup {i}
        /\ \A j \in DOMAIN table'[h] : j # i => table'[h][j] = table[h][j]
        /\ ~r.stopped => table'[h][i] = [client |-> client, seen |-> clock]
    <3>1. DOMAIN table = Hashes
      BY DEF Inv, PeersOK
    <3>2. CASE r.stopped
      BY <1>4, <2>1, <3>1, <3>2 DEF Remove, Restrict, Known
    <3>3. CASE ~r.stopped
      BY <1>4, <2>1, <3>1, <3>3 DEF Upsert, Known
    <3> QED
      BY <3>2, <3>3
  <2>4. clock \in Nat /\ said.seen \in 0 .. clock
    BY DEF Inv, PeersOK
  <2> HIDE DEF h, client
  <2>5. /\ DOMAIN announced' \subseteq Hashes \X Ids
        /\ \A x \in DOMAIN announced' : announced'[x].seen \in 0 .. clock
    BY <1>4, <2>2, <2>4 DEF Inv, PeersOK
  <2>6. ASSUME NEW g \in Hashes
        PROVE  /\ Known(g)' \subseteq Ids /\ IsFiniteSet(Known(g)')
               /\ \A j \in Known(g)' : Recorded(g, j)' /\ table'[g][j].client # "ipv6"
               /\ \A j \in Ids : Remembered(g, j)'
    <3>1. CASE g # h
      <4>1. /\ table'[g] = table[g] /\ Known(g)' = Known(g)
            /\ \A j \in Ids : <<g, j>> # <<h, i>>
        BY <2>3, <3>1 DEF Known
      <4> QED
        BY <1>1, <2>2, <4>1 DEF Inv, PeersOK, Recorded, Remembered
    <3>2. CASE g = h
      <4>1. /\ Known(g)' = IF r.stopped THEN Known(g) \ {i} ELSE Known(g) \cup {i}
            /\ \A j \in Known(g)' : j # i => table'[g][j] = table[g][j]
            /\ ~r.stopped => table'[g][i] = [client |-> client, seen |-> clock]
            /\ DOMAIN announced' = DOMAIN announced \cup {<<g, i>>}
            /\ announced'[<<g, i>>] = said
            /\ \A x \in DOMAIN announced : x # <<g, i>> => announced'[x] = announced[x]
        BY <2>2, <2>3, <3>2 DEF Known
      <4>2. Known(g)' \subseteq Ids /\ IsFiniteSet(Known(g)')
        <5>1. IsFiniteSet(Known(g)) /\ Known(g) \subseteq Ids
          BY <1>4 DEF Inv, PeersOK
        <5> QED
          BY <4>1, <5>1, FS_AddElement, FS_RemoveElement
      <4>3. ASSUME NEW j \in Known(g)', j # i
            PROVE  Recorded(g, j)' /\ table'[g][j].client # "ipv6"
        <5>1. /\ j \in Known(g) /\ table'[g][j] = table[g][j] /\ <<g, j>> # <<g, i>>
          BY <4>1, <4>3
        <5>2. Recorded(g, j) /\ table[g][j].client # "ipv6"
          BY <1>4, <5>1 DEF Inv, PeersOK
        <5> QED
          BY <4>1, <5>1, <5>2 DEF Recorded
      <4>4. ASSUME i \in Known(g)'
            PROVE  Recorded(g, i)' /\ table'[g][i].client # "ipv6"
        BY <1>4, <4>1, <4>4 DEF Recorded
      <4>5. ASSUME NEW j \in Ids
            PROVE  Remembered(g, j)'
        <5>1. CASE j = i
          BY <4>1, <5>1 DEF Remembered
        <5>2. CASE j # i
          <6>1. Remembered(g, j) /\ <<g, j>> # <<g, i>>
            BY <1>4, <5>2 DEF Inv, PeersOK
          <6> QED
            BY <1>1, <4>1, <5>2, <6>1 DEF Remembered
        <5> QED
          BY <5>1, <5>2
      <4> QED
        BY <4>2, <4>3, <4>4, <4>5
    <3> QED
      BY <3>1, <3>2
  <2>7. PeersOK'
    BY <1>1, <2>3, <2>4, <2>5, <2>6 DEF PeersOK
  <2> QED
    BY <1>2, <1>3, <2>7 DEF Inv
<1> QED
  BY <1>5, <1>6

\* Every step.
LEMMA NextKeeps ==
    ASSUME Times, Inv, [Next]_vars
    PROVE  Inv'
<1>1. CASE UNCHANGED vars
  BY <1>1 DEF vars, Inv, ServerOK, ConnsOK, PeersOK, Recorded, Remembered, Known
<1> QED
  BY <1>1, ApplyKeeps, ConnsKeep, TickKeeps, PruneKeeps, ReadKeeps DEF Next

-----------------------------------------------------------------------------
(* The answers.                                                            *)

\* An answer names some of the others, as many as are wanted at most, and one of
\* them at least.
LEMMA WantedIs ==
    ASSUME Times, NEW numwant \in {0, 1}, NEW others, IsFiniteSet(others),
           NEW ps \in Wanted(numwant, others)
    PROVE  /\ ps \subseteq others
           /\ numwant > 0 => Cardinality(ps) <= numwant
           /\ others # {} => ps # {}
<1> DEFINE most == IF numwant = 0 \/ numwant > MaxPeers THEN MaxPeers ELSE numwant
           take == IF Cardinality(others) < most THEN Cardinality(others) ELSE most
<1>1. ps \subseteq others /\ Cardinality(ps) = take
  BY DEF Wanted
<1>2. Cardinality(others) \in Nat
  BY FS_CardinalityType
<1>3. most \in Nat /\ most > 0 /\ (numwant > 0 => most <= numwant)
  BY DEF Times
<1>4. others # {} => Cardinality(others) > 0
  BY <1>2, FS_EmptySet
<1> HIDE DEF most
<1>5. (numwant > 0 => take <= numwant) /\ (others # {} => take > 0)
  BY <1>2, <1>3, <1>4
<1>6. Cardinality({}) = 0
  BY FS_EmptySet
<1> QED
  BY <1>1, <1>5, <1>6

\* A request wants no or one peer.
LEMMA RequestWants == \A r \in Requests : r.numwant \in {0, 1}
<1> SUFFICES ASSUME NEW r \in Requests PROVE r.numwant \in {0, 1}
  OBVIOUS
<1>1. CASE r \in [ok : {TRUE}, stopped : BOOLEAN, numwant : 0 .. 1]
  <2>1. r.numwant \in 0 .. 1
    BY <1>1
  <2> QED
    BY <2>1
<1>2. CASE r \in {[ok |-> FALSE, stopped |-> FALSE, numwant |-> 0]}
  <2>1. r = [ok |-> FALSE, stopped |-> FALSE, numwant |-> 0]
    BY <1>2
  <2> QED
    BY <2>1
<1> QED
  BY <1>1, <1>2 DEF Requests

\* Every step's answer is to one who asks.
LEMMA NextAnswers ==
    ASSUME Times, Inv, Next, answer' # NoAnswer
    PROVE  /\ answer'.id \notin answer'.peers
           /\ answer'.numwant > 0 => Cardinality(answer'.peers) <= answer'.numwant
           /\ DOMAIN table'[answer'.hash] \ {answer'.id} # {} => answer'.peers # {}
<1>1. PICK c \in Conns, i \in Ids, r \in Requests : ReadRest(c, i, r)
  BY DEF Next, Apply, Connect, ReadPart, Leaves, Prune, Tick
<1> DEFINE h == buffers[c]
           others == DOMAIN table'[h] \ {i}
<1>2. r.ok /\ Answer(h, i, r)
  BY <1>1 DEF ReadRest
<1>3. PICK ps \in Wanted(r.numwant, others) :
         answer' = [hash |-> h, id |-> i, numwant |-> r.numwant, peers |-> ps]
  BY <1>2 DEF Answer
<1>4. h \in Hashes
  BY <1>1 DEF Inv, ConnsOK, ReadRest
<1>5. IsFiniteSet(DOMAIN table'[h])
  <2>1. Inv'
    BY <1>1, ReadKeeps
  <2>2. \A g \in Hashes : IsFiniteSet(DOMAIN table'[g])
    BY <2>1 DEF Inv, PeersOK, Known
  <2> QED
    BY <1>4, <2>2
<1>6. IsFiniteSet(others) /\ r.numwant \in {0, 1}
  <2>1. others \subseteq DOMAIN table'[h]
    OBVIOUS
  <2>2. r.numwant \in {0, 1}
    BY RequestWants
  <2> QED
    BY <1>5, <2>1, <2>2, FS_Subset
<1> HIDE DEF h
<1>7. /\ ps \subseteq others
      /\ r.numwant > 0 => Cardinality(ps) <= r.numwant
      /\ others # {} => ps # {}
  BY <1>3, <1>6, WantedIs
<1> QED
  BY <1>3, <1>7

-----------------------------------------------------------------------------
(* The theorems.                                                           *)

\* The invariant.
LEMMA InvHolds ==
    ASSUME Times
    PROVE  Spec => []Inv
<1>1. Init => Inv  BY InitInv
<1>2. Inv /\ [Next]_vars => Inv'  BY NextKeeps
<1> QED  BY <1>1, <1>2, PTL DEF Spec

\* handleRead and the settings keep the types, for any number of clients.
THEOREM TrackerTypes ==
    ASSUME Times
    PROVE  Spec => []TypeOK
<1>1. Inv => TypeOK
  <2> SUFFICES ASSUME Inv, NEW h \in Hashes, NEW i \in Known(h)
               PROVE  table[h][i].seen \in 0 .. clock
    BY DEF Inv, ServerOK, PeersOK, TypeOK
  <2> QED
    BY DEF Inv, PeersOK, Recorded
<1> QED  BY <1>1, InvHolds, PTL

\* A peer is known for an info-hash only if a client asked for that very one and
\* did not stop since, also when the requests of several arrive in pieces.
THEOREM OnlyAnnouncedKnown ==
    ASSUME Times
    PROVE  Spec => []KnownAnnounced
<1>1. Inv => KnownAnnounced
  BY DEF Inv, PeersOK, KnownAnnounced, Recorded
<1> QED  BY <1>1, InvHolds, PTL

\* A peer that announces itself as often as it is told to is not forgotten,
\* however late in its period the timer is.
THEOREM AnnouncedKept ==
    ASSUME Times
    PROVE  Spec => []KeptWhileAnnouncing
<1>1. Inv => KeptWhileAnnouncing
  <2> SUFFICES ASSUME Inv, NEW x \in DOMAIN announced, ~announced[x].stopped,
                      clock - announced[x].seen <= Interval
               PROVE  x[2] \in Known(x[1])
    BY DEF KeptWhileAnnouncing
  <2>1. x[1] \in Hashes /\ x[2] \in Ids /\ x = <<x[1], x[2]>>
    BY DEF Inv, PeersOK
  <2> QED
    BY <2>1 DEF Inv, PeersOK, Remembered
<1> QED  BY <1>1, InvHolds, PTL

\* The tracker listens on no port of the session, whatever the settings become.
THEOREM PortsStayApart ==
    ASSUME Times
    PROVE  Spec => []PortsApart
<1>1. Inv => PortsApart
  BY DEF Inv, ServerOK, PortsApart
<1> QED  BY <1>1, InvHolds, PTL

\* buildCompactPeers: no answer names the one who asks or more peers than it
\* wants, and none is empty while there are others in the swarm.
THEOREM OthersAnswered ==
    ASSUME Times
    PROVE  Spec => AnswersOthers
<1> DEFINE A == answer' # NoAnswer =>
              /\ answer'.id \notin answer'.peers
              /\ answer'.numwant > 0 => Cardinality(answer'.peers) <= answer'.numwant
              /\ DOMAIN table'[answer'.hash] \ {answer'.id} # {} => answer'.peers # {}
<1>1. Inv /\ [Next]_vars => [A]_vars
  BY NextAnswers
<1> QED  BY <1>1, InvHolds, PTL DEF Spec, AnswersOthers
=============================================================================
