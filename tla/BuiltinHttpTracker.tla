------------------------- MODULE BuiltinHttpTracker -------------------------
(***************************************************************************)
(* The embedded HTTP tracker: peers announce themselves for an info-hash   *)
(* and are told of each other.                                             *)
(*                                                                         *)
(* The tracker lives in a thread of its own.  The controller configures it *)
(* by calls that block until that thread has made them, so each is one     *)
(* step here.  A request may arrive in pieces: what has come is kept by    *)
(* connection.  Peers that do not announce again are forgotten by a timer. *)
(*                                                                         *)
(* The clock is counted in periods of the timer.                           *)
(***************************************************************************)
EXTENDS Naturals, FiniteSets, Functions

CONSTANTS
    Conns,        \* connections
    Hashes,       \* info-hashes
    Ids,          \* peer ids
    PeerTtl,      \* kPeerTtlMs, in periods of the timer
    Interval,     \* kAnnounceIntervalSec, in periods of the timer
    MaxPeers,     \* kMaxPeersReturn and kDefaultNumwant
    MaxClock,     \* bound: periods
    MaxReads,     \* bound: requests that are read
    MaxApplies    \* bound: changes of the settings

VARIABLES
    server,       \* server_: the port it listens on and the address
    sessionPorts, \* the listen and the monitor port of the BitTorrent session
    table,        \* table_: what is known of each peer, by info-hash
    buffers,      \* read_buffers_
    conns,        \* the connections: the client, and what it has sent
    clock,        \* now
    pruned,       \* cleanup_ has fired in this period
    answer,       \* the last answer
    announced,    \* history: what each client last asked for, and when
    reads, applies

vars == <<server, sessionPorts, table, buffers, conns, clock, pruned, answer,
          announced, reads, applies>>

Nothing == "nothing"
Clients == {"local", "remote"}
Ports == 0 .. 1
Assigned == 9    \* the port the system picks for port 0

Closed == [port |-> 0, bind |-> Nothing]
NoConn == [client |-> Nothing, sent |-> Nothing]
NoAnswer == [hash |-> Nothing, id |-> Nothing, numwant |-> 0, peers |-> {}]

Init ==
    /\ server = Closed
    /\ sessionPorts = [listen |-> 0, monitor |-> 0]
    /\ table = [h \in Hashes |-> <<>>]
    /\ buffers = [c \in Conns |-> Nothing]
    /\ conns = [c \in Conns |-> NoConn]
    /\ clock = 0 /\ pruned = TRUE
    /\ answer = NoAnswer
    /\ announced = <<>>
    /\ reads = 0 /\ applies = 0

-----------------------------------------------------------------------------
(* The settings.                                                           *)

\* Mutant of Conflicts: the port that is monitored is not looked at.
ConflictsListen(s) == s.port # 0 /\ s.port = s.listen

\* The port of the tracker must not be one of the session's.
Conflicts(s) ==
    s.port # 0 /\ (s.port = s.listen \/ (s.monitor > 0 /\ s.port = s.monitor))

\* Mutant of Listening: the port is the one in the settings.
ListeningAsAsked(s) == [port |-> s.port, bind |-> s.bind]

\* The system assigns a port when none is given.
Listening(s) == [port |-> IF s.port = 0 THEN Assigned ELSE s.port, bind |-> s.bind]

\* applyBuiltinHttpTrackerFromSettings and applyConfig.  To listen may fail,
\* the connections that are open and the peers stay.
Apply(s) ==
    /\ applies < MaxApplies
    /\ applies' = applies + 1
    /\ sessionPorts' = [listen |-> s.listen, monitor |-> s.monitor]
    /\ IF s.enabled /\ ~Conflicts(s)
       THEN server' \in {Closed, Listening(s)}
       ELSE server' = Closed
    /\ answer' = NoAnswer
    /\ UNCHANGED <<table, buffers, conns, clock, pruned, announced, reads>>

-----------------------------------------------------------------------------
(* The table of peers.                                                     *)

Known(h) == DOMAIN table[h]

\* Mutant of Upsert: a peer that is known keeps its time.
UpsertKeepsTime(h, i, p) ==
    [table EXCEPT ![h] = [j \in Known(h) \cup {i} |->
        IF j # i THEN table[h][j]
        ELSE IF i \in Known(h) THEN [p EXCEPT !.seen = table[h][i].seen] ELSE p]]

Upsert(h, i, p) ==
    [table EXCEPT ![h] = [j \in Known(h) \cup {i} |-> IF j = i THEN p ELSE table[h][j]]]

Remove(h, i) == [table EXCEPT ![h] = Restrict(@, DOMAIN @ \ {i})]

\* cleanup_: what is older than the time to live goes.
Prune ==
    /\ ~pruned
    /\ pruned' = TRUE
    /\ table' = [h \in Hashes |->
            Restrict(table[h], {i \in Known(h) : clock - table[h][i].seen <= PeerTtl})]
    /\ answer' = NoAnswer
    /\ UNCHANGED <<server, sessionPorts, buffers, conns, clock, announced, reads,
                   applies>>

\* The timer is not a whole period late.
Tick ==
    /\ pruned /\ clock < MaxClock
    /\ clock' = clock + 1
    /\ pruned' = FALSE
    /\ answer' = NoAnswer
    /\ UNCHANGED <<server, sessionPorts, table, buffers, conns, announced, reads,
                   applies>>

-----------------------------------------------------------------------------
(* The connections.                                                        *)

\* onNewConnection.  On the address of the host itself only it gets through.
Connect(c, client) ==
    /\ server # Closed /\ conns[c] = NoConn
    /\ server.bind = "localhost" => client = "local"
    /\ reads < MaxReads
    /\ conns' = [conns EXCEPT ![c] = [client |-> client, sent |-> Nothing]]
    /\ reads' = reads + 1
    /\ answer' = NoAnswer
    /\ UNCHANGED <<server, sessionPorts, table, buffers, clock, pruned, announced,
                   applies>>

\* Mutant of Buffered: one buffer serves all the connections.
BufferedShared(c, h) == [d \in Conns |-> h]

\* What has come of a request that is not complete.
Buffered(c, h) == [buffers EXCEPT ![c] = h]

\* handleRead: the first piece, with the info-hash.
ReadPart(c, h) ==
    /\ conns[c] # NoConn /\ conns[c].sent = Nothing
    /\ conns' = [conns EXCEPT ![c].sent = h]
    /\ buffers' = Buffered(c, h)
    /\ answer' = NoAnswer
    /\ UNCHANGED <<server, sessionPorts, table, clock, pruned, announced, reads,
                   applies>>

\* The socket is gone: the client has left, or it was answered.
Disconnected(c) ==
    /\ buffers' = [buffers EXCEPT ![c] = Nothing]
    /\ conns' = [conns EXCEPT ![c] = NoConn]

Leaves(c) ==
    /\ conns[c] # NoConn
    /\ Disconnected(c)
    /\ answer' = NoAnswer
    /\ UNCHANGED <<server, sessionPorts, table, clock, pruned, announced, reads,
                   applies>>

\* Mutant of Wanted: no more than asked for, none if none.
WantedNone(numwant, others) ==
    {ps \in SUBSET others : ps = {} \/ Cardinality(ps) \in 1 .. numwant}

\* buildCompactPeers: any of the others, up to the number that is wanted, which
\* stands for the default when it is 0.
Wanted(numwant, others) ==
    LET most == IF numwant = 0 \/ numwant > MaxPeers THEN MaxPeers ELSE numwant
        take == IF Cardinality(others) < most THEN Cardinality(others) ELSE most
    IN  {ps \in SUBSET others : Cardinality(ps) = take}

Answer(h, i, r) ==
    \E ps \in Wanted(r.numwant, DOMAIN table'[h] \ {i}) :
        answer' = [hash |-> h, id |-> i, numwant |-> r.numwant, peers |-> ps]

\* handleRead: the rest.  All that can be wrong in a request, and that the
\* client is one of IPv6, is told by ok.
ReadRest(c, i, r) ==
    /\ conns[c] # NoConn /\ conns[c].sent # Nothing
    /\ Disconnected(c)
    /\ LET h == buffers[c]
           client == conns[c].client
       IN  IF ~r.ok
           THEN answer' = NoAnswer /\ UNCHANGED <<table, announced>>
           ELSE /\ table' = IF r.stopped THEN Remove(h, i)
                            ELSE Upsert(h, i, [client |-> client, seen |-> clock])
                /\ Answer(h, i, r)
                /\ announced' = [x \in DOMAIN announced \cup {<<conns[c].sent, i>>} |->
                        IF x = <<conns[c].sent, i>>
                        THEN [client |-> client, stopped |-> r.stopped, seen |-> clock]
                        ELSE announced[x]]
    /\ UNCHANGED <<server, sessionPorts, clock, pruned, reads, applies>>

Requests == [ok : {TRUE}, stopped : BOOLEAN, numwant : 0 .. 1]
                \cup {[ok |-> FALSE, stopped |-> FALSE, numwant |-> 0]}

Settings == [enabled : BOOLEAN, port : Ports, listen : {1, 5}, monitor : Ports,
             bind : {"localhost", "lan"}]

Next ==
    \/ \E s \in Settings : Apply(s)
    \/ \E c \in Conns : \/ \E client \in Clients : Connect(c, client)
                        \/ \E h \in Hashes : ReadPart(c, h)
                        \/ \E i \in Ids, r \in Requests : ReadRest(c, i, r)
                        \/ Leaves(c)
    \/ Prune \/ Tick

Spec == Init /\ [][Next]_vars

-----------------------------------------------------------------------------
(* Properties                                                              *)

\* The table holds, by info-hash, peers that have an address and a time.
TypeOK ==
    /\ server = Closed \/ (server.port # 0 /\ server.bind \in {"localhost", "lan"})
    /\ \A h \in Hashes :
        /\ Known(h) \subseteq Ids
        /\ \A i \in Known(h) : table[h][i].client # "ipv6" /\ table[h][i].seen \in 0 .. clock

\* A peer is known for an info-hash only if a client asked for that very
\* info-hash, with that id, and did not stop since; its address is the client's.
KnownAnnounced ==
    \A h \in Hashes : \A i \in Known(h) :
        /\ <<h, i>> \in DOMAIN announced
        /\ announced[<<h, i>>].client = table[h][i].client
        /\ ~announced[<<h, i>>].stopped

\* A peer that announces itself as often as it is told to is not forgotten.
KeptWhileAnnouncing ==
    \A x \in DOMAIN announced :
        ~announced[x].stopped /\ clock - announced[x].seen <= Interval
            => x[2] \in Known(x[1])

\* No answer names the one who asks, or more peers than it wants, and a swarm
\* with another peer is never answered with none.
AnswersOthers ==
    [][answer' # NoAnswer =>
        /\ answer'.id \notin answer'.peers
        /\ answer'.numwant > 0 => Cardinality(answer'.peers) <= answer'.numwant
        /\ DOMAIN table'[answer'.hash] \ {answer'.id} # {} => answer'.peers # {}]_vars

\* The tracker never listens on a port the settings give to the session.
PortsApart == server.port \notin {0} =>
    server.port # sessionPorts.listen /\ server.port # sessionPorts.monitor
=============================================================================
