------------------------ MODULE SessionWorkerProofs ------------------------
(***************************************************************************)
(* The invariants of the session's worker, for any magnets, calls, faults  *)
(* and any number of commands: types, the map of handles, and the promises *)
(* of the calls that wait for metadata.  Then MagnetAdd, where the dialog  *)
(* of a link makes such a call.                                            *)
(***************************************************************************)
EXTENDS SessionWorker, SequenceTheorems, TLAPS

Alerts == [type : AlertTypes, key : Keys, gen : Nat]
Requests == [do : {"add", "remove"}, key : Keys, torrent : Torrent]

\* The commands that clients put into the deque: the kind of a command says
\* what else it carries.
WellFormed(cmd) ==
    /\ cmd \in Command
    /\ cmd.op # "Shutdown" => cmd.key \in Keys
    /\ cmd.op = "AddTorrentFile" => cmd.opt \in {"none", "plain", "top"}
    /\ cmd.op = "Finalize" => cmd.opt \in {"plain", "top"}
    /\ IF cmd.op = "Prepare" THEN cmd.call \in Callers /\ cmd.key = KeyOf[cmd.call]
                             ELSE cmd.call = None

GoodCommands == {cmd \in Command : WellFormed(cmd)}

QueueTyped == cmds \in Seq(GoodCommands) /\ local \in Seq(GoodCommands)

\* The batch is empty outside the handling of commands, the popped alerts are
\* outside the handling of alerts, and after Shutdown nobody waits again.
Phases ==
    /\ phase \in {"wait", "alerts", "stopped"} => local = <<>>
    /\ phase \in {"wait", "commands", "stopped"} => popped = <<>>
    /\ phase = "wait" => running

Typed == TypeOK /\ QueueTyped /\ Phases

-----------------------------------------------------------------------------
(* Lemmas about queues in two parts, of which the first is being handled.   *)

\* What is put behind the second part is behind the whole.
LEMMA ConcatAppend ==
    ASSUME NEW S, NEW s \in Seq(S), NEW t \in Seq(S), NEW e \in S
    PROVE  s \o Append(t, e) = Append(s \o t, e)
<1>1. Append(t, e) = t \o <<e>>
  BY AppendIsConcat
<1>2. Append(s \o t, e) = (s \o t) \o <<e>>
  BY AppendIsConcat, ConcatProperties
<1> QED
  BY <1>1, <1>2, ConcatAssociative

\* What is taken from the first part is taken from the whole.
LEMMA ConcatTail ==
    ASSUME NEW S, NEW s \in Seq(S), NEW t \in Seq(S), s # <<>>
    PROVE  /\ s \o t \in Seq(S) /\ s \o t # <<>>
           /\ Head(s \o t) = Head(s)
           /\ Tail(s) \o t = Tail(s \o t)
<1>1. /\ Len(s) \in Nat \ {0} /\ Len(t) \in Nat
      /\ Tail(s) \in Seq(S) /\ Len(Tail(s)) = Len(s) - 1
      /\ \A i \in 1 .. Len(Tail(s)) : Tail(s)[i] = s[i + 1]
  BY EmptySeq, LenProperties, HeadTailProperties
<1>2. /\ s \o t \in Seq(S) /\ Len(s \o t) = Len(s) + Len(t)
      /\ \A i \in 1 .. Len(s) + Len(t) :
           (s \o t)[i] = IF i <= Len(s) THEN s[i] ELSE t[i - Len(s)]
  BY ConcatProperties
<1>3. s \o t # <<>>
  BY <1>1, <1>2, EmptySeq
<1>4. Head(s \o t) = Head(s)
  BY <1>1, <1>2, <1>3
<1>5. /\ Tail(s \o t) \in Seq(S) /\ Len(Tail(s \o t)) = Len(s) + Len(t) - 1
      /\ \A i \in 1 .. Len(s) + Len(t) - 1 : Tail(s \o t)[i] = (s \o t)[i + 1]
  BY <1>2, <1>3, HeadTailProperties
<1>6. /\ Tail(s) \o t \in Seq(S) /\ Len(Tail(s) \o t) = Len(s) - 1 + Len(t)
      /\ \A i \in 1 .. Len(s) - 1 + Len(t) :
           (Tail(s) \o t)[i] = IF i <= Len(s) - 1 THEN Tail(s)[i] ELSE t[i - (Len(s) - 1)]
  BY <1>1, ConcatProperties
<1>7. ASSUME NEW i \in 1 .. Len(s) + Len(t) - 1
      PROVE  (Tail(s) \o t)[i] = Tail(s \o t)[i]
  BY <1>1, <1>2, <1>5, <1>6
<1> QED
  BY <1>1, <1>2, <1>3, <1>4, <1>5, <1>6, <1>7, SeqEqual
\* Well-formed commands are commands.
LEMMA GoodAreCommands == Seq(GoodCommands) \subseteq Seq(Command)
<1>1. GoodCommands \subseteq Command
  BY DEF GoodCommands
<1> QED
  BY <1>1

-----------------------------------------------------------------------------
(* Types.                                                                   *)

\* What the handlers ask of the session is typed.
LEMMA RequestTyped ==
    ASSUME NEW k \in Keys
    PROVE  /\ \A t \in Torrent : AddRequest(t, k) \in Requests
           /\ \A g \in Nat : RemoveRequest(g, k) \in Requests
  BY DEF AddRequest, RemoveRequest, Requests, NoTorrent, Torrent, Opts

\* A torrent may be asked for with any flags.
LEMMA NewTorrentTyped ==
    /\ NoTorrent \in Torrent
    /\ [NoTorrent EXCEPT !.paused = TRUE] \in Torrent
    /\ [NoTorrent EXCEPT !.temp = TRUE, !.upload = TRUE] \in Torrent
    /\ \A o \in Opts : [NoTorrent EXCEPT !.paused = TRUE, !.meta = TRUE, !.asked = o] \in Torrent
    /\ \A p, m \in BOOLEAN, o \in Opts :
         [NoTorrent EXCEPT !.paused = p, !.meta = m, !.asked = o] \in Torrent
  BY DEF NoTorrent, Torrent, Opts

\* The first command of the batch is well formed, and so are the others.
LEMMA HeadGood ==
    ASSUME Typed, local # <<>>
    PROVE  /\ Head(local) \in Command /\ WellFormed(Head(local))
           /\ Tail(local) \in Seq(GoodCommands)
           /\ phase = "commands" \/ phase = "aborted"
  BY HeadTailProperties DEF Typed, QueueTyped, GoodCommands, Phases, TypeOK

\* The same of the popped alerts.
LEMMA HeadAlert ==
    ASSUME TypeOK, popped # <<>>
    PROVE  Head(popped) \in Alerts /\ Tail(popped) \in Seq(Alerts)
  BY HeadTailProperties DEF TypeOK, Alerts

\* The client's commands are well formed.
LEMMA EnqueueTyped ==
    ASSUME Typed, NEW cmd, WellFormed(cmd), Enqueue(cmd)
    PROVE  cmds' \in Seq(GoodCommands) /\ cmds' \in Seq(Command)
<1>1. cmds' \in Seq(GoodCommands)
  BY AppendProperties DEF Enqueue, Typed, QueueTyped, GoodCommands, WellFormed
<1> QED
  BY <1>1, GoodAreCommands

\* What Goto leaves is typed.
LEMMA GotoTyped ==
    ASSUME Typed, NEW c \in Callers, NEW at \in CallStates, Goto(c, at),
           cmds' \in Seq(GoodCommands)
    PROVE  Typed'
<1>1. cmds' \in Seq(Command)
  BY GoodAreCommands
<1> QED
  BY <1>1 DEF Typed, TypeOK, QueueTyped, Phases, Goto, workerVars, mapVars, sessionVars

\* The initial state is typed.
LEMMA InitTyped == Init => Typed
<1> SUFFICES ASSUME Init PROVE Typed
  OBVIOUS
<1>1. TypeOK
  <2>1. torrents \in [Keys -> Torrent]
    BY NewTorrentTyped DEF Init
  <2>2. \A S : <<>> \in Seq(S)
    OBVIOUS
  <2>3. issued \in 0 .. MaxCmds /\ lastGen \in Nat
    BY ConstantsAssumption DEF Init
  <2> QED
    BY <2>1, <2>2, <2>3 DEF Init, TypeOK, CallStates
<1> QED
  BY <1>1 DEF Init, Typed, QueueTyped, Phases

\* The clients' steps keep the types.
LEMMA ClientTyped ==
    ASSUME Typed, ClientStep
    PROVE  Typed'
<1> USE ConstantsAssumption
<1>1. ASSUME NEW op \in ClientOps, NEW k \in Keys, NEW opt \in Opts, opt \in OptsOf(op),
             Issue(op, k, opt)
      PROVE  Typed'
  <2>1. op \in AddOps \cup {"Pause", "Resume", "Remove"}
    BY <1>1, ClientOpsAssumption
  <2>2. WellFormed(Cmd(op, k, None, opt))
    BY <1>1, <2>1 DEF WellFormed, Cmd, Command, AllOps, AddOps, OptsOf
  <2>3. cmds' \in Seq(GoodCommands) /\ cmds' \in Seq(Command)
    BY <1>1, <2>2, EnqueueTyped DEF Issue
  <2>4. issued' \in 0 .. MaxCmds
    BY <1>1 DEF Issue, Typed, TypeOK
  <2> QED
    BY <1>1, <2>3, <2>4 DEF Issue, Typed, TypeOK, QueueTyped, Phases, workerVars, mapVars,
                            sessionVars
<1>2. ASSUME NEW c \in Callers, CallStep(c)
      PROVE  Typed'
  <2>1. \A o \in Opts : WellFormed(Cmd("Prepare", KeyOf[c], c, "none"))
                       /\ WellFormed(Cmd("Cancel", KeyOf[c], None, "none"))
    BY DEF WellFormed, Cmd, Command, AllOps, AddOps, Opts
  <2>2. \A o \in {"plain", "top"} : WellFormed(Cmd("Finalize", KeyOf[c], None, o))
    BY DEF WellFormed, Cmd, Command, AllOps, AddOps, Opts
  <2>3. CASE CallPrepare(c)
    BY <2>1, <2>3, EnqueueTyped, GotoTyped DEF CallPrepare, Opts, CallStates
  <2>4. CASE CallReturns(c)
    BY <2>4, GotoTyped DEF CallReturns, CallStates, Typed, QueueTyped
  <2>5. CASE CallExpires(c)
    BY <2>5, GotoTyped DEF CallExpires, CallStates, Typed, QueueTyped
  <2>6. CASE CallCancels(c)
    BY <2>1, <2>6, EnqueueTyped, GotoTyped DEF CallCancels, Opts, CallStates
  <2>7. CASE UserGivesUp(c)
    BY <2>1, <2>7, EnqueueTyped, GotoTyped DEF UserGivesUp, Opts, CallStates
  <2>8. CASE UserCancels(c)
    BY <2>1, <2>8, EnqueueTyped, GotoTyped DEF UserCancels, Opts, CallStates
  <2>9. CASE \E opt \in {"plain", "top"} : UserConfirms(c, opt)
    BY <2>2, <2>9, EnqueueTyped, GotoTyped DEF UserConfirms, CallStates
  <2> QED
    BY <1>2, <2>3, <2>4, <2>5, <2>6, <2>7, <2>8, <2>9 DEF CallStep
<1>3. CASE Shutdown
  <2>1. WellFormed(Cmd("Shutdown", None, None, "none"))
    BY DEF WellFormed, Cmd, Command, AllOps, AddOps, Opts
  <2>2. cmds' \in Seq(GoodCommands) /\ cmds' \in Seq(Command)
    BY <1>3, <2>1, EnqueueTyped DEF Shutdown
  <2> QED
    BY <1>3, <2>2 DEF Shutdown, Typed, TypeOK, QueueTyped, Phases, workerVars, mapVars,
                      sessionVars
<1> QED
  BY <1>1, <1>2, <1>3 DEF ClientStep

\* A new alert is typed.
LEMMA PostTyped ==
    ASSUME TypeOK, NEW type \in AlertTypes, NEW k \in Keys, NEW g \in Nat,
           Post(Alert(type, k, g))
    PROVE  alerts' \in Seq(Alerts)
  BY AppendProperties DEF Post, Alert, Alerts, TypeOK

\* The session's steps keep the types.
LEMMA SessionTyped ==
    ASSUME Typed, SessionAdds \/ SessionRemoves
    PROVE  Typed'
<1> DEFINE r == Head(requests)
<1>1. requests # <<>> /\ r \in Requests /\ Tail(requests) \in Seq(Requests)
  BY HeadTailProperties DEF SessionAdds, SessionRemoves, Typed, TypeOK, Requests
<1>2. r.key \in Keys /\ r.torrent \in Torrent
  BY <1>1 DEF Requests
<1> HIDE DEF r
<1>3. torrents[r.key].gen \in Nat /\ r.torrent.gen \in Nat /\ lastGen + 1 \in Nat
  BY <1>2 DEF Typed, TypeOK, Torrent
<1>4. requests' \in Seq(Requests)
  BY <1>1 DEF SessionAdds, SessionRemoves, r
<1>5. alerts' \in Seq(Alerts)
  BY <1>2, <1>3, PostTyped
     DEF SessionAdds, SessionRemoves, r, Typed, TypeOK, Alerts, AlertTypes
<1>6. torrents' \in [Keys -> Torrent] /\ lastGen' \in Nat
  <2>1. [r.torrent EXCEPT !.gen = lastGen + 1] \in Torrent
    BY <1>2, <1>3 DEF Torrent
  <2> QED
    BY <1>2, <1>3, <2>1, NewTorrentTyped DEF SessionAdds, SessionRemoves, r, Typed, TypeOK
<1> QED
  BY <1>4, <1>5, <1>6
     DEF SessionAdds, SessionRemoves, Typed, TypeOK, QueueTyped, Phases, workerVars, mapVars,
         clientVars, Requests, Alerts

\* The steps of the peers keep the types.
LEMMA PeersTyped ==
    ASSUME Typed, NEW k \in Keys, MetadataArrives(k) \/ MetadataFails(k)
    PROVE  Typed'
<1>1. torrents[k] \in Torrent /\ torrents[k].gen \in Nat
  BY DEF Typed, TypeOK, Torrent
<1>2. alerts' \in Seq(Alerts)
  BY <1>1, PostTyped DEF MetadataArrives, MetadataFails, Typed, AlertTypes
<1>3. [torrents[k] EXCEPT !.meta = TRUE] \in Torrent
  BY <1>1 DEF Torrent
<1>4. torrents' \in [Keys -> Torrent]
  BY <1>3 DEF MetadataArrives, MetadataFails, Typed, TypeOK
<1> QED
  BY <1>2, <1>4
     DEF MetadataArrives, MetadataFails, Typed, TypeOK, QueueTyped, Phases, workerVars, mapVars,
         clientVars, Alerts

\* An exception keeps the types.
LEMMA ThrowTyped ==
    ASSUME Typed, Throw
    PROVE  Typed'
  BY DEF Throw, Typed, TypeOK, QueueTyped, Phases, mapVars, clientVars, sessionVars

\* What a handled command leaves is typed if the maps, the promises and the
\* session's torrents and requests are.
LEMMA NextCmdTyped ==
    ASSUME Typed, phase = "commands", local # <<>>, NextCmd,
           handlesByTaskId' \in [Keys -> Nat],
           pendingAddOpts' \in [Keys -> {"none", "plain", "top"}],
           preparedTorrentInfo' \subseteq Keys,
           pendingMagnetMeta' \in [Keys -> Callers \cup {None}],
           promise' \in [Callers -> {"unset", "value", "nullopt"}],
           torrents' \in [Keys -> Torrent],
           requests' \in Seq(Requests)
    PROVE  Typed'
<1>1. local' \in Seq(GoodCommands) /\ local' \in Seq(Command)
  BY HeadGood, GoodAreCommands DEF NextCmd
<1> QED
  BY <1>1 DEF NextCmd, Typed, TypeOK, QueueTyped, Phases, clientVars, Requests

\* What the handlers ask for keeps the session's job queue typed.
LEMMA AskTyped ==
    ASSUME Typed, NEW r \in Requests, Ask(r)
    PROVE  requests' \in Seq(Requests)
  BY AppendProperties DEF Ask, Typed, TypeOK, Requests

\* An accepted or rejected torrent, too.
LEMMA AddAskedTyped ==
    ASSUME Typed, Head(local).key \in Keys, NEW t \in Torrent, AskUnlessRejected(t)
    PROVE  requests' \in Seq(Requests)
  BY AskTyped, RequestTyped DEF AskUnlessRejected, Typed, TypeOK, Requests

\* Setting the flags of a torrent keeps it one.
LEMMA TorrentFlags ==
    ASSUME NEW t \in Torrent
    PROVE  /\ t.gen \in Nat /\ Fetching(t) \in Torrent /\ Fetching(t).gen = t.gen
           /\ [t EXCEPT !.paused = TRUE] \in Torrent
           /\ [t EXCEPT !.paused = FALSE] \in Torrent
           /\ \A b \in BOOLEAN : [t EXCEPT !.top = @ \/ b] \in Torrent
           /\ [t EXCEPT !.paused = FALSE, !.top = TRUE,
                        !.asked = IF @ = "paused" THEN "none" ELSE @] \in Torrent
<1>1. t.gen \in Nat /\ t.top \in BOOLEAN /\ t.asked \in Opts /\ "none" \in Opts
  BY DEF Torrent, Opts
<1>2. \A b \in BOOLEAN : (t.top \/ b) \in BOOLEAN
  BY <1>1
<1>3. (IF t.asked = "paused" THEN "none" ELSE t.asked) \in Opts
  BY <1>1
<1> QED
  BY <1>1, <1>2, <1>3 DEF Torrent, Fetching

\* The commands that add a torrent keep the types.
LEMMA AddCommandsTyped ==
    ASSUME Typed, HandleAddMagnet \/ HandleAddTorrentFile \/ HandleAddFromResumeData
                  \/ HandlePrepare
    PROVE  Typed'
<1> DEFINE cmd == Head(local)
<1>1. phase = "commands" /\ local # <<>> /\ NextCmd
  BY DEF HandleAddMagnet, HandleAddTorrentFile, HandleAddFromResumeData, HandlePrepare, Handling
<1>2. cmd \in Command /\ WellFormed(cmd) /\ cmd.key \in Keys /\ cmd.opt \in Opts
  BY <1>1, HeadGood DEF WellFormed, Command, HandleAddMagnet, HandleAddTorrentFile,
                        HandleAddFromResumeData, HandlePrepare, Handling
<1>3. requests \in Seq(Requests)
  BY DEF Typed, TypeOK, Requests
<1>4. CASE HandleAddMagnet
  BY <1>1, <1>2, <1>4, NextCmdTyped, AddAskedTyped, NewTorrentTyped
     DEF HandleAddMagnet, mapVars, Typed, TypeOK
<1>5. CASE HandleAddTorrentFile
  <2>1. cmd.opt \in {"none", "plain", "top"}
    BY <1>2, <1>5 DEF WellFormed, HandleAddTorrentFile, Handling
  <2>2. pendingAddOpts' \in [Keys -> {"none", "plain", "top"}]
    BY <1>2, <1>5, <2>1 DEF HandleAddTorrentFile, Typed, TypeOK
  <2>3. requests' \in Seq(Requests)
    BY <1>2, <1>3, <1>5, AskTyped, RequestTyped, NewTorrentTyped DEF HandleAddTorrentFile
  <2> QED
    BY <1>1, <1>5, <2>2, <2>3, NextCmdTyped DEF HandleAddTorrentFile, Typed, TypeOK
<1>6. CASE HandleAddFromResumeData
  <2>1. requests' \in Seq(Requests)
    BY <1>2, <1>6, AddAskedTyped, NewTorrentTyped DEF HandleAddFromResumeData
  <2> QED
    BY <1>1, <1>6, <2>1, NextCmdTyped DEF HandleAddFromResumeData, mapVars, Typed, TypeOK
<1>7. CASE HandlePrepare
  <2>1. cmd.call \in Callers
    BY <1>2, <1>7 DEF WellFormed, HandlePrepare, Handling
  <2>2. requests' \in Seq(Requests)
    BY <1>2, <1>3, <1>7, AskTyped, RequestTyped, NewTorrentTyped DEF HandlePrepare
  <2>3. /\ pendingMagnetMeta' \in [Keys -> Callers \cup {None}]
        /\ promise' \in [Callers -> {"unset", "value", "nullopt"}]
    BY <1>2, <1>7, <2>1 DEF HandlePrepare, Typed, TypeOK
  <2> QED
    BY <1>1, <1>7, <2>2, <2>3, NextCmdTyped DEF HandlePrepare, Typed, TypeOK
<1> QED
  BY <1>4, <1>5, <1>6, <1>7

\* The commands about a torrent that is there keep the types.
LEMMA TorrentCommandsTyped ==
    ASSUME Typed, HandleCancel \/ HandleFinalize \/ HandlePause \/ HandleResume \/ HandleRemove
    PROVE  Typed'
<1> DEFINE k == Head(local).key
<1>1. phase = "commands" /\ local # <<>>
  BY DEF HandleCancel, HandleFinalize, HandlePause, HandleResume, HandleRemove, Handling
<1>2. k \in Keys /\ WellFormed(Head(local)) /\ Head(local).opt \in Opts
  BY <1>1, HeadGood DEF WellFormed, Command, HandleCancel, HandleFinalize, HandlePause,
                        HandleResume, HandleRemove, Handling
<1>3. handlesByTaskId[k] \in Nat /\ torrents[k] \in Torrent /\ requests \in Seq(Requests)
  BY <1>2 DEF Typed, TypeOK, Requests
<1>4. CASE Throw
  BY <1>4, ThrowTyped
<1>5. CASE HandleCancel /\ ~Throw
  <2>1. requests' \in Seq(Requests)
    BY <1>2, <1>3, <1>5, AskTyped, RequestTyped DEF HandleCancel
  <2>2. /\ handlesByTaskId' = [handlesByTaskId EXCEPT ![k] = 0]
        /\ preparedTorrentInfo' = preparedTorrentInfo \ {k}
        /\ pendingMagnetMeta' = [pendingMagnetMeta EXCEPT ![k] = None]
    BY <1>5 DEF HandleCancel
  <2>3. /\ handlesByTaskId' \in [Keys -> Nat] /\ preparedTorrentInfo' \subseteq Keys
        /\ pendingMagnetMeta' \in [Keys -> Callers \cup {None}]
    BY <1>2, <2>2 DEF Typed, TypeOK
  <2> QED
    BY <1>1, <1>5, <2>1, <2>3, NextCmdTyped DEF HandleCancel, Typed, TypeOK
<1>6. CASE HandleFinalize /\ ~Throw
  <2>1. Head(local).opt \in {"plain", "top"}
    BY <1>2, <1>6 DEF WellFormed, HandleFinalize, Handling
  <2>2. CASE k \notin preparedTorrentInfo
    BY <1>1, <1>3, <1>6, <2>2, NextCmdTyped DEF HandleFinalize, mapVars, Typed, TypeOK
  <2>3. CASE k \in preparedTorrentInfo
    <3> DEFINE add == AddRequest([NoTorrent EXCEPT !.paused = TRUE, !.meta = TRUE,
                                                   !.asked = Head(local).opt], k)
               gone == IF handlesByTaskId[k] = 0 THEN <<>>
                       ELSE <<RemoveRequest(handlesByTaskId[k], k)>>
    <3>1. add \in Requests /\ RemoveRequest(handlesByTaskId[k], k) \in Requests
      BY <1>2, <1>3, RequestTyped, NewTorrentTyped
    <3>2. requests' = requests \o gone \o <<add>>
      BY <1>6, <2>3 DEF HandleFinalize
    <3> HIDE DEF add
    <3>3. gone \in Seq(Requests) /\ <<add>> \in Seq(Requests)
      BY <3>1
    <3> HIDE DEF gone
    <3>4. requests' \in Seq(Requests)
      BY <1>3, <3>2, <3>3, ConcatProperties
    <3>5. /\ handlesByTaskId' = [handlesByTaskId EXCEPT ![k] = 0]
          /\ preparedTorrentInfo' = preparedTorrentInfo \ {k}
          /\ pendingAddOpts' = [pendingAddOpts EXCEPT ![k] = Head(local).opt]
      BY <1>6, <2>3 DEF HandleFinalize
    <3>6. /\ handlesByTaskId' \in [Keys -> Nat] /\ preparedTorrentInfo' \subseteq Keys
          /\ pendingAddOpts' \in [Keys -> {"none", "plain", "top"}]
      BY <1>2, <2>1, <3>5 DEF Typed, TypeOK
    <3> QED
      BY <1>1, <1>6, <2>3, <3>4, <3>6, NextCmdTyped DEF HandleFinalize, Typed, TypeOK
  <2> QED
    BY <2>2, <2>3
<1>7. CASE HandlePause /\ ~Throw
  <2>1. torrents' \in [Keys -> Torrent]
    BY <1>2, <1>3, <1>7, TorrentFlags DEF HandlePause, Typed, TypeOK
  <2> QED
    BY <1>1, <1>3, <1>7, <2>1, NextCmdTyped DEF HandlePause, mapVars, Typed, TypeOK
<1>8. CASE HandleResume
  <2>1. torrents' \in [Keys -> Torrent]
    BY <1>2, <1>3, <1>8, TorrentFlags DEF HandleResume, Typed, TypeOK
  <2> QED
    BY <1>1, <1>3, <1>8, <2>1, NextCmdTyped DEF HandleResume, mapVars, Typed, TypeOK
<1>9. CASE HandleRemove /\ ~Throw
  <2>1. requests' \in Seq(Requests)
    BY <1>2, <1>3, <1>9, AskTyped, RequestTyped DEF HandleRemove
  <2> QED
    BY <1>1, <1>9, <2>1, NextCmdTyped DEF HandleRemove, mapVars, Typed, TypeOK
<1> QED
  BY <1>4, <1>5, <1>6, <1>7, <1>8, <1>9

\* The commands keep the types.
LEMMA HandleCmdTyped ==
    ASSUME Typed, HandleCmd
    PROVE  Typed'
<1>1. CASE HandleShutdown
  <2>1. local' \in Seq(GoodCommands) /\ local' \in Seq(Command) /\ local' = <<>>
    BY <1>1 DEF HandleShutdown
  <2>2. phase = "commands" /\ phase' = phase /\ popped' = popped /\ running' = FALSE
    BY <1>1 DEF HandleShutdown, Handling
  <2>3. TypeOK'
    BY <1>1, <2>1 DEF HandleShutdown, Typed, TypeOK, mapVars, clientVars, sessionVars
  <2> QED
    BY <1>1, <2>1, <2>2, <2>3 DEF HandleShutdown, Typed, QueueTyped, Phases
<1> QED
  BY <1>1, AddCommandsTyped, TorrentCommandsTyped DEF HandleCmd

\* What a handled alert leaves is typed if the maps, the promises and the
\* session's torrents are.
LEMMA NextAlertTyped ==
    ASSUME Typed, phase = "alerts", popped # <<>>, NextAlert,
           handlesByTaskId' \in [Keys -> Nat],
           pendingAddOpts' \in [Keys -> {"none", "plain", "top"}],
           preparedTorrentInfo' \subseteq Keys,
           pendingMagnetMeta' \in [Keys -> Callers \cup {None}],
           promise' \in [Callers -> {"unset", "value", "nullopt"}],
           torrents' \in [Keys -> Torrent]
    PROVE  Typed'
<1>1. popped' \in Seq(Alerts)
  BY HeadAlert DEF NextAlert, Typed
<1> QED
  BY <1>1 DEF NextAlert, Typed, TypeOK, QueueTyped, Phases, clientVars, Alerts

\* Fulfilling the calls for the keys S keeps the maps and the promises typed.
LEMMA FulfilTyped ==
    ASSUME Typed, NEW S \in SUBSET Keys, Fulfil(S)
    PROVE  /\ preparedTorrentInfo' \subseteq Keys
           /\ pendingMagnetMeta' \in [Keys -> Callers \cup {None}]
           /\ promise' \in [Callers -> {"unset", "value", "nullopt"}]
<1>1. preparedTorrentInfo' \subseteq Keys
  BY DEF Fulfil, Typed, TypeOK
<1>2. pendingMagnetMeta' \in [Keys -> Callers \cup {None}]
  BY DEF Fulfil, Typed, TypeOK
<1>3. promise' \in [Callers -> {"unset", "value", "nullopt"}]
  <2>1. PICK bad \in Refusals(S) :
             promise' = [c \in Callers |->
               IF \E k \in S : pendingMagnetMeta[k] = c
               THEN IF KeyOf[c] \in bad THEN "nullopt" ELSE "value"
               ELSE promise[c]]
    BY DEF Fulfil
  <2> QED
    BY <2>1 DEF Typed, TypeOK
<1> QED
  BY <1>1, <1>2, <1>3

\* The alerts keep the types.
LEMMA HandleAlertTyped ==
    ASSUME Typed, HandleAlert
    PROVE  Typed'
<1> DEFINE a == Head(popped)
           k == a.key
<1>1. phase = "alerts" /\ popped # <<>>
  BY DEF HandleAlert, HandleAdded, HandleAddFailed, HandleRemoved, HandleMetadata,
         HandleMetadataFailed, HandlingAlert
<1>2. a \in Alerts /\ k \in Keys /\ a.gen \in Nat
  BY <1>1, HeadAlert DEF Typed, Alerts
<1>3. torrents[k] \in Torrent
  BY <1>2 DEF Typed, TypeOK
<1>4. CASE Throw
  BY <1>4, ThrowTyped
<1>5. CASE HandleAdded /\ ~Throw
  <2> DEFINE top == pendingAddOpts[k] = "top"
             started == IF k \in Awaited THEN Fetching(torrents[k])
                        ELSE [torrents[k] EXCEPT !.paused = FALSE]
  <2>1. started \in Torrent
    BY <1>3, TorrentFlags
  <2>2. top \in BOOLEAN
    OBVIOUS
  <2> DEFINE put == [started EXCEPT !.top = @ \/ top]
  <2>3. torrents' = torrents \/ torrents' = [torrents EXCEPT ![k] = put]
    BY <1>5 DEF HandleAdded
  <2> HIDE DEF started, top
  <2>4. put \in Torrent
    BY <2>1, <2>2, TorrentFlags
  <2> HIDE DEF put
  <2>5. torrents' \in [Keys -> Torrent]
    BY <1>2, <2>3, <2>4 DEF Typed, TypeOK
  <2>6. /\ handlesByTaskId' \in [Keys -> Nat]
        /\ pendingAddOpts' \in [Keys -> {"none", "plain", "top"}]
    BY <1>2, <1>5 DEF HandleAdded, Typed, TypeOK
  <2> QED
    BY <1>1, <1>5, <2>5, <2>6, NextAlertTyped DEF HandleAdded, Typed, TypeOK
<1>6. CASE HandleAddFailed
  BY <1>1, <1>6, NextAlertTyped DEF HandleAddFailed, mapVars, Typed, TypeOK
<1>7. CASE HandleRemoved
  <2>1. /\ handlesByTaskId' \in [Keys -> Nat]
        /\ pendingAddOpts' \in [Keys -> {"none", "plain", "top"}]
    BY <1>2, <1>7 DEF HandleRemoved, Typed, TypeOK
  <2> QED
    BY <1>1, <1>7, <2>1, NextAlertTyped DEF HandleRemoved, Typed, TypeOK
<1>8. CASE HandleMetadata /\ ~Throw
  <2>1. {k} \cap Awaited \in SUBSET Keys
    BY <1>2
  <2>2. CASE Fulfil({k} \cap Awaited) /\ UNCHANGED <<handlesByTaskId, pendingAddOpts, torrents>>
    BY <1>1, <1>8, <2>1, <2>2, FulfilTyped, NextAlertTyped DEF HandleMetadata, Typed, TypeOK
  <2>3. CASE UNCHANGED <<mapVars, promise, torrents>>
    BY <1>1, <1>8, <2>3, NextAlertTyped DEF HandleMetadata, mapVars, Typed, TypeOK
  <2> QED
    BY <1>8, <2>2, <2>3 DEF HandleMetadata
<1>9. CASE HandleMetadataFailed /\ ~Throw
  <2>1. CASE UNCHANGED <<mapVars, promise, torrents>>
    BY <1>1, <1>9, <2>1, NextAlertTyped DEF HandleMetadataFailed, mapVars, Typed, TypeOK
  <2>2. CASE ~UNCHANGED <<mapVars, promise, torrents>>
    <3>1. /\ promise' = [c \in Callers |->
                 IF pendingMagnetMeta[k] = c THEN "nullopt" ELSE promise[c]]
          /\ pendingMagnetMeta' = [pendingMagnetMeta EXCEPT ![k] = None]
          /\ UNCHANGED <<handlesByTaskId, pendingAddOpts, preparedTorrentInfo, torrents>>
          /\ NextAlert
      BY <1>9, <2>2 DEF HandleMetadataFailed
    <3>2. /\ promise' \in [Callers -> {"unset", "value", "nullopt"}]
          /\ pendingMagnetMeta' \in [Keys -> Callers \cup {None}]
      BY <1>2, <3>1 DEF Typed, TypeOK
    <3> QED
      BY <1>1, <3>1, <3>2, NextAlertTyped DEF Typed, TypeOK
  <2> QED
    BY <2>1, <2>2
<1> QED
  BY <1>4, <1>5, <1>6, <1>7, <1>8, <1>9 DEF HandleAlert

\* The other steps of the worker keep the types.
LEMMA LoopTyped ==
    ASSUME Typed, Swap \/ PopAlerts \/ Poll
    PROVE  Typed'
<1>1. CASE Swap
  <2>1. /\ local' \in Seq(GoodCommands) /\ local' \in Seq(Command)
        /\ cmds' \in Seq(GoodCommands) /\ cmds' \in Seq(Command)
    BY <1>1 DEF Swap, Typed, TypeOK, QueueTyped
  <2>2. Phases'
    BY <1>1 DEF Swap, Typed, Phases
  <2> QED
    BY <1>1, <2>1, <2>2
       DEF Swap, Typed, TypeOK, QueueTyped, mapVars, clientVars, sessionVars
<1>2. CASE PopAlerts
  <2>1. Phases'
    BY <1>2 DEF PopAlerts, Typed, Phases
  <2>2. popped' \in Seq(Alerts) /\ alerts' \in Seq(Alerts)
    BY <1>2 DEF PopAlerts, Typed, TypeOK, Alerts
  <2> QED
    BY <1>2, <2>1, <2>2 DEF PopAlerts, Typed, TypeOK, QueueTyped, mapVars, clientVars, Alerts
<1>3. CASE Poll
  <2>1. Phases'
    BY <1>3 DEF Poll, Typed, Phases, TypeOK
  <2>2. {k \in {j \in Awaited : Valid(j)} : torrents[k].meta} \in SUBSET Keys
    BY DEF Awaited
  <2>3. /\ preparedTorrentInfo' \subseteq Keys
        /\ pendingMagnetMeta' \in [Keys -> Callers \cup {None}]
        /\ promise' \in [Callers -> {"unset", "value", "nullopt"}]
    BY <1>3, <2>2, FulfilTyped DEF Poll
  <2>4. \A k \in Keys : torrents[k] \in Torrent /\ Fetching(torrents[k]) \in Torrent
    BY TorrentFlags DEF Typed, TypeOK
  <2>5. torrents' \in [Keys -> Torrent]
    BY <1>3, <2>4 DEF Poll
  <2> QED
    BY <1>3, <2>1, <2>3, <2>5 DEF Poll, Typed, TypeOK, QueueTyped, clientVars
<1> QED
  BY <1>1, <1>2, <1>3

\* Every step keeps the types.
LEMMA NextTyped ==
    ASSUME Typed, Next
    PROVE  Typed'
<1>1. CASE Ended
  BY <1>1 DEF Ended, vars, workerVars, mapVars, clientVars, sessionVars, Typed, TypeOK,
              QueueTyped, Phases
<1> QED
  BY <1>1, LoopTyped, HandleCmdTyped, HandleAlertTyped, SessionTyped, PeersTyped, ClientTyped
     DEF Next, WorkerStep, SessionStep, PeersStep

-----------------------------------------------------------------------------
(* The map of handles.                                                      *)

\* The alerts of news about k that change the handle, and what one of them
\* changes it to.
Mine(news, k) == {i \in DOMAIN news : news[i].key = k /\ news[i].type \in {"added", "removed"}}
Outcome(a) == IF a.type = "added" THEN a.gen ELSE 0

\* The handle of k is h once the alerts of news are handled, if it is old now.
ToBe(news, old, k, h) ==
    \/ Mine(news, k) = {} /\ h = old
    \/ \E i \in Mine(news, k) : (\A j \in Mine(news, k) : j <= i) /\ h = Outcome(news[i])

\* That is what HandleToBe says.
LEMMA HandleToBeIs ==
    ASSUME NEW k \in Keys, NEW h
    PROVE  HandleToBe(k, h) <=> ToBe(popped \o alerts, handlesByTaskId[k], k, h)
  BY DEF HandleToBe, ToBe, Mine, Outcome

\* An alert that is not about the handle of k changes nothing.
LEMMA ToBeOther ==
    ASSUME NEW news \in Seq(Alerts), NEW a \in Alerts, NEW k, NEW h, NEW old,
           a.key # k \/ a.type \notin {"added", "removed"}, ToBe(news, old, k, h)
    PROVE  ToBe(Append(news, a), old, k, h)
<1>1. Mine(Append(news, a), k) = Mine(news, k)
  BY AppendProperties, LenProperties DEF Mine
<1>2. \A i \in Mine(news, k) : Append(news, a)[i] = news[i]
  BY AppendProperties, LenProperties DEF Mine
<1> QED
  BY <1>1, <1>2 DEF ToBe

\* One that is decides, being the last.
LEMMA ToBeLast ==
    ASSUME NEW news \in Seq(Alerts), NEW a \in Alerts, NEW old,
           a.type \in {"added", "removed"}
    PROVE  ToBe(Append(news, a), old, a.key, Outcome(a))
<1> DEFINE n == Len(news) + 1
<1>1. /\ Append(news, a) \in Seq(Alerts) /\ Len(Append(news, a)) = n
      /\ Append(news, a)[n] = a /\ n \in 1 .. n
  BY AppendProperties, LenProperties
<1>2. n \in Mine(Append(news, a), a.key)
  BY <1>1, LenProperties DEF Mine
<1>3. \A j \in Mine(Append(news, a), a.key) : j <= n
  BY <1>1, LenProperties DEF Mine
<1> QED
  BY <1>1, <1>2, <1>3 DEF ToBe

\* Handling the first alert takes it from the news and, if it is about k, puts
\* what it changes the handle to in the place of the old one.
LEMMA ToBeHandled ==
    ASSUME NEW news \in Seq(Alerts), news # <<>>, NEW k, NEW h, NEW old, NEW new,
           ToBe(news, old, k, h),
           new = IF Head(news).key = k /\ Head(news).type \in {"added", "removed"}
                 THEN Outcome(Head(news)) ELSE old
    PROVE  ToBe(Tail(news), new, k, h)
<1>1. /\ Len(news) \in Nat \ {0} /\ DOMAIN news = 1 .. Len(news)
      /\ Tail(news) \in Seq(Alerts) /\ DOMAIN Tail(news) = 1 .. (Len(news) - 1)
      /\ \A i \in 1 .. (Len(news) - 1) : Tail(news)[i] = news[i + 1]
      /\ Head(news) = news[1]
  BY EmptySeq, LenProperties, HeadTailProperties
<1>2. \A i \in 1 .. (Len(news) - 1) : i \in Mine(Tail(news), k) <=> i + 1 \in Mine(news, k)
  BY <1>1 DEF Mine
<1>3. Mine(Tail(news), k) \subseteq 1 .. (Len(news) - 1) /\ Mine(news, k) \subseteq 1 .. Len(news)
  BY <1>1 DEF Mine
<1>4. 1 \in Mine(news, k) <=> Head(news).key = k /\ Head(news).type \in {"added", "removed"}
  BY <1>1 DEF Mine
<1>5. CASE Mine(news, k) = {} /\ h = old
  BY <1>2, <1>3, <1>4, <1>5 DEF ToBe
<1>6. ASSUME NEW i \in Mine(news, k), \A j \in Mine(news, k) : j <= i, h = Outcome(news[i])
      PROVE  ToBe(Tail(news), new, k, h)
  <2>1. CASE i = 1
    <3>1. Mine(Tail(news), k) = {}
      BY <1>2, <1>3, <1>6, <2>1
    <3> QED
      BY <1>1, <1>4, <1>6, <2>1, <3>1 DEF ToBe
  <2>2. CASE i # 1
    <3>1. i - 1 \in 1 .. (Len(news) - 1) /\ i - 1 + 1 = i
      BY <1>1, <1>3, <2>2
    <3>2. i - 1 \in Mine(Tail(news), k) /\ Tail(news)[i - 1] = news[i]
      BY <1>1, <1>2, <3>1
    <3>3. ASSUME NEW j \in Mine(Tail(news), k) PROVE j <= i - 1
      <4>1. j \in 1 .. (Len(news) - 1) /\ j + 1 \in Mine(news, k)
        BY <1>2, <1>3
      <4>2. j + 1 <= i
        BY <1>6, <4>1
      <4> QED
        BY <1>3, <4>1, <4>2
    <3> QED
      BY <1>6, <3>2, <3>3 DEF ToBe
  <2> QED
    BY <2>1, <2>2
<1> QED
  BY <1>5, <1>6 DEF ToBe

\* The same of the news in two parts.
LEMMA ToBePopped ==
    ASSUME TypeOK, popped # <<>>, NEW k, NEW h, NEW old, NEW new,
           ToBe(popped \o alerts, old, k, h),
           new = IF Head(popped).key = k /\ Head(popped).type \in {"added", "removed"}
                 THEN Outcome(Head(popped)) ELSE old
    PROVE  ToBe(Tail(popped) \o alerts, new, k, h)
<1>1. popped \in Seq(Alerts) /\ alerts \in Seq(Alerts)
  BY DEF TypeOK, Alerts
<1>2. /\ popped \o alerts \in Seq(Alerts) /\ popped \o alerts # <<>>
      /\ Head(popped \o alerts) = Head(popped)
      /\ Tail(popped) \o alerts = Tail(popped \o alerts)
  BY <1>1, ConcatTail
<1>3. ToBe(Tail(popped \o alerts), new, k, h)
  BY <1>2, ToBeHandled
<1> QED
  BY <1>2, <1>3

\* Forgetting the handle: it will be as the news say, or none.
LEMMA ToBeForgotten ==
    ASSUME NEW news, NEW old, NEW k, NEW h, ToBe(news, old, k, h)
    PROVE  ToBe(news, 0, k, h) \/ (ToBe(news, 0, k, 0) /\ h = old)
  BY DEF ToBe

\* HandlesTracked, of one key: the session was asked to remove its torrent, or
\* its handle is the one that the worker will hold.
Going(k) == \E i \in DOMAIN requests : requests[i] = RemoveRequest(torrents[k].gen, k)

Tracked(k) ==
    \/ ToBe(popped \o alerts, handlesByTaskId[k], k, torrents[k].gen)
    \/ ToBe(popped \o alerts, handlesByTaskId[k], k, 0) /\ Going(k)

\* Tracked says of one key what HandlesTracked says of all.
LEMMA TrackedIs == HandlesTracked <=> (Alive => \A k \in Keys : Tracked(k))
  BY HandleToBeIs DEF HandlesTracked, Tracked, Going

\* Requests are put behind those that wait.
LEMMA MoreRequests ==
    ASSUME Typed, requests' = requests \/ (\E r \in Requests : Ask(r))
                  \/ (\E s \in Seq(Requests) : requests' = requests \o s)
    PROVE  \A i \in DOMAIN requests : i \in DOMAIN requests' /\ requests'[i] = requests[i]
<1>1. requests \in Seq(Requests)
  BY DEF Typed, TypeOK, Requests
<1>2. ASSUME NEW r \in Requests, Ask(r)
      PROVE  \A i \in DOMAIN requests : i \in DOMAIN requests' /\ requests'[i] = requests[i]
  BY <1>1, <1>2, AppendProperties, LenProperties DEF Ask
<1>3. ASSUME NEW s \in Seq(Requests), requests' = requests \o s
      PROVE  \A i \in DOMAIN requests : i \in DOMAIN requests' /\ requests'[i] = requests[i]
  BY <1>1, <1>3, ConcatProperties, LenProperties
<1> QED
  BY <1>2, <1>3

\* A step that leaves the news, the handle and the session's torrent alone and
\* takes no request away keeps track.
LEMMA TrackedKept ==
    ASSUME NEW k \in Keys, Tracked(k), UNCHANGED <<popped, alerts>>,
           handlesByTaskId'[k] = handlesByTaskId[k], torrents'[k].gen = torrents[k].gen,
           \A i \in DOMAIN requests : i \in DOMAIN requests' /\ requests'[i] = requests[i]
    PROVE  Tracked(k)'
<1>1. Going(k) => Going(k)'
  BY DEF Going
<1> QED
  BY <1>1 DEF Tracked

\* The session executes another request than k's removal.
LEMMA GoingStays ==
    ASSUME Typed, NEW k \in Keys, Going(k), requests # <<>>, requests' = Tail(requests),
           torrents'[k].gen = torrents[k].gen,
           Head(requests) # RemoveRequest(torrents[k].gen, k)
    PROVE  Going(k)'
<1>1. requests \in Seq(Requests)
  BY DEF Typed, TypeOK, Requests
<1>2. PICK i \in DOMAIN requests : requests[i] = RemoveRequest(torrents[k].gen, k)
  BY DEF Going
<1>3. /\ DOMAIN requests = 1 .. Len(requests) /\ Len(requests) \in Nat
      /\ DOMAIN Tail(requests) = 1 .. (Len(requests) - 1)
      /\ \A j \in 1 .. (Len(requests) - 1) : Tail(requests)[j] = requests[j + 1]
      /\ Head(requests) = requests[1]
  BY <1>1, HeadTailProperties, LenProperties
<1>4. i - 1 \in DOMAIN Tail(requests) /\ Tail(requests)[i - 1] = requests[i]
  BY <1>2, <1>3
<1> QED
  BY <1>2, <1>4 DEF Going

\* An alert is news: what is known of the handle of k stands, unless the alert
\* is about it.
LEMMA TrackedPost ==
    ASSUME Typed, NEW k \in Keys, NEW a \in Alerts, Post(a), UNCHANGED popped,
           a.key # k \/ a.type \notin {"added", "removed"},
           handlesByTaskId'[k] = handlesByTaskId[k], torrents'[k].gen = torrents[k].gen,
           Tracked(k), Going(k) => Going(k)'
    PROVE  Tracked(k)'
<1>1. popped \in Seq(Alerts) /\ alerts \in Seq(Alerts)
  BY DEF Typed, TypeOK, Alerts
<1>2. popped' \o alerts' = Append(popped \o alerts, a) /\ popped \o alerts \in Seq(Alerts)
  BY <1>1, ConcatAppend, ConcatProperties DEF Post
<1>3. \A h : ToBe(popped \o alerts, handlesByTaskId[k], k, h)
             => ToBe(Append(popped \o alerts, a), handlesByTaskId[k], k, h)
  BY <1>2, ToBeOther
<1> QED
  BY <1>2, <1>3 DEF Tracked

\* The alert about k that the session posts last brings the worker up to date.
LEMMA TrackedNews ==
    ASSUME Typed, NEW a \in Alerts, Post(a), UNCHANGED popped,
           a.type \in {"added", "removed"}, torrents'[a.key].gen = Outcome(a)
    PROVE  Tracked(a.key)'
<1>1. popped \in Seq(Alerts) /\ alerts \in Seq(Alerts)
  BY DEF Typed, TypeOK, Alerts
<1> DEFINE news == popped \o alerts
<1>2. popped' \o alerts' = Append(news, a) /\ news \in Seq(Alerts)
  BY <1>1, ConcatAppend, ConcatProperties DEF Post
<1> HIDE DEF news
<1>3. \A old : ToBe(Append(news, a), old, a.key, Outcome(a))
  BY <1>2, ToBeLast
<1> QED
  BY <1>2, <1>3 DEF Tracked

\* The session keeps track.
LEMMA SessionTracked ==
    ASSUME Typed, SessionAdds \/ SessionRemoves, NEW k \in Keys, Tracked(k)
    PROVE  Tracked(k)'
<1> DEFINE r == Head(requests)
<1>1. requests # <<>> /\ r \in Requests /\ requests' = Tail(requests)
  BY HeadTailProperties DEF SessionAdds, SessionRemoves, Typed, TypeOK, Requests
<1>2. r.key \in Keys /\ r.torrent.gen \in Nat /\ torrents[r.key].gen \in Nat /\ lastGen + 1 \in Nat
  <2>1. r.key \in Keys /\ r.torrent \in Torrent
    BY <1>1 DEF Requests
  <2> HIDE DEF r
  <2>2. torrents[r.key] \in Torrent
    BY <2>1 DEF Typed, TypeOK
  <2> QED
    BY <2>1, <2>2 DEF Torrent, Typed, TypeOK
<1>3. UNCHANGED <<popped, handlesByTaskId>>
  BY DEF SessionAdds, SessionRemoves, workerVars, mapVars
<1>4. ASSUME r.do = "add", torrents'[k].gen = torrents[k].gen
      PROVE  Going(k) => Going(k)'
  <2>1. r # RemoveRequest(torrents[k].gen, k)
    BY <1>4 DEF RemoveRequest
  <2> QED
    BY <1>1, <1>4, <2>1, GoingStays
<1>5. ASSUME r.key # k, torrents'[k].gen = torrents[k].gen
      PROVE  Going(k) => Going(k)'
  <2>1. r # RemoveRequest(torrents[k].gen, k)
    BY <1>5 DEF RemoveRequest
  <2> QED
    BY <1>1, <1>5, <2>1, GoingStays
<1>6. ASSUME NEW type \in {"addFailed", "added", "removed"}, NEW g \in Nat,
             Post(Alert(type, r.key, g)),
             r.key # k => torrents'[k].gen = torrents[k].gen,
             type = "addFailed" => torrents'[k].gen = torrents[k].gen /\ r.do = "add",
             type # "addFailed" => torrents'[r.key].gen = IF type = "added" THEN g ELSE 0
      PROVE  Tracked(k)'
  <2> DEFINE a == Alert(type, r.key, g)
  <2>1. a \in Alerts /\ a.type = type /\ a.key = r.key /\ a.gen = g
    BY <1>2 DEF Alert, Alerts, AlertTypes
  <2> HIDE DEF a
  <2>2. CASE r.key # k \/ type = "addFailed"
    <3>1. Going(k) => Going(k)'
      BY <1>4, <1>5, <1>6, <2>2
    <3> QED
      BY <1>3, <1>6, <2>1, <2>2, <3>1, TrackedPost DEF a
  <2>3. CASE r.key = k /\ type # "addFailed"
    <3>1. Outcome(a) = torrents'[k].gen
      BY <1>6, <2>1, <2>3 DEF Outcome
    <3> QED
      BY <1>3, <1>6, <2>1, <2>3, <3>1, TrackedNews DEF a
  <2> QED
    BY <2>2, <2>3
<1>7. CASE SessionAdds
  <2>1. r.do = "add"
    BY <1>7 DEF SessionAdds
  <2>2. CASE torrents' = torrents /\ Post(Alert("addFailed", r.key, 0))
    BY <1>6, <2>1, <2>2
  <2>3. CASE torrents' = torrents /\ Post(Alert("added", r.key, torrents[r.key].gen))
    BY <1>2, <1>6, <2>1, <2>3
  <2>4. CASE /\ torrents' = [torrents EXCEPT ![r.key] = [r.torrent EXCEPT !.gen = lastGen + 1]]
             /\ Post(Alert("added", r.key, lastGen + 1))
    <3>1. [r.torrent EXCEPT !.gen = lastGen + 1].gen = lastGen + 1
      BY <1>1 DEF Requests, Torrent
    <3>2. /\ torrents'[r.key].gen = lastGen + 1
          /\ r.key # k => torrents'[k] = torrents[k]
      BY <1>2, <2>4, <3>1 DEF Typed, TypeOK
    <3> QED
      BY <1>2, <1>6, <2>4, <3>2
  <2> QED
    BY <1>7, <2>2, <2>3, <2>4 DEF SessionAdds
<1>8. CASE SessionRemoves
  <2>1. r.do = "remove" /\ r \in Requests
    BY <1>1, <1>8 DEF SessionRemoves
  <2>2. CASE torrents[r.key].gen = r.torrent.gen
    <3>1. /\ torrents' = [torrents EXCEPT ![r.key] = NoTorrent]
          /\ Post(Alert("removed", r.key, r.torrent.gen))
      BY <1>8, <2>2 DEF SessionRemoves
    <3>2. /\ torrents'[r.key].gen = 0
          /\ r.key # k => torrents'[k] = torrents[k]
      BY <1>2, <3>1 DEF Typed, TypeOK, NoTorrent
    <3> QED
      BY <1>2, <1>6, <3>1, <3>2
  <2>3. CASE torrents[r.key].gen # r.torrent.gen
    <3>1. UNCHANGED <<torrents, alerts>>
      BY <1>8, <2>3 DEF SessionRemoves
    <3>2. r # RemoveRequest(torrents[k].gen, k)
      BY <2>3 DEF RemoveRequest, NoTorrent
    <3>3. Going(k) => Going(k)'
      BY <1>1, <3>1, <3>2, GoingStays
    <3> QED
      BY <1>3, <3>1, <3>3 DEF Tracked
  <2> QED
    BY <2>2, <2>3
<1> QED
  BY <1>7, <1>8

\* A handle that the worker forgets is one whose torrent it asks to remove.
LEMMA TrackedForgets ==
    ASSUME NEW k \in Keys, Tracked(k), UNCHANGED <<popped, alerts>>,
           handlesByTaskId'[k] = 0, torrents'[k].gen = torrents[k].gen, Going(k)'
    PROVE  Tracked(k)'
  BY ToBeForgotten DEF Tracked

\* The first of the popped alerts is handled.
LEMMA TrackedAlert ==
    ASSUME Typed, NEW k \in Keys, Tracked(k), popped # <<>>, NextAlert,
           torrents'[k].gen = torrents[k].gen,
           handlesByTaskId'[k] =
               IF Head(popped).key = k /\ Head(popped).type \in {"added", "removed"}
               THEN Outcome(Head(popped)) ELSE handlesByTaskId[k]
    PROVE  Tracked(k)'
<1>1. Going(k) => Going(k)'
  BY DEF Going, NextAlert
<1>2. popped' = Tail(popped) /\ alerts' = alerts
  BY DEF NextAlert
<1> DEFINE new == handlesByTaskId'[k]
<1>3. \A h : ToBe(popped \o alerts, handlesByTaskId[k], k, h)
             => ToBe(Tail(popped) \o alerts, new, k, h)
  BY ToBePopped DEF Typed
<1> QED
  BY <1>1, <1>2, <1>3 DEF Tracked

\* The handlers of commands keep track.
LEMMA CmdTracked ==
    ASSUME Typed, HandleCmd, ~Throw, NEW k \in Keys, Tracked(k)
    PROVE  Tracked(k)'
<1> DEFINE j == Head(local).key
<1> USE DEF Handling
<1>1. requests \in Seq(Requests) /\ torrents[k] \in Torrent
  BY DEF Typed, TypeOK, Requests
<1>2. CASE HandleShutdown
  BY <1>2, TrackedKept DEF HandleShutdown, mapVars, sessionVars
<1>3. ASSUME HandleCmd, ~HandleShutdown
      PROVE  /\ phase = "commands" /\ local # <<>> /\ NextCmd
             /\ j \in Keys /\ Head(local).opt \in Opts
  <2>1. phase = "commands" /\ local # <<>> /\ Head(local).op # "Shutdown" /\ NextCmd
    BY <1>3 DEF HandleCmd, HandleAddMagnet, HandleAddTorrentFile, HandleAddFromResumeData,
           HandlePrepare, HandleCancel, HandleFinalize, HandlePause, HandleResume, HandleRemove
  <2> QED
    BY <2>1, HeadGood DEF WellFormed, Command
<1>4. UNCHANGED <<popped, alerts>>
  BY <1>2, <1>3 DEF HandleShutdown, sessionVars, NextCmd
<1>5. CASE HandleAddMagnet \/ HandleAddTorrentFile \/ HandleAddFromResumeData \/ HandlePrepare
  <2>1. requests' = requests \/ (\E r \in Requests : Ask(r))
    <3>1. j \in Keys /\ Head(local).opt \in Opts
      BY <1>3, <1>5 DEF HandleCmd, HandleAddMagnet, HandleAddTorrentFile,
                        HandleAddFromResumeData, HandlePrepare, HandleShutdown
    <3> QED
      BY <1>5, <3>1, RequestTyped, NewTorrentTyped
         DEF HandleAddMagnet, HandleAddTorrentFile, HandleAddFromResumeData, HandlePrepare,
             AskUnlessRejected
  <2>2. UNCHANGED <<handlesByTaskId, torrents>>
    BY <1>5 DEF HandleAddMagnet, HandleAddTorrentFile, HandleAddFromResumeData, HandlePrepare,
                mapVars
  <2> QED
    BY <1>4, <2>1, <2>2, MoreRequests, TrackedKept
<1>6. CASE HandlePause \/ HandleResume \/ HandleRemove
  <2>1. j \in Keys
    BY <1>3, <1>6 DEF HandleCmd, HandlePause, HandleResume, HandleRemove, HandleShutdown
  <2>2. handlesByTaskId[j] \in Nat /\ torrents[j] \in Torrent
    BY <2>1 DEF Typed, TypeOK
  <2>3. requests' = requests \/ (\E r \in Requests : Ask(r))
    BY <1>6, <2>1, <2>2, RequestTyped DEF HandlePause, HandleResume, HandleRemove
  <2>4. handlesByTaskId' = handlesByTaskId
    BY <1>6 DEF HandlePause, HandleResume, HandleRemove, mapVars
  <2>5. torrents'[k].gen = torrents[k].gen
    <3> DEFINE paused == [torrents[j] EXCEPT !.paused = TRUE]
               resumed == [torrents[j] EXCEPT !.paused = FALSE, !.top = TRUE,
                               !.asked = IF @ = "paused" THEN "none" ELSE @]
    <3>1. paused.gen = torrents[j].gen /\ resumed.gen = torrents[j].gen
      BY <2>2 DEF Torrent
    <3>2. \/ torrents' = torrents
          \/ torrents' = [torrents EXCEPT ![j] = paused]
          \/ torrents' = [torrents EXCEPT ![j] = resumed]
      BY <1>6, <2>1 DEF HandlePause, HandleResume, HandleRemove, Typed, TypeOK
    <3> HIDE DEF paused, resumed
    <3> QED
      BY <2>1, <3>1, <3>2 DEF Typed, TypeOK
  <2> QED
    BY <1>4, <2>3, <2>4, <2>5, MoreRequests, TrackedKept
<1>7. CASE HandleCancel \/ HandleFinalize
  <2>1. j \in Keys /\ Head(local).opt \in Opts
    BY <1>3, <1>7 DEF HandleCmd, HandleCancel, HandleFinalize, HandleShutdown
  <2> DEFINE go == RemoveRequest(handlesByTaskId[j], j)
             add == AddRequest([NoTorrent EXCEPT !.paused = TRUE, !.meta = TRUE,
                                                 !.asked = Head(local).opt], j)
  <2>2. handlesByTaskId[j] \in Nat /\ go \in Requests /\ add \in Requests
    BY <2>1, RequestTyped, NewTorrentTyped DEF Typed, TypeOK
  <2>3. torrents' = torrents
    BY <1>7 DEF HandleCancel, HandleFinalize
  <2> HIDE DEF add
  <2>4. CASE handlesByTaskId' = handlesByTaskId /\ requests' = requests
    BY <1>4, <2>3, <2>4, TrackedKept
  <2>5. CASE ~(handlesByTaskId' = handlesByTaskId /\ requests' = requests)
    <3>1. /\ handlesByTaskId' = [handlesByTaskId EXCEPT ![j] = 0]
          /\ handlesByTaskId[j] = 0 \/ Valid(j)
          /\ \/ handlesByTaskId[j] = 0 /\ (requests' = requests \/ requests' = requests \o <<>> \o <<add>>)
             \/ handlesByTaskId[j] # 0 /\ (Ask(go) \/ requests' = requests \o <<go>> \o <<add>>)
      BY <1>7, <2>5 DEF HandleCancel, HandleFinalize, mapVars, add
    <3> HIDE DEF go
    <3>2. \A i \in DOMAIN requests : i \in DOMAIN requests' /\ requests'[i] = requests[i]
      <4>1. /\ \A x, y \in Requests : requests \o <<x>> \o <<y>> = requests \o (<<x>> \o <<y>>)
            /\ \A y \in Requests : requests \o <<>> \o <<y>> = requests \o (<<>> \o <<y>>)
        BY <1>1, ConcatAssociative
      <4>2. /\ \A x, y \in Requests : <<x>> \o <<y>> \in Seq(Requests)
            /\ \A y \in Requests : <<>> \o <<y>> \in Seq(Requests)
        OBVIOUS
      <4> QED
        BY <2>2, <3>1, <4>1, <4>2, MoreRequests
    <3>3. handlesByTaskId[j] # 0 => \E i \in DOMAIN requests' : requests'[i] = go
      <4>1. CASE Ask(go)
        BY <1>1, <2>2, <4>1, AppendProperties, LenProperties DEF Ask
      <4>2. CASE requests' = requests \o <<go>> \o <<add>>
        <5>1. /\ requests \o <<go>> \in Seq(Requests) /\ Len(requests) \in Nat
              /\ Len(requests \o <<go>>) = Len(requests) + 1
              /\ (requests \o <<go>>)[Len(requests) + 1] = go
          BY <1>1, <2>2, AppendIsConcat, AppendProperties, LenProperties
        <5>2. /\ (requests \o <<go>>) \o <<add>> = Append(requests \o <<go>>, add)
              /\ Append(requests \o <<go>>, add) \in Seq(Requests)
              /\ Len(Append(requests \o <<go>>, add)) = Len(requests) + 2
              /\ Append(requests \o <<go>>, add)[Len(requests) + 1] = go
          BY <2>2, <5>1, AppendIsConcat, AppendProperties
        <5>3. Len(requests) + 1 \in DOMAIN requests' /\ requests'[Len(requests) + 1] = go
          BY <4>2, <5>1, <5>2, LenProperties
        <5> QED
          BY <5>3
      <4> QED
        BY <3>1, <4>1, <4>2
    <3>4. CASE handlesByTaskId'[k] = handlesByTaskId[k]
      BY <1>4, <2>3, <3>2, <3>4, TrackedKept
    <3>5. CASE handlesByTaskId'[k] # handlesByTaskId[k]
      <4>1. k = j /\ handlesByTaskId[k] # 0 /\ handlesByTaskId'[k] = 0
        BY <3>1, <3>5 DEF Typed, TypeOK
      <4>2. torrents'[k].gen = handlesByTaskId[k]
        BY <2>3, <3>1, <4>1 DEF Valid
      <4>3. Going(k)'
        BY <3>3, <4>1, <4>2 DEF Going, go
      <4> QED
        BY <1>4, <2>3, <4>1, <4>3, TrackedForgets
    <3> QED
      BY <3>4, <3>5
  <2> QED
    BY <2>4, <2>5
<1> QED
  BY <1>2, <1>5, <1>6, <1>7 DEF HandleCmd

\* The handlers of alerts keep track.
LEMMA AlertTracked ==
    ASSUME Typed, HandleAlert, ~Throw, NEW k \in Keys, Tracked(k)
    PROVE  Tracked(k)'
<1> DEFINE a == Head(popped)
<1> USE DEF HandlingAlert
<1>1. phase = "alerts" /\ popped # <<>> /\ NextAlert
  BY DEF HandleAlert, HandleAdded, HandleAddFailed, HandleRemoved, HandleMetadata,
         HandleMetadataFailed
<1>2. a \in Alerts /\ a.key \in Keys /\ a.gen \in Nat
  BY <1>1, HeadAlert DEF Typed, Alerts
<1> HIDE DEF a
<1>3. torrents[a.key] \in Torrent
  BY <1>2 DEF Typed, TypeOK
<1>4. CASE HandleAdded
  <2>1. handlesByTaskId'[k] = IF a.key = k THEN a.gen ELSE handlesByTaskId[k]
    BY <1>2, <1>4 DEF HandleAdded, a, Typed, TypeOK
  <2>2. torrents'[k].gen = torrents[k].gen
    <3> DEFINE top == pendingAddOpts[a.key] = "top"
               started == IF a.key \in Awaited THEN Fetching(torrents[a.key])
                          ELSE [torrents[a.key] EXCEPT !.paused = FALSE]
               put == [started EXCEPT !.top = @ \/ top]
    <3>1. started \in Torrent /\ started.gen = torrents[a.key].gen
      <4>1. [torrents[a.key] EXCEPT !.paused = FALSE].gen = torrents[a.key].gen
        BY <1>3 DEF Torrent
      <4> QED
        BY <1>3, <4>1, TorrentFlags
    <3>2. torrents' = torrents \/ torrents' = [torrents EXCEPT ![a.key] = put]
      BY <1>4 DEF HandleAdded, a
    <3> HIDE DEF started, top
    <3>3. put.gen = torrents[a.key].gen
      BY <3>1 DEF Torrent
    <3> HIDE DEF put
    <3> QED
      BY <1>2, <3>2, <3>3 DEF Typed, TypeOK
  <2>3. a.type = "added"
    BY <1>4 DEF HandleAdded, a
  <2> QED
    BY <1>1, <2>1, <2>2, <2>3, TrackedAlert DEF a, Outcome
<1>5. CASE HandleRemoved
  <2>1. handlesByTaskId'[k] = IF a.key = k THEN 0 ELSE handlesByTaskId[k]
    BY <1>2, <1>5 DEF HandleRemoved, a, Typed, TypeOK
  <2>2. a.type = "removed" /\ torrents' = torrents
    BY <1>5 DEF HandleRemoved, a
  <2> QED
    BY <1>1, <2>1, <2>2, TrackedAlert DEF a, Outcome
<1>6. CASE HandleAddFailed \/ HandleMetadata \/ HandleMetadataFailed
  <2>1. a.type \in {"addFailed", "metadata", "metadataFailed"}
    BY <1>6 DEF HandleAddFailed, HandleMetadata, HandleMetadataFailed, a
  <2>2. handlesByTaskId' = handlesByTaskId /\ torrents' = torrents
    BY <1>6 DEF HandleAddFailed, HandleMetadata, HandleMetadataFailed, mapVars
  <2> QED
    BY <1>1, <2>1, <2>2, TrackedAlert DEF a
<1> QED
  BY <1>4, <1>5, <1>6 DEF HandleAlert

\* The other steps of the worker keep track.
LEMMA LoopTracked ==
    ASSUME Typed, Swap \/ PopAlerts \/ Poll, NEW k \in Keys, Tracked(k)
    PROVE  Tracked(k)'
<1>1. CASE Swap
  BY <1>1, TrackedKept DEF Swap, mapVars, sessionVars
<1>2. CASE PopAlerts
  <2>1. popped' = alerts /\ alerts' = <<>> /\ popped = <<>> /\ alerts \in Seq(Alerts)
    BY <1>2 DEF PopAlerts, Typed, TypeOK, Phases, Alerts
  <2>2. popped' \o alerts' = popped \o alerts
    BY <2>1, ConcatEmptySeq
  <2> QED
    BY <1>2, <2>2 DEF PopAlerts, mapVars, Tracked, Going
<1>3. CASE Poll
  <2>1. torrents[k] \in Torrent
    BY DEF Typed, TypeOK
  <2>2. torrents'[k].gen = torrents[k].gen
    BY <1>3, <2>1, TorrentFlags DEF Poll
  <2> QED
    BY <1>3, <2>2, TrackedKept DEF Poll
<1> QED
  BY <1>1, <1>2, <1>3

\* The steps of the clients and of the peers keep track.
LEMMA OthersTracked ==
    ASSUME Typed, ClientStep \/ PeersStep, NEW k \in Keys, Tracked(k)
    PROVE  Tracked(k)'
<1>1. CASE ClientStep
  <2>1. UNCHANGED <<popped, alerts, handlesByTaskId, torrents, requests>>
    BY <1>1 DEF ClientStep, Issue, CallStep, CallPrepare, CallReturns, CallExpires, CallCancels,
                UserGivesUp, UserCancels, UserConfirms, Shutdown, Goto, workerVars, mapVars,
                sessionVars
  <2> QED
    BY <2>1, TrackedKept
<1>2. ASSUME NEW j \in Keys, MetadataArrives(j) \/ MetadataFails(j)
      PROVE  Tracked(k)'
  <2>1. torrents[j] \in Torrent /\ torrents[k] \in Torrent
    BY DEF Typed, TypeOK
  <2>2. PICK type \in {"metadata", "metadataFailed"} : Post(Alert(type, j, torrents[j].gen))
    BY <1>2 DEF MetadataArrives, MetadataFails
  <2>3. /\ Alert(type, j, torrents[j].gen) \in Alerts
        /\ Alert(type, j, torrents[j].gen).type \notin {"added", "removed"}
    BY <2>1, <2>2 DEF Alert, Alerts, AlertTypes, Torrent
  <2>4. torrents'[k].gen = torrents[k].gen
    <3>1. [torrents[j] EXCEPT !.meta = TRUE].gen = torrents[j].gen
      BY <2>1 DEF Torrent
    <3> QED
      BY <1>2, <3>1 DEF MetadataArrives, MetadataFails, Typed, TypeOK
  <2>5. UNCHANGED <<popped, handlesByTaskId, requests>>
    BY <1>2 DEF MetadataArrives, MetadataFails, workerVars, mapVars
  <2>6. Going(k) => Going(k)'
    BY <2>4, <2>5 DEF Going
  <2> QED
    BY <2>2, <2>3, <2>4, <2>5, <2>6, TrackedPost
<1> QED
  BY <1>1, <1>2 DEF PeersStep

\* A step that changes nothing keeps track.
LEMMA StutterTracked ==
    ASSUME HandlesTracked, UNCHANGED vars
    PROVE  HandlesTracked'
<1>1. UNCHANGED <<popped, alerts, handlesByTaskId, torrents, requests, phase>>
  BY DEF vars, workerVars, mapVars, sessionVars
<1> QED
  BY <1>1 DEF HandlesTracked, HandleToBe, Alive

\* Every step keeps track of the handles.
LEMMA NextTracked ==
    ASSUME Typed, HandlesTracked, Next
    PROVE  HandlesTracked'
<1>1. CASE Throw
  BY <1>1 DEF Throw, HandlesTracked, Alive
<1>2. CASE Ended
  BY <1>2, StutterTracked DEF Ended
<1>3. CASE ~Throw /\ ~Ended
  <2>1. Alive' => Alive
    <3>1. ~Alive => ~(WorkerStep \/ SessionStep \/ PeersStep)
      BY DEF Alive, SessionRuns, SessionStep, PeersStep, WorkerStep, Swap, PopAlerts, Poll,
             HandleCmd, HandleAddMagnet, HandleAddTorrentFile, HandleAddFromResumeData,
             HandlePrepare, HandleCancel, HandleFinalize, HandlePause, HandleResume, HandleRemove,
             HandleShutdown, Handling, HandleAlert, HandleAdded, HandleAddFailed, HandleRemoved,
             HandleMetadata, HandleMetadataFailed, HandlingAlert
    <3>2. ClientStep => phase' = phase
      BY DEF ClientStep, Issue, CallStep, CallPrepare, CallReturns, CallExpires, CallCancels,
             UserGivesUp, UserCancels, UserConfirms, Shutdown, Goto, workerVars
    <3> QED
      BY <1>3, <3>1, <3>2 DEF Next, Alive
  <2>2. ASSUME NEW k \in Keys, Tracked(k)
        PROVE  Tracked(k)'
    BY <1>3, <2>2, CmdTracked, AlertTracked, LoopTracked, SessionTracked, OthersTracked
       DEF Next, WorkerStep, SessionStep
  <2>3. Alive' => \A k \in Keys : Tracked(k)'
    BY <2>1, <2>2, TrackedIs
  <2>4. HandlesTracked' <=> (Alive' => \A k \in Keys : Tracked(k)')
    BY DEF HandlesTracked, HandleToBe, Tracked, Going, ToBe, Mine, Outcome
  <2> QED
    BY <2>3, <2>4
<1> QED
  BY <1>1, <1>2, <1>3

-----------------------------------------------------------------------------
(* Theorems.                                                                *)

\* The worker's maps, queues and promises keep their types whatever the clients
\* ask and whatever the session answers.
THEOREM WorkerTypes == Spec => []TypeOK
<1>1. Init => Typed
  BY InitTyped
<1>2. Typed /\ [Next]_vars => Typed'
  BY NextTyped DEF vars, workerVars, mapVars, clientVars, sessionVars, Typed, TypeOK,
                   QueueTyped, Phases
<1>3. Typed => TypeOK
  BY DEF Typed
<1> QED
  BY <1>1, <1>2, <1>3, PTL DEF Spec

\* Nothing is known of a handle in the initial state, and no torrent is there.
LEMMA InitTracked == Init => HandlesTracked
<1> SUFFICES ASSUME Init, NEW k \in Keys PROVE Tracked(k)
  BY TrackedIs
<1>1. /\ popped \o alerts = <<>> /\ handlesByTaskId[k] = 0
      /\ torrents[k].gen = 0
  BY DEF Init, NoTorrent
<1>2. Mine(<<>>, k) = {}
  BY DEF Mine
<1> QED
  BY <1>1, <1>2 DEF Tracked, ToBe

\* handlesByTaskId never loses track of the session, whatever clients, peers and
\* the session's own thread do between a request and its alert: a torrent whose
\* handle the worker will not hold is one it has asked to remove.
THEOREM WorkerTracksHandles == Spec => []HandlesTracked
<1>1. Init => Typed /\ HandlesTracked
  BY InitTyped, InitTracked
<1>2. Typed /\ HandlesTracked /\ [Next]_vars => Typed' /\ HandlesTracked'
  <2>1. CASE UNCHANGED vars
    BY <2>1, StutterTracked DEF vars, workerVars, mapVars, clientVars, sessionVars, Typed, TypeOK,
                                QueueTyped, Phases
  <2> QED
    BY <2>1, NextTyped, NextTracked
<1> QED
  BY <1>1, <1>2, PTL DEF Spec

-----------------------------------------------------------------------------
(***************************************************************************)
(* The calls that wait for the metadata of a magnet: no promise is set     *)
(* twice, no entry of pendingMagnetMeta outlives its call, and a call that *)
(* is cancelled leaves no temporary torrent behind, for any magnets, any   *)
(* number of calls, even for the same magnet, and any commands of the      *)
(* other clients in between.                                               *)
(***************************************************************************)

\* The commands that are still to be handled, in their order.
Queue == local \o cmds

\* An entry of the map is filed under its own key, by a call that has begun and
\* is not answered.
Filed ==
    \A k \in Keys : pendingMagnetMeta[k] # None =>
        /\ KeyOf[pendingMagnetMeta[k]] = k
        /\ promise[pendingMagnetMeta[k]] = "unset"
        /\ call[pendingMagnetMeta[k]] # "idle"

\* A call has one Prepare, and while that is queued it is neither answered nor
\* filed.
Fresh(c) ==
    /\ promise[c] = "unset" /\ call[c] # "idle"
    /\ \A k \in Keys : pendingMagnetMeta[k] # c

PrepareQueued ==
    \A i \in DOMAIN Queue : Queue[i].call # None =>
        /\ Fresh(Queue[i].call)
        /\ \A j \in DOMAIN Queue : Queue[j].call = Queue[i].call => j = i

\* Somebody waits for the answer, or a Cancel behind position i of the queue
\* will forget the call.
Waits == {"waiting", "closed", "expired"}
CancelBehind(k, i) == \E j \in DOMAIN Queue : j > i /\ Queue[j].op = "Cancel" /\ Queue[j].key = k
Awaits(c, i) == call[c] \in Waits \/ CancelBehind(KeyOf[c], i)

Working == running /\ phase # "aborted"

NoneForgotten ==
    Working =>
      /\ \A k \in Keys : pendingMagnetMeta[k] # None => Awaits(pendingMagnetMeta[k], 0)
      /\ \A i \in DOMAIN Queue : Queue[i].call # None => Awaits(Queue[i].call, i)

\* Nobody is answered before he asks.
NoneEarly == \A c \in Callers : call[c] = "idle" => promise[c] = "unset"

CallsOK == Filed /\ PrepareQueued /\ NoneForgotten /\ NoneEarly

-----------------------------------------------------------------------------
(* The queue.                                                               *)

\* Its commands are well formed.
LEMMA QueueGood ==
    ASSUME Typed
    PROVE  /\ Queue \in Seq(GoodCommands) /\ Len(Queue) \in Nat
           /\ DOMAIN Queue = 1 .. Len(Queue)
           /\ \A i \in DOMAIN Queue : Queue[i] \in Command /\ WellFormed(Queue[i])
<1>1. Queue \in Seq(GoodCommands)
  BY ConcatProperties DEF Queue, Typed, QueueTyped
<1>2. Len(Queue) \in Nat /\ DOMAIN Queue = 1 .. Len(Queue)
  BY <1>1, LenProperties
<1>3. \A i \in 1 .. Len(Queue) : Queue[i] \in GoodCommands
  BY <1>1, ElementOfSeq
<1> QED
  BY <1>1, <1>2, <1>3 DEF GoodCommands

\* A client's command is put behind it.
LEMMA QueueEnqueued ==
    ASSUME Typed, NEW cmd, WellFormed(cmd), Enqueue(cmd), UNCHANGED local
    PROVE  /\ DOMAIN Queue' = 1 .. (Len(Queue) + 1)
           /\ \A i \in DOMAIN Queue : Queue'[i] = Queue[i]
           /\ Queue'[Len(Queue) + 1] = cmd
<1>1. cmd \in GoodCommands /\ cmds \in Seq(GoodCommands) /\ local \in Seq(GoodCommands)
  BY DEF GoodCommands, WellFormed, Typed, QueueTyped
<1>2. Queue' = Append(Queue, cmd)
  BY <1>1, ConcatAppend DEF Queue, Enqueue
<1> QED
  BY <1>1, <1>2, QueueGood, AppendProperties, LenProperties

\* A handled command is its first one, and the next is the first then.
LEMMA QueueHandled ==
    ASSUME Typed, local # <<>>, UNCHANGED cmds, local' = Tail(local)
    PROVE  /\ DOMAIN Queue' = 1 .. (Len(Queue) - 1) /\ Len(Queue) > 0
           /\ \A i \in DOMAIN Queue' : i + 1 \in DOMAIN Queue /\ Queue'[i] = Queue[i + 1]
           /\ 1 \in DOMAIN Queue /\ Queue[1] = Head(local)
<1>1. cmds \in Seq(GoodCommands) /\ local \in Seq(GoodCommands)
  BY DEF Typed, QueueTyped
<1>2. /\ Queue \in Seq(GoodCommands) /\ Queue # <<>> /\ Head(Queue) = Head(local)
      /\ Queue' = Tail(Queue)
  BY <1>1, ConcatTail DEF Queue
<1>3. /\ Len(Queue) \in Nat \ {0} /\ DOMAIN Queue = 1 .. Len(Queue)
      /\ Tail(Queue) \in Seq(GoodCommands) /\ Len(Tail(Queue)) = Len(Queue) - 1
      /\ \A i \in 1 .. Len(Tail(Queue)) : Tail(Queue)[i] = Queue[i + 1]
  BY <1>2, EmptySeq, LenProperties, HeadTailProperties
<1>4. DOMAIN Tail(Queue) = 1 .. (Len(Queue) - 1)
  BY <1>3, LenProperties
<1>5. Queue[1] = Head(local)
  BY <1>2, <1>3
<1> QED
  BY <1>2, <1>3, <1>4, <1>5

\* A shutdown drops the rest of the batch, the first part of it.
LEMMA QueueDropped ==
    ASSUME Typed, local' = <<>>, UNCHANGED cmds
    PROVE  \A i \in DOMAIN Queue' : i + Len(local) \in DOMAIN Queue
                                    /\ Queue'[i] = Queue[i + Len(local)]
<1>1. cmds \in Seq(GoodCommands) /\ local \in Seq(GoodCommands)
  BY DEF Typed, QueueTyped
<1>2. Queue' = cmds
  BY <1>1, ConcatEmptySeq DEF Queue
<1>3. Len(local) \in Nat /\ Len(cmds) \in Nat /\ DOMAIN cmds = 1 .. Len(cmds)
  BY <1>1, LenProperties
<1>4. /\ Len(Queue) = Len(local) + Len(cmds) /\ DOMAIN Queue = 1 .. Len(Queue)
      /\ \A i \in 1 .. Len(Queue) : Queue[i] = IF i <= Len(local) THEN local[i]
                                               ELSE cmds[i - Len(local)]
  BY <1>1, QueueGood, ConcatProperties DEF Queue
<1> QED
  BY <1>2, <1>3, <1>4
-----------------------------------------------------------------------------
(* The steps.                                                               *)

\* A step that leaves queue, entries, promises and calls alone.
LEMMA CallsUntouched ==
    ASSUME CallsOK, UNCHANGED <<Queue, pendingMagnetMeta, promise, call>>, Working' => Working
    PROVE  CallsOK'
<1>1. Filed' /\ PrepareQueued' /\ NoneEarly'
  BY DEF CallsOK, Filed, PrepareQueued, Fresh, NoneEarly
<1>2. NoneForgotten'
  BY DEF CallsOK, NoneForgotten, Awaits, CancelBehind
<1> QED
  BY <1>1, <1>2 DEF CallsOK

\* A command of another client is no Prepare.
LEMMA CallsOtherCommand ==
    ASSUME Typed, CallsOK, NEW cmd, WellFormed(cmd), Enqueue(cmd), cmd.call = None,
           UNCHANGED <<local, pendingMagnetMeta, promise, phase, running>>,
           \A c \in Callers :
             /\ call[c] # "idle" => call'[c] # "idle"
             /\ call[c] \in Waits => \/ call'[c] \in Waits
                                     \/ cmd.op = "Cancel" /\ cmd.key = KeyOf[c]
    PROVE  CallsOK'
<1>1. /\ DOMAIN Queue' = 1 .. (Len(Queue) + 1)
      /\ \A i \in DOMAIN Queue : Queue'[i] = Queue[i]
      /\ Queue'[Len(Queue) + 1] = cmd
      /\ DOMAIN Queue = 1 .. Len(Queue) /\ Len(Queue) \in Nat
  BY QueueEnqueued, QueueGood
<1>2. \A i \in DOMAIN Queue' : Queue'[i].call # None => i \in DOMAIN Queue
  BY <1>1
<1>3. /\ \A k \in Keys : pendingMagnetMeta[k] # None => pendingMagnetMeta[k] \in Callers
      /\ \A i \in DOMAIN Queue : Queue[i].call # None => Queue[i].call \in Callers
  BY QueueGood DEF Typed, TypeOK, Command
<1>4. Filed'
  BY <1>3 DEF CallsOK, Filed
<1>5. PrepareQueued'
  BY <1>1, <1>2, <1>3 DEF CallsOK, PrepareQueued, Fresh
<1>6. ASSUME NEW c \in Callers, NEW i \in 0 .. Len(Queue), Awaits(c, i)
      PROVE  Awaits(c, i)'
  <2>1. CASE CancelBehind(KeyOf[c], i)
    BY <1>1, <2>1 DEF Awaits, CancelBehind
  <2>2. CASE call[c] \in Waits
    BY <1>1, <2>2 DEF Awaits, CancelBehind
  <2> QED
    BY <1>6, <2>1, <2>2 DEF Awaits
<1>7. NoneForgotten'
  <2>1. Working' <=> Working
    BY DEF Working
  <2> QED
    BY <1>1, <1>2, <1>3, <1>6, <2>1 DEF CallsOK, NoneForgotten
<1>8. NoneEarly'
  BY DEF CallsOK, NoneEarly
<1> QED
  BY <1>4, <1>5, <1>7, <1>8 DEF CallsOK

\* The clients' steps.
LEMMA ClientCalls ==
    ASSUME Typed, CallsOK, ClientStep
    PROVE  CallsOK'
<1> USE ConstantsAssumption
<1>1. UNCHANGED <<local, pendingMagnetMeta, promise, phase, running>>
  BY DEF ClientStep, Issue, CallStep, CallPrepare, CallReturns, CallExpires, CallCancels,
         UserGivesUp, UserCancels, UserConfirms, Shutdown, Goto, workerVars, mapVars
<1>2. ASSUME NEW op \in ClientOps, NEW k \in Keys, NEW opt \in Opts, opt \in OptsOf(op),
             Issue(op, k, opt)
      PROVE  CallsOK'
  <2>1. op \in AddOps \cup {"Pause", "Resume", "Remove"}
    BY <1>2, ClientOpsAssumption
  <2>2. WellFormed(Cmd(op, k, None, opt)) /\ Cmd(op, k, None, opt).call = None
    BY <1>2, <2>1 DEF WellFormed, Cmd, Command, AllOps, AddOps, OptsOf
  <2> QED
    BY <1>1, <1>2, <2>2, CallsOtherCommand DEF Issue
<1>3. CASE Shutdown
  <2>1. /\ WellFormed(Cmd("Shutdown", None, None, "none"))
        /\ Cmd("Shutdown", None, None, "none").call = None
    BY DEF WellFormed, Cmd, Command, AllOps, AddOps, Opts
  <2> QED
    BY <1>1, <1>3, <2>1, CallsOtherCommand DEF Shutdown
<1>4. ASSUME NEW c \in Callers, CallStep(c)
      PROVE  CallsOK'
  <2>1. \A d \in Callers : d # c => call'[d] = call[d]
    BY <1>4 DEF CallStep, CallPrepare, CallReturns, CallExpires, CallCancels, UserGivesUp,
                UserCancels, UserConfirms, Goto, Typed, TypeOK
  <2>2. ASSUME NEW op \in {"Cancel", "Finalize"}, NEW o \in Opts, NEW at \in CallStates,
               op = "Finalize" => o \in {"plain", "top"},
               Enqueue(Cmd(op, KeyOf[c], None, o)), Goto(c, at), at # "idle",
               call[c] \in Waits => op = "Cancel"
        PROVE  CallsOK'
    <3> DEFINE cmd == Cmd(op, KeyOf[c], None, o)
    <3>1. WellFormed(cmd) /\ cmd.call = None /\ cmd.op = op /\ cmd.key = KeyOf[c]
      BY <2>2 DEF WellFormed, Cmd, Command, AllOps, AddOps
    <3>2. call'[c] = at
      BY <2>2 DEF Goto, Typed, TypeOK
    <3> HIDE DEF cmd
    <3>3. Enqueue(cmd)
      BY <2>2 DEF cmd
    <3> QED
      BY <1>1, <2>1, <2>2, <3>1, <3>2, <3>3, CallsOtherCommand
  <2>3. CASE CallCancels(c) \/ UserGivesUp(c) \/ UserCancels(c)
             \/ \E opt \in {"plain", "top"} : UserConfirms(c, opt)
    BY <2>2, <2>3 DEF CallCancels, UserGivesUp, UserCancels, UserConfirms, Opts, CallStates, Waits
  <2>4. CASE CallReturns(c) \/ CallExpires(c)
    <3>1. UNCHANGED <<Queue, running, phase>>
      BY <1>1, <2>4 DEF CallReturns, CallExpires, Queue
    <3>2. call[c] # "idle" /\ call'[c] # "idle" /\ (call'[c] \in Waits \/ promise[c] # "unset")
      BY <2>4 DEF CallReturns, CallExpires, Goto, Waits, Typed, TypeOK
    <3>3. /\ \A k \in Keys : pendingMagnetMeta[k] # None => pendingMagnetMeta[k] \in Callers
          /\ \A i \in DOMAIN Queue : Queue[i].call # None => Queue[i].call \in Callers
      BY QueueGood DEF Typed, TypeOK, Command
    <3>4. Filed' /\ PrepareQueued'
      BY <1>1, <2>1, <3>1, <3>2, <3>3 DEF CallsOK, Filed, PrepareQueued, Fresh
    <3>5. ASSUME NEW d \in Callers, NEW i, Awaits(d, i), promise[d] = "unset"
          PROVE  Awaits(d, i)'
      BY <2>1, <3>1, <3>2, <3>5 DEF Awaits, CancelBehind
    <3>6. NoneForgotten'
      <4>1. Working' <=> Working
        BY <3>1 DEF Working
      <4>2. ASSUME Working, NEW k \in Keys, pendingMagnetMeta[k] # None
            PROVE  Awaits(pendingMagnetMeta[k], 0)'
        BY <1>1, <3>3, <3>5, <4>2 DEF CallsOK, NoneForgotten, Filed, Awaits, CancelBehind
      <4>3. ASSUME Working, NEW i \in DOMAIN Queue, Queue[i].call # None
            PROVE  Awaits(Queue[i].call, i)'
        <5>1. promise[Queue[i].call] = "unset" /\ Awaits(Queue[i].call, i)
          BY <4>3 DEF CallsOK, NoneForgotten, PrepareQueued, Fresh
        <5> QED
          BY <3>1, <3>3, <3>5, <4>3, <5>1 DEF Awaits, CancelBehind
      <4> QED
        BY <1>1, <3>1, <4>1, <4>2, <4>3 DEF NoneForgotten, Awaits, CancelBehind
    <3>7. NoneEarly'
      BY <1>1, <2>1, <3>2 DEF CallsOK, NoneEarly
    <3> QED
      BY <3>4, <3>6, <3>7 DEF CallsOK
  <2>5. CASE CallPrepare(c)
    <3> DEFINE cmd == Cmd("Prepare", KeyOf[c], c, "none")
    <3>1. WellFormed(cmd) /\ cmd.call = c /\ cmd.op = "Prepare" /\ c # None
      BY DEF WellFormed, Cmd, Command, AllOps, AddOps, Opts
    <3>2. Enqueue(cmd) /\ call[c] = "idle" /\ call'[c] = "waiting"
      BY <2>5 DEF CallPrepare, Goto, Typed, TypeOK
    <3> HIDE DEF cmd
    <3>3. /\ DOMAIN Queue' = 1 .. (Len(Queue) + 1)
          /\ \A i \in DOMAIN Queue : Queue'[i] = Queue[i]
          /\ Queue'[Len(Queue) + 1] = cmd
          /\ DOMAIN Queue = 1 .. Len(Queue) /\ Len(Queue) \in Nat
      BY <1>1, <3>1, <3>2, QueueEnqueued, QueueGood
    <3>4. /\ \A k \in Keys : pendingMagnetMeta[k] # None => pendingMagnetMeta[k] \in Callers
          /\ \A i \in DOMAIN Queue : Queue[i].call # None => Queue[i].call \in Callers
      BY QueueGood DEF Typed, TypeOK, Command
    <3>5. /\ \A k \in Keys : pendingMagnetMeta[k] # c
          /\ \A i \in DOMAIN Queue : Queue[i].call # c
      BY <3>1, <3>2 DEF CallsOK, Filed, PrepareQueued, Fresh
    <3>6. Filed' /\ NoneEarly'
      BY <1>1, <2>1, <3>2, <3>4, <3>5 DEF CallsOK, Filed, NoneEarly
    <3>7. Fresh(c)'
      BY <1>1, <3>2, <3>5 DEF CallsOK, NoneEarly, Fresh
    <3>8. \A d \in Callers : d # c /\ Fresh(d) => Fresh(d)'
      BY <1>1, <2>1 DEF Fresh
    <3>9. PrepareQueued'
      BY <3>1, <3>3, <3>4, <3>5, <3>7, <3>8 DEF CallsOK, PrepareQueued
    <3>10. ASSUME NEW d \in Callers, NEW i \in 0 .. Len(Queue), Awaits(d, i)
           PROVE  Awaits(d, i)'
      BY <2>1, <3>2, <3>3, <3>10 DEF Awaits, CancelBehind, Waits
    <3>11. Working' <=> Working
      BY <1>1 DEF Working
    <3>12. NoneForgotten'
      <4>1. ASSUME Working, NEW k \in Keys, pendingMagnetMeta[k] # None
            PROVE  Awaits(pendingMagnetMeta[k], 0)'
        <5>1. Awaits(pendingMagnetMeta[k], 0) /\ pendingMagnetMeta[k] \in Callers
          BY <3>4, <4>1 DEF CallsOK, NoneForgotten
        <5>2. \A d \in Callers : Awaits(d, 0) => Awaits(d, 0)'
          BY <3>3, <3>10
        <5> QED
          BY <1>1, <5>1, <5>2 DEF Awaits, CancelBehind
      <4>2. ASSUME Working, NEW i \in DOMAIN Queue', Queue'[i].call # None
            PROVE  Awaits(Queue[i].call, i)'
        <5>1. CASE i \in DOMAIN Queue
          <6>1. Awaits(Queue[i].call, i) /\ Queue[i].call \in Callers /\ Queue'[i] = Queue[i]
            BY <3>3, <3>4, <4>2, <5>1 DEF CallsOK, NoneForgotten
          <6>2. \A d \in Callers : Awaits(d, i) => Awaits(d, i)'
            BY <3>3, <3>10, <5>1
          <6> QED
            BY <6>1, <6>2 DEF Awaits, CancelBehind
        <5>2. CASE i = Len(Queue) + 1
          BY <3>1, <3>2, <3>3, <5>2 DEF Awaits, Waits
        <5> QED
          BY <3>3, <5>1, <5>2
      <4> QED
        BY <1>1, <3>11, <4>1, <4>2 DEF NoneForgotten, Awaits, CancelBehind
    <3> QED
      BY <3>6, <3>9, <3>12 DEF CallsOK
  <2> QED
    BY <1>4, <2>3, <2>4, <2>5 DEF CallStep
<1> QED
  BY <1>2, <1>3, <1>4 DEF ClientStep

\* A command other than Prepare is handled: a Cancel forgets what is filed under
\* its key, nothing is filed and nobody is answered.
LEMMA CallsHandled ==
    ASSUME Typed, CallsOK, local # <<>>, NextCmd, UNCHANGED promise,
           Head(local).op # "Prepare",
           \A k \in Keys :
             /\ pendingMagnetMeta'[k] \in {pendingMagnetMeta[k], None}
             /\ Head(local).op = "Cancel" /\ Head(local).key = k => pendingMagnetMeta'[k] = None
    PROVE  CallsOK'
<1>1. /\ DOMAIN Queue' = 1 .. (Len(Queue) - 1) /\ Len(Queue) > 0
      /\ \A i \in DOMAIN Queue' : i + 1 \in DOMAIN Queue /\ Queue'[i] = Queue[i + 1]
      /\ 1 \in DOMAIN Queue /\ Queue[1] = Head(local)
      /\ DOMAIN Queue = 1 .. Len(Queue) /\ Len(Queue) \in Nat
  BY QueueHandled, QueueGood DEF NextCmd
<1>2. /\ \A k \in Keys : pendingMagnetMeta[k] # None => pendingMagnetMeta[k] \in Callers
      /\ \A i \in DOMAIN Queue : Queue[i].call # None => Queue[i].call \in Callers
  BY QueueGood DEF Typed, TypeOK, Command
<1>3. UNCHANGED <<promise, call, phase, running>>
  BY DEF NextCmd, clientVars
<1>4. Filed' /\ NoneEarly'
  BY <1>3 DEF CallsOK, Filed, NoneEarly
<1>5. \A c \in Callers : Fresh(c) => Fresh(c)'
  BY <1>3, ConstantsAssumption DEF Fresh
<1>6. PrepareQueued'
  BY <1>1, <1>2, <1>5 DEF CallsOK, PrepareQueued
<1>7. ASSUME NEW c \in Callers, NEW i \in 0 .. Len(Queue), Awaits(c, i), NEW m \in 0 .. Len(Queue),
             \/ i = m + 1
             \/ i = 0 /\ m = 0 /\ ~(Head(local).op = "Cancel" /\ Head(local).key = KeyOf[c])
      PROVE  Awaits(c, m)'
  <2>1. CASE call[c] \in Waits
    BY <1>3, <2>1 DEF Awaits
  <2>2. CASE CancelBehind(KeyOf[c], i)
    <3>1. PICK j \in DOMAIN Queue : j > i /\ Queue[j].op = "Cancel" /\ Queue[j].key = KeyOf[c]
      BY <2>2 DEF CancelBehind
    <3>2. j # 1
      BY <1>1, <1>7, <3>1
    <3>3. j - 1 \in DOMAIN Queue' /\ Queue'[j - 1] = Queue[j] /\ j - 1 > m
      BY <1>1, <1>7, <3>1, <3>2
    <3> QED
      BY <3>1, <3>3 DEF Awaits, CancelBehind
  <2> QED
    BY <1>7, <2>1, <2>2 DEF Awaits
<1>8. NoneForgotten'
  <2>1. Working' <=> Working
    BY <1>3 DEF Working
  <2>2. ASSUME Working, NEW k \in Keys, pendingMagnetMeta'[k] # None
        PROVE  Awaits(pendingMagnetMeta[k], 0)'
    <3>1. PICK c \in Callers : pendingMagnetMeta[k] = c /\ pendingMagnetMeta'[k] = c /\ Awaits(c, 0)
      BY <1>2, <2>2 DEF CallsOK, NoneForgotten
    <3>2. KeyOf[c] = k /\ ~(Head(local).op = "Cancel" /\ Head(local).key = KeyOf[c])
      BY <2>2, <3>1 DEF CallsOK, Filed
    <3>3. Awaits(c, 0)'
      BY <1>1, <1>7, <3>1, <3>2
    <3> QED
      BY <3>1, <3>3 DEF Awaits, CancelBehind
  <2>3. ASSUME Working, NEW i \in DOMAIN Queue', Queue'[i].call # None
        PROVE  Awaits(Queue[i].call, i)'
    <3>1. i + 1 \in DOMAIN Queue /\ Queue'[i] = Queue[i + 1] /\ Queue[i + 1].call # None
      BY <1>1, <2>3
    <3>2. PICK c \in Callers : Queue[i + 1].call = c /\ Awaits(c, i + 1)
      BY <1>2, <2>3, <3>1 DEF CallsOK, NoneForgotten
    <3>3. Awaits(c, i)'
      BY <1>1, <1>7, <3>1, <3>2, <2>3
    <3> QED
      BY <3>1, <3>2, <3>3 DEF Awaits, CancelBehind
  <2> QED
    BY <2>1, <2>2, <2>3 DEF NoneForgotten
<1> QED
  BY <1>4, <1>6, <1>8 DEF CallsOK

\* A Prepare is answered at once or filed, over an earlier one.
LEMMA CallsPrepared ==
    ASSUME Typed, CallsOK, HandlePrepare
    PROVE  CallsOK'
<1>1. local # <<>> /\ NextCmd
  BY DEF HandlePrepare, Handling
<1>2. /\ DOMAIN Queue' = 1 .. (Len(Queue) - 1) /\ Len(Queue) > 0
      /\ \A i \in DOMAIN Queue' : i + 1 \in DOMAIN Queue /\ Queue'[i] = Queue[i + 1]
      /\ 1 \in DOMAIN Queue /\ Queue[1] = Head(local)
      /\ DOMAIN Queue = 1 .. Len(Queue) /\ Len(Queue) \in Nat
  BY <1>1, QueueHandled, QueueGood DEF NextCmd
<1>3. PICK c \in Callers : /\ Head(local).call = c /\ c # None /\ KeyOf[c] \in Keys
                             /\ Head(local).op = "Prepare" /\ Head(local).key = KeyOf[c]
  BY <1>1, HeadGood, ConstantsAssumption DEF HandlePrepare, Handling, WellFormed
<1>4. /\ \A k \in Keys : pendingMagnetMeta[k] # None => pendingMagnetMeta[k] \in Callers
      /\ \A i \in DOMAIN Queue : Queue[i].call # None => Queue[i].call \in Callers
  BY QueueGood DEF Typed, TypeOK, Command
<1>5. UNCHANGED <<call, phase, running>>
  BY <1>1 DEF NextCmd, clientVars
<1>6. Fresh(c) /\ \A i \in DOMAIN Queue' : Queue'[i].call # c
  <2>1. Queue[1].call = c /\ 1 \in DOMAIN Queue /\ Queue[1].call # None
    BY <1>2, <1>3
  <2>2. Fresh(c) /\ \A j \in DOMAIN Queue : Queue[j].call = c => j = 1
    BY <2>1 DEF CallsOK, PrepareQueued
  <2> QED
    BY <1>2, <2>2
<1>7. \/ /\ promise' = [promise EXCEPT ![c] = "nullopt"]
         /\ UNCHANGED pendingMagnetMeta
      \/ /\ pendingMagnetMeta' = [pendingMagnetMeta EXCEPT ![KeyOf[c]] = c]
         /\ UNCHANGED promise
  BY <1>3 DEF HandlePrepare
<1>8. Awaits(c, 1) \/ ~Working
  BY <1>2, <1>3 DEF CallsOK, NoneForgotten
<1>9. /\ \A d \in Callers \ {c} : promise'[d] = promise[d]
      /\ \A k \in Keys : pendingMagnetMeta'[k] = pendingMagnetMeta[k]
                         \/ (k = KeyOf[c] /\ pendingMagnetMeta'[k] = c /\ promise' = promise)
  BY <1>3, <1>7 DEF Typed, TypeOK
<1>10. Filed'
  BY <1>3, <1>4, <1>5, <1>6, <1>9 DEF CallsOK, Filed, Fresh
<1>11. NoneEarly'
  BY <1>5, <1>6, <1>9 DEF CallsOK, NoneEarly, Fresh
<1>12. \A d \in Callers \ {c} : Fresh(d) => Fresh(d)'
  BY <1>5, <1>9 DEF Fresh
<1>13. PrepareQueued'
  BY <1>2, <1>4, <1>6, <1>12 DEF CallsOK, PrepareQueued
<1>14. ASSUME NEW d \in Callers, NEW i \in 0 .. Len(Queue), Awaits(d, i), NEW m \in 0 .. Len(Queue),
              i = m + 1 \/ (i = 0 /\ m = 0)
       PROVE  Awaits(d, m)'
  <2>1. CASE call[d] \in Waits
    BY <1>5, <2>1 DEF Awaits
  <2>2. CASE CancelBehind(KeyOf[d], i)
    <3>1. PICK j \in DOMAIN Queue : j > i /\ Queue[j].op = "Cancel" /\ Queue[j].key = KeyOf[d]
      BY <2>2 DEF CancelBehind
    <3>2. j # 1
      BY <1>2, <1>3, <3>1
    <3>3. j - 1 \in DOMAIN Queue' /\ Queue'[j - 1] = Queue[j] /\ j - 1 > m
      BY <1>2, <1>14, <3>1, <3>2
    <3> QED
      BY <3>1, <3>3 DEF Awaits, CancelBehind
  <2> QED
    BY <1>14, <2>1, <2>2 DEF Awaits
<1>15. NoneForgotten'
  <2>1. Working' <=> Working
    BY <1>5 DEF Working
  <2>2. ASSUME Working, NEW k \in Keys, pendingMagnetMeta'[k] # None
        PROVE  Awaits(pendingMagnetMeta[k], 0)'
    <3>1. CASE pendingMagnetMeta'[k] = pendingMagnetMeta[k]
      <4>1. PICK d \in Callers : pendingMagnetMeta[k] = d /\ Awaits(d, 0)
        BY <1>4, <2>2, <3>1 DEF CallsOK, NoneForgotten
      <4>2. Awaits(d, 0)'
        BY <1>2, <1>14, <4>1
      <4> QED
        BY <3>1, <4>1, <4>2 DEF Awaits, CancelBehind
    <3>2. CASE pendingMagnetMeta'[k] = c
      <4>1. Awaits(c, 0)'
        BY <1>2, <1>3, <1>8, <1>14, <2>2
      <4> QED
        BY <3>2, <4>1 DEF Awaits, CancelBehind
    <3> QED
      BY <1>9, <3>1, <3>2
  <2>3. ASSUME Working, NEW i \in DOMAIN Queue', Queue'[i].call # None
        PROVE  Awaits(Queue[i].call, i)'
    <3>1. i + 1 \in DOMAIN Queue /\ Queue'[i] = Queue[i + 1] /\ Queue[i + 1].call # None
      BY <1>2, <2>3
    <3>2. PICK d \in Callers : Queue[i + 1].call = d /\ Awaits(d, i + 1)
      BY <1>4, <2>3, <3>1 DEF CallsOK, NoneForgotten
    <3>3. Awaits(d, i)'
      BY <1>2, <1>14, <3>1, <3>2, <2>3
    <3> QED
      BY <3>1, <3>2, <3>3 DEF Awaits, CancelBehind
  <2> QED
    BY <2>1, <2>2, <2>3 DEF NoneForgotten
<1> QED
  BY <1>10, <1>11, <1>13, <1>15 DEF CallsOK

\* The calls filed under the keys S may be answered, and are filed no more.
LEMMA CallsAnswered ==
    ASSUME Typed, CallsOK, NEW S \in SUBSET Keys, UNCHANGED <<Queue, call>>, Working' => Working,
           \A k \in Keys : pendingMagnetMeta'[k] = IF k \in S THEN None ELSE pendingMagnetMeta[k],
           \A c \in Callers : promise'[c] = promise[c] \/ \E k \in S : pendingMagnetMeta[k] = c
    PROVE  CallsOK'
<1>1. /\ \A k \in Keys : pendingMagnetMeta[k] # None => pendingMagnetMeta[k] \in Callers
      /\ \A i \in DOMAIN Queue : Queue[i].call # None => Queue[i].call \in Callers
  BY QueueGood DEF Typed, TypeOK, Command
<1>2. ASSUME NEW k \in Keys, k \notin S, pendingMagnetMeta[k] # None
      PROVE  promise'[pendingMagnetMeta[k]] = promise[pendingMagnetMeta[k]]
  <2>1. \A j \in S : pendingMagnetMeta[j] # None => KeyOf[pendingMagnetMeta[j]] = j
    BY DEF CallsOK, Filed
  <2>2. KeyOf[pendingMagnetMeta[k]] = k
    BY <1>2 DEF CallsOK, Filed
  <2> QED
    BY <1>1, <1>2, <2>1, <2>2
<1>3. Filed'
  BY <1>1, <1>2 DEF CallsOK, Filed
<1>4. \A c \in Callers : Fresh(c) => Fresh(c)'
  BY ConstantsAssumption DEF Fresh
<1>5. PrepareQueued'
  BY <1>1, <1>4 DEF CallsOK, PrepareQueued
<1>6. NoneEarly'
  BY ConstantsAssumption DEF CallsOK, Filed, NoneEarly
<1>7. NoneForgotten'
  <2>1. \A c \in Callers : \A i : Awaits(c, i) => Awaits(c, i)'
    BY DEF Awaits, CancelBehind
  <2>2. ASSUME Working, NEW k \in Keys, pendingMagnetMeta'[k] # None
        PROVE  Awaits(pendingMagnetMeta[k], 0)'
    <3>1. PICK c \in Callers : pendingMagnetMeta[k] = c /\ pendingMagnetMeta'[k] = c /\ Awaits(c, 0)
      BY <1>1, <2>2 DEF CallsOK, NoneForgotten
    <3> QED
      BY <2>1, <3>1 DEF Awaits, CancelBehind
  <2>3. ASSUME Working, NEW i \in DOMAIN Queue, Queue[i].call # None
        PROVE  Awaits(Queue[i].call, i)'
    BY <2>3 DEF CallsOK, NoneForgotten, Awaits, CancelBehind
  <2> QED
    BY <2>2, <2>3 DEF NoneForgotten
<1> QED
  BY <1>3, <1>5, <1>6, <1>7 DEF CallsOK

\* Fulfil answers whom it forgets.
LEMMA CallsFulfilled ==
    ASSUME Typed, CallsOK, NEW S \in SUBSET Keys, Fulfil(S), UNCHANGED <<Queue, call>>,
           Working' => Working
    PROVE  CallsOK'
<1>1. \A k \in Keys : pendingMagnetMeta'[k] = IF k \in S THEN None ELSE pendingMagnetMeta[k]
  BY DEF Fulfil
<1>2. \A c \in Callers : promise'[c] = promise[c] \/ \E k \in S : pendingMagnetMeta[k] = c
  <2>1. PICK bad \in Refusals(S) :
             promise' = [c \in Callers |->
               IF \E k \in S : pendingMagnetMeta[k] = c
               THEN IF KeyOf[c] \in bad THEN "nullopt" ELSE "value"
               ELSE promise[c]]
    BY DEF Fulfil
  <2> QED
    BY <2>1
<1> QED
  BY <1>1, <1>2, CallsAnswered

\* The handlers of commands.
LEMMA CmdCalls ==
    ASSUME Typed, CallsOK, HandleCmd
    PROVE  CallsOK'
<1>1. CASE Throw
  BY <1>1, CallsUntouched DEF Throw, Queue, mapVars, clientVars, Working
<1>2. CASE HandleShutdown
  <2>1. /\ UNCHANGED <<cmds, pendingMagnetMeta, promise, call>> /\ local' = <<>> /\ ~running'
    BY <1>2 DEF HandleShutdown, mapVars, clientVars
  <2>2. /\ \A i \in DOMAIN Queue' : i + Len(local) \in DOMAIN Queue
                                    /\ Queue'[i] = Queue[i + Len(local)]
        /\ Len(local) \in Nat /\ DOMAIN Queue' \subseteq Nat
    <3>1. Queue' = cmds /\ cmds \in Seq(GoodCommands) /\ local \in Seq(GoodCommands)
      BY <2>1, ConcatEmptySeq DEF Queue, Typed, QueueTyped
    <3> QED
      BY <2>1, <3>1, QueueDropped, LenProperties
  <2>3. Filed' /\ NoneEarly'
    BY <2>1 DEF CallsOK, Filed, NoneEarly
  <2>4. PrepareQueued'
    BY <2>1, <2>2 DEF CallsOK, PrepareQueued, Fresh
  <2>5. NoneForgotten'
    BY <2>1 DEF NoneForgotten, Working
  <2> QED
    BY <2>3, <2>4, <2>5 DEF CallsOK
<1>3. CASE ~Throw /\ ~HandleShutdown /\ ~HandlePrepare
  <2>1. local # <<>> /\ NextCmd /\ UNCHANGED promise /\ Head(local).op # "Prepare"
    BY <1>3 DEF HandleCmd, HandleAddMagnet, HandleAddTorrentFile, HandleAddFromResumeData,
           HandleCancel, HandleFinalize, HandlePause, HandleResume, HandleRemove, Handling
  <2>2. CASE HandleCancel
    <3>1. pendingMagnetMeta' = [pendingMagnetMeta EXCEPT ![Head(local).key] = None]
      BY <1>3, <2>2 DEF HandleCancel
    <3>2. \A k \in Keys : /\ pendingMagnetMeta'[k] \in {pendingMagnetMeta[k], None}
                          /\ Head(local).key = k => pendingMagnetMeta'[k] = None
      BY <3>1 DEF Typed, TypeOK
    <3> QED
      BY <2>1, <3>2, CallsHandled
  <2>3. CASE ~HandleCancel
    <3>1. UNCHANGED pendingMagnetMeta /\ Head(local).op # "Cancel"
      BY <1>3, <2>3 DEF HandleCmd, HandleAddMagnet, HandleAddTorrentFile,
           HandleAddFromResumeData, HandleFinalize, HandlePause, HandleResume, HandleRemove,
           Handling, mapVars
    <3> QED
      BY <2>1, <3>1, CallsHandled
  <2> QED
    BY <2>2, <2>3
<1> QED
  BY <1>1, <1>2, <1>3, CallsPrepared

\* The handlers of alerts, and the rest of the worker's loop.
LEMMA LoopCalls ==
    ASSUME Typed, CallsOK, HandleAlert \/ Swap \/ PopAlerts \/ Poll
    PROVE  CallsOK'
<1>1. CASE Throw
  BY <1>1, CallsUntouched DEF Throw, Queue, mapVars, clientVars, Working
<1>2. CASE HandleAlert /\ ~Throw
  <2>1. UNCHANGED <<Queue, call, running, phase>> /\ popped # <<>>
    BY <1>2 DEF HandleAlert, HandleAdded, HandleAddFailed, HandleRemoved, HandleMetadata,
           HandleMetadataFailed, HandlingAlert, NextAlert, clientVars, Queue
  <2>2. Working' <=> Working
    BY <2>1 DEF Working
  <2>3. Head(popped).key \in Keys
    BY <2>1, HeadAlert DEF Typed, Alerts
  <2>4. CASE UNCHANGED <<pendingMagnetMeta, promise>>
    BY <2>1, <2>2, <2>4, CallsUntouched
  <2>5. CASE HandleMetadata
    BY <1>2, <2>1, <2>2, <2>3, <2>4, <2>5, CallsFulfilled DEF HandleMetadata, mapVars
  <2>6. CASE HandleMetadataFailed /\ ~UNCHANGED <<pendingMagnetMeta, promise>>
    <3> DEFINE k == Head(popped).key
    <3>1. /\ promise' = [c \in Callers |->
                 IF pendingMagnetMeta[k] = c THEN "nullopt" ELSE promise[c]]
          /\ pendingMagnetMeta' = [pendingMagnetMeta EXCEPT ![k] = None]
      BY <1>2, <2>6 DEF HandleMetadataFailed, mapVars
    <3>2. /\ \A j \in Keys : pendingMagnetMeta'[j] = IF j \in {k} THEN None ELSE pendingMagnetMeta[j]
          /\ \A c \in Callers : promise'[c] = promise[c] \/ \E j \in {k} : pendingMagnetMeta[j] = c
      BY <2>3, <3>1 DEF Typed, TypeOK
    <3>3. {k} \in SUBSET Keys
      BY <2>3
    <3> HIDE DEF k
    <3> QED
      BY <2>1, <2>2, <3>2, <3>3, CallsAnswered
  <2> QED
    BY <1>2, <2>4, <2>5, <2>6 DEF HandleAlert, HandleAdded, HandleAddFailed, HandleRemoved, mapVars
<1>3. CASE Swap
  <2>1. local' = cmds /\ cmds' = <<>> /\ local = <<>> /\ cmds \in Seq(GoodCommands)
    BY <1>3 DEF Swap, Typed, QueueTyped, Phases
  <2>2. Queue' = Queue
    BY <2>1, ConcatEmptySeq DEF Queue
  <2>3. Working' => Working
    BY <1>3 DEF Swap, Working
  <2> QED
    BY <1>3, <2>2, <2>3, CallsUntouched DEF Swap, mapVars, clientVars
<1>4. CASE PopAlerts
  BY <1>4, CallsUntouched DEF PopAlerts, Queue, mapVars, clientVars, Working
<1>5. CASE Poll
  <2>1. {k \in {j \in Awaited : Valid(j)} : torrents[k].meta} \in SUBSET Keys
    BY DEF Awaited
  <2>2. UNCHANGED <<Queue, call>> /\ (Working' => Working)
    BY <1>5 DEF Poll, Queue, clientVars, Working
  <2> QED
    BY <1>5, <2>1, <2>2, CallsFulfilled DEF Poll
<1> QED
  BY <1>1, <1>2, <1>3, <1>4, <1>5

\* Every step.
LEMMA NextCalls ==
    ASSUME Typed, CallsOK, [Next]_vars
    PROVE  CallsOK'
<1>1. CASE SessionStep \/ PeersStep \/ Ended \/ UNCHANGED vars
  <2>1. UNCHANGED <<Queue, pendingMagnetMeta, promise, call, running, phase>>
    BY <1>1 DEF SessionStep, SessionAdds, SessionRemoves, PeersStep, MetadataArrives,
           MetadataFails, Ended, vars, workerVars, mapVars, clientVars, Queue
  <2>2. Working' <=> Working
    BY <2>1 DEF Working
  <2> QED
    BY <2>1, <2>2, CallsUntouched
<1> QED
  BY <1>1, CmdCalls, LoopCalls, ClientCalls DEF Next, WorkerStep

\* Nobody has asked in the initial state.
LEMMA InitCalls == Init => CallsOK
<1> SUFFICES ASSUME Init PROVE CallsOK
  OBVIOUS
<1>1. Queue = <<>> /\ DOMAIN Queue = {}
  BY DEF Init, Queue
<1> QED
  BY <1>1 DEF Init, CallsOK, Filed, PrepareQueued, NoneForgotten, NoneEarly

-----------------------------------------------------------------------------
(* No call is answered twice, and none is forgotten.                        *)

\* No promise of prepareMagnetMetadata is set twice, which would throw: not by a
\* rejection, the metadata alert, its failure or the poll, in whatever order they
\* come and however many calls ask for the same magnet.
THEOREM CallsAnsweredOnce == Spec => []AnsweredOnce
<1>1. Init => Typed /\ CallsOK
  BY InitTyped, InitCalls
<1>2. Typed /\ CallsOK /\ [Next]_vars => Typed' /\ CallsOK'
  <2>1. CASE UNCHANGED vars
    BY <2>1, NextCalls DEF vars, workerVars, mapVars, clientVars, sessionVars, Typed, TypeOK,
                           QueueTyped, Phases
  <2> QED
    BY <2>1, NextTyped, NextCalls
<1>3. Typed /\ CallsOK => AnsweredOnce
  <2> SUFFICES ASSUME Typed, CallsOK PROVE AnsweredOnce
    OBVIOUS
  <2>1. \A k \in Keys : pendingMagnetMeta[k] # None => promise[pendingMagnetMeta[k]] = "unset"
    BY DEF CallsOK, Filed
  <2>2. ASSUME NEW c \in Callers, promise[c] # "unset", NEW i \in DOMAIN Queue
        PROVE  Queue[i].call # c
    BY <2>2, ConstantsAssumption DEF CallsOK, PrepareQueued, Fresh
  <2> QED
    BY <2>1, <2>2 DEF AnsweredOnce, Queue
<1> QED
  BY <1>1, <1>2, <1>3, PTL DEF Spec

\* pendingMagnetMeta is bounded by the calls in progress: when the worker has
\* caught up, an entry belongs to a call that still waits, or has run out of time
\* and is about to queue its Cancel.
THEOREM NoCallForgotten == Spec => []NoPendingLeak
<1>1. Init => Typed /\ CallsOK
  BY InitTyped, InitCalls
<1>2. Typed /\ CallsOK /\ [Next]_vars => Typed' /\ CallsOK'
  <2>1. CASE UNCHANGED vars
    BY <2>1, NextCalls DEF vars, workerVars, mapVars, clientVars, sessionVars, Typed, TypeOK,
                           QueueTyped, Phases
  <2> QED
    BY <2>1, NextTyped, NextCalls
<1>3. Typed /\ CallsOK => NoPendingLeak
  <2> SUFFICES ASSUME Typed, CallsOK, Quiet, NEW k \in Keys, pendingMagnetMeta[k] # None
               PROVE  \E c \in Callers : KeyOf[c] = k /\ call[c] \in Waits
    BY DEF NoPendingLeak, Waits
  <2>1. Queue = <<>> /\ DOMAIN Queue = {}
    BY DEF Typed, Phases, Quiet, Queue
  <2>2. Working
    BY DEF Typed, Phases, Quiet, Working
  <2>3. pendingMagnetMeta[k] \in Callers /\ KeyOf[pendingMagnetMeta[k]] = k
    BY DEF Typed, TypeOK, CallsOK, Filed
  <2>4. Awaits(pendingMagnetMeta[k], 0) /\ ~CancelBehind(k, 0)
    BY <2>1, <2>2 DEF CallsOK, NoneForgotten, CancelBehind
  <2> QED
    BY <2>3, <2>4 DEF Awaits
<1> QED
  BY <1>1, <1>2, <1>3, PTL DEF Spec

-----------------------------------------------------------------------------
(* What is on its way about the torrents of a key.                          *)

\* The alerts that are still to be handled, in their order.
News == popped \o alerts

\* Alert a says that a torrent of k came or went, or something of its metadata.
About(a, k) == a.key = k /\ a.type \in {"added", "removed"}
OfMetadata(a, k) == a.key = k /\ a.type \in {"metadata", "metadataFailed"}

\* The torrents of a key come one after the other: the news n of them are in the
\* order of their generations, nothing comes after a removal of the same
\* generation, and the present one, g, is the last.
Later(a, g) == a.gen <= g /\ (a.type = "removed" => a.gen # g)

Ordered(n, k, g) ==
    /\ \A i, j \in DOMAIN n : i < j /\ About(n[i], k) /\ About(n[j], k) => Later(n[i], n[j].gen)
    /\ \A i \in DOMAIN n : About(n[i], k) /\ g # 0 => Later(n[i], g)

\* They are of generations that there have been.
Known(n, k, last) ==
    \A i \in DOMAIN n : About(n[i], k) \/ OfMetadata(n[i], k) => n[i].gen \in 1 .. last

\* While the handle h of k is the one of its torrent, g, no news take it away.
IsHandle(h, g) == h # 0 /\ g = h
Firm(n, k, h, g) ==
    IsHandle(h, g) => \A i \in DOMAIN n : About(n[i], k) => n[i].type = "added" /\ n[i].gen = g

\* News of the metadata of k's torrent come after its add alert.
Introduced(n, k, h, g) ==
    \A j \in DOMAIN n : OfMetadata(n[j], k) /\ n[j].gen = g /\ ~IsHandle(h, g) =>
        \E i \in DOMAIN n : i < j /\ About(n[i], k) /\ n[i].type = "added" /\ n[i].gen = g

\* The removals that are asked for are of generations that there have been.
RemovalsKnown(k) ==
    \A i \in DOMAIN requests : requests[i].do = "remove" /\ requests[i].key = k =>
        \E g \in 1 .. lastGen : requests[i] = RemoveRequest(g, k)

NewsOK(k) ==
    /\ Ordered(News, k, torrents[k].gen)
    /\ Known(News, k, lastGen)
    /\ Firm(News, k, handlesByTaskId[k], torrents[k].gen)
    /\ RemovalsKnown(k)
    /\ handlesByTaskId[k] <= lastGen /\ torrents[k].gen <= lastGen

\* Sequences with an element more behind, or one less in front.
LEMMA AppendIs ==
    ASSUME NEW S, NEW n \in Seq(S), NEW a \in S
    PROVE  /\ Len(n) \in Nat /\ DOMAIN n = 1 .. Len(n)
           /\ DOMAIN Append(n, a) = 1 .. (Len(n) + 1)
           /\ \A i \in DOMAIN n : Append(n, a)[i] = n[i]
           /\ Append(n, a)[Len(n) + 1] = a
           /\ \A i \in DOMAIN n : n[i] \in S
  BY AppendProperties, LenProperties, ElementOfSeq

\* The positions of a sequence without its first element.
LEMMA TailIs ==
    ASSUME NEW S, NEW n \in Seq(S), n # <<>>
    PROVE  /\ Len(n) \in Nat /\ DOMAIN n = 1 .. Len(n) /\ 1 \in DOMAIN n /\ n[1] = Head(n)
           /\ DOMAIN Tail(n) = 1 .. (Len(n) - 1)
           /\ \A i \in DOMAIN Tail(n) : i + 1 \in DOMAIN n /\ Tail(n)[i] = n[i + 1]
           /\ \A i \in DOMAIN n : i # 1 => i - 1 \in DOMAIN Tail(n) /\ Tail(n)[i - 1] = n[i]
           /\ \A i \in DOMAIN n : n[i] \in S
<1>1. /\ Len(n) \in Nat /\ DOMAIN n = 1 .. Len(n) /\ n[1] = Head(n)
      /\ DOMAIN Tail(n) = 1 .. (Len(n) - 1)
      /\ \A i \in 1 .. (Len(n) - 1) : Tail(n)[i] = n[i + 1]
      /\ \A i \in DOMAIN n : n[i] \in S
  BY HeadTailProperties, LenProperties, ElementOfSeq
<1>2. Len(n) # 0
  BY <1>1, EmptySeq
<1> QED
  BY <1>1, <1>2

\* An alert that is not about k's coming and going.
LEMMA OtherNews ==
    ASSUME NEW n \in Seq(Alerts), NEW a \in Alerts, NEW k, NEW g \in Nat, NEW h \in Nat,
           NEW last \in Nat, ~About(a, k), OfMetadata(a, k) => a.gen \in 1 .. last,
           Ordered(n, k, g), Known(n, k, last), Firm(n, k, h, g)
    PROVE  /\ Ordered(Append(n, a), k, g) /\ Known(Append(n, a), k, last)
           /\ Firm(Append(n, a), k, h, g)
<1> DEFINE m == Append(n, a)
<1>1. /\ Len(n) \in Nat /\ DOMAIN n = 1 .. Len(n) /\ DOMAIN m = 1 .. (Len(n) + 1)
      /\ \A i \in DOMAIN n : m[i] = n[i]
      /\ m[Len(n) + 1] = a
  BY AppendIs
<1> HIDE DEF m
<1>2. \A i \in DOMAIN m : About(m[i], k) => i \in DOMAIN n /\ m[i] = n[i]
  BY <1>1
<1>3. Ordered(m, k, g)
  BY <1>2 DEF Ordered
<1>4. Known(m, k, last)
  BY <1>1, <1>2 DEF Known
<1>5. Firm(m, k, h, g)
  BY <1>2 DEF Firm
<1> QED
  BY <1>3, <1>4, <1>5 DEF m

\* An alert that says that torrent a.gen of k came or went: g is k's torrent
\* before, and it is 0 or a.gen after.
LEMMA LatestNews ==
    ASSUME NEW n \in Seq(Alerts), NEW a \in Alerts, About(a, a.key),
           NEW g \in Nat, NEW g2 \in Nat, NEW h \in Nat, NEW last \in Nat, NEW last2 \in Nat,
           a.gen \in 1 .. last2, last <= last2,
           a.gen = g \/ (g = 0 /\ a.gen = last + 1 /\ h <= last),
           (a.type = "added" /\ g2 = a.gen) \/ (a.type = "removed" /\ g2 = 0),
           Ordered(n, a.key, g), Known(n, a.key, last), Firm(n, a.key, h, g)
    PROVE  /\ Ordered(Append(n, a), a.key, g2) /\ Known(Append(n, a), a.key, last2)
           /\ Firm(Append(n, a), a.key, h, g2)
<1> DEFINE m == Append(n, a)
           k == a.key
<1>1. /\ Len(n) \in Nat /\ DOMAIN n = 1 .. Len(n) /\ DOMAIN m = 1 .. (Len(n) + 1)
      /\ \A i \in DOMAIN n : m[i] = n[i] /\ n[i] \in Alerts
      /\ m[Len(n) + 1] = a
  BY AppendIs
<1>a. a.gen \in Nat /\ \A i \in DOMAIN n : n[i].gen \in Nat
  BY <1>1 DEF Alerts
<1> HIDE DEF m, k
<1>2. \A i \in DOMAIN n : About(n[i], k) => Later(n[i], a.gen)
  <2> SUFFICES ASSUME NEW i \in DOMAIN n, About(n[i], k) PROVE Later(n[i], a.gen)
    OBVIOUS
  <2>1. CASE a.gen = g
    BY <2>1 DEF Ordered, k
  <2>2. CASE a.gen = last + 1
    <3>1. n[i].gen \in 1 .. last
      BY DEF Known, k
    <3> QED
      BY <1>a, <2>2, <3>1 DEF Later
  <2> QED
    BY <2>1, <2>2
<1>3. Ordered(m, k, g2)
  <2>1. ASSUME NEW i \in DOMAIN m, NEW j \in DOMAIN m, i < j, About(m[i], k), About(m[j], k)
        PROVE  Later(m[i], m[j].gen)
    <3>1. i \in DOMAIN n /\ m[i] = n[i]
      BY <1>1, <2>1
    <3>2. CASE j \in DOMAIN n
      BY <1>1, <2>1, <3>1, <3>2 DEF Ordered, k
    <3>3. CASE j = Len(n) + 1
      BY <1>1, <1>2, <2>1, <3>1, <3>3
    <3> QED
      BY <1>1, <3>2, <3>3
  <2>2. ASSUME NEW i \in DOMAIN m, About(m[i], k), g2 # 0
        PROVE  Later(m[i], g2)
    <3>1. g2 = a.gen /\ a.type = "added"
      BY <2>2
    <3>2. CASE i \in DOMAIN n
      BY <1>1, <1>2, <2>2, <3>1, <3>2
    <3>3. CASE i = Len(n) + 1
      BY <1>1, <1>a, <3>1, <3>3 DEF Later
    <3> QED
      BY <1>1, <3>2, <3>3
  <2> QED
    BY <2>1, <2>2 DEF Ordered
<1>4. Known(m, k, last2)
  <2> SUFFICES ASSUME NEW i \in DOMAIN m, About(m[i], k) \/ OfMetadata(m[i], k)
               PROVE  m[i].gen \in 1 .. last2
    BY DEF Known
  <2>1. CASE i \in DOMAIN n
    <3>1. n[i].gen \in 1 .. last
      BY <1>1, <2>1 DEF Known, k
    <3> QED
      BY <1>1, <2>1, <3>1
  <2>2. CASE i = Len(n) + 1
    BY <1>1, <2>2
  <2> QED
    BY <1>1, <2>1, <2>2
<1>5. Firm(m, k, h, g2)
  <2> SUFFICES ASSUME IsHandle(h, g2), NEW i \in DOMAIN m, About(m[i], k)
               PROVE  m[i].type = "added" /\ m[i].gen = g2
    BY DEF Firm
  <2>1. a.type = "added" /\ g2 = a.gen /\ g = g2
    BY DEF IsHandle
  <2>2. CASE i \in DOMAIN n
    BY <1>1, <2>1, <2>2 DEF Firm, k
  <2>3. CASE i = Len(n) + 1
    BY <1>1, <2>1, <2>3
  <2> QED
    BY <1>1, <2>2, <2>3
<1> QED
  BY <1>3, <1>4, <1>5 DEF m, k

\* The first news is handled: the handle of k is what it says.
LEMMA FirstNews ==
    ASSUME NEW n \in Seq(Alerts), n # <<>>, NEW k, NEW g \in Nat, NEW h \in Nat, NEW h2 \in Nat,
           NEW last \in Nat, h <= last,
           h2 = IF About(Head(n), k) THEN Outcome(Head(n)) ELSE h,
           Ordered(n, k, g), Known(n, k, last), Firm(n, k, h, g)
    PROVE  /\ Ordered(Tail(n), k, g) /\ Known(Tail(n), k, last) /\ Firm(Tail(n), k, h2, g)
           /\ h2 <= last
           /\ IsHandle(h, g) => IsHandle(h2, g)
           /\ Introduced(n, k, h, g) => Introduced(Tail(n), k, h2, g)
<1> DEFINE m == Tail(n)
           a == Head(n)
<1>1. /\ 1 \in DOMAIN n /\ n[1] = a /\ DOMAIN n \subseteq Nat \ {0} /\ DOMAIN m \subseteq Nat \ {0}
      /\ \A i \in DOMAIN m : i + 1 \in DOMAIN n /\ m[i] = n[i + 1]
      /\ \A i \in DOMAIN n : i # 1 => i - 1 \in DOMAIN m /\ m[i - 1] = n[i]
      /\ \A i \in DOMAIN n : n[i] \in Alerts
  BY TailIs
<1>a. a.gen \in Nat /\ \A i \in DOMAIN n : n[i].gen \in Nat
  BY <1>1 DEF Alerts
<1> HIDE DEF m, a
<1>2. Ordered(m, k, g)
  <2>1. ASSUME NEW i \in DOMAIN m, NEW j \in DOMAIN m, i < j, About(m[i], k), About(m[j], k)
        PROVE  Later(m[i], m[j].gen)
    <3>1. /\ i + 1 \in DOMAIN n /\ j + 1 \in DOMAIN n /\ i + 1 < j + 1
          /\ m[i] = n[i + 1] /\ m[j] = n[j + 1]
      BY <1>1, <2>1
    <3> QED
      BY <2>1, <3>1 DEF Ordered
  <2>2. ASSUME NEW i \in DOMAIN m, About(m[i], k), g # 0
        PROVE  Later(m[i], g)
    BY <1>1, <2>2 DEF Ordered
  <2> QED
    BY <2>1, <2>2 DEF Ordered
<1>3. Known(m, k, last)
  BY <1>1 DEF Known
<1>4. h2 <= last
  BY <1>1, <1>a DEF Known, Outcome, a
<1>5. IsHandle(h, g) => IsHandle(h2, g)
  BY <1>1 DEF Firm, IsHandle, Outcome, a
<1>6. Firm(m, k, h2, g)
  <2> SUFFICES ASSUME IsHandle(h2, g), NEW i \in DOMAIN m, About(m[i], k)
               PROVE  m[i].type = "added" /\ m[i].gen = g
    BY DEF Firm
  <2>1. CASE IsHandle(h, g)
    BY <1>1, <2>1 DEF Firm
  <2>2. CASE ~IsHandle(h, g)
    <3>1. About(a, k) /\ a.type = "added" /\ a.gen = g /\ g # 0
      BY <2>2 DEF IsHandle, Outcome, a
    <3>2. i + 1 \in DOMAIN n /\ 1 < i + 1 /\ About(n[i + 1], k) /\ n[i + 1] = m[i]
      BY <1>1
    <3>3. Later(n[1], n[i + 1].gen) /\ Later(n[i + 1], g)
      BY <1>1, <3>1, <3>2 DEF Ordered
    <3>4. m[i].gen = g
      BY <1>1, <1>a, <3>1, <3>2, <3>3 DEF Later
    <3>5. m[i].type # "removed"
      BY <3>2, <3>3, <3>4 DEF Later
    <3> QED
      BY <3>2, <3>4, <3>5 DEF About
  <2> QED
    BY <2>1, <2>2
<1>7. ASSUME Introduced(n, k, h, g) PROVE Introduced(m, k, h2, g)
  <2> SUFFICES ASSUME NEW j \in DOMAIN m, OfMetadata(m[j], k), m[j].gen = g, ~IsHandle(h2, g)
               PROVE  \E i \in DOMAIN m : /\ i < j /\ About(m[i], k)
                                          /\ m[i].type = "added" /\ m[i].gen = g
    BY DEF Introduced
  <2>1. ~IsHandle(h, g)
    BY <1>5
  <2>2. j + 1 \in DOMAIN n /\ m[j] = n[j + 1]
    BY <1>1
  <2>3. PICK i \in DOMAIN n : i < j + 1 /\ About(n[i], k) /\ n[i].type = "added" /\ n[i].gen = g
    BY <1>7, <2>1, <2>2 DEF Introduced
  <2>4. g # 0
    BY <2>3 DEF Known
  <2>5. i # 1
    BY <1>1, <2>3, <2>4 DEF IsHandle, Outcome, a
  <2>6. i - 1 \in DOMAIN m /\ m[i - 1] = n[i] /\ i - 1 < j
    <3>1. i \in Nat /\ j \in Nat
      BY <1>1
    <3> QED
      BY <1>1, <2>3, <2>5, <3>1
  <2> QED
    BY <2>3, <2>6
<1> QED
  BY <1>2, <1>3, <1>4, <1>5, <1>6, <1>7 DEF m

\* What is not news of k leaves what is known of k's news as it is, also when
\* its handle is forgotten.
LEMMA NewsStays ==
    ASSUME NEW k \in Keys, NewsOK(k), UNCHANGED <<News, lastGen>>, lastGen \in Nat,
           torrents'[k].gen = torrents[k].gen,
           handlesByTaskId'[k] = handlesByTaskId[k] \/ handlesByTaskId'[k] = 0,
           \A i \in DOMAIN requests' : requests'[i].do = "remove" /\ requests'[i].key = k =>
               \E g \in 1 .. lastGen : requests'[i] = RemoveRequest(g, k)
    PROVE  NewsOK(k)'
<1>1. Ordered(News, k, torrents[k].gen)' /\ Known(News, k, lastGen)' /\ RemovalsKnown(k)'
  BY DEF NewsOK, RemovalsKnown, Ordered, Known
<1>2. handlesByTaskId'[k] <= lastGen' /\ torrents'[k].gen <= lastGen'
  BY DEF NewsOK
<1>3. Firm(News, k, handlesByTaskId[k], torrents[k].gen)'
  BY DEF NewsOK, Firm, IsHandle
<1> QED
  BY <1>1, <1>2, <1>3 DEF NewsOK

\* The news in two parts: alerts are posted behind and handled in front.
LEMMA NewsPosted ==
    ASSUME Typed, NEW a \in Alerts, Post(a), UNCHANGED popped
    PROVE  News \in Seq(Alerts) /\ News' = Append(News, a)
<1>1. popped \in Seq(Alerts) /\ alerts \in Seq(Alerts)
  BY DEF Typed, TypeOK, Alerts
<1> QED
  BY <1>1, ConcatAppend, ConcatProperties DEF Post, News

\* An alert that is handled is the first of the news.
LEMMA NewsHandled ==
    ASSUME Typed, popped # <<>>, NextAlert
    PROVE  /\ News \in Seq(Alerts) /\ News # <<>> /\ Head(News) = Head(popped)
           /\ News' = Tail(News)
<1>1. popped \in Seq(Alerts) /\ alerts \in Seq(Alerts)
  BY DEF Typed, TypeOK, Alerts
<1> QED
  BY <1>1, ConcatTail DEF NextAlert, News

\* The first request is executed: the others are as before.
LEMMA RequestsShift ==
    ASSUME Typed, requests # <<>>, requests' = Tail(requests)
    PROVE  /\ 1 \in DOMAIN requests /\ requests[1] = Head(requests) /\ Head(requests) \in Requests
           /\ \A i \in DOMAIN requests' : /\ i \in Nat \ {0} /\ i + 1 \in DOMAIN requests
                                          /\ requests'[i] = requests[i + 1]
           /\ \A i \in DOMAIN requests : i # 1 => i - 1 \in DOMAIN requests'
                                                  /\ requests'[i - 1] = requests[i]
<1>1. requests \in Seq(Requests)
  BY DEF Typed, TypeOK, Requests
<1> QED
  BY <1>1, TailIs

\* What the session's execution of a request does to key k.
ExecutedFor(k) ==
    LET g  == torrents[k].gen
        g2 == torrents'[k].gen
        r  == Head(requests)
        Posts(type, x) == \E a \in Alerts : a.type = type /\ a.key = k /\ a.gen = x /\ Post(a)
    IN  \/ /\ g2 = g /\ torrents'[k].temp = torrents[k].temp /\ lastGen' \in {lastGen, lastGen + 1}
           /\ r # RemoveRequest(g, k)
           /\ \/ alerts' = alerts
              \/ \E a \in Alerts : Post(a) /\ ~About(a, k) /\ ~OfMetadata(a, k)
              \/ g # 0 /\ Posts("added", g)
        \/ /\ r.do = "remove" /\ r = RemoveRequest(g, k) /\ lastGen' = lastGen
           /\ torrents'[k] = NoTorrent
           /\ Posts("removed", g)
        \/ /\ r.do = "add" /\ r.key = k /\ g = 0 /\ lastGen' = lastGen + 1
           /\ g2 = lastGen + 1 /\ torrents'[k].temp = r.torrent.temp
           /\ Posts("added", lastGen + 1)

\* It is one of the three: another key, or k's torrent is there already; the
\* removal of k's torrent; a new torrent of k.
LEMMA SessionExecutes ==
    ASSUME Typed, SessionAdds \/ SessionRemoves, NEW k \in Keys, RemovalsKnown(k)
    PROVE  ExecutedFor(k)
<1> DEFINE r == Head(requests)
<1>1. requests # <<>> /\ r \in Requests /\ requests' = Tail(requests)
  BY HeadTailProperties DEF SessionAdds, SessionRemoves, Typed, TypeOK, Requests
<1>2. r.key \in Keys /\ r.torrent \in Torrent /\ r.torrent.gen \in Nat
  BY <1>1 DEF Requests, Torrent
<1>3. torrents[r.key].gen \in Nat /\ lastGen + 1 \in Nat /\ lastGen \in Nat
  <2> HIDE DEF r
  <2> QED
    BY <1>2 DEF Typed, TypeOK, Torrent
<1>4. ASSUME NEW type \in AlertTypes, NEW x \in Nat
      PROVE  /\ Alert(type, r.key, x) \in Alerts
             /\ Alert(type, r.key, x).type = type /\ Alert(type, r.key, x).key = r.key
             /\ Alert(type, r.key, x).gen = x
  BY <1>2 DEF Alert, Alerts
<1>a. 1 \in DOMAIN requests /\ requests[1] = r
  BY <1>1, RequestsShift
<1>5. CASE SessionAdds
  <2>1. r.do = "add" /\ r # RemoveRequest(torrents[k].gen, k)
    BY <1>5 DEF SessionAdds, RemoveRequest
  <2>2. CASE torrents' = torrents /\ lastGen' = lastGen /\ Post(Alert("addFailed", r.key, 0))
    <3>1. Alert("addFailed", r.key, 0) \in Alerts
      BY <1>4 DEF AlertTypes
    <3>2. ~About(Alert("addFailed", r.key, 0), k) /\ ~OfMetadata(Alert("addFailed", r.key, 0), k)
      BY DEF About, OfMetadata, Alert
    <3> QED
      BY <2>1, <2>2, <3>1, <3>2 DEF ExecutedFor
  <2>3. CASE torrents' = torrents /\ lastGen' = lastGen /\ torrents[r.key].gen # 0
             /\ Post(Alert("added", r.key, torrents[r.key].gen))
    <3> DEFINE a == Alert("added", r.key, torrents[r.key].gen)
    <3>1. a \in Alerts /\ a.type = "added" /\ a.key = r.key /\ a.gen = torrents[r.key].gen
      BY <1>3, <1>4 DEF AlertTypes
    <3>2. Post(a)
      BY <2>3
    <3> HIDE DEF a
    <3>3. CASE r.key = k
      BY <2>1, <2>3, <3>1, <3>2, <3>3 DEF ExecutedFor
    <3>4. CASE r.key # k
      <4>1. ~About(a, k) /\ ~OfMetadata(a, k)
        BY <3>1, <3>4 DEF About, OfMetadata
      <4> QED
        BY <2>1, <2>3, <3>1, <3>2, <4>1 DEF ExecutedFor
    <3> QED
      BY <3>3, <3>4
  <2>4. CASE /\ torrents' = [torrents EXCEPT ![r.key] = [r.torrent EXCEPT !.gen = lastGen + 1]]
             /\ lastGen' = lastGen + 1 /\ torrents[r.key].gen = 0
             /\ Post(Alert("added", r.key, lastGen + 1))
    <3> DEFINE a == Alert("added", r.key, lastGen + 1)
    <3>1. a \in Alerts /\ a.type = "added" /\ a.key = r.key /\ a.gen = lastGen + 1
      BY <1>3, <1>4 DEF AlertTypes
    <3>2. Post(a)
      BY <2>4
    <3> HIDE DEF a
    <3>3. /\ [r.torrent EXCEPT !.gen = lastGen + 1].gen = lastGen + 1
          /\ [r.torrent EXCEPT !.gen = lastGen + 1].temp = r.torrent.temp
      BY <1>2 DEF Torrent
    <3>4. CASE r.key = k
      <4>1. torrents'[k].gen = lastGen + 1 /\ torrents'[k].temp = r.torrent.temp
        BY <2>4, <3>3, <3>4 DEF Typed, TypeOK
      <4> QED
        BY <2>1, <2>4, <3>1, <3>2, <3>4, <4>1 DEF ExecutedFor
    <3>5. CASE r.key # k
      <4>1. ~About(a, k) /\ ~OfMetadata(a, k)
        BY <3>1, <3>5 DEF About, OfMetadata
      <4>2. torrents'[k] = torrents[k]
        BY <2>4, <3>5 DEF Typed, TypeOK
      <4> QED
        BY <2>1, <2>4, <3>1, <3>2, <4>1, <4>2 DEF ExecutedFor
    <3> QED
      BY <3>4, <3>5
  <2> QED
    BY <1>5, <2>2, <2>3, <2>4 DEF SessionAdds
<1>6. CASE SessionRemoves
  <2>1. r.do = "remove" /\ lastGen' = lastGen
    BY <1>6 DEF SessionRemoves
  <2>2. CASE torrents[r.key].gen = r.torrent.gen
    <3>1. /\ torrents' = [torrents EXCEPT ![r.key] = NoTorrent]
          /\ Post(Alert("removed", r.key, r.torrent.gen))
      BY <1>6, <2>2 DEF SessionRemoves
    <3> DEFINE a == Alert("removed", r.key, r.torrent.gen)
    <3>2. a \in Alerts /\ a.type = "removed" /\ a.key = r.key /\ a.gen = r.torrent.gen
      BY <1>2, <1>4 DEF AlertTypes
    <3>3. Post(a)
      BY <3>1
    <3> HIDE DEF a
    <3>4. CASE r.key = k
      <4>1. torrents'[k] = NoTorrent
        BY <3>1, <3>4 DEF Typed, TypeOK
      <4>2. PICK g \in 1 .. lastGen : r = RemoveRequest(g, k)
        BY <1>a, <2>1, <3>4 DEF RemovalsKnown
      <4>3. r = RemoveRequest(torrents[k].gen, k)
        BY <2>2, <3>4, <4>2 DEF RemoveRequest, NoTorrent
      <4> QED
        BY <2>1, <2>2, <3>2, <3>3, <3>4, <4>1, <4>3 DEF ExecutedFor
    <3>5. CASE r.key # k
      <4>1. ~About(a, k) /\ ~OfMetadata(a, k)
        BY <3>2, <3>5 DEF About, OfMetadata
      <4>2. torrents'[k] = torrents[k]
        BY <3>1, <3>5 DEF Typed, TypeOK
      <4>3. r # RemoveRequest(torrents[k].gen, k)
        BY <3>5 DEF RemoveRequest
      <4> QED
        BY <2>1, <3>2, <3>3, <4>1, <4>2, <4>3 DEF ExecutedFor
    <3> QED
      BY <3>4, <3>5
  <2>3. CASE torrents[r.key].gen # r.torrent.gen
    <3>1. UNCHANGED <<torrents, alerts>>
      BY <1>6, <2>3 DEF SessionRemoves
    <3>2. r # RemoveRequest(torrents[k].gen, k)
      BY <2>3 DEF RemoveRequest, NoTorrent
    <3> QED
      BY <2>1, <3>1, <3>2 DEF ExecutedFor
  <2> QED
    BY <2>2, <2>3
<1> QED
  BY <1>5, <1>6

\* The session's steps.
LEMMA SessionNews ==
    ASSUME Typed, SessionAdds \/ SessionRemoves, NEW k \in Keys, NewsOK(k)
    PROVE  NewsOK(k)'
<1> DEFINE g == torrents[k].gen
           g2 == torrents'[k].gen
           h == handlesByTaskId[k]
<1>1. requests # <<>> /\ requests' = Tail(requests) /\ UNCHANGED <<popped, handlesByTaskId>>
  BY DEF SessionAdds, SessionRemoves, workerVars, mapVars
<1>2. ExecutedFor(k)
  BY SessionExecutes DEF NewsOK
<1>3. lastGen \in Nat /\ g \in Nat /\ h \in Nat /\ lastGen' \in Nat
  <2>1. torrents[k] \in Torrent
    BY DEF Typed, TypeOK
  <2> QED
    BY <1>2, <2>1 DEF Typed, TypeOK, Torrent, ExecutedFor
<1>4. lastGen <= lastGen'
  BY <1>2, <1>3 DEF ExecutedFor
<1>5. RemovalsKnown(k)'
  <2>1. ASSUME NEW i \in DOMAIN requests', requests'[i].do = "remove", requests'[i].key = k
        PROVE  \E x \in 1 .. lastGen' : requests'[i] = RemoveRequest(x, k)
    <3>1. i + 1 \in DOMAIN requests /\ requests'[i] = requests[i + 1]
      BY <1>1, RequestsShift
    <3>2. PICK x \in 1 .. lastGen : requests[i + 1] = RemoveRequest(x, k)
      BY <2>1, <3>1 DEF NewsOK, RemovalsKnown
    <3>3. x \in 1 .. lastGen'
      BY <1>3, <1>4
    <3> QED
      BY <3>1, <3>2, <3>3
  <2> QED
    BY <2>1 DEF RemovalsKnown
<1>6. ASSUME NEW x \in Nat, NEW y \in Nat, x <= y, Known(News, k, x)
      PROVE  Known(News, k, y)
  <2>1. ASSUME NEW i \in DOMAIN News, About(News[i], k) \/ OfMetadata(News[i], k)
        PROVE  News[i].gen \in 1 .. y
    <3>1. News[i].gen \in 1 .. x
      BY <1>6, <2>1 DEF Known
    <3> QED
      BY <1>6, <3>1
  <2> QED
    BY <2>1 DEF Known
<1>7. Ordered(News, k, g) /\ Known(News, k, lastGen) /\ Known(News, k, lastGen') /\ Firm(News, k, h, g)
      /\ h <= lastGen /\ g <= lastGen
  BY <1>3, <1>4, <1>6 DEF NewsOK
<1>8. CASE alerts' = alerts /\ g2 = g
  <2>1. News' = News
    BY <1>1, <1>8 DEF News
  <2>2. h <= lastGen' /\ g2 <= lastGen'
    BY <1>3, <1>4, <1>7, <1>8
  <2> QED
    BY <1>1, <1>5, <1>7, <1>8, <2>1, <2>2 DEF NewsOK
<1>9. ASSUME NEW a \in Alerts, Post(a), ~About(a, k), ~OfMetadata(a, k), g2 = g
      PROVE  NewsOK(k)'
  <2>1. News \in Seq(Alerts) /\ News' = Append(News, a)
    BY <1>1, <1>9, NewsPosted
  <2>2. /\ Ordered(Append(News, a), k, g) /\ Known(Append(News, a), k, lastGen')
        /\ Firm(Append(News, a), k, h, g)
    BY <1>3, <1>7, <1>9, <2>1, OtherNews
  <2> QED
    BY <1>1, <1>3, <1>4, <1>5, <1>7, <1>9, <2>1, <2>2 DEF NewsOK
<1>10. ASSUME NEW a \in Alerts, Post(a), a.key = k, a.gen \in 1 .. lastGen', g2 \in Nat,
              a.gen = g \/ (g = 0 /\ a.gen = lastGen + 1 /\ h <= lastGen),
              (a.type = "added" /\ g2 = a.gen) \/ (a.type = "removed" /\ g2 = 0)
       PROVE  NewsOK(k)'
  <2>1. News \in Seq(Alerts) /\ News' = Append(News, a)
    BY <1>1, <1>10, NewsPosted
  <2>2. About(a, a.key)
    BY <1>10 DEF About
  <2>3. /\ Ordered(Append(News, a), k, g2) /\ Known(Append(News, a), k, lastGen')
        /\ Firm(Append(News, a), k, h, g2)
    BY <1>3, <1>4, <1>7, <1>10, <2>1, <2>2, LatestNews
  <2>4. h <= lastGen' /\ g2 <= lastGen'
    BY <1>3, <1>4, <1>7, <1>10
  <2> QED
    BY <1>1, <1>5, <2>1, <2>3, <2>4 DEF NewsOK
<1>11. CASE g2 = g /\ \E a \in Alerts : a.type = "added" /\ a.key = k /\ a.gen = g /\ g # 0 /\ Post(a)
  <2>1. g \in 1 .. lastGen' \/ g = 0
    BY <1>3, <1>4, <1>7
  <2>2. PICK a \in Alerts : a.type = "added" /\ a.key = k /\ a.gen = g /\ g # 0 /\ Post(a)
    BY <1>11
  <2>3. a.gen \in 1 .. lastGen' /\ g2 \in Nat /\ a.gen = g /\ g2 = a.gen
    BY <1>3, <1>11, <2>1, <2>2
  <2> QED
    BY <1>10, <2>2, <2>3
<1>12. CASE torrents'[k] = NoTorrent /\ Head(requests) = RemoveRequest(g, k)
            /\ \E a \in Alerts : a.type = "removed" /\ a.key = k /\ a.gen = g /\ Post(a)
  <2>1. 1 \in DOMAIN requests /\ requests[1] = Head(requests)
    BY <1>1, RequestsShift
  <2>2. Head(requests).do = "remove" /\ Head(requests).key = k
    BY <1>12 DEF RemoveRequest
  <2>3. PICK x \in 1 .. lastGen : RemoveRequest(g, k) = RemoveRequest(x, k)
    BY <1>12, <2>1, <2>2 DEF NewsOK, RemovalsKnown
  <2>4. g = x
    BY <2>3 DEF RemoveRequest, NoTorrent
  <2>5. g \in 1 .. lastGen' /\ g2 = 0
    BY <1>3, <1>4, <1>12, <2>4 DEF NoTorrent
  <2> QED
    BY <1>3, <1>10, <1>12, <2>5
<1>13. CASE g = 0 /\ lastGen' = lastGen + 1 /\ g2 = lastGen + 1
            /\ \E a \in Alerts : a.type = "added" /\ a.key = k /\ a.gen = lastGen + 1 /\ Post(a)
  <2>1. lastGen + 1 \in 1 .. lastGen' /\ g2 \in Nat
    BY <1>3, <1>13
  <2>2. PICK a \in Alerts : a.type = "added" /\ a.key = k /\ a.gen = lastGen + 1 /\ Post(a)
    BY <1>13
  <2>3. a.gen \in 1 .. lastGen' /\ h <= lastGen /\ g2 = a.gen
    BY <1>7, <1>13, <2>1, <2>2
  <2> QED
    BY <1>10, <1>13, <2>1, <2>2, <2>3
<1> HIDE DEF g, g2, h
<1> QED
  BY <1>2, <1>8, <1>9, <1>11, <1>12, <1>13 DEF ExecutedFor, g, g2, h

\* What a peer's step posts, and what it leaves alone.
LEMMA PeersPost ==
    ASSUME Typed, NEW j \in Keys, MetadataArrives(j) \/ MetadataFails(j), NEW k \in Keys
    PROVE  /\ \E a \in Alerts : /\ Post(a) /\ a.key = j /\ a.gen = torrents[j].gen /\ a.gen # 0
                                /\ a.type \in {"metadata", "metadataFailed"}
           /\ UNCHANGED <<popped, handlesByTaskId, requests, lastGen>>
           /\ torrents'[k].gen = torrents[k].gen /\ torrents'[k].temp = torrents[k].temp
<1>1. \E a \in Alerts : /\ Post(a) /\ a.key = j /\ a.gen = torrents[j].gen /\ a.gen # 0
                        /\ a.type \in {"metadata", "metadataFailed"}
  <2>1. torrents[j].gen \in Nat /\ torrents[j].gen # 0
    <3>1. torrents[j] \in Torrent
      BY DEF Typed, TypeOK
    <3> QED
      BY <3>1 DEF Torrent, MetadataArrives, MetadataFails
  <2>2. ASSUME NEW type \in {"metadata", "metadataFailed"}
        PROVE  Alert(type, j, torrents[j].gen) \in Alerts
    BY <2>1 DEF Alert, Alerts, AlertTypes
  <2>3. ASSUME NEW type \in {"metadata", "metadataFailed"}, Post(Alert(type, j, torrents[j].gen))
        PROVE  \E a \in Alerts : /\ Post(a) /\ a.key = j /\ a.gen = torrents[j].gen /\ a.gen # 0
                                 /\ a.type \in {"metadata", "metadataFailed"}
    <3> DEFINE b == Alert(type, j, torrents[j].gen)
    <3>1. b \in Alerts /\ b.key = j /\ b.gen = torrents[j].gen /\ b.type = type
      BY <2>2 DEF Alert
    <3>2. Post(b)
      BY <2>3
    <3> HIDE DEF b
    <3> QED
      BY <2>1, <3>1, <3>2
  <2> QED
    BY <2>3 DEF MetadataArrives, MetadataFails
<1>2. UNCHANGED <<popped, handlesByTaskId, requests, lastGen>>
      /\ torrents'[k].gen = torrents[k].gen /\ torrents'[k].temp = torrents[k].temp
  <2>1. torrents[k] \in Torrent
    BY DEF Typed, TypeOK
  <2>2. /\ [torrents[k] EXCEPT !.meta = TRUE].gen = torrents[k].gen
        /\ [torrents[k] EXCEPT !.meta = TRUE].temp = torrents[k].temp
    BY <2>1 DEF Torrent
  <2> QED
    BY <2>2 DEF MetadataArrives, MetadataFails, workerVars, mapVars, Typed, TypeOK
<1> QED
  BY <1>1, <1>2

\* A peer's metadata are news of the torrent that is there.
LEMMA PeersNews ==
    ASSUME Typed, NEW j \in Keys, MetadataArrives(j) \/ MetadataFails(j), NEW k \in Keys, NewsOK(k)
    PROVE  NewsOK(k)'
<1>1. PICK a \in Alerts : /\ Post(a) /\ a.key = j /\ a.gen = torrents[j].gen /\ a.gen # 0
                          /\ a.type \in {"metadata", "metadataFailed"}
  BY PeersPost
<1>2. UNCHANGED <<popped, handlesByTaskId, requests, lastGen>> /\ torrents'[k].gen = torrents[k].gen
  BY PeersPost
<1>3. News \in Seq(Alerts) /\ News' = Append(News, a)
  BY <1>1, <1>2, NewsPosted
<1>4. torrents[k].gen \in Nat /\ handlesByTaskId[k] \in Nat /\ lastGen \in Nat
  <2>1. torrents[k] \in Torrent
    BY DEF Typed, TypeOK
  <2> QED
    BY <2>1 DEF Typed, TypeOK, Torrent
<1>5. ~About(a, k) /\ (OfMetadata(a, k) => a.gen \in 1 .. lastGen)
  BY <1>1, <1>4 DEF About, OfMetadata, NewsOK
<1>6. /\ Ordered(Append(News, a), k, torrents[k].gen) /\ Known(Append(News, a), k, lastGen)
      /\ Firm(Append(News, a), k, handlesByTaskId[k], torrents[k].gen)
  BY <1>3, <1>4, <1>5, OtherNews DEF NewsOK
<1> QED
  BY <1>2, <1>3, <1>6 DEF NewsOK, RemovalsKnown

\* What is put behind a sequence leaves it as it is, and comes later.
LEMMA Behind ==
    ASSUME NEW S, NEW q \in Seq(S), NEW s \in Seq(S)
    PROVE  /\ \A i \in DOMAIN q : i \in DOMAIN (q \o s) /\ (q \o s)[i] = q[i]
           /\ \A i \in DOMAIN (q \o s) \ DOMAIN q :
                /\ \E m \in DOMAIN s : (q \o s)[i] = s[m]
                /\ \A j \in DOMAIN q : j < i
           /\ DOMAIN q \subseteq Nat /\ DOMAIN (q \o s) \subseteq Nat
           /\ \A m \in DOMAIN s : \E i \in DOMAIN (q \o s) : (q \o s)[i] = s[m]
<1>1. /\ Len(q) \in Nat /\ DOMAIN q = 1 .. Len(q) /\ Len(s) \in Nat /\ DOMAIN s = 1 .. Len(s)
      /\ q \o s \in Seq(S) /\ Len(q \o s) = Len(q) + Len(s)
      /\ \A i \in 1 .. (Len(q) + Len(s)) :
           (q \o s)[i] = IF i <= Len(q) THEN q[i] ELSE s[i - Len(q)]
  BY ConcatProperties, LenProperties
<1>2. DOMAIN (q \o s) = 1 .. (Len(q) + Len(s))
  BY <1>1, LenProperties
<1>3. \A i \in DOMAIN q : i \in DOMAIN (q \o s) /\ (q \o s)[i] = q[i]
  BY <1>1, <1>2
<1>4. ASSUME NEW i \in DOMAIN (q \o s) \ DOMAIN q
      PROVE  (\E m \in DOMAIN s : (q \o s)[i] = s[m]) /\ \A j \in DOMAIN q : j < i
  <2>1. i - Len(q) \in DOMAIN s /\ (q \o s)[i] = s[i - Len(q)]
    BY <1>1, <1>2, <1>4
  <2> QED
    BY <1>1, <1>2, <1>4, <2>1
<1>5. ASSUME NEW m \in DOMAIN s
      PROVE  \E i \in DOMAIN (q \o s) : (q \o s)[i] = s[m]
  <2>1. m + Len(q) \in DOMAIN (q \o s) /\ (q \o s)[m + Len(q)] = s[m]
    BY <1>1, <1>2
  <2> QED
    BY <2>1
<1> QED
  BY <1>1, <1>2, <1>3, <1>4, <1>5

\* What the command at the head of the batch may ask the session for: to add a
\* torrent, a temporary one only if there is none, or to remove the one whose
\* handle it has.
AskedBy(cmd, r) ==
    \/ /\ r.do = "add" /\ r.key = cmd.key
       /\ r.torrent.temp => cmd.op = "Prepare" /\ ~Valid(cmd.key)
    \/ /\ cmd.op \in {"Cancel", "Finalize", "Remove"} /\ Valid(cmd.key)
       /\ r = RemoveRequest(handlesByTaskId[cmd.key], cmd.key)

\* A handler of a command puts such requests behind the others.
LEMMA CmdAsks ==
    ASSUME Typed, HandleCmd, ~Throw, ~HandleShutdown
    PROVE  \E s \in Seq(Requests) : /\ requests' = requests \o s
                                    /\ \A m \in DOMAIN s : AskedBy(Head(local), s[m])
<1> DEFINE cmd == Head(local)
           k == cmd.key
<1>1. requests \in Seq(Requests)
  BY DEF Typed, TypeOK, Requests
<1>2. phase = "commands" /\ local # <<>> /\ cmd.op # "Shutdown"
  BY DEF HandleCmd, HandleAddMagnet, HandleAddTorrentFile, HandleAddFromResumeData,
         HandlePrepare, HandleCancel, HandleFinalize, HandlePause, HandleResume, HandleRemove,
         Handling
<1>3. k \in Keys /\ cmd.opt \in Opts
  BY <1>2, HeadGood DEF WellFormed, Command
<1>4. ASSUME UNCHANGED requests
      PROVE  \E s \in Seq(Requests) : requests' = requests \o s
                                      /\ \A m \in DOMAIN s : AskedBy(cmd, s[m])
  <2>1. <<>> \in Seq(Requests) /\ requests' = requests \o <<>> /\ DOMAIN <<>> = {}
    BY <1>1, <1>4, ConcatEmptySeq
  <2> QED
    BY <2>1
<1>5. ASSUME NEW r \in Requests, AskedBy(cmd, r), Ask(r)
      PROVE  \E s \in Seq(Requests) : requests' = requests \o s
                                      /\ \A m \in DOMAIN s : AskedBy(cmd, s[m])
  <2>1. <<r>> \in Seq(Requests) /\ requests' = requests \o <<r>>
    BY <1>1, <1>5, AppendIsConcat DEF Ask
  <2>2. \A m \in DOMAIN <<r>> : <<r>>[m] = r
    OBVIOUS
  <2> QED
    BY <1>5, <2>1, <2>2
<1>6. ASSUME NEW t \in Torrent, ~t.temp \/ (cmd.op = "Prepare" /\ ~Valid(k))
      PROVE  AddRequest(t, k) \in Requests /\ AskedBy(cmd, AddRequest(t, k))
  BY <1>3, <1>6, RequestTyped DEF AddRequest, AskedBy
<1>7. ASSUME Valid(k), cmd.op \in {"Cancel", "Finalize", "Remove"}
      PROVE  RemoveRequest(handlesByTaskId[k], k) \in Requests
             /\ AskedBy(cmd, RemoveRequest(handlesByTaskId[k], k))
  BY <1>3, <1>7, RequestTyped DEF AskedBy, Typed, TypeOK
<1>8. ASSUME NEW p \in BOOLEAN, NEW x \in BOOLEAN, NEW o \in Opts
      PROVE  /\ [NoTorrent EXCEPT !.paused = p, !.meta = x, !.asked = o] \in Torrent
             /\ ~[NoTorrent EXCEPT !.paused = p, !.meta = x, !.asked = o].temp
  BY NewTorrentTyped DEF NoTorrent
<1>9. /\ [NoTorrent EXCEPT !.paused = TRUE] \in Torrent
      /\ ~[NoTorrent EXCEPT !.paused = TRUE].temp
      /\ [NoTorrent EXCEPT !.temp = TRUE, !.upload = TRUE] \in Torrent
  BY NewTorrentTyped DEF NoTorrent
<1> HIDE DEF k, cmd
<1>10. ASSUME NEW t \in Torrent, ~t.temp, AskUnlessRejected(t)
       PROVE  \E s \in Seq(Requests) : requests' = requests \o s
                                       /\ \A m \in DOMAIN s : AskedBy(cmd, s[m])
  BY <1>4, <1>5, <1>6, <1>10 DEF AskUnlessRejected, k, cmd
<1>11. CASE HandleAddMagnet
  BY <1>9, <1>10, <1>11 DEF HandleAddMagnet, cmd
<1>12. CASE HandleAddTorrentFile
  <2>1. [NoTorrent EXCEPT !.paused = TRUE, !.meta = TRUE, !.asked = cmd.opt] \in Torrent
        /\ ~[NoTorrent EXCEPT !.paused = TRUE, !.meta = TRUE, !.asked = cmd.opt].temp
    BY <1>3, <1>8
  <2>2. \/ UNCHANGED requests
        \/ Ask(AddRequest([NoTorrent EXCEPT !.paused = TRUE, !.meta = TRUE, !.asked = cmd.opt], k))
    BY <1>12 DEF HandleAddTorrentFile, cmd, k
  <2> QED
    BY <1>4, <1>5, <1>6, <2>1, <2>2 DEF cmd
<1>13. CASE HandleAddFromResumeData
  <2>1. PICK x \in BOOLEAN : AskUnlessRejected([NoTorrent EXCEPT !.paused = cmd.opt = "paused",
                                                       !.meta = x, !.asked = cmd.opt])
    BY <1>13 DEF HandleAddFromResumeData, cmd
  <2>2. (cmd.opt = "paused") \in BOOLEAN
    OBVIOUS
  <2> QED
    BY <1>3, <1>8, <1>10, <2>1, <2>2 DEF cmd
<1>14. CASE HandlePrepare
  <2>1. \/ UNCHANGED requests
        \/ /\ ~Valid(k) /\ cmd.op = "Prepare"
           /\ Ask(AddRequest([NoTorrent EXCEPT !.temp = TRUE, !.upload = TRUE], k))
    BY <1>14 DEF HandlePrepare, Accepted, Handling, cmd, k
  <2> QED
    BY <1>4, <1>5, <1>6, <1>9, <2>1 DEF cmd
<1>15. CASE HandlePause \/ HandleResume
  BY <1>4, <1>15 DEF HandlePause, HandleResume, cmd
<1>16. CASE HandleCancel \/ HandleRemove
  <2>1. cmd.op \in {"Cancel", "Remove"}
    BY <1>16 DEF HandleCancel, HandleRemove, Handling, cmd
  <2>2. UNCHANGED requests \/ (Valid(k) /\ Ask(RemoveRequest(handlesByTaskId[k], k)))
    BY <1>16 DEF HandleCancel, HandleRemove, cmd, k
  <2> QED
    BY <1>4, <1>5, <1>7, <2>1, <2>2 DEF cmd
<1>17. CASE HandleFinalize
  <2> DEFINE go == RemoveRequest(handlesByTaskId[k], k)
             add == AddRequest([NoTorrent EXCEPT !.paused = TRUE, !.meta = TRUE,
                                                 !.asked = cmd.opt], k)
  <2>1. add \in Requests /\ AskedBy(cmd, add)
    BY <1>3, <1>6, <1>8
  <2>2. cmd.op = "Finalize"
    BY <1>17 DEF HandleFinalize, Handling, cmd
  <2>3. \/ UNCHANGED requests
        \/ handlesByTaskId[k] = 0 /\ requests' = requests \o <<>> \o <<add>>
        \/ Valid(k) /\ requests' = requests \o <<go>> \o <<add>>
    BY <1>17 DEF HandleFinalize, cmd, k, Valid
  <2>4. Valid(k) => go \in Requests /\ AskedBy(cmd, go)
    BY <1>7, <2>2
  <2> HIDE DEF go, add
  <2>5. CASE handlesByTaskId[k] = 0 /\ requests' = requests \o <<>> \o <<add>>
    <3>1. Ask(add)
      <4>1. requests \o <<>> = requests /\ requests \o <<add>> = Append(requests, add)
        BY <1>1, <2>1, AppendIsConcat, ConcatEmptySeq
      <4> QED
        BY <2>5, <4>1 DEF Ask
    <3> QED
      BY <1>5, <2>1, <3>1 DEF cmd
  <2>6. CASE Valid(k) /\ requests' = requests \o <<go>> \o <<add>>
    <3>1. go \in Requests /\ add \in Requests
      BY <2>1, <2>4, <2>6
    <3>2. <<go>> \in Seq(Requests) /\ requests \o <<go>> \in Seq(Requests)
      BY <1>1, <3>1, ConcatProperties
    <3>3. (requests \o <<go>>) \o <<add>> = Append(requests \o <<go>>, add)
      BY <3>1, <3>2, AppendIsConcat
    <3> DEFINE s == Append(<<go>>, add)
    <3>4. s \in Seq(Requests) /\ requests' = requests \o s
      BY <1>1, <2>6, <3>1, <3>2, <3>3, ConcatAppend, AppendProperties
    <3>5. \A m \in DOMAIN s : s[m] = go \/ s[m] = add
      OBVIOUS
    <3> HIDE DEF s
    <3>6. \A m \in DOMAIN s : AskedBy(cmd, s[m])
      BY <2>1, <2>4, <2>6, <3>5
    <3> QED
      BY <3>4, <3>6 DEF cmd
  <2> QED
    BY <1>4, <2>3, <2>5, <2>6 DEF cmd
<1> QED
  BY <1>11, <1>12, <1>13, <1>14, <1>15, <1>16, <1>17 DEF HandleCmd

\* What every handler of a command but the shutdown's leaves alone: the session's
\* torrents but for their flags, and the handles but for the one that a Cancel or
\* a Finalize forgets.
LEMMA CmdKeeps ==
    ASSUME Typed, HandleCmd, ~Throw, ~HandleShutdown
    PROVE  /\ phase = "commands" /\ local # <<>> /\ NextCmd
           /\ Head(local).key \in Keys /\ WellFormed(Head(local))
           /\ \A k \in Keys : /\ torrents'[k].gen = torrents[k].gen
                              /\ torrents'[k].temp = torrents[k].temp
                              /\ \/ handlesByTaskId'[k] = handlesByTaskId[k]
                                 \/ /\ handlesByTaskId'[k] = 0 /\ Head(local).key = k
                                    /\ Head(local).op \in {"Cancel", "Finalize"}
<1> DEFINE j == Head(local).key
<1>1. phase = "commands" /\ local # <<>> /\ Head(local).op # "Shutdown" /\ NextCmd
  BY DEF HandleCmd, HandleAddMagnet, HandleAddTorrentFile, HandleAddFromResumeData,
         HandlePrepare, HandleCancel, HandleFinalize, HandlePause, HandleResume, HandleRemove,
         Handling
<1>2. j \in Keys /\ WellFormed(Head(local))
  BY <1>1, HeadGood DEF WellFormed
<1>3. torrents[j] \in Torrent
  BY <1>2 DEF Typed, TypeOK
<1> DEFINE paused == [torrents[j] EXCEPT !.paused = TRUE]
           resumed == [torrents[j] EXCEPT !.paused = FALSE, !.top = TRUE,
                           !.asked = IF @ = "paused" THEN "none" ELSE @]
<1>4. /\ paused.gen = torrents[j].gen /\ resumed.gen = torrents[j].gen
      /\ paused.temp = torrents[j].temp /\ resumed.temp = torrents[j].temp
  BY <1>3 DEF Torrent
<1>5. \/ torrents' = torrents
      \/ torrents' = [torrents EXCEPT ![j] = paused]
      \/ torrents' = [torrents EXCEPT ![j] = resumed]
  BY <1>2 DEF HandleCmd, HandleAddMagnet, HandleAddTorrentFile, HandleAddFromResumeData,
         HandlePrepare, HandleCancel, HandleFinalize, HandlePause, HandleResume, HandleRemove,
         Typed, TypeOK
<1>6. \/ handlesByTaskId' = handlesByTaskId
      \/ /\ handlesByTaskId' = [handlesByTaskId EXCEPT ![j] = 0]
         /\ Head(local).op \in {"Cancel", "Finalize"}
  BY DEF HandleCmd, HandleAddMagnet, HandleAddTorrentFile, HandleAddFromResumeData,
         HandlePrepare, HandleCancel, HandleFinalize, HandlePause, HandleResume, HandleRemove,
         Handling, mapVars
<1> HIDE DEF paused, resumed
<1>7. ASSUME NEW k \in Keys
      PROVE  torrents'[k].gen = torrents[k].gen /\ torrents'[k].temp = torrents[k].temp
  BY <1>2, <1>4, <1>5 DEF Typed, TypeOK
<1>8. ASSUME NEW k \in Keys
      PROVE  \/ handlesByTaskId'[k] = handlesByTaskId[k]
             \/ /\ handlesByTaskId'[k] = 0 /\ j = k
                /\ Head(local).op \in {"Cancel", "Finalize"}
  BY <1>2, <1>6 DEF Typed, TypeOK
<1> QED
  BY <1>1, <1>2, <1>7, <1>8

\* The requests after a command: those before, and behind them what it asks for.
LEMMA CmdRequests ==
    ASSUME Typed, HandleCmd, ~Throw, ~HandleShutdown
    PROVE  /\ \A i \in DOMAIN requests : i \in DOMAIN requests' /\ requests'[i] = requests[i]
           /\ \A i \in DOMAIN requests' \ DOMAIN requests :
                AskedBy(Head(local), requests'[i]) /\ \A j \in DOMAIN requests : j < i
           /\ DOMAIN requests \subseteq Nat /\ DOMAIN requests' \subseteq Nat
<1>1. requests \in Seq(Requests)
  BY DEF Typed, TypeOK, Requests
<1>2. PICK s \in Seq(Requests) : /\ requests' = requests \o s
                                 /\ \A m \in DOMAIN s : AskedBy(Head(local), s[m])
  BY CmdAsks
<1>3. /\ \A i \in DOMAIN requests : i \in DOMAIN requests' /\ requests'[i] = requests[i]
      /\ \A i \in DOMAIN requests' \ DOMAIN requests :
           (\E m \in DOMAIN s : requests'[i] = s[m]) /\ \A j \in DOMAIN requests : j < i
      /\ DOMAIN requests \subseteq Nat /\ DOMAIN requests' \subseteq Nat
  <2> DEFINE q == requests \o s
  <2>1. /\ \A i \in DOMAIN requests : i \in DOMAIN q /\ q[i] = requests[i]
        /\ \A i \in DOMAIN q \ DOMAIN requests :
             (\E m \in DOMAIN s : q[i] = s[m]) /\ \A j \in DOMAIN requests : j < i
        /\ DOMAIN requests \subseteq Nat /\ DOMAIN q \subseteq Nat
    BY <1>1, Behind
  <2>2. requests' = q
    BY <1>2
  <2> HIDE DEF q
  <2> QED
    BY <2>1, <2>2
<1> QED
  BY <1>2, <1>3

\* The handlers of commands.
LEMMA CmdNews ==
    ASSUME Typed, HandleCmd, NEW k \in Keys, NewsOK(k)
    PROVE  NewsOK(k)'
<1>1. lastGen \in Nat /\ handlesByTaskId[k] \in Nat
  BY DEF Typed, TypeOK
<1>2. CASE Throw \/ HandleShutdown
  <2>1. UNCHANGED <<News, lastGen, torrents, handlesByTaskId, requests>>
    BY <1>2 DEF Throw, HandleShutdown, News, mapVars, sessionVars
  <2> QED
    BY <1>1, <2>1, NewsStays DEF NewsOK, RemovalsKnown
<1>3. CASE ~Throw /\ ~HandleShutdown
  <2>1. UNCHANGED <<News, lastGen>>
    BY <1>3, CmdKeeps DEF NextCmd, News
  <2>2. /\ torrents'[k].gen = torrents[k].gen
        /\ handlesByTaskId'[k] = handlesByTaskId[k] \/ handlesByTaskId'[k] = 0
    BY <1>3, CmdKeeps
  <2>3. ASSUME NEW i \in DOMAIN requests', requests'[i].do = "remove", requests'[i].key = k
        PROVE  \E g \in 1 .. lastGen : requests'[i] = RemoveRequest(g, k)
    <3>1. CASE i \in DOMAIN requests
      <4>1. requests'[i] = requests[i]
        BY <1>3, <3>1, CmdRequests
      <4> QED
        BY <2>3, <3>1, <4>1 DEF NewsOK, RemovalsKnown
    <3>2. CASE i \notin DOMAIN requests
      <4>1. AskedBy(Head(local), requests'[i])
        BY <1>3, <3>2, CmdRequests
      <4> DEFINE j == Head(local).key
      <4>2. Valid(j) /\ requests'[i] = RemoveRequest(handlesByTaskId[j], j)
        BY <2>3, <4>1 DEF AskedBy
      <4>3. j = k
        BY <2>3, <4>2 DEF RemoveRequest
      <4>4. handlesByTaskId[k] \in 1 .. lastGen
        BY <1>1, <4>2, <4>3 DEF Valid, NewsOK
      <4> QED
        BY <4>2, <4>3, <4>4
    <3> QED
      BY <3>1, <3>2
  <2> QED
    BY <1>1, <2>1, <2>2, <2>3, NewsStays
<1> QED
  BY <1>2, <1>3

\* What a handler of an alert leaves alone, and what becomes of a key's handle.
LEMMA AlertKeeps ==
    ASSUME Typed, HandleAlert, ~Throw
    PROVE  /\ popped # <<>> /\ NextAlert
           /\ Head(popped) \in Alerts
           /\ \A k \in Keys :
                /\ torrents'[k].gen = torrents[k].gen /\ torrents'[k].temp = torrents[k].temp
                /\ handlesByTaskId'[k] = IF About(Head(popped), k) THEN Outcome(Head(popped))
                                         ELSE handlesByTaskId[k]
<1> DEFINE a == Head(popped)
<1> USE DEF HandlingAlert
<1>1. popped # <<>> /\ NextAlert
  BY DEF HandleAlert, HandleAdded, HandleAddFailed, HandleRemoved, HandleMetadata,
         HandleMetadataFailed
<1>2. a \in Alerts /\ a.key \in Keys /\ a.gen \in Nat
  BY <1>1, HeadAlert DEF Typed, Alerts
<1> HIDE DEF a
<1>3. torrents[a.key] \in Torrent
  BY <1>2 DEF Typed, TypeOK
<1>4. CASE HandleAdded
  <2> DEFINE top == pendingAddOpts[a.key] = "top"
             started == IF a.key \in Awaited THEN Fetching(torrents[a.key])
                        ELSE [torrents[a.key] EXCEPT !.paused = FALSE]
             put == [started EXCEPT !.top = @ \/ top]
  <2>1. /\ started \in Torrent /\ started.gen = torrents[a.key].gen
        /\ started.temp = torrents[a.key].temp
    <3>1. /\ [torrents[a.key] EXCEPT !.paused = FALSE].gen = torrents[a.key].gen
          /\ [torrents[a.key] EXCEPT !.paused = FALSE].temp = torrents[a.key].temp
          /\ Fetching(torrents[a.key]).temp = torrents[a.key].temp
      BY <1>3 DEF Torrent, Fetching
    <3> QED
      BY <1>3, <3>1, TorrentFlags
  <2>2. torrents' = torrents \/ torrents' = [torrents EXCEPT ![a.key] = put]
    BY <1>4 DEF HandleAdded, a
  <2> HIDE DEF started, top
  <2>3. put.gen = torrents[a.key].gen /\ put.temp = torrents[a.key].temp
    BY <2>1 DEF Torrent
  <2> HIDE DEF put
  <2>4. \A k \in Keys : torrents'[k].gen = torrents[k].gen /\ torrents'[k].temp = torrents[k].temp
    BY <1>2, <2>2, <2>3 DEF Typed, TypeOK
  <2>5. \A k \in Keys : handlesByTaskId'[k] = IF a.key = k THEN a.gen ELSE handlesByTaskId[k]
    BY <1>2, <1>4 DEF HandleAdded, a, Typed, TypeOK
  <2>6. a.type = "added"
    BY <1>4 DEF HandleAdded, a
  <2> QED
    BY <1>1, <1>2, <2>4, <2>5, <2>6 DEF About, Outcome, a
<1>5. CASE HandleRemoved
  <2>1. \A k \in Keys : handlesByTaskId'[k] = IF a.key = k THEN 0 ELSE handlesByTaskId[k]
    BY <1>2, <1>5 DEF HandleRemoved, a, Typed, TypeOK
  <2>2. a.type = "removed" /\ torrents' = torrents
    BY <1>5 DEF HandleRemoved, a
  <2> QED
    BY <1>1, <1>2, <2>1, <2>2 DEF About, Outcome, a
<1>6. CASE HandleAddFailed \/ HandleMetadata \/ HandleMetadataFailed
  <2>1. a.type \in {"addFailed", "metadata", "metadataFailed"}
    BY <1>6 DEF HandleAddFailed, HandleMetadata, HandleMetadataFailed, a
  <2>2. handlesByTaskId' = handlesByTaskId /\ torrents' = torrents
    BY <1>6 DEF HandleAddFailed, HandleMetadata, HandleMetadataFailed, mapVars
  <2> QED
    BY <1>1, <1>2, <2>1, <2>2 DEF About, a
<1> QED
  BY <1>4, <1>5, <1>6 DEF HandleAlert

\* The handlers of alerts; what they find said of a torrent's metadata still comes
\* after its add alert, and a valid handle stays valid.
LEMMA AlertNews ==
    ASSUME Typed, HandleAlert, ~Throw, NEW k \in Keys, NewsOK(k)
    PROVE  /\ NewsOK(k)'
           /\ Valid(k) => Valid(k)'
           /\ Introduced(News, k, handlesByTaskId[k], torrents[k].gen)
              => Introduced(News, k, handlesByTaskId[k], torrents[k].gen)'
<1> DEFINE g == torrents[k].gen
           h == handlesByTaskId[k]
           h2 == handlesByTaskId'[k]
<1>1. g \in Nat /\ h \in Nat /\ lastGen \in Nat
  <2>1. torrents[k] \in Torrent
    BY DEF Typed, TypeOK
  <2> QED
    BY <2>1 DEF Typed, TypeOK, Torrent
<1>2. /\ News \in Seq(Alerts) /\ News # <<>> /\ Head(News) = Head(popped) /\ News' = Tail(News)
  BY AlertKeeps, NewsHandled
<1>3. /\ torrents'[k].gen = g /\ UNCHANGED <<requests, lastGen>>
      /\ h2 = IF About(Head(News), k) THEN Outcome(Head(News)) ELSE h
      /\ Head(News) \in Alerts
  BY <1>2, AlertKeeps DEF NextAlert
<1>4. h2 \in Nat
  BY <1>1, <1>3 DEF Outcome, Alerts
<1>5. Ordered(News, k, g) /\ Known(News, k, lastGen) /\ Firm(News, k, h, g) /\ h <= lastGen
      /\ g <= lastGen
  BY DEF NewsOK
<1> HIDE DEF g, h, h2
<1>6. /\ Ordered(Tail(News), k, g) /\ Known(Tail(News), k, lastGen) /\ Firm(Tail(News), k, h2, g)
      /\ h2 <= lastGen
      /\ IsHandle(h, g) => IsHandle(h2, g)
      /\ Introduced(News, k, h, g) => Introduced(Tail(News), k, h2, g)
  BY <1>1, <1>2, <1>3, <1>4, <1>5, FirstNews
<1>7. NewsOK(k)'
  BY <1>2, <1>3, <1>5, <1>6 DEF NewsOK, RemovalsKnown, g, h2
<1>8. Valid(k) => Valid(k)'
  BY <1>3, <1>6 DEF Valid, IsHandle, g, h, h2
<1>9. Introduced(News, k, h, g) => Introduced(News, k, handlesByTaskId[k], torrents[k].gen)'
  BY <1>2, <1>3, <1>6 DEF g, h2
<1> QED
  BY <1>7, <1>8, <1>9 DEF g, h

\* The worker's loop, and the clients.
LEMMA LoopNews ==
    ASSUME Typed, Swap \/ PopAlerts \/ Poll \/ ClientStep, NEW k \in Keys
    PROVE  /\ UNCHANGED <<News, handlesByTaskId, requests, lastGen>>
           /\ torrents'[k].gen = torrents[k].gen /\ torrents'[k].temp = torrents[k].temp
<1>1. CASE Swap \/ ClientStep
  BY <1>1 DEF Swap, mapVars, sessionVars, News, ClientStep, Issue, CallStep, CallPrepare,
         CallReturns, CallExpires, CallCancels, UserGivesUp, UserCancels, UserConfirms, Shutdown,
         Goto, workerVars
<1>2. CASE PopAlerts
  <2>1. popped' = alerts /\ alerts' = <<>> /\ popped = <<>> /\ alerts \in Seq(Alerts)
    BY <1>2 DEF PopAlerts, Typed, TypeOK, Phases, Alerts
  <2>2. News' = News
    BY <2>1, ConcatEmptySeq DEF News
  <2> QED
    BY <1>2, <2>2 DEF PopAlerts, mapVars
<1>3. CASE Poll
  <2>1. torrents[k] \in Torrent
    BY DEF Typed, TypeOK
  <2>2. Fetching(torrents[k]).gen = torrents[k].gen /\ Fetching(torrents[k]).temp = torrents[k].temp
    BY <2>1 DEF Torrent, Fetching
  <2> QED
    BY <1>3, <2>2 DEF Poll, News
<1> QED
  BY <1>1, <1>2, <1>3

\* Every step.
LEMMA NextNews ==
    ASSUME Typed, [Next]_vars, NEW k \in Keys, NewsOK(k)
    PROVE  NewsOK(k)'
<1>1. lastGen \in Nat
  BY DEF Typed, TypeOK
<1>2. CASE Swap \/ PopAlerts \/ Poll \/ ClientStep
  BY <1>1, <1>2, LoopNews, NewsStays DEF NewsOK, RemovalsKnown
<1>3. CASE Throw \/ Ended \/ UNCHANGED vars
  <2>1. UNCHANGED <<News, lastGen, torrents, handlesByTaskId, requests>>
    BY <1>3 DEF Throw, Ended, vars, News, mapVars, workerVars, sessionVars
  <2> QED
    BY <1>1, <2>1, NewsStays DEF NewsOK, RemovalsKnown
<1> QED
  BY <1>2, <1>3, CmdNews, AlertNews, SessionNews, PeersNews
     DEF Next, WorkerStep, SessionStep, PeersStep

\* There are no news in the initial state.
LEMMA InitNews ==
    ASSUME Init, NEW k \in Keys
    PROVE  NewsOK(k)
<1>1. News = <<>> /\ DOMAIN News = {} /\ DOMAIN requests = {}
  BY DEF Init, News
<1>2. torrents[k].gen = 0 /\ handlesByTaskId[k] = 0 /\ lastGen = 0
  BY DEF Init, NoTorrent
<1> QED
  BY <1>1, <1>2 DEF NewsOK, Ordered, Known, Firm, RemovalsKnown

-----------------------------------------------------------------------------
(* The temporary torrent of a call.                                         *)

\* Nobody else asks about the magnet of c, and c's dialog is still open, was
\* closed, or has not been opened.
Alone(c) == \A d \in Callers \ {c} : KeyOf[d] = KeyOf[c] => call[d] = "idle"
InPlay(c) == Alone(c) /\ call[c] \in {"idle", "waiting", "closed", "metadata", "cancelled"}

\* The dialog was closed, for which a Cancel is queued; until the worker comes to
\* it nothing has touched the torrent of the call.
Left(c) == call[c] \in {"closed", "cancelled"}
Asked(c) == \E i \in DOMAIN Queue : Queue[i].call = c
CancelQueued(k) == \E i \in DOMAIN Queue : Queue[i].op = "Cancel" /\ Queue[i].key = k
Untouched(c) == Left(c) => CancelQueued(KeyOf[c])

\* The Cancel comes once, after the Prepare, and no Finalize comes.
InOrder(c) ==
    /\ \A i \in DOMAIN Queue : Queue[i].key = KeyOf[c] => Queue[i].op # "Finalize"
    /\ \A i \in DOMAIN Queue : Queue[i].key = KeyOf[c] /\ Queue[i].op = "Cancel" =>
         /\ Left(c)
         /\ \A j \in DOMAIN Queue : /\ Queue[j].key = KeyOf[c] /\ Queue[j].op = "Cancel" => j = i
                                    /\ Queue[j].call = c => j < i
    /\ Left(c) /\ Asked(c) => CancelQueued(KeyOf[c])
    /\ call[c] \in {"metadata", "cancelled"} => promise[c] # "unset"

\* Neither k's torrent nor one that was asked for is temporary.
TempRequest(r, k) == r.do = "add" /\ r.key = k /\ r.torrent.temp
NoneWanted(k) == \A i \in DOMAIN requests : ~TempRequest(requests[i], k)
NoTemp(k) == ~torrents[k].temp /\ NoneWanted(k)

\* A torrent that was asked to be removed still has its handle in the map, and
\* its removal comes after the requests for a temporary one.
GoingIsValid(k) == torrents[k].gen # 0 /\ Going(k) => Valid(k)
NotBefore(k) ==
    \A i, j \in DOMAIN requests :
        j < i /\ TempRequest(requests[i], k) => requests[j] # RemoveRequest(torrents[k].gen, k)

\* There is no temporary torrent before the call's Prepare is handled.  When the
\* call is answered the handle of the torrent is in the map, and if it is not,
\* there is none.  After its Cancel the torrent is going.
Temporary(c) ==
    LET k == KeyOf[c] IN
    /\ NotBefore(k)
    /\ Untouched(c) => GoingIsValid(k) /\ Introduced(News, k, handlesByTaskId[k], torrents[k].gen)
    /\ call[c] = "idle" \/ Asked(c) => NoTemp(k)
    /\ Untouched(c) /\ promise[c] # "unset" /\ ~Valid(k) => NoTemp(k)
    /\ ~Untouched(c) /\ promise[c] # "unset" =>
         /\ torrents[k].temp => Going(k)
         /\ torrents[k].gen = 0 => NoneWanted(k)
    /\ ~Untouched(c) /\ promise[c] = "unset" => \A j \in Keys : pendingMagnetMeta[j] # c

Cleaned(c) == Working /\ InPlay(c) => InOrder(c) /\ Temporary(c)
CleanedAll == \A c \in Callers : Cleaned(c)
NewsAll == \A k \in Keys : NewsOK(k)

\* A client's step leaves the session, the maps and the promises alone.
LEMMA ClientKeeps ==
    ASSUME ClientStep
    PROVE  /\ UNCHANGED <<local, News, handlesByTaskId, pendingMagnetMeta, promise, torrents,
                          requests, lastGen, phase, running>>
           /\ UNCHANGED mapVars
  BY DEF ClientStep, Issue, CallStep, CallPrepare, CallReturns, CallExpires, CallCancels,
         UserGivesUp, UserCancels, UserConfirms, Shutdown, Goto, workerVars, mapVars, sessionVars,
         News

\* What a client's step does to a call that stays in play: its dialog is left
\* with a Cancel queued behind the others, and otherwise no Cancel, Finalize or
\* Prepare of its magnet is.
Moved(c) ==
    LET k == KeyOf[c]
        New == DOMAIN Queue' \ DOMAIN Queue
    IN
    /\ InPlay(c)
    /\ \A i \in DOMAIN Queue : i \in DOMAIN Queue' /\ Queue'[i] = Queue[i]
    /\ \A i \in New, j \in DOMAIN Queue : j < i
    /\ \A i, j \in New : i = j
    /\ \A i \in New :
         /\ Queue'[i].key = k /\ Queue'[i].op = "Cancel" => ~Left(c) /\ Left(c)'
         /\ Queue'[i].key = k => Queue'[i].op # "Finalize"
         /\ Queue'[i].call = c => call[c] = "idle" /\ Queue'[i].op = "Prepare"
    /\ Left(c) => Left(c)'
    /\ Left(c)' /\ ~Left(c) => \E i \in New : Queue'[i].key = k /\ Queue'[i].op = "Cancel"
    /\ call'[c] = "idle" => call[c] = "idle"
    /\ call'[c] \in {"metadata", "cancelled"} => call[c] \in {"metadata", "cancelled"} \/ promise[c] # "unset"

\* Every client's step is such a move.
LEMMA ClientMoves ==
    ASSUME Typed, ClientStep, NEW c \in Callers, InPlay(c)'
    PROVE  Moved(c)
<1> USE ConstantsAssumption
<1>1. UNCHANGED local
  BY ClientKeeps
<1>2. ASSUME NEW cmd, WellFormed(cmd), Enqueue(cmd)
      PROVE  /\ DOMAIN Queue' = 1 .. (Len(Queue) + 1)
             /\ \A i \in DOMAIN Queue : Queue'[i] = Queue[i]
             /\ Queue'[Len(Queue) + 1] = cmd
             /\ DOMAIN Queue = 1 .. Len(Queue) /\ Len(Queue) \in Nat
  BY <1>1, <1>2, QueueEnqueued, QueueGood
<1>3. ASSUME NEW cmd, WellFormed(cmd), Enqueue(cmd), InPlay(c),
             cmd.key = KeyOf[c] /\ cmd.op = "Cancel" => ~Left(c) /\ Left(c)',
             cmd.key = KeyOf[c] => cmd.op # "Finalize",
             cmd.call = c => call[c] = "idle" /\ cmd.op = "Prepare",
             Left(c) => Left(c)',
             Left(c)' /\ ~Left(c) => cmd.key = KeyOf[c] /\ cmd.op = "Cancel",
             call'[c] = "idle" => call[c] = "idle",
             call'[c] \in {"metadata", "cancelled"} => call[c] \in {"metadata", "cancelled"}
      PROVE  Moved(c)
  <2>1. /\ DOMAIN Queue' = 1 .. (Len(Queue) + 1)
        /\ \A i \in DOMAIN Queue : Queue'[i] = Queue[i]
        /\ Queue'[Len(Queue) + 1] = cmd
        /\ DOMAIN Queue = 1 .. Len(Queue) /\ Len(Queue) \in Nat
    BY <1>2, <1>3
  <2>2. DOMAIN Queue' \ DOMAIN Queue = {Len(Queue) + 1}
    BY <2>1
  <2>3. \A i \in DOMAIN Queue : i \in DOMAIN Queue' /\ i < Len(Queue) + 1
    BY <2>1
  <2> QED
    BY <1>3, <2>1, <2>2, <2>3 DEF Moved
<1>4. ASSUME NEW cmd, WellFormed(cmd), Enqueue(cmd), UNCHANGED call, cmd.call = None,
             cmd.op \notin {"Prepare", "Cancel", "Finalize"}
      PROVE  Moved(c)
  <2>1. InPlay(c) /\ (Left(c)' <=> Left(c))
    BY <1>4 DEF InPlay, Alone, Left
  <2> QED
    BY <1>3, <1>4, <2>1
<1>5. ASSUME NEW op \in ClientOps, NEW k \in Keys, NEW opt \in Opts, opt \in OptsOf(op),
             Issue(op, k, opt)
      PROVE  Moved(c)
  <2>1. op \in AddOps \cup {"Pause", "Resume", "Remove"}
    BY <1>5, ClientOpsAssumption
  <2> DEFINE cmd == Cmd(op, k, None, opt)
  <2>2. WellFormed(cmd) /\ cmd.call = None /\ cmd.op \notin {"Prepare", "Cancel", "Finalize"}
    BY <1>5, <2>1 DEF WellFormed, Cmd, Command, AllOps, AddOps, OptsOf
  <2>3. Enqueue(cmd) /\ UNCHANGED call
    BY <1>5 DEF Issue
  <2> HIDE DEF cmd
  <2> QED
    BY <1>4, <2>2, <2>3
<1>6. CASE Shutdown
  <2> DEFINE cmd == Cmd("Shutdown", None, None, "none")
  <2>1. WellFormed(cmd) /\ cmd.call = None /\ cmd.op \notin {"Prepare", "Cancel", "Finalize"}
    BY DEF WellFormed, Cmd, Command, AllOps, AddOps, Opts
  <2>2. Enqueue(cmd) /\ UNCHANGED call
    BY <1>6 DEF Shutdown
  <2> HIDE DEF cmd
  <2> QED
    BY <1>4, <2>1, <2>2
<1>7. ASSUME NEW d \in Callers, CallStep(d)
      PROVE  Moved(c)
  <2>1. \A e \in Callers \ {d} : call'[e] = call[e]
    BY <1>7 DEF CallStep, CallPrepare, CallReturns, CallExpires, CallCancels, UserGivesUp,
                UserCancels, UserConfirms, Goto, Typed, TypeOK
  <2>2. call'[d] # "idle"
    BY <1>7 DEF CallStep, CallPrepare, CallReturns, CallExpires, CallCancels, UserGivesUp,
                UserCancels, UserConfirms, Goto, Typed, TypeOK
  <2>3. CASE CallReturns(d) \/ CallExpires(d)
    <3>1. Queue' = Queue
      BY <1>1, <2>3 DEF CallReturns, CallExpires, Queue
    <3>2. CASE d # c
      <4>1. InPlay(c) /\ (Left(c)' <=> Left(c)) /\ call'[c] = call[c]
        BY <2>1, <2>2, <3>2 DEF InPlay, Alone, Left
      <4> QED
        BY <3>1, <4>1 DEF Moved
    <3>3. CASE d = c
      <4>1. call[c] \in {"waiting", "closed"} /\ promise[c] # "unset"
            /\ call'[c] = IF call[c] = "closed" THEN "cancelled"
                          ELSE IF promise[c] = "value" THEN "metadata" ELSE "nothing"
        <5>1. call'[c] # "expired"
          BY DEF InPlay
        <5> QED
          BY <2>3, <3>3, <5>1 DEF CallReturns, CallExpires, Goto, Typed, TypeOK
      <4>2. InPlay(c) /\ (Left(c)' <=> Left(c))
        BY <2>1, <3>3, <4>1 DEF InPlay, Alone, Left
      <4> QED
        BY <3>1, <4>1, <4>2 DEF Moved
    <3> QED
      BY <3>2, <3>3
  <2>4. ASSUME NEW op \in {"Prepare", "Cancel", "Finalize"}, NEW o \in Opts, NEW at \in CallStates,
               o = "none" \/ (op = "Finalize" /\ o \in {"plain", "top"}),
               op = "Finalize" => o # "none",
               NEW x \in {d, None}, x = d <=> op = "Prepare",
               Enqueue(Cmd(op, KeyOf[d], x, o)), Goto(d, at),
               \/ op = "Prepare" /\ call[d] = "idle" /\ at = "waiting"
               \/ op = "Cancel" /\ call[d] = "waiting" /\ at = "closed"
               \/ op = "Cancel" /\ call[d] = "metadata" /\ at = "cancelled"
               \/ at \in {"timedOut", "finalized"}
        PROVE  Moved(c)
    <3> DEFINE cmd == Cmd(op, KeyOf[d], x, o)
    <3>1. WellFormed(cmd) /\ cmd.call = x /\ cmd.op = op /\ cmd.key = KeyOf[d]
      BY <2>4 DEF WellFormed, Cmd, Command, AllOps, AddOps
    <3>2. Enqueue(cmd) /\ call'[d] = at
      BY <2>4 DEF Goto, Typed, TypeOK
    <3> HIDE DEF cmd
    <3>3. CASE d # c
      <4>1. InPlay(c) /\ (Left(c)' <=> Left(c)) /\ call'[c] = call[c] /\ KeyOf[d] # KeyOf[c]
        BY <2>1, <2>2, <3>3 DEF InPlay, Alone, Left
      <4> QED
        BY <1>3, <2>4, <3>1, <3>2, <3>3, <4>1
    <3>4. CASE d = c
      <4>1. at \notin {"timedOut", "finalized"}
        BY <3>2, <3>4 DEF InPlay
      <4>2. InPlay(c)
        BY <2>1, <2>4, <3>4, <4>1 DEF InPlay, Alone
      <4>3. c # None
        OBVIOUS
      <4> QED
        BY <1>3, <2>4, <3>1, <3>2, <3>4, <4>1, <4>2, <4>3 DEF Left
    <3> QED
      BY <3>3, <3>4
  <2>5. CASE CallPrepare(d)
    BY <2>4, <2>5 DEF CallPrepare, Opts, CallStates
  <2>6. CASE UserGivesUp(d)
    BY <2>4, <2>6 DEF UserGivesUp, Opts, CallStates
  <2>7. CASE UserCancels(d)
    BY <2>4, <2>7 DEF UserCancels, Opts, CallStates
  <2>8. CASE CallCancels(d)
    BY <2>4, <2>8 DEF CallCancels, Opts, CallStates
  <2>9. ASSUME NEW o \in {"plain", "top"}, UserConfirms(d, o)
        PROVE  Moved(c)
    BY <2>4, <2>9 DEF UserConfirms, Opts, CallStates
  <2> QED
    BY <1>7, <2>3, <2>5, <2>6, <2>7, <2>8, <2>9 DEF CallStep
<1> QED
  BY <1>5, <1>6, <1>7 DEF ClientStep

\* The clients' steps.
LEMMA ClientCleans ==
    ASSUME Typed, ClientStep, NEW c \in Callers, Cleaned(c)
    PROVE  Cleaned(c)'
<1> DEFINE k == KeyOf[c]
<1> SUFFICES ASSUME Working', InPlay(c)' PROVE InOrder(c)' /\ Temporary(c)'
  BY DEF Cleaned
<1>1. Moved(c)
  BY ClientMoves
<1>2. /\ UNCHANGED <<News, handlesByTaskId, pendingMagnetMeta, promise, torrents, requests>>
      /\ Working
  BY ClientKeeps DEF Working
<1>3. InOrder(c) /\ Temporary(c)
  BY <1>1, <1>2 DEF Cleaned, Moved
<1>4. CancelQueued(k) => CancelQueued(k)'
  BY <1>1 DEF Moved, CancelQueued
<1>5. Untouched(c)' <=> Untouched(c)
  <2>1. CASE Untouched(c)'
    BY <1>1, <2>1 DEF Moved, Untouched, CancelQueued
  <2>2. CASE ~Untouched(c)'
    BY <1>1, <1>4, <2>2 DEF Moved, Untouched, CancelQueued
  <2> QED
    BY <2>1, <2>2
<1>6. Asked(c)' => Asked(c) \/ call[c] = "idle"
  BY <1>1 DEF Moved, Asked
<1>7. InOrder(c)'
  <2>1. ASSUME NEW i \in DOMAIN Queue', Queue'[i].key = k
        PROVE  Queue'[i].op # "Finalize"
    BY <1>1, <1>3, <2>1 DEF Moved, InOrder
  <2>2. ASSUME NEW i \in DOMAIN Queue', Queue'[i].key = k, Queue'[i].op = "Cancel"
        PROVE  /\ Left(c)'
               /\ \A j \in DOMAIN Queue' :
                    /\ Queue'[j].key = k /\ Queue'[j].op = "Cancel" => j = i
                    /\ Queue'[j].call = c => j < i
    <3>1. CASE i \in DOMAIN Queue
      <4>1. Left(c) /\ call[c] # "idle"
        BY <1>1, <1>3, <2>2, <3>1 DEF Moved, InOrder, Left
      <4> QED
        BY <1>1, <1>3, <2>2, <3>1, <4>1 DEF Moved, InOrder
    <3>2. CASE i \notin DOMAIN Queue
      <4>1. Left(c)' /\ ~Left(c)
        BY <1>1, <2>2, <3>2 DEF Moved
      <4>2. \A j \in DOMAIN Queue : ~(Queue[j].key = k /\ Queue[j].op = "Cancel")
        BY <1>3, <4>1 DEF InOrder
      <4> QED
        BY <1>1, <2>2, <3>2, <4>1, <4>2 DEF Moved
    <3> QED
      BY <3>1, <3>2
  <2>3. Left(c)' /\ Asked(c)' => CancelQueued(k)'
    <3>1. CASE Left(c)
      BY <1>1, <1>3, <1>4, <1>6, <3>1 DEF InOrder, Left
    <3>2. CASE ~Left(c)
      BY <1>1, <3>2 DEF Moved, CancelQueued
    <3> QED
      BY <3>1, <3>2
  <2>4. call'[c] \in {"metadata", "cancelled"} => promise'[c] # "unset"
    BY <1>1, <1>2, <1>3 DEF Moved, InOrder
  <2> QED
    BY <2>1, <2>2, <2>3, <2>4 DEF InOrder
<1>8. Temporary(c)'
  <2>1. /\ NotBefore(k)' <=> NotBefore(k)
        /\ NoTemp(k)' <=> NoTemp(k)
        /\ NoneWanted(k)' <=> NoneWanted(k)
        /\ Valid(k)' <=> Valid(k)
        /\ Going(k)' <=> Going(k)
    BY <1>2 DEF NotBefore, NoTemp, NoneWanted, Going, Valid
  <2>2. GoingIsValid(k)' <=> GoingIsValid(k)
    BY <1>2, <2>1 DEF GoingIsValid
  <2>3. Introduced(News, k, handlesByTaskId[k], torrents[k].gen)'
        <=> Introduced(News, k, handlesByTaskId[k], torrents[k].gen)
    BY <1>2
  <2>4. call'[c] = "idle" \/ Asked(c)' => NoTemp(k)'
    BY <1>1, <1>3, <1>6, <2>1 DEF Temporary, Moved
  <2> QED
    BY <1>2, <1>3, <1>5, <2>1, <2>2, <2>3, <2>4 DEF Temporary
<1> QED
  BY <1>7, <1>8

\* A step that leaves the queue and the calls alone, and takes no answer back.
LEMMA QueueStays ==
    ASSUME NEW c \in Callers, UNCHANGED <<Queue, call>>, promise[c] # "unset" => promise'[c] # "unset"
    PROVE  /\ InPlay(c)' <=> InPlay(c)
           /\ InOrder(c) => InOrder(c)'
           /\ Asked(c)' <=> Asked(c)
           /\ Untouched(c)' <=> Untouched(c)
<1>1. CancelQueued(KeyOf[c])' <=> CancelQueued(KeyOf[c])
  BY DEF CancelQueued
<1>2. Left(c)' <=> Left(c)
  BY DEF Left
<1>3. Asked(c)' <=> Asked(c)
  BY DEF Asked
<1>4. InPlay(c)' <=> InPlay(c)
  BY DEF InPlay, Alone
<1>5. InOrder(c) => InOrder(c)'
  BY <1>1, <1>2, <1>3 DEF InOrder
<1> QED
  BY <1>1, <1>2, <1>3, <1>4, <1>5 DEF Untouched

\* The requests that are left when the first one is executed.
LEMMA FewerRequests ==
    ASSUME Typed, requests # <<>>, requests' = Tail(requests), NEW k \in Keys
    PROVE  /\ NoneWanted(k) => NoneWanted(k)' /\ ~TempRequest(Head(requests), k)
           /\ NotBefore(k) /\ torrents'[k].gen = torrents[k].gen => NotBefore(k)'
           /\ NotBefore(k) /\ Head(requests) = RemoveRequest(torrents[k].gen, k) => NoneWanted(k)'
           /\ Going(k)' /\ torrents'[k].gen = torrents[k].gen => Going(k)
<1>1. /\ 1 \in DOMAIN requests /\ requests[1] = Head(requests)
      /\ \A i \in DOMAIN requests' : /\ i \in Nat \ {0} /\ i + 1 \in DOMAIN requests
                                     /\ requests'[i] = requests[i + 1]
  BY RequestsShift
<1>2. NoneWanted(k) => NoneWanted(k)' /\ ~TempRequest(Head(requests), k)
  BY <1>1 DEF NoneWanted, TempRequest
<1>3. ASSUME NotBefore(k), torrents'[k].gen = torrents[k].gen
      PROVE  NotBefore(k)'
  <2>1. ASSUME NEW i \in DOMAIN requests', NEW j \in DOMAIN requests', j < i,
               TempRequest(requests'[i], k)
        PROVE  requests'[j] # RemoveRequest(torrents[k].gen, k)
    <3>1. /\ i + 1 \in DOMAIN requests /\ j + 1 \in DOMAIN requests /\ j + 1 < i + 1
          /\ requests'[i] = requests[i + 1] /\ requests'[j] = requests[j + 1]
      BY <1>1, <2>1
    <3> QED
      BY <1>3, <2>1, <3>1 DEF NotBefore
  <2> QED
    BY <1>3, <2>1 DEF NotBefore, TempRequest, RemoveRequest
<1>4. ASSUME NotBefore(k), Head(requests) = RemoveRequest(torrents[k].gen, k)
      PROVE  NoneWanted(k)'
  <2>1. ASSUME NEW i \in DOMAIN requests', TempRequest(requests'[i], k)
        PROVE  FALSE
    <3>1. i + 1 \in DOMAIN requests /\ 1 < i + 1 /\ requests'[i] = requests[i + 1]
      BY <1>1
    <3> QED
      BY <1>1, <1>4, <2>1, <3>1 DEF NotBefore
  <2> QED
    BY <2>1 DEF NoneWanted, TempRequest
<1>5. Going(k)' /\ torrents'[k].gen = torrents[k].gen => Going(k)
  BY <1>1 DEF Going, RemoveRequest
<1> QED
  BY <1>2, <1>3, <1>4, <1>5

\* A removal of generation g is of one that there has been.
LEMMA KnownRemoval ==
    ASSUME NEW k \in Keys, RemovalsKnown(k), NEW g, NEW i \in DOMAIN requests,
           requests[i] = RemoveRequest(g, k)
    PROVE  g \in 1 .. lastGen
<1>1. requests[i].do = "remove" /\ requests[i].key = k
  BY DEF RemoveRequest
<1>2. PICK x \in 1 .. lastGen : requests[i] = RemoveRequest(x, k)
  BY <1>1 DEF RemovalsKnown
<1>3. g = x
  BY <1>2 DEF RemoveRequest, NoTorrent
<1> QED
  BY <1>3

\* News of the metadata of k's torrent: none come with an alert that is not about
\* them, and a new torrent has none.
LEMMA IntroducedMore ==
    ASSUME NEW n \in Seq(Alerts), NEW a \in Alerts, NEW k, NEW h, NEW g,
           Introduced(n, k, h, g),
           OfMetadata(a, k) /\ a.gen = g /\ ~IsHandle(h, g) =>
               \E i \in DOMAIN n : About(n[i], k) /\ n[i].type = "added" /\ n[i].gen = g
    PROVE  Introduced(Append(n, a), k, h, g)
<1> DEFINE m == Append(n, a)
<1>1. /\ Len(n) \in Nat /\ DOMAIN n = 1 .. Len(n) /\ DOMAIN m = 1 .. (Len(n) + 1)
      /\ \A i \in DOMAIN n : m[i] = n[i]
      /\ m[Len(n) + 1] = a
  BY AppendIs
<1> HIDE DEF m
<1>2. ASSUME NEW j \in DOMAIN m, OfMetadata(m[j], k), m[j].gen = g, ~IsHandle(h, g)
      PROVE  \E i \in DOMAIN m : i < j /\ About(m[i], k) /\ m[i].type = "added" /\ m[i].gen = g
  <2>1. CASE j \in DOMAIN n
    <3>1. PICK i \in DOMAIN n : i < j /\ About(n[i], k) /\ n[i].type = "added" /\ n[i].gen = g
      BY <1>1, <1>2, <2>1 DEF Introduced
    <3>2. i \in DOMAIN m /\ m[i] = n[i]
      BY <1>1
    <3> QED
      BY <3>1, <3>2
  <2>2. CASE j = Len(n) + 1
    <3>1. PICK i \in DOMAIN n : About(n[i], k) /\ n[i].type = "added" /\ n[i].gen = g
      BY <1>1, <1>2, <2>2
    <3>2. i \in DOMAIN m /\ m[i] = n[i] /\ i < j
      BY <1>1, <2>2
    <3> QED
      BY <3>1, <3>2
  <2> QED
    BY <1>1, <2>1, <2>2
<1> QED
  BY <1>2 DEF Introduced, m

\* What is said of the metadata of a torrent that nothing is known of.
LEMMA NotIntroduced ==
    ASSUME NEW n, NEW k, NEW h, NEW g, NEW last, Known(n, k, last), g \notin 1 .. last
    PROVE  Introduced(n, k, h, g)
  BY DEF Introduced, Known

\* The session executes a request.
LEMMA SessionCleans ==
    ASSUME Typed, SessionAdds \/ SessionRemoves, NEW c \in Callers, NewsOK(KeyOf[c]), Cleaned(c)
    PROVE  Cleaned(c)'
<1> DEFINE k == KeyOf[c]
           h == handlesByTaskId[k]
           g == torrents[k].gen
           g2 == torrents'[k].gen
<1> SUFFICES ASSUME Working', InPlay(c)' PROVE InOrder(c)' /\ Temporary(c)'
  BY DEF Cleaned
<1>1. /\ UNCHANGED <<Queue, call, popped, handlesByTaskId, pendingMagnetMeta, promise, phase, running>>
      /\ requests # <<>> /\ requests' = Tail(requests)
  BY DEF SessionAdds, SessionRemoves, workerVars, mapVars, clientVars, Queue
<1>2. /\ Working /\ InPlay(c) /\ InOrder(c)'
      /\ Asked(c)' <=> Asked(c)
      /\ Untouched(c)' <=> Untouched(c)
  BY <1>1, QueueStays DEF Cleaned, Working
<1>3. Temporary(c)
  BY <1>2 DEF Cleaned
<1>4. k \in Keys /\ g \in Nat /\ h \in Nat /\ lastGen \in Nat
  <2>1. k \in Keys
    BY ConstantsAssumption
  <2>2. torrents[k] \in Torrent
    BY <2>1 DEF Typed, TypeOK
  <2> QED
    BY <2>1, <2>2 DEF Typed, TypeOK, Torrent
<1>5. ExecutedFor(k)
  BY <1>4, SessionExecutes DEF NewsOK
<1>6. /\ Known(News, k, lastGen) /\ RemovalsKnown(k) /\ h <= lastGen /\ g <= lastGen
  BY DEF NewsOK
<1>7. /\ NoneWanted(k) => NoneWanted(k)' /\ ~TempRequest(Head(requests), k)
      /\ NotBefore(k) /\ g2 = g => NotBefore(k)'
      /\ NotBefore(k) /\ Head(requests) = RemoveRequest(g, k) => NoneWanted(k)'
      /\ Going(k)' /\ g2 = g => Going(k)
  BY <1>1, <1>4, FewerRequests
<1>8. 1 \in DOMAIN requests /\ requests[1] = Head(requests)
  BY <1>1, RequestsShift
<1>9. ASSUME NEW x \in Nat, x \notin 1 .. lastGen, g2 = x
      PROVE  NotBefore(k)' /\ ~Going(k)'
  <2>1. ASSUME NEW i \in DOMAIN requests', requests'[i] = RemoveRequest(x, k)
        PROVE  FALSE
    <3>1. i + 1 \in DOMAIN requests /\ requests'[i] = requests[i + 1]
      BY <1>1, RequestsShift
    <3> QED
      BY <1>4, <1>6, <1>9, <2>1, <3>1, KnownRemoval
  <2> QED
    BY <1>9, <2>1 DEF NotBefore, Going
<1>10. ASSUME NEW a \in Alerts, Post(a), ~OfMetadata(a, k), NEW x, Introduced(News, k, h, x)
       PROVE  Introduced(News', k, h, x)
  <2>1. News \in Seq(Alerts) /\ News' = Append(News, a)
    BY <1>1, <1>10, NewsPosted
  <2> QED
    BY <1>10, <2>1, IntroducedMore
<1>11. CASE /\ g2 = g /\ torrents'[k].temp = torrents[k].temp
            /\ Head(requests) # RemoveRequest(g, k)
            /\ \/ alerts' = alerts
               \/ \E a \in Alerts : Post(a) /\ ~OfMetadata(a, k)
  <2>1. Valid(k)' <=> Valid(k)
    BY <1>1, <1>11 DEF Valid
  <2>2. Introduced(News, k, h, g) => Introduced(News', k, h, g)
    <3>1. CASE alerts' = alerts
      BY <1>1, <3>1 DEF News
    <3> QED
      BY <1>10, <1>11, <3>1
  <2>3. Going(k) => Going(k)'
    BY <1>1, <1>4, <1>11, GoingStays
  <2>4. GoingIsValid(k) => GoingIsValid(k)'
    BY <1>7, <1>11, <2>1 DEF GoingIsValid
  <2>5. NoTemp(k) => NoTemp(k)'
    BY <1>7, <1>11 DEF NoTemp
  <2> QED
    BY <1>1, <1>2, <1>3, <1>7, <1>11, <2>1, <2>2, <2>3, <2>4, <2>5 DEF Temporary
<1>12. CASE /\ Head(requests) = RemoveRequest(g, k) /\ torrents'[k] = NoTorrent
            /\ \E a \in Alerts : Post(a) /\ ~OfMetadata(a, k)
  <2>1. g \in 1 .. lastGen /\ Going(k)
    BY <1>4, <1>6, <1>8, <1>12, KnownRemoval DEF Going
  <2>2. g2 = 0 /\ ~torrents'[k].temp
    BY <1>12 DEF NoTorrent
  <2>3. NoneWanted(k)' /\ NoTemp(k)'
    BY <1>3, <1>7, <1>12, <2>2 DEF Temporary, NoTemp
  <2>4. NotBefore(k)' /\ ~Going(k)'
    BY <1>4, <1>9, <2>2
  <2>5. Introduced(News', k, h, 0)
    BY <1>4, <1>6, <1>10, <1>12, NotIntroduced
  <2>6. GoingIsValid(k)'
    BY <2>4 DEF GoingIsValid
  <2> QED
    BY <1>1, <1>2, <1>3, <2>2, <2>3, <2>4, <2>5, <2>6 DEF Temporary
<1>13. CASE /\ Head(requests).do = "add" /\ Head(requests).key = k /\ g = 0 /\ g2 = lastGen + 1
            /\ torrents'[k].temp = Head(requests).torrent.temp
            /\ \E a \in Alerts : Post(a) /\ ~OfMetadata(a, k)
  <2>1. NotBefore(k)' /\ ~Going(k)' /\ g2 # 0
    BY <1>4, <1>9, <1>13
  <2>2. NoneWanted(k) => NoTemp(k)' /\ ~torrents'[k].temp
    BY <1>7, <1>13 DEF NoTemp, TempRequest
  <2>3. Introduced(News', k, h, lastGen + 1)
    BY <1>4, <1>6, <1>10, <1>13, NotIntroduced
  <2>4. GoingIsValid(k)'
    BY <2>1 DEF GoingIsValid
  <2>5. ~Valid(k)
    BY <1>4, <1>13 DEF Valid
  <2> QED
    BY <1>1, <1>2, <1>3, <1>13, <2>1, <2>2, <2>3, <2>4, <2>5 DEF Temporary, NoTemp
<1>14. \A a \in Alerts : a.type \in {"added", "removed"} => ~OfMetadata(a, k)
  BY DEF OfMetadata
<1> QED
  BY <1>5, <1>11, <1>12, <1>13, <1>14 DEF ExecutedFor

\* A peer sends metadata: those of a torrent that the worker does not know yet
\* come after its add alert.
LEMMA PeersClean ==
    ASSUME Typed, NEW j \in Keys, MetadataArrives(j) \/ MetadataFails(j),
           NEW c \in Callers, NewsOK(KeyOf[c]), Tracked(KeyOf[c]), Cleaned(c)
    PROVE  Cleaned(c)'
<1> DEFINE k == KeyOf[c]
           h == handlesByTaskId[k]
           g == torrents[k].gen
<1> SUFFICES ASSUME Working', InPlay(c)' PROVE InOrder(c)' /\ Temporary(c)'
  BY DEF Cleaned
<1>1. /\ UNCHANGED <<Queue, call, pendingMagnetMeta, promise, phase, running>>
      /\ k \in Keys
  BY ConstantsAssumption
     DEF MetadataArrives, MetadataFails, workerVars, mapVars, clientVars, Queue
<1>2. /\ Working /\ InPlay(c) /\ InOrder(c)'
      /\ Asked(c)' <=> Asked(c)
      /\ Untouched(c)' <=> Untouched(c)
  BY <1>1, QueueStays DEF Cleaned, Working
<1>3. Temporary(c)
  BY <1>2 DEF Cleaned
<1>4. PICK a \in Alerts : /\ Post(a) /\ a.key = j /\ a.gen = torrents[j].gen /\ a.gen # 0
                          /\ a.type \in {"metadata", "metadataFailed"}
  BY PeersPost
<1>5. /\ UNCHANGED <<popped, handlesByTaskId, requests>>
      /\ torrents'[k].gen = g /\ torrents'[k].temp = torrents[k].temp
  BY <1>1, PeersPost
<1>6. News \in Seq(Alerts) /\ News' = Append(News, a)
  BY <1>4, <1>5, NewsPosted
<1>7. ASSUME Untouched(c)
      PROVE  Introduced(News', k, h, g)
  <2>1. ASSUME OfMetadata(a, k), a.gen = g, ~IsHandle(h, g)
        PROVE  \E i \in DOMAIN News : About(News[i], k) /\ News[i].type = "added" /\ News[i].gen = g
    <3>1. g # 0 /\ ~Valid(k)
      BY <1>4, <2>1 DEF IsHandle, Valid
    <3>2. ToBe(News, h, k, g)
      BY <1>3, <1>7, <3>1 DEF Temporary, GoingIsValid, Tracked, News
    <3>3. PICK i \in Mine(News, k) : g = Outcome(News[i])
      BY <2>1, <3>1, <3>2 DEF ToBe, IsHandle
    <3>4. i \in DOMAIN News /\ About(News[i], k) /\ News[i].type = "added" /\ News[i].gen = g
      BY <3>1, <3>3 DEF Mine, About, Outcome
    <3> QED
      BY <3>4
  <2>2. Introduced(News, k, h, g)
    BY <1>3, <1>7 DEF Temporary
  <2> QED
    BY <1>6, <2>1, <2>2, IntroducedMore
<1>8. /\ NotBefore(k)' <=> NotBefore(k)
      /\ NoneWanted(k)' <=> NoneWanted(k)
      /\ Valid(k)' <=> Valid(k)
      /\ Going(k)' <=> Going(k)
  BY <1>5 DEF NotBefore, NoneWanted, Going, Valid
<1>9. /\ GoingIsValid(k)' <=> GoingIsValid(k)
      /\ NoTemp(k)' <=> NoTemp(k)
  BY <1>5, <1>8 DEF GoingIsValid, NoTemp
<1> QED
  BY <1>1, <1>2, <1>3, <1>5, <1>7, <1>8, <1>9 DEF Temporary

\* The worker answers calls: c only when it is filed and, unless its Cancel was
\* handled, has a valid handle.
LEMMA AnswersClean ==
    ASSUME NEW c \in Callers, UNCHANGED <<Queue, call, requests>>, Working' => Working,
           LET k == KeyOf[c] IN
             /\ torrents'[k].gen = torrents[k].gen /\ torrents'[k].temp = torrents[k].temp
             /\ Valid(k) => Valid(k)'
             /\ Introduced(News, k, handlesByTaskId[k], torrents[k].gen)
                => Introduced(News, k, handlesByTaskId[k], torrents[k].gen)',
           promise'[c] # promise[c] =>
             /\ promise[c] = "unset" /\ \E j \in Keys : pendingMagnetMeta[j] = c
             /\ Temporary(c) /\ Untouched(c) => Valid(KeyOf[c]),
           \A j \in Keys : pendingMagnetMeta'[j] = pendingMagnetMeta[j] \/ pendingMagnetMeta'[j] # c,
           Cleaned(c)
    PROVE  Cleaned(c)'
<1> DEFINE k == KeyOf[c]
<1> SUFFICES ASSUME Working', InPlay(c)' PROVE InOrder(c)' /\ Temporary(c)'
  BY DEF Cleaned
<1>1. /\ Working /\ InPlay(c) /\ InOrder(c)'
      /\ Asked(c)' <=> Asked(c)
      /\ Untouched(c)' <=> Untouched(c)
  BY QueueStays DEF Cleaned
<1>2. Temporary(c)
  BY <1>1 DEF Cleaned
<1>3. /\ NotBefore(k)' <=> NotBefore(k)
      /\ NoneWanted(k)' <=> NoneWanted(k)
      /\ Going(k)' <=> Going(k)
      /\ NoTemp(k)' <=> NoTemp(k)
  BY DEF NotBefore, NoneWanted, Going, NoTemp
<1>4. GoingIsValid(k) => GoingIsValid(k)'
  BY <1>3 DEF GoingIsValid
<1>5. Untouched(c) /\ promise'[c] # "unset" /\ ~Valid(k)' => NoTemp(k)
  BY <1>2 DEF Temporary
<1>6. ~Untouched(c) /\ promise'[c] # "unset" => promise[c] # "unset"
  BY <1>2 DEF Temporary
<1>7. promise'[c] = "unset" => promise[c] = "unset"
  OBVIOUS
<1> QED
  BY <1>1, <1>2, <1>3, <1>4, <1>5, <1>6, <1>7 DEF Temporary

\* Whom Fulfil answers, and what it leaves filed.
LEMMA FulfilAnswers ==
    ASSUME NEW S \in SUBSET Keys, Fulfil(S)
    PROVE  /\ \A c \in Callers : promise'[c] = promise[c] \/ \E k \in S : pendingMagnetMeta[k] = c
           /\ \A k \in Keys : pendingMagnetMeta'[k] \in {pendingMagnetMeta[k], None}
<1>1. PICK bad \in Refusals(S) :
           promise' = [c \in Callers |->
               IF \E k \in S : pendingMagnetMeta[k] = c
               THEN IF KeyOf[c] \in bad THEN "nullopt" ELSE "value"
               ELSE promise[c]]
  BY DEF Fulfil
<1>2. \A k \in Keys : pendingMagnetMeta'[k] = IF k \in S THEN None ELSE pendingMagnetMeta[k]
  BY DEF Fulfil
<1> QED
  BY <1>1, <1>2

\* Whom the handler of an alert answers: the one who waits for the metadata of the
\* torrent that is there.
LEMMA AlertAnswers ==
    ASSUME Typed, HandleAlert, ~Throw
    PROVE  LET a == Head(popped) IN
           /\ UNCHANGED <<Queue, call, requests, phase, running>>
           /\ \A c \in Callers : promise'[c] = promise[c] \/
                /\ pendingMagnetMeta[a.key] = c
                /\ a.key \in Keys /\ OfMetadata(a, a.key) /\ a.gen = torrents[a.key].gen
           /\ \A k \in Keys : pendingMagnetMeta'[k] \in {pendingMagnetMeta[k], None}
<1> DEFINE a == Head(popped)
<1>1. UNCHANGED <<Queue, call, requests, phase, running>> /\ popped # <<>>
  BY DEF HandleAlert, HandleAdded, HandleAddFailed, HandleRemoved, HandleMetadata,
         HandleMetadataFailed, HandlingAlert, NextAlert, clientVars, Queue
<1>2. a.key \in Keys
  BY <1>1, HeadAlert DEF Typed, Alerts
<1> HIDE DEF a
<1>3. CASE UNCHANGED <<pendingMagnetMeta, promise>>
  BY <1>1, <1>3 DEF a
<1>4. CASE HandleMetadata /\ ~UNCHANGED <<pendingMagnetMeta, promise>>
  <2>1. /\ Fulfil({a.key} \cap Awaited) /\ a.gen = torrents[a.key].gen /\ a.type = "metadata"
    BY <1>4 DEF HandleMetadata, HandlingAlert, mapVars, a
  <2>2. {a.key} \cap Awaited \in SUBSET Keys
    BY <1>2
  <2>3. OfMetadata(a, a.key)
    BY <2>1 DEF OfMetadata
  <2> DEFINE S == {a.key} \cap Awaited
  <2>4. /\ \A c \in Callers : promise'[c] = promise[c] \/ \E k \in S : pendingMagnetMeta[k] = c
        /\ \A k \in Keys : pendingMagnetMeta'[k] \in {pendingMagnetMeta[k], None}
    BY <2>1, <2>2, FulfilAnswers
  <2>5. \A k \in S : k = a.key
    OBVIOUS
  <2> HIDE DEF S
  <2> QED
    BY <1>1, <1>2, <2>1, <2>3, <2>4, <2>5 DEF a
<1>5. CASE HandleMetadataFailed /\ ~UNCHANGED <<pendingMagnetMeta, promise>>
  <2>1. /\ promise' = [c \in Callers |->
               IF pendingMagnetMeta[a.key] = c THEN "nullopt" ELSE promise[c]]
        /\ pendingMagnetMeta' = [pendingMagnetMeta EXCEPT ![a.key] = None]
        /\ a.gen = torrents[a.key].gen /\ a.type = "metadataFailed"
    BY <1>5 DEF HandleMetadataFailed, HandlingAlert, mapVars, a
  <2>2. OfMetadata(a, a.key)
    BY <2>1 DEF OfMetadata
  <2>3. \A k \in Keys : pendingMagnetMeta'[k] \in {pendingMagnetMeta[k], None}
    BY <1>2, <2>1 DEF Typed, TypeOK
  <2>4. \A c \in Callers : promise'[c] = promise[c] \/ pendingMagnetMeta[a.key] = c
    BY <2>1
  <2> QED
    BY <1>1, <1>2, <2>1, <2>2, <2>3, <2>4 DEF a
<1> QED
  BY <1>3, <1>4, <1>5 DEF HandleAlert, HandleAdded, HandleAddFailed, HandleRemoved, mapVars

\* The handlers of alerts.
LEMMA AlertCleans ==
    ASSUME Typed, CallsOK, HandleAlert, ~Throw, NEW c \in Callers, NewsOK(KeyOf[c]), Cleaned(c)
    PROVE  Cleaned(c)'
<1> DEFINE k == KeyOf[c]
           a == Head(popped)
<1>1. k \in Keys /\ c # None
  BY ConstantsAssumption
<1>2. /\ UNCHANGED <<Queue, call, requests, phase, running>>
      /\ promise'[c] = promise[c] \/
           /\ pendingMagnetMeta[a.key] = c
           /\ a.key \in Keys /\ OfMetadata(a, a.key) /\ a.gen = torrents[a.key].gen
      /\ \A j \in Keys : pendingMagnetMeta'[j] \in {pendingMagnetMeta[j], None}
  BY AlertAnswers
<1>3. /\ torrents'[k].gen = torrents[k].gen /\ torrents'[k].temp = torrents[k].temp
      /\ popped # <<>> /\ NextAlert
  BY <1>1, AlertKeeps
<1>4. /\ Valid(k) => Valid(k)'
      /\ Introduced(News, k, handlesByTaskId[k], torrents[k].gen)
         => Introduced(News, k, handlesByTaskId[k], torrents[k].gen)'
  BY <1>1, AlertNews
<1>5. ASSUME promise'[c] # promise[c]
      PROVE  /\ promise[c] = "unset" /\ \E j \in Keys : pendingMagnetMeta[j] = c
             /\ Temporary(c) /\ Untouched(c) => Valid(k)
  <2>1. /\ pendingMagnetMeta[a.key] = c
        /\ a.key \in Keys /\ OfMetadata(a, a.key) /\ a.gen = torrents[a.key].gen
    BY <1>2, <1>5
  <2> HIDE DEF a
  <2>2. promise[c] = "unset" /\ a.key = k
    BY <1>1, <2>1 DEF CallsOK, Filed
  <2>3. ASSUME Temporary(c), Untouched(c)
        PROVE  Valid(k)
    <3>1. News \in Seq(Alerts) /\ News # <<>> /\ Head(News) = a
      BY <1>3, NewsHandled DEF a
    <3>2. 1 \in DOMAIN News /\ News[1] = a /\ \A i \in DOMAIN News : ~(i < 1)
      <4>1. Len(News) \in Nat /\ DOMAIN News = 1 .. Len(News) /\ 1 \in DOMAIN News /\ News[1] = Head(News)
        BY <3>1, TailIs
      <4> QED
        BY <3>1, <4>1
    <3>3. IsHandle(handlesByTaskId[k], torrents[k].gen)
      BY <2>1, <2>2, <2>3, <3>2 DEF Temporary, Introduced
    <3> QED
      BY <3>3 DEF IsHandle, Valid
  <2> QED
    BY <2>1, <2>2, <2>3
<1>6. Working' => Working
  BY <1>2 DEF Working
<1>7. \A j \in Keys : pendingMagnetMeta'[j] = pendingMagnetMeta[j] \/ pendingMagnetMeta'[j] # c
  BY <1>1, <1>2
<1> QED
  BY <1>2, <1>3, <1>4, <1>5, <1>6, <1>7, AnswersClean

\* The poll, and the rest of the worker's loop.
LEMMA LoopCleans ==
    ASSUME Typed, CallsOK, Swap \/ PopAlerts \/ Poll, NEW c \in Callers, Cleaned(c)
    PROVE  Cleaned(c)'
<1> DEFINE k == KeyOf[c]
<1>1. k \in Keys /\ c # None
  BY ConstantsAssumption
<1>2. /\ UNCHANGED <<News, handlesByTaskId, requests>>
      /\ torrents'[k].gen = torrents[k].gen /\ torrents'[k].temp = torrents[k].temp
  BY <1>1, LoopNews
<1>3. /\ Valid(k) => Valid(k)'
      /\ Introduced(News, k, handlesByTaskId[k], torrents[k].gen)
         => Introduced(News, k, handlesByTaskId[k], torrents[k].gen)'
  BY <1>2 DEF Valid
<1>4. UNCHANGED <<Queue, call>> /\ (Working' => Working)
  <2>1. CASE Swap
    <3>1. local' = cmds /\ cmds' = <<>> /\ local = <<>> /\ cmds \in Seq(GoodCommands)
      BY <2>1 DEF Swap, Typed, QueueTyped, Phases
    <3>2. Queue' = Queue
      BY <3>1, ConcatEmptySeq DEF Queue
    <3> QED
      BY <2>1, <3>2 DEF Swap, clientVars, Working
  <2>2. CASE PopAlerts \/ Poll
    BY <2>2 DEF PopAlerts, Poll, Queue, clientVars, Working
  <2> QED
    BY <2>1, <2>2
<1>5. CASE UNCHANGED <<pendingMagnetMeta, promise>>
  BY <1>2, <1>3, <1>4, <1>5, AnswersClean
<1>6. CASE Poll
  <2> DEFINE S == {j \in {x \in Awaited : Valid(x)} : torrents[j].meta}
  <2>1. S \in SUBSET Keys /\ Fulfil(S) /\ \A j \in S : Valid(j)
    BY <1>6 DEF Awaited, Poll
  <2> HIDE DEF S
  <2>2. /\ promise'[c] = promise[c] \/ \E j \in S : pendingMagnetMeta[j] = c
        /\ \A j \in Keys : pendingMagnetMeta'[j] \in {pendingMagnetMeta[j], None}
    BY <2>1, FulfilAnswers
  <2>3. ASSUME promise'[c] # promise[c]
        PROVE  /\ promise[c] = "unset" /\ \E j \in Keys : pendingMagnetMeta[j] = c
               /\ Temporary(c) /\ Untouched(c) => Valid(k)
    <3>1. PICK j \in S : pendingMagnetMeta[j] = c
      BY <2>2, <2>3
    <3>2. promise[c] = "unset" /\ j = k
      BY <1>1, <2>1, <3>1 DEF CallsOK, Filed
    <3> QED
      BY <2>1, <3>1, <3>2
  <2>4. \A j \in Keys : pendingMagnetMeta'[j] = pendingMagnetMeta[j] \/ pendingMagnetMeta'[j] # c
    BY <1>1, <2>2
  <2> QED
    BY <1>2, <1>3, <1>4, <2>3, <2>4, AnswersClean
<1> QED
  BY <1>5, <1>6 DEF Swap, PopAlerts, mapVars

\* The handlers of commands.
LEMMA CmdCleans ==
    ASSUME Typed, CallsOK, HandleCmd, NEW c \in Callers, NewsOK(KeyOf[c]), Cleaned(c)
    PROVE  Cleaned(c)'
<1> DEFINE k == KeyOf[c]
           cmd == Head(local)
           h == handlesByTaskId[k]
           g == torrents[k].gen
<1> SUFFICES ASSUME Working', InPlay(c)' PROVE InOrder(c)' /\ Temporary(c)'
  BY DEF Cleaned
<1>1. ~Throw /\ ~HandleShutdown
  BY DEF Throw, HandleShutdown, Working
<1>2. /\ local # <<>> /\ NextCmd /\ WellFormed(cmd)
      /\ UNCHANGED <<News, call, phase, running>>
  BY <1>1, CmdKeeps DEF NextCmd, clientVars, News
<1>3. /\ k \in Keys /\ c # None /\ g \in Nat /\ h \in Nat
      /\ torrents'[k].gen = g /\ torrents'[k].temp = torrents[k].temp
      /\ handlesByTaskId'[k] = h \/ (cmd.key = k /\ cmd.op \in {"Cancel", "Finalize"})
  <2>1. k \in Keys /\ c # None
    BY ConstantsAssumption
  <2>2. torrents[k] \in Torrent
    BY <2>1 DEF Typed, TypeOK
  <2> QED
    BY <1>1, <2>1, <2>2, CmdKeeps DEF Typed, TypeOK, Torrent
<1>4. /\ DOMAIN Queue' = 1 .. (Len(Queue) - 1) /\ Len(Queue) > 0
      /\ \A i \in DOMAIN Queue' : i + 1 \in DOMAIN Queue /\ Queue'[i] = Queue[i + 1]
      /\ 1 \in DOMAIN Queue /\ Queue[1] = cmd
      /\ DOMAIN Queue = 1 .. Len(Queue) /\ Len(Queue) \in Nat
  BY <1>2, QueueHandled, QueueGood DEF NextCmd
<1>5. Working /\ InPlay(c) /\ InOrder(c) /\ Temporary(c) /\ (Left(c)' <=> Left(c))
  BY <1>2 DEF Cleaned, Working, InPlay, Alone, Left
<1>6. /\ \A i \in DOMAIN requests : i \in DOMAIN requests' /\ requests'[i] = requests[i]
      /\ \A i \in DOMAIN requests' \ DOMAIN requests :
           AskedBy(cmd, requests'[i]) /\ \A j \in DOMAIN requests : j < i
      /\ DOMAIN requests \subseteq Nat /\ DOMAIN requests' \subseteq Nat
  BY <1>1, CmdRequests
<1> HIDE DEF cmd
<1>7. \A i \in DOMAIN Queue : i # 1 => i - 1 \in DOMAIN Queue' /\ Queue'[i - 1] = Queue[i]
  BY <1>4
<1>8. /\ Asked(c)' => Asked(c)
      /\ Asked(c) /\ cmd.call # c => Asked(c)'
      /\ CancelQueued(k)' => CancelQueued(k)
      /\ CancelQueued(k) /\ ~(cmd.op = "Cancel" /\ cmd.key = k) => CancelQueued(k)'
  BY <1>4, <1>7 DEF Asked, CancelQueued
<1>9. ASSUME cmd.call = c
      PROVE  /\ promise[c] = "unset" /\ call[c] # "idle" /\ ~Asked(c)'
             /\ \A j \in Keys : pendingMagnetMeta[j] # c
             /\ cmd.op = "Prepare" /\ cmd.key = k
  <2>1. Fresh(c) /\ \A j \in DOMAIN Queue : Queue[j].call = c => j = 1
    BY <1>3, <1>4, <1>9 DEF CallsOK, PrepareQueued
  <2>2. ~Asked(c)'
    BY <1>4, <2>1 DEF Asked
  <2> QED
    BY <1>2, <1>3, <1>9, <2>1, <2>2 DEF Fresh, WellFormed
<1>10. /\ promise'[c] # promise[c] => cmd.call = c
       /\ \A j \in Keys : pendingMagnetMeta'[j] = c => pendingMagnetMeta[j] = c \/ cmd.call = c
  <2>1. CASE HandlePrepare
    <3>1. cmd.call \in Callers /\ cmd.key \in Keys
      BY <1>2, <2>1, ConstantsAssumption DEF WellFormed, HandlePrepare, Handling, cmd
    <3>2. \/ promise' = [promise EXCEPT ![cmd.call] = "nullopt"] /\ UNCHANGED pendingMagnetMeta
          \/ UNCHANGED promise
             /\ pendingMagnetMeta' = [pendingMagnetMeta EXCEPT ![cmd.key] = cmd.call]
      BY <2>1 DEF HandlePrepare, cmd
    <3> QED
      BY <3>1, <3>2 DEF Typed, TypeOK
  <2>2. CASE HandleCancel
    <3>1. /\ UNCHANGED promise
          /\ pendingMagnetMeta' = [pendingMagnetMeta EXCEPT ![cmd.key] = None]
      BY <1>1, <2>2 DEF HandleCancel, cmd
    <3> QED
      BY <1>3, <3>1 DEF Typed, TypeOK
  <2>3. CASE ~HandlePrepare /\ ~HandleCancel
    BY <1>1, <2>3 DEF HandleCmd, HandleAddMagnet, HandleAddTorrentFile, HandleAddFromResumeData,
           HandleFinalize, HandlePause, HandleResume, HandleRemove, mapVars
  <2> QED
    BY <2>1, <2>2, <2>3
<1>11. promise[c] # "unset" => promise'[c] = promise[c]
  BY <1>9, <1>10
<1>12. InOrder(c)'
  <2>1. ASSUME NEW i \in DOMAIN Queue', Queue'[i].key = k
        PROVE  Queue'[i].op # "Finalize"
    BY <1>4, <1>5, <2>1 DEF InOrder
  <2>2. ASSUME NEW i \in DOMAIN Queue', Queue'[i].key = k, Queue'[i].op = "Cancel"
        PROVE  /\ Left(c)'
               /\ \A j \in DOMAIN Queue' :
                    /\ Queue'[j].key = k /\ Queue'[j].op = "Cancel" => j = i
                    /\ Queue'[j].call = c => j < i
    <3>1. i + 1 \in DOMAIN Queue /\ Queue[i + 1].key = k /\ Queue[i + 1].op = "Cancel"
      BY <1>4, <2>2
    <3>2. /\ Left(c)
          /\ \A j \in DOMAIN Queue :
               /\ Queue[j].key = k /\ Queue[j].op = "Cancel" => j = i + 1
               /\ Queue[j].call = c => j < i + 1
      BY <1>5, <3>1 DEF InOrder
    <3>3. ASSUME NEW j \in DOMAIN Queue'
          PROVE  /\ Queue'[j].key = k /\ Queue'[j].op = "Cancel" => j = i
                 /\ Queue'[j].call = c => j < i
      <4>1. j + 1 \in DOMAIN Queue /\ Queue'[j] = Queue[j + 1] /\ j \in Nat /\ i \in Nat
        BY <1>4
      <4> QED
        BY <3>2, <4>1
    <3> QED
      BY <1>5, <3>2, <3>3
  <2>3. ASSUME Left(c)', Asked(c)'
        PROVE  CancelQueued(k)'
    <3>1. PICK j \in DOMAIN Queue' : Queue'[j].call = c
      BY <2>3 DEF Asked
    <3>2. j + 1 \in DOMAIN Queue /\ Queue[j + 1].call = c /\ j + 1 > 1
      BY <1>4, <3>1
    <3>3. CancelQueued(k)
      BY <1>5, <1>8, <2>3 DEF InOrder
    <3>4. ~(cmd.op = "Cancel" /\ cmd.key = k)
      BY <1>4, <1>5, <3>2 DEF InOrder
    <3> QED
      BY <1>8, <3>3, <3>4
  <2>4. call'[c] \in {"metadata", "cancelled"} => promise'[c] # "unset"
    BY <1>2, <1>5, <1>11 DEF InOrder
  <2> QED
    BY <2>1, <2>2, <2>3, <2>4 DEF InOrder
<1>13. cmd.key = k /\ cmd.op = "Prepare" => cmd.call = c
  <2>1. ASSUME cmd.key = k, cmd.op = "Prepare"
        PROVE  cmd.call = c
    <3>1. cmd.call \in Callers /\ KeyOf[cmd.call] = k /\ cmd.call # None
      BY <1>2, <2>1, ConstantsAssumption DEF WellFormed
    <3>2. call[cmd.call] # "idle"
      BY <1>4, <3>1 DEF CallsOK, PrepareQueued, Fresh
    <3> QED
      BY <1>5, <3>1, <3>2 DEF InPlay, Alone
  <2> QED
    BY <2>1
<1>14. ~(cmd.key = k /\ cmd.op = "Finalize")
  BY <1>4, <1>5 DEF InOrder
<1>15. Going(k) => Going(k)'
  BY <1>3, <1>6 DEF Going
<1>16. ASSUME NEW i \in DOMAIN requests', requests'[i] = RemoveRequest(g, k), i \notin DOMAIN requests
       PROVE  Valid(k) /\ cmd.key = k /\ cmd.op \in {"Cancel", "Remove"}
  <2>1. AskedBy(cmd, requests'[i])
    BY <1>6, <1>16
  <2>2. /\ cmd.op \in {"Cancel", "Finalize", "Remove"} /\ Valid(cmd.key)
        /\ requests'[i] = RemoveRequest(handlesByTaskId[cmd.key], cmd.key)
    BY <1>16, <2>1 DEF AskedBy, RemoveRequest
  <2>3. cmd.key = k
    BY <1>16, <2>2 DEF RemoveRequest
  <2> QED
    BY <1>14, <2>2, <2>3
<1>17. ASSUME NEW i \in DOMAIN requests', TempRequest(requests'[i], k), i \notin DOMAIN requests
       PROVE  cmd.call = c /\ ~Valid(k)
  <2>1. AskedBy(cmd, requests'[i])
    BY <1>6, <1>17
  <2>2. cmd.key = k /\ cmd.op = "Prepare" /\ ~Valid(k)
    BY <1>17, <2>1 DEF AskedBy, TempRequest, RemoveRequest
  <2> QED
    BY <1>13, <2>2
<1>18. NotBefore(k)'
  <2> SUFFICES ASSUME NEW i \in DOMAIN requests', NEW j \in DOMAIN requests', j < i,
                      TempRequest(requests'[i], k), requests'[j] = RemoveRequest(g, k)
               PROVE  FALSE
    BY <1>3 DEF NotBefore, TempRequest, RemoveRequest
  <2>1. CASE i \in DOMAIN requests
    <3>1. j \in DOMAIN requests
      BY <1>6, <2>1
    <3> QED
      BY <1>5, <1>6, <2>1, <3>1 DEF Temporary, NotBefore
  <2>2. CASE i \notin DOMAIN requests
    <3>1. cmd.call = c /\ ~Valid(k) /\ cmd.op = "Prepare"
      BY <1>9, <1>17, <2>2
    <3>2. j \in DOMAIN requests /\ requests[j] = RemoveRequest(g, k)
      BY <1>6, <1>16, <3>1
    <3>3. Going(k) /\ g # 0
      BY <1>3, <3>2, KnownRemoval DEF Going, NewsOK
    <3>4. Untouched(c)
      BY <1>4, <1>5, <3>1 DEF Untouched, InOrder, Asked
    <3> QED
      BY <1>5, <3>1, <3>3, <3>4 DEF Temporary, GoingIsValid
  <2> QED
    BY <2>1, <2>2
<1>19. cmd.call # c => (NoneWanted(k) => NoneWanted(k)')
  BY <1>6, <1>17 DEF NoneWanted, TempRequest
<1>20. CASE cmd.op = "Cancel" /\ cmd.key = k
  <2>1. Left(c) /\ ~Untouched(c)' /\ ~Asked(c)' /\ cmd.call # c /\ Untouched(c)
    <3>1. /\ Left(c)
          /\ \A j \in DOMAIN Queue : /\ Queue[j].key = k /\ Queue[j].op = "Cancel" => j = 1
                                     /\ Queue[j].call = c => j < 1
      BY <1>4, <1>5, <1>20 DEF InOrder
    <3>2. ~CancelQueued(k)'
      BY <1>4, <3>1 DEF CancelQueued
    <3>3. ~Asked(c)
      BY <1>4, <3>1 DEF Asked
    <3>4. CancelQueued(k)
      BY <1>4, <1>20 DEF CancelQueued
    <3> QED
      BY <1>4, <1>5, <1>8, <3>1, <3>2, <3>3, <3>4 DEF Untouched, Asked
  <2>2. call'[c] # "idle"
    BY <1>2, <2>1 DEF Left
  <2>3. HandleCancel
    BY <1>1, <1>20 DEF HandleCmd, HandleAddMagnet, HandleAddTorrentFile,
           HandleAddFromResumeData, HandlePrepare, HandleFinalize, HandlePause, HandleResume,
           HandleRemove, Handling, cmd
  <2>4. \A j \in Keys : pendingMagnetMeta'[j] # c
    <3>1. pendingMagnetMeta' = [pendingMagnetMeta EXCEPT ![k] = None]
      BY <1>1, <1>20, <2>3 DEF HandleCancel, cmd
    <3>2. \A j \in Keys : pendingMagnetMeta[j] = c => j = k
      BY <1>3 DEF CallsOK, Filed
    <3> QED
      BY <1>3, <3>1, <3>2 DEF Typed, TypeOK
  <2>5. promise'[c] = promise[c]
    BY <1>10, <2>1
  <2>6. CASE Valid(k)
    <3>1. h # 0 /\ g = h
      BY <2>6 DEF Valid
    <3>2. Ask(RemoveRequest(h, k))
      BY <1>1, <1>20, <2>3, <2>6, <3>1 DEF HandleCancel, cmd
    <3>3. Going(k)'
      <4>1. requests \in Seq(Requests) /\ RemoveRequest(h, k) \in Requests
        BY <1>3, RequestTyped DEF Typed, TypeOK, Requests
      <4>2. \E i \in DOMAIN requests' : requests'[i] = RemoveRequest(h, k)
        <5>1. /\ DOMAIN Append(requests, RemoveRequest(h, k)) = 1 .. (Len(requests) + 1)
              /\ Append(requests, RemoveRequest(h, k))[Len(requests) + 1] = RemoveRequest(h, k)
              /\ Len(requests) \in Nat
          BY <4>1, AppendIs
        <5>2. Len(requests) + 1 \in 1 .. (Len(requests) + 1)
          BY <5>1
        <5> QED
          BY <3>2, <5>1, <5>2 DEF Ask
      <4> QED
        BY <1>3, <3>1, <4>2 DEF Going
    <3> QED
      BY <1>2, <1>3, <1>12, <1>18, <2>1, <2>2, <2>4, <3>1, <3>3 DEF Temporary
  <2>7. CASE ~Valid(k)
    <3>1. promise[c] # "unset" => NoTemp(k) /\ NoneWanted(k)'
      BY <1>5, <1>19, <2>1, <2>7 DEF Temporary, NoTemp
    <3> QED
      BY <1>2, <1>3, <1>12, <1>18, <2>1, <2>2, <2>4, <2>5, <3>1 DEF Temporary, NoTemp
  <2> QED
    BY <2>6, <2>7
<1>21. CASE ~(cmd.op = "Cancel" /\ cmd.key = k)
  <2>1. Untouched(c)' <=> Untouched(c)
    BY <1>5, <1>8, <1>21 DEF Untouched
  <2>2. handlesByTaskId'[k] = h /\ (Valid(k)' <=> Valid(k))
    BY <1>3, <1>14, <1>21 DEF Valid
  <2>3. GoingIsValid(k) => GoingIsValid(k)'
    <3>1. Going(k)' => Going(k) \/ Valid(k)
      BY <1>3, <1>6, <1>16 DEF Going, RemoveRequest
    <3> QED
      BY <1>3, <2>2, <3>1 DEF GoingIsValid
  <2>4. Introduced(News, k, h, g) => Introduced(News, k, handlesByTaskId[k], torrents[k].gen)'
    BY <1>2, <1>3, <2>2
  <2>5. CASE cmd.call = c
    <3>1. Untouched(c) /\ NoTemp(k)
      BY <1>4, <1>5, <2>5 DEF Untouched, InOrder, Asked, Temporary
    <3>2. promise'[c] # "unset" => NoTemp(k)'
      <4>1. CASE UNCHANGED requests
        BY <1>3, <3>1, <4>1 DEF NoTemp, NoneWanted
      <4>2. CASE UNCHANGED promise
        BY <1>9, <2>5, <4>2
      <4>3. HandlePrepare
        BY <1>1, <1>9, <2>5 DEF HandleCmd, HandleAddMagnet, HandleAddTorrentFile,
               HandleAddFromResumeData, HandleCancel, HandleFinalize, HandlePause, HandleResume,
               HandleRemove, Handling, cmd
      <4> QED
        BY <4>1, <4>2, <4>3 DEF HandlePrepare
    <3> QED
      BY <1>2, <1>5, <1>9, <1>12, <1>18, <2>1, <2>3, <2>4, <2>5, <3>1, <3>2 DEF Temporary
  <2>6. CASE cmd.call # c
    <3>1. NoTemp(k) => NoTemp(k)'
      BY <1>3, <1>19, <2>6 DEF NoTemp
    <3>2. promise'[c] = promise[c] /\ \A j \in Keys : pendingMagnetMeta'[j] = c => pendingMagnetMeta[j] = c
      BY <1>10, <2>6
    <3> QED
      BY <1>2, <1>3, <1>5, <1>8, <1>15, <1>12, <1>18, <1>19, <2>1, <2>2, <2>3, <2>4, <2>6, <3>1, <3>2
         DEF Temporary
  <2> QED
    BY <2>5, <2>6
<1> QED
  BY <1>12, <1>20, <1>21

\* Every step.
LEMMA NextCleans ==
    ASSUME Typed, CallsOK, HandlesTracked, [Next]_vars,
           NEW c \in Callers, NewsOK(KeyOf[c]), Cleaned(c)
    PROVE  Cleaned(c)'
<1>1. KeyOf[c] \in Keys
  BY ConstantsAssumption
<1>2. CASE Throw
  <2>1. ~Working'
    BY <1>2 DEF Throw, Working
  <2> QED
    BY <2>1 DEF Cleaned
<1>3. CASE Ended \/ UNCHANGED vars
  <2>1. /\ UNCHANGED <<running, phase, call, promise, pendingMagnetMeta, handlesByTaskId,
                       torrents, requests>>
        /\ News' = News /\ Queue' = Queue
    BY <1>3 DEF Ended, vars, workerVars, mapVars, clientVars, sessionVars, News, Queue
  <2>2. /\ Working' = Working /\ InPlay(c)' = InPlay(c)
        /\ InOrder(c)' = InOrder(c) /\ Untouched(c)' = Untouched(c) /\ Asked(c)' = Asked(c)
    BY <2>1 DEF Working, InPlay, Alone, InOrder, Untouched, Asked, Left, CancelQueued
  <2>3. /\ NotBefore(KeyOf[c])' = NotBefore(KeyOf[c])
        /\ GoingIsValid(KeyOf[c])' = GoingIsValid(KeyOf[c])
        /\ NoTemp(KeyOf[c])' = NoTemp(KeyOf[c]) /\ NoneWanted(KeyOf[c])' = NoneWanted(KeyOf[c])
        /\ Going(KeyOf[c])' = Going(KeyOf[c]) /\ Valid(KeyOf[c])' = Valid(KeyOf[c])
    BY <2>1 DEF NotBefore, GoingIsValid, NoTemp, NoneWanted, Going, Valid
  <2> QED
    BY <2>1, <2>2, <2>3 DEF Cleaned, Temporary
<1>4. CASE PeersStep
  <2>1. Working' => Working
    BY <1>4 DEF PeersStep, MetadataArrives, MetadataFails, Working, workerVars
  <2>2. ASSUME Working
        PROVE  Tracked(KeyOf[c])
    BY <1>1, <2>2, TrackedIs DEF Working, Alive
  <2>3. CASE ~Working
    BY <2>1, <2>3 DEF Cleaned
  <2>4. CASE Working
    BY <1>4, <2>2, <2>4, PeersClean DEF PeersStep
  <2> QED
    BY <2>3, <2>4
<1>5. CASE WorkerStep \/ SessionStep \/ ClientStep
  BY <1>2, <1>5, CmdCleans, AlertCleans, LoopCleans, SessionCleans, ClientCleans
     DEF WorkerStep, SessionStep
<1> QED
  BY <1>2, <1>3, <1>4, <1>5 DEF Next

\* Initially there is no torrent and no call.
LEMMA InitCleans ==
    ASSUME Init, NEW c \in Callers
    PROVE  Cleaned(c)
<1> DEFINE k == KeyOf[c]
<1>1. /\ News = <<>> /\ Queue = <<>>
      /\ DOMAIN News = {} /\ DOMAIN Queue = {} /\ DOMAIN requests = {}
  BY DEF Init, News, Queue
<1>2. /\ torrents[k].gen = 0 /\ ~torrents[k].temp
      /\ call[c] = "idle" /\ promise[c] = "unset"
  BY ConstantsAssumption DEF Init, NoTorrent
<1>3. InOrder(c)
  BY <1>1, <1>2 DEF InOrder, Left
<1>4. /\ NotBefore(k) /\ GoingIsValid(k) /\ NoTemp(k) /\ Untouched(c)
      /\ Introduced(News, k, handlesByTaskId[k], torrents[k].gen)
  BY <1>1, <1>2 DEF NotBefore, GoingIsValid, NoTemp, NoneWanted, Untouched, Left, Introduced
<1>5. Temporary(c)
  BY <1>2, <1>4 DEF Temporary
<1> QED
  BY <1>3, <1>5 DEF Cleaned

\* cancelPreparedMagnet: once the worker has caught up, the call of a dialog that
\* was closed while nobody else asked for the same magnet has left no temporary
\* torrent behind, however the worker, the session and the peers were
\* interleaved.
THEOREM CancelledIsCleaned == Spec => []CancelCleansUp
<1> DEFINE Inv == Typed /\ CallsOK /\ HandlesTracked /\ NewsAll /\ CleanedAll
<1>1. Init => Inv
  BY InitTyped, InitCalls, InitTracked, InitNews, InitCleans DEF NewsAll, CleanedAll
<1>2. Inv /\ [Next]_vars => Inv'
  <2> SUFFICES ASSUME Inv, [Next]_vars PROVE Inv'
    OBVIOUS
  <2>1. Typed' /\ HandlesTracked'
    <3>1. CASE UNCHANGED vars
      BY <3>1, StutterTracked DEF vars, workerVars, mapVars, clientVars, sessionVars, Typed,
                                  TypeOK, QueueTyped, Phases
    <3> QED
      BY <3>1, NextTyped, NextTracked
  <2>2. CallsOK'
    BY NextCalls
  <2>3. NewsAll'
    BY NextNews DEF NewsAll
  <2>4. CleanedAll'
    BY NextCleans, ConstantsAssumption DEF NewsAll, CleanedAll
  <2> QED
    BY <2>1, <2>2, <2>3, <2>4
<1>3. Inv => CancelCleansUp
  <2> SUFFICES ASSUME Inv, Quiet, NEW c \in Callers, call[c] = "cancelled", Alone(c),
                      torrents[KeyOf[c]].temp
               PROVE  FALSE
    BY DEF CancelCleansUp, Alone
  <2>1. /\ Working
        /\ DOMAIN Queue = {} /\ DOMAIN requests = {}
    BY DEF Typed, Phases, Quiet, Working, Queue
  <2>2. InPlay(c) /\ Left(c) /\ ~Untouched(c)
    BY <2>1 DEF InPlay, Left, Untouched, CancelQueued
  <2>3. promise[c] # "unset" /\ Temporary(c)
    BY <2>1, <2>2 DEF CleanedAll, Cleaned, InOrder
  <2>4. Going(KeyOf[c])
    BY <2>2, <2>3 DEF Temporary
  <2> QED
    BY <2>1, <2>4 DEF Going
<1> QED
  BY <1>1, <1>2, <1>3, PTL DEF Spec

-----------------------------------------------------------------------------
(* The dialog that adds a magnet link, module MagnetAdd: the UI thread,    *)
(* its call and the queue, for any keys, files and number of links.        *)
(* The two modules are proved apart: a name both declare is here that of   *)
(* MagnetAdd, as its formulas are prefixed with Magnet.                    *)

CONSTANTS Files, MaxAdds, MaxOthers
VARIABLES ui, dialog, cached, task, future, pending, prepared, exports, adds, others, gaps
Magnet == INSTANCE MagnetAdd

\* What the proofs need to know of the constants.
LinkAssumption == MaxAdds \in Nat /\ MaxOthers \in Nat /\ Magnet!NoKey \notin Keys

Commands == [op : Magnet!Ops, key : Keys, files : SUBSET Files, from : Magnet!Froms,
             link : 0..MaxAdds]

\* The answers that carry metadata.
Given == {"exported", "unexported"}

Asks(c, k)  == c.op = "Prepare" /\ c.key = k
Ends(c, k)  == c.op = "Cancel" /\ c.key = k
\* Commands after which no torrent of the key is there for its metadata only.
Clears(c, k) == c.op \in {"Cancel", "Finalize", "Remove"} /\ c.key = k

\* The dialog is open, or the user has just left it.
Open == ui.at \in {"dialog", "cleanup", "submit"}

\* Neither the dialog nor its call has queued a command that ends the preparation.
Unsent == Open /\ (task \in {"starting", "waiting"} \/ future \in Given \/ cached # "none")

\* The link opened last waits for its metadata, or has them.
Served(k) == adds > 0 /\ (pending[k] = adds \/ promise[adds] \in Given)
OwnLink(k) == k = ui.key /\ Unsent /\ Served(k)

\* Nothing is left of the preparation of a key.
Clean(k) == k \notin prepared /\ pending[k] = 0 /\ torrents[k].kind # "temp"

\* The UI thread, the call and its future.
ThreadsOK ==
    /\ ui.at = "idle" <=> ui.key = Magnet!NoKey
    /\ ui.at = "idle" => task = "none"
    /\ ui.at # "idle" => adds > 0 /\ task # "none"
    /\ task \in {"starting", "waiting"} => future = "pending" /\ cached = "none"
    /\ future \in Given \/ cached # "none" => adds > 0 /\ promise[adds] \in Given
    /\ ui.at \in {"submit", "addFile", "remove"} => cached # "none"
    /\ ui.at = "dialog" /\ dialog.meta = "ready" => cached # "none"
    /\ task = "starting" /\ ui.at = "join" => ui.key \in gaps

\* The worker's notes belong to links that were opened.
NotesOK ==
    /\ \A n \in Magnet!Adds : n > adds => promise[n] = "unset"
    /\ \A k \in Keys : pending[k] <= adds
    /\ adds > 0 => \A k \in Keys : pending[k] = adds =>
         promise[adds] = "unset" /\ (ui.at # "idle" => k = ui.key)

\* Commands of a link come after those of the links before; a link asks once.
QueueOK ==
    /\ \A i \in DOMAIN cmds : cmds[i].link <= adds
    /\ \A i, j \in DOMAIN cmds : i < j => cmds[i].link <= cmds[j].link
    /\ \A i, j \in DOMAIN cmds :
         cmds[i].op = "Prepare" /\ cmds[j].op = "Prepare" /\ i < j => cmds[i].link < cmds[j].link
    /\ \A i \in DOMAIN cmds : cmds[i].op = "Prepare" =>
         /\ cmds[i].link > 0
         /\ cmds[i].link = adds => task # "starting" /\ (ui.at # "idle" => cmds[i].key = ui.key)

\* A link waits under one key, and after the links before it have been handled.
WaitsOnce ==
    /\ \A k, m \in Keys : pending[k] = pending[m] /\ pending[k] # 0 => k = m
    /\ \A i \in DOMAIN cmds : cmds[i].op = "Prepare" =>
         \A k \in Keys : pending[k] < cmds[i].link

\* Once the worker has handled the prepare of the last link, all that came before
\* it is handled, too.
CaughtUp ==
    adds > 0 /\ (promise[adds] # "unset" \/ \E k \in Keys : pending[k] = adds) =>
        /\ task # "starting"
        /\ \A i \in DOMAIN cmds : cmds[i].op # "Prepare" /\ cmds[i].link = adds

\* While the UI thread is busy with a link nobody removes a task, and as long as
\* nothing was sent for it, the queue has no end of its preparation.
Undisturbed ==
    /\ ui.at # "idle" => \A i \in DOMAIN cmds : cmds[i].link = adds => cmds[i].op # "Remove"
    /\ Unsent => \A i \in DOMAIN cmds :
                   cmds[i].link = adds => cmds[i].op \notin {"Cancel", "Finalize"}

\* A link that is served has its temporary torrent, and its metadata are kept.
Held ==
    Unsent /\ Served(ui.key) =>
        /\ torrents[ui.key].kind = "temp"
        /\ promise[adds] \in Given => ui.key \in prepared

\* A key whose temporary torrent is or will be taken away.
Released(k) ==
    \/ ~Magnet!Alive \/ k \in gaps
    \/ /\ torrents[k].kind = "temp" => (\E i \in DOMAIN cmds : Clears(cmds[i], k)) \/ OwnLink(k)
       /\ \A i \in DOMAIN cmds : Asks(cmds[i], k) =>
            \/ \E j \in DOMAIN cmds : j > i /\ Ends(cmds[j], k)
            \/ k = ui.key /\ Open /\ task = "waiting" /\ cmds[i].link = adds

\* A finalize finds the metadata.
Finalizes ==
    \A i \in DOMAIN cmds : cmds[i].op = "Finalize" =>
        /\ cmds[i].key \in prepared
        /\ \A j \in DOMAIN cmds :
             j < i /\ cmds[j].key = cmds[i].key => cmds[j].op \notin {"Cancel", "Finalize"}

\* A cancel of the dialog finds the temporary torrent of its own link.
Cancels ==
    \A i \in DOMAIN cmds : cmds[i].op = "Cancel" /\ cmds[i].from = "dialog" =>
        /\ torrents[cmds[i].key].kind = "temp"
        /\ \A j \in DOMAIN cmds : j < i /\ cmds[j].key = cmds[i].key =>
             cmds[j].op \in {"AddTorrentFile", "AddMagnet"}

\* The add of an accepted dialog comes after its cancel, also while it is still to be
\* queued.
Follows(k, n) ==
    /\ \A j \in DOMAIN cmds : j < n => ~Asks(cmds[j], k)
    /\ Clean(k) \/ \E j \in DOMAIN cmds : j < n /\ Ends(cmds[j], k)
Over(k) ==
    /\ \A j \in DOMAIN cmds : ~Asks(cmds[j], k)
    /\ Clean(k) \/ \E j \in DOMAIN cmds : Ends(cmds[j], k)
AddsFollow ==
    \A k \in Keys :
        /\ \A i \in DOMAIN cmds :
             cmds[i].op = "AddTorrentFile" /\ cmds[i].from = "dialog" /\ cmds[i].key = k =>
                Follows(k, i)
        /\ ui.at = "addFile" /\ ui.key = k => Over(k)

LinkInv ==
    /\ Magnet!TypeOK /\ ThreadsOK /\ NotesOK /\ QueueOK /\ WaitsOnce /\ CaughtUp
         /\ Undisturbed /\ Held
    /\ \A k \in Keys : Released(k)
    /\ Finalizes /\ Cancels /\ AddsFollow

-----------------------------------------------------------------------------
(* The queue.                                                              *)

\* What a queue with one more command at its end holds.
LEMMA Appended ==
    ASSUME NEW X, NEW q \in Seq(X), NEW x \in X
    PROVE  /\ Append(q, x) \in Seq(X) /\ Len(q) \in Nat
           /\ DOMAIN q = 1 .. Len(q) /\ DOMAIN Append(q, x) = 1 .. Len(q) + 1
           /\ Len(Append(q, x)) = Len(q) + 1
           /\ \A i \in DOMAIN q : i \in DOMAIN Append(q, x) /\ Append(q, x)[i] = q[i]
           /\ Append(q, x)[Len(q) + 1] = x
           /\ \A i \in DOMAIN Append(q, x) : i \in DOMAIN q \/ i = Len(q) + 1
  OBVIOUS

\* What the front of a queue and the rest of it are.
LEMMA Popped ==
    ASSUME NEW X, NEW q \in Seq(X), q # <<>>
    PROVE  /\ Tail(q) \in Seq(X) /\ Head(q) \in X /\ Head(q) = q[1] /\ 1 \in DOMAIN q
           /\ Len(q) \in Nat \ {0} /\ DOMAIN q = 1 .. Len(q) /\ Len(Tail(q)) = Len(q) - 1
           /\ DOMAIN Tail(q) = 1 .. Len(q) - 1
           /\ \A i \in DOMAIN Tail(q) : i + 1 \in DOMAIN q /\ Tail(q)[i] = q[i + 1]
           /\ \A i \in DOMAIN q : i = 1 \/ (i - 1 \in DOMAIN Tail(q) /\ Tail(q)[i - 1] = q[i])
<1>1. Len(q) \in Nat \ {0} /\ DOMAIN q = 1 .. Len(q)
  OBVIOUS
<1>2. Tail(q) \in Seq(X) /\ Len(Tail(q)) = Len(q) - 1
  OBVIOUS
<1>3. \A i \in 1 .. Len(q) - 1 : Tail(q)[i] = q[i + 1]
  OBVIOUS
<1> QED
  BY <1>1, <1>2, <1>3

\* A step that leaves the queue and the worker alone.
LEMMA QuietStep ==
    ASSUME LinkInv, UNCHANGED <<cmds, Magnet!workerVars, adds, gaps>>, Magnet!TypeOK', ThreadsOK',
           task' = "starting" => task = "starting",
           ui'.at # "idle" => ui.at # "idle" /\ ui'.key = ui.key,
           Unsent' => Unsent, Magnet!Alive' => Magnet!Alive,
           ui'.at = "addFile" => ui.at = "addFile",
           \A k \in Keys : OwnLink(k) => OwnLink(k)' \/ ~Magnet!Alive',
           \/ Open /\ task = "waiting" => Open' /\ task' = "waiting"
           \/ ~Magnet!Alive' \/ \A i \in DOMAIN cmds : cmds[i].op # "Prepare"
    PROVE  LinkInv'
<1>1. cmds' = cmds /\ pending' = pending /\ prepared' = prepared /\ torrents' = torrents
      /\ promise' = promise /\ adds' = adds /\ gaps' = gaps
  BY DEF Magnet!workerVars
<1>2. NotesOK'
  BY <1>1 DEF LinkInv, NotesOK
<1>3. QueueOK'
  BY <1>1 DEF LinkInv, QueueOK
<1>4. CaughtUp' /\ WaitsOnce'
  BY <1>1 DEF LinkInv, CaughtUp, WaitsOnce
<1>5. Undisturbed'
  BY <1>1 DEF LinkInv, Undisturbed
<1>6. Unsent' => ui'.key = ui.key
  BY DEF Unsent, Open
<1>7. Held'
  BY <1>1, <1>6 DEF LinkInv, Held, Served
<1>8. ASSUME NEW k \in Keys PROVE Released(k)'
  <2>1. Open' => ui'.key = ui.key
    BY DEF Open
  <2>2. Released(k)
    BY DEF LinkInv
  <2>3. CASE Magnet!Alive' /\ k \notin gaps
    <3>1. Magnet!Alive
      BY <2>3
    <3>2. torrents[k].kind = "temp" => (\E i \in DOMAIN cmds : Clears(cmds[i], k)) \/ OwnLink(k)'
      BY <2>2, <2>3, <3>1 DEF Released
    <3>3. ASSUME NEW i \in DOMAIN cmds, Asks(cmds[i], k)
          PROVE  \/ \E j \in DOMAIN cmds : j > i /\ Ends(cmds[j], k)
                 \/ k = ui'.key /\ Open' /\ task' = "waiting" /\ cmds[i].link = adds
      <4>1. cmds[i].op = "Prepare"
        BY <3>3 DEF Asks
      <4>2. Open /\ task = "waiting" => Open' /\ task' = "waiting"
        BY <2>3, <4>1
      <4> QED
        BY <2>1, <2>2, <2>3, <3>1, <3>3, <4>2 DEF Released
    <3> QED
      BY <1>1, <3>2, <3>3 DEF Released, Clears, Asks, Ends
  <2>4. CASE ~Magnet!Alive' \/ k \in gaps
    BY <1>1, <2>4 DEF Released
  <2> QED
    BY <2>3, <2>4
<1>9. Finalizes' /\ Cancels'
  BY <1>1 DEF LinkInv, Finalizes, Cancels
<1>10. AddsFollow'
  BY <1>1 DEF LinkInv, AddsFollow, Follows, Over, Clean, Asks, Ends
<1> QED
  BY <1>2, <1>3, <1>4, <1>5, <1>7, <1>8, <1>9, <1>10 DEF LinkInv

\* A command other than a prepare is queued.
LEMMA EnqueueStep ==
    ASSUME LinkInv, NEW c \in Commands, cmds' = Append(cmds, c), c.link = adds, c.op # "Prepare",
           UNCHANGED <<Magnet!workerVars, adds>>, gaps \subseteq gaps', Magnet!TypeOK',
             ThreadsOK',
           task' = "starting" => task = "starting",
           ui'.at # "idle" => ui.at # "idle" /\ ui'.key = ui.key /\ c.op # "Remove",
           Unsent' => Unsent /\ c.op \notin {"Cancel", "Finalize"},
           Magnet!Alive' => Magnet!Alive,
           \A k \in Keys : OwnLink(k) => OwnLink(k)' \/ Clears(c, k) \/ k \in gaps',
           \/ Open /\ task = "waiting" => (Open' /\ task' = "waiting") \/ Ends(c, ui.key)
           \/ \A i \in DOMAIN cmds : cmds[i].op # "Prepare",
           c.op = "Finalize" =>
               /\ c.key \in prepared
               /\ \A j \in DOMAIN cmds : cmds[j].op \notin {"Cancel", "Finalize"},
           c.op = "Cancel" /\ c.from = "dialog" =>
               /\ torrents[c.key].kind = "temp"
               /\ \A j \in DOMAIN cmds : cmds[j].op \in {"AddTorrentFile", "AddMagnet"},
           c.op = "AddTorrentFile" /\ c.from = "dialog" => Over(c.key),
           ui'.at = "addFile" =>
               /\ \A i \in DOMAIN cmds : cmds[i].op # "Prepare"
               /\ Ends(c, ui.key)
    PROVE  LinkInv'
<1>1. /\ pending' = pending /\ prepared' = prepared /\ torrents' = torrents
      /\ promise' = promise /\ adds' = adds
  BY DEF Magnet!workerVars
<1>2. cmds \in Seq(Commands) /\ adds \in Nat
  BY DEF LinkInv, Magnet!TypeOK, Commands
<1> DEFINE n == Len(cmds) + 1
<1>3. /\ Len(cmds) \in Nat /\ DOMAIN cmds = 1 .. Len(cmds) /\ DOMAIN cmds' = 1 .. n
      /\ Len(cmds') = n /\ n \in DOMAIN cmds'
      /\ \A i \in DOMAIN cmds : i \in DOMAIN cmds' /\ cmds'[i] = cmds[i]
      /\ cmds'[n] = c
      /\ \A i \in DOMAIN cmds' : i \in DOMAIN cmds \/ i = n
  BY <1>2, Appended
<1>4. \A i \in DOMAIN cmds : i < n /\ i # n
  BY <1>3
<1> HIDE DEF n
<1>5. NotesOK'
  BY <1>1 DEF LinkInv, NotesOK
<1>6. QueueOK'
  <2>1. \A i \in DOMAIN cmds' : cmds'[i].link <= adds
    BY <1>2, <1>3 DEF LinkInv, QueueOK
  <2>2. \A i, j \in DOMAIN cmds' : i < j => i \in DOMAIN cmds
    BY <1>3 DEF n
  <2>3. \A i, j \in DOMAIN cmds' : i < j => cmds'[i].link <= cmds'[j].link
    BY <1>3, <2>1, <2>2 DEF LinkInv, QueueOK
  <2>4. \A i, j \in DOMAIN cmds' :
          cmds'[i].op = "Prepare" /\ cmds'[j].op = "Prepare" /\ i < j
            => cmds'[i].link < cmds'[j].link
    BY <1>3 DEF LinkInv, QueueOK
  <2>5. \A i \in DOMAIN cmds' : cmds'[i].op = "Prepare" =>
          /\ cmds'[i].link > 0
          /\ cmds'[i].link = adds =>
               task' # "starting" /\ (ui'.at # "idle" => cmds'[i].key = ui'.key)
    BY <1>3 DEF LinkInv, QueueOK
  <2> QED
    BY <1>1, <2>1, <2>3, <2>4, <2>5 DEF QueueOK
<1>7. CaughtUp' /\ WaitsOnce'
  BY <1>1, <1>3 DEF LinkInv, CaughtUp, WaitsOnce
<1>8. Undisturbed'
  BY <1>1, <1>3 DEF LinkInv, Undisturbed
<1>9. Unsent' => ui'.key = ui.key
  BY DEF Unsent, Open
<1>10. Held'
  BY <1>1, <1>9 DEF LinkInv, Held, Served
<1>11. ASSUME NEW k \in Keys PROVE Released(k)'
  <2>1. Open' => ui'.key = ui.key
    BY DEF Open
  <2>2. Released(k)
    BY DEF LinkInv
  <2>3. CASE Magnet!Alive' /\ k \notin gaps'
    <3>1. Magnet!Alive /\ k \notin gaps
      BY <2>3
    <3>2. torrents[k].kind = "temp" => (\E i \in DOMAIN cmds' : Clears(cmds'[i], k))
          \/ OwnLink(k)'
      BY <1>3, <2>2, <2>3, <3>1 DEF Released
    <3>3. ASSUME NEW i \in DOMAIN cmds', Asks(cmds'[i], k)
          PROVE  \/ \E j \in DOMAIN cmds' : j > i /\ Ends(cmds'[j], k)
                 \/ k = ui'.key /\ Open' /\ task' = "waiting" /\ cmds'[i].link = adds
      <4>1. i \in DOMAIN cmds /\ cmds'[i] = cmds[i] /\ cmds[i].op = "Prepare"
        BY <1>3, <3>3 DEF Asks
      <4>2. \/ \E j \in DOMAIN cmds : j > i /\ Ends(cmds[j], k)
            \/ k = ui.key /\ Open /\ task = "waiting" /\ cmds[i].link = adds
        BY <2>2, <3>1, <3>3, <4>1 DEF Released
      <4>3. CASE \E j \in DOMAIN cmds : j > i /\ Ends(cmds[j], k)
        BY <1>3, <4>3
      <4>4. CASE k = ui.key /\ Open /\ task = "waiting" /\ cmds[i].link = adds
        <5>1. (Open' /\ task' = "waiting") \/ Ends(c, ui.key)
          BY <4>1, <4>4
        <5>2. CASE Ends(c, ui.key)
          BY <1>3, <1>4, <4>1, <4>4, <5>2
        <5> QED
          BY <2>1, <4>1, <4>4, <5>1, <5>2
      <4> QED
        BY <4>2, <4>3, <4>4
    <3> QED
      BY <1>1, <3>2, <3>3 DEF Released, Clears, Asks, Ends
  <2>4. CASE ~Magnet!Alive' \/ k \in gaps'
    BY <2>4 DEF Released
  <2> QED
    BY <2>3, <2>4
<1>12. Finalizes'
  BY <1>1, <1>3, <1>4 DEF LinkInv, Finalizes
<1>13. Cancels'
  BY <1>1, <1>3, <1>4 DEF LinkInv, Cancels
<1>14. ASSUME NEW k \in Keys, NEW m \in 1 .. n, Follows(k, m) PROVE Follows(k, m)'
  BY <1>1, <1>3, <1>14 DEF Follows, Clean, Asks, Ends, n
<1>15. AddsFollow'
  <2> SUFFICES ASSUME NEW k \in Keys
               PROVE  /\ \A i \in DOMAIN cmds' :
                           /\ cmds'[i].op = "AddTorrentFile" /\ cmds'[i].from = "dialog"
                           /\ cmds'[i].key = k
                           => Follows(k, i)'
                      /\ ui'.at = "addFile" /\ ui'.key = k => Over(k)'
    BY DEF AddsFollow
  <2>1. ASSUME NEW i \in DOMAIN cmds', cmds'[i].op = "AddTorrentFile", cmds'[i].from = "dialog",
               cmds'[i].key = k
        PROVE  Follows(k, i)'
    <3>1. i \in 1 .. n
      BY <1>3
    <3>2. Follows(k, i)
      <4>1. CASE i \in DOMAIN cmds
        BY <1>3, <2>1, <4>1 DEF LinkInv, AddsFollow
      <4>2. CASE i = n
        BY <1>3, <1>4, <2>1, <4>2 DEF Over, Follows
      <4> QED
        BY <1>3, <4>1, <4>2
    <3> QED
      BY <1>14, <3>1, <3>2
  <2>2. ASSUME ui'.at = "addFile", ui'.key = k PROVE Over(k)'
    BY <1>3, <2>2 DEF Over, Asks
  <2> QED
    BY <2>1, <2>2
<1> QED
  BY <1>5, <1>6, <1>7, <1>8, <1>10, <1>11, <1>12, <1>13, <1>15 DEF LinkInv

-----------------------------------------------------------------------------
(* The worker.                                                             *)

\* The first command leaves the queue: order and threads stay as they are.
LEMMA TakeStep ==
    ASSUME LinkInv, NEW op, Magnet!Take(op)
    PROVE  /\ cmds \in Seq(Commands) /\ Head(cmds) \in Commands /\ Head(cmds).op = op
           /\ Head(cmds) = cmds[1] /\ 1 \in DOMAIN cmds /\ cmds' \in Seq(Commands)
           /\ \A i \in DOMAIN cmds : i \in Nat /\ i >= 1
           /\ \A i \in DOMAIN cmds' : i + 1 \in DOMAIN cmds /\ cmds'[i] = cmds[i + 1]
           /\ \A i \in DOMAIN cmds : i = 1 \/ (i - 1 \in DOMAIN cmds' /\ cmds'[i - 1] = cmds[i])
           /\ \A i \in DOMAIN cmds' : i \in Nat /\ i >= 1
           /\ UNCHANGED <<ui, dialog, cached, task, future, adds, others, gaps, exports>>
           /\ Magnet!Alive /\ ThreadsOK /\ QueueOK' /\ Undisturbed'
           /\ (Unsent <=> Unsent') /\ (Open <=> Open')
<1>1. cmds \in Seq(Commands) /\ cmds # <<>> /\ cmds' = Tail(cmds) /\ Head(cmds).op = op
  BY DEF LinkInv, Magnet!TypeOK, Commands, Magnet!Take
<1>2. /\ cmds' \in Seq(Commands) /\ Head(cmds) \in Commands
      /\ Head(cmds) = cmds[1] /\ 1 \in DOMAIN cmds
      /\ \A i \in DOMAIN cmds : i \in Nat /\ i >= 1
      /\ \A i \in DOMAIN cmds' : i + 1 \in DOMAIN cmds /\ cmds'[i] = cmds[i + 1]
      /\ \A i \in DOMAIN cmds : i = 1 \/ (i - 1 \in DOMAIN cmds' /\ cmds'[i - 1] = cmds[i])
      /\ \A i \in DOMAIN cmds' : i \in Nat /\ i >= 1
  <2>1. /\ Tail(cmds) \in Seq(Commands) /\ Head(cmds) \in Commands
        /\ Head(cmds) = cmds[1] /\ 1 \in DOMAIN cmds
        /\ Len(cmds) \in Nat \ {0} /\ DOMAIN cmds = 1 .. Len(cmds)
        /\ DOMAIN Tail(cmds) = 1 .. Len(cmds) - 1
        /\ \A i \in DOMAIN Tail(cmds) : i + 1 \in DOMAIN cmds /\ Tail(cmds)[i] = cmds[i + 1]
        /\ \A i \in DOMAIN cmds :
             i = 1 \/ (i - 1 \in DOMAIN Tail(cmds) /\ Tail(cmds)[i - 1] = cmds[i])
    BY <1>1, Popped
  <2> QED
    BY <1>1, <2>1
<1>3. UNCHANGED <<ui, dialog, cached, task, future, adds, others, gaps, exports>> /\ Magnet!Alive
  BY DEF Magnet!Take, Magnet!uiVars, Magnet!taskVars
<1>4. (Unsent <=> Unsent') /\ (Open <=> Open')
  BY <1>3 DEF Unsent, Open
<1>5. \A i, j \in DOMAIN cmds' : i < j => i + 1 < j + 1
  BY <1>2
<1>6. QueueOK'
  BY <1>2, <1>3, <1>5 DEF LinkInv, QueueOK
<1>7. Undisturbed'
  BY <1>2, <1>3, <1>4 DEF LinkInv, Undisturbed
<1> QED
  BY <1>1, <1>2, <1>3, <1>4, <1>6, <1>7 DEF LinkInv

\* The worker handles a command that is not a prepare.  It concerns one key; an add
\* changes nothing of a torrent that is there, the others clear the key.
LEMMA HandledStep ==
    ASSUME LinkAssumption, LinkInv, NEW op \in Magnet!Ops \ {"Prepare"}, Magnet!Take(op),
           Magnet!TypeOK', UNCHANGED promise,
           \A k \in Keys : k # Head(cmds).key =>
               /\ torrents'[k] = torrents[k] /\ pending'[k] = pending[k]
               /\ k \in prepared' <=> k \in prepared,
           op \notin {"Cancel", "Finalize"} => UNCHANGED <<pending, prepared>>,
           op = "Finalize" => UNCHANGED pending /\ prepared' \subseteq prepared,
           op = "Cancel" => \A k \in Keys : k = Head(cmds).key => Clean(k)',
           torrents[Head(cmds).key].kind = "temp" /\ op \in {"AddTorrentFile", "AddMagnet"} =>
               torrents'[Head(cmds).key] = torrents[Head(cmds).key],
           torrents'[Head(cmds).key].kind = "temp" =>
               op \in {"AddTorrentFile", "AddMagnet"} /\ torrents[Head(cmds).key].kind = "temp"
    PROVE  LinkInv'
<1>1. PICK k0 \in Keys : k0 = Head(cmds).key
  BY TakeStep DEF Commands
<1>2. /\ Head(cmds).op = op /\ Head(cmds) = cmds[1] /\ 1 \in DOMAIN cmds
      /\ \A i \in DOMAIN cmds : i \in Nat /\ i >= 1
      /\ \A i \in DOMAIN cmds' : i + 1 \in DOMAIN cmds /\ cmds'[i] = cmds[i + 1]
      /\ \A i \in DOMAIN cmds : i = 1 \/ (i - 1 \in DOMAIN cmds' /\ cmds'[i - 1] = cmds[i])
      /\ \A i \in DOMAIN cmds' : i \in Nat /\ i >= 1
      /\ UNCHANGED <<ui, dialog, cached, task, future, adds, others, gaps, exports>>
      /\ Magnet!Alive /\ ThreadsOK /\ QueueOK' /\ Undisturbed'
      /\ (Unsent <=> Unsent') /\ (Open <=> Open')
  BY TakeStep
<1>3. \A k \in Keys : pending'[k] \in {pending[k], 0}
  BY <1>1 DEF Clean, Magnet!Ops
<1>4. adds \in Nat /\ \A k \in Keys : pending[k] \in Nat
  BY DEF LinkInv, Magnet!TypeOK, Magnet!Adds, LinkAssumption
<1>5. adds > 0 => \A k \in Keys : pending'[k] = adds => pending[k] = adds
  BY <1>3, <1>4
<1>6. ThreadsOK'
  BY <1>2 DEF ThreadsOK
<1>7. NotesOK'
  BY <1>2, <1>3, <1>4, <1>5 DEF LinkInv, NotesOK
<1>8. CaughtUp' /\ WaitsOnce'
  <2>1. CaughtUp'
    BY <1>2, <1>5 DEF LinkInv, CaughtUp
  <2>2. \A k, m \in Keys : pending'[k] = pending'[m] /\ pending'[k] # 0 => k = m
    BY <1>3 DEF LinkInv, WaitsOnce
  <2>3. \A i \in DOMAIN cmds' : cmds'[i].op = "Prepare" =>
          \A k \in Keys : pending'[k] < cmds'[i].link
    BY <1>2, <1>3, <1>4 DEF LinkInv, WaitsOnce, QueueOK
  <2> QED
    BY <2>1, <2>2, <2>3 DEF WaitsOnce
<1>9. ASSUME NEW k \in Keys, OwnLink(k)
      PROVE  /\ torrents'[k] = torrents[k] /\ pending'[k] = pending[k]
             /\ k \in prepared' <=> k \in prepared
             /\ ui.at # "idle" /\ torrents[k].kind = "temp"
  <2>1. ui.at # "idle" /\ torrents[k].kind = "temp" /\ Unsent /\ k = ui.key
    BY <1>9 DEF OwnLink, Unsent, Open, LinkInv, Held
  <2>2. cmds[1].link = adds
    BY <1>2, <1>9 DEF OwnLink, Served, LinkInv, CaughtUp, Given
  <2>3. op \in {"AddTorrentFile", "AddMagnet"}
    BY <1>2, <2>1, <2>2 DEF LinkInv, Undisturbed, Magnet!Ops
  <2> QED
    BY <2>1, <2>3
<1>10. Held'
  <2> SUFFICES ASSUME Unsent', Served(ui.key)'
               PROVE  /\ torrents'[ui'.key].kind = "temp"
                      /\ promise'[adds'] \in Given => ui'.key \in prepared'
    BY DEF Held
  <2>1. ui.key \in Keys /\ Unsent
    BY <1>2 DEF LinkInv, Magnet!TypeOK, ThreadsOK, Unsent, Open
  <2>2. OwnLink(ui.key)
    BY <1>2, <1>5, <2>1 DEF OwnLink, Served
  <2> QED
    BY <1>2, <1>9, <2>1, <2>2 DEF LinkInv, Held, OwnLink
<1>11. ASSUME NEW k \in Keys PROVE Released(k)'
  <2>1. Released(k)
    BY DEF LinkInv
  <2>2. CASE k \notin gaps
    <3>1. ASSUME torrents'[k].kind = "temp"
          PROVE  (\E i \in DOMAIN cmds' : Clears(cmds'[i], k)) \/ OwnLink(k)'
      <4>1. torrents[k].kind = "temp" /\ ~Clears(cmds[1], k)
        BY <1>1, <1>2, <3>1 DEF Clears
      <4>2. (\E i \in DOMAIN cmds : Clears(cmds[i], k)) \/ OwnLink(k)
        BY <1>2, <2>1, <2>2, <4>1 DEF Released
      <4>3. OwnLink(k) => OwnLink(k)'
        BY <1>2, <1>9 DEF OwnLink, Served
      <4> QED
        BY <1>2, <4>1, <4>2, <4>3
    <3>2. ASSUME NEW i \in DOMAIN cmds', Asks(cmds'[i], k)
          PROVE  \/ \E j \in DOMAIN cmds' : j > i /\ Ends(cmds'[j], k)
                 \/ k = ui'.key /\ Open' /\ task' = "waiting" /\ cmds'[i].link = adds'
      <4>1. i + 1 \in DOMAIN cmds /\ cmds'[i] = cmds[i + 1] /\ Asks(cmds[i + 1], k)
        BY <1>2, <3>2
      <4>2. \/ \E j \in DOMAIN cmds : j > i + 1 /\ Ends(cmds[j], k)
            \/ k = ui.key /\ Open /\ task = "waiting" /\ cmds[i + 1].link = adds
        BY <1>2, <2>1, <2>2, <4>1 DEF Released
      <4>3. ASSUME NEW j \in DOMAIN cmds, j > i + 1, Ends(cmds[j], k)
            PROVE  j - 1 \in DOMAIN cmds' /\ j - 1 > i /\ Ends(cmds'[j - 1], k)
        BY <1>2, <4>3
      <4> QED
        BY <1>2, <4>1, <4>2, <4>3
    <3> QED
      BY <3>1, <3>2 DEF Released, Clears, Asks, Ends
  <2>3. CASE k \in gaps
    BY <1>2, <2>3 DEF Released
  <2> QED
    BY <2>2, <2>3
<1>12. \A i, j \in DOMAIN cmds' : j < i => j + 1 < i + 1
  BY <1>2
<1>13. \A i \in DOMAIN cmds' : 1 < i + 1
  BY <1>2
<1>14. Finalizes'
  <2> SUFFICES ASSUME NEW i \in DOMAIN cmds', cmds'[i].op = "Finalize"
               PROVE  /\ cmds'[i].key \in prepared'
                      /\ \A j \in DOMAIN cmds' : j < i /\ cmds'[j].key = cmds'[i].key
                            => cmds'[j].op \notin {"Cancel", "Finalize"}
    BY DEF Finalizes
  <2>1. /\ cmds[i + 1].op = "Finalize" /\ cmds[i + 1].key \in prepared
        /\ \A j \in DOMAIN cmds : j < i + 1 /\ cmds[j].key = cmds[i + 1].key =>
             cmds[j].op \notin {"Cancel", "Finalize"}
    BY <1>2 DEF LinkInv, Finalizes
  <2>2. cmds[i + 1].key = k0 => op \notin {"Cancel", "Finalize"}
    BY <1>1, <1>2, <1>13, <2>1
  <2>3. cmds[i + 1].key \in Keys
    BY <2>1 DEF LinkInv, Magnet!TypeOK
  <2>4. cmds[i + 1].key \in prepared'
    BY <1>1, <2>1, <2>2, <2>3
  <2> QED
    BY <1>2, <1>12, <2>1, <2>4
<1>15. Cancels'
  <2> SUFFICES ASSUME NEW i \in DOMAIN cmds', cmds'[i].op = "Cancel", cmds'[i].from = "dialog"
               PROVE  /\ torrents'[cmds'[i].key].kind = "temp"
                      /\ \A j \in DOMAIN cmds' : j < i /\ cmds'[j].key = cmds'[i].key
                            => cmds'[j].op \in {"AddTorrentFile", "AddMagnet"}
    BY DEF Cancels
  <2>1. /\ torrents[cmds[i + 1].key].kind = "temp"
        /\ \A j \in DOMAIN cmds : j < i + 1 /\ cmds[j].key = cmds[i + 1].key =>
             cmds[j].op \in {"AddTorrentFile", "AddMagnet"}
    BY <1>2 DEF LinkInv, Cancels
  <2>2. cmds[i + 1].key = k0 => op \in {"AddTorrentFile", "AddMagnet"}
    BY <1>1, <1>2, <1>13, <2>1
  <2>3. cmds[i + 1].key \in Keys
    <3>1. cmds \in Seq(Commands) /\ i + 1 \in DOMAIN cmds
      BY <1>2, TakeStep
    <3>2. cmds[i + 1] \in Commands
      BY <3>1
    <3> QED
      BY <3>2 DEF Commands
  <2>4. torrents'[cmds[i + 1].key].kind = "temp"
    BY <1>1, <2>1, <2>2, <2>3
  <2> QED
    BY <1>2, <1>12, <2>1, <2>4
<1>16. ASSUME NEW k \in Keys, Clean(k) PROVE Clean(k)'
  <2>1. CASE k = k0
    BY <1>1, <1>16, <2>1 DEF Clean, Magnet!Ops
  <2>2. CASE k # k0
    BY <1>1, <1>16, <2>2 DEF Clean
  <2> QED
    BY <2>1, <2>2
<1>17. ASSUME NEW k \in Keys, Ends(cmds[1], k) PROVE Clean(k)'
  BY <1>1, <1>2, <1>17 DEF Ends
<1>18. AddsFollow'
  <2> SUFFICES ASSUME NEW k \in Keys
               PROVE  /\ \A i \in DOMAIN cmds' :
                           /\ cmds'[i].op = "AddTorrentFile" /\ cmds'[i].from = "dialog"
                           /\ cmds'[i].key = k
                           => Follows(k, i)'
                      /\ ui'.at = "addFile" /\ ui'.key = k => Over(k)'
    BY DEF AddsFollow
  <2>1. ASSUME NEW i \in DOMAIN cmds', cmds'[i].op = "AddTorrentFile", cmds'[i].from = "dialog",
               cmds'[i].key = k
        PROVE  Follows(k, i)'
    <3>1. Follows(k, i + 1)
      BY <1>2, <2>1 DEF LinkInv, AddsFollow
    <3>2. \A j \in DOMAIN cmds' : j < i => ~Asks(cmds'[j], k)
      BY <1>2, <1>12, <3>1 DEF Follows
    <3>3. ASSUME NEW j \in DOMAIN cmds, j < i + 1, Ends(cmds[j], k), ~Clean(k)'
          PROVE  \E l \in DOMAIN cmds' : l < i /\ Ends(cmds'[l], k)
      <4>1. j # 1
        BY <1>17, <3>3
      <4>2. j - 1 \in DOMAIN cmds' /\ j - 1 < i /\ Ends(cmds'[j - 1], k)
        BY <1>2, <3>3, <4>1
      <4> QED
        BY <4>2
    <3>4. Clean(k)' \/ \E l \in DOMAIN cmds' : l < i /\ Ends(cmds'[l], k)
      BY <1>16, <3>1, <3>3 DEF Follows
    <3> QED
      BY <3>2, <3>4 DEF Follows, Asks, Ends
  <2>2. ASSUME ui'.at = "addFile", ui'.key = k PROVE Over(k)'
    <3>1. Over(k)
      BY <1>2, <2>2 DEF LinkInv, AddsFollow
    <3>2. \A j \in DOMAIN cmds' : ~Asks(cmds'[j], k)
      BY <1>2, <3>1 DEF Over
    <3>3. ASSUME NEW j \in DOMAIN cmds, Ends(cmds[j], k), ~Clean(k)'
          PROVE  \E l \in DOMAIN cmds' : Ends(cmds'[l], k)
      BY <1>2, <1>17, <3>3
    <3>4. Clean(k)' \/ \E l \in DOMAIN cmds' : Ends(cmds'[l], k)
      BY <1>16, <3>1, <3>3 DEF Over
    <3> QED
      BY <3>2, <3>4 DEF Over, Asks, Ends
  <2> QED
    BY <2>1, <2>2
<1> QED
  BY <1>2, <1>6, <1>7, <1>8, <1>10, <1>11, <1>14, <1>15, <1>18 DEF LinkInv

\* The worker handles a prepare: it is answered with nothing, or its link waits
\* for the metadata of a new torrent.
LEMMA HandlePrepareStep ==
    ASSUME LinkAssumption, LinkInv, Magnet!HandlePrepare
    PROVE  LinkInv'
<1>1. Magnet!Take("Prepare")
  BY DEF Magnet!HandlePrepare
<1>2. /\ Head(cmds) \in Commands /\ Head(cmds).op = "Prepare"
      /\ Head(cmds) = cmds[1] /\ 1 \in DOMAIN cmds /\ cmds' \in Seq(Commands)
      /\ \A i \in DOMAIN cmds : i \in Nat /\ i >= 1
      /\ \A i \in DOMAIN cmds' : i + 1 \in DOMAIN cmds /\ cmds'[i] = cmds[i + 1]
      /\ \A i \in DOMAIN cmds : i = 1 \/ (i - 1 \in DOMAIN cmds' /\ cmds'[i - 1] = cmds[i])
      /\ \A i \in DOMAIN cmds' : i \in Nat /\ i >= 1
      /\ UNCHANGED <<ui, dialog, cached, task, future, adds, others, gaps, exports>>
      /\ Magnet!Alive /\ ThreadsOK /\ QueueOK' /\ Undisturbed'
      /\ (Unsent <=> Unsent') /\ (Open <=> Open')
  BY <1>1, TakeStep
<1>3. PICK k0 \in Keys, l \in Magnet!Adds : k0 = Head(cmds).key /\ l = Head(cmds).link
  BY <1>2 DEF Commands, Magnet!Adds, LinkInv, QueueOK, LinkAssumption
<1>4. \/ /\ torrents[k0].kind # "none" /\ promise' = [promise EXCEPT ![l] = "nullopt"]
         /\ UNCHANGED <<pending, prepared, torrents>>
      \/ /\ torrents[k0].kind = "none" /\ pending' = [pending EXCEPT ![k0] = l]
         /\ torrents' = [torrents EXCEPT ![k0] = Magnet!Temp] /\ UNCHANGED <<prepared, promise>>
  BY <1>3 DEF Magnet!HandlePrepare, Magnet!Put
<1>5. Magnet!TypeOK
  BY DEF LinkInv
<1>6. /\ promise \in [Magnet!Adds -> Magnet!Answers \cup {"unset"}]
      /\ pending \in [Keys -> {0} \cup Magnet!Adds]
      /\ torrents \in [Keys -> [kind : {"none", "temp", "real"}, files : SUBSET Files]]
      /\ adds \in Nat /\ \A k \in Keys : pending[k] \in Nat
  BY <1>5 DEF Magnet!TypeOK, Magnet!Adds, LinkAssumption
<1>7. Magnet!TypeOK'
  <2>1. Magnet!Temp \in [kind : {"none", "temp", "real"}, files : SUBSET Files]
    BY DEF Magnet!Temp
  <2>2. promise' \in [Magnet!Adds -> Magnet!Answers \cup {"unset"}]
        /\ pending' \in [Keys -> {0} \cup Magnet!Adds]
    BY <1>4, <1>6 DEF Magnet!Answers
  <2>3. torrents' \in [Keys -> [kind : {"none", "temp", "real"}, files : SUBSET Files]]
    BY <1>4, <1>6, <2>1
  <2>4. prepared' = prepared
    BY <1>4
  <2> QED
    BY <1>2, <1>5, <2>2, <2>3, <2>4 DEF Magnet!TypeOK, Commands
\* The last link is not answered yet: its prepare may still be in the queue.
<1>8. l <= adds /\ l > 0 /\ l \in Nat
  BY <1>2, <1>3 DEF LinkInv, QueueOK, Magnet!Adds, LinkAssumption
<1>9. adds > 0 /\ promise[adds] = "unset" /\ \A k \in Keys : pending[k] # adds
  BY <1>2, <1>6, <1>8 DEF LinkInv, CaughtUp
<1>10. adds \in Magnet!Adds
  BY <1>5, <1>8, <1>6 DEF Magnet!TypeOK, Magnet!Adds
<1>11. promise'[adds] \in {"unset", "nullopt"} /\ (promise'[adds] # "unset" => l = adds)
  BY <1>4, <1>6, <1>9, <1>10
<1>12. \A k \in Keys : pending'[k] = adds =>
          k = k0 /\ l = adds /\ promise'[adds] = "unset" /\ torrents'[k].kind = "temp"
  BY <1>4, <1>6, <1>9 DEF Magnet!Temp
<1>13. ThreadsOK'
  BY <1>2, <1>9 DEF ThreadsOK, Given
<1>14. l = adds => task # "starting" /\ (ui.at # "idle" => k0 = ui.key)
  BY <1>2, <1>3 DEF LinkInv, QueueOK
<1>15. NotesOK'
  <2>1. \A n \in Magnet!Adds : n > adds => promise'[n] = "unset"
    BY <1>4, <1>6, <1>8 DEF LinkInv, NotesOK, Magnet!Adds, LinkAssumption
  <2>2. \A k \in Keys : pending'[k] <= adds
    BY <1>4, <1>6, <1>8 DEF LinkInv, NotesOK
  <2> QED
    BY <1>2, <1>12, <1>14, <2>1, <2>2 DEF NotesOK
<1>16. CaughtUp'
  <2> SUFFICES ASSUME l = adds
               PROVE  /\ task # "starting"
                      /\ \A i \in DOMAIN cmds' : cmds'[i].op # "Prepare" /\ cmds'[i].link = adds
    BY <1>2, <1>11, <1>12 DEF CaughtUp
  <2>1. ASSUME NEW i \in DOMAIN cmds'
        PROVE  cmds'[i].op # "Prepare" /\ cmds'[i].link = adds
    <3>0. cmds'[i] \in Commands
      BY <1>2
    <3>1. /\ i + 1 \in DOMAIN cmds /\ 1 < i + 1 /\ cmds'[i] = cmds[i + 1]
          /\ cmds[1].link = adds /\ cmds[1].op = "Prepare" /\ cmds[i + 1].link \in Nat
      BY <1>2, <1>3, <3>0 DEF Commands, LinkAssumption
    <3>2. cmds[i + 1].link <= adds /\ adds <= cmds[i + 1].link
      BY <1>2, <3>1 DEF LinkInv, QueueOK
    <3>3. cmds[i + 1].op = "Prepare" => adds < cmds[i + 1].link
      BY <1>2, <3>1 DEF LinkInv, QueueOK
    <3>4. adds \in Nat /\ cmds[i + 1].link \in Nat
      BY <1>6, <3>1
    <3>5. cmds[i + 1].link = adds
      BY <3>2, <3>4
    <3>6. cmds[i + 1].op # "Prepare"
      BY <3>3, <3>4, <3>5
    <3> QED
      BY <3>1, <3>5, <3>6
  <2> QED
    BY <1>14, <2>1
<1>17. Held'
  BY <1>2, <1>11, <1>12 DEF Held, Served, Given, LinkInv, Magnet!TypeOK, ThreadsOK, Unsent, Open
<1>18. \A k \in Keys : ~OwnLink(k)
  BY <1>9 DEF OwnLink, Served, Given
<1>19. ASSUME NEW k \in Keys PROVE Released(k)'
  <2>1. Released(k)
    BY DEF LinkInv
  <2>2. CASE k \notin gaps
    <3>1. ASSUME torrents'[k].kind = "temp"
          PROVE  (\E i \in DOMAIN cmds' : Clears(cmds'[i], k)) \/ OwnLink(k)'
      <4>1. CASE torrents[k].kind = "temp"
        <5>1. \E i \in DOMAIN cmds : Clears(cmds[i], k)
          BY <1>2, <1>18, <2>1, <2>2, <4>1 DEF Released
        <5> QED
          BY <1>2, <5>1 DEF Clears
      <4>2. CASE torrents[k].kind # "temp"
        <5>1. k = k0 /\ torrents[k0].kind = "none" /\ pending'[k0] = l
          BY <1>4, <1>6, <3>1, <4>2
        <5>2. Asks(cmds[1], k)
          BY <1>2, <1>3, <5>1 DEF Asks
        <5>3. \/ \E j \in DOMAIN cmds : j > 1 /\ Ends(cmds[j], k)
              \/ k = ui.key /\ Open /\ task = "waiting" /\ cmds[1].link = adds
          BY <1>2, <2>1, <2>2, <5>2 DEF Released
        <5>4. ASSUME NEW j \in DOMAIN cmds, j > 1, Ends(cmds[j], k)
              PROVE  j - 1 \in DOMAIN cmds' /\ Clears(cmds'[j - 1], k)
          BY <1>2, <5>4 DEF Ends, Clears
        <5>5. CASE k = ui.key /\ Open /\ task = "waiting" /\ cmds[1].link = adds
          BY <1>2, <1>3, <1>9, <5>1, <5>5 DEF OwnLink, Served, Unsent
        <5> QED
          BY <5>3, <5>4, <5>5
      <4> QED
        BY <4>1, <4>2
    <3>2. ASSUME NEW i \in DOMAIN cmds', Asks(cmds'[i], k)
          PROVE  \/ \E j \in DOMAIN cmds' : j > i /\ Ends(cmds'[j], k)
                 \/ k = ui'.key /\ Open' /\ task' = "waiting" /\ cmds'[i].link = adds'
      <4>1. i + 1 \in DOMAIN cmds /\ cmds'[i] = cmds[i + 1] /\ Asks(cmds[i + 1], k)
        BY <1>2, <3>2
      <4>2. \/ \E j \in DOMAIN cmds : j > i + 1 /\ Ends(cmds[j], k)
            \/ k = ui.key /\ Open /\ task = "waiting" /\ cmds[i + 1].link = adds
        BY <1>2, <2>1, <2>2, <4>1 DEF Released
      <4>3. ASSUME NEW j \in DOMAIN cmds, j > i + 1, Ends(cmds[j], k)
            PROVE  j - 1 \in DOMAIN cmds' /\ j - 1 > i /\ Ends(cmds'[j - 1], k)
        BY <1>2, <4>3
      <4> QED
        BY <1>2, <4>1, <4>2, <4>3
    <3> QED
      BY <3>1, <3>2 DEF Released, Clears, Asks, Ends
  <2>3. CASE k \in gaps
    BY <1>2, <2>3 DEF Released
  <2> QED
    BY <2>2, <2>3
<1>20. \A i, j \in DOMAIN cmds' : j < i => j + 1 < i + 1
  BY <1>2
<1>21. Finalizes'
  BY <1>2, <1>4, <1>20 DEF LinkInv, Finalizes
<1>22. \A k \in Keys : torrents[k].kind = "temp" => torrents'[k].kind = "temp"
  BY <1>4, <1>6
<1>23. Cancels'
  <2> SUFFICES ASSUME NEW i \in DOMAIN cmds', cmds'[i].op = "Cancel", cmds'[i].from = "dialog"
               PROVE  /\ torrents'[cmds'[i].key].kind = "temp"
                      /\ \A j \in DOMAIN cmds' : j < i /\ cmds'[j].key = cmds'[i].key
                            => cmds'[j].op \in {"AddTorrentFile", "AddMagnet"}
    BY DEF Cancels
  <2>1. /\ torrents[cmds[i + 1].key].kind = "temp"
        /\ \A j \in DOMAIN cmds : j < i + 1 /\ cmds[j].key = cmds[i + 1].key =>
             cmds[j].op \in {"AddTorrentFile", "AddMagnet"}
    BY <1>2 DEF LinkInv, Cancels
  <2>2. cmds'[i] \in Commands
    BY <1>2
  <2> QED
    BY <1>2, <1>20, <1>22, <2>1, <2>2 DEF Commands
<1>24. AddsFollow'
  <2> SUFFICES ASSUME NEW k \in Keys
               PROVE  /\ \A i \in DOMAIN cmds' :
                           /\ cmds'[i].op = "AddTorrentFile" /\ cmds'[i].from = "dialog"
                           /\ cmds'[i].key = k
                           => Follows(k, i)'
                      /\ ui'.at = "addFile" /\ ui'.key = k => Over(k)'
    BY DEF AddsFollow
  <2>1. k # k0 /\ Clean(k) => Clean(k)'
    BY <1>4, <1>6 DEF Clean
  <2>2. ASSUME NEW i \in DOMAIN cmds', cmds'[i].op = "AddTorrentFile", cmds'[i].from = "dialog",
               cmds'[i].key = k
        PROVE  Follows(k, i)'
    <3>1. Follows(k, i + 1) /\ 1 < i + 1
      BY <1>2, <2>2 DEF LinkInv, AddsFollow
    <3>2. k # k0
      BY <1>2, <1>3, <3>1 DEF Follows, Asks
    <3>3. \A j \in DOMAIN cmds' : j < i => ~Asks(cmds'[j], k)
      BY <1>2, <1>20, <3>1 DEF Follows
    <3>4. ASSUME NEW j \in DOMAIN cmds, j < i + 1, Ends(cmds[j], k)
          PROVE  j - 1 \in DOMAIN cmds' /\ j - 1 < i /\ Ends(cmds'[j - 1], k)
      BY <1>2, <3>4 DEF Ends
    <3>5. Clean(k)' \/ \E m \in DOMAIN cmds' : m < i /\ Ends(cmds'[m], k)
      BY <2>1, <3>1, <3>2, <3>4 DEF Follows
    <3> QED
      BY <3>3, <3>5 DEF Follows, Asks, Ends
  <2>3. ASSUME ui'.at = "addFile", ui'.key = k PROVE Over(k)'
    <3>1. Over(k)
      BY <1>2, <2>3 DEF LinkInv, AddsFollow
    <3>2. k # k0
      BY <1>2, <1>3, <3>1 DEF Over, Asks
    <3>3. \A j \in DOMAIN cmds' : ~Asks(cmds'[j], k)
      BY <1>2, <3>1 DEF Over
    <3>4. ASSUME NEW j \in DOMAIN cmds, Ends(cmds[j], k)
          PROVE  j - 1 \in DOMAIN cmds' /\ Ends(cmds'[j - 1], k)
      BY <1>2, <3>4 DEF Ends
    <3>5. Clean(k)' \/ \E m \in DOMAIN cmds' : Ends(cmds'[m], k)
      BY <2>1, <3>1, <3>2, <3>4 DEF Over
    <3> QED
      BY <3>3, <3>5 DEF Over, Asks, Ends
  <2> QED
    BY <2>2, <2>3
<1>25. WaitsOnce'
  <2>1. \A k \in Keys : pending[k] < l
    BY <1>2, <1>3 DEF LinkInv, WaitsOnce
  <2>2. \A k, m \in Keys : pending'[k] = pending'[m] /\ pending'[k] # 0 => k = m
    BY <1>4, <1>6, <1>8, <2>1 DEF LinkInv, WaitsOnce
  <2>3. ASSUME NEW i \in DOMAIN cmds', cmds'[i].op = "Prepare", NEW k \in Keys
        PROVE  pending'[k] < cmds'[i].link
    <3>1. i + 1 \in DOMAIN cmds /\ 1 < i + 1 /\ cmds'[i] = cmds[i + 1]
      BY <1>2
    <3>2. l < cmds[i + 1].link /\ pending[k] < cmds[i + 1].link
      BY <1>2, <1>3, <2>3, <3>1 DEF LinkInv, QueueOK, WaitsOnce
    <3> QED
      BY <1>4, <1>6, <3>1, <3>2
  <2> QED
    BY <2>2, <2>3 DEF WaitsOnce
<1> QED
  BY <1>25, <1>2, <1>7, <1>13, <1>15, <1>16, <1>17, <1>19, <1>21, <1>23, <1>24 DEF LinkInv

\* Metadata arrive for a link that waits.
LEMMA MetadataStep ==
    ASSUME LinkAssumption, LinkInv, NEW k0 \in Keys, Magnet!MetadataArrives(k0)
    PROVE  LinkInv'
<1>1. PICK a \in Magnet!Outcomes :
        /\ promise' = [promise EXCEPT ![pending[k0]] = a]
        /\ exports' = IF a = "exported" THEN exports \cup {k0} ELSE exports
        /\ gaps' = IF a = "nullopt" THEN gaps \cup {k0} ELSE gaps
  BY DEF Magnet!MetadataArrives
<1>2. /\ pending[k0] # 0 /\ pending' = [pending EXCEPT ![k0] = 0]
      /\ prepared' = prepared \cup {k0} /\ Magnet!Alive
      /\ UNCHANGED <<ui, dialog, cached, task, future, torrents, cmds, adds, others>>
  BY DEF Magnet!MetadataArrives, Magnet!uiVars, Magnet!taskVars
<1>3. a \in Magnet!Answers
  BY DEF Magnet!Outcomes, Magnet!Answers
<1>4. Magnet!TypeOK
  BY DEF LinkInv
<1>5. /\ promise \in [Magnet!Adds -> Magnet!Answers \cup {"unset"}]
      /\ pending \in [Keys -> {0} \cup Magnet!Adds]
      /\ adds \in Nat /\ \A k \in Keys : pending[k] \in Nat
  BY <1>4 DEF Magnet!TypeOK, Magnet!Adds, LinkAssumption
<1>6. PICK l \in Magnet!Adds : l = pending[k0] /\ l <= adds /\ l > 0 /\ l \in Nat
  BY <1>2, <1>5 DEF LinkInv, NotesOK, Magnet!Adds, LinkAssumption
<1>7. promise' = [promise EXCEPT ![l] = a]
  BY <1>1, <1>6
<1>8. adds > 0 /\ adds \in Magnet!Adds
  BY <1>4, <1>5, <1>6 DEF Magnet!TypeOK, Magnet!Adds
<1>9. Magnet!TypeOK'
  <2>1. promise' \in [Magnet!Adds -> Magnet!Answers \cup {"unset"}]
        /\ pending' \in [Keys -> {0} \cup Magnet!Adds]
    BY <1>2, <1>3, <1>5, <1>7
  <2>2. prepared' \in SUBSET Keys /\ exports' \in SUBSET Keys /\ gaps' \in SUBSET Keys
    BY <1>1, <1>2, <1>4 DEF Magnet!TypeOK
  <2> QED
    BY <1>2, <1>4, <2>1, <2>2 DEF Magnet!TypeOK
<1>10. \A k \in Keys : pending'[k] = adds => pending[k] = adds /\ k # k0
  BY <1>2, <1>5, <1>8
\* Of the links only the one that waited is answered.
<1>11. l # adds => promise'[adds] = promise[adds]
  BY <1>5, <1>7, <1>8
<1>12. l = adds => /\ promise[adds] = "unset" /\ promise'[adds] = a
                   /\ ui.at # "idle" => k0 = ui.key
  BY <1>5, <1>6, <1>7, <1>8 DEF LinkInv, NotesOK
<1>13. ThreadsOK'
  BY <1>1, <1>2, <1>11, <1>12 DEF LinkInv, ThreadsOK, Given
<1>14. NotesOK'
  <2>1. \A n \in Magnet!Adds : n > adds => promise'[n] = "unset"
    BY <1>5, <1>6, <1>7 DEF LinkInv, NotesOK, Magnet!Adds, LinkAssumption
  <2>2. \A k \in Keys : pending'[k] <= adds
    BY <1>2, <1>5 DEF LinkInv, NotesOK
  <2>3. ASSUME NEW k \in Keys, pending'[k] = adds
        PROVE  promise'[adds] = "unset" /\ (ui.at # "idle" => k = ui.key)
    <3>1. pending[k] = adds /\ k # k0
      BY <1>10, <2>3
    <3>2. promise[adds] = "unset" /\ (ui.at # "idle" => k = ui.key)
      BY <1>8, <3>1 DEF LinkInv, NotesOK
    <3>3. l # adds
      BY <1>6, <1>8, <3>1 DEF LinkInv, WaitsOnce
    <3> QED
      BY <1>11, <3>2, <3>3
  <2> QED
    BY <1>2, <2>1, <2>2, <2>3 DEF NotesOK
<1>15. QueueOK'
  BY <1>2 DEF LinkInv, QueueOK
<1>16. WaitsOnce'
  <2>1. \A k \in Keys : pending'[k] \in {pending[k], 0}
    BY <1>2, <1>5
  <2>2. \A k, m \in Keys : pending'[k] = pending'[m] /\ pending'[k] # 0 => k = m
    BY <2>1 DEF LinkInv, WaitsOnce
  <2>3. \A i \in DOMAIN cmds : cmds[i].op = "Prepare" =>
          \A k \in Keys : pending'[k] < cmds[i].link
    BY <1>5, <2>1 DEF LinkInv, WaitsOnce, QueueOK
  <2> QED
    BY <1>2, <2>2, <2>3 DEF WaitsOnce
<1>17. CaughtUp'
  <2>1. ASSUME promise'[adds] # "unset" \/ \E k \in Keys : pending'[k] = adds
        PROVE  promise[adds] # "unset" \/ \E k \in Keys : pending[k] = adds
    BY <1>6, <1>10, <1>11, <2>1
  <2> QED
    BY <1>2, <2>1 DEF LinkInv, CaughtUp
<1>18. (Unsent <=> Unsent') /\ (Open <=> Open')
  BY <1>2 DEF Unsent, Open
<1>19. Undisturbed'
  BY <1>2, <1>18 DEF LinkInv, Undisturbed
<1>20. ASSUME Unsent, Served(ui.key)'
       PROVE  Served(ui.key) /\ (promise'[adds] \in Given => ui.key \in prepared')
  <2>1. ui.key \in Keys /\ ui.at # "idle"
    BY <1>4, <1>20 DEF LinkInv, Magnet!TypeOK, ThreadsOK, Unsent, Open
  <2>2. CASE l = adds
    <3>1. k0 = ui.key
      BY <1>12, <2>1, <2>2
    <3> QED
      BY <1>2, <1>6, <1>8, <2>2, <3>1 DEF Served
  <2>3. CASE l # adds
    <3>1. Served(ui.key)
      BY <1>2, <1>10, <1>11, <1>20, <2>1, <2>3 DEF Served
    <3> QED
      BY <1>2, <1>11, <1>20, <2>3, <3>1 DEF LinkInv, Held
  <2> QED
    BY <2>2, <2>3
<1>21. Held'
  BY <1>2, <1>18, <1>20 DEF LinkInv, Held
<1>22. ASSUME NEW k \in Keys PROVE Released(k)'
  <2>1. Released(k)
    BY DEF LinkInv
  <2>2. CASE k \notin gaps'
    <3>1. k \notin gaps /\ (k = k0 => a # "nullopt")
      BY <1>1, <2>2
    <3>2. OwnLink(k) => OwnLink(k)'
      <4> SUFFICES ASSUME OwnLink(k) PROVE pending'[k] = adds \/ promise'[adds] \in Given
        BY <1>2, <1>18 DEF OwnLink, Served
      <4>1. pending[k] = adds \/ promise[adds] \in Given
        BY DEF OwnLink, Served
      <4>2. CASE l = adds
        <5>1. pending[k] = adds
          BY <1>12, <4>1, <4>2 DEF Given
        <5>2. pending[k] = pending[k0] /\ pending[k] # 0
          BY <1>6, <1>8, <4>2, <5>1
        <5>3. k = k0
          BY <5>2 DEF LinkInv, WaitsOnce
        <5> QED
          BY <1>3, <1>12, <3>1, <4>2, <5>3 DEF Magnet!Answers, Given
      <4>3. CASE l # adds
        BY <1>2, <1>5, <1>6, <1>11, <4>1, <4>3
      <4> QED
        BY <4>2, <4>3
    <3> QED
      BY <1>2, <1>18, <2>1, <3>1, <3>2 DEF Released, Magnet!Alive
  <2>3. CASE k \in gaps'
    BY <2>3 DEF Released
  <2> QED
    BY <2>2, <2>3
<1>23. Finalizes' /\ Cancels'
  BY <1>2 DEF LinkInv, Finalizes, Cancels
<1>24. \A k \in Keys : Clean(k) => Clean(k)'
  BY <1>2, <1>5 DEF Clean
<1>25. AddsFollow'
  BY <1>2, <1>24 DEF LinkInv, AddsFollow, Follows, Over
<1> QED
  BY <1>9, <1>13, <1>14, <1>15, <1>16, <1>17, <1>19, <1>21, <1>22, <1>23, <1>25 DEF LinkInv

-----------------------------------------------------------------------------
(* The dialog and its call.                                                *)

\* The user opens a link.
LEMMA PresentStep ==
    ASSUME LinkAssumption, LinkInv, NEW k0 \in Keys, Magnet!Present(k0)
    PROVE  LinkInv'
<1>1. /\ ui.at = "idle" /\ adds < MaxAdds /\ adds' = adds + 1
      /\ ui' = [at |-> "dialog", key |-> k0] /\ dialog' = Magnet!PendingDialog
      /\ cached' = "none" /\ task' = "starting" /\ future' = "pending"
      /\ UNCHANGED <<pending, prepared, torrents, promise, cmds, exports, others, gaps>>
  BY DEF Magnet!Present, Magnet!workerVars
<1>2. Magnet!TypeOK
  BY DEF LinkInv
<1>3. /\ adds \in Nat /\ adds + 1 \in Magnet!Adds /\ \A k \in Keys : pending[k] \in Nat
      /\ \A i \in DOMAIN cmds : cmds[i].link \in Nat
  <2>1. adds \in Nat /\ adds + 1 \in Magnet!Adds
    BY <1>1, <1>2 DEF Magnet!TypeOK, Magnet!Adds, LinkAssumption
  <2>2. \A k \in Keys : pending[k] \in Nat
    BY <1>2 DEF Magnet!TypeOK, Magnet!Adds, LinkAssumption
  <2>3. ASSUME NEW i \in DOMAIN cmds PROVE cmds[i] \in Commands
    <3>1. cmds \in Seq(Commands)
      BY <1>2 DEF Magnet!TypeOK, Commands
    <3> QED
      BY <3>1
  <2>4. \A i \in DOMAIN cmds : cmds[i].link \in Nat
    BY <2>3 DEF Commands, LinkAssumption
  <2> QED
    BY <2>1, <2>2, <2>4
<1>4. k0 # Magnet!NoKey
  BY DEF LinkAssumption
<1>5. Magnet!TypeOK'
  BY <1>1, <1>2, <1>3 DEF Magnet!TypeOK, Magnet!Adds, Magnet!PendingDialog, Magnet!Answers
<1>6. promise[adds + 1] = "unset" /\ \A k \in Keys : pending[k] < adds + 1
  BY <1>3 DEF LinkInv, NotesOK
<1>7. ThreadsOK'
  BY <1>1, <1>3, <1>4 DEF ThreadsOK, Magnet!PendingDialog, Given
<1>8. NotesOK'
  BY <1>1, <1>3, <1>6 DEF LinkInv, NotesOK, Magnet!Adds
<1>9. \A i \in DOMAIN cmds : cmds[i].link < adds + 1
  BY <1>3 DEF LinkInv, QueueOK
<1>10. QueueOK' /\ WaitsOnce'
  BY <1>1, <1>3, <1>9 DEF LinkInv, QueueOK, WaitsOnce
<1>11. CaughtUp'
  BY <1>1, <1>3, <1>6 DEF CaughtUp
<1>12. Undisturbed'
  BY <1>1, <1>3, <1>9 DEF Undisturbed
<1>13. Held'
  BY <1>1, <1>3, <1>6 DEF Held, Served, Given
<1>14. ASSUME NEW k \in Keys PROVE Released(k)'
  <2>1. Released(k) /\ Magnet!Alive /\ ~OwnLink(k) /\ ~Open
    BY <1>1 DEF LinkInv, Magnet!Alive, OwnLink, Unsent, Open
  <2> QED
    BY <1>1, <2>1 DEF Released, Magnet!Alive
<1>15. Finalizes' /\ Cancels'
  BY <1>1 DEF LinkInv, Finalizes, Cancels
<1>16. AddsFollow'
  BY <1>1 DEF LinkInv, AddsFollow, Follows, Over, Clean
<1> QED
  BY <1>5, <1>7, <1>8, <1>10, <1>11, <1>12, <1>13, <1>14, <1>15, <1>16 DEF LinkInv

\* The call queues its prepare.
LEMMA TaskAsksStep ==
    ASSUME LinkAssumption, LinkInv, Magnet!TaskAsks
    PROVE  LinkInv'
<1> DEFINE c == Magnet!Cmd("Prepare", ui.key, {}, "dialog")
           n == Len(cmds) + 1
<1>1. /\ Magnet!Alive /\ task = "starting" /\ cmds' = Append(cmds, c) /\ task' = "waiting"
      /\ UNCHANGED <<ui, dialog, cached, future, pending, prepared, torrents, promise,
                     exports, adds, others, gaps>>
  BY DEF Magnet!TaskAsks, Magnet!TaskStep, Magnet!Enqueue, Magnet!uiVars, Magnet!workerVars
<1>2. Magnet!TypeOK
  BY DEF LinkInv
<1>3. /\ ui.at \notin {"idle", "addFile", "remove", "submit"} /\ adds > 0
      /\ future = "pending" /\ cached = "none" /\ ui.key \in Keys
      /\ ui.at = "join" => ui.key \in gaps
  BY <1>1, <1>2 DEF LinkInv, ThreadsOK, Magnet!TypeOK
<1>4. /\ c.op = "Prepare" /\ c.key = ui.key /\ c.link = adds /\ c.from = "dialog"
      /\ c \in Commands
  BY <1>2, <1>3 DEF Magnet!Cmd, Commands, Magnet!Ops, Magnet!Froms, Magnet!TypeOK
<1> HIDE DEF c
<1>5. cmds \in Seq(Commands) /\ adds \in Nat /\ \A k \in Keys : pending[k] \in Nat
  BY <1>2 DEF Magnet!TypeOK, Commands, Magnet!Adds, LinkAssumption
<1>6. /\ Len(cmds) \in Nat /\ DOMAIN cmds = 1 .. Len(cmds) /\ DOMAIN cmds' = 1 .. n
      /\ n \in DOMAIN cmds' /\ cmds' \in Seq(Commands)
      /\ \A i \in DOMAIN cmds : i \in DOMAIN cmds' /\ cmds'[i] = cmds[i]
      /\ cmds'[n] = c
      /\ \A i \in DOMAIN cmds' : i \in DOMAIN cmds \/ i = n
  BY <1>1, <1>4, <1>5, Appended
<1>7. \A i \in DOMAIN cmds : i < n /\ i # n
  BY <1>6
<1>8. \A i, j \in DOMAIN cmds' : i < j => i \in DOMAIN cmds
  BY <1>6
<1> HIDE DEF n
<1>9. Magnet!TypeOK'
  BY <1>1, <1>2, <1>6 DEF Magnet!TypeOK, Commands
<1>10. ThreadsOK'
  BY <1>1, <1>3 DEF LinkInv, ThreadsOK, Given
<1>11. NotesOK'
  BY <1>1 DEF LinkInv, NotesOK
\* Nothing of this link has been handled.
<1>12. promise[adds] = "unset" /\ \A k \in Keys : pending[k] # adds /\ pending[k] < adds
  <2>1. promise[adds] = "unset" /\ \A k \in Keys : pending[k] # adds
    BY <1>1, <1>3 DEF LinkInv, CaughtUp
  <2>2. \A k \in Keys : pending[k] <= adds
    BY DEF LinkInv, NotesOK
  <2> QED
    BY <1>5, <2>1, <2>2
<1>13. \A i \in DOMAIN cmds : cmds[i].op = "Prepare" => cmds[i].link < adds
  <2> SUFFICES ASSUME NEW i \in DOMAIN cmds, cmds[i].op = "Prepare" PROVE cmds[i].link < adds
    OBVIOUS
  <2>1. cmds[i].link # adds /\ cmds[i].link <= adds
    BY <1>1 DEF LinkInv, QueueOK
  <2>2. cmds[i] \in Commands
    BY <1>5
  <2> QED
    BY <1>5, <2>1, <2>2 DEF Commands, LinkAssumption
<1>14. QueueOK'
  <2>1. \A i \in DOMAIN cmds' : cmds'[i].link <= adds
    BY <1>4, <1>5, <1>6 DEF LinkInv, QueueOK
  <2>2. \A i, j \in DOMAIN cmds' : i < j => cmds'[i].link <= cmds'[j].link
    BY <1>4, <1>6, <1>8, <2>1 DEF LinkInv, QueueOK
  <2>3. \A i, j \in DOMAIN cmds' :
          cmds'[i].op = "Prepare" /\ cmds'[j].op = "Prepare" /\ i < j
            => cmds'[i].link < cmds'[j].link
    BY <1>4, <1>6, <1>8, <1>13 DEF LinkInv, QueueOK
  <2>4. \A i \in DOMAIN cmds' : cmds'[i].op = "Prepare" =>
          cmds'[i].link > 0 /\ (cmds'[i].link = adds => cmds'[i].key = ui.key)
    BY <1>3, <1>4, <1>6 DEF LinkInv, QueueOK
  <2> QED
    BY <1>1, <2>1, <2>2, <2>3, <2>4 DEF QueueOK
<1>15. WaitsOnce'
  BY <1>1, <1>4, <1>6, <1>12 DEF LinkInv, WaitsOnce
<1>16. CaughtUp'
  BY <1>1, <1>12 DEF CaughtUp
<1>17. Unsent' => Unsent
  BY <1>1 DEF Unsent, Open
<1>18. Undisturbed'
  BY <1>1, <1>4, <1>6, <1>17 DEF LinkInv, Undisturbed
<1>19. Held'
  BY <1>1, <1>3, <1>12 DEF Held, Served, Given
<1>20. ASSUME NEW k \in Keys PROVE Released(k)'
  <2>1. Released(k) /\ ~OwnLink(k)
    BY <1>12 DEF LinkInv, OwnLink, Served, Given
  <2>2. CASE k \notin gaps
    <3>1. torrents[k].kind = "temp" => \E i \in DOMAIN cmds' : Clears(cmds'[i], k)
      BY <1>1, <1>6, <2>1, <2>2 DEF Released
    <3>2. ASSUME NEW i \in DOMAIN cmds', Asks(cmds'[i], k)
          PROVE  \/ \E j \in DOMAIN cmds' : j > i /\ Ends(cmds'[j], k)
                 \/ k = ui.key /\ Open /\ cmds'[i].link = adds
      <4>1. CASE i \in DOMAIN cmds
        <5>1. \E j \in DOMAIN cmds : j > i /\ Ends(cmds[j], k)
          BY <1>1, <1>6, <2>1, <2>2, <3>2, <4>1 DEF Released
        <5> QED
          BY <1>6, <5>1
      <4>2. CASE i = n
        <5>1. k = ui.key /\ cmds'[i].link = adds
          BY <1>4, <1>6, <3>2, <4>2 DEF Asks
        <5>2. Open
          BY <1>1, <1>2, <1>3, <2>2, <5>1 DEF Open, Magnet!Alive, Magnet!TypeOK
        <5> QED
          BY <5>1, <5>2
      <4> QED
        BY <1>6, <4>1, <4>2
    <3> QED
      BY <1>1, <3>1, <3>2 DEF Released, Clears, Asks, Ends, Open
  <2>3. CASE k \in gaps
    BY <1>1, <2>3 DEF Released
  <2> QED
    BY <2>2, <2>3
<1>21. Finalizes' /\ Cancels'
  BY <1>1, <1>4, <1>6, <1>8 DEF LinkInv, Finalizes, Cancels
<1>22. AddsFollow'
  <2> SUFFICES ASSUME NEW k \in Keys, NEW i \in DOMAIN cmds', cmds'[i].op = "AddTorrentFile",
                      cmds'[i].from = "dialog", cmds'[i].key = k
               PROVE  Follows(k, i)'
    BY <1>1, <1>3 DEF AddsFollow
  <2>1. i \in DOMAIN cmds
    BY <1>4, <1>6
  <2>2. Follows(k, i)
    BY <1>6, <2>1 DEF LinkInv, AddsFollow
  <2>3. \A j \in DOMAIN cmds' : j < i => j \in DOMAIN cmds /\ cmds'[j] = cmds[j]
    BY <1>6, <1>8
  <2> QED
    BY <1>1, <1>6, <2>2, <2>3 DEF Follows, Clean, Asks, Ends
<1> QED
  BY <1>9, <1>10, <1>11, <1>14, <1>15, <1>16, <1>18, <1>19, <1>20, <1>21, <1>22 DEF LinkInv

\* The dialog has the metadata, or they wait in the future: the temporary torrent is
\* there, and the queue holds nothing but adds.
LEMMA Ready ==
    ASSUME LinkInv, Open, cached # "none" \/ future \in Given
    PROVE  /\ Unsent /\ Served(ui.key) /\ ui.key \in Keys /\ adds > 0
           /\ task = "done" /\ torrents[ui.key].kind = "temp" /\ ui.key \in prepared
           /\ \A i \in DOMAIN cmds : cmds[i].op \in {"AddTorrentFile", "AddMagnet"}
<1>1. Magnet!TypeOK /\ ThreadsOK
  BY DEF LinkInv
<1>2. Unsent /\ ui.at # "idle" /\ ui.key \in Keys
  BY <1>1 DEF Unsent, Open, ThreadsOK, Magnet!TypeOK
<1>3. adds > 0 /\ promise[adds] \in Given /\ task = "done"
  BY <1>1, <1>2 DEF ThreadsOK, Magnet!TypeOK, Given
<1>4. Served(ui.key) /\ promise[adds] # "unset"
  BY <1>3 DEF Served, Given
<1>5. torrents[ui.key].kind = "temp" /\ ui.key \in prepared
  BY <1>2, <1>3, <1>4 DEF LinkInv, Held
<1>6. ASSUME NEW i \in DOMAIN cmds PROVE cmds[i].op \in {"AddTorrentFile", "AddMagnet"}
  <2>1. cmds[i].op # "Prepare" /\ cmds[i].link = adds
    BY <1>3, <1>4 DEF LinkInv, CaughtUp
  <2>2. cmds[i].op \notin {"Cancel", "Finalize", "Remove"}
    BY <1>2, <2>1 DEF LinkInv, Undisturbed
  <2>3. cmds \in Seq(Commands)
    BY <1>1 DEF Magnet!TypeOK, Commands
  <2>4. cmds[i] \in Commands
    BY <2>3
  <2> QED
    BY <2>1, <2>2, <2>4 DEF Commands, Magnet!Ops
<1> QED
  BY <1>2, <1>3, <1>4, <1>5, <1>6

\* The timer of the dialog reads the future.
LEMMA PollStep ==
    ASSUME LinkInv, Magnet!PollMetadata PROVE LinkInv'
<1>1. /\ ui.at = "dialog" /\ future \in Magnet!Answers /\ future' = "taken"
      /\ \/ future = "nullopt" /\ dialog' = Magnet!FailedDialog /\ UNCHANGED cached
         \/ future # "nullopt" /\ cached' = future /\ dialog' = Magnet!ReadyDialog
      /\ UNCHANGED <<ui, task, pending, prepared, torrents, promise, cmds, exports, adds,
                     others, gaps>>
  BY DEF Magnet!PollMetadata, Magnet!workerVars
<1>2. Magnet!TypeOK'
  BY <1>1 DEF LinkInv, Magnet!TypeOK, Magnet!Answers, Magnet!FailedDialog, Magnet!ReadyDialog
<1>3. task \notin {"starting", "waiting"}
  BY <1>1 DEF LinkInv, ThreadsOK, Magnet!Answers
<1>4. ThreadsOK'
  BY <1>1, <1>3 DEF LinkInv, ThreadsOK, Magnet!Answers, Given, Magnet!FailedDialog,
     Magnet!ReadyDialog
<1>5. (Unsent <=> Unsent') /\ (Open <=> Open')
  BY <1>1, <1>3 DEF Unsent, Open, Given, Magnet!Answers
<1>6. \A k \in Keys : OwnLink(k) => OwnLink(k)'
  BY <1>1, <1>5 DEF OwnLink, Served
<1> QED
  BY <1>1, <1>2, <1>4, <1>5, <1>6, QuietStep DEF Magnet!workerVars, Magnet!Alive

\* Boxes are ticked.
LEMMA TickedStep ==
    ASSUME LinkInv, NEW w \in SUBSET Files, Magnet!Ticked(w) PROVE LinkInv'
<1>1. /\ ui.at = "dialog" /\ dialog.meta = "ready"
      /\ dialog' = [dialog EXCEPT !.ticked = w]
      /\ UNCHANGED <<ui, cached, task, future, pending, prepared, torrents, promise, cmds,
                     exports, adds, others, gaps>>
  BY DEF Magnet!Ticked, Magnet!workerVars, Magnet!taskVars
<1>2. Magnet!TypeOK'
  BY <1>1 DEF LinkInv, Magnet!TypeOK
<1>3. ThreadsOK'
  BY <1>1 DEF LinkInv, ThreadsOK
<1>4. (Unsent <=> Unsent') /\ (Open <=> Open')
  BY <1>1 DEF Unsent, Open
<1>5. \A k \in Keys : OwnLink(k) => OwnLink(k)'
  BY <1>1, <1>4 DEF OwnLink, Served
<1> QED
  BY <1>1, <1>2, <1>3, <1>4, <1>5, QuietStep DEF Magnet!workerVars, Magnet!Alive

\* The user leaves the dialog.
LEMMA LeaveStep ==
    ASSUME LinkInv, Magnet!Accept \/ Magnet!Reject PROVE LinkInv'
<1>1. /\ ui.at = "dialog"
      /\ \/ ui' = [ui EXCEPT !.at = "submit"] /\ dialog.meta = "ready"
         \/ ui' = [ui EXCEPT !.at = "cleanup"]
      /\ UNCHANGED <<dialog, cached, task, future, pending, prepared, torrents, promise, cmds,
                     exports, adds, others, gaps>>
  BY DEF Magnet!Accept, Magnet!Reject, Magnet!Go, Magnet!workerVars, Magnet!taskVars
<1>2. ui'.at \in {"submit", "cleanup"} /\ ui'.key = ui.key
      /\ (ui'.at = "submit" => cached # "none")
  BY <1>1 DEF LinkInv, Magnet!TypeOK, ThreadsOK
<1>3. Magnet!TypeOK'
  BY <1>1 DEF LinkInv, Magnet!TypeOK
<1>4. ThreadsOK'
  BY <1>1, <1>2 DEF LinkInv, ThreadsOK
<1>5. (Unsent <=> Unsent') /\ (Open <=> Open')
  BY <1>1, <1>2 DEF Unsent, Open
<1>6. \A k \in Keys : OwnLink(k) => OwnLink(k)'
  BY <1>1, <1>2, <1>5 DEF OwnLink, Served
<1> QED
  BY <1>1, <1>2, <1>3, <1>4, <1>5, <1>6, QuietStep DEF Magnet!workerVars, Magnet!Alive

\* The exported file is removed, or the UI thread has waited for the call.
LEMMA CloseStep ==
    ASSUME LinkAssumption, LinkInv, Magnet!RemoveExport \/ Magnet!Join PROVE LinkInv'
<1>1. /\ UNCHANGED <<dialog, cached, future, pending, prepared, torrents, promise, cmds,
                     adds, others, gaps>>
      /\ \/ /\ ui.at = "remove" /\ exports' = exports \ {ui.key}
            /\ ui' = [ui EXCEPT !.at = "join"] /\ task' = task
         \/ /\ ui.at = "join" /\ ui' = [at |-> "idle", key |-> Magnet!NoKey] /\ task' = "none"
            /\ task = "done" /\ exports' = exports
  BY DEF Magnet!RemoveExport, Magnet!Join, Magnet!Go, Magnet!workerVars, Magnet!taskVars
<1>2. /\ ui'.at \in {"join", "idle"} /\ (ui'.at = "idle" <=> ui'.key = Magnet!NoKey)
      /\ ui'.at = "join" => ui'.key = ui.key /\ ui.at = "remove" /\ task' = task
      /\ ui'.at = "idle" => task' = "none"
  BY <1>1 DEF LinkInv, Magnet!TypeOK, ThreadsOK
<1>3. Magnet!TypeOK'
  BY <1>1, <1>2 DEF LinkInv, Magnet!TypeOK
<1>4. ThreadsOK'
  BY <1>1, <1>2 DEF LinkInv, ThreadsOK
<1>5. ~Open /\ ~Open' /\ ~Unsent /\ ~Unsent' /\ Magnet!Alive
  BY <1>1, <1>2 DEF Open, Unsent, Magnet!Alive
<1>6. \A k \in Keys : ~OwnLink(k)
  BY <1>5 DEF OwnLink
<1> QED
  BY <1>1, <1>2, <1>3, <1>4, <1>5, <1>6, QuietStep DEF Magnet!workerVars

\* The call has its answer.
LEMMA AnsweredStep ==
    ASSUME LinkInv, Magnet!TaskAnswered PROVE LinkInv'
<1>1. /\ task = "waiting" /\ task' = "done" /\ promise[adds] # "unset" /\ Magnet!Alive
      /\ future' = IF future = "pending" THEN promise[adds] ELSE future
      /\ UNCHANGED <<ui, dialog, cached, pending, prepared, torrents, promise, cmds, exports,
                     adds, others, gaps>>
  BY DEF Magnet!TaskAnswered, Magnet!TaskStep, Magnet!uiVars, Magnet!workerVars
<1>2. Magnet!TypeOK
  BY DEF LinkInv
<1>3. future = "pending" /\ cached = "none" /\ ui.at # "idle" /\ adds > 0
  BY <1>1, <1>2 DEF LinkInv, ThreadsOK
<1>4. adds \in Magnet!Adds
  BY <1>2, <1>3 DEF Magnet!TypeOK, Magnet!Adds
<1>5. future' \in Magnet!Answers /\ future' = promise[adds]
  BY <1>1, <1>2, <1>3, <1>4 DEF Magnet!TypeOK
<1>6. Magnet!TypeOK'
  BY <1>1, <1>2, <1>5 DEF Magnet!TypeOK
<1>7. ThreadsOK'
  BY <1>1, <1>3, <1>5 DEF LinkInv, ThreadsOK
<1>8. (Unsent' => Unsent) /\ (Open <=> Open')
  BY <1>1 DEF Unsent, Open
<1>9. \A i \in DOMAIN cmds : cmds[i].op # "Prepare"
  BY <1>1, <1>3 DEF LinkInv, CaughtUp
<1>10. ASSUME NEW k \in Keys, OwnLink(k) PROVE OwnLink(k)'
  <2>1. promise[adds] \in Given
    BY <1>1, <1>3, <1>10 DEF OwnLink, Served, LinkInv, NotesOK
  <2> QED
    BY <1>1, <1>5, <1>8, <1>10, <2>1 DEF OwnLink, Served, Unsent
<1> QED
  BY <1>1, <1>6, <1>7, <1>8, <1>9, <1>10, QuietStep DEF Magnet!workerVars, Magnet!Alive

\* The call gives up and queues its cancel.
LEMMA ExpiresStep ==
    ASSUME LinkInv, Magnet!TaskExpires PROVE LinkInv'
<1> DEFINE c == Magnet!Cmd("Cancel", ui.key, {}, "timeout")
<1>1. /\ task = "waiting" /\ task' = "done" /\ Magnet!Alive /\ cmds' = Append(cmds, c)
      /\ future' = IF future = "pending" THEN "nullopt" ELSE future
      /\ UNCHANGED <<ui, dialog, cached, pending, prepared, torrents, promise, exports,
                     adds, others, gaps>>
  BY DEF Magnet!TaskExpires, Magnet!TaskStep, Magnet!Enqueue, Magnet!uiVars, Magnet!workerVars
<1>2. Magnet!TypeOK
  BY DEF LinkInv
<1>3. /\ future = "pending" /\ cached = "none" /\ ui.at \notin {"idle", "addFile"}
      /\ adds > 0 /\ ui.key \in Keys
  BY <1>1, <1>2 DEF LinkInv, ThreadsOK, Magnet!TypeOK
<1>4. /\ c.op = "Cancel" /\ c.key = ui.key /\ c.link = adds /\ c.from = "timeout"
      /\ c \in Commands
  BY <1>2, <1>3 DEF Magnet!Cmd, Commands, Magnet!Ops, Magnet!Froms, Magnet!TypeOK
<1> HIDE DEF c
<1>5. cmds \in Seq(Commands)
  BY <1>2 DEF Magnet!TypeOK, Commands
<1>6. cmds' \in Seq(Commands)
  BY <1>1, <1>4, <1>5
<1>7. Magnet!TypeOK'
  BY <1>1, <1>2, <1>3, <1>6 DEF Magnet!TypeOK, Commands, Magnet!Answers
<1>8. ThreadsOK'
  BY <1>1, <1>3 DEF LinkInv, ThreadsOK, Given
<1>9. ~Unsent' /\ (Open <=> Open')
  BY <1>1, <1>3 DEF Unsent, Open, Given
<1>10. Ends(c, ui.key) /\ \A k \in Keys : OwnLink(k) => Clears(c, k)
  BY <1>4 DEF Ends, Clears, OwnLink
<1> QED
  BY <1>1, <1>3, <1>4, <1>7, <1>8, <1>9, <1>10, EnqueueStep DEF Magnet!workerVars, Magnet!Alive

\* The command the UI thread queues for its link.
LEMMA UiCommand ==
    ASSUME LinkInv, ui.at # "idle", NEW op \in Magnet!Ops, NEW w \in SUBSET Files,
           NEW from \in Magnet!Froms,
           cmds' = Append(cmds, Magnet!Cmd(op, ui.key, w, from))
    PROVE  /\ ui.key \in Keys /\ Magnet!Cmd(op, ui.key, w, from) \in Commands
           /\ Magnet!Cmd(op, ui.key, w, from).op = op /\ Magnet!Cmd(op, ui.key, w,
                from).key = ui.key
           /\ Magnet!Cmd(op, ui.key, w, from).from = from /\ Magnet!Cmd(op, ui.key, w,
                from).link = adds
           /\ cmds' \in Seq(Commands)
<1>1. Magnet!TypeOK /\ ui.key \in Keys
  BY DEF LinkInv, Magnet!TypeOK, ThreadsOK
<1>2. /\ Magnet!Cmd(op, ui.key, w, from) \in Commands
      /\ Magnet!Cmd(op, ui.key, w, from).op = op /\ Magnet!Cmd(op, ui.key, w, from).key = ui.key
      /\ Magnet!Cmd(op, ui.key, w, from).from = from /\ Magnet!Cmd(op, ui.key, w,
           from).link = adds
  BY <1>1 DEF Magnet!Cmd, Commands, Magnet!TypeOK
<1>3. cmds \in Seq(Commands)
  BY <1>1 DEF Magnet!TypeOK, Commands
<1>4. cmds' \in Seq(Commands)
  BY <1>2, <1>3
<1> QED
  BY <1>1, <1>2, <1>4

\* The dialog was closed without its answer read, or after it: the preparation is ended.
LEMMA CleanupStep ==
    ASSUME LinkInv, Magnet!Cleanup PROVE LinkInv'
<1>1. /\ ui.at = "cleanup" /\ Open /\ Magnet!Alive
      /\ UNCHANGED <<dialog, cached, task, pending, prepared, torrents, promise, exports, adds,
                     others>>
  BY DEF Magnet!Cleanup, Magnet!workerVars, Open, Magnet!Alive
<1>2. Magnet!TypeOK /\ ThreadsOK
  BY DEF LinkInv
<1>3. adds > 0 /\ task # "none"
  BY <1>1, <1>2 DEF ThreadsOK
<1>4. \/ /\ cached # "none" \/ future \in Given
         /\ cmds' = Append(cmds, Magnet!Cmd("Cancel", ui.key, {}, "dialog"))
         /\ ui' = [ui EXCEPT !.at = "join"] /\ future' \in {future, "taken"} /\ gaps' = gaps
      \/ /\ cached = "none" /\ future = "taken" /\ ui' = [ui EXCEPT !.at = "aborted"]
         /\ UNCHANGED <<cmds, future, gaps>>
      \/ /\ cached = "none" /\ future = "nullopt" /\ ui' = [ui EXCEPT !.at = "join"]
         /\ future' = "taken" /\ UNCHANGED <<cmds, gaps>>
      \/ /\ cached = "none" /\ future = "pending" /\ ui' = [ui EXCEPT !.at = "join"]
         /\ cmds' = Append(cmds, Magnet!Cmd("Cancel", ui.key, {}, "unanswered"))
         /\ gaps' = IF task = "starting" THEN gaps \cup {ui.key} ELSE gaps
         /\ future' = future
  BY DEF Magnet!Cleanup, Magnet!Enqueue, Magnet!Go, Given
<1>5. /\ ui'.at \in {"join", "aborted"} /\ ui'.key = ui.key
      /\ ui' \in [at : {"join", "aborted"}, key : Keys \cup {Magnet!NoKey}]
  BY <1>2, <1>4 DEF Magnet!TypeOK
<1>6. ~Open' /\ ~Unsent'
  BY <1>5 DEF Open, Unsent
<1>7. future' \in Magnet!Answers \cup {"pending", "taken"}
  BY <1>2, <1>4 DEF Magnet!TypeOK
<1>8. {} \in SUBSET Files /\ "Cancel" \in Magnet!Ops /\ "dialog" \in Magnet!Froms
      /\ "unanswered" \in Magnet!Froms
  BY DEF Magnet!Ops, Magnet!Froms
\* The metadata are there.
<1>9. CASE /\ cached # "none" \/ future \in Given
           /\ cmds' = Append(cmds, Magnet!Cmd("Cancel", ui.key, {}, "dialog"))
           /\ ui' = [ui EXCEPT !.at = "join"] /\ future' \in {future, "taken"} /\ gaps' = gaps
  <2> DEFINE c == Magnet!Cmd("Cancel", ui.key, {}, "dialog")
  <2>1. /\ ui.key \in Keys /\ task = "done" /\ torrents[ui.key].kind = "temp"
        /\ \A i \in DOMAIN cmds : cmds[i].op \in {"AddTorrentFile", "AddMagnet"}
    BY <1>1, <1>9, Ready
  <2>2. /\ c \in Commands /\ c.op = "Cancel" /\ c.key = ui.key /\ c.link = adds
        /\ cmds' \in Seq(Commands)
    BY <1>1, <1>8, <1>9, UiCommand
  <2> HIDE DEF c
  <2>3. Magnet!TypeOK'
    BY <1>1, <1>2, <1>5, <1>7, <1>9, <2>2 DEF Magnet!TypeOK, Commands
  <2>4. ui'.at = "join"
    BY <1>2, <1>9 DEF Magnet!TypeOK
  <2>5. ThreadsOK'
    BY <1>1, <1>2, <1>3, <1>5, <1>9, <2>1, <2>3, <2>4 DEF ThreadsOK, Given
  <2>6. \A k \in Keys : OwnLink(k) => Clears(c, k)
    BY <2>2 DEF OwnLink, Clears
  <2>7. cmds' = Append(cmds, c)
    BY <1>9 DEF c
  <2> QED
    BY <1>1, <1>5, <1>6, <1>9, <2>1, <2>2, <2>3, <2>4, <2>5, <2>6, <2>7, EnqueueStep
       DEF Magnet!workerVars, Magnet!Alive
\* The value was taken before: the program ends.
<1>10. CASE /\ cached = "none" /\ future = "taken" /\ ui' = [ui EXCEPT !.at = "aborted"]
            /\ UNCHANGED <<cmds, future, gaps>>
  <2>1. Magnet!TypeOK'
    BY <1>1, <1>2, <1>5, <1>10 DEF Magnet!TypeOK
  <2>2. ui'.at = "aborted"
    BY <1>2, <1>10 DEF Magnet!TypeOK
  <2>3. ThreadsOK'
    BY <1>1, <1>2, <1>3, <1>5, <1>10, <2>2 DEF ThreadsOK, Given
  <2> QED
    BY <1>1, <1>5, <1>6, <1>10, <2>1, <2>2, <2>3, QuietStep DEF Magnet!workerVars, Magnet!Alive
\* The call had nothing.
<1>11. CASE /\ cached = "none" /\ future = "nullopt" /\ ui' = [ui EXCEPT !.at = "join"]
            /\ future' = "taken" /\ UNCHANGED <<cmds, gaps>>
  <2>1. Magnet!TypeOK'
    BY <1>1, <1>2, <1>5, <1>7, <1>11 DEF Magnet!TypeOK
  <2>2. ui'.at = "join"
    BY <1>2, <1>11 DEF Magnet!TypeOK
  <2>3. task \notin {"starting", "waiting"}
    BY <1>2, <1>11 DEF ThreadsOK
  <2>4. ThreadsOK'
    BY <1>1, <1>2, <1>3, <1>5, <1>11, <2>2, <2>3 DEF ThreadsOK, Given
  <2>5. \A k \in Keys : ~OwnLink(k)
    BY <1>11, <2>3 DEF OwnLink, Unsent, Given
  <2> QED
    BY <1>1, <1>5, <1>6, <1>11, <2>1, <2>2, <2>3, <2>4, <2>5, QuietStep DEF Magnet!workerVars,
       Magnet!Alive
\* The call has not answered: the cancel follows its prepare, or the key is a gap.
<1>12. CASE /\ cached = "none" /\ future = "pending" /\ ui' = [ui EXCEPT !.at = "join"]
            /\ cmds' = Append(cmds, Magnet!Cmd("Cancel", ui.key, {}, "unanswered"))
            /\ gaps' = IF task = "starting" THEN gaps \cup {ui.key} ELSE gaps
            /\ future' = future
  <2> DEFINE c == Magnet!Cmd("Cancel", ui.key, {}, "unanswered")
  <2>1. /\ ui.key \in Keys /\ c \in Commands /\ c.op = "Cancel" /\ c.key = ui.key
        /\ c.link = adds /\ c.from = "unanswered" /\ cmds' \in Seq(Commands)
    BY <1>1, <1>8, <1>12, UiCommand
  <2> HIDE DEF c
  <2>2. gaps \subseteq gaps' /\ gaps' \in SUBSET Keys
    BY <1>2, <1>12, <2>1 DEF Magnet!TypeOK
  <2>3. Magnet!TypeOK'
    BY <1>1, <1>2, <1>5, <1>7, <1>12, <2>1, <2>2 DEF Magnet!TypeOK, Commands
  <2>4. ui'.at = "join" /\ (task = "starting" => ui.key \in gaps')
    BY <1>2, <1>12 DEF Magnet!TypeOK
  <2>5. ThreadsOK'
    BY <1>1, <1>2, <1>3, <1>5, <1>12, <2>3, <2>4 DEF ThreadsOK, Given
  <2>6. Ends(c, ui.key) /\ \A k \in Keys : OwnLink(k) => Clears(c, k)
    BY <2>1 DEF OwnLink, Clears, Ends
  <2>7. cmds' = Append(cmds, c)
    BY <1>12 DEF c
  <2> QED
    BY <1>1, <1>5, <1>6, <1>12, <2>1, <2>2, <2>3, <2>4, <2>5, <2>6, <2>7, EnqueueStep
       DEF Magnet!workerVars, Magnet!Alive
<1> QED
  BY <1>4, <1>9, <1>10, <1>11, <1>12

\* The dialog is accepted: through the exported file, or through the cached metadata.
LEMMA SubmitStep ==
    ASSUME LinkInv, Magnet!Submit PROVE LinkInv'
<1>1. /\ ui.at = "submit" /\ Open /\ Magnet!Alive
      /\ UNCHANGED <<dialog, cached, task, future, pending, prepared, torrents, promise, exports,
                     adds, others, gaps>>
  BY DEF Magnet!Submit, Magnet!workerVars, Magnet!taskVars, Open, Magnet!Alive
<1>2. Magnet!TypeOK /\ ThreadsOK
  BY DEF LinkInv
<1>3. cached # "none"
  BY <1>1, <1>2 DEF ThreadsOK
<1>4. /\ ui.key \in Keys /\ task = "done" /\ torrents[ui.key].kind = "temp" /\ adds > 0
      /\ ui.key \in prepared
      /\ \A i \in DOMAIN cmds : cmds[i].op \in {"AddTorrentFile", "AddMagnet"}
  BY <1>1, <1>3, Ready
<1>5. PICK op \in {"Cancel", "Finalize"}, w \in SUBSET Files :
        /\ cmds' = Append(cmds, Magnet!Cmd(op, ui.key, w, "dialog"))
        /\ \/ ui' = [ui EXCEPT !.at = "addFile"] /\ op = "Cancel"
           \/ ui' = [ui EXCEPT !.at = "join"]
  <2>1. dialog.ticked \in SUBSET Files /\ {} \in SUBSET Files
    BY <1>2 DEF Magnet!TypeOK
  <2> QED
    BY <2>1 DEF Magnet!Submit, Magnet!SubmitPrepared, Magnet!Enqueue, Magnet!Go, Magnet!Wanted
<1> DEFINE c == Magnet!Cmd(op, ui.key, w, "dialog")
<1>6. op \in Magnet!Ops /\ "dialog" \in Magnet!Froms
  BY DEF Magnet!Ops, Magnet!Froms
<1>7. /\ c \in Commands /\ c.op = op /\ c.key = ui.key /\ c.link = adds
      /\ cmds' \in Seq(Commands)
  BY <1>1, <1>5, <1>6, UiCommand
<1>8. cmds' = Append(cmds, c)
  BY <1>5
<1> HIDE DEF c
<1>9. /\ ui'.at \in {"join", "addFile"} /\ ui'.key = ui.key
      /\ ui' \in [at : {"join", "addFile"}, key : Keys \cup {Magnet!NoKey}]
      /\ ui'.at = "addFile" => op = "Cancel"
  BY <1>2, <1>5 DEF Magnet!TypeOK
<1>10. Magnet!TypeOK'
  BY <1>1, <1>2, <1>7, <1>9 DEF Magnet!TypeOK, Commands
<1>11. ThreadsOK'
  BY <1>1, <1>2, <1>4, <1>9 DEF ThreadsOK
<1>12. ~Open' /\ ~Unsent'
  BY <1>9 DEF Open, Unsent
<1>13. /\ op = "Cancel" => Ends(c, ui.key)
       /\ \A k \in Keys : OwnLink(k) => Clears(c, k)
  BY <1>7 DEF Ends, Clears, OwnLink
<1> QED
  BY <1>1, <1>4, <1>7, <1>8, <1>9, <1>10, <1>11, <1>12, <1>13, EnqueueStep
     DEF Magnet!workerVars, Magnet!Alive

\* The exported file is submitted, or a field of the dialog is refused.
LEMMA SubmitFileStep ==
    ASSUME LinkInv, Magnet!SubmitTorrentFile PROVE LinkInv'
<1>1. /\ ui.at = "addFile" /\ Magnet!Alive /\ ui' = [ui EXCEPT !.at = "remove"]
      /\ UNCHANGED <<dialog, cached, task, future, pending, prepared, torrents, promise, exports,
                     adds, others, gaps>>
      /\ cmds' = Append(cmds, Magnet!Cmd("AddTorrentFile", ui.key, Magnet!Wanted, "dialog"))
           \/ cmds' = cmds
  BY DEF Magnet!SubmitTorrentFile, Magnet!workerVars, Magnet!taskVars, Magnet!Go, Magnet!Enqueue,
     Magnet!Alive
<1>2. Magnet!TypeOK /\ ThreadsOK
  BY DEF LinkInv
<1>3. /\ ui'.at = "remove" /\ ui'.key = ui.key
      /\ ui' \in [at : {"remove"}, key : Keys \cup {Magnet!NoKey}]
  BY <1>1, <1>2 DEF Magnet!TypeOK
<1>4. cached # "none" /\ ui.key \in Keys /\ adds > 0
  BY <1>1, <1>2 DEF ThreadsOK, Magnet!TypeOK
<1>5. ~Open /\ ~Open' /\ ~Unsent /\ ~Unsent'
  BY <1>1, <1>3 DEF Open, Unsent
<1>6. ThreadsOK'
  BY <1>1, <1>2, <1>3, <1>4 DEF ThreadsOK
<1>7. \A k \in Keys : ~OwnLink(k)
  BY <1>5 DEF OwnLink
<1>8. CASE cmds' = cmds
  <2>1. Magnet!TypeOK'
    BY <1>1, <1>2, <1>3, <1>8 DEF Magnet!TypeOK
  <2> QED
    BY <1>1, <1>3, <1>5, <1>6, <1>7, <1>8, <2>1, QuietStep DEF Magnet!workerVars, Magnet!Alive
<1>9. CASE cmds' = Append(cmds, Magnet!Cmd("AddTorrentFile", ui.key, Magnet!Wanted, "dialog"))
  <2> DEFINE c == Magnet!Cmd("AddTorrentFile", ui.key, Magnet!Wanted, "dialog")
  <2>1. Magnet!Wanted \in SUBSET Files /\ "AddTorrentFile" \in Magnet!Ops
        /\ "dialog" \in Magnet!Froms
    BY <1>2 DEF Magnet!Wanted, Magnet!TypeOK, Magnet!Ops, Magnet!Froms
  <2>2. /\ c \in Commands /\ c.op = "AddTorrentFile" /\ c.key = ui.key /\ c.link = adds
        /\ cmds' \in Seq(Commands)
    BY <1>1, <1>9, <2>1, UiCommand
  <2> HIDE DEF c
  <2>3. Magnet!TypeOK'
    BY <1>1, <1>2, <1>3, <2>2 DEF Magnet!TypeOK, Commands
  <2>4. Over(c.key)
    BY <1>1, <1>4, <2>2 DEF LinkInv, AddsFollow
  <2>5. cmds' = Append(cmds, c)
    BY <1>9 DEF c
  <2> QED
    BY <1>1, <1>3, <1>5, <1>6, <1>7, <2>2, <2>3, <2>4, <2>5, EnqueueStep DEF Magnet!workerVars,
       Magnet!Alive
<1> QED
  BY <1>1, <1>8, <1>9

\* A command that does not come from the dialog.
LEMMA OtherStep ==
    ASSUME LinkAssumption, LinkInv, NEW op \in {"AddMagnet", "AddTorrentFile", "Remove"},
           NEW k \in Keys,
           NEW w \in SUBSET Files, Magnet!Other(op, k, w),
           ui.at \in {"idle", "dialog"}, op = "Remove" => ui.at = "idle"
    PROVE  LinkInv'
<1> DEFINE c == Magnet!Cmd(op, k, w, "client")
<1>1. /\ cmds' = Append(cmds, c) /\ others < MaxOthers /\ others' = others + 1
      /\ UNCHANGED <<ui, dialog, cached, task, future, pending, prepared, torrents, promise,
                     exports, adds, gaps>>
  BY DEF Magnet!Other, Magnet!Enqueue, Magnet!uiVars, Magnet!taskVars, Magnet!workerVars
<1>2. Magnet!TypeOK /\ ThreadsOK
  BY DEF LinkInv
<1>3. /\ c \in Commands /\ c.op = op /\ c.key = k /\ c.link = adds /\ c.from = "client"
  BY <1>2 DEF Magnet!Cmd, Commands, Magnet!Ops, Magnet!Froms, Magnet!TypeOK
<1> HIDE DEF c
<1>4. cmds' \in Seq(Commands)
  <2>1. cmds \in Seq(Commands)
    BY <1>2 DEF Magnet!TypeOK, Commands
  <2> QED
    BY <1>1, <1>3, <2>1
<1>5. others' \in 0 .. MaxOthers
  BY <1>1, <1>2 DEF Magnet!TypeOK, LinkAssumption
<1>6. Magnet!TypeOK'
  BY <1>1, <1>2, <1>4, <1>5 DEF Magnet!TypeOK, Commands
<1>7. ThreadsOK'
  BY <1>1, <1>2 DEF ThreadsOK
<1>8. (Unsent <=> Unsent') /\ (Open <=> Open')
  BY <1>1 DEF Unsent, Open
<1>9. \A m \in Keys : OwnLink(m) => OwnLink(m)'
  BY <1>1, <1>8 DEF OwnLink, Served
<1> QED
  BY <1>1, <1>3, <1>6, <1>7, <1>8, <1>9, EnqueueStep DEF Magnet!workerVars, Magnet!Alive

\* The commands the worker handles keep the types.
LEMMA HandledTypes ==
    ASSUME LinkAssumption, LinkInv, NEW op \in Magnet!Ops, Magnet!Take(op), UNCHANGED promise,
           prepared' \subseteq prepared,
           pending' \in [Keys -> {0} \cup Magnet!Adds],
           torrents' \in [Keys -> [kind : {"none", "temp", "real"}, files : SUBSET Files]]
    PROVE  Magnet!TypeOK'
<1>1. /\ cmds' \in Seq(Commands)
      /\ UNCHANGED <<ui, dialog, cached, task, future, adds, others, gaps, exports>>
  BY TakeStep
<1> QED
  BY <1>1 DEF LinkInv, Magnet!TypeOK, Commands

\* The worker cancels a preparation.
LEMMA CancelStep ==
    ASSUME LinkAssumption, LinkInv, Magnet!HandleCancel PROVE LinkInv'
<1>1. Magnet!Take("Cancel") /\ "Cancel" \in Magnet!Ops
  BY DEF Magnet!HandleCancel, Magnet!Ops
<1>2. PICK k0 \in Keys : k0 = Head(cmds).key
  BY <1>1, TakeStep DEF Commands
<1>3. /\ torrents' = [torrents EXCEPT ![k0] = Magnet!NoTorrent] /\ prepared' = prepared \ {k0}
      /\ pending' = [pending EXCEPT ![k0] = 0] /\ promise' = promise
  BY <1>2 DEF Magnet!HandleCancel, Magnet!Put
<1>4. /\ pending \in [Keys -> {0} \cup Magnet!Adds]
      /\ torrents \in [Keys -> [kind : {"none", "temp", "real"}, files : SUBSET Files]]
  BY DEF LinkInv, Magnet!TypeOK
<1>5. Magnet!NoTorrent \in [kind : {"none", "temp", "real"}, files : SUBSET Files]
      /\ Magnet!NoTorrent.kind = "none"
  BY DEF Magnet!NoTorrent
<1>6. /\ prepared' \subseteq prepared /\ pending' \in [Keys -> {0} \cup Magnet!Adds]
      /\ torrents' \in [Keys -> [kind : {"none", "temp", "real"}, files : SUBSET Files]]
  BY <1>3, <1>4, <1>5
<1>7. Magnet!TypeOK'
  BY <1>1, <1>3, <1>6, HandledTypes
<1>8. Clean(k0)' /\ torrents'[k0].kind = "none"
  BY <1>3, <1>4, <1>5 DEF Clean
<1>9. \A k \in Keys : k # k0 =>
        /\ torrents'[k] = torrents[k] /\ pending'[k] = pending[k]
        /\ k \in prepared' <=> k \in prepared
  BY <1>3, <1>4
<1> QED
  BY <1>1, <1>2, <1>3, <1>7, <1>8, <1>9, HandledStep

\* The worker finalizes a preparation: the metadata are there.
LEMMA FinalizeStep ==
    ASSUME LinkAssumption, LinkInv, Magnet!HandleFinalize PROVE LinkInv'
<1>1. Magnet!Take("Finalize") /\ "Finalize" \in Magnet!Ops
  BY DEF Magnet!HandleFinalize, Magnet!Ops
<1>2. /\ Head(cmds) \in Commands /\ Head(cmds) = cmds[1] /\ 1 \in DOMAIN cmds
      /\ Head(cmds).op = "Finalize"
  BY <1>1, TakeStep
<1>3. PICK k0 \in Keys : k0 = Head(cmds).key
  BY <1>2 DEF Commands
<1>4. k0 \in prepared
  BY <1>2, <1>3 DEF LinkInv, Finalizes
<1>5. /\ torrents' = [torrents EXCEPT ![k0] = Magnet!Real(Head(cmds).files)]
      /\ prepared' = prepared \ {k0} /\ UNCHANGED <<pending, promise>>
  BY <1>3, <1>4 DEF Magnet!HandleFinalize, Magnet!Put
<1>6. /\ pending \in [Keys -> {0} \cup Magnet!Adds]
      /\ torrents \in [Keys -> [kind : {"none", "temp", "real"}, files : SUBSET Files]]
  BY DEF LinkInv, Magnet!TypeOK
<1>7. /\ Magnet!Real(Head(cmds).files) \in [kind : {"none", "temp", "real"}, files : SUBSET Files]
      /\ Magnet!Real(Head(cmds).files).kind = "real"
  BY <1>2 DEF Magnet!Real, Commands
<1>8. /\ prepared' \subseteq prepared /\ pending' \in [Keys -> {0} \cup Magnet!Adds]
      /\ torrents' \in [Keys -> [kind : {"none", "temp", "real"}, files : SUBSET Files]]
  BY <1>5, <1>6, <1>7
<1>9. Magnet!TypeOK'
  BY <1>1, <1>5, <1>8, HandledTypes
<1>10. torrents'[k0].kind = "real"
  BY <1>5, <1>6, <1>7
<1>11. \A k \in Keys : k # k0 =>
        /\ torrents'[k] = torrents[k] /\ pending'[k] = pending[k]
        /\ k \in prepared' <=> k \in prepared
  BY <1>5, <1>6
<1> QED
  BY <1>1, <1>3, <1>5, <1>9, <1>10, <1>11, HandledStep

\* The worker handles an add or a remove: an add leaves a torrent that is there alone.
LEMMA OtherHandledStep ==
    ASSUME LinkAssumption, LinkInv, Magnet!HandleAddTorrentFile \/ Magnet!HandleAddMagnet
           \/ Magnet!HandleRemove
    PROVE  LinkInv'
<1>1. PICK op \in {"AddTorrentFile", "AddMagnet", "Remove"},
           t \in [kind : {"none", "real"}, files : SUBSET Files] :
        /\ Magnet!Take(op) /\ UNCHANGED <<pending, prepared, promise>>
        /\ \/ torrents' = torrents /\ op # "Remove"
           \/ torrents' = [torrents EXCEPT ![Head(cmds).key] = t]
        /\ op # "Remove" =>
             \/ torrents' = torrents
             \/ torrents[Head(cmds).key].kind = "none" /\ t.kind = "real"
        /\ op = "Remove" => t.kind = "none"
  <2>1. \A op \in Magnet!Ops : Magnet!Take(op) => Head(cmds).files \in SUBSET Files
    <3> SUFFICES ASSUME NEW op \in Magnet!Ops, Magnet!Take(op)
        PROVE Head(cmds).files \in SUBSET Files
      OBVIOUS
    <3>1. Head(cmds) \in Commands
      BY TakeStep
    <3> QED
      BY <3>1 DEF Commands
  <2>2. /\ \A w \in SUBSET Files :
             Magnet!Real(w) \in [kind : {"none", "real"}, files : SUBSET Files]
               /\ Magnet!Real(w).kind = "real"
        /\ Magnet!NoTorrent \in [kind : {"none", "real"}, files : SUBSET Files]
        /\ Magnet!NoTorrent.kind = "none" /\ Files \in SUBSET Files
    BY DEF Magnet!Real, Magnet!NoTorrent
  <2>3. CASE Magnet!HandleAddTorrentFile
    <3>1. /\ Magnet!Take("AddTorrentFile") /\ UNCHANGED <<pending, prepared, promise>>
          /\ \/ torrents' = torrents
             \/ /\ torrents' = [torrents EXCEPT ![Head(cmds).key] = Magnet!Real(Head(cmds).files)]
                /\ torrents[Head(cmds).key].kind = "none"
      BY <2>3 DEF Magnet!HandleAddTorrentFile, Magnet!Put
    <3>2. Head(cmds).files \in SUBSET Files
      BY <2>1, <3>1 DEF Magnet!Ops
    <3> QED
      BY <2>2, <3>1, <3>2
  <2>4. CASE Magnet!HandleAddMagnet
    <3>1. /\ Magnet!Take("AddMagnet") /\ UNCHANGED <<pending, prepared, promise>>
          /\ \/ torrents' = torrents
             \/ /\ torrents' = [torrents EXCEPT ![Head(cmds).key] = Magnet!Real(Files)]
                /\ torrents[Head(cmds).key].kind = "none"
      BY <2>4 DEF Magnet!HandleAddMagnet, Magnet!Put
    <3> QED
      BY <2>2, <3>1
  <2>5. CASE Magnet!HandleRemove
    <3>1. /\ Magnet!Take("Remove") /\ UNCHANGED <<pending, prepared, promise>>
          /\ torrents' = [torrents EXCEPT ![Head(cmds).key] = Magnet!NoTorrent]
      BY <2>5 DEF Magnet!HandleRemove, Magnet!Put
    <3> QED
      BY <2>2, <3>1
  <2> QED
    BY <2>3, <2>4, <2>5
<1>2. op \in Magnet!Ops \ {"Prepare"} /\ op \notin {"Cancel", "Finalize"}
  BY DEF Magnet!Ops
<1>3. PICK k0 \in Keys : k0 = Head(cmds).key
  BY <1>1, TakeStep DEF Commands
<1>4. /\ pending \in [Keys -> {0} \cup Magnet!Adds]
      /\ torrents \in [Keys -> [kind : {"none", "temp", "real"}, files : SUBSET Files]]
  BY DEF LinkInv, Magnet!TypeOK
<1>5. torrents' \in [Keys -> [kind : {"none", "temp", "real"}, files : SUBSET Files]]
  BY <1>1, <1>3, <1>4
<1>6. Magnet!TypeOK'
  BY <1>1, <1>2, <1>4, <1>5, HandledTypes
<1>7. \A k \in Keys : k # k0 => torrents'[k] = torrents[k]
  BY <1>1, <1>3, <1>4
<1>8. /\ torrents[k0].kind = "temp" /\ op # "Remove" => torrents'[k0] = torrents[k0]
      /\ torrents'[k0].kind = "temp" => op # "Remove" /\ torrents[k0].kind = "temp"
  BY <1>1, <1>3, <1>4
<1> QED
  BY <1>1, <1>2, <1>3, <1>6, <1>7, <1>8, HandledStep

-----------------------------------------------------------------------------
(* The invariant.                                                          *)

\* It holds when the program starts.
LEMMA LinkInit ==
    ASSUME LinkAssumption, Magnet!Init PROVE LinkInv
<1>1. /\ ui.at = "idle" /\ ui.key = Magnet!NoKey /\ cached = "none" /\ task = "none"
      /\ future = "pending" /\ cmds = <<>> /\ prepared = {} /\ adds = 0 /\ gaps = {}
      /\ promise = [a \in Magnet!Adds |-> "unset"] /\ \A k \in Keys : pending[k] = 0
      /\ \A k \in Keys : torrents[k].kind = "none"
      /\ DOMAIN cmds = {}
  BY DEF Magnet!Init, Magnet!NoTorrent
<1>2. Magnet!TypeOK
  <2>1. cmds \in Seq(Commands)
    BY <1>1
  <2>2. pending \in [Keys -> {0} \cup Magnet!Adds]
        /\ promise \in [Magnet!Adds -> Magnet!Answers \cup {"unset"}]
    BY DEF Magnet!Init
  <2>3. torrents \in [Keys -> [kind : {"none", "temp", "real"}, files : SUBSET Files]]
    BY DEF Magnet!Init, Magnet!NoTorrent
  <2>4. adds \in 0 .. MaxAdds /\ others \in 0 .. MaxOthers
    BY DEF Magnet!Init, LinkAssumption
  <2> QED
    BY <2>1, <2>2, <2>3, <2>4 DEF Magnet!Init, Magnet!TypeOK, Commands, Magnet!Answers,
       Magnet!PendingDialog
<1>3. ~Open
  BY <1>1 DEF Open
<1>4. ThreadsOK /\ NotesOK
  BY <1>1 DEF ThreadsOK, NotesOK, Given
<1>5. QueueOK /\ WaitsOnce /\ CaughtUp /\ Undisturbed /\ Finalizes /\ Cancels
  BY <1>1, <1>3 DEF QueueOK, WaitsOnce, CaughtUp, Undisturbed, Finalizes, Cancels, Unsent
<1>6. Held /\ (\A k \in Keys : Released(k)) /\ AddsFollow
  BY <1>1, <1>3 DEF Held, Released, AddsFollow, Unsent
<1> QED
  BY <1>2, <1>4, <1>5, <1>6 DEF LinkInv

\* Every step keeps it.
LEMMA LinkNext ==
    ASSUME LinkAssumption, LinkInv, [Magnet!Next]_Magnet!vars PROVE LinkInv'
<1>1. ASSUME NEW k \in Keys, Magnet!OpenTorrentLink(k) \/ Magnet!SubmitArgvMagnet(k)
      PROVE LinkInv'
  BY <1>1, PresentStep DEF Magnet!OpenTorrentLink, Magnet!SubmitArgvMagnet
<1>2. ASSUME NEW k \in Keys, Magnet!RssAdd(k) \/ Magnet!OpenTorrentFile(k)
      \/ Magnet!RemoveTask(k) PROVE LinkInv'
  <2>1. Files \in SUBSET Files /\ {} \in SUBSET Files
    OBVIOUS
  <2>2. CASE Magnet!RssAdd(k)
    BY <2>1, <2>2, OtherStep DEF Magnet!RssAdd
  <2>3. CASE Magnet!OpenTorrentFile(k)
    <3>1. PICK w \in SUBSET Files : ui.at = "idle" /\ Magnet!Other("AddTorrentFile", k, w)
      BY <2>3 DEF Magnet!OpenTorrentFile
    <3> QED
      BY <3>1, OtherStep
  <2>4. CASE Magnet!RemoveTask(k)
    BY <2>1, <2>4, OtherStep DEF Magnet!RemoveTask
  <2> QED
    BY <1>2, <2>2, <2>3, <2>4
<1>3. CASE Magnet!SetAllWanted
  BY <1>3, TickedStep DEF Magnet!SetAllWanted
<1>4. ASSUME NEW f \in Files, Magnet!Toggle(f) PROVE LinkInv'
  <2>1. dialog.ticked \in SUBSET Files
    BY DEF LinkInv, Magnet!TypeOK
  <2>2. dialog.ticked \ {f} \in SUBSET Files /\ dialog.ticked \cup {f} \in SUBSET Files
    BY <2>1
  <2>3. PICK w \in SUBSET Files : Magnet!Ticked(w)
    BY <1>4, <2>2 DEF Magnet!Toggle
  <2> QED
    BY <2>3, TickedStep
<1>5. CASE Magnet!UiNext
  BY <1>5, CleanupStep, SubmitStep, SubmitFileStep, CloseStep DEF Magnet!UiNext
<1>6. CASE Magnet!TaskNext
  BY <1>6, TaskAsksStep, AnsweredStep, ExpiresStep DEF Magnet!TaskNext
<1>7. CASE Magnet!Handle
  BY <1>7, HandlePrepareStep, CancelStep, FinalizeStep, OtherHandledStep DEF Magnet!Handle
<1>8. CASE UNCHANGED Magnet!vars
  <2>1. /\ UNCHANGED <<ui, dialog, cached, task, future, pending, prepared, torrents, promise>>
        /\ UNCHANGED <<cmds, exports, adds, others, gaps>>
    BY <1>8 DEF Magnet!vars, Magnet!uiVars, Magnet!taskVars, Magnet!workerVars
  <2>2. Magnet!TypeOK' /\ ThreadsOK'
    BY <2>1 DEF LinkInv, Magnet!TypeOK, ThreadsOK
  <2>3. (Unsent <=> Unsent') /\ (Open <=> Open')
    BY <2>1 DEF Unsent, Open
  <2>4. \A k \in Keys : OwnLink(k) => OwnLink(k)'
    BY <2>1, <2>3 DEF OwnLink, Served
  <2> QED
    BY <2>1, <2>2, <2>3, <2>4, QuietStep DEF Magnet!workerVars, Magnet!Alive
<1> QED
  BY <1>1, <1>2, <1>3, <1>4, <1>5, <1>6, <1>7, <1>8, MetadataStep, PollStep, LeaveStep
     DEF Magnet!Next

\* Adding a link, whatever the user, the RSS service, the call and the worker do in
\* between: a torrent added for its metadata only is never forgotten (TempOwned), and
\* the worker reaches the add of an accepted dialog when nothing is left of the
\* preparation (AddAfterCancel).
THEOREM LinkIsFollowed ==
    ASSUME LinkAssumption
    PROVE  Magnet!Spec => [](Magnet!TypeOK /\ Magnet!TempOwned /\ Magnet!AddAfterCancel)
<1>1. Magnet!Init => LinkInv
  BY LinkInit
<1>2. LinkInv /\ [Magnet!Next]_Magnet!vars => LinkInv'
  BY LinkNext
<1>3. LinkInv => Magnet!TypeOK /\ Magnet!TempOwned /\ Magnet!AddAfterCancel
  <2> SUFFICES ASSUME LinkInv PROVE Magnet!TempOwned /\ Magnet!AddAfterCancel
    BY DEF LinkInv
  <2>1. Magnet!TempOwned
    <3> SUFFICES ASSUME NEW k \in Keys, torrents[k].kind = "temp", Magnet!Alive, k \notin gaps,
                        ui.key # k
                 PROVE  \E op \in {"Cancel", "Finalize", "Remove"} : Magnet!Queued(op, k)
      BY DEF Magnet!TempOwned, Magnet!Alive
    <3>1. \E i \in DOMAIN cmds : Clears(cmds[i], k)
      BY DEF LinkInv, Released, OwnLink
    <3> QED
      BY <3>1 DEF Clears, Magnet!Queued
  <2>2. Magnet!AddAfterCancel
    <3> SUFFICES ASSUME cmds # <<>>, Head(cmds).op = "AddTorrentFile", Head(cmds).from = "dialog"
                 PROVE  Clean(Head(cmds).key)
      BY DEF Magnet!AddAfterCancel, Clean
    <3>1. cmds \in Seq(Commands)
      BY DEF LinkInv, Magnet!TypeOK, Commands
    <3>2. /\ Head(cmds) = cmds[1] /\ 1 \in DOMAIN cmds /\ Head(cmds) \in Commands
          /\ DOMAIN cmds = 1 .. Len(cmds) /\ Len(cmds) \in Nat
      BY <3>1, Popped
    <3>3. Head(cmds).key \in Keys
      BY <3>2 DEF Commands
    <3>4. Follows(Head(cmds).key, 1)
      BY <3>2, <3>3 DEF LinkInv, AddsFollow
    <3> QED
      BY <3>2, <3>4 DEF Follows
  <2> QED
    BY <2>1, <2>2
<1> QED
  BY <1>1, <1>2, <1>3, PTL DEF Magnet!Spec

\* Once the dialog has shown the files of a link, neither cancelling nor submitting it
\* removes another's task (TasksKept).
THEOREM OthersKeepTheirTask ==
    ASSUME LinkAssumption
    PROVE  Magnet!Spec => Magnet!TasksKept
<1> DEFINE Kept == \A k \in Keys :
              torrents[k].kind = "real" /\ torrents'[k].kind # "real" =>
                  \/ Head(cmds).op = "Remove"
                  \/ Head(cmds).op = "Cancel" /\ Head(cmds).from # "dialog"
<1>1. Magnet!Init => LinkInv
  BY LinkInit
<1>2. LinkInv /\ [Magnet!Next]_Magnet!vars => LinkInv'
  BY LinkNext
<1>3. ASSUME LinkInv, [Magnet!Next]_Magnet!vars PROVE Kept
  <2> SUFFICES ASSUME NEW k \in Keys, torrents[k].kind = "real", torrents'[k].kind # "real"
               PROVE  \/ Head(cmds).op = "Remove"
                      \/ Head(cmds).op = "Cancel" /\ Head(cmds).from # "dialog"
    OBVIOUS
  <2>1. torrents \in [Keys -> [kind : {"none", "temp", "real"}, files : SUBSET Files]]
    BY <1>3 DEF LinkInv, Magnet!TypeOK
  <2>2. torrents' # torrents
    OBVIOUS
  <2>3. Magnet!Handle
    BY <1>3, <2>2 DEF Magnet!Next, Magnet!OpenTorrentLink, Magnet!SubmitArgvMagnet,
       Magnet!Present, Magnet!MetadataArrives, Magnet!RssAdd,
          Magnet!OpenTorrentFile, Magnet!RemoveTask, Magnet!Other, Magnet!PollMetadata,
            Magnet!SetAllWanted, Magnet!Accept, Magnet!Reject, Magnet!Toggle,
          Magnet!Ticked, Magnet!UiNext, Magnet!Cleanup, Magnet!Submit, Magnet!SubmitTorrentFile,
            Magnet!RemoveExport, Magnet!Join, Magnet!TaskNext,
          Magnet!TaskAsks, Magnet!TaskAnswered, Magnet!TaskExpires, Magnet!TaskStep,
            Magnet!workerVars, Magnet!vars
  <2>4. CASE Magnet!HandlePrepare
    BY <2>1, <2>2, <2>4 DEF Magnet!HandlePrepare, Magnet!Put
  <2>5. CASE Magnet!HandleCancel
    <3>1. Magnet!Take("Cancel")
          /\ torrents' = [torrents EXCEPT ![Head(cmds).key] = Magnet!NoTorrent]
      BY <2>5 DEF Magnet!HandleCancel, Magnet!Put
    <3>2. /\ Head(cmds) = cmds[1] /\ 1 \in DOMAIN cmds /\ Head(cmds).op = "Cancel"
      BY <1>3, <3>1, TakeStep
    <3>3. k = Head(cmds).key
      BY <2>1, <3>1
    <3> QED
      BY <1>3, <3>2, <3>3 DEF LinkInv, Cancels
  <2>6. CASE Magnet!HandleFinalize
    BY <2>1, <2>6 DEF Magnet!HandleFinalize, Magnet!Put, Magnet!Real
  <2>7. CASE Magnet!HandleAddTorrentFile
    BY <2>1, <2>7 DEF Magnet!HandleAddTorrentFile, Magnet!Put
  <2>8. CASE Magnet!HandleAddMagnet
    BY <2>1, <2>8 DEF Magnet!HandleAddMagnet, Magnet!Put
  <2>9. CASE Magnet!HandleRemove
    BY <2>9 DEF Magnet!HandleRemove, Magnet!Take
  <2> QED
    BY <2>3, <2>4, <2>5, <2>6, <2>7, <2>8, <2>9 DEF Magnet!Handle
<1> QED
  BY <1>1, <1>2, <1>3, PTL DEF Magnet!Spec, Magnet!TasksKept
=============================================================================
