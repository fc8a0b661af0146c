----------------------------- MODULE ChatProofs -----------------------------
(***************************************************************************)
(* Proofs about Chat: what holds of the page alone and of the server alone *)
(* holds of the two together, the server's specification is implemented,   *)
(* and what is stored and shown of a conversation agrees.                  *)
(***************************************************************************)
EXTENDS Chat, ChatClientProofs, PicoChannelProofs

-----------------------------------------------------------------------------
(* The inductive invariant.                                                *)

\* A socket has a connection, and a connection that works has a socket.
Linked ==
    \A c \in Conns :
        /\ ready[c] # "none" => link[c] # "none"
        /\ link[c] \in {"dialing", "up"} => ready[c] \in {"CONNECTING", "OPEN"}

\* Whatever is on its way to the server, worked on or stored is about a message that
\* was sent.
Numbered ==
    /\ \A c \in Conns : asking[c] <= asked
    /\ \A c \in Conns : \A i \in DOMAIN toServer[c] : toServer[c][i] \in 1..asked
    /\ \A i \in DOMAIN stored : stored[i].to \in 1..asked

\* A read loop works on a message exactly while it waits for its turn and in it.
AskingIsWork ==
    \A c \in Conns : place[c] \in {"waiting", "turn"} <=> asking[c] # 0

\* A message is in one place only until it has been dealt with.
OnePlace ==
    /\ \A c, d \in Conns : \A i \in DOMAIN toServer[c] : \A j \in DOMAIN toServer[d] :
          toServer[c][i] = toServer[d][j] => c = d /\ i = j
    /\ \A c, d \in Conns : \A i \in DOMAIN toServer[c] : toServer[c][i] # asking[d]
    /\ \A c, d \in Conns : asking[c] = asking[d] /\ asking[c] # 0 => c = d

\* What is yet to be dealt with is not stored, but for the question of a running turn.
NotYetStored ==
    /\ \A c \in Conns : \A i \in DOMAIN toServer[c] : \A k \in DOMAIN stored :
          stored[k].to # toServer[c][i]
    /\ \A c \in Conns : \A k \in DOMAIN stored : stored[k].to = asking[c] =>
          place[c] = "turn" /\ stored[k] = Asks(asking[c])

\* What is on its way to a page is about a message that was sent, and if it is an answer
\* that answer is stored.
Backed(out) ==
    /\ out.to <= asked
    /\ out.kind = "reply" => Answers(out.to) \in ToSet(stored)

SentIsBacked ==
    /\ \A i \in DOMAIN outbox : Backed(outbox[i])
    /\ \A i \in DOMAIN sending.msg : Backed(sending.msg[i])
    /\ \A c \in Conns : \A i \in DOMAIN toClient[c] : Backed(toClient[c][i])

\* An answer that is on the screen is stored.
ShownIsStored ==
    \A l \in ToSet(messages) : l.who = "assistant" => l \in ToSet(stored)

ChatInv ==
    /\ ClientInv /\ messages \in Seq(Line)
    /\ PicoInv
    /\ ChatTypeOK
    /\ Linked
    /\ Numbered
    /\ AskingIsWork
    /\ OnePlace
    /\ NotYetStored
    /\ StoredOnce
    /\ SentIsBacked
    /\ ShownIsStored

-----------------------------------------------------------------------------
(* The page.                                                               *)

\* A step that does nothing to the page keeps what is known of it.
LEMMA PageIdle ==
    ASSUME ClientInv, messages \in Seq(Line), UNCHANGED clientVars
    PROVE  ClientInv' /\ messages' \in Seq(Line)
BY ClientInvStep DEF clientVars, screenVars

\* The restore ends, whatever was read over HTTP.
LEMMA RestoredKeeps ==
    ASSUME ClientInv, restore # "done", RestoreEnds(session), UNCHANGED asked
    PROVE  ClientInv'
<1>1. session \in Sessions \cup {NoSession}
    BY DEF ClientInv, ConnectionTypeOK
<1>2. \E id \in Sessions \cup {NoSession} : id = session /\ RestoreEnds(id)
    BY <1>1
<1> QED BY <1>2, RestoreKeeps

\* The callbacks keep the page's invariant with the answers the server gives.
LEMMA CallbackKeeps ==
    ASSUME ClientInv, messages \in Seq(Line), ChatTypeOK, PageCallback
    PROVE  ClientInv' /\ messages' \in Seq(Line)
<1>1. ASSUME NEW status \in Statuses, GatewayAnswers(status)
      PROVE  ClientInv' /\ messages' \in Seq(Line)
    BY <1>1, StatusKeeps, ChatClientAssumption DEF GatewayAnswers, GatewayBecomes
<1>2. CASE Resolved(newest)
    <2>1. newest \in Sessions /\ newest # NoSession
        BY ChatClientAssumption DEF ChatTypeOK
    <2> QED BY <1>2, <2>1, ResolvedKeeps DEF Resolved
<1>3. CASE ResolveFails \/ LoadFails
    BY <1>3, RestoredKeeps DEF ResolveFails, LoadFails
<1>4. CASE Loaded(IF session = Web THEN stored ELSE <<>>)
    <2>1. (IF session = Web THEN stored ELSE <<>>) \in Seq(Line)
        BY EmptySeq DEF ChatTypeOK
    <2> QED BY <1>4, <2>1, RestoredKeeps DEF Loaded
<1>5. CASE TimerFires
    BY <1>5, TimerKeeps DEF TimerFires, screenVars
<1>6. CASE Reload
    BY <1>6, ReloadKeeps, EmptySeq DEF Reload
<1> QED BY <1>1, <1>2, <1>3, <1>4, <1>5, <1>6 DEF PageCallback

\* What holds of the page alone holds of it here.
LEMMA PageStep ==
    ASSUME ClientInv, messages \in Seq(Line), PicoTypeOK, ChatTypeOK, [ChatNext]_chatVars
    PROVE  ClientInv' /\ messages' \in Seq(Line)
<1> USE ChatAssumption
<1>1. CASE Page
    BY <1>1, CallbackKeeps DEF Page
<1>2. CASE PageSends
    <2>1. asked \in Nat
        BY ChatClientAssumption DEF ClientInv, ConnectionTypeOK
    <2> QED BY <1>2, <2>1, SendKeeps, SendKeepsLines DEF PageSends
<1>3. ASSUME NEW c \in Conns, PageOpened(c)
      PROVE  ClientInv' /\ messages' \in Seq(Line)
    BY <1>3, OpenedKeeps DEF PageOpened, Opened, screenVars
<1>4. ASSUME NEW c \in Conns, PageClosed(c)
      PROVE  ClientInv' /\ messages' \in Seq(Line)
    BY <1>4, ClosedKeeps DEF PageClosed, Closed
<1>5. ASSUME NEW c \in Conns, PageReceives(c)
      PROVE  ClientInv' /\ messages' \in Seq(Line)
    <2> DEFINE out == Head(toClient[c])
               msg == [kind |-> out.kind, to |-> out.to,
                       session |-> IF out.kind = "reply" THEN out.user ELSE NoSession]
    <2>1. Receive(c, msg)
        BY <1>5 DEF PageReceives
    <2>2. out \in Outgoing
        BY <1>5 DEF PageReceives, PicoTypeOK
    <2>3. msg.to \in Nat
        BY <2>2 DEF Outgoing
    <2> QED BY <2>1, <2>3, ReceiveKeeps, ReceiveKeepsLines
<1>6. CASE UNCHANGED clientVars
    BY <1>6, PageIdle
<1>7. CASE \/ \E c \in Conns :
                \/ BeginTurn(c) \/ FinishTurn(c) \/ Serve(c) \/ Deadline(c) \/ Forget(c)
                \/ NetworkBreaks(c)
           \/ Publish \/ ApiTurn \/ UNCHANGED chatVars
    <2>1. UNCHANGED clientVars
        BY <1>7 DEF BeginTurn, FinishTurn, Serve, Deadline, Forget, NetworkBreaks, Publish,
           ApiTurn, chatVars
    <2> QED BY <2>1, PageIdle
<1> QED BY <1>1, <1>2, <1>3, <1>4, <1>5, <1>7 DEF ChatNext

-----------------------------------------------------------------------------
(* The server.                                                             *)

\* What a callback may do to the page's sockets: nothing, open one while there is none,
\* close the current one, or drop them all with the page.
LEMMA CallbackSockets ==
    ASSUME ClientInv, PageCallback
    PROVE  \/ ready' = ready
           \/ \E s \in Socks : /\ ready[s] = "none"
                               /\ ready' = [ready EXCEPT ![s] = "CONNECTING"]
                               /\ \A t \in Socks : ready[t] \notin {"CONNECTING", "OPEN"}
           \/ wsRef # NoSock /\ ready' = [ready EXCEPT ![wsRef] = "CLOSING"]
           \/ ready' = [s \in Socks |-> "none"]
<1> DEFINE Goal ==
           \/ ready' = ready
           \/ \E s \in Socks : /\ ready[s] = "none"
                               /\ ready' = [ready EXCEPT ![s] = "CONNECTING"]
                               /\ \A t \in Socks : ready[t] \notin {"CONNECTING", "OPEN"}
           \/ wsRef # NoSock /\ ready' = [ready EXCEPT ![wsRef] = "CLOSING"]
           \/ ready' = [s \in Socks |-> "none"]
<1>1. ASSUME NEW status, NEW id, NEW loaded, Connect(status, id, loaded)
      PROVE  Goal
    <2>1. CASE status # "running" \/ id = NoSession \/ ~loaded \/ Busy
        BY <1>1, <2>1 DEF Connect, socketVars
    <2>2. CASE ~(status # "running" \/ id = NoSession \/ ~loaded \/ Busy)
        <3>1. PICK s \in Unused : ready' = [ready EXCEPT ![s] = "CONNECTING"]
            BY <1>1, <2>2 DEF Connect
        <3>2. \A t \in Socks : ready[t] \notin {"CONNECTING", "OPEN"}
            BY <2>2, ChatClientAssumption DEF Busy, ClientInv, OneSocket
        <3> QED BY <3>1, <3>2 DEF Unused
    <2> QED BY <2>1, <2>2
<1>2. ASSUME NEW status, NEW force, NEW id, NEW loaded, Sync(status, force, id, loaded)
      PROVE  Goal
    <2>1. \/ UNCHANGED ready \/ Connect(status, id, loaded) \/ Disconnect
        BY <1>2 DEF Sync, socketVars
    <2>2. Disconnect => Goal
        BY DEF Disconnect
    <2> HIDE DEF Goal
    <2> QED BY <1>1, <2>1, <2>2 DEF Goal
<1>3. ASSUME TimerFires PROVE Goal
    BY <1>1, <1>3 DEF TimerFires
<1>4. ASSUME Reload PROVE Goal
    BY <1>4 DEF Reload
<1>5. ASSUME ResolveFails \/ LoadFails \/ Loaded(IF session = Web THEN stored ELSE <<>>)
      PROVE  Goal
    <2>1. Sync(gateway, TRUE, session, TRUE)
        BY <1>5 DEF ResolveFails, LoadFails, Loaded, RestoreEnds
    <2> QED BY <1>2, <2>1
<1>6. ASSUME Resolved(newest) PROVE Goal
    <2>1. UNCHANGED ready \/ Sync(gateway, TRUE, newest, TRUE)
        BY <1>6 DEF Resolved, RestoreEnds, socketVars
    <2> QED BY <1>2, <2>1
<1>7. ASSUME NEW status \in Statuses, GatewayAnswers(status)
      PROVE  Goal
    <2>1. Sync(status, FALSE, session, hydrated)
        BY <1>7 DEF GatewayAnswers, GatewayBecomes
    <2> QED BY <1>2, <2>1
<1> HIDE DEF Goal
<1>8. Goal
    BY <1>3, <1>4, <1>5, <1>6, <1>7 DEF PageCallback
<1> QED BY <1>8 DEF Goal

\* To the network that is: nothing, one connection dialled, or one hung up.
LEMMA CallbackNet ==
    ASSUME ClientInv, PicoTypeOK, Linked, Page
    PROVE  /\ UNCHANGED <<stopping, conns, byUser, closed, late, asking, lock, toServer,
                          toClient, outbox, sending, asked, storeVars, breaks>>
           /\ \/ UNCHANGED <<link, place, of>>
              \/ \E c \in Conns : Dial(c, Web)
              \/ \E c \in Conns : HangUp(c)
<1> USE ChatAssumption
<1>1. NetFollows /\ PageCallback /\ UNCHANGED <<storeVars, breaks>>
    BY DEF Page
<1>2. UNCHANGED <<stopping, conns, byUser, closed, late, asking, lock, toServer,
                  toClient, outbox, sending>>
    BY <1>1 DEF NetFollows
<1>3. UNCHANGED asked
    BY <1>1 DEF PageCallback, GatewayAnswers, GatewayBecomes, Resolved, ResolveFails, Loaded,
       LoadFails, TimerFires, Reload, screenVars
<1>4. /\ link' = [c \in Conns |-> IF c \in Dialed THEN "dialing"
                                  ELSE IF c \in Dropped THEN "down" ELSE link[c]]
      /\ place' = [c \in Conns |-> IF c \in Dialed THEN "arrived" ELSE place[c]]
      /\ of' = [c \in Conns |-> IF c \in Dialed THEN Web ELSE of[c]]
      /\ \A c \in Dialed : link[c] = "none" /\ place[c] = "none"
    BY <1>1 DEF NetFollows
<1>5. /\ link \in [Conns -> {"none", "dialing", "up", "down"}]
      /\ place \in [Conns -> Places] /\ of \in [Conns -> Users]
      /\ ready \in [Conns -> {"none", "CONNECTING", "OPEN", "CLOSING"}]
    BY DEF PicoTypeOK, ClientInv, ConnectionTypeOK
<1>6. CASE Dialed = {} /\ Dropped = {}
    BY <1>2, <1>3, <1>1, <1>4, <1>5, <1>6
<1>7. ASSUME NEW c \in Conns, Dialed = {c}, Dropped = {}
      PROVE  Dial(c, Web)
    <2>1. /\ link' = [link EXCEPT ![c] = "dialing"]
          /\ place' = [place EXCEPT ![c] = "arrived"]
          /\ of' = [of EXCEPT ![c] = Web]
        BY <1>4, <1>5, <1>7
    <2> QED BY <1>2, <1>4, <1>7, <2>1 DEF Dial, Goto
<1>8. ASSUME NEW c \in Conns, Dialed = {}, Dropped = {c}
      PROVE  UNCHANGED <<link, place, of>> \/ HangUp(c)
    <2>1. /\ link' = [link EXCEPT ![c] = "down"]
          /\ UNCHANGED <<place, of>>
        BY <1>4, <1>5, <1>8
    <2>2. link[c] # "none"
        BY <1>8 DEF Dropped, Linked
    <2>3. CASE link[c] = "down"
        BY <1>5, <2>1, <2>3
    <2>4. CASE link[c] # "down"
        BY <1>2, <1>5, <2>1, <2>2, <2>4 DEF HangUp, Break, connVars
    <2> QED BY <2>3, <2>4
<1>9. \/ Dialed = {} /\ Dropped = {}
      \/ \E c \in Conns : Dialed = {c} /\ Dropped = {}
      \/ \E c \in Conns : Dialed = {} /\ Dropped = {c}
    <2>1. CASE ready' = ready
        BY <2>1 DEF Dialed, Dropped
    <2>2. ASSUME NEW s \in Socks, ready[s] = "none",
                 ready' = [ready EXCEPT ![s] = "CONNECTING"],
                 \A t \in Socks : ready[t] \notin {"CONNECTING", "OPEN"}
          PROVE  Dialed = {s} /\ Dropped = {}
        BY <1>5, <2>2 DEF Dialed, Dropped
    <2>3. CASE wsRef # NoSock /\ ready' = [ready EXCEPT ![wsRef] = "CLOSING"]
        <3>1. wsRef \in Conns
            BY <2>3 DEF ClientInv, ConnectionTypeOK
        <3>2. Dialed = {} /\ Dropped \subseteq {wsRef}
            BY <1>5, <2>3, <3>1 DEF Dialed, Dropped
        <3> QED BY <3>1, <3>2
    <2>4. CASE ready' = [s \in Socks |-> "none"]
        <3>1. Dialed = {} /\ Dropped \subseteq {wsRef}
            BY <2>4 DEF Dialed, Dropped, ClientInv, OneSocket
        <3>2. Dropped \subseteq Conns
            BY DEF Dropped
        <3> QED BY <3>1, <3>2
    <2> QED BY <1>1, <2>1, <2>2, <2>3, <2>4, CallbackSockets
<1> QED BY <1>1, <1>2, <1>3, <1>6, <1>7, <1>8, <1>9

\* What the page sends over a link is a message that nothing else is about.
LEMMA SendsServer ==
    ASSUME ClientInv, PicoTypeOK, Numbered, SentIsBacked, PageSends
    PROVE  \/ wsRef \in Conns /\ asked + 1 \in 1..MaxMsg /\ ClientSends(wsRef, asked + 1)
           \/ UNCHANGED picoVars
<1> USE ChatAssumption
<1>1. wsRef \in Conns /\ asked \in Nat /\ asked + 1 \in 1..MaxMsg /\ asked' = asked + 1
    BY ChatClientAssumption DEF PageSends, Send, ClientInv, ConnectionTypeOK
<1>2. CASE link[wsRef] # "up"
    BY <1>2 DEF PageSends, picoVars, netVars
<1>3. CASE link[wsRef] = "up"
    <2>1. ~Pending(asked + 1)
        <3>1. \A c \in Conns : asking[c] \in Nat /\ asking[c] # asked + 1
            BY <1>1 DEF Numbered, PicoTypeOK
        <3>2. ASSUME NEW c \in Conns, asked + 1 \in ToSet(toServer[c]) PROVE FALSE
            <4>1. PICK i \in DOMAIN toServer[c] : toServer[c][i] = asked + 1
                BY <3>2 DEF ToSet
            <4>2. toServer[c][i] \in 1..asked
                BY <4>1 DEF Numbered
            <4> QED BY <1>1, <4>1, <4>2
        <3>3. \A c \in Conns : \A i \in DOMAIN toClient[c] : toClient[c][i].to # asked + 1
            BY <1>1 DEF SentIsBacked, Backed
        <3>4. \A i \in DOMAIN outbox : outbox[i].to # asked + 1
            BY <1>1 DEF SentIsBacked, Backed
        <3>5. \A i \in DOMAIN sending.msg : sending.msg[i].to # asked + 1
            BY <1>1 DEF SentIsBacked, Backed
        <3> QED BY <3>1, <3>2, <3>3, <3>4, <3>5 DEF Pending
    <2>2. toServer' = [toServer EXCEPT ![wsRef] = Append(@, asked + 1)]
        BY <1>1, <1>3 DEF PageSends
    <2> QED BY <1>1, <1>3, <2>1, <2>2 DEF PageSends, ClientSends
<1> QED BY <1>2, <1>3

\* Every step is one that the server is specified for, or none of it.
LEMMA ServerStep ==
    ASSUME ClientInv, PicoTypeOK, Linked, Numbered, SentIsBacked, [ChatNext]_chatVars
    PROVE  [PicoNext]_picoVars
<1> USE ChatAssumption
<1>1. CASE Page
    <2>1. CASE UNCHANGED <<link, place, of>>
        BY <1>1, <2>1, CallbackNet DEF picoVars, connVars, netVars
    <2>2. CASE \E c \in Conns : Dial(c, Web)
        BY <2>2 DEF PicoNext, ConnNext
    <2>3. CASE \E c \in Conns : HangUp(c)
        BY <2>3 DEF PicoNext, ConnNext
    <2> QED BY <1>1, <2>1, <2>2, <2>3, CallbackNet
<1>2. CASE PageSends
    BY <1>2, SendsServer DEF PicoNext, ConnNext
<1>3. ASSUME NEW c \in Conns, PageReceives(c) PROVE PicoNext
    <2>1. ClientReceives(c)
        BY <1>3 DEF PageReceives, ClientReceives
    <2> QED BY <2>1 DEF PicoNext, ConnNext
<1>4. ASSUME NEW c \in Conns, PageOpened(c) \/ PageClosed(c) PROVE UNCHANGED picoVars
    BY <1>4 DEF PageOpened, PageClosed
<1>5. ASSUME NEW c \in Conns, BeginTurn(c) PROVE PicoNext
    <2>1. StartTurn(c)
        BY <1>5 DEF BeginTurn
    <2> QED BY <2>1 DEF PicoNext, ConnNext
<1>6. ASSUME NEW c \in Conns, FinishTurn(c) PROVE PicoNext
    <2>1. EndsTurn(c)
        BY <1>6 DEF FinishTurn, EndsTurn
    <2> QED BY <2>1 DEF PicoNext, ConnNext
<1>7. ASSUME NEW c \in Conns, Serve(c) PROVE PicoNext
    BY <1>7 DEF Serve, PicoNext, ConnNext
<1>8. ASSUME NEW c \in Conns, Deadline(c) \/ Forget(c) \/ NetworkBreaks(c) PROVE PicoNext
    BY <1>8 DEF Deadline, Forget, NetworkBreaks, PicoNext, ConnNext
<1>9. CASE Publish
    BY <1>9 DEF Publish, PicoNext
<1>10. CASE ApiTurn \/ UNCHANGED chatVars
    BY <1>10 DEF ApiTurn, chatVars
<1> QED BY <1>1, <1>2, <1>3, <1>4, <1>5, <1>6, <1>7, <1>8, <1>9, <1>10 DEF ChatNext

-----------------------------------------------------------------------------
(* Sockets and connections.                                                *)

\* A callback leaves no connection without a socket, and no socket without a connection.
LEMMA CallbackLinked ==
    ASSUME ClientInv, PicoTypeOK, Linked, Page
    PROVE  Linked'
<1> USE ChatAssumption
<1>1. /\ link' = [c \in Conns |-> IF c \in Dialed THEN "dialing"
                                  ELSE IF c \in Dropped THEN "down" ELSE link[c]]
      /\ PageCallback
    BY DEF Page, NetFollows
<1>2. ready \in [Conns -> {"none", "CONNECTING", "OPEN", "CLOSING"}]
    BY DEF ClientInv, ConnectionTypeOK
<1>3. CASE ready' = ready
    BY <1>1, <1>3 DEF Dialed, Dropped, Linked
<1>4. CASE \E s \in Socks : ready[s] = "none" /\ ready' = [ready EXCEPT ![s] = "CONNECTING"]
    BY <1>1, <1>2, <1>4 DEF Dialed, Dropped, Linked
<1>5. CASE wsRef # NoSock /\ ready' = [ready EXCEPT ![wsRef] = "CLOSING"]
    <2>1. wsRef \in Conns /\ ready[wsRef] # "none"
        BY <1>5 DEF ClientInv, ConnectionTypeOK, OneSocket
    <2> QED BY <1>1, <1>2, <1>5, <2>1 DEF Dialed, Dropped, Linked
<1>6. CASE ready' = [s \in Socks |-> "none"]
    BY <1>1, <1>2, <1>6 DEF Dialed, Dropped, Linked
<1> QED BY <1>1, <1>3, <1>4, <1>5, <1>6, CallbackSockets

\* Nor does any other step.
LEMMA LinkedStep ==
    ASSUME ClientInv, PicoTypeOK, Linked, [ChatNext]_chatVars
    PROVE  Linked'
<1> USE ChatAssumption
<1>1. CASE Page
    BY <1>1, CallbackLinked
<1>2. /\ ready \in [Conns -> {"none", "CONNECTING", "OPEN", "CLOSING"}]
      /\ link \in [Conns -> {"none", "dialing", "up", "down"}]
    BY DEF ClientInv, ConnectionTypeOK, PicoTypeOK
<1>3. ASSUME NEW c \in Conns, PageOpened(c)
      PROVE  Linked'
    BY <1>2, <1>3 DEF PageOpened, Opened, Linked, picoVars, netVars
<1>4. ASSUME NEW c \in Conns, PageClosed(c)
      PROVE  Linked'
    BY <1>2, <1>4 DEF PageClosed, Closed, Linked, picoVars, netVars
<1>5. ASSUME NEW c \in Conns, Forget(c)
      PROVE  Linked'
    BY <1>2, <1>5 DEF Forget, Recycle, Linked, clientVars, socketVars
<1>6. ASSUME NEW c \in Conns, Serve(c) \/ NetworkBreaks(c)
      PROVE  Linked'
    <2>1. \/ link' = link
          \/ link' = [link EXCEPT ![c] = "down"]
          \/ link[c] = "dialing" /\ link' = [link EXCEPT ![c] = "up"]
        BY <1>6 DEF Serve, NetworkBreaks, Accept, Upgrade, Register, LoopTop, Read, ReadFails,
           Leave, Write, HangUp, CloseConn, Break, netVars
    <2>2. UNCHANGED ready
        BY <1>6 DEF Serve, NetworkBreaks, clientVars, socketVars
    <2> QED BY <1>2, <2>1, <2>2 DEF Linked
<1>7. CASE \/ \E c \in Conns :
                PageReceives(c) \/ BeginTurn(c) \/ FinishTurn(c) \/ Deadline(c)
           \/ PageSends \/ Publish \/ ApiTurn \/ UNCHANGED chatVars
    <2>1. UNCHANGED <<link, ready>>
        BY <1>7 DEF PageReceives, Receive, BeginTurn, StartTurn, FinishTurn, EndTurn, Deadline,
           Late, PageSends, Send, Publish, Take, ApiTurn, chatVars, clientVars, socketVars,
           picoVars, netVars
    <2> QED BY <2>1 DEF Linked
<1> QED BY <1>1, <1>3, <1>4, <1>5, <1>6, <1>7 DEF ChatNext

-----------------------------------------------------------------------------
(* Which steps can disturb what is known of the messages.                  *)

\* No message comes, is taken up, is finished with or is stored.
Calm ==
    /\ UNCHANGED <<asked, toServer, asking, stored>>
    /\ \A c \in Conns : place[c] \in {"waiting", "turn"} \/ place'[c] \in {"waiting", "turn"}
          => place'[c] = place[c]

\* Nothing moves on its way to a page.
Quiet == UNCHANGED <<toClient, outbox, sending>>

ReadStep(c) == Read(c) /\ UNCHANGED <<clientVars, storeVars, breaks>>

WriteStep(c) == Write(c) /\ UNCHANGED <<clientVars, storeVars, breaks>>

\* Only these steps are about messages to the server.
LEMMA CalmSteps ==
    ASSUME ClientInv, PicoTypeOK, Linked, [ChatNext]_chatVars
    PROVE  \/ Calm
           \/ PageSends
           \/ \E c \in Conns : ReadStep(c) \/ BeginTurn(c) \/ FinishTurn(c) \/ Forget(c)
<1> USE ChatAssumption
<1>1. CASE Page
    <2>1. UNCHANGED <<asked, toServer, asking, stored>>
        BY <1>1, CallbackNet DEF storeVars
    <2>2. \A c \in Conns : place[c] \in {"waiting", "turn"} \/ place'[c] \in {"waiting", "turn"}
             => place'[c] = place[c]
        BY <1>1, CallbackNet DEF Dial, Goto, HangUp, connVars, PicoTypeOK
    <2> QED BY <2>1, <2>2 DEF Calm
<1>2. ASSUME NEW c \in Conns, Serve(c)
      PROVE  Calm \/ ReadStep(c)
    <2>1. CASE Accept(c) \/ Upgrade(c) \/ Register(c) \/ LoopTop(c) \/ ReadFails(c) \/ Leave(c)
        <3>1. UNCHANGED <<asked, toServer, asking, stored>>
            BY <1>2, <2>1 DEF Serve, Accept, Upgrade, Register, LoopTop, ReadFails, Leave, netVars,
               clientVars, screenVars, storeVars
        <3>2. /\ place[c] \notin {"waiting", "turn"}
              /\ \E p \in Places : p \notin {"waiting", "turn"} /\ Goto(c, p)
            BY <2>1 DEF Accept, Upgrade, Register, LoopTop, ReadFails, Leave, CloseConn, Places
        <3> QED BY <3>1, <3>2 DEF Calm, Goto, PicoTypeOK
    <2>2. CASE Write(c)
        BY <1>2, <2>2 DEF Serve, Write, Calm, connVars, clientVars, screenVars, storeVars
    <2>3. CASE Read(c)
        BY <1>2, <2>3 DEF Serve, ReadStep
    <2> QED BY <1>2, <2>1, <2>2, <2>3 DEF Serve
<1>3. CASE \/ \E c \in Conns :
                \/ PageOpened(c) \/ PageClosed(c) \/ PageReceives(c)
                \/ Deadline(c) \/ NetworkBreaks(c)
           \/ Publish \/ ApiTurn \/ UNCHANGED chatVars
    <2>1. UNCHANGED <<asked, toServer, asking, stored, place>>
        BY <1>3 DEF PageOpened, Opened, PageClosed, Closed, PageReceives, Receive, Deadline, Late,
           NetworkBreaks, HangUp, Publish, Take, ApiTurn, chatVars, clientVars, screenVars,
           picoVars, connVars, netVars, storeVars
    <2> QED BY <2>1 DEF Calm
<1> QED BY <1>1, <1>2, <1>3 DEF ChatNext

\* And only these about messages to a page.
LEMMA QuietSteps ==
    ASSUME [ChatNext]_chatVars
    PROVE  \/ Quiet
           \/ Publish
           \/ \E c \in Conns : PageReceives(c) \/ FinishTurn(c) \/ WriteStep(c) \/ Forget(c)
<1>1. CASE Page \/ PageSends \/ ApiTurn \/ UNCHANGED chatVars
    BY <1>1 DEF Page, NetFollows, PageSends, ApiTurn, chatVars, picoVars, netVars, Quiet
<1>2. ASSUME NEW c \in Conns,
             PageOpened(c) \/ PageClosed(c) \/ BeginTurn(c) \/ Deadline(c) \/ NetworkBreaks(c)
      PROVE  Quiet
    BY <1>2 DEF PageOpened, PageClosed, BeginTurn, StartTurn, Deadline, Late, NetworkBreaks,
       HangUp, picoVars, netVars, Quiet
<1>3. ASSUME NEW c \in Conns, Serve(c)
      PROVE  Quiet \/ WriteStep(c)
    BY <1>3 DEF Serve, Accept, Upgrade, Register, LoopTop, Read, ReadFails, Leave, netVars,
       Quiet, WriteStep
<1> QED BY <1>1, <1>2, <1>3 DEF ChatNext

\* What a sequence gets or loses at its ends.
LEMMA AppendElements ==
    ASSUME NEW S, NEW s \in Seq(S), NEW x \in S
    PROVE  /\ Append(s, x) \in Seq(S)
           /\ \A i \in DOMAIN Append(s, x) :
                 \/ i \in DOMAIN s /\ Append(s, x)[i] = s[i]
                 \/ i = Len(s) + 1 /\ Append(s, x)[i] = x
           /\ \A i \in DOMAIN s : i \in DOMAIN Append(s, x) /\ Append(s, x)[i] = s[i]
OBVIOUS

LEMMA TailElements ==
    ASSUME NEW S, NEW s \in Seq(S), s # <<>>
    PROVE  /\ 1 \in DOMAIN s /\ Head(s) = s[1] /\ Tail(s) \in Seq(S)
           /\ \A i \in DOMAIN Tail(s) :
                 i \in Nat \ {0} /\ i + 1 \in DOMAIN s /\ Tail(s)[i] = s[i + 1]
OBVIOUS

LEMMA ConcatElements ==
    ASSUME NEW S, NEW s \in Seq(S), NEW t \in Seq(S)
    PROVE  \A i \in DOMAIN (s \o t) :
              \/ i \in DOMAIN s /\ (s \o t)[i] = s[i]
              \/ \E j \in DOMAIN t : (s \o t)[i] = t[j]
<1>1. ASSUME NEW i \in DOMAIN (s \o t), i \notin DOMAIN s
      PROVE  i - Len(s) \in DOMAIN t /\ (s \o t)[i] = t[i - Len(s)]
    BY <1>1
<1> QED BY <1>1

\* What was stored stays where it is, and a line may follow it.
StoreGets(line) ==
    /\ stored' \in Seq(Line)
    /\ \A i \in DOMAIN stored' :
          \/ i \in DOMAIN stored /\ stored'[i] = stored[i]
          \/ i = Len(stored) + 1 /\ stored'[i] = line
    /\ \A i \in DOMAIN stored : i \in DOMAIN stored' /\ stored'[i] = stored[i]

\* The steps of a turn, with what they do to the messages alone.
LEMMA BeginTurnDoes ==
    ASSUME PicoTypeOK, ChatTypeOK, AskingIsWork, NEW c \in Conns, BeginTurn(c)
    PROVE  /\ UNCHANGED <<asked, toServer, asking>>
           /\ place[c] = "waiting" /\ asking[c] # 0
           /\ place' = [place EXCEPT ![c] = "turn"]
           /\ StoreGets(Asks(asking[c]))
<1>1. /\ UNCHANGED <<asked, toServer, asking>>
      /\ place[c] = "waiting" /\ asking[c] # 0
      /\ place' = [place EXCEPT ![c] = "turn"]
      /\ stored' = Append(stored, Asks(asking[c])) \/ UNCHANGED stored
    BY DEF BeginTurn, StartTurn, Goto, netVars, clientVars, screenVars, storeVars, AskingIsWork
<1>2. Asks(asking[c]) \in Line /\ stored \in Seq(Line)
    BY DEF Asks, Line, PicoTypeOK, ChatTypeOK
<1>3. CASE UNCHANGED stored
    BY <1>1, <1>2, <1>3 DEF StoreGets
<1>4. CASE stored' = Append(stored, Asks(asking[c]))
    BY <1>1, <1>2, <1>4, AppendElements DEF StoreGets
<1> QED BY <1>1, <1>3, <1>4

LEMMA FinishTurnDoes ==
    ASSUME PicoTypeOK, ChatTypeOK, AskingIsWork, NEW c \in Conns, FinishTurn(c)
    PROVE  /\ UNCHANGED <<asked, toServer, sending>>
           /\ place[c] = "turn" /\ asking[c] # 0
           /\ place' = [place EXCEPT ![c] = "top"]
           /\ asking' = [asking EXCEPT ![c] = 0]
           /\ StoreGets(Answers(asking[c]))
           /\ \/ UNCHANGED stored
              \/ /\ stored' = Append(stored, Answers(asking[c]))
                 /\ Asks(asking[c]) \in ToSet(stored)
<1>1. /\ UNCHANGED <<asked, toServer, sending>>
      /\ place[c] = "turn" /\ asking[c] # 0
      /\ place' = [place EXCEPT ![c] = "top"]
      /\ asking' = [asking EXCEPT ![c] = 0]
      /\ \/ UNCHANGED stored
         \/ /\ stored' = Append(stored, Answers(asking[c]))
            /\ Asks(asking[c]) \in ToSet(stored)
    BY DEF FinishTurn, EndTurn, Goto, clientVars, screenVars, storeVars, AskingIsWork
<1>2. Answers(asking[c]) \in Line /\ stored \in Seq(Line)
    BY DEF Answers, Line, PicoTypeOK, ChatTypeOK
<1>3. CASE UNCHANGED stored
    BY <1>1, <1>2, <1>3 DEF StoreGets
<1>4. CASE stored' = Append(stored, Answers(asking[c]))
    BY <1>1, <1>2, <1>4, AppendElements DEF StoreGets
<1> QED BY <1>1, <1>3, <1>4

\* What a read loop takes is the first of what is left.
LEMMA ReadDoes ==
    ASSUME PicoTypeOK, NEW c \in Conns, ReadStep(c)
    PROVE  /\ UNCHANGED <<asked, stored>>
           /\ place[c] = "reading" /\ 1 \in DOMAIN toServer[c]
           /\ place' = [place EXCEPT ![c] = "waiting"]
           /\ asking' = [asking EXCEPT ![c] = toServer[c][1]]
           /\ \A d \in Conns : \A i \in DOMAIN toServer'[d] :
                 \E k \in DOMAIN toServer[d] :
                     /\ toServer'[d][i] = toServer[d][k]
                     /\ k = (IF d = c THEN i + 1 ELSE i)
                     /\ i \in Nat \ {0}
<1>1. /\ UNCHANGED <<asked, stored>>
      /\ place[c] = "reading" /\ toServer[c] # <<>>
      /\ place' = [place EXCEPT ![c] = "waiting"]
      /\ asking' = [asking EXCEPT ![c] = Head(toServer[c])]
      /\ toServer' = [toServer EXCEPT ![c] = Tail(toServer[c])]
    BY DEF ReadStep, Read, Goto, clientVars, screenVars, storeVars
<1>2. toServer \in [Conns -> Seq(Nat)]
    BY DEF PicoTypeOK
<1>3. /\ 1 \in DOMAIN toServer[c] /\ Head(toServer[c]) = toServer[c][1]
      /\ \A i \in DOMAIN Tail(toServer[c]) :
            i \in Nat \ {0} /\ i + 1 \in DOMAIN toServer[c]
                /\ Tail(toServer[c])[i] = toServer[c][i + 1]
    BY <1>1, <1>2, TailElements
<1>4. ASSUME NEW d \in Conns, NEW i \in DOMAIN toServer'[d]
      PROVE  \E k \in DOMAIN toServer[d] :
                 /\ toServer'[d][i] = toServer[d][k]
                 /\ k = (IF d = c THEN i + 1 ELSE i)
                 /\ i \in Nat \ {0}
    <2>1. CASE d = c
        BY <1>1, <1>2, <1>3, <1>4, <2>1
    <2>2. CASE d # c
        <3>1. toServer'[d] = toServer[d] /\ toServer[d] \in Seq(Nat)
            BY <1>1, <1>2, <2>2
        <3>2. i \in Nat \ {0}
            BY <3>1
        <3> QED BY <2>2, <3>1, <3>2
    <2> QED BY <2>1, <2>2
<1> QED BY <1>1, <1>3, <1>4

\* What a page sends comes last.
LEMMA SendDoes ==
    ASSUME ClientInv, PicoTypeOK, PageSends
    PROVE  /\ UNCHANGED <<asking, place, stored>>
           /\ asked \in Nat /\ asked' = asked + 1
           /\ \A d \in Conns : \A i \in DOMAIN toServer'[d] :
                 \/ i \in DOMAIN toServer[d] /\ toServer'[d][i] = toServer[d][i]
                 \/ d = wsRef /\ i = Len(toServer[d]) + 1 /\ toServer'[d][i] = asked + 1
<1>1. /\ UNCHANGED <<asking, place, stored>>
      /\ asked \in Nat /\ asked' = asked + 1
      /\ \/ UNCHANGED toServer
         \/ /\ wsRef \in Conns
            /\ toServer' = [toServer EXCEPT ![wsRef] = Append(toServer[wsRef], asked + 1)]
    BY ChatAssumption, ChatClientAssumption
    DEF PageSends, Send, ClientInv, ConnectionTypeOK, connVars, storeVars
<1>2. toServer \in [Conns -> Seq(Nat)]
    BY DEF PicoTypeOK
<1>3. ASSUME NEW d \in Conns, NEW i \in DOMAIN toServer'[d]
      PROVE  \/ i \in DOMAIN toServer[d] /\ toServer'[d][i] = toServer[d][i]
             \/ d = wsRef /\ i = Len(toServer[d]) + 1 /\ toServer'[d][i] = asked + 1
    <2>1. CASE toServer'[d] = toServer[d]
        BY <1>3, <2>1
    <2>2. CASE d = wsRef /\ toServer'[d] = Append(toServer[d], asked + 1)
        <3>1. asked + 1 \in Nat /\ toServer[d] \in Seq(Nat)
            BY <1>1, <1>2
        <3> QED BY <1>3, <2>2, <3>1, AppendElements
    <2> QED BY <1>1, <1>2, <2>1, <2>2
<1> QED BY <1>1, <1>3

LEMMA ForgetDoes ==
    ASSUME PicoTypeOK, NEW c \in Conns, Forget(c)
    PROVE  /\ UNCHANGED <<asked, asking, place, stored, outbox, sending>>
           /\ \A d \in Conns : toServer'[d] = (IF d = c THEN <<>> ELSE toServer[d])
           /\ \A d \in Conns : toClient'[d] = (IF d = c THEN <<>> ELSE toClient[d])
BY DEF Forget, Recycle, clientVars, screenVars, storeVars, PicoTypeOK

-----------------------------------------------------------------------------
(* The messages to the server, and what is stored.                         *)

\* What is stored is a sequence of lines.
LEMMA StoreTypeStep ==
    ASSUME ClientInv, PicoTypeOK, ChatTypeOK, Linked, AskingIsWork, [ChatNext]_chatVars
    PROVE  ChatTypeOK'
<1> USE ChatAssumption
<1>1. newest \in Sessions /\ stored \in Seq(Line) /\ breaks \in 0..MaxBreaks
    BY DEF ChatTypeOK
<1>2. newest' \in Sessions
    BY <1>1 DEF ChatNext, Page, PageSends, PageOpened, PageClosed, PageReceives, BeginTurn,
       FinishTurn, Serve, Deadline, Forget, NetworkBreaks, Publish, ApiTurn, chatVars, storeVars
<1>3. breaks' \in 0..MaxBreaks
    <2>1. breaks' = breaks \/ (breaks < MaxBreaks /\ breaks' = breaks + 1)
        BY DEF ChatNext, Page, PageSends, PageOpened, PageClosed, PageReceives, BeginTurn,
           FinishTurn, Serve, Deadline, Forget, NetworkBreaks, Publish, ApiTurn, chatVars
    <2> QED BY <1>1, <2>1
<1>4. stored' \in Seq(Line)
    BY <1>1, CalmSteps, BeginTurnDoes, FinishTurnDoes, ReadDoes, SendDoes, ForgetDoes
    DEF Calm, StoreGets
<1> QED BY <1>2, <1>3, <1>4 DEF ChatTypeOK

\* Numbers only come from the page.
LEMMA NumberedStep ==
    ASSUME ClientInv, PicoTypeOK, ChatTypeOK, Linked, AskingIsWork, Numbered,
           [ChatNext]_chatVars
    PROVE  Numbered'
<1> USE ChatAssumption
<1>1. asked \in Nat /\ asking \in [Conns -> Nat]
    BY ChatClientAssumption DEF ClientInv, ConnectionTypeOK, PicoTypeOK
<1>2. CASE Calm
    BY <1>2 DEF Calm, Numbered
<1>3. CASE PageSends
    <2>1. \A c \in Conns : asking'[c] <= asked'
        BY <1>1, <1>3, SendDoes DEF Numbered
    <2>2. \A c \in Conns : \A i \in DOMAIN toServer'[c] : toServer'[c][i] \in 1..asked'
        BY <1>1, <1>3, SendDoes DEF Numbered
    <2>3. \A i \in DOMAIN stored' : stored'[i].to \in 1..asked'
        BY <1>1, <1>3, SendDoes DEF Numbered
    <2> QED BY <2>1, <2>2, <2>3 DEF Numbered
<1>4. ASSUME NEW c \in Conns, ReadStep(c)
      PROVE  Numbered'
    <2>1. toServer[c][1] \in 1..asked
        BY <1>4, ReadDoes DEF Numbered
    <2>2. \A d \in Conns : asking'[d] <= asked'
        BY <1>1, <1>4, <2>1, ReadDoes DEF Numbered
    <2>3. \A d \in Conns : \A i \in DOMAIN toServer'[d] : toServer'[d][i] \in 1..asked'
        BY <1>4, ReadDoes DEF Numbered
    <2> QED BY <1>4, <2>2, <2>3, ReadDoes DEF Numbered
<1>5. ASSUME NEW c \in Conns, NEW line \in {Asks(asking[c]), Answers(asking[c])}, StoreGets(line),
             asking[c] # 0, UNCHANGED <<asked, toServer>>, \A d \in Conns : asking'[d] \in {asking[d], 0}
      PROVE  Numbered'
    <2>1. line.to \in 1..asked
        BY <1>1, <1>5 DEF Numbered, Asks, Answers
    <2>2. \A i \in DOMAIN stored' : stored'[i].to \in 1..asked'
        BY <1>5, <2>1 DEF StoreGets, Numbered
    <2>3. \A d \in Conns : asking'[d] <= asked'
        BY <1>1, <1>5 DEF Numbered
    <2> QED BY <1>5, <2>2, <2>3 DEF Numbered
<1>6. ASSUME NEW c \in Conns, BeginTurn(c)
      PROVE  Numbered'
    BY <1>5, <1>6, BeginTurnDoes
<1>7. ASSUME NEW c \in Conns, FinishTurn(c)
      PROVE  Numbered'
    <2>1. \A d \in Conns : asking'[d] \in {asking[d], 0}
        BY <1>1, <1>7, FinishTurnDoes
    <2> QED BY <1>5, <1>7, <2>1, FinishTurnDoes
<1>8. ASSUME NEW c \in Conns, Forget(c)
      PROVE  Numbered'
    BY <1>8, ForgetDoes DEF Numbered
<1> QED BY <1>2, <1>3, <1>4, <1>6, <1>7, <1>8, CalmSteps

\* A read loop gets its message with its place, and gives up both together.
LEMMA WorkStep ==
    ASSUME ClientInv, PicoTypeOK, ChatTypeOK, Linked, Numbered, AskingIsWork,
           [ChatNext]_chatVars
    PROVE  AskingIsWork'
<1> USE ChatAssumption
<1>1. asking \in [Conns -> Nat] /\ place \in [Conns -> Places] /\ asked \in Nat
    BY ChatClientAssumption DEF PicoTypeOK, ClientInv, ConnectionTypeOK
<1>2. CASE Calm
    BY <1>2 DEF Calm, AskingIsWork
<1>3. CASE PageSends
    BY <1>3, SendDoes DEF AskingIsWork
<1>4. ASSUME NEW c \in Conns, ReadStep(c)
      PROVE  AskingIsWork'
    <2>1. toServer[c][1] # 0
        BY <1>1, <1>4, ReadDoes DEF Numbered
    <2> QED BY <1>1, <1>4, <2>1, ReadDoes DEF AskingIsWork
<1>5. ASSUME NEW c \in Conns, BeginTurn(c) \/ FinishTurn(c)
      PROVE  AskingIsWork'
    BY <1>1, <1>5, BeginTurnDoes, FinishTurnDoes DEF AskingIsWork
<1>6. ASSUME NEW c \in Conns, Forget(c)
      PROVE  AskingIsWork'
    BY <1>6, ForgetDoes DEF AskingIsWork
<1> QED BY <1>2, <1>3, <1>4, <1>5, <1>6, CalmSteps

\* A message moves from the page to the read loop and is gone from where it was.
LEMMA OnePlaceStep ==
    ASSUME ClientInv, PicoTypeOK, ChatTypeOK, Linked, Numbered, AskingIsWork, OnePlace,
           [ChatNext]_chatVars
    PROVE  OnePlace'
<1> USE ChatAssumption
<1>1. asking \in [Conns -> Nat] /\ asked \in Nat
    BY ChatClientAssumption DEF PicoTypeOK, ClientInv, ConnectionTypeOK
<1>2. CASE Calm
    BY <1>2 DEF Calm, OnePlace
<1>3. CASE PageSends
    <2>1. \A c \in Conns : asking'[c] = asking[c] /\ asking[c] <= asked
        BY <1>3, SendDoes DEF Numbered
    <2>2. \A c \in Conns : \A i \in DOMAIN toServer[c] : toServer[c][i] <= asked
        BY DEF Numbered
    <2>3. \A c, d \in Conns : \A i \in DOMAIN toServer'[c] : \A j \in DOMAIN toServer'[d] :
             toServer'[c][i] = toServer'[d][j] => c = d /\ i = j
        BY <1>1, <1>3, <2>2, SendDoes DEF OnePlace
    <2>4. \A c, d \in Conns : \A i \in DOMAIN toServer'[c] : toServer'[c][i] # asking'[d]
        BY <1>1, <1>3, <2>1, SendDoes DEF OnePlace
    <2> QED BY <2>1, <2>3, <2>4 DEF OnePlace
<1>4. ASSUME NEW c \in Conns, ReadStep(c)
      PROVE  OnePlace'
    <2>1. \A d, e \in Conns : \A i \in DOMAIN toServer'[d] : \A j \in DOMAIN toServer'[e] :
             toServer'[d][i] = toServer'[e][j] => d = e /\ i = j
        BY <1>4, ReadDoes DEF OnePlace
    <2>2. ASSUME NEW d \in Conns, NEW e \in Conns, NEW i \in DOMAIN toServer'[d]
          PROVE  toServer'[d][i] # asking'[e]
        <3>1. PICK k \in DOMAIN toServer[d] : /\ toServer'[d][i] = toServer[d][k]
                                              /\ k = (IF d = c THEN i + 1 ELSE i)
                                              /\ i \in Nat \ {0}
            BY <1>4, ReadDoes
        <3>2. CASE e = c
            <4>1. asking'[e] = toServer[c][1] /\ 1 \in DOMAIN toServer[c]
                BY <1>1, <1>4, <3>2, ReadDoes
            <4>2. toServer[d][k] = toServer[c][1] => d = c /\ k = 1
                BY <4>1 DEF OnePlace
            <4> QED BY <3>1, <4>1, <4>2
        <3>3. CASE e # c
            BY <1>1, <1>4, <3>1, <3>3, ReadDoes DEF OnePlace
        <3> QED BY <3>2, <3>3
    <2>3. \A d, e \in Conns : asking'[d] = asking'[e] /\ asking'[d] # 0 => d = e
        BY <1>1, <1>4, ReadDoes DEF OnePlace
    <2> QED BY <2>1, <2>2, <2>3 DEF OnePlace
<1>5. ASSUME NEW c \in Conns, BeginTurn(c)
      PROVE  OnePlace'
    BY <1>5, BeginTurnDoes DEF OnePlace
<1>6. ASSUME NEW c \in Conns, FinishTurn(c)
      PROVE  OnePlace'
    <2>1. \A d \in Conns : \A i \in DOMAIN toServer[d] : toServer[d][i] # 0
        BY <1>1 DEF Numbered
    <2> QED BY <1>1, <1>6, <2>1, FinishTurnDoes DEF OnePlace
<1>7. ASSUME NEW c \in Conns, Forget(c)
      PROVE  OnePlace'
    BY <1>7, ForgetDoes DEF OnePlace
<1> QED BY <1>2, <1>3, <1>4, <1>5, <1>6, <1>7, CalmSteps

\* Only the turn that works on a message stores lines about it.
LEMMA NotYetStoredStep ==
    ASSUME ClientInv, PicoTypeOK, ChatTypeOK, Linked, Numbered, AskingIsWork, OnePlace,
           NotYetStored, [ChatNext]_chatVars
    PROVE  NotYetStored'
<1> USE ChatAssumption
<1>1. /\ asking \in [Conns -> Nat] /\ place \in [Conns -> Places]
      /\ asked \in Nat /\ stored \in Seq(Line)
    BY ChatClientAssumption DEF PicoTypeOK, ChatTypeOK, ClientInv, ConnectionTypeOK
<1>2. CASE Calm
    BY <1>2 DEF Calm, NotYetStored
<1>3. CASE PageSends
    <2>1. \A k \in DOMAIN stored : stored[k].to <= asked
        BY DEF Numbered
    <2>2. \A c \in Conns : \A i \in DOMAIN toServer'[c] : \A k \in DOMAIN stored' :
             stored'[k].to # toServer'[c][i]
        BY <1>1, <1>3, <2>1, SendDoes DEF NotYetStored
    <2> QED BY <1>3, <2>2, SendDoes DEF NotYetStored
<1>4. ASSUME NEW c \in Conns, ReadStep(c)
      PROVE  NotYetStored'
    <2>1. \A d \in Conns : \A i \in DOMAIN toServer'[d] : \A k \in DOMAIN stored' :
             stored'[k].to # toServer'[d][i]
        BY <1>4, ReadDoes DEF NotYetStored
    <2>2. ASSUME NEW d \in Conns, NEW k \in DOMAIN stored', stored'[k].to = asking'[d]
          PROVE  place'[d] = "turn" /\ stored'[k] = Asks(asking'[d])
        <3>1. d # c
            BY <1>1, <1>4, <2>2, ReadDoes DEF NotYetStored
        <3> QED BY <1>1, <1>4, <2>2, <3>1, ReadDoes DEF NotYetStored
    <2> QED BY <2>1, <2>2 DEF NotYetStored
<1>5. ASSUME NEW c \in Conns, BeginTurn(c)
      PROVE  NotYetStored'
    <2> DEFINE n == asking[c]
    <2>1. /\ \A k \in DOMAIN stored' : \/ k \in DOMAIN stored /\ stored'[k] = stored[k]
                                       \/ stored'[k] = Asks(n)
          /\ Asks(n).to = n
        BY <1>5, BeginTurnDoes DEF StoreGets, Asks
    <2>2. \A d \in Conns : \A i \in DOMAIN toServer'[d] : \A k \in DOMAIN stored' :
             stored'[k].to # toServer'[d][i]
        BY <1>5, <2>1, BeginTurnDoes DEF NotYetStored, OnePlace
    <2>3. ASSUME NEW d \in Conns, NEW k \in DOMAIN stored', stored'[k].to = asking'[d]
          PROVE  place'[d] = "turn" /\ stored'[k] = Asks(asking'[d])
        <3>1. asking' = asking /\ n # 0 /\ place[c] = "waiting"
              /\ place' = [place EXCEPT ![c] = "turn"]
            BY <1>5, BeginTurnDoes
        <3>2. CASE stored'[k] = Asks(n)
            <4>1. d = c
                BY <2>1, <2>3, <3>1, <3>2 DEF OnePlace
            <4> QED BY <1>1, <3>1, <3>2, <4>1
        <3>3. CASE k \in DOMAIN stored /\ stored'[k] = stored[k]
            <4>1. place[d] = "turn" /\ stored[k] = Asks(asking[d])
                BY <2>3, <3>1, <3>3 DEF NotYetStored
            <4> QED BY <1>1, <3>1, <3>3, <4>1
        <3> QED BY <2>1, <3>2, <3>3
    <2> QED BY <2>2, <2>3 DEF NotYetStored
<1>6. ASSUME NEW c \in Conns, FinishTurn(c)
      PROVE  NotYetStored'
    <2> DEFINE n == asking[c]
    <2>1. /\ \A k \in DOMAIN stored' : \/ k \in DOMAIN stored /\ stored'[k] = stored[k]
                                       \/ stored'[k] = Answers(n)
          /\ Answers(n).to = n
        BY <1>6, FinishTurnDoes DEF StoreGets, Answers
    <2>2. \A d \in Conns : \A i \in DOMAIN toServer'[d] : \A k \in DOMAIN stored' :
             stored'[k].to # toServer'[d][i]
        BY <1>6, <2>1, FinishTurnDoes DEF NotYetStored, OnePlace
    <2>3. ASSUME NEW d \in Conns, NEW k \in DOMAIN stored', stored'[k].to = asking'[d]
          PROVE  place'[d] = "turn" /\ stored'[k] = Asks(asking'[d])
        <3>1. /\ asking' = [asking EXCEPT ![c] = 0] /\ n # 0
              /\ place' = [place EXCEPT ![c] = "top"]
            BY <1>6, FinishTurnDoes
        <3>2. asking'[d] # 0
            <4>1. \A i \in DOMAIN stored : stored[i].to # 0
                BY <1>1 DEF Numbered
            <4> QED BY <2>1, <2>3, <3>1, <4>1
        <3>3. d # c /\ asking'[d] = asking[d] /\ place'[d] = place[d]
            BY <1>1, <3>1, <3>2
        <3>4. stored'[k] # Answers(n)
            BY <2>1, <2>3, <3>1, <3>3 DEF OnePlace
        <3> QED BY <2>1, <2>3, <3>3, <3>4 DEF NotYetStored
    <2> QED BY <2>2, <2>3 DEF NotYetStored
<1>7. ASSUME NEW c \in Conns, Forget(c)
      PROVE  NotYetStored'
    BY <1>7, ForgetDoes DEF NotYetStored
<1> QED BY <1>2, <1>3, <1>4, <1>5, <1>6, <1>7, CalmSteps

\* A line that is not there yet, and is no answer or comes after its question, may be
\* stored.
LEMMA OnceMore ==
    ASSUME ChatTypeOK, StoredOnce, NEW line, StoreGets(line),
           \A k \in DOMAIN stored : stored[k] # line,
           line.who = "assistant" => \E i \in DOMAIN stored : stored[i] = Asks(line.to)
    PROVE  StoredOnce'
<1>1. stored \in Seq(Line) /\ stored' \in Seq(Line)
    BY DEF ChatTypeOK, StoreGets
<1>2. \A i, j \in DOMAIN stored' : stored'[i] = stored'[j] => i = j
    BY DEF StoreGets, StoredOnce
<1>3. ASSUME NEW j \in DOMAIN stored', stored'[j].who = "assistant"
      PROVE  \E i \in 1..(j - 1) : stored'[i] = Asks(stored'[j].to)
    <2>1. CASE j \in DOMAIN stored /\ stored'[j] = stored[j]
        <3>1. PICK i \in 1..(j - 1) : stored[i] = Asks(stored[j].to)
            BY <1>3, <2>1 DEF StoredOnce
        <3>2. i \in DOMAIN stored
            BY <1>1, <2>1
        <3> QED BY <2>1, <3>1, <3>2 DEF StoreGets
    <2>2. CASE j = Len(stored) + 1 /\ stored'[j] = line
        <3>1. PICK i \in DOMAIN stored : stored[i] = Asks(line.to)
            BY <1>3, <2>2
        <3>2. i \in 1..(j - 1)
            BY <1>1, <2>2
        <3> QED BY <2>2, <3>1, <3>2 DEF StoreGets
    <2> QED BY <1>3, <2>1, <2>2 DEF StoreGets
<1> QED BY <1>2, <1>3 DEF StoredOnce

LEMMA StoredOnceStep ==
    ASSUME ClientInv, PicoTypeOK, ChatTypeOK, Linked, Numbered, AskingIsWork, OnePlace,
           NotYetStored, StoredOnce, [ChatNext]_chatVars
    PROVE  StoredOnce'
<1>1. ASSUME UNCHANGED stored PROVE StoredOnce'
    BY <1>1 DEF StoredOnce
<1>2. ASSUME NEW c \in Conns, BeginTurn(c)
      PROVE  StoredOnce'
    <2>1. \A k \in DOMAIN stored : stored[k] # Asks(asking[c])
        BY <1>2, BeginTurnDoes DEF NotYetStored, Asks
    <2>2. Asks(asking[c]).who # "assistant"
        BY DEF Asks
    <2>3. StoreGets(Asks(asking[c]))
        BY <1>2, BeginTurnDoes
    <2> QED BY <2>1, <2>2, <2>3, OnceMore
<1>3. ASSUME NEW c \in Conns, FinishTurn(c)
      PROVE  StoredOnce'
    <2>1. CASE UNCHANGED stored
        BY <1>1, <2>1
    <2>2. CASE Asks(asking[c]) \in ToSet(stored)
        <3>1. \A k \in DOMAIN stored : stored[k] # Answers(asking[c])
            BY DEF NotYetStored, Answers, Asks
        <3>2. Answers(asking[c]).to = asking[c]
            BY DEF Answers
        <3>3. \E i \in DOMAIN stored : stored[i] = Asks(Answers(asking[c]).to)
            BY <2>2, <3>2 DEF ToSet
        <3>4. StoreGets(Answers(asking[c]))
            BY <1>3, FinishTurnDoes
        <3> QED BY <3>1, <3>3, <3>4, OnceMore
    <2> QED BY <1>3, <2>1, <2>2, FinishTurnDoes
<1>4. CASE Calm \/ PageSends \/ \E c \in Conns : ReadStep(c) \/ Forget(c)
    <2>1. UNCHANGED stored
        BY <1>4, SendDoes, ReadDoes, ForgetDoes DEF Calm
    <2> QED BY <1>1, <2>1
<1> QED BY <1>2, <1>3, <1>4, CalmSteps

-----------------------------------------------------------------------------
(* The messages to a page, and what it shows.                              *)

\* Nothing that was stored is lost, and no number is given back.
LEMMA StoreGrows ==
    ASSUME ClientInv, PicoTypeOK, ChatTypeOK, Linked, AskingIsWork, [ChatNext]_chatVars
    PROVE  /\ \A l : l \in ToSet(stored) => l \in ToSet(stored)'
           /\ \A out \in Outgoing : Backed(out) =>
                 /\ out.to <= asked'
                 /\ out.kind = "reply" => Answers(out.to) \in ToSet(stored)'
<1> USE ChatAssumption
<1>1. stored \in Seq(Line) /\ asked \in Nat
    BY ChatClientAssumption DEF ChatTypeOK, ClientInv, ConnectionTypeOK
<1>2. \A i \in DOMAIN stored : i \in DOMAIN stored' /\ stored'[i] = stored[i]
    BY CalmSteps, SendDoes, ReadDoes, BeginTurnDoes, FinishTurnDoes, ForgetDoes
    DEF Calm, StoreGets
<1>3. asked' = asked \/ asked' = asked + 1
    BY CalmSteps, SendDoes, ReadDoes, BeginTurnDoes, FinishTurnDoes, ForgetDoes DEF Calm
<1>4. \A l : l \in ToSet(stored) => l \in ToSet(stored)'
    BY <1>2 DEF ToSet
<1>5. \A out \in Outgoing : out.to <= asked => out.to <= asked'
    BY <1>1, <1>3 DEF Outgoing
<1> QED BY <1>4, <1>5 DEF Backed

LEMMA BackedStep ==
    ASSUME ClientInv, PicoTypeOK, ChatTypeOK, Linked, Numbered, AskingIsWork, SentIsBacked,
           [ChatNext]_chatVars
    PROVE  SentIsBacked'
<1> DEFINE Fine(out) == /\ out.to <= asked'
                        /\ out.kind = "reply" => Answers(out.to) \in ToSet(stored)'
<1>1. /\ outbox \in Seq(Outgoing) /\ toClient \in [Conns -> Seq(Outgoing)]
      /\ sending.msg \in Seq(Outgoing) /\ asking \in [Conns -> Nat]
    BY DEF PicoTypeOK
<1>2. /\ \A i \in DOMAIN outbox : Fine(outbox[i])
      /\ \A i \in DOMAIN sending.msg : Fine(sending.msg[i])
      /\ \A c \in Conns : \A i \in DOMAIN toClient[c] : Fine(toClient[c][i])
    BY <1>1, StoreGrows DEF SentIsBacked
<1> SUFFICES /\ \A i \in DOMAIN outbox' : Fine(outbox'[i])
             /\ \A i \in DOMAIN sending'.msg : Fine(sending'.msg[i])
             /\ \A c \in Conns : \A i \in DOMAIN toClient'[c] : Fine(toClient'[c][i])
    BY DEF SentIsBacked, Backed
<1>3. CASE Quiet
    <2> HIDE DEF Fine
    <2> QED BY <1>2, <1>3 DEF Quiet
<1>4. CASE Publish
    <2> HIDE DEF Fine
    <2>1. /\ outbox # <<>> /\ outbox' = Tail(outbox) /\ UNCHANGED toClient
          /\ sending'.msg = <<Head(outbox)>> \/ sending'.msg = <<>>
        BY <1>4 DEF Publish, Take, netVars, NotSending
    <2>2. Fine(Head(outbox)) /\ \A i \in DOMAIN outbox' : Fine(outbox'[i])
        BY <1>1, <1>2, <2>1, TailElements
    <2> QED BY <1>2, <2>1, <2>2
<1>5. ASSUME NEW c \in Conns, PageReceives(c)
      PROVE  /\ \A i \in DOMAIN outbox' : Fine(outbox'[i])
             /\ \A i \in DOMAIN sending'.msg : Fine(sending'.msg[i])
             /\ \A d \in Conns : \A i \in DOMAIN toClient'[d] : Fine(toClient'[d][i])
    <2> HIDE DEF Fine
    <2>1. /\ toClient[c] # <<>> /\ toClient' = [toClient EXCEPT ![c] = Tail(toClient[c])]
          /\ UNCHANGED <<outbox, sending>>
        BY <1>5 DEF PageReceives
    <2>2. \A i \in DOMAIN Tail(toClient[c]) : Fine(Tail(toClient[c])[i])
        BY <1>1, <1>2, <2>1, TailElements
    <2> QED BY <1>1, <1>2, <2>1, <2>2
<1>6. ASSUME NEW c \in Conns, FinishTurn(c)
      PROVE  /\ \A i \in DOMAIN outbox' : Fine(outbox'[i])
             /\ \A i \in DOMAIN sending'.msg : Fine(sending'.msg[i])
             /\ \A d \in Conns : \A i \in DOMAIN toClient'[d] : Fine(toClient'[d][i])
    <2> DEFINE msg(outcome) == [kind |-> outcome, user |-> of[c], to |-> asking[c]]
    <2>1. asking[c] <= asked' /\ UNCHANGED sending
        BY <1>6, FinishTurnDoes DEF Numbered
    <2>2. \/ UNCHANGED <<outbox, toClient>>
          \/ /\ outbox' = Append(outbox, msg("reply")) /\ UNCHANGED toClient
             /\ stored' = Append(stored, Answers(asking[c]))
          \/ /\ toClient' = [toClient EXCEPT ![c] = Append(toClient[c], msg("error"))]
             /\ UNCHANGED outbox
        BY <1>6 DEF FinishTurn, EndTurn
    <2>3. CASE UNCHANGED <<outbox, toClient>>
        <3> HIDE DEF Fine
        <3> QED BY <1>2, <2>1, <2>3
    <2>4. CASE /\ outbox' = Append(outbox, msg("reply")) /\ UNCHANGED toClient
               /\ stored' = Append(stored, Answers(asking[c]))
        <3>1. msg("reply") \in Outgoing
            BY <1>1 DEF Outgoing, PicoTypeOK
        <3>2. Answers(asking[c]) \in ToSet(stored)'
            <4>1. stored \in Seq(Line) /\ Answers(asking[c]) \in Line
                BY <1>1 DEF ChatTypeOK, Answers, Line
            <4> QED BY <2>4, <4>1 DEF ToSet
        <3>3. Fine(msg("reply"))
            BY <2>1, <3>2
        <3> HIDE DEF Fine, msg
        <3>4. \A i \in DOMAIN outbox' : Fine(outbox'[i])
            BY <1>1, <1>2, <2>4, <3>1, <3>3, AppendElements
        <3> QED BY <1>2, <2>1, <2>4, <3>4
    <2>5. CASE /\ toClient' = [toClient EXCEPT ![c] = Append(toClient[c], msg("error"))]
               /\ UNCHANGED outbox
        <3>1. msg("error") \in Outgoing
            BY <1>1 DEF Outgoing, PicoTypeOK
        <3>2. Fine(msg("error"))
            BY <2>1
        <3> HIDE DEF Fine, msg
        <3>3. \A i \in DOMAIN Append(toClient[c], msg("error")) :
                 Fine(Append(toClient[c], msg("error"))[i])
            BY <1>1, <1>2, <3>1, <3>2, AppendElements
        <3> QED BY <1>1, <1>2, <2>1, <2>5, <3>3
    <2> QED BY <2>2, <2>3, <2>4, <2>5
<1>7. ASSUME NEW c \in Conns, WriteStep(c)
      PROVE  /\ \A i \in DOMAIN outbox' : Fine(outbox'[i])
             /\ \A i \in DOMAIN sending'.msg : Fine(sending'.msg[i])
             /\ \A d \in Conns : \A i \in DOMAIN toClient'[d] : Fine(toClient'[d][i])
    <2> HIDE DEF Fine
    <2>1. /\ UNCHANGED outbox
          /\ sending'.msg = <<>> \/ sending'.msg = sending.msg
          /\ \/ UNCHANGED toClient
             \/ toClient' = [toClient EXCEPT ![c] = toClient[c] \o sending.msg]
        BY <1>7 DEF WriteStep, Write, NotSending, PicoTypeOK
    <2>2. \A i \in DOMAIN (toClient[c] \o sending.msg) : Fine((toClient[c] \o sending.msg)[i])
        BY <1>1, <1>2, ConcatElements
    <2>3. \A d \in Conns : \A i \in DOMAIN toClient'[d] : Fine(toClient'[d][i])
        BY <1>1, <1>2, <2>1, <2>2
    <2>4. \A i \in DOMAIN sending'.msg : Fine(sending'.msg[i])
        BY <1>2, <2>1
    <2>5. \A i \in DOMAIN outbox' : Fine(outbox'[i])
        BY <1>2, <2>1
    <2> QED BY <2>3, <2>4, <2>5
<1>8. ASSUME NEW c \in Conns, Forget(c)
      PROVE  /\ \A i \in DOMAIN outbox' : Fine(outbox'[i])
             /\ \A i \in DOMAIN sending'.msg : Fine(sending'.msg[i])
             /\ \A d \in Conns : \A i \in DOMAIN toClient'[d] : Fine(toClient'[d][i])
    <2> HIDE DEF Fine
    <2> QED BY <1>2, <1>8, ForgetDoes
<1> QED BY <1>3, <1>4, <1>5, <1>6, <1>7, <1>8, QuietSteps

\* A page shows what it was sent, or what was read from the store.
LEMMA ShownStep ==
    ASSUME ClientInv, messages \in Seq(Line), PicoTypeOK, ChatTypeOK, Linked, AskingIsWork,
           SentIsBacked, ShownIsStored, [ChatNext]_chatVars
    PROVE  ShownIsStored'
<1> USE ChatAssumption
<1>1. \A l : l \in ToSet(stored) => l \in ToSet(stored)'
    BY StoreGrows
<1>2. \A l \in ToSet(messages) : l.who = "assistant" => l \in ToSet(stored)'
    BY <1>1 DEF ShownIsStored
<1> SUFFICES ASSUME NEW l \in ToSet(messages)', l.who = "assistant"
             PROVE  l \in ToSet(stored)'
    BY DEF ShownIsStored
<1>3. CASE UNCHANGED messages
    BY <1>2, <1>3 DEF ToSet
<1>4. CASE Page
    <2>1. messages' = messages \/ messages' = stored \/ messages' = <<>>
        BY <1>4 DEF Page, PageCallback, GatewayAnswers, GatewayBecomes, Resolved, ResolveFails,
           Loaded, LoadFails, TimerFires, Reload, screenVars
    <2>2. CASE messages' = stored
        BY <1>1, <2>2 DEF ToSet
    <2>3. CASE messages' = <<>>
        BY <2>3 DEF ToSet
    <2> QED BY <1>3, <2>1, <2>2, <2>3
<1>5. CASE PageSends
    <2>1. asked \in Nat
        BY ChatClientAssumption DEF ClientInv, ConnectionTypeOK
    <2>2. l \in ToSet(messages)
        BY <1>5, <2>1, SendKeepsLines DEF PageSends
    <2> QED BY <1>2, <2>2
<1>6. ASSUME NEW c \in Conns, PageReceives(c)
      PROVE  l \in ToSet(stored)'
    <2> DEFINE out == Head(toClient[c])
               msg == [kind |-> out.kind, to |-> out.to,
                       session |-> IF out.kind = "reply" THEN out.user ELSE NoSession]
    <2>1. Receive(c, msg) /\ toClient[c] # <<>>
        BY <1>6 DEF PageReceives
    <2>2. out \in Outgoing /\ out = toClient[c][1] /\ 1 \in DOMAIN toClient[c]
        BY <2>1, TailElements DEF PicoTypeOK
    <2>3. msg.to \in Nat
        BY <2>2 DEF Outgoing
    <2>4. l \in ToSet(messages) \/ (msg.kind = "reply" /\ l = [who |-> "assistant", to |-> msg.to])
        BY <2>1, <2>3, ReceiveKeepsLines
    <2>5. Backed(out)
        BY <2>2 DEF SentIsBacked
    <2>6. msg.kind = "reply" => Answers(msg.to) \in ToSet(stored)
        BY <2>5 DEF Backed
    <2> QED BY <1>1, <1>2, <2>4, <2>6 DEF Answers
<1>7. CASE \/ \E c \in Conns :
                \/ PageOpened(c) \/ PageClosed(c) \/ BeginTurn(c) \/ FinishTurn(c) \/ Serve(c)
                \/ Deadline(c) \/ Forget(c) \/ NetworkBreaks(c)
           \/ Publish \/ ApiTurn \/ UNCHANGED chatVars
    <2>1. UNCHANGED messages
        BY <1>7 DEF PageOpened, Opened, PageClosed, Closed, BeginTurn, FinishTurn, Serve,
           Deadline, Forget, NetworkBreaks, Publish, ApiTurn, chatVars, clientVars, screenVars
    <2> QED BY <1>3, <2>1
<1> QED BY <1>4, <1>5, <1>6, <1>7 DEF ChatNext

-----------------------------------------------------------------------------
(* Theorems.                                                               *)

\* The invariant holds at the start.
LEMMA ChatInvInit == ChatInit => ChatInv
<1> SUFFICES ASSUME ChatInit PROVE ChatInv
    OBVIOUS
<1> USE ChatAssumption
<1>1. ClientInv /\ messages \in Seq(Line)
    BY ClientInvInit, EmptySeq DEF ChatInit, ClientInit
<1>2. PicoInv
    BY PicoInvInit DEF ChatInit
<1>3. ChatTypeOK
    BY EmptySeq DEF ChatInit, ChatTypeOK
<1>4. Linked
    BY DEF ChatInit, ClientInit, PicoInit, Linked
<1>5. AskingIsWork /\ OnePlace
    BY DEF ChatInit, PicoInit, AskingIsWork, OnePlace
<1>6. Numbered /\ NotYetStored /\ StoredOnce
    BY DEF ChatInit, ClientInit, PicoInit, Numbered, NotYetStored, StoredOnce
<1>7. SentIsBacked /\ ShownIsStored
    BY DEF ChatInit, ClientInit, PicoInit, SentIsBacked, ShownIsStored, NotSending, ToSet
<1> QED BY <1>1, <1>2, <1>3, <1>4, <1>5, <1>6, <1>7 DEF ChatInv

\* Every step keeps it.
LEMMA ChatInvStep == ChatInv /\ [ChatNext]_chatVars => ChatInv'
<1> SUFFICES ASSUME ChatInv, [ChatNext]_chatVars PROVE ChatInv'
    OBVIOUS
<1>1. PicoTypeOK
    BY DEF ChatInv, PicoInv
<1>2. ClientInv' /\ messages' \in Seq(Line)
    BY <1>1, PageStep DEF ChatInv
<1>3. PicoInv'
    BY <1>1, ServerStep, PicoInvStep DEF ChatInv
<1>4. ChatTypeOK' /\ Linked' /\ Numbered' /\ AskingIsWork'
    BY <1>1, StoreTypeStep, LinkedStep, NumberedStep, WorkStep DEF ChatInv
<1>5. OnePlace' /\ NotYetStored' /\ StoredOnce'
    BY <1>1, OnePlaceStep, NotYetStoredStep, StoredOnceStep DEF ChatInv
<1>6. SentIsBacked' /\ ShownIsStored'
    BY <1>1, BackedStep, ShownStep DEF ChatInv
<1> QED BY <1>2, <1>3, <1>4, <1>5, <1>6 DEF ChatInv

\* The inductive invariant.
THEOREM ChatInvariant == ChatSpec => []ChatInv
<1>1. ChatInit => ChatInv
    BY ChatInvInit
<1>2. ChatInv /\ [ChatNext]_chatVars => ChatInv'
    BY ChatInvStep
<1> QED BY <1>1, <1>2, PTL DEF ChatSpec

\* Page and server together implement the server's specification: a page is one of the
\* clients the channel is specified for, however its sockets come and go.
THEOREM ChatServer == ChatSpec => ServerAsSpecified
<1>1. ChatInit => PicoInit
    BY DEF ChatInit
<1>2. ChatInv /\ [ChatNext]_chatVars => [PicoNext]_picoVars
    BY ServerStep DEF ChatInv, PicoInv
<1> QED BY <1>1, <1>2, ChatInvariant, PTL DEF ChatSpec, PicoSpec, ServerAsSpecified

\* The state keeps its types.
THEOREM ChatTypeCorrect == ChatSpec => []ChatTypeOK
<1>1. ChatInv => ChatTypeOK
    BY DEF ChatInv
<1> QED BY <1>1, ChatInvariant, PTL

\* A message is worked on once at most, whatever breaks and whoever connects again.
THEOREM ChatStoredOnce == ChatSpec => []StoredOnce
<1>1. ChatInv => StoredOnce
    BY DEF ChatInv
<1> QED BY <1>1, ChatInvariant, PTL

\* An answer that the user has seen is there after a reload.
THEOREM ChatSeenIsStored == ChatSpec => []SeenIsStored
<1>1. ChatInv => SeenIsStored
    <2> SUFFICES ASSUME ChatInv, NEW n \in 1..MaxMsg, Answers(n) \in ToSet(messages)
                 PROVE  Answers(n) \in ToSet(stored)
        BY DEF SeenIsStored
    <2>1. Answers(n).who = "assistant"
        BY DEF Answers
    <2> QED BY <2>1 DEF ChatInv, ShownIsStored
<1> QED BY <1>1, ChatInvariant, PTL

\* With the server's answers, too, the page never has two connections, always has a
\* way back to one, and says of it what is so.
THEOREM ChatPage == ChatSpec => [](OneSocket /\ NeverStranded /\ HonestStatus)
<1>1. ChatInv => OneSocket /\ NeverStranded /\ HonestStatus
    BY DEF ChatInv, ClientInv
<1> QED BY <1>1, ChatInvariant, PTL
=============================================================================
