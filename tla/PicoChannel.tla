---------------------------- MODULE PicoChannel ----------------------------
(***************************************************************************)
(* The server's end of the web chat: picoclaw's Pico channel               *)
(* (pkg/channels/pico/pico.go) with the multi-tenant hooks of              *)
(* v7server/pico.go.  A connection has one goroutine after another: the    *)
(* HTTP handler until it is registered, then its read loop, which runs a   *)
(* whole turn before it reads again.  Answers do not come back through     *)
(* that goroutine: they are published, and the channel's worker writes     *)
(* them to all connections of the session.                                 *)
(*                                                                         *)
(* TCP is part of the model: link[c] is "up" until either end closes it    *)
(* or it breaks, and each end finds out in its own time.  The token of the *)
(* upgrade request is valid; messages are numbers.                         *)
(***************************************************************************)
EXTENDS Naturals, Sequences, FiniteSets, SequencesExt

CONSTANTS
    Conns,      \* identities of connections, recycled
    NoConn,     \* nil
    Users,      \* session ids that can be connected to
    MaxConns,   \* MaxConnections
    MaxMsg      \* bound: messages are 1..MaxMsg

ASSUME PicoChannelAssumption ==
    /\ IsFiniteSet(Conns)
    /\ NoConn \notin Conns
    /\ MaxConns \in Nat \ {0}
    /\ MaxMsg \in Nat
    /\ Users # {}

VARIABLES
    stopping,   \* Stop: "no", "refusing", "closing", then "stopped"
    conns,      \* connections
    byUser,     \* sessionConnections
    place,      \* place[c]: where the goroutine of connection c is
    of,         \* of[c]: picoConn.sessionID
    closed,     \* picoConn.closed
    late,       \* late[c]: the read deadline of c has passed
    link,       \* link[c]: the TCP connection
    asking,     \* asking[c]: the message c's read loop is working on, 0 for none
    lock,       \* lock[u]: who holds sessionMu of u
    toServer,   \* messages on their way from client to server
    toClient,   \* and back
    outbox,     \* published answers, in the bus and the worker's queue
    sending     \* broadcastToSession: the message and the snapshot it is written to

connVars == <<place, of, closed, late, asking>>
netVars == <<link, toServer, toClient>>
picoVars == <<stopping, conns, byUser, connVars, netVars, lock, outbox, sending>>

Places == {"none", "arrived", "checked", "upgraded", "top", "reading", "waiting", "turn",
           "leaving"}

\* A message to a client; an error goes to the connection it is about alone.
Outgoing == [kind : {"reply", "error"}, user : Users, to : Nat]

NotSending == [msg |-> <<>>, targets |-> {}]

PicoTypeOK ==
    /\ stopping \in {"no", "refusing", "closing", "stopped"}
    /\ conns \subseteq Conns
    /\ byUser \in [Users -> SUBSET Conns]
    /\ place \in [Conns -> Places]
    /\ of \in [Conns -> Users]
    /\ closed \subseteq Conns
    /\ late \in [Conns -> BOOLEAN]
    /\ link \in [Conns -> {"none", "dialing", "up", "down"}]
    /\ asking \in [Conns -> Nat]
    /\ lock \in [Users -> Conns \cup {NoConn}]
    /\ toServer \in [Conns -> Seq(Nat)]
    /\ toClient \in [Conns -> Seq(Outgoing)]
    /\ outbox \in Seq(Outgoing)
    /\ sending \in [msg : Seq(Outgoing), targets : SUBSET Conns]

PicoInit ==
    /\ stopping = "no"
    /\ conns = {}
    /\ byUser = [u \in Users |-> {}]
    /\ place = [c \in Conns |-> "none"]
    /\ of = [c \in Conns |-> CHOOSE u \in Users : TRUE]
    /\ closed = {}
    /\ late = [c \in Conns |-> FALSE]
    /\ link = [c \in Conns |-> "none"]
    /\ asking = [c \in Conns |-> 0]
    /\ lock = [u \in Users |-> NoConn]
    /\ toServer = [c \in Conns |-> <<>>]
    /\ toClient = [c \in Conns |-> <<>>]
    /\ outbox = <<>>
    /\ sending = NotSending

Goto(c, p) == place' = [place EXCEPT ![c] = p]

\* One end closes, or the network does.  What is on its way may get lost.
Break(c) == link' = [link EXCEPT ![c] = "down"]

-----------------------------------------------------------------------------
(* handleWebSocket.                                                        *)

Dial(c, u) ==
    /\ link[c] = "none" /\ place[c] = "none"
    /\ link' = [link EXCEPT ![c] = "dialing"]
    /\ of' = [of EXCEPT ![c] = u]
    /\ Goto(c, "arrived")
    /\ UNCHANGED <<stopping, conns, byUser, closed, late, asking, toServer, toClient, lock,
                   outbox, sending>>

\* IsRunning, then currentConnCount.
Accept(c) ==
    /\ place[c] = "arrived"
    /\ IF stopping = "no" /\ Cardinality(conns) < MaxConns
       THEN Goto(c, "checked") /\ UNCHANGED link
       ELSE Goto(c, "none") /\ Break(c)
    /\ UNCHANGED <<stopping, conns, byUser, of, closed, late, asking, toServer, toClient, lock,
                   outbox, sending>>

\* From here on the client may take the connection for open, and send.
Upgrade(c) ==
    /\ place[c] = "checked"
    /\ IF link[c] = "dialing"
       THEN Goto(c, "upgraded") /\ link' = [link EXCEPT ![c] = "up"]
       ELSE Goto(c, "none") /\ UNCHANGED link
    /\ UNCHANGED <<stopping, conns, byUser, of, closed, late, asking, toServer, toClient, lock,
                   outbox, sending>>

\* Mutant of Register: the limit is not looked at again.
RegisterUnchecked(c) ==
    /\ place[c] = "upgraded"
    /\ conns' = conns \cup {c}
    /\ byUser' = [byUser EXCEPT ![of[c]] = @ \cup {c}]
    /\ Goto(c, "top")
    /\ UNCHANGED <<stopping, of, closed, late, asking, netVars, lock, outbox, sending>>

\* createAndAddConnection; readLoop sets the first read deadline.
Register(c) ==
    /\ place[c] = "upgraded"
    /\ IF Cardinality(conns) < MaxConns
       THEN /\ conns' = conns \cup {c}
            /\ byUser' = [byUser EXCEPT ![of[c]] = @ \cup {c}]
            /\ Goto(c, "top")
            /\ UNCHANGED link
       ELSE Goto(c, "none") /\ Break(c) /\ UNCHANGED <<conns, byUser>>
    /\ UNCHANGED <<stopping, of, closed, late, asking, toServer, toClient, lock, outbox,
                   sending>>

-----------------------------------------------------------------------------
(* readLoop, and handleInbound within it.                                  *)

\* pc.close: the deferred part of readLoop is done in two steps, this and Leave.
CloseConn(c) ==
    /\ closed' = closed \cup {c}
    /\ Break(c)
    /\ Goto(c, "leaving")

LoopTop(c) ==
    /\ place[c] = "top"
    /\ IF stopping = "stopped"
       THEN CloseConn(c)
       ELSE Goto(c, "reading") /\ UNCHANGED <<closed, link>>
    /\ UNCHANGED <<stopping, conns, byUser, of, late, asking, toServer, toClient, lock, outbox,
                   sending>>

\* Mutant of Read: the message stays in the reader's buffer.
ReadAgain(c) ==
    /\ place[c] = "reading"
    /\ toServer[c] # <<>>
    /\ asking' = [asking EXCEPT ![c] = Head(toServer[c])]
    /\ late' = [late EXCEPT ![c] = FALSE]
    /\ Goto(c, "waiting")
    /\ UNCHANGED <<stopping, conns, byUser, of, closed, netVars, lock, outbox, sending>>

\* ReadMessage returns a message; the deadline is set anew.  A message that is in
\* the reader's buffer is returned even when the connection is closed or late.
Read(c) ==
    /\ place[c] = "reading"
    /\ toServer[c] # <<>>
    /\ asking' = [asking EXCEPT ![c] = Head(toServer[c])]
    /\ toServer' = [toServer EXCEPT ![c] = Tail(@)]
    /\ late' = [late EXCEPT ![c] = FALSE]
    /\ Goto(c, "waiting")
    /\ UNCHANGED <<stopping, conns, byUser, of, closed, link, toClient, lock, outbox, sending>>

\* Mutant of ReadFails: readLoop returns without its deferred part.
ReadFailsReturn(c) ==
    /\ place[c] = "reading"
    /\ late[c] \/ c \in closed \/ link[c] = "down"
    /\ Break(c)
    /\ Goto(c, "none")
    /\ UNCHANGED <<stopping, conns, byUser, of, closed, late, asking, toServer, toClient, lock,
                   outbox, sending>>

ReadFails(c) ==
    /\ place[c] = "reading"
    /\ late[c] \/ c \in closed \/ link[c] = "down"
    /\ CloseConn(c)
    /\ UNCHANGED <<stopping, conns, byUser, of, late, asking, toServer, toClient, lock, outbox,
                   sending>>

\* Mutant of Late: no read deadline until the first message.
LateAfterTurn(c) ==
    /\ ~late[c]
    /\ place[c] \in {"waiting", "turn"}
    /\ late' = [late EXCEPT ![c] = TRUE]
    /\ UNCHANGED <<stopping, conns, byUser, place, of, closed, asking, netVars, lock, outbox,
                   sending>>

\* The deadline passes.  Only ReadMessage looks at pongs, so nothing moves it while
\* a turn runs; while the loop reads, the client's pongs keep moving it as long as
\* pingLoop is there to ask for them.
Late(c) ==
    /\ ~late[c]
    /\ \/ place[c] \in {"waiting", "turn"}
       \/ place[c] = "reading" /\ stopping = "stopped"
    /\ late' = [late EXCEPT ![c] = TRUE]
    /\ UNCHANGED <<stopping, conns, byUser, place, of, closed, asking, netVars, lock, outbox,
                   sending>>

\* Mutant of StartTurn: the lock is not waited for.
StartTurnNow(c) ==
    /\ place[c] = "waiting"
    /\ lock' = [lock EXCEPT ![of[c]] = c]
    /\ Goto(c, "turn")
    /\ UNCHANGED <<stopping, conns, byUser, of, closed, late, asking, netVars, outbox, sending>>

\* sessionMu.
StartTurn(c) ==
    /\ place[c] = "waiting"
    /\ lock[of[c]] = NoConn
    /\ lock' = [lock EXCEPT ![of[c]] = c]
    /\ Goto(c, "turn")
    /\ UNCHANGED <<stopping, conns, byUser, of, closed, late, asking, netVars, outbox, sending>>

\* Mutant of EndTurn: an outcome of any kind goes to the bus.
EndTurnPublished(c, outcome) ==
    /\ place[c] = "turn"
    /\ outcome \in {"reply", "error", "silent"}
    /\ outbox' = Append(outbox, [kind |-> outcome, user |-> of[c], to |-> asking[c]])
    /\ lock' = [lock EXCEPT ![of[c]] = NoConn]
    /\ asking' = [asking EXCEPT ![c] = 0]
    /\ Goto(c, "top")
    /\ UNCHANGED <<stopping, conns, byUser, of, closed, late, netVars, sending>>

\* Mutant of EndTurn: an error is not reported.
EndTurnQuietly(c, outcome) ==
    /\ place[c] = "turn"
    /\ outcome \in {"reply", "error", "silent"}
    /\ outcome = "reply" => stopping # "stopped"
    /\ outbox' = IF outcome = "reply"
                 THEN Append(outbox, [kind |-> outcome, user |-> of[c], to |-> asking[c]])
                 ELSE outbox
    /\ lock' = [lock EXCEPT ![of[c]] = NoConn]
    /\ asking' = [asking EXCEPT ![c] = 0]
    /\ Goto(c, "top")
    /\ UNCHANGED <<stopping, conns, byUser, of, closed, late, netVars, sending>>

\* A turn is answered over the bus, unless the context is cancelled; an error is
\* written to the connection it came from; a command and an aborted turn say nothing
\* (handleInbound drops what ProcessToAgent returns).
EndTurn(c, outcome) ==
    /\ place[c] = "turn"
    /\ outcome \in {"reply", "error", "silent"}
    /\ outcome = "reply" => stopping # "stopped"
    /\ LET msg == [kind |-> outcome, user |-> of[c], to |-> asking[c]] IN
         /\ outbox' = IF outcome = "reply" THEN Append(outbox, msg) ELSE outbox
         /\ toClient' = IF outcome = "error" /\ c \notin closed /\ link[c] = "up"
                        THEN [toClient EXCEPT ![c] = Append(@, msg)] ELSE toClient
    /\ lock' = [lock EXCEPT ![of[c]] = NoConn]
    /\ asking' = [asking EXCEPT ![c] = 0]
    /\ Goto(c, "top")
    /\ UNCHANGED <<stopping, conns, byUser, of, closed, late, link, toServer, sending>>

\* Mutant of Leave: the index by session keeps its entry.
LeaveSession(c) ==
    /\ place[c] = "leaving"
    /\ conns' = conns \ {c}
    /\ Goto(c, "none")
    /\ UNCHANGED <<stopping, byUser, of, closed, late, asking, netVars, lock, outbox, sending>>

\* Mutant of Leave: the entries of a connection are never removed.
LeaveEntries(c) ==
    /\ place[c] = "leaving"
    /\ Goto(c, "none")
    /\ UNCHANGED <<stopping, conns, byUser, of, closed, late, asking, netVars, lock, outbox,
                   sending>>

\* removeConnection.
Leave(c) ==
    /\ place[c] = "leaving"
    /\ conns' = conns \ {c}
    /\ byUser' = IF c \in conns THEN [byUser EXCEPT ![of[c]] = @ \ {c}] ELSE byUser
    /\ Goto(c, "none")
    /\ UNCHANGED <<stopping, of, closed, late, asking, netVars, lock, outbox, sending>>

-----------------------------------------------------------------------------
(* The channel's worker, and Stop.                                         *)

\* Mutant of Take: the message goes to all connections.
TakeForAll ==
    /\ sending = NotSending
    /\ outbox # <<>>
    /\ outbox' = Tail(outbox)
    /\ sending' = IF stopping = "no" /\ conns # {}
                  THEN [msg |-> <<Head(outbox)>>, targets |-> conns]
                  ELSE NotSending
    /\ UNCHANGED <<stopping, conns, byUser, connVars, netVars, lock>>

\* Send, broadcastToSession up to the snapshot.  With nobody to write to, or on a
\* stopped channel, the answer is dropped for good (ErrSendFailed, ErrNotRunning).
Take ==
    /\ sending = NotSending
    /\ outbox # <<>>
    /\ outbox' = Tail(outbox)
    /\ sending' = IF stopping = "no" /\ byUser[Head(outbox).user] # {}
                  THEN [msg |-> <<Head(outbox)>>, targets |-> byUser[Head(outbox).user]]
                  ELSE NotSending
    /\ UNCHANGED <<stopping, conns, byUser, connVars, netVars, lock>>

\* writeJSON to one connection of the snapshot.
Write(c) ==
    /\ c \in sending.targets
    /\ sending' = IF sending.targets = {c} THEN NotSending
                  ELSE [sending EXCEPT !.targets = @ \ {c}]
    /\ toClient' = IF c \notin closed /\ link[c] = "up"
                   THEN [toClient EXCEPT ![c] = @ \o sending.msg] ELSE toClient
    /\ UNCHANGED <<stopping, conns, byUser, connVars, link, toServer, lock, outbox>>

StopRefuses ==
    /\ stopping = "no"
    /\ stopping' = "refusing"
    /\ UNCHANGED <<conns, byUser, connVars, netVars, lock, outbox, sending>>

\* Mutant of StopCloses: the indexes are cleared, the connections not closed.
StopClears ==
    /\ stopping = "refusing"
    /\ stopping' = "closing"
    /\ conns' = {}
    /\ byUser' = [u \in Users |-> {}]
    /\ UNCHANGED <<connVars, netVars, lock, outbox, sending>>

\* takeAllConnections, and close for each of them.
StopCloses ==
    /\ stopping = "refusing"
    /\ stopping' = "closing"
    /\ closed' = closed \cup conns
    /\ link' = [c \in Conns |-> IF c \in conns THEN "down" ELSE link[c]]
    /\ conns' = {}
    /\ byUser' = [u \in Users |-> {}]
    /\ UNCHANGED <<place, of, late, asking, toServer, toClient, lock, outbox, sending>>

\* cancel: read loops see it at their top, ping loops end.
StopCancels ==
    /\ stopping = "closing"
    /\ stopping' = "stopped"
    /\ UNCHANGED <<conns, byUser, connVars, netVars, lock, outbox, sending>>

-----------------------------------------------------------------------------
(* The network.                                                            *)

\* The client closes, or the network breaks.
HangUp(c) ==
    /\ link[c] \in {"dialing", "up"}
    /\ Break(c)
    /\ UNCHANGED <<stopping, conns, byUser, connVars, toServer, toClient, lock, outbox, sending>>

\* Nothing refers to the connection any more: its identity is free again.
Recycle(c) ==
    /\ link[c] = "down" /\ place[c] = "none" /\ c \notin sending.targets
    /\ link' = [link EXCEPT ![c] = "none"]
    /\ closed' = closed \ {c}
    /\ late' = [late EXCEPT ![c] = FALSE]
    /\ of' = [of EXCEPT ![c] = CHOOSE u \in Users : TRUE]
    /\ toServer' = [toServer EXCEPT ![c] = <<>>]
    /\ toClient' = [toClient EXCEPT ![c] = <<>>]
    /\ UNCHANGED <<stopping, conns, byUser, place, asking, lock, outbox, sending>>

-----------------------------------------------------------------------------
(* Clients that send what they like and read what they get.                *)

Pending(m) ==
    \/ \E c \in Conns : asking[c] = m \/ m \in ToSet(toServer[c])
    \/ \E c \in Conns : \E i \in DOMAIN toClient[c] : toClient[c][i].to = m
    \/ \E i \in DOMAIN outbox : outbox[i].to = m
    \/ \E i \in DOMAIN sending.msg : sending.msg[i].to = m

ClientSends(c, m) ==
    /\ link[c] = "up"
    /\ ~Pending(m)
    /\ toServer' = [toServer EXCEPT ![c] = Append(@, m)]
    /\ UNCHANGED <<stopping, conns, byUser, connVars, link, toClient, lock, outbox, sending>>

ClientReceives(c) ==
    /\ toClient[c] # <<>>
    /\ toClient' = [toClient EXCEPT ![c] = Tail(@)]
    /\ UNCHANGED <<stopping, conns, byUser, connVars, link, toServer, lock, outbox, sending>>

EndsTurn(c) == \E outcome \in {"reply", "error", "silent"} : EndTurn(c, outcome)

ConnNext(c) ==
    \/ \E u \in Users : Dial(c, u)
    \/ Accept(c) \/ Upgrade(c) \/ Register(c)
    \/ LoopTop(c) \/ Read(c) \/ ReadFails(c) \/ Late(c)
    \/ StartTurn(c) \/ EndsTurn(c)
    \/ Leave(c)
    \/ Write(c)
    \/ HangUp(c) \/ Recycle(c)
    \/ \E m \in 1..MaxMsg : ClientSends(c, m)
    \/ ClientReceives(c)

PicoNext ==
    \/ \E c \in Conns : ConnNext(c)
    \/ Take
    \/ StopRefuses \/ StopCloses \/ StopCancels

\* What every goroutine does goes on; a blocked ReadMessage ends when the deadline
\* is over.  sync.Mutex does not starve a waiter, and every turn ends.
PicoFairness ==
    /\ \A c \in Conns :
         /\ WF_picoVars(Accept(c) \/ Upgrade(c) \/ Register(c))
         /\ WF_picoVars(LoopTop(c) \/ Read(c) \/ ReadFails(c) \/ Leave(c))
         /\ WF_picoVars(Late(c))
         /\ SF_picoVars(StartTurn(c))
         /\ WF_picoVars(EndsTurn(c))
         /\ WF_picoVars(Write(c))
    /\ WF_picoVars(Take)
    /\ WF_picoVars(StopCloses \/ StopCancels)

PicoSpec == PicoInit /\ [][PicoNext]_picoVars

FairPicoSpec == PicoSpec /\ PicoFairness

-----------------------------------------------------------------------------
(* Properties.                                                             *)

Serving == {"top", "reading", "waiting", "turn", "leaving"}

\* The two indexes agree, whatever registration, removal and Stop do to them in
\* between (createAndAddConnection, removeConnection, takeAllConnections).
IndexesAgree == \A u \in Users : byUser[u] = {c \in conns : of[c] = u}

\* MaxConnections holds although it is first looked at before the upgrade.
WithinLimit == Cardinality(conns) <= MaxConns

\* No entry outlives its goroutine, and no goroutine serves a connection that is
\* neither in the index nor closed: Stop misses none.  What a client sees as open
\* has a goroutine that reads it.
NoneForgotten ==
    /\ \A c \in conns : place[c] \in Serving
    /\ \A c \in Conns : place[c] \in Serving => c \in conns \cup closed
    /\ \A c \in Conns : link[c] = "up" => place[c] \in (Serving \ {"leaving"}) \cup {"upgraded"}

\* The turns of a user are run one at a time, however many pages are open.
OneTurnPerUser ==
    \A c, d \in Conns :
        place[c] = "turn" /\ place[d] = "turn" /\ of[c] = of[d] => c = d

\* A user is only ever sent what belongs to that user's session, also when
\* connections come and go while an answer is being written.
Isolated ==
    \A c \in Conns : \A i \in DOMAIN toClient[c] : toClient[c][i].user = of[c]

\* "pingLoop sends periodic ping frames to keep the connection alive": a
\* connection that nobody closed is not given up.
KeptAlive ==
    [][\A c \in Conns : place[c] = "reading" /\ place'[c] = "leaving"
            => c \in closed \/ link[c] = "down" \/ stopping = "stopped"]_picoVars

\* Stop empties the channel for good, and a connection that slipped in behind its
\* back is given up too.
StopEmpties == stopping = "stopped" ~> [](conns = {})

\* A connection that is lost does not stay in the index.
LostIsRemoved ==
    \A c \in Conns : c \in conns /\ link[c] = "down" ~> c \notin conns
=============================================================================
