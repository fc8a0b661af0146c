----------------------------- MODULE ChatClient -----------------------------
(***************************************************************************)
(* One page of the web chat (picoclaw/web/frontend/src): the connection    *)
(* controller (features/chat/controller.ts, websocket.ts), the messages it *)
(* is handed (protocol.ts) and the gateway status it follows               *)
(* (store/gateway.ts).                                                     *)
(*                                                                         *)
(* JavaScript runs one callback at a time, so every action is one whole    *)
(* callback.  A WebSocket has an identity of its own: callbacks of a       *)
(* socket that was given up may still be due.  connectionGeneration is     *)
(* only ever compared for equality, so what is kept of it is which of the  *)
(* generations that were captured is still the current one (fresh).        *)
(* Delays, attachments and the text of messages are left out.              *)
(***************************************************************************)
EXTENDS Naturals, Sequences, SequencesExt

CONSTANTS
    Socks,      \* identities of WebSocket objects, recycled
    NoSock,     \* null
    Sessions,   \* session ids
    NoSession,  \* the empty session id
    Statuses,   \* what /api/gateway/status may answer
    MaxAsked    \* bound: messages sent by a page

AllStatuses == {"running", "starting", "restarting", "stopped", "error"}

ASSUME ChatClientAssumption ==
    /\ NoSock \notin Socks
    /\ NoSession \notin Sessions
    /\ Statuses \subseteq AllStatuses
    /\ MaxAsked \in Nat

VARIABLES
    gateway,    \* gatewayAtom.status
    lastStatus, \* lastGatewayStatus; "null" before the first call
    maintain,   \* shouldMaintainConnection
    restore,    \* initializeChatStore's async part: "resolving", "loading", "done"
    session,    \* activeSessionId and activeSessionIdRef
    hydrated,   \* hasHydratedActiveSession
    wsRef,      \* the current socket
    connecting, \* isConnecting
    timer,      \* reconnectTimer: "none", or the generation it captured is "fresh" or "stale"
    ready,      \* ready[s]: readyState, and "none" for no such socket
    captured,   \* captured[s]: generation and session its callbacks captured; handlers set
    connState,  \* connectionState, as the user sees it
    typing,     \* isTyping
    messages,   \* the transcript on the screen
    asked       \* msgIdCounter

statusVars == <<gateway, lastStatus, maintain>>
restoreVars == <<restore, session, hydrated>>
socketVars == <<wsRef, connecting, timer, ready, captured, connState>>
screenVars == <<typing, messages, asked>>
clientVars == <<statusVars, restoreVars, socketVars, screenVars>>

NoCapture == [fresh |-> FALSE, session |-> NoSession, handlers |-> FALSE]

\* A line of the transcript: the user's n-th message, or the answer to it.
Line == [who : {"user", "assistant"}, to : Nat]

\* Everything but the transcript.
ConnectionTypeOK ==
    /\ gateway \in AllStatuses \cup {"unknown", "stopping"}
    /\ lastStatus \in AllStatuses \cup {"unknown", "stopping", "null"}
    /\ maintain \in BOOLEAN
    /\ restore \in {"resolving", "loading", "done"}
    /\ session \in Sessions \cup {NoSession}
    /\ hydrated \in BOOLEAN
    /\ wsRef \in Socks \cup {NoSock}
    /\ connecting \in BOOLEAN
    /\ timer \in {"none", "fresh", "stale"}
    /\ ready \in [Socks -> {"none", "CONNECTING", "OPEN", "CLOSING"}]
    /\ captured \in [Socks -> [fresh : BOOLEAN, session : Sessions \cup {NoSession},
                               handlers : BOOLEAN]]
    /\ connState \in {"disconnected", "connecting", "connected"}
    /\ typing \in BOOLEAN
    /\ asked \in 0..MaxAsked

ClientTypeOK == ConnectionTypeOK /\ messages \in Seq(Line)

\* A page that has just been loaded: initializeChatStore ran up to its first await.
ClientInit ==
    /\ gateway = "unknown"
    /\ lastStatus = "null"
    /\ maintain = FALSE
    /\ restore = "resolving"
    /\ session = NoSession
    /\ hydrated = FALSE
    /\ wsRef = NoSock
    /\ connecting = FALSE
    /\ timer = "none"
    /\ ready = [s \in Socks |-> "none"]
    /\ captured = [s \in Socks |-> NoCapture]
    /\ connState = "disconnected"
    /\ typing = FALSE
    /\ messages = <<>>
    /\ asked = 0

-----------------------------------------------------------------------------
(* What the callbacks are made of.                                         *)

\* A socket of a page that is gone or a socket that nobody refers to.
Unused == {s \in Socks : ready[s] = "none"}

Current(s) ==
    /\ captured[s].handlers
    /\ wsRef = s
    /\ captured[s].fresh
    /\ captured[s].session = session

Older == [s \in Socks |-> [captured[s] EXCEPT !.fresh = FALSE]]

\* Mutant of Busy: only a socket that is being opened counts.
BusyOpening == connecting

Busy == connecting \/ (wsRef # NoSock /\ ready[wsRef] \in {"CONNECTING", "OPEN"})

\* connectChat, given the status and the session as they are when it is called.
\* An older socket that is closing keeps its handlers, with an older generation.
Connect(status, id, loaded) ==
    IF status # "running" \/ id = NoSession \/ ~loaded \/ Busy
    THEN UNCHANGED socketVars
    ELSE \E s \in Unused :
           /\ wsRef' = s
           /\ connecting' = TRUE
           /\ timer' = "none"
           /\ ready' = [ready EXCEPT ![s] = "CONNECTING"]
           /\ captured' = [Older EXCEPT ![s] =
                             [fresh |-> TRUE, session |-> id, handlers |-> TRUE]]
           /\ connState' = "connecting"

\* Mutant of Disconnect: isTyping is left alone.
DisconnectTyping ==
    /\ maintain' = FALSE
    /\ timer' = "none"
    /\ wsRef' = NoSock
    /\ connecting' = FALSE
    /\ ready' = IF wsRef = NoSock THEN ready ELSE [ready EXCEPT ![wsRef] = "CLOSING"]
    /\ captured' = IF wsRef = NoSock THEN Older
                   ELSE [Older EXCEPT ![wsRef].handlers = FALSE]
    /\ connState' = "disconnected"
    /\ UNCHANGED typing

\* disconnectChatInternal, with clearDesiredConnection.  The socket is told to
\* close and loses its handlers.
Disconnect ==
    /\ maintain' = FALSE
    /\ timer' = "none"
    /\ wsRef' = NoSock
    /\ connecting' = FALSE
    /\ ready' = IF wsRef = NoSock THEN ready ELSE [ready EXCEPT ![wsRef] = "CLOSING"]
    /\ captured' = IF wsRef = NoSock THEN Older
                   ELSE [Older EXCEPT ![wsRef].handlers = FALSE]
    /\ connState' = "disconnected"
    /\ typing' = FALSE

\* Mutant of Sync: the early return comes before shouldMaintainConnection is set.
SyncHydrated(status, force, id, loaded) ==
    IF ~force /\ status = lastStatus
    THEN UNCHANGED <<lastStatus, maintain, socketVars, typing>>
    ELSE /\ lastStatus' = status
         /\ CASE status = "running" ->
                   /\ maintain' = (maintain \/ (id # NoSession /\ loaded))
                   /\ Connect(status, id, loaded)
                   /\ UNCHANGED typing
              [] status \in {"stopped", "error"} -> Disconnect
              [] OTHER -> UNCHANGED <<maintain, socketVars, typing>>

\* syncConnectionWithGateway.
Sync(status, force, id, loaded) ==
    IF ~force /\ status = lastStatus
    THEN UNCHANGED <<lastStatus, maintain, socketVars, typing>>
    ELSE /\ lastStatus' = status
         /\ CASE status = "running" ->
                   /\ maintain' = TRUE
                   /\ Connect(status, id, loaded)
                   /\ UNCHANGED typing
              [] status \in {"stopped", "error"} -> Disconnect
              [] OTHER -> UNCHANGED <<maintain, socketVars, typing>>

ShouldReconnect(generation, id) ==
    /\ maintain
    /\ generation = "fresh"
    /\ id = session
    /\ gateway = "running"

-----------------------------------------------------------------------------
(* Callbacks: the gateway's status.                                        *)

GatewayBecomes(status) ==
    /\ gateway' = status
    /\ Sync(status, FALSE, session, hydrated)
    /\ UNCHANGED <<restoreVars, messages, asked>>

\* applyGatewayStatusToStore: a page that waits for the gateway to stop does not
\* believe that it runs.
GatewayAnswers(status) ==
    /\ status \in Statuses
    /\ ~(gateway = "stopping" /\ status = "running")
    /\ GatewayBecomes(status)

BeginStopping == GatewayBecomes("stopping")

\* The 5 s of beginGatewayStoppingTransition are over, or it is cancelled.
StoppingEnds ==
    /\ gateway = "stopping"
    /\ GatewayBecomes("running")

-----------------------------------------------------------------------------
(* Callbacks: restoring the session.                                       *)

\* Mutant of RestoreEnds: the status is only looked at if it is a new one.
RestoreEndsLazily(id) ==
    /\ session' = id
    /\ restore' = "done"
    /\ hydrated' = TRUE
    /\ Sync(gateway, FALSE, id, TRUE)
    /\ UNCHANGED gateway

\* Ends the async part: the last thing it does is to connect.
RestoreEnds(id) ==
    /\ session' = id
    /\ restore' = "done"
    /\ hydrated' = TRUE
    /\ Sync(gateway, TRUE, id, TRUE)
    /\ UNCHANGED gateway

\* resolveActiveSessionId got the list; id is the first session on it, if any.
Resolved(id) ==
    /\ restore = "resolving"
    /\ IF id = NoSession
       THEN RestoreEnds(id)
       ELSE /\ session' = id
            /\ restore' = "loading"
            /\ UNCHANGED <<hydrated, statusVars, socketVars, typing>>
    /\ UNCHANGED <<messages, asked>>

ResolveFails ==
    /\ restore = "resolving"
    /\ RestoreEnds(session)
    /\ UNCHANGED <<messages, asked>>

\* hydrateActiveSession; nothing is on the screen yet that could be merged.
Loaded(history) ==
    /\ restore = "loading"
    /\ messages' = history
    /\ RestoreEnds(session)
    /\ UNCHANGED asked

LoadFails ==
    /\ restore = "loading"
    /\ RestoreEnds(session)
    /\ UNCHANGED <<messages, asked>>

-----------------------------------------------------------------------------
(* Callbacks: sockets and the reconnect timer.                             *)

Opened(s) ==
    /\ ready[s] = "CONNECTING"
    /\ ready' = [ready EXCEPT ![s] = "OPEN"]
    /\ IF Current(s)
       THEN connState' = "connected" /\ connecting' = FALSE
       ELSE UNCHANGED <<connState, connecting>>
    /\ UNCHANGED <<wsRef, timer, captured, statusVars, restoreVars, screenVars>>

\* The server's close frame; the close event is still to come.
Closing(s) ==
    /\ ready[s] = "OPEN"
    /\ ready' = [ready EXCEPT ![s] = "CLOSING"]
    /\ UNCHANGED <<wsRef, connecting, timer, captured, connState, statusVars, restoreVars,
                   screenVars>>

\* The error event, if there is one, and the close event.  A browser delivers both
\* in one task, so connectionState "error" is gone before anyone sees it.
Closed(s) ==
    /\ ready[s] # "none"
    /\ ready' = [ready EXCEPT ![s] = "none"]
    /\ captured' = [captured EXCEPT ![s] = NoCapture]
    /\ IF Current(s)
       THEN /\ wsRef' = NoSock
            /\ connecting' = FALSE
            /\ connState' = "disconnected"
            /\ typing' = FALSE
            /\ timer' = IF timer = "none" /\ ShouldReconnect("fresh", captured[s].session)
                        THEN "fresh" ELSE timer
       ELSE UNCHANGED <<wsRef, connecting, connState, typing, timer>>
    /\ UNCHANGED <<statusVars, restoreVars, messages, asked>>

TimerFires ==
    /\ timer # "none"
    /\ IF ShouldReconnect(timer, session) /\ session # NoSession /\ hydrated /\ ~Busy
       THEN Connect(gateway, session, hydrated)
       ELSE timer' = "none" /\ UNCHANGED <<wsRef, connecting, ready, captured, connState>>
    /\ UNCHANGED <<statusVars, restoreVars, screenVars>>

\* Array.filter: the lines of s other than l, in their order.
Without(s, l) ==
    LET kept[i \in 0..Len(s)] ==
          IF i = 0 THEN <<>>
          ELSE IF s[i] = l THEN kept[i - 1] ELSE Append(kept[i - 1], s[i])
    IN  kept[Len(s)]

\* Mutant of Receive: an error leaves a line too, which answers nothing.
ReceiveError(s, msg) ==
    /\ ready[s] = "OPEN"
    /\ messages' = Append(messages, [who |-> msg.kind, to |-> msg.to])
    /\ typing' = FALSE
    /\ UNCHANGED <<statusVars, restoreVars, socketVars, asked>>

\* handlePicoMessage: an answer is put under the transcript, an error takes the
\* message it is about off it.  A message of another session is ignored.
Receive(s, msg) ==
    /\ ready[s] = "OPEN"
    /\ IF Current(s) /\ msg.session \in {NoSession, captured[s].session}
       THEN /\ messages' =
                 IF msg.kind = "reply"
                 THEN Append(messages, [who |-> "assistant", to |-> msg.to])
                 ELSE Without(messages, [who |-> "user", to |-> msg.to])
            /\ typing' = FALSE
       ELSE UNCHANGED <<messages, typing>>
    /\ UNCHANGED <<statusVars, restoreVars, socketVars, asked>>

\* sendChatMessage.
Send ==
    /\ wsRef # NoSock
    /\ ready[wsRef] = "OPEN"
    /\ asked < MaxAsked
    /\ asked' = asked + 1
    /\ messages' = Append(messages, [who |-> "user", to |-> asked'])
    /\ typing' = TRUE
    /\ UNCHANGED <<statusVars, restoreVars, socketVars>>

\* The page is loaded again: nothing of it survives, and its sockets are closed.
\* Message ids contain the time, so the numbers go on.
Reload ==
    /\ gateway' = "unknown"
    /\ lastStatus' = "null"
    /\ maintain' = FALSE
    /\ restore' = "resolving"
    /\ session' = NoSession
    /\ hydrated' = FALSE
    /\ wsRef' = NoSock
    /\ connecting' = FALSE
    /\ timer' = "none"
    /\ ready' = [s \in Socks |-> "none"]
    /\ captured' = [s \in Socks |-> NoCapture]
    /\ connState' = "disconnected"
    /\ typing' = FALSE
    /\ messages' = <<>>
    /\ UNCHANGED asked

-----------------------------------------------------------------------------
(* The page in a world where anything may happen to a request or a socket. *)

Replies == [kind : {"reply", "error"}, session : Sessions \cup {NoSession}, to : 1..MaxAsked]

SocketEvent(s) ==
    \/ Opened(s)
    \/ Closing(s)
    \/ Closed(s)
    \/ \E msg \in Replies : msg.to <= asked /\ Len(messages) < 2 * MaxAsked /\ Receive(s, msg)

ClientNext ==
    \/ \E status \in Statuses : GatewayAnswers(status)
    \/ BeginStopping
    \/ StoppingEnds
    \/ \E id \in Sessions \cup {NoSession} : Resolved(id)
    \/ ResolveFails
    \/ Loaded(<<>>)
    \/ LoadFails
    \/ \E s \in Socks : SocketEvent(s)
    \/ TimerFires
    \/ Send
    \/ Reload

ClientSpec == ClientInit /\ [][ClientNext]_clientVars

-----------------------------------------------------------------------------
(* Properties.                                                             *)

\* The page never has two connections: a socket that is opening or open is the
\* current one, and the callbacks of the current one are not ignored, whatever
\* the order of close events, timers and status changes.
OneSocket ==
    /\ \A s \in Socks : ready[s] \in {"CONNECTING", "OPEN"} => wsRef = s
    /\ wsRef # NoSock => Current(wsRef) /\ ready[wsRef] # "none"

\* A page whose session is known is never stranded: while the gateway runs there
\* is a socket, or a timer that will make one.
NeverStranded ==
    restore = "done" /\ session # NoSession /\ gateway = "running"
        => wsRef # NoSock \/ timer = "fresh"

\* What the user is told: connected and connecting mean that there is a socket,
\* and nobody is shown as typing without one.
HonestStatus ==
    /\ connState = "connected" => wsRef # NoSock /\ ready[wsRef] \in {"OPEN", "CLOSING"}
    /\ connState = "connecting" => wsRef # NoSock /\ ready[wsRef] = "CONNECTING"
    /\ connState = "disconnected" => wsRef = NoSock
    /\ typing => wsRef # NoSock

\* "Session restore must never break the connection: any failure here (401,
\* timeout, network error) must still fall through to connect."
FallsThrough ==
    restore = "done" /\ gateway = "running" => wsRef # NoSock \/ timer = "fresh"

\* What NeverStranded rests on.
Following ==
    /\ restore = "done" => hydrated /\ lastStatus = gateway
    /\ lastStatus = "running" => maintain
    /\ connecting => wsRef # NoSock
=============================================================================
