-------------------------------- MODULE Chat --------------------------------
(***************************************************************************)
(* A page of the web chat (ChatClient) talking to the server (PicoChannel) *)
(* over connections that break: socket s of the page is connection s of    *)
(* the server.  One user, whose one WebSocket session is "web"             *)
(* (fixedSessionHandler); requests to POST /api/v1/users/{id}/chat use     *)
(* another session of that user, "api".                                    *)
(*                                                                         *)
(* Added here is what the page reads over HTTP: which session is the first *)
(* of the list, and the history of the session.  The gateway status that   *)
(* v7 answers is always "running" (stubs.go).  The server does not stop.   *)
(***************************************************************************)
EXTENDS ChatClient, PicoChannel

CONSTANTS
    Web, Api,   \* the session of the WebSocket, and that of the REST API
    ApiUsed,    \* the REST API is used too
    Commands,   \* the user sends slash commands too
    Slow,       \* a turn may take longer than the read deadline
    MaxBreaks   \* bound: how often the network breaks

ASSUME ChatAssumption ==
    /\ Socks = Conns /\ NoSock = NoConn
    /\ MaxAsked = MaxMsg
    /\ Users = {Web} /\ Sessions = {Web, Api}
    /\ ApiUsed \in BOOLEAN /\ Commands \in BOOLEAN /\ Slow \in BOOLEAN
    /\ MaxBreaks \in Nat

VARIABLES
    newest,     \* the session that was updated last: the first of the list
    stored,     \* what is stored of session Web
    breaks      \* how often the network has broken

storeVars == <<newest, stored>>
chatVars == <<clientVars, picoVars, storeVars, breaks>>

ChatTypeOK ==
    /\ newest \in Sessions
    /\ stored \in Seq(Line)
    /\ breaks \in 0..MaxBreaks

\* A user who has used the chat before.
ChatInit ==
    /\ ClientInit
    /\ PicoInit
    /\ newest = Web
    /\ stored = <<>>
    /\ breaks = 0

-----------------------------------------------------------------------------
(* The page.  A socket it makes dials; one it drops hangs up.              *)

Dialed == {c \in Conns : ready[c] = "none" /\ ready'[c] = "CONNECTING"}

Dropped == {c \in Conns :
              ready[c] \in {"CONNECTING", "OPEN"} /\ ready'[c] \in {"none", "CLOSING"}}

NetFollows ==
    /\ \A c \in Dialed : link[c] = "none" /\ place[c] = "none"
    /\ link' = [c \in Conns |-> IF c \in Dialed THEN "dialing"
                                ELSE IF c \in Dropped THEN "down" ELSE link[c]]
    /\ place' = [c \in Conns |-> IF c \in Dialed THEN "arrived" ELSE place[c]]
    /\ of' = [c \in Conns |-> IF c \in Dialed THEN Web ELSE of[c]]
    /\ UNCHANGED <<stopping, conns, byUser, closed, late, asking, lock, toServer, toClient,
                   outbox, sending>>

PageCallback ==
    \/ \E status \in Statuses : GatewayAnswers(status)
    \/ Resolved(newest)
    \/ ResolveFails
    \/ Loaded(IF session = Web THEN stored ELSE <<>>)
    \/ LoadFails
    \/ TimerFires
    \/ Reload

Page == PageCallback /\ NetFollows /\ UNCHANGED <<storeVars, breaks>>

PageOpened(c) ==
    /\ link[c] = "up"
    /\ Opened(c)
    /\ UNCHANGED <<picoVars, storeVars, breaks>>

PageClosed(c) ==
    /\ link[c] = "down"
    /\ Closed(c)
    /\ UNCHANGED <<picoVars, storeVars, breaks>>

\* An error frame names no session, a reply the session of the connection.
PageReceives(c) ==
    /\ toClient[c] # <<>>
    /\ LET out == Head(toClient[c]) IN
         Receive(c, [kind |-> out.kind, to |-> out.to,
                     session |-> IF out.kind = "reply" THEN out.user ELSE NoSession])
    /\ toClient' = [toClient EXCEPT ![c] = Tail(@)]
    /\ UNCHANGED <<stopping, conns, byUser, connVars, link, toServer, lock, outbox, sending,
                   storeVars, breaks>>

\* What is sent over a connection that is gone is lost.
PageSends ==
    /\ Send
    /\ toServer' = IF link[wsRef] = "up"
                   THEN [toServer EXCEPT ![wsRef] = Append(@, asked')] ELSE toServer
    /\ UNCHANGED <<stopping, conns, byUser, connVars, link, toClient, lock, outbox, sending,
                   storeVars, breaks>>

-----------------------------------------------------------------------------
(* The server.                                                             *)

Asks(n) == [who |-> "user", to |-> n]
Answers(n) == [who |-> "assistant", to |-> n]

\* A turn stores the message first; a command is no turn and stores nothing.
BeginTurn(c) ==
    /\ StartTurn(c)
    /\ \/ newest' = Web /\ stored' = Append(stored, Asks(asking[c]))
       \/ Commands /\ UNCHANGED storeVars
    /\ UNCHANGED <<clientVars, breaks>>

\* Mutant of FinishTurn: the answer is published, and not stored.
FinishTurnUnstored(c) ==
    /\ IF Asks(asking[c]) \in ToSet(stored)
       THEN EndTurn(c, "reply") \/ EndTurn(c, "error")
       ELSE EndTurn(c, "silent")
    /\ UNCHANGED <<clientVars, storeVars, breaks>>

\* Mutant of FinishTurn: the session's mutex is not released.
FinishTurnLocked(c) ==
    /\ place[c] = "turn"
    /\ asking' = [asking EXCEPT ![c] = 0]
    /\ Goto(c, "top")
    /\ UNCHANGED <<stopping, conns, byUser, of, closed, late, netVars, lock, outbox, sending,
                   clientVars, storeVars, breaks>>

\* A turn stores its answer before it publishes it.  The text a command returns is
\* dropped by handleInbound.
FinishTurn(c) ==
    /\ IF Asks(asking[c]) \in ToSet(stored)
       THEN \/ /\ EndTurn(c, "reply")
               /\ newest' = Web
               /\ stored' = Append(stored, Answers(asking[c]))
            \/ EndTurn(c, "error") /\ UNCHANGED storeVars
       ELSE EndTurn(c, "silent") /\ UNCHANGED storeVars
    /\ UNCHANGED <<clientVars, breaks>>

Serve(c) ==
    /\ \/ Accept(c) \/ Upgrade(c) \/ Register(c)
       \/ LoopTop(c) \/ Read(c) \/ ReadFails(c) \/ Leave(c)
       \/ Write(c)
    /\ UNCHANGED <<clientVars, storeVars, breaks>>

Deadline(c) == Slow /\ Late(c) /\ UNCHANGED <<clientVars, storeVars, breaks>>

Forget(c) == ready[c] = "none" /\ Recycle(c) /\ UNCHANGED <<clientVars, storeVars, breaks>>

Publish == Take /\ UNCHANGED <<clientVars, storeVars, breaks>>

\* Mutant of ApiTurn: the turn is stored under no session.
ApiTurnUnkeyed ==
    /\ ApiUsed
    /\ newest' = NoSession
    /\ UNCHANGED <<clientVars, picoVars, stored, breaks>>

\* handleUserChat: the turn is stored under the other session.
ApiTurn ==
    /\ ApiUsed
    /\ newest' = Api
    /\ UNCHANGED <<clientVars, picoVars, stored, breaks>>

NetworkBreaks(c) ==
    /\ breaks < MaxBreaks
    /\ HangUp(c)
    /\ breaks' = breaks + 1
    /\ UNCHANGED <<clientVars, storeVars>>

ChatNext ==
    \/ Page
    \/ PageSends
    \/ \E c \in Conns :
         \/ PageOpened(c) \/ PageClosed(c) \/ PageReceives(c)
         \/ BeginTurn(c) \/ FinishTurn(c) \/ Serve(c) \/ Deadline(c) \/ Forget(c)
         \/ NetworkBreaks(c)
    \/ Publish
    \/ ApiTurn

ChatSpec == ChatInit /\ [][ChatNext]_chatVars

\* Callbacks that are due are called, goroutines go on, and the page asks for the
\* gateway's status again and again.  Nobody has to reload, send or break anything,
\* and nothing has to be late.
ChatFairness ==
    /\ WF_chatVars(Page /\ \E status \in Statuses : GatewayAnswers(status))
    /\ WF_chatVars(Page /\ restore # "done" /\ restore' # restore)
    /\ WF_chatVars(Page /\ TimerFires)
    /\ \A c \in Conns :
         /\ WF_chatVars(PageOpened(c))
         /\ WF_chatVars(PageClosed(c))
         /\ WF_chatVars(PageReceives(c))
         /\ SF_chatVars(BeginTurn(c))
         /\ WF_chatVars(FinishTurn(c))
         /\ WF_chatVars(Serve(c))
         /\ WF_chatVars(Forget(c))
    /\ WF_chatVars(Publish)

FairChatSpec == ChatSpec /\ ChatFairness

-----------------------------------------------------------------------------
(* Properties.                                                             *)

\* A page whose session was restored gets its connection back after every failure
\* of the network, also when the lost connection still holds the last place.
Reconnects ==
    restore = "done" /\ session # NoSession /\ gateway = "running"
        ~> connState = "connected" \/ restore # "done"

\* A turn's question is on its way to the server or waits there, or it is stored.
Underway(n) ==
    \/ link[wsRef] # "up"
    \/ n \in ToSet(toServer[wsRef])
    \/ asking[wsRef] = n /\ place[wsRef] = "waiting"
    \/ Asks(n) \in ToSet(stored)

\* Nobody who asks is shown as typing for good: the answer comes, or the connection
\* the question went over is given up.  A page that shows another session drops the
\* answer, and a command gets none: see TypingStops.
TypingEnds ==
    typing /\ session = Web /\ wsRef # NoSock /\ Underway(asked)
        ~> ~typing \/ \E c \in Conns : place[c] = "turn" /\ Asks(asking[c]) \notin ToSet(stored)

\* cmd_context.go: "Show current session context and token usage": the user gets an
\* answer to a command too.
TypingStops == typing ~> ~typing

\* A reload never takes an answer away that the user has seen.
SeenIsStored ==
    \A n \in 1..MaxMsg : Answers(n) \in ToSet(messages) => Answers(n) \in ToSet(stored)

\* No message is worked on twice, whatever breaks in between: what is stored has every
\* line once, and an answer only after its question.
StoredOnce ==
    /\ \A i, j \in DOMAIN stored : stored[i] = stored[j] => i = j
    /\ \A j \in DOMAIN stored : stored[j].who = "assistant" =>
          \E i \in 1..(j - 1) : stored[i] = Asks(stored[j].to)

\* A page is one of the clients that the server is specified for, whatever becomes of its
\* sockets; so what is said of the server alone holds with the page, too.
ServerAsSpecified == PicoSpec

\* "surface summaries/history/delete to the web UI so refreshes restore the
\* conversation": when everything has come to rest, a connected page that shows a
\* question shows the answer that was stored.
AllQuiet ==
    /\ connState = "connected" /\ wsRef \in conns /\ link[wsRef] = "up"
    /\ outbox = <<>> /\ sending = NotSending
    /\ \A c \in Conns : toClient[c] = <<>> /\ toServer[c] = <<>> /\ asking[c] = 0

ShowsAnswers ==
    AllQuiet => \A n \in 1..MaxMsg :
        Asks(n) \in ToSet(messages) /\ Answers(n) \in ToSet(stored)
            => Answers(n) \in ToSet(messages)

\* "Because v7 pins one user to one session server-side, there is at most one
\* session to load": the page shows the session its connection talks in.
ShowsItsSession == wsRef # NoSock => session = of[wsRef]
=============================================================================
