-------------------------- MODULE ChatClientProofs --------------------------
(***************************************************************************)
(* Proofs about ChatClient for every set of sockets, sessions and answers  *)
(* to the status request.                                                  *)
(***************************************************************************)
EXTENDS ChatClient, SequenceTheorems, WellFoundedInduction, TLAPS

-----------------------------------------------------------------------------
(* The inductive invariant.                                                *)

\* Until the session is restored there is nothing to connect.
NothingYet ==
    restore # "done" => ~hydrated /\ wsRef = NoSock /\ timer = "none"

\* The generation only changes where the timer is cleared.
TimerIsFresh == timer # "stale"

ClientInv ==
    /\ ConnectionTypeOK
    /\ OneSocket
    /\ HonestStatus
    /\ Following
    /\ NothingYet
    /\ TimerIsFresh
    /\ NeverStranded

\* The invariant holds on a page that has just been loaded.
LEMMA ClientInvInit == ClientInit => ClientInv
<1> SUFFICES ASSUME ClientInit PROVE ClientInv
    OBVIOUS
<1>1. ConnectionTypeOK
    <2>1. NoCapture \in [fresh : BOOLEAN, session : Sessions \cup {NoSession},
                         handlers : BOOLEAN]
        BY DEF NoCapture
    <2>2. asked \in 0..MaxAsked
        BY ChatClientAssumption DEF ClientInit
    <2> QED BY <2>1, <2>2 DEF ClientInit, ConnectionTypeOK
<1>2. OneSocket /\ HonestStatus /\ Following
    BY DEF ClientInit, OneSocket, HonestStatus, Following
<1>3. NothingYet /\ TimerIsFresh /\ NeverStranded
    BY DEF ClientInit, NothingYet, TimerIsFresh, NeverStranded
<1> QED BY <1>1, <1>2, <1>3 DEF ClientInv

-----------------------------------------------------------------------------
(* Sockets.                                                                *)

\* A socket opens.
LEMMA OpenedKeeps ==
    ASSUME ClientInv, NEW s \in Socks, Opened(s)
    PROVE  ClientInv'
BY ChatClientAssumption DEF Opened, Current, statusVars, restoreVars, screenVars,
   ClientInv, ConnectionTypeOK, OneSocket, HonestStatus, Following,
   NothingYet, TimerIsFresh, NeverStranded

\* The server says that it closes.
LEMMA ClosingKeeps ==
    ASSUME ClientInv, NEW s \in Socks, Closing(s)
    PROVE  ClientInv'
BY ChatClientAssumption DEF Closing, Current, statusVars, restoreVars, screenVars,
   ClientInv, ConnectionTypeOK, OneSocket, HonestStatus, Following,
   NothingYet, TimerIsFresh, NeverStranded

\* A socket is closed: the current one leaves a timer behind.
LEMMA ClosedKeeps ==
    ASSUME ClientInv, NEW s \in Socks, Closed(s)
    PROVE  ClientInv'
BY ChatClientAssumption DEF Closed, Current, ShouldReconnect, NoCapture, statusVars, restoreVars,
   ClientInv, ConnectionTypeOK, OneSocket, HonestStatus, Following,
   NothingYet, TimerIsFresh, NeverStranded

\* What Connect does to the sockets when it does anything.
Connects(s, id) ==
    /\ wsRef' = s
    /\ connecting' = TRUE
    /\ timer' = "none"
    /\ ready' = [ready EXCEPT ![s] = "CONNECTING"]
    /\ captured' = [Older EXCEPT ![s] = [fresh |-> TRUE, session |-> id, handlers |-> TRUE]]
    /\ connState' = "connecting"

\* A new socket is the only one: connectChat is not called while another one counts.
LEMMA ConnectsKeeps ==
    ASSUME ConnectionTypeOK, OneSocket, HonestStatus, ~Busy,
           NEW s \in Unused, NEW id \in Sessions \cup {NoSession}, Connects(s, id),
           session' = id, UNCHANGED <<typing, asked>>
    PROVE  /\ OneSocket' /\ HonestStatus'
           /\ wsRef' # NoSock /\ wsRef' \in Socks
           /\ connecting' \in BOOLEAN /\ timer' = "none"
           /\ ready' \in [Socks -> {"none", "CONNECTING", "OPEN", "CLOSING"}]
           /\ captured' \in [Socks -> [fresh : BOOLEAN, session : Sessions \cup {NoSession},
                                       handlers : BOOLEAN]]
           /\ connState' \in {"disconnected", "connecting", "connected"}
<1>1. s \in Socks /\ s # NoSock /\ ready[s] = "none"
    BY ChatClientAssumption DEF Unused
<1>2. Older \in [Socks -> [fresh : BOOLEAN, session : Sessions \cup {NoSession},
                          handlers : BOOLEAN]]
    BY DEF ConnectionTypeOK, Older
<1>3. /\ captured' \in [Socks -> [fresh : BOOLEAN, session : Sessions \cup {NoSession},
                                  handlers : BOOLEAN]]
      /\ captured'[s] = [fresh |-> TRUE, session |-> id, handlers |-> TRUE]
    BY <1>1, <1>2 DEF Connects
<1>4. \A t \in Socks : ready[t] \notin {"CONNECTING", "OPEN"}
    BY ChatClientAssumption DEF Busy, OneSocket
<1>5. OneSocket'
    BY <1>1, <1>3, <1>4 DEF Connects, OneSocket, Current, ConnectionTypeOK
<1>6. HonestStatus'
    BY <1>1 DEF Connects, HonestStatus, ConnectionTypeOK
<1> QED BY <1>1, <1>3, <1>5, <1>6 DEF Connects, ConnectionTypeOK

\* The reconnect timer fires.
LEMMA TimerKeeps ==
    ASSUME ClientInv, TimerFires
    PROVE  ClientInv'
<1> USE DEF ClientInv
<1>1. CASE ShouldReconnect(timer, session) /\ session # NoSession /\ hydrated /\ ~Busy
    <2>1. PICK s \in Unused : Connects(s, session)
        BY <1>1 DEF TimerFires, Connect, Connects, ShouldReconnect
    <2>2. UNCHANGED <<statusVars, restoreVars, screenVars>>
        BY DEF TimerFires
    <2>3. /\ OneSocket' /\ HonestStatus'
          /\ wsRef' # NoSock /\ wsRef' \in Socks
          /\ connecting' \in BOOLEAN /\ timer' = "none"
          /\ ready' \in [Socks -> {"none", "CONNECTING", "OPEN", "CLOSING"}]
          /\ captured' \in [Socks -> [fresh : BOOLEAN, session : Sessions \cup {NoSession},
                                      handlers : BOOLEAN]]
          /\ connState' \in {"disconnected", "connecting", "connected"}
        BY <1>1, <2>1, <2>2, ConnectsKeeps DEF ConnectionTypeOK, restoreVars, screenVars
    <2> QED BY <1>1, <2>2, <2>3 DEF ConnectionTypeOK, Following, NothingYet, TimerIsFresh,
               NeverStranded, statusVars, restoreVars, screenVars
<1>2. CASE ~(ShouldReconnect(timer, session) /\ session # NoSession /\ hydrated /\ ~Busy)
    BY <1>2 DEF TimerFires, ShouldReconnect, Busy, Current, ConnectionTypeOK, OneSocket,
       HonestStatus, Following, NothingYet, TimerIsFresh, NeverStranded, statusVars,
       restoreVars, screenVars
<1> QED BY <1>1, <1>2

-----------------------------------------------------------------------------
(* The gateway's status, and the end of the restore.                       *)

\* The status changes, or is confirmed.
LEMMA StatusKeeps ==
    ASSUME ClientInv, NEW status \in AllStatuses \cup {"stopping"}, GatewayBecomes(status)
    PROVE  ClientInv'
<1> USE DEF ClientInv
<1>0. /\ gateway' = status /\ gateway' \in AllStatuses \cup {"unknown", "stopping"}
      /\ UNCHANGED <<restore, session, hydrated, messages, asked>>
      /\ session \in Sessions \cup {NoSession}
    BY DEF GatewayBecomes, restoreVars, ConnectionTypeOK
<1>1. CASE status = lastStatus
    BY <1>0, <1>1 DEF GatewayBecomes, Sync, socketVars, Current, ConnectionTypeOK, OneSocket,
       HonestStatus, Following, NothingYet, TimerIsFresh, NeverStranded
<1>2. CASE status # lastStatus /\ status \in {"stopped", "error"}
    <2>1. Disconnect /\ lastStatus' = status
        BY <1>2 DEF GatewayBecomes, Sync
    <2> QED BY <1>0, <1>2, <2>1, ChatClientAssumption DEF Disconnect, Older, Current,
               ConnectionTypeOK, OneSocket, HonestStatus, Following, NothingYet,
               TimerIsFresh, NeverStranded
<1>3. CASE status = "running" /\ session # NoSession /\ hydrated /\ ~Busy /\ status # lastStatus
    <2>1. PICK s \in Unused : Connects(s, session)
        BY <1>3 DEF GatewayBecomes, Sync, Connect, Connects
    <2>2. maintain' = TRUE /\ lastStatus' = status /\ UNCHANGED typing
        BY <1>3 DEF GatewayBecomes, Sync
    <2>3. /\ OneSocket' /\ HonestStatus'
          /\ wsRef' # NoSock /\ wsRef' \in Socks
          /\ connecting' \in BOOLEAN /\ timer' = "none"
          /\ ready' \in [Socks -> {"none", "CONNECTING", "OPEN", "CLOSING"}]
          /\ captured' \in [Socks -> [fresh : BOOLEAN, session : Sessions \cup {NoSession},
                                      handlers : BOOLEAN]]
          /\ connState' \in {"disconnected", "connecting", "connected"}
        BY <1>0, <1>3, <2>1, <2>2, ConnectsKeeps
    <2> QED BY <1>0, <1>3, <2>2, <2>3 DEF ConnectionTypeOK, Following, NothingYet,
               TimerIsFresh, NeverStranded
<1>4. CASE /\ status = "running" /\ status # lastStatus
           /\ ~(session # NoSession /\ hydrated /\ ~Busy)
    <2>1. maintain' = TRUE /\ lastStatus' = status /\ UNCHANGED <<socketVars, typing>>
        BY <1>4 DEF GatewayBecomes, Sync, Connect
    <2> QED BY <1>0, <1>4, <2>1 DEF socketVars, Busy, Current, ConnectionTypeOK, OneSocket,
               HonestStatus, Following, NothingYet, TimerIsFresh, NeverStranded
<1>5. CASE status # lastStatus /\ status \notin {"running", "stopped", "error"}
    <2>1. lastStatus' = status /\ UNCHANGED <<maintain, socketVars, typing>>
        BY <1>5 DEF GatewayBecomes, Sync
    <2> QED BY <1>0, <1>5, <2>1 DEF socketVars, Current, ConnectionTypeOK, OneSocket,
               HonestStatus, Following, NothingYet, TimerIsFresh, NeverStranded
<1> QED BY <1>1, <1>2, <1>3, <1>4, <1>5

\* The restore ends: until now there was no socket whose session could differ.
LEMMA RestoreKeeps ==
    ASSUME ClientInv, NEW id \in Sessions \cup {NoSession}, restore # "done",
           RestoreEnds(id), UNCHANGED asked
    PROVE  ClientInv'
<1> USE DEF ClientInv
<1>0. /\ session' = id /\ restore' = "done" /\ hydrated' = TRUE
      /\ UNCHANGED <<gateway, asked>>
      /\ wsRef = NoSock /\ timer = "none" /\ ~connecting
      /\ gateway \in AllStatuses \cup {"unknown", "stopping"}
    BY DEF RestoreEnds, NothingYet, Following, ConnectionTypeOK
<1>2. CASE gateway \in {"stopped", "error"}
    <2>1. Disconnect /\ lastStatus' = gateway
        BY <1>2 DEF RestoreEnds, Sync
    <2> QED BY <1>0, <1>2, <2>1, ChatClientAssumption DEF Disconnect, Older, Current,
               ConnectionTypeOK, OneSocket, HonestStatus, Following, NothingYet,
               TimerIsFresh, NeverStranded
<1>3. CASE gateway = "running" /\ id # NoSession /\ ~Busy
    <2>1. PICK s \in Unused : Connects(s, id)
        BY <1>3 DEF RestoreEnds, Sync, Connect, Connects
    <2>2. maintain' = TRUE /\ lastStatus' = gateway /\ UNCHANGED typing
        BY <1>3 DEF RestoreEnds, Sync
    <2>3. /\ OneSocket' /\ HonestStatus'
          /\ wsRef' # NoSock /\ wsRef' \in Socks
          /\ connecting' \in BOOLEAN /\ timer' = "none"
          /\ ready' \in [Socks -> {"none", "CONNECTING", "OPEN", "CLOSING"}]
          /\ captured' \in [Socks -> [fresh : BOOLEAN, session : Sessions \cup {NoSession},
                                      handlers : BOOLEAN]]
          /\ connState' \in {"disconnected", "connecting", "connected"}
        BY <1>0, <1>3, <2>1, <2>2, ConnectsKeeps
    <2> QED BY <1>0, <1>3, <2>2, <2>3 DEF ConnectionTypeOK, Following, NothingYet,
               TimerIsFresh, NeverStranded
<1>4. CASE gateway = "running" /\ ~(id # NoSession /\ ~Busy)
    <2>1. maintain' = TRUE /\ lastStatus' = gateway /\ UNCHANGED <<socketVars, typing>>
        BY <1>4 DEF RestoreEnds, Sync, Connect
    <2> QED BY <1>0, <1>4, <2>1 DEF socketVars, Busy, Current, ConnectionTypeOK, OneSocket,
               HonestStatus, Following, NothingYet, TimerIsFresh, NeverStranded
<1>5. CASE gateway \notin {"running", "stopped", "error"}
    <2>1. lastStatus' = gateway /\ UNCHANGED <<maintain, socketVars, typing>>
        BY <1>5 DEF RestoreEnds, Sync
    <2> QED BY <1>0, <1>5, <2>1 DEF socketVars, Current, ConnectionTypeOK, OneSocket,
               HonestStatus, Following, NothingYet, TimerIsFresh, NeverStranded
<1> QED BY <1>2, <1>3, <1>4, <1>5

-----------------------------------------------------------------------------
(* Messages, and a new page.                                               *)

\* A message arrives.
LEMMA ReceiveKeeps ==
    ASSUME ClientInv, NEW s \in Socks, NEW msg, Receive(s, msg)
    PROVE  ClientInv'
BY ChatClientAssumption DEF Receive, Current, statusVars, restoreVars, socketVars,
   ClientInv, ConnectionTypeOK, OneSocket, HonestStatus, Following,
   NothingYet, TimerIsFresh, NeverStranded

\* A message is sent.
LEMMA SendKeeps ==
    ASSUME ClientInv, Send
    PROVE  ClientInv'
BY ChatClientAssumption DEF Send, Current, statusVars, restoreVars, socketVars,
   ClientInv, ConnectionTypeOK, OneSocket, HonestStatus, Following,
   NothingYet, TimerIsFresh, NeverStranded

\* The page is loaded again.
LEMMA ReloadKeeps ==
    ASSUME ClientInv, Reload
    PROVE  ClientInv'
<1>1. NoCapture \in [fresh : BOOLEAN, session : Sessions \cup {NoSession},
                     handlers : BOOLEAN]
    BY DEF NoCapture
<1>2. ConnectionTypeOK'
    BY <1>1 DEF Reload, ClientInv, ConnectionTypeOK
<1> QED BY <1>2 DEF Reload, ClientInv, OneSocket, HonestStatus, Following, NothingYet,
           TimerIsFresh, NeverStranded

\* The list of sessions is there, and names one.
LEMMA ResolvedKeeps ==
    ASSUME ClientInv, NEW id \in Sessions, Resolved(id), id # NoSession
    PROVE  ClientInv'
BY DEF Resolved, statusVars, socketVars, Current, ClientInv, ConnectionTypeOK, OneSocket,
   HonestStatus, Following, NothingYet, TimerIsFresh, NeverStranded

-----------------------------------------------------------------------------
(* What an error leaves of the transcript: Without, by induction.          *)

\* Every set of numbers that is not empty has a smallest element.
LEMMA SmallestNumber ==
    ASSUME NEW T \in SUBSET Nat, T # {}
    PROVE  \E x \in T : \A y \in T : x <= y
<1> DEFINE R == OpToRel(<, Nat)
<1>1. IsWellFoundedOn(R, Nat)
    BY NatLessThanWellFounded
<1>2. \A i, j \in Nat : i < j => <<i, j>> \in R
    BY DEF OpToRel
<1> HIDE DEF R
<1>3. PICK x \in T : \A y \in T : ~ (<<y, x>> \in R)
    BY <1>1, WFMin
<1>4. ASSUME NEW y \in T PROVE x <= y
    <2>1. ~ (y < x)
        BY <1>2, <1>3
    <2> QED BY <2>1
<1> QED BY <1>4

\* Induction over the numbers, stated for a set of them.
LEMMA Induction ==
    ASSUME NEW S, 0 \in S, \A n \in Nat : n \in S => n + 1 \in S
    PROVE  Nat \subseteq S
<1> SUFFICES ASSUME Nat \ S # {} PROVE FALSE
    OBVIOUS
<1>1. PICK x \in Nat \ S : \A y \in Nat \ S : x <= y
    BY SmallestNumber
<1>2. x # 0 /\ x - 1 \in Nat
    BY <1>1
<1>3. x - 1 \in S
    BY <1>1, <1>2
<1> QED BY <1>1, <1>2, <1>3


\* g solves the recursion of Without up to index k.
Solves(g, s, l, k) ==
    g = [i \in 0..k |-> IF i = 0 THEN <<>>
                        ELSE IF s[i] = l THEN g[i - 1] ELSE Append(g[i - 1], s[i])]

\* Read pointwise.
LEMMA SolvesPointwise ==
    ASSUME NEW g, NEW s, NEW l, NEW k \in Nat, Solves(g, s, l, k)
    PROVE  /\ g[0] = <<>>
           /\ \A i \in 1..k : g[i] = IF s[i] = l THEN g[i - 1] ELSE Append(g[i - 1], s[i])
<1> DEFINE f(i) == IF i = 0 THEN <<>>
                   ELSE IF s[i] = l THEN g[i - 1] ELSE Append(g[i - 1], s[i])
<1>1. g = [i \in 0..k |-> f(i)]
    BY DEF Solves
<1>2. \A i \in 0..k : g[i] = f(i)
    <2> HIDE DEF f
    <2> QED BY <1>1
<1>3. 0 \in 0..k /\ \A i \in 1..k : i \in 0..k /\ i # 0
    OBVIOUS
<1> QED BY <1>2, <1>3

\* The recursion has a solution up to every index.
LEMMA SolutionExists ==
    ASSUME NEW s, NEW l, NEW n \in Nat
    PROVE  \E g : Solves(g, s, l, n)
<1> DEFINE S == {k \in Nat : \E g : Solves(g, s, l, k)}
<1>1. 0 \in S
    <2>1. Solves([i \in 0..0 |-> <<>>], s, l, 0)
        BY DEF Solves
    <2> QED BY <2>1
<1>2. ASSUME NEW k \in Nat, k \in S
      PROVE  k + 1 \in S
    <2>1. PICK g : Solves(g, s, l, k)
        BY <1>2
    <2> DEFINE h == [i \in 0..(k + 1) |-> IF i \in 0..k THEN g[i]
                        ELSE IF s[i] = l THEN g[i - 1] ELSE Append(g[i - 1], s[i])]
    <2>2. /\ h[0] = <<>>
          /\ \A i \in 1..(k + 1) :
                h[i] = IF s[i] = l THEN h[i - 1] ELSE Append(h[i - 1], s[i])
        <3>1. \A i \in 0..k : h[i] = g[i]
            OBVIOUS
        <3>2. h[k + 1] = IF s[k + 1] = l THEN g[k] ELSE Append(g[k], s[k + 1])
            OBVIOUS
        <3>3. \A i \in 1..(k + 1) : i - 1 \in 0..k /\ (i \in 1..k \/ i = k + 1)
            OBVIOUS
        <3>4. 0 \in 0..k /\ \A i \in 1..k : i \in 0..k
            OBVIOUS
        <3>5. (k + 1) - 1 = k /\ k \in 0..k
            OBVIOUS
        <3> HIDE DEF h
        <3>6. /\ g[0] = <<>>
              /\ \A i \in 1..k : g[i] = IF s[i] = l THEN g[i - 1] ELSE Append(g[i - 1], s[i])
            BY <2>1, SolvesPointwise
        <3> QED BY <3>1, <3>2, <3>3, <3>4, <3>5, <3>6
    <2>3. h = [i \in 0..(k + 1) |-> h[i]]
        OBVIOUS
    <2> HIDE DEF h
    <2> DEFINE f(i) == IF i = 0 THEN <<>>
                       ELSE IF s[i] = l THEN h[i - 1] ELSE Append(h[i - 1], s[i])
    <2>4. \A i \in 0..(k + 1) : h[i] = f(i)
        <3>1. \A i \in 0..(k + 1) : i = 0 \/ i \in 1..(k + 1)
            OBVIOUS
        <3> QED BY <2>2, <3>1
    <2>5. h = [i \in 0..(k + 1) |-> f(i)]
        <3> HIDE DEF f
        <3> QED BY <2>3, <2>4
    <2>6. Solves(h, s, l, k + 1)
        BY <2>5 DEF Solves
    <2> QED BY <2>6
<1> HIDE DEF S
<1>3. Nat \subseteq S
    BY <1>1, <1>2, Induction
<1>4. n \in S
    BY <1>3
<1> QED BY <1>4 DEF S

\* Without is the last value of a solution.
LEMMA WithoutSolves ==
    ASSUME NEW s, NEW l, Len(s) \in Nat
    PROVE  \E g : Solves(g, s, l, Len(s)) /\ Without(s, l) = g[Len(s)]
<1> DEFINE g == CHOOSE g : Solves(g, s, l, Len(s))
<1>1. \E f : Solves(f, s, l, Len(s))
    BY SolutionExists
<1>2. Solves(g, s, l, Len(s))
    BY <1>1
<1>3. Without(s, l) = g[Len(s)]
    BY DEF Without, Solves
<1> QED BY <1>2, <1>3

\* A sequence without some of its elements is a sequence of what is left.
LEMMA WithoutProperties ==
    ASSUME NEW S, NEW s \in Seq(S), NEW l
    PROVE  /\ Without(s, l) \in Seq(S)
           /\ \A x \in ToSet(Without(s, l)) : x \in ToSet(s) /\ x # l
<1> DEFINE n == Len(s)
           T == {x \in ToSet(s) : x # l}
<1>1. n \in Nat /\ \A i \in 1..n : s[i] \in S /\ s[i] \in ToSet(s)
    BY DEF ToSet
<1>2. PICK g : Solves(g, s, l, n) /\ Without(s, l) = g[n]
    BY <1>1, WithoutSolves
<1>3. /\ g[0] = <<>>
      /\ \A i \in 1..n : g[i] = IF s[i] = l THEN g[i - 1] ELSE Append(g[i - 1], s[i])
    BY <1>1, <1>2, SolvesPointwise
<1> DEFINE P == {k \in Nat : k <= n => g[k] \in Seq(T)}
<1>4. 0 \in P
    <2> HIDE DEF T
    <2> QED BY <1>3, EmptySeq
<1>5. ASSUME NEW k \in Nat, k \in P
      PROVE  k + 1 \in P
    <2> SUFFICES ASSUME k + 1 <= n PROVE g[k + 1] \in Seq(T)
        OBVIOUS
    <2>1. g[k] \in Seq(T) /\ k + 1 \in 1..n /\ (k + 1) - 1 = k
        BY <1>1, <1>5
    <2>2. g[k + 1] = IF s[k + 1] = l THEN g[k] ELSE Append(g[k], s[k + 1])
        BY <1>3, <2>1
    <2>3. CASE s[k + 1] = l
        BY <2>1, <2>2, <2>3
    <2>4. CASE s[k + 1] # l
        <3>1. s[k + 1] \in T
            BY <1>1, <2>1, <2>4
        <3> HIDE DEF T
        <3> QED BY <2>1, <2>2, <2>4, <3>1
    <2> QED BY <2>3, <2>4
<1> HIDE DEF P
<1>6. n \in P
    BY <1>1, <1>4, <1>5, Induction
<1>7. Without(s, l) \in Seq(T)
    BY <1>1, <1>2, <1>6 DEF P
<1>8. T \subseteq S
    BY <1>1 DEF ToSet
<1>9. Without(s, l) \in Seq(S)
    BY <1>7, <1>8, SeqMonotonic
<1>10. ASSUME NEW x \in ToSet(Without(s, l)) PROVE x \in T
    <2> HIDE DEF T
    <2> QED BY <1>7, <1>10 DEF ToSet
<1> QED BY <1>9, <1>10
-----------------------------------------------------------------------------
(* The transcript.                                                         *)

\* What a message from the server leaves of the transcript is one.
LEMMA ReceiveKeepsLines ==
    ASSUME messages \in Seq(Line), NEW s, NEW msg, msg.to \in Nat, Receive(s, msg)
    PROVE  /\ messages' \in Seq(Line)
           /\ \A l \in ToSet(messages') :
                 l \in ToSet(messages)
                     \/ (msg.kind = "reply" /\ l = [who |-> "assistant", to |-> msg.to])
<1> DEFINE answer == [who |-> "assistant", to |-> msg.to]
           question == [who |-> "user", to |-> msg.to]
<1>1. \/ messages' = messages
      \/ msg.kind = "reply" /\ messages' = Append(messages, answer)
      \/ messages' = Without(messages, question)
    BY DEF Receive
<1>2. answer \in Line
    BY DEF Line
<1>3. /\ Without(messages, question) \in Seq(Line)
      /\ \A l \in ToSet(Without(messages, question)) : l \in ToSet(messages)
    BY WithoutProperties
<1> HIDE DEF answer, question
<1>4. /\ Append(messages, answer) \in Seq(Line)
      /\ \A l \in ToSet(Append(messages, answer)) : l \in ToSet(messages) \/ l = answer
    BY <1>2 DEF ToSet
<1> QED BY <1>1, <1>3, <1>4 DEF answer

\* The transcript gets the line the user has sent.
LEMMA SendKeepsLines ==
    ASSUME messages \in Seq(Line), asked \in Nat, Send
    PROVE  /\ messages' \in Seq(Line)
           /\ \A l \in ToSet(messages') :
                 l \in ToSet(messages) \/ l = [who |-> "user", to |-> asked']
<1> DEFINE question == [who |-> "user", to |-> asked']
<1>1. asked' = asked + 1 /\ messages' = Append(messages, question)
    BY DEF Send
<1>2. question \in Line
    BY <1>1 DEF Line
<1> HIDE DEF question
<1>3. /\ messages' \in Seq(Line)
      /\ \A l \in ToSet(messages') : l \in ToSet(messages) \/ l = question
    BY <1>1, <1>2 DEF ToSet
<1> QED BY <1>3 DEF question

\* Every callback leaves a transcript.
LEMMA LinesStep ==
    ASSUME ConnectionTypeOK, messages \in Seq(Line), [ClientNext]_clientVars
    PROVE  messages' \in Seq(Line)
<1>1. ASSUME NEW s \in Socks, NEW msg \in Replies, Receive(s, msg)
      PROVE  messages' \in Seq(Line)
    <2>1. msg.to \in Nat
        BY DEF Replies
    <2> QED BY <1>1, <2>1, ReceiveKeepsLines
<1>2. CASE Send
    <2>1. asked \in Nat
        BY ChatClientAssumption DEF ConnectionTypeOK
    <2> QED BY <1>2, <2>1, SendKeepsLines
<1>3. CASE Reload \/ Loaded(<<>>)
    BY <1>3, EmptySeq DEF Reload, Loaded
<1>4. CASE \/ \E status \in Statuses : GatewayAnswers(status)
           \/ BeginStopping \/ StoppingEnds
           \/ \E id \in Sessions \cup {NoSession} : Resolved(id)
           \/ ResolveFails \/ LoadFails
           \/ \E s \in Socks : Opened(s) \/ Closing(s) \/ Closed(s)
           \/ TimerFires \/ UNCHANGED clientVars
    BY <1>4 DEF GatewayAnswers, BeginStopping, StoppingEnds, GatewayBecomes, Resolved,
       ResolveFails, LoadFails, Opened, Closing, Closed, TimerFires, screenVars, clientVars
<1> QED BY <1>1, <1>2, <1>3, <1>4 DEF ClientNext, SocketEvent

-----------------------------------------------------------------------------
(* Theorems.                                                               *)

\* Every callback keeps the invariant.
LEMMA ClientInvStep == ClientInv /\ [ClientNext]_clientVars => ClientInv'
<1> SUFFICES ASSUME ClientInv, [ClientNext]_clientVars PROVE ClientInv'
    OBVIOUS
<1>1. ASSUME NEW status \in Statuses, GatewayAnswers(status) PROVE ClientInv'
    BY <1>1, StatusKeeps, ChatClientAssumption DEF GatewayAnswers
<1>2. CASE BeginStopping
    BY <1>2, StatusKeeps DEF BeginStopping
<1>3. CASE StoppingEnds
    BY <1>3, StatusKeeps DEF StoppingEnds, AllStatuses
<1>4. ASSUME NEW id \in Sessions \cup {NoSession}, Resolved(id) PROVE ClientInv'
    <2>1. CASE id = NoSession
        BY <1>4, <2>1, RestoreKeeps DEF Resolved
    <2>2. CASE id # NoSession
        BY <1>4, <2>2, ResolvedKeeps
    <2> QED BY <2>1, <2>2
<1>5. CASE ResolveFails \/ LoadFails \/ Loaded(<<>>)
    <2>1. /\ restore # "done" /\ RestoreEnds(session) /\ UNCHANGED asked
          /\ session \in Sessions \cup {NoSession}
        BY <1>5 DEF ResolveFails, LoadFails, Loaded, ClientInv, ConnectionTypeOK
    <2> DEFINE id == session
    <2>2. \E i \in Sessions \cup {NoSession} : i = session /\ RestoreEnds(i)
        BY <2>1
    <2> QED BY <2>1, <2>2, RestoreKeeps
<1>6. ASSUME NEW s \in Socks, SocketEvent(s) PROVE ClientInv'
    BY <1>6, OpenedKeeps, ClosingKeeps, ClosedKeeps, ReceiveKeeps DEF SocketEvent
<1>7. CASE TimerFires
    BY <1>7, TimerKeeps
<1>8. CASE Send
    BY <1>8, SendKeeps
<1>9. CASE Reload
    BY <1>9, ReloadKeeps
<1>10. CASE UNCHANGED clientVars
    BY <1>10 DEF clientVars, statusVars, restoreVars, socketVars, screenVars, Current,
       ClientInv, ConnectionTypeOK, OneSocket, HonestStatus, Following, NothingYet,
       TimerIsFresh, NeverStranded
<1> QED BY <1>1, <1>2, <1>3, <1>4, <1>5, <1>6, <1>7, <1>8, <1>9, <1>10 DEF ClientNext

\* The inductive invariant.
THEOREM ClientInvariant == ClientSpec => []ClientInv
<1>1. ClientInit => ClientInv
    BY ClientInvInit
<1>2. ClientInv /\ [ClientNext]_clientVars => ClientInv'
    BY ClientInvStep
<1> QED BY <1>1, <1>2, PTL DEF ClientSpec

\* The page's variables keep their types; the transcript stays a sequence of lines,
\* also when an error takes one of them off it.
THEOREM ClientTypeCorrect == ClientSpec => []ClientTypeOK
<1>1. ClientInit => ClientTypeOK
    BY ClientInvInit, EmptySeq DEF ClientInit, ClientInv, ClientTypeOK
<1>2. ClientInv /\ ClientTypeOK /\ [ClientNext]_clientVars => ClientTypeOK'
    <2> SUFFICES ASSUME ClientInv, ClientTypeOK, [ClientNext]_clientVars PROVE ClientTypeOK'
        OBVIOUS
    <2>1. ClientInv'
        BY ClientInvStep
    <2>2. messages' \in Seq(Line)
        BY LinesStep DEF ClientTypeOK
    <2> QED BY <2>1, <2>2 DEF ClientInv, ClientTypeOK
<1> QED BY <1>1, <1>2, ClientInvariant, PTL DEF ClientSpec

\* A page never has two connections, and listens to the one it has.
THEOREM ClientOneSocket == ClientSpec => []OneSocket
<1>1. ClientInv => OneSocket
    BY DEF ClientInv
<1> QED BY <1>1, ClientInvariant, PTL

\* A page whose session is known has a socket or will make one.
THEOREM ClientNeverStranded == ClientSpec => []NeverStranded
<1>1. ClientInv => NeverStranded
    BY DEF ClientInv
<1> QED BY <1>1, ClientInvariant, PTL

\* What the page says of its connection is so.
THEOREM ClientHonestStatus == ClientSpec => []HonestStatus
<1>1. ClientInv => HonestStatus
    BY DEF ClientInv
<1> QED BY <1>1, ClientInvariant, PTL

\* A restored page follows the gateway's status.
THEOREM ClientFollowing == ClientSpec => []Following
<1>1. ClientInv => Following
    BY DEF ClientInv
<1> QED BY <1>1, ClientInvariant, PTL
=============================================================================
