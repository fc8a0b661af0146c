------------------------- MODULE PicoChannelProofs -------------------------
(***************************************************************************)
(* Proofs about PicoChannel for every set of connections and users and     *)
(* every limit.                                                            *)
(***************************************************************************)
EXTENDS PicoChannel, FiniteSetTheorems, TLAPS

-----------------------------------------------------------------------------
(* The inductive invariant.                                                *)

\* Nothing is left of a connection whose identity is free.
FreeIsClean ==
    \A c \in Conns : link[c] = "none" =>
        place[c] = "none" /\ toClient[c] = <<>> /\ c \notin sending.targets

\* Whoever runs a turn holds the lock of its user.
TurnLocked == \A c \in Conns : place[c] = "turn" => lock[of[c]] = c

\* What is being written belongs to those it is written to.
Addressed ==
    \A c \in sending.targets : \A i \in DOMAIN sending.msg : sending.msg[i].user = of[c]

PicoInv ==
    /\ PicoTypeOK
    /\ IndexesAgree
    /\ WithinLimit
    /\ NoneForgotten
    /\ TurnLocked
    /\ FreeIsClean
    /\ Addressed
    /\ Isolated

-----------------------------------------------------------------------------

LEMMA TypeInit == PicoInit => PicoTypeOK
BY PicoChannelAssumption DEF PicoInit, PicoTypeOK, Places, NotSending

\* Every step keeps the types.
LEMMA TypeStep ==
    ASSUME PicoTypeOK, [PicoNext]_picoVars
    PROVE  PicoTypeOK'
<1>1. ASSUME NEW c \in Conns, NEW u \in Users, Dial(c, u)
      PROVE  PicoTypeOK'
    BY <1>1 DEF PicoTypeOK, Places, Dial, Goto
<1>2. ASSUME NEW c \in Conns, Accept(c)
      PROVE  PicoTypeOK'
    BY <1>2 DEF PicoTypeOK, Places, Accept, Goto, Break
<1>3. ASSUME NEW c \in Conns, Upgrade(c)
      PROVE  PicoTypeOK'
    BY <1>3 DEF PicoTypeOK, Places, Upgrade, Goto
<1>4. ASSUME NEW c \in Conns, Register(c)
      PROVE  PicoTypeOK'
    <2>1. CASE Cardinality(conns) < MaxConns
        <3>1. /\ place[c] = "upgraded"
              /\ conns' = conns \cup {c}
              /\ byUser' = [byUser EXCEPT ![of[c]] = @ \cup {c}]
              /\ place' = [place EXCEPT ![c] = "top"]
              /\ UNCHANGED <<stopping, link, of, closed, late, asking, toServer,
                 toClient, lock,
                             outbox, sending>>
            BY <1>4, <2>1 DEF Register, Goto
        <3> QED BY <1>4, <3>1 DEF PicoTypeOK, Places
    <2>2. CASE ~(Cardinality(conns) < MaxConns)
        BY <1>4, <2>2 DEF PicoTypeOK, Places, Register, Goto, Break
    <2> QED BY <2>1, <2>2
<1>5. ASSUME NEW c \in Conns, LoopTop(c)
      PROVE  PicoTypeOK'
    <2>1. CASE stopping = "stopped"
        <3>1. /\ closed' = closed \cup {c}
              /\ link' = [link EXCEPT ![c] = "down"]
              /\ place' = [place EXCEPT ![c] = "leaving"]
              /\ UNCHANGED <<stopping, conns, byUser, of, late, asking, toServer,
                 toClient, lock,
                             outbox, sending>>
            BY <1>5, <2>1 DEF LoopTop, CloseConn, Goto, Break
        <3> QED BY <3>1 DEF PicoTypeOK, Places
    <2>2. CASE stopping # "stopped"
        BY <1>5, <2>2 DEF PicoTypeOK, Places, LoopTop, Goto
    <2> QED BY <2>1, <2>2
<1>6. ASSUME NEW c \in Conns, Read(c)
      PROVE  PicoTypeOK'
    BY <1>6 DEF PicoTypeOK, Places, Read, Goto
<1>7. ASSUME NEW c \in Conns, ReadFails(c)
      PROVE  PicoTypeOK'
    BY <1>7 DEF PicoTypeOK, Places, ReadFails, CloseConn, Goto, Break
<1>8. ASSUME NEW c \in Conns, Late(c)
      PROVE  PicoTypeOK'
    BY <1>8 DEF PicoTypeOK, Places, Late, netVars
<1>9. ASSUME NEW c \in Conns, StartTurn(c)
      PROVE  PicoTypeOK'
    BY <1>9 DEF PicoTypeOK, Places, StartTurn, Goto, netVars
<1>10. ASSUME NEW c \in Conns, NEW o, EndTurn(c, o)
       PROVE  PicoTypeOK'
    <2> DEFINE msg == [kind |-> o, user |-> of[c], to |-> asking[c]]
    <2>1. msg.user \in Users /\ msg.to \in Nat
        BY DEF PicoTypeOK
    <2>2. o \in {"reply", "error"} => msg \in Outgoing
        BY <2>1 DEF Outgoing
    <2>3. outbox' \in Seq(Outgoing) /\ toClient' \in [Conns -> Seq(Outgoing)]
        BY <1>10, <2>2 DEF PicoTypeOK, EndTurn
    <2> QED BY <1>10, <2>3 DEF PicoTypeOK, Places, EndTurn, Goto
<1>11. ASSUME NEW c \in Conns, Leave(c)
       PROVE  PicoTypeOK'
    BY <1>11 DEF PicoTypeOK, Places, Leave, Goto, netVars
<1>12. ASSUME NEW c \in Conns, Write(c)
       PROVE  PicoTypeOK'
    <2>1. sending.msg \in Seq(Outgoing) /\ sending.targets \subseteq Conns
        BY DEF PicoTypeOK
    <2>2. sending' \in [msg : Seq(Outgoing), targets : SUBSET Conns]
        <3>1. CASE sending.targets = {c}
            BY <1>12, <3>1 DEF Write, NotSending
        <3>2. CASE sending.targets # {c}
            BY <1>12, <3>2, <2>1 DEF PicoTypeOK, Write
        <3> QED BY <3>1, <3>2
    <2>3. \A d \in Conns : toClient[d] \o sending.msg \in Seq(Outgoing)
        BY <2>1 DEF PicoTypeOK
    <2>4. toClient' \in [Conns -> Seq(Outgoing)]
        BY <1>12, <2>3 DEF PicoTypeOK, Write
    <2> QED BY <1>12, <2>2, <2>4 DEF PicoTypeOK, Write, connVars
<1>13. ASSUME NEW c \in Conns, HangUp(c)
       PROVE  PicoTypeOK'
    BY <1>13 DEF PicoTypeOK, Places, HangUp, Break, connVars
<1>14. ASSUME NEW c \in Conns, Recycle(c)
       PROVE  PicoTypeOK'
    <2>1. (CHOOSE u \in Users : TRUE) \in Users
        BY PicoChannelAssumption
    <2> QED BY <1>14, <2>1 DEF PicoTypeOK, Recycle
<1>15. ASSUME NEW c \in Conns, NEW m \in 1..MaxMsg, ClientSends(c, m)
       PROVE  PicoTypeOK'
    BY <1>15 DEF PicoTypeOK, Places, ClientSends, connVars
<1>16. ASSUME NEW c \in Conns, ClientReceives(c)
       PROVE  PicoTypeOK'
    BY <1>16 DEF PicoTypeOK, Places, ClientReceives, connVars
<1>17. ASSUME Take
       PROVE  PicoTypeOK'
    <2>1. Head(outbox) \in Outgoing /\ Tail(outbox) \in Seq(Outgoing)
        BY <1>17 DEF PicoTypeOK, Take
    <2>2. <<Head(outbox)>> \in Seq(Outgoing) /\ Head(outbox).user \in Users
        BY <2>1 DEF Outgoing
    <2>3. sending' \in [msg : Seq(Outgoing), targets : SUBSET Conns]
        BY <1>17, <2>2 DEF PicoTypeOK, Take, NotSending
    <2> QED BY <1>17, <2>1, <2>3 DEF PicoTypeOK, Take, connVars, netVars
<1>18. ASSUME StopRefuses
       PROVE  PicoTypeOK'
    BY <1>18 DEF PicoTypeOK, Places, StopRefuses, connVars, netVars
<1>19. ASSUME StopCloses
       PROVE  PicoTypeOK'
    BY <1>19 DEF PicoTypeOK, Places, StopCloses
<1>20. ASSUME StopCancels
       PROVE  PicoTypeOK'
    BY <1>20 DEF PicoTypeOK, Places, StopCancels, connVars, netVars
<1>21. ASSUME UNCHANGED picoVars
       PROVE  PicoTypeOK'
    BY <1>21 DEF PicoTypeOK, Places, picoVars, connVars, netVars
<1> QED BY <1>1, <1>2, <1>3, <1>4, <1>5, <1>6, <1>7, <1>8, <1>9, <1>10, <1>11, <1>12,
       <1>13, <1>14, <1>15, <1>16, <1>17, <1>18, <1>19, <1>20, <1>21 DEF PicoNext,
       ConnNext, EndsTurn

-----------------------------------------------------------------------------
(* The indexes.                                                            *)

\* No entry outlives its goroutine, no goroutine its entry unseen, and every link
\* that is up is served.
LEMMA ServedStep ==
    ASSUME PicoTypeOK, NoneForgotten, [PicoNext]_picoVars
    PROVE  NoneForgotten'
<1>1. ASSUME NEW c \in Conns, NEW u \in Users, Dial(c, u)
      PROVE  NoneForgotten'
    BY <1>1 DEF NoneForgotten, Serving, PicoTypeOK, Places, Dial, Goto
<1>2. ASSUME NEW c \in Conns, Accept(c)
      PROVE  NoneForgotten'
    BY <1>2 DEF NoneForgotten, Serving, PicoTypeOK, Places, Accept, Goto, Break
<1>3. ASSUME NEW c \in Conns, Upgrade(c)
      PROVE  NoneForgotten'
    BY <1>3 DEF NoneForgotten, Serving, PicoTypeOK, Places, Upgrade, Goto
<1>4. ASSUME NEW c \in Conns, Register(c)
      PROVE  NoneForgotten'
    <2>1. CASE Cardinality(conns) < MaxConns
        <3>1. /\ place[c] = "upgraded"
              /\ conns' = conns \cup {c}
              /\ byUser' = [byUser EXCEPT ![of[c]] = @ \cup {c}]
              /\ place' = [place EXCEPT ![c] = "top"]
              /\ UNCHANGED <<stopping, link, of, closed, late, asking, toServer,
                 toClient, lock,
                             outbox, sending>>
            BY <1>4, <2>1 DEF Register, Goto
        <3> QED BY <1>4, <3>1 DEF NoneForgotten, Serving, PicoTypeOK, Places
    <2>2. CASE ~(Cardinality(conns) < MaxConns)
        BY <1>4, <2>2 DEF NoneForgotten, Serving, PicoTypeOK, Places, Register, Goto,
           Break
    <2> QED BY <2>1, <2>2
<1>5. ASSUME NEW c \in Conns, LoopTop(c)
      PROVE  NoneForgotten'
    BY <1>5 DEF NoneForgotten, Serving, PicoTypeOK, Places, LoopTop, CloseConn, Goto,
       Break
<1>6. ASSUME NEW c \in Conns, Read(c)
      PROVE  NoneForgotten'
    BY <1>6 DEF NoneForgotten, Serving, PicoTypeOK, Places, Read, Goto
<1>7. ASSUME NEW c \in Conns, ReadFails(c)
      PROVE  NoneForgotten'
    BY <1>7 DEF NoneForgotten, Serving, PicoTypeOK, Places, ReadFails, CloseConn, Goto,
       Break
<1>8. ASSUME NEW c \in Conns, Late(c)
      PROVE  NoneForgotten'
    BY <1>8 DEF NoneForgotten, Serving, PicoTypeOK, Places, Late, netVars
<1>9. ASSUME NEW c \in Conns, StartTurn(c)
      PROVE  NoneForgotten'
    BY <1>9 DEF NoneForgotten, Serving, PicoTypeOK, Places, StartTurn, Goto, netVars
<1>10. ASSUME NEW c \in Conns, NEW o, EndTurn(c, o)
       PROVE  NoneForgotten'
    BY <1>10 DEF NoneForgotten, Serving, PicoTypeOK, Places, EndTurn, Goto
<1>11. ASSUME NEW c \in Conns, Leave(c)
       PROVE  NoneForgotten'
    BY <1>11 DEF NoneForgotten, Serving, PicoTypeOK, Places, Leave, Goto, netVars
<1>12. ASSUME NEW c \in Conns, Write(c)
       PROVE  NoneForgotten'
    BY <1>12 DEF NoneForgotten, Serving, PicoTypeOK, Places, Write, NotSending, connVars
<1>13. ASSUME NEW c \in Conns, HangUp(c)
       PROVE  NoneForgotten'
    BY <1>13 DEF NoneForgotten, Serving, PicoTypeOK, Places, HangUp, Break, connVars
<1>14. ASSUME NEW c \in Conns, Recycle(c)
       PROVE  NoneForgotten'
    BY <1>14 DEF NoneForgotten, Serving, PicoTypeOK, Places, Recycle
<1>15. ASSUME NEW c \in Conns, NEW m \in 1..MaxMsg, ClientSends(c, m)
       PROVE  NoneForgotten'
    BY <1>15 DEF NoneForgotten, Serving, PicoTypeOK, Places, ClientSends, connVars
<1>16. ASSUME NEW c \in Conns, ClientReceives(c)
       PROVE  NoneForgotten'
    BY <1>16 DEF NoneForgotten, Serving, PicoTypeOK, Places, ClientReceives, connVars
<1>17. ASSUME Take
       PROVE  NoneForgotten'
    BY <1>17 DEF NoneForgotten, Serving, PicoTypeOK, Places, Take, NotSending, connVars,
       netVars
<1>18. ASSUME StopRefuses
       PROVE  NoneForgotten'
    BY <1>18 DEF NoneForgotten, Serving, PicoTypeOK, Places, StopRefuses, connVars,
       netVars
<1>19. ASSUME StopCloses
       PROVE  NoneForgotten'
    BY <1>19 DEF NoneForgotten, Serving, PicoTypeOK, Places, StopCloses
<1>20. ASSUME StopCancels
       PROVE  NoneForgotten'
    BY <1>20 DEF NoneForgotten, Serving, PicoTypeOK, Places, StopCancels, connVars,
       netVars
<1>21. ASSUME UNCHANGED picoVars
       PROVE  NoneForgotten'
    BY <1>21 DEF NoneForgotten, Serving, PicoTypeOK, Places, picoVars, connVars, netVars
<1> QED BY <1>1, <1>2, <1>3, <1>4, <1>5, <1>6, <1>7, <1>8, <1>9, <1>10, <1>11, <1>12,
       <1>13, <1>14, <1>15, <1>16, <1>17, <1>18, <1>19, <1>20, <1>21 DEF PicoNext,
       ConnNext, EndsTurn

\* The two indexes change together; a connection changes its user only while it is
\* in neither.
LEMMA IndexStep ==
    ASSUME PicoTypeOK, NoneForgotten, IndexesAgree, [PicoNext]_picoVars
    PROVE  IndexesAgree'
<1>1. ASSUME NEW c \in Conns, NEW u \in Users, Dial(c, u)
      PROVE  IndexesAgree'
    BY <1>1 DEF IndexesAgree, NoneForgotten, Serving, PicoTypeOK, Dial, Goto
<1>2. ASSUME NEW c \in Conns, Accept(c)
      PROVE  IndexesAgree'
    BY <1>2 DEF IndexesAgree, NoneForgotten, Serving, PicoTypeOK, Accept, Goto, Break
<1>3. ASSUME NEW c \in Conns, Upgrade(c)
      PROVE  IndexesAgree'
    BY <1>3 DEF IndexesAgree, NoneForgotten, Serving, PicoTypeOK, Upgrade, Goto
<1>4. ASSUME NEW c \in Conns, Register(c)
      PROVE  IndexesAgree'
    <2>1. CASE Cardinality(conns) < MaxConns
        <3>1. /\ place[c] = "upgraded"
              /\ conns' = conns \cup {c}
              /\ byUser' = [byUser EXCEPT ![of[c]] = @ \cup {c}]
              /\ place' = [place EXCEPT ![c] = "top"]
              /\ UNCHANGED <<stopping, link, of, closed, late, asking, toServer,
                 toClient, lock,
                             outbox, sending>>
            BY <1>4, <2>1 DEF Register, Goto
        <3> QED BY <1>4, <3>1 DEF IndexesAgree, NoneForgotten, Serving, PicoTypeOK
    <2>2. CASE ~(Cardinality(conns) < MaxConns)
        BY <1>4, <2>2 DEF IndexesAgree, NoneForgotten, Serving, PicoTypeOK, Register,
           Goto, Break
    <2> QED BY <2>1, <2>2
<1>5. ASSUME NEW c \in Conns, LoopTop(c)
      PROVE  IndexesAgree'
    BY <1>5 DEF IndexesAgree, NoneForgotten, Serving, PicoTypeOK, LoopTop, CloseConn,
       Goto, Break
<1>6. ASSUME NEW c \in Conns, Read(c)
      PROVE  IndexesAgree'
    BY <1>6 DEF IndexesAgree, NoneForgotten, Serving, PicoTypeOK, Read, Goto
<1>7. ASSUME NEW c \in Conns, ReadFails(c)
      PROVE  IndexesAgree'
    BY <1>7 DEF IndexesAgree, NoneForgotten, Serving, PicoTypeOK, ReadFails, CloseConn,
       Goto, Break
<1>8. ASSUME NEW c \in Conns, Late(c)
      PROVE  IndexesAgree'
    BY <1>8 DEF IndexesAgree, NoneForgotten, Serving, PicoTypeOK, Late, netVars
<1>9. ASSUME NEW c \in Conns, StartTurn(c)
      PROVE  IndexesAgree'
    BY <1>9 DEF IndexesAgree, NoneForgotten, Serving, PicoTypeOK, StartTurn, Goto,
       netVars
<1>10. ASSUME NEW c \in Conns, NEW o, EndTurn(c, o)
       PROVE  IndexesAgree'
    BY <1>10 DEF IndexesAgree, NoneForgotten, Serving, PicoTypeOK, EndTurn, Goto
<1>11. ASSUME NEW c \in Conns, Leave(c)
       PROVE  IndexesAgree'
    BY <1>11 DEF IndexesAgree, NoneForgotten, Serving, PicoTypeOK, Leave, Goto, netVars
<1>12. ASSUME NEW c \in Conns, Write(c)
       PROVE  IndexesAgree'
    BY <1>12 DEF IndexesAgree, NoneForgotten, Serving, PicoTypeOK, Write, NotSending,
       connVars
<1>13. ASSUME NEW c \in Conns, HangUp(c)
       PROVE  IndexesAgree'
    BY <1>13 DEF IndexesAgree, NoneForgotten, Serving, PicoTypeOK, HangUp, Break,
       connVars
<1>14. ASSUME NEW c \in Conns, Recycle(c)
       PROVE  IndexesAgree'
    BY <1>14 DEF IndexesAgree, NoneForgotten, Serving, PicoTypeOK, Recycle
<1>15. ASSUME NEW c \in Conns, NEW m \in 1..MaxMsg, ClientSends(c, m)
       PROVE  IndexesAgree'
    BY <1>15 DEF IndexesAgree, NoneForgotten, Serving, PicoTypeOK, ClientSends, connVars
<1>16. ASSUME NEW c \in Conns, ClientReceives(c)
       PROVE  IndexesAgree'
    BY <1>16 DEF IndexesAgree, NoneForgotten, Serving, PicoTypeOK, ClientReceives,
       connVars
<1>17. ASSUME Take
       PROVE  IndexesAgree'
    BY <1>17 DEF IndexesAgree, NoneForgotten, Serving, PicoTypeOK, Take, NotSending,
       connVars, netVars
<1>18. ASSUME StopRefuses
       PROVE  IndexesAgree'
    BY <1>18 DEF IndexesAgree, NoneForgotten, Serving, PicoTypeOK, StopRefuses,
       connVars, netVars
<1>19. ASSUME StopCloses
       PROVE  IndexesAgree'
    BY <1>19 DEF IndexesAgree, NoneForgotten, Serving, PicoTypeOK, StopCloses
<1>20. ASSUME StopCancels
       PROVE  IndexesAgree'
    BY <1>20 DEF IndexesAgree, NoneForgotten, Serving, PicoTypeOK, StopCancels,
       connVars, netVars
<1>21. ASSUME UNCHANGED picoVars
       PROVE  IndexesAgree'
    BY <1>21 DEF IndexesAgree, NoneForgotten, Serving, PicoTypeOK, picoVars, connVars,
       netVars
<1> QED BY <1>1, <1>2, <1>3, <1>4, <1>5, <1>6, <1>7, <1>8, <1>9, <1>10, <1>11, <1>12,
       <1>13, <1>14, <1>15, <1>16, <1>17, <1>18, <1>19, <1>20, <1>21 DEF PicoNext,
       ConnNext, EndsTurn

\* Only Register makes the index larger, and it counts first.
LEMMA LimitStep ==
    ASSUME PicoTypeOK, WithinLimit, [PicoNext]_picoVars
    PROVE  WithinLimit'
<1>1. ASSUME NEW c \in Conns, NEW u \in Users, Dial(c, u)
      PROVE  WithinLimit'
    BY <1>1 DEF WithinLimit, Dial, Goto
<1>2. ASSUME NEW c \in Conns, Accept(c)
      PROVE  WithinLimit'
    BY <1>2 DEF WithinLimit, Accept, Goto, Break
<1>3. ASSUME NEW c \in Conns, Upgrade(c)
      PROVE  WithinLimit'
    BY <1>3 DEF WithinLimit, Upgrade, Goto
<1>4. ASSUME NEW c \in Conns, Register(c)
      PROVE  WithinLimit'
    <2>0. conns \subseteq Conns /\ conns' \subseteq Conns
        BY <1>4 DEF PicoTypeOK, Register
    <2>1. IsFiniteSet(conns) /\ IsFiniteSet(conns')
        BY <2>0, FS_Subset, PicoChannelAssumption
    <2>2. CASE Cardinality(conns) < MaxConns
        <3>1. conns' = conns \cup {c}
            BY <1>4, <2>2 DEF Register
        <3>2. Cardinality(conns \cup {c}) <= Cardinality(conns) + 1
            <4>1. Cardinality(conns) \in Nat
                BY <2>1, FS_CardinalityType
            <4>2. Cardinality(conns \cup {c}) = IF c \in conns THEN Cardinality(conns)
                                                ELSE Cardinality(conns) + 1
                BY <2>1, FS_AddElement
            <4> QED BY <4>1, <4>2
        <3> QED BY <2>1, <2>2, <3>1, <3>2, FS_CardinalityType, PicoChannelAssumption DEF
               WithinLimit
    <2>3. CASE ~(Cardinality(conns) < MaxConns)
        BY <1>4, <2>3 DEF Register, WithinLimit
    <2> QED BY <2>2, <2>3
<1>5. ASSUME NEW c \in Conns, LoopTop(c)
      PROVE  WithinLimit'
    BY <1>5 DEF WithinLimit, LoopTop, CloseConn, Goto, Break
<1>6. ASSUME NEW c \in Conns, Read(c)
      PROVE  WithinLimit'
    BY <1>6 DEF WithinLimit, Read, Goto
<1>7. ASSUME NEW c \in Conns, ReadFails(c)
      PROVE  WithinLimit'
    BY <1>7 DEF WithinLimit, ReadFails, CloseConn, Goto, Break
<1>8. ASSUME NEW c \in Conns, Late(c)
      PROVE  WithinLimit'
    BY <1>8 DEF WithinLimit, Late, netVars
<1>9. ASSUME NEW c \in Conns, StartTurn(c)
      PROVE  WithinLimit'
    BY <1>9 DEF WithinLimit, StartTurn, Goto, netVars
<1>10. ASSUME NEW c \in Conns, NEW o, EndTurn(c, o)
       PROVE  WithinLimit'
    BY <1>10 DEF WithinLimit, EndTurn, Goto
<1>11. ASSUME NEW c \in Conns, Leave(c)
       PROVE  WithinLimit'
    <2>1. conns' = conns \ {c} /\ IsFiniteSet(conns)
        BY <1>11, FS_Subset, PicoChannelAssumption DEF Leave, PicoTypeOK
    <2>2. Cardinality(conns') <= Cardinality(conns)
        BY <2>1, FS_Subset
    <2> QED BY <2>1, <2>2, FS_CardinalityType, FS_Subset, PicoChannelAssumption DEF
           WithinLimit
<1>12. ASSUME NEW c \in Conns, Write(c)
       PROVE  WithinLimit'
    BY <1>12 DEF WithinLimit, Write, NotSending, connVars
<1>13. ASSUME NEW c \in Conns, HangUp(c)
       PROVE  WithinLimit'
    BY <1>13 DEF WithinLimit, HangUp, Break, connVars
<1>14. ASSUME NEW c \in Conns, Recycle(c)
       PROVE  WithinLimit'
    BY <1>14 DEF WithinLimit, Recycle
<1>15. ASSUME NEW c \in Conns, NEW m \in 1..MaxMsg, ClientSends(c, m)
       PROVE  WithinLimit'
    BY <1>15 DEF WithinLimit, ClientSends, connVars
<1>16. ASSUME NEW c \in Conns, ClientReceives(c)
       PROVE  WithinLimit'
    BY <1>16 DEF WithinLimit, ClientReceives, connVars
<1>17. ASSUME Take
       PROVE  WithinLimit'
    BY <1>17 DEF WithinLimit, Take, NotSending, connVars, netVars
<1>18. ASSUME StopRefuses
       PROVE  WithinLimit'
    BY <1>18 DEF WithinLimit, StopRefuses, connVars, netVars
<1>19. ASSUME StopCloses
       PROVE  WithinLimit'
    <2>1. conns' = {}
        BY <1>19 DEF StopCloses
    <2> QED BY <2>1, FS_EmptySet, PicoChannelAssumption DEF WithinLimit
<1>20. ASSUME StopCancels
       PROVE  WithinLimit'
    BY <1>20 DEF WithinLimit, StopCancels, connVars, netVars
<1>21. ASSUME UNCHANGED picoVars
       PROVE  WithinLimit'
    BY <1>21 DEF WithinLimit, picoVars, connVars, netVars
<1> QED BY <1>1, <1>2, <1>3, <1>4, <1>5, <1>6, <1>7, <1>8, <1>9, <1>10, <1>11, <1>12,
       <1>13, <1>14, <1>15, <1>16, <1>17, <1>18, <1>19, <1>20, <1>21 DEF PicoNext,
       ConnNext, EndsTurn

-----------------------------------------------------------------------------
(* Turns and messages.                                                     *)

\* A lock is only taken when it is free and only given back by its holder.
LEMMA LockStep ==
    ASSUME PicoTypeOK, TurnLocked, [PicoNext]_picoVars
    PROVE  TurnLocked'
<1>1. ASSUME NEW c \in Conns, NEW u \in Users, Dial(c, u)
      PROVE  TurnLocked'
    BY <1>1 DEF TurnLocked, PicoTypeOK, Dial, Goto
<1>2. ASSUME NEW c \in Conns, Accept(c)
      PROVE  TurnLocked'
    BY <1>2 DEF TurnLocked, PicoTypeOK, Accept, Goto, Break
<1>3. ASSUME NEW c \in Conns, Upgrade(c)
      PROVE  TurnLocked'
    BY <1>3 DEF TurnLocked, PicoTypeOK, Upgrade, Goto
<1>4. ASSUME NEW c \in Conns, Register(c)
      PROVE  TurnLocked'
    <2>1. CASE Cardinality(conns) < MaxConns
        <3>1. /\ place[c] = "upgraded"
              /\ conns' = conns \cup {c}
              /\ byUser' = [byUser EXCEPT ![of[c]] = @ \cup {c}]
              /\ place' = [place EXCEPT ![c] = "top"]
              /\ UNCHANGED <<stopping, link, of, closed, late, asking, toServer,
                 toClient, lock,
                             outbox, sending>>
            BY <1>4, <2>1 DEF Register, Goto
        <3> QED BY <1>4, <3>1 DEF TurnLocked, PicoTypeOK
    <2>2. CASE ~(Cardinality(conns) < MaxConns)
        BY <1>4, <2>2 DEF TurnLocked, PicoTypeOK, Register, Goto, Break
    <2> QED BY <2>1, <2>2
<1>5. ASSUME NEW c \in Conns, LoopTop(c)
      PROVE  TurnLocked'
    BY <1>5 DEF TurnLocked, PicoTypeOK, LoopTop, CloseConn, Goto, Break
<1>6. ASSUME NEW c \in Conns, Read(c)
      PROVE  TurnLocked'
    BY <1>6 DEF TurnLocked, PicoTypeOK, Read, Goto
<1>7. ASSUME NEW c \in Conns, ReadFails(c)
      PROVE  TurnLocked'
    BY <1>7 DEF TurnLocked, PicoTypeOK, ReadFails, CloseConn, Goto, Break
<1>8. ASSUME NEW c \in Conns, Late(c)
      PROVE  TurnLocked'
    BY <1>8 DEF TurnLocked, PicoTypeOK, Late, netVars
<1>9. ASSUME NEW c \in Conns, StartTurn(c)
      PROVE  TurnLocked'
    BY <1>9, PicoChannelAssumption DEF TurnLocked, PicoTypeOK, StartTurn, Goto, netVars
<1>10. ASSUME NEW c \in Conns, NEW o, EndTurn(c, o)
       PROVE  TurnLocked'
    BY <1>10 DEF TurnLocked, PicoTypeOK, EndTurn, Goto
<1>11. ASSUME NEW c \in Conns, Leave(c)
       PROVE  TurnLocked'
    BY <1>11 DEF TurnLocked, PicoTypeOK, Leave, Goto, netVars
<1>12. ASSUME NEW c \in Conns, Write(c)
       PROVE  TurnLocked'
    BY <1>12 DEF TurnLocked, PicoTypeOK, Write, NotSending, connVars
<1>13. ASSUME NEW c \in Conns, HangUp(c)
       PROVE  TurnLocked'
    BY <1>13 DEF TurnLocked, PicoTypeOK, HangUp, Break, connVars
<1>14. ASSUME NEW c \in Conns, Recycle(c)
       PROVE  TurnLocked'
    BY <1>14 DEF TurnLocked, PicoTypeOK, Recycle
<1>15. ASSUME NEW c \in Conns, NEW m \in 1..MaxMsg, ClientSends(c, m)
       PROVE  TurnLocked'
    BY <1>15 DEF TurnLocked, PicoTypeOK, ClientSends, connVars
<1>16. ASSUME NEW c \in Conns, ClientReceives(c)
       PROVE  TurnLocked'
    BY <1>16 DEF TurnLocked, PicoTypeOK, ClientReceives, connVars
<1>17. ASSUME Take
       PROVE  TurnLocked'
    BY <1>17 DEF TurnLocked, PicoTypeOK, Take, NotSending, connVars, netVars
<1>18. ASSUME StopRefuses
       PROVE  TurnLocked'
    BY <1>18 DEF TurnLocked, PicoTypeOK, StopRefuses, connVars, netVars
<1>19. ASSUME StopCloses
       PROVE  TurnLocked'
    BY <1>19 DEF TurnLocked, PicoTypeOK, StopCloses
<1>20. ASSUME StopCancels
       PROVE  TurnLocked'
    BY <1>20 DEF TurnLocked, PicoTypeOK, StopCancels, connVars, netVars
<1>21. ASSUME UNCHANGED picoVars
       PROVE  TurnLocked'
    BY <1>21 DEF TurnLocked, PicoTypeOK, picoVars, connVars, netVars
<1> QED BY <1>1, <1>2, <1>3, <1>4, <1>5, <1>6, <1>7, <1>8, <1>9, <1>10, <1>11, <1>12,
       <1>13, <1>14, <1>15, <1>16, <1>17, <1>18, <1>19, <1>20, <1>21 DEF PicoNext,
       ConnNext, EndsTurn

\* An identity is free only when nothing refers to it.
LEMMA FreeStep ==
    ASSUME PicoTypeOK, NoneForgotten, IndexesAgree, FreeIsClean, [PicoNext]_picoVars
    PROVE  FreeIsClean'
<1>1. ASSUME NEW c \in Conns, NEW u \in Users, Dial(c, u)
      PROVE  FreeIsClean'
    BY <1>1 DEF FreeIsClean, NoneForgotten, Serving, IndexesAgree, PicoTypeOK, Dial,
       Goto
<1>2. ASSUME NEW c \in Conns, Accept(c)
      PROVE  FreeIsClean'
    BY <1>2 DEF FreeIsClean, NoneForgotten, Serving, IndexesAgree, PicoTypeOK, Accept,
       Goto, Break
<1>3. ASSUME NEW c \in Conns, Upgrade(c)
      PROVE  FreeIsClean'
    BY <1>3 DEF FreeIsClean, NoneForgotten, Serving, IndexesAgree, PicoTypeOK, Upgrade,
       Goto
<1>4. ASSUME NEW c \in Conns, Register(c)
      PROVE  FreeIsClean'
    <2>1. CASE Cardinality(conns) < MaxConns
        <3>1. /\ place[c] = "upgraded"
              /\ conns' = conns \cup {c}
              /\ byUser' = [byUser EXCEPT ![of[c]] = @ \cup {c}]
              /\ place' = [place EXCEPT ![c] = "top"]
              /\ UNCHANGED <<stopping, link, of, closed, late, asking, toServer,
                 toClient, lock,
                             outbox, sending>>
            BY <1>4, <2>1 DEF Register, Goto
        <3> QED BY <1>4, <3>1 DEF FreeIsClean, NoneForgotten, Serving, IndexesAgree,
               PicoTypeOK
    <2>2. CASE ~(Cardinality(conns) < MaxConns)
        BY <1>4, <2>2 DEF FreeIsClean, NoneForgotten, Serving, IndexesAgree, PicoTypeOK,
           Register, Goto, Break
    <2> QED BY <2>1, <2>2
<1>5. ASSUME NEW c \in Conns, LoopTop(c)
      PROVE  FreeIsClean'
    BY <1>5 DEF FreeIsClean, NoneForgotten, Serving, IndexesAgree, PicoTypeOK, LoopTop,
       CloseConn, Goto, Break
<1>6. ASSUME NEW c \in Conns, Read(c)
      PROVE  FreeIsClean'
    BY <1>6 DEF FreeIsClean, NoneForgotten, Serving, IndexesAgree, PicoTypeOK, Read,
       Goto
<1>7. ASSUME NEW c \in Conns, ReadFails(c)
      PROVE  FreeIsClean'
    BY <1>7 DEF FreeIsClean, NoneForgotten, Serving, IndexesAgree, PicoTypeOK,
       ReadFails, CloseConn, Goto, Break
<1>8. ASSUME NEW c \in Conns, Late(c)
      PROVE  FreeIsClean'
    BY <1>8 DEF FreeIsClean, NoneForgotten, Serving, IndexesAgree, PicoTypeOK, Late,
       netVars
<1>9. ASSUME NEW c \in Conns, StartTurn(c)
      PROVE  FreeIsClean'
    BY <1>9 DEF FreeIsClean, NoneForgotten, Serving, IndexesAgree, PicoTypeOK,
       StartTurn, Goto, netVars
<1>10. ASSUME NEW c \in Conns, NEW o, EndTurn(c, o)
       PROVE  FreeIsClean'
    BY <1>10 DEF FreeIsClean, NoneForgotten, Serving, IndexesAgree, PicoTypeOK, EndTurn,
       Goto
<1>11. ASSUME NEW c \in Conns, Leave(c)
       PROVE  FreeIsClean'
    BY <1>11 DEF FreeIsClean, NoneForgotten, Serving, IndexesAgree, PicoTypeOK, Leave,
       Goto, netVars
<1>12. ASSUME NEW c \in Conns, Write(c)
       PROVE  FreeIsClean'
    BY <1>12 DEF FreeIsClean, NoneForgotten, Serving, IndexesAgree, PicoTypeOK, Write,
       NotSending, connVars
<1>13. ASSUME NEW c \in Conns, HangUp(c)
       PROVE  FreeIsClean'
    BY <1>13 DEF FreeIsClean, NoneForgotten, Serving, IndexesAgree, PicoTypeOK, HangUp,
       Break, connVars
<1>14. ASSUME NEW c \in Conns, Recycle(c)
       PROVE  FreeIsClean'
    BY <1>14 DEF FreeIsClean, NoneForgotten, Serving, IndexesAgree, PicoTypeOK, Recycle
<1>15. ASSUME NEW c \in Conns, NEW m \in 1..MaxMsg, ClientSends(c, m)
       PROVE  FreeIsClean'
    BY <1>15 DEF FreeIsClean, NoneForgotten, Serving, IndexesAgree, PicoTypeOK,
       ClientSends, connVars
<1>16. ASSUME NEW c \in Conns, ClientReceives(c)
       PROVE  FreeIsClean'
    BY <1>16 DEF FreeIsClean, NoneForgotten, Serving, IndexesAgree, PicoTypeOK,
       ClientReceives, connVars
<1>17. ASSUME Take
       PROVE  FreeIsClean'
    <2>1. CASE stopping = "no" /\ byUser[Head(outbox).user] # {}
        <3> DEFINE u == Head(outbox).user
        <3>1. u \in Users
            <4>1. Head(outbox) \in Outgoing
                BY <1>17 DEF PicoTypeOK, Take
            <4> QED BY <4>1 DEF Outgoing
        <3>2. sending' = [msg |-> <<Head(outbox)>>, targets |-> byUser[u]]
            BY <1>17, <2>1 DEF Take
        <3>3. \A c \in byUser[u] : of[c] = u /\ c \in conns
            BY <3>1 DEF IndexesAgree
        <3> QED BY <1>17, <3>1, <3>2, <3>3 DEF Take, FreeIsClean, NoneForgotten,
               Serving, connVars, netVars
    <2>2. CASE ~(stopping = "no" /\ byUser[Head(outbox).user] # {})
        BY <1>17, <2>2 DEF FreeIsClean, Take, NotSending, connVars, netVars
    <2> QED BY <2>1, <2>2
<1>18. ASSUME StopRefuses
       PROVE  FreeIsClean'
    BY <1>18 DEF FreeIsClean, NoneForgotten, Serving, IndexesAgree, PicoTypeOK,
       StopRefuses, connVars, netVars
<1>19. ASSUME StopCloses
       PROVE  FreeIsClean'
    BY <1>19 DEF FreeIsClean, NoneForgotten, Serving, IndexesAgree, PicoTypeOK,
       StopCloses
<1>20. ASSUME StopCancels
       PROVE  FreeIsClean'
    BY <1>20 DEF FreeIsClean, NoneForgotten, Serving, IndexesAgree, PicoTypeOK,
       StopCancels, connVars, netVars
<1>21. ASSUME UNCHANGED picoVars
       PROVE  FreeIsClean'
    BY <1>21 DEF FreeIsClean, NoneForgotten, Serving, IndexesAgree, PicoTypeOK,
       picoVars, connVars, netVars
<1> QED BY <1>1, <1>2, <1>3, <1>4, <1>5, <1>6, <1>7, <1>8, <1>9, <1>10, <1>11, <1>12,
       <1>13, <1>14, <1>15, <1>16, <1>17, <1>18, <1>19, <1>20, <1>21 DEF PicoNext,
       ConnNext, EndsTurn

\* A broadcast is written to the connections of one user, which stay those of that user.
LEMMA AddressedStep ==
    ASSUME PicoTypeOK, IndexesAgree, FreeIsClean, Addressed, [PicoNext]_picoVars
    PROVE  Addressed'
<1>1. ASSUME NEW c \in Conns, NEW u \in Users, Dial(c, u)
      PROVE  Addressed'
    BY <1>1 DEF Addressed, FreeIsClean, IndexesAgree, PicoTypeOK, Dial, Goto
<1>2. ASSUME NEW c \in Conns, Accept(c)
      PROVE  Addressed'
    BY <1>2 DEF Addressed, FreeIsClean, IndexesAgree, PicoTypeOK, Accept, Goto, Break
<1>3. ASSUME NEW c \in Conns, Upgrade(c)
      PROVE  Addressed'
    BY <1>3 DEF Addressed, FreeIsClean, IndexesAgree, PicoTypeOK, Upgrade, Goto
<1>4. ASSUME NEW c \in Conns, Register(c)
      PROVE  Addressed'
    <2>1. CASE Cardinality(conns) < MaxConns
        <3>1. /\ place[c] = "upgraded"
              /\ conns' = conns \cup {c}
              /\ byUser' = [byUser EXCEPT ![of[c]] = @ \cup {c}]
              /\ place' = [place EXCEPT ![c] = "top"]
              /\ UNCHANGED <<stopping, link, of, closed, late, asking, toServer,
                 toClient, lock,
                             outbox, sending>>
            BY <1>4, <2>1 DEF Register, Goto
        <3> QED BY <1>4, <3>1 DEF Addressed, FreeIsClean, IndexesAgree, PicoTypeOK
    <2>2. CASE ~(Cardinality(conns) < MaxConns)
        BY <1>4, <2>2 DEF Addressed, FreeIsClean, IndexesAgree, PicoTypeOK, Register,
           Goto, Break
    <2> QED BY <2>1, <2>2
<1>5. ASSUME NEW c \in Conns, LoopTop(c)
      PROVE  Addressed'
    BY <1>5 DEF Addressed, FreeIsClean, IndexesAgree, PicoTypeOK, LoopTop, CloseConn,
       Goto, Break
<1>6. ASSUME NEW c \in Conns, Read(c)
      PROVE  Addressed'
    BY <1>6 DEF Addressed, FreeIsClean, IndexesAgree, PicoTypeOK, Read, Goto
<1>7. ASSUME NEW c \in Conns, ReadFails(c)
      PROVE  Addressed'
    BY <1>7 DEF Addressed, FreeIsClean, IndexesAgree, PicoTypeOK, ReadFails, CloseConn,
       Goto, Break
<1>8. ASSUME NEW c \in Conns, Late(c)
      PROVE  Addressed'
    BY <1>8 DEF Addressed, FreeIsClean, IndexesAgree, PicoTypeOK, Late, netVars
<1>9. ASSUME NEW c \in Conns, StartTurn(c)
      PROVE  Addressed'
    BY <1>9 DEF Addressed, FreeIsClean, IndexesAgree, PicoTypeOK, StartTurn, Goto,
       netVars
<1>10. ASSUME NEW c \in Conns, NEW o, EndTurn(c, o)
       PROVE  Addressed'
    BY <1>10 DEF Addressed, FreeIsClean, IndexesAgree, PicoTypeOK, EndTurn, Goto
<1>11. ASSUME NEW c \in Conns, Leave(c)
       PROVE  Addressed'
    BY <1>11 DEF Addressed, FreeIsClean, IndexesAgree, PicoTypeOK, Leave, Goto, netVars
<1>12. ASSUME NEW c \in Conns, Write(c)
       PROVE  Addressed'
    BY <1>12 DEF Addressed, FreeIsClean, IndexesAgree, PicoTypeOK, Write, NotSending,
       connVars
<1>13. ASSUME NEW c \in Conns, HangUp(c)
       PROVE  Addressed'
    BY <1>13 DEF Addressed, FreeIsClean, IndexesAgree, PicoTypeOK, HangUp, Break,
       connVars
<1>14. ASSUME NEW c \in Conns, Recycle(c)
       PROVE  Addressed'
    BY <1>14 DEF Addressed, FreeIsClean, IndexesAgree, PicoTypeOK, Recycle
<1>15. ASSUME NEW c \in Conns, NEW m \in 1..MaxMsg, ClientSends(c, m)
       PROVE  Addressed'
    BY <1>15 DEF Addressed, FreeIsClean, IndexesAgree, PicoTypeOK, ClientSends, connVars
<1>16. ASSUME NEW c \in Conns, ClientReceives(c)
       PROVE  Addressed'
    BY <1>16 DEF Addressed, FreeIsClean, IndexesAgree, PicoTypeOK, ClientReceives,
       connVars
<1>17. ASSUME Take
       PROVE  Addressed'
    <2>1. CASE stopping = "no" /\ byUser[Head(outbox).user] # {}
        <3> DEFINE u == Head(outbox).user
        <3>1. u \in Users
            <4>1. Head(outbox) \in Outgoing
                BY <1>17 DEF PicoTypeOK, Take
            <4> QED BY <4>1 DEF Outgoing
        <3>2. sending' = [msg |-> <<Head(outbox)>>, targets |-> byUser[u]]
            BY <1>17, <2>1 DEF Take
        <3>3. \A c \in byUser[u] : of[c] = u /\ c \in conns
            BY <3>1 DEF IndexesAgree
        <3> QED BY <1>17, <3>1, <3>2, <3>3 DEF Take, Addressed, connVars
    <2>2. CASE ~(stopping = "no" /\ byUser[Head(outbox).user] # {})
        BY <1>17, <2>2 DEF Addressed, Take, NotSending, connVars, netVars
    <2> QED BY <2>1, <2>2
<1>18. ASSUME StopRefuses
       PROVE  Addressed'
    BY <1>18 DEF Addressed, FreeIsClean, IndexesAgree, PicoTypeOK, StopRefuses,
       connVars, netVars
<1>19. ASSUME StopCloses
       PROVE  Addressed'
    BY <1>19 DEF Addressed, FreeIsClean, IndexesAgree, PicoTypeOK, StopCloses
<1>20. ASSUME StopCancels
       PROVE  Addressed'
    BY <1>20 DEF Addressed, FreeIsClean, IndexesAgree, PicoTypeOK, StopCancels,
       connVars, netVars
<1>21. ASSUME UNCHANGED picoVars
       PROVE  Addressed'
    BY <1>21 DEF Addressed, FreeIsClean, IndexesAgree, PicoTypeOK, picoVars, connVars,
       netVars
<1> QED BY <1>1, <1>2, <1>3, <1>4, <1>5, <1>6, <1>7, <1>8, <1>9, <1>10, <1>11, <1>12,
       <1>13, <1>14, <1>15, <1>16, <1>17, <1>18, <1>19, <1>20, <1>21 DEF PicoNext,
       ConnNext, EndsTurn

\* What is put on its way to a connection is for its user.
LEMMA IsolatedStep ==
    ASSUME PicoTypeOK, FreeIsClean, Addressed, Isolated, [PicoNext]_picoVars
    PROVE  Isolated'
<1>1. ASSUME NEW c \in Conns, NEW u \in Users, Dial(c, u)
      PROVE  Isolated'
    BY <1>1 DEF Isolated, Addressed, FreeIsClean, PicoTypeOK, Dial, Goto
<1>2. ASSUME NEW c \in Conns, Accept(c)
      PROVE  Isolated'
    BY <1>2 DEF Isolated, Addressed, FreeIsClean, PicoTypeOK, Accept, Goto, Break
<1>3. ASSUME NEW c \in Conns, Upgrade(c)
      PROVE  Isolated'
    BY <1>3 DEF Isolated, Addressed, FreeIsClean, PicoTypeOK, Upgrade, Goto
<1>4. ASSUME NEW c \in Conns, Register(c)
      PROVE  Isolated'
    <2>1. CASE Cardinality(conns) < MaxConns
        <3>1. /\ place[c] = "upgraded"
              /\ conns' = conns \cup {c}
              /\ byUser' = [byUser EXCEPT ![of[c]] = @ \cup {c}]
              /\ place' = [place EXCEPT ![c] = "top"]
              /\ UNCHANGED <<stopping, link, of, closed, late, asking, toServer,
                 toClient, lock,
                             outbox, sending>>
            BY <1>4, <2>1 DEF Register, Goto
        <3> QED BY <1>4, <3>1 DEF Isolated, Addressed, FreeIsClean, PicoTypeOK
    <2>2. CASE ~(Cardinality(conns) < MaxConns)
        BY <1>4, <2>2 DEF Isolated, Addressed, FreeIsClean, PicoTypeOK, Register, Goto,
           Break
    <2> QED BY <2>1, <2>2
<1>5. ASSUME NEW c \in Conns, LoopTop(c)
      PROVE  Isolated'
    BY <1>5 DEF Isolated, Addressed, FreeIsClean, PicoTypeOK, LoopTop, CloseConn, Goto,
       Break
<1>6. ASSUME NEW c \in Conns, Read(c)
      PROVE  Isolated'
    BY <1>6 DEF Isolated, Addressed, FreeIsClean, PicoTypeOK, Read, Goto
<1>7. ASSUME NEW c \in Conns, ReadFails(c)
      PROVE  Isolated'
    BY <1>7 DEF Isolated, Addressed, FreeIsClean, PicoTypeOK, ReadFails, CloseConn,
       Goto, Break
<1>8. ASSUME NEW c \in Conns, Late(c)
      PROVE  Isolated'
    BY <1>8 DEF Isolated, Addressed, FreeIsClean, PicoTypeOK, Late, netVars
<1>9. ASSUME NEW c \in Conns, StartTurn(c)
      PROVE  Isolated'
    BY <1>9 DEF Isolated, Addressed, FreeIsClean, PicoTypeOK, StartTurn, Goto, netVars
<1>10. ASSUME NEW c \in Conns, NEW o, EndTurn(c, o)
       PROVE  Isolated'
    BY <1>10 DEF Isolated, Addressed, FreeIsClean, PicoTypeOK, EndTurn, Goto
<1>11. ASSUME NEW c \in Conns, Leave(c)
       PROVE  Isolated'
    BY <1>11 DEF Isolated, Addressed, FreeIsClean, PicoTypeOK, Leave, Goto, netVars
<1>12. ASSUME NEW c \in Conns, Write(c)
       PROVE  Isolated'
    BY <1>12 DEF Isolated, Addressed, FreeIsClean, PicoTypeOK, Write, NotSending,
       connVars
<1>13. ASSUME NEW c \in Conns, HangUp(c)
       PROVE  Isolated'
    BY <1>13 DEF Isolated, Addressed, FreeIsClean, PicoTypeOK, HangUp, Break, connVars
<1>14. ASSUME NEW c \in Conns, Recycle(c)
       PROVE  Isolated'
    BY <1>14 DEF Isolated, Addressed, FreeIsClean, PicoTypeOK, Recycle
<1>15. ASSUME NEW c \in Conns, NEW m \in 1..MaxMsg, ClientSends(c, m)
       PROVE  Isolated'
    BY <1>15 DEF Isolated, Addressed, FreeIsClean, PicoTypeOK, ClientSends, connVars
<1>16. ASSUME NEW c \in Conns, ClientReceives(c)
       PROVE  Isolated'
    BY <1>16 DEF Isolated, Addressed, FreeIsClean, PicoTypeOK, ClientReceives, connVars
<1>17. ASSUME Take
       PROVE  Isolated'
    BY <1>17 DEF Isolated, Addressed, FreeIsClean, PicoTypeOK, Take, NotSending,
       connVars, netVars
<1>18. ASSUME StopRefuses
       PROVE  Isolated'
    BY <1>18 DEF Isolated, Addressed, FreeIsClean, PicoTypeOK, StopRefuses, connVars,
       netVars
<1>19. ASSUME StopCloses
       PROVE  Isolated'
    BY <1>19 DEF Isolated, Addressed, FreeIsClean, PicoTypeOK, StopCloses
<1>20. ASSUME StopCancels
       PROVE  Isolated'
    BY <1>20 DEF Isolated, Addressed, FreeIsClean, PicoTypeOK, StopCancels, connVars,
       netVars
<1>21. ASSUME UNCHANGED picoVars
       PROVE  Isolated'
    BY <1>21 DEF Isolated, Addressed, FreeIsClean, PicoTypeOK, picoVars, connVars,
       netVars
<1> QED BY <1>1, <1>2, <1>3, <1>4, <1>5, <1>6, <1>7, <1>8, <1>9, <1>10, <1>11, <1>12,
       <1>13, <1>14, <1>15, <1>16, <1>17, <1>18, <1>19, <1>20, <1>21 DEF PicoNext,
       ConnNext, EndsTurn

-----------------------------------------------------------------------------
(* Theorems.                                                               *)

\* The invariant holds at the start.
LEMMA PicoInvInit == PicoInit => PicoInv
<1> SUFFICES ASSUME PicoInit PROVE PicoInv
    OBVIOUS
<1>1. PicoTypeOK
    BY TypeInit
<1>2. WithinLimit
    BY FS_EmptySet, PicoChannelAssumption DEF PicoInit, WithinLimit
<1>3. IndexesAgree /\ NoneForgotten
    BY DEF PicoInit, IndexesAgree, NoneForgotten, Serving
<1>4. TurnLocked /\ FreeIsClean /\ Addressed /\ Isolated
    BY DEF PicoInit, TurnLocked, FreeIsClean, Addressed, Isolated, NotSending
<1> QED BY <1>1, <1>2, <1>3, <1>4 DEF PicoInv

\* Every step keeps it.
LEMMA PicoInvStep == PicoInv /\ [PicoNext]_picoVars => PicoInv'
BY TypeStep, ServedStep, IndexStep, LimitStep, LockStep, FreeStep, AddressedStep,
   IsolatedStep DEF PicoInv

\* The inductive invariant.
THEOREM PicoInvariant == PicoSpec => []PicoInv
<1>1. PicoInit => PicoInv
    BY PicoInvInit
<1>2. PicoInv /\ [PicoNext]_picoVars => PicoInv'
    BY PicoInvStep
<1> QED BY <1>1, <1>2, PTL DEF PicoSpec

\* The state keeps its types (PicoChannel and picoConn).
THEOREM PicoTypeCorrect == PicoSpec => []PicoTypeOK
<1>1. PicoInv => PicoTypeOK
    BY DEF PicoInv
<1> QED BY <1>1, PicoInvariant, PTL

\* connections and sessionConnections always hold the same connections.
THEOREM PicoIndexesAgree == PicoSpec => []IndexesAgree
<1>1. PicoInv => IndexesAgree
    BY DEF PicoInv
<1> QED BY <1>1, PicoInvariant, PTL

\* However many upgrades race past the first check, MaxConnections holds.
THEOREM PicoWithinLimit == PicoSpec => []WithinLimit
<1>1. PicoInv => WithinLimit
    BY DEF PicoInv
<1> QED BY <1>1, PicoInvariant, PTL

\* No entry without a read loop, no read loop that Stop misses, and no open link
\* that nobody reads.
THEOREM PicoNoneForgotten == PicoSpec => []NoneForgotten
<1>1. PicoInv => NoneForgotten
    BY DEF PicoInv
<1> QED BY <1>1, PicoInvariant, PTL

\* handleInbound runs one turn of a user at a time.
THEOREM PicoOneTurnPerUser == PicoSpec => []OneTurnPerUser
<1>1. PicoInv => OneTurnPerUser
    BY DEF PicoInv, TurnLocked, OneTurnPerUser
<1> QED BY <1>1, PicoInvariant, PTL

\* broadcastToSession writes a user's answers to that user's connections only.
THEOREM PicoIsolated == PicoSpec => []Isolated
<1>1. PicoInv => Isolated
    BY DEF PicoInv
<1> QED BY <1>1, PicoInvariant, PTL
=============================================================================
