------------------------- MODULE ControlPlaneProofs -------------------------
(***************************************************************************)
(* The registry and the single flight are right for any number of tenants, *)
(* request goroutines, instances, models and configs.                      *)
(***************************************************************************)
EXTENDS ControlPlane, TLAPS

USE RegistryAssumption, ControlPlaneAssumption

-----------------------------------------------------------------------------
(* The initial states.                                                     *)

\* A restarted server is well typed.
LEMMA InitTypeOK == Init => TypeOK
  BY DEF Init, RegistryInit, TypeOK, RegistryTypeOK, Stored, Builds, Workers,
         Places, AllKinds, NoDraft

\* A restarted server satisfies the invariant: nobody is anywhere yet.
LEMMA InitIInv == Init => IInv
<1> SUFFICES ASSUME Init PROVE IInv
  OBVIOUS
<1>1. TypeOK
  BY InitTypeOK
<1>2. Roles /\ SessionHeld /\ Leading /\ Handles /\ Closing
  BY DEF Init, Roles, SessionHeld, Leading, Handles, Closing, ReaperPlaces, Workers
<1>3. Alive /\ RegistryConsistent /\ NoInstanceLost
  BY DEF Init, RegistryInit, Alive, RegistryConsistent, NoInstanceLost, Registered
<1>4. SingleFlight
  BY DEF Init, SingleFlight, Building
<1> QED
  BY <1>1, <1>2, <1>3, <1>4 DEF IInv

-----------------------------------------------------------------------------
(* What the helpers of ControlPlane do to types.                           *)

\* The part of TypeOK about goroutines and their locals.
Goroutines ==
    /\ sessionMu \in [Users -> Threads \cup {NoThread}]
    /\ pc \in [Workers -> Places]
    /\ kind \in [Workers -> AllKinds \cup {"none", "ticker"}]
    /\ user \in [Workers -> Users \cup {NoUser}]
    /\ todo \in [Workers -> SUBSET Users]
    /\ held \in [Workers -> Insts \cup {NoInst}]

\* What a handler leaves behind when it returns.
LEMMA FinishTypes ==
  ASSUME TypeOK, NEW t \in Workers, Finish(t)
  PROVE  Goroutines'
  BY DEF TypeOK, Finish, Goto, Holds, Goroutines, Places, Workers

\* What a caller of RemoveUserAgent leaves behind, whether it goes on or not.
LEMMA RemovedTypes ==
  ASSUME TypeOK, NEW t \in Workers, NEW known, NEW ok, Removed(t, known, ok)
  PROVE  Goroutines'
<1>1. CASE GoesOn(t, known, ok)
  BY <1>1 DEF TypeOK, Removed, Goto, Holds, Goroutines, Places
<1>2. CASE ~GoesOn(t, known, ok)
  BY <1>2, FinishTypes DEF Removed
<1> QED
  BY <1>1, <1>2

\* What a caller of ProcessToAgent leaves behind.
LEMMA AnswerTypes ==
  ASSUME TypeOK, NEW t \in Workers, NEW ok, Answer(t, ok)
  PROVE  Goroutines'
<1>1. CASE kind[t] = "ws" /\ ok
  BY <1>1 DEF TypeOK, Answer, Goto, Holds, Goroutines, Places
<1>2. CASE ~(kind[t] = "ws" /\ ok)
  BY <1>2, FinishTypes DEF Answer
<1> QED
  BY <1>1, <1>2

\* Joiners are sent to a place; the flight is over.
LEMMA FinishFlightTypes ==
  ASSUME TypeOK, NEW t \in Workers, NEW place \in Places, FinishFlight(t, place)
  PROVE  /\ pc' \in [Workers -> Places]
         /\ flight' \in [Users -> Threads \cup {NoThread}]
  BY DEF TypeOK, FinishFlight, Workers

-----------------------------------------------------------------------------
(* Types are preserved.                                                    *)

\* Every step of server.go, pico.go and registry.go preserves the types.
LEMMA NextType ==
  ASSUME IInv, [Next]_vars
  PROVE  TypeOK'
<1> USE DEF IInv, TypeOK, RegistryTypeOK, storeVars, bridgeVars, registryVars,
            At, Goto, Holds, Workers, AllKinds, Places
<1>1. ASSUME NEW t \in Threads, NEW u \in Users, NEW k \in AllKinds, Begin(t, k, u)
      PROVE  TypeOK'
  BY <1>1 DEF Begin, FirstPlace
<1>2. ASSUME NEW t \in Threads, NEW u \in Users, BeginProfile(t, u)
      PROVE  TypeOK'
  BY <1>2 DEF BeginProfile, FirstPlace
<1>3. ASSUME NEW t \in Workers, NEW k \in {"reap", "ticker"}, BeginSweep(t, k)
      PROVE  TypeOK'
  BY <1>3 DEF BeginSweep, FirstPlace, IdleAgents
<1>4. ASSUME NEW t \in Workers, Serve(t)
      PROVE  TypeOK'
  <2>1. CASE LockSession(t)
    BY <1>4, <2>1 DEF LockSession, Roles, ReaperPlaces
  <2>2. CASE Lookup(t)
    BY <1>4, <2>2 DEF Lookup, Registered
  <2>3. CASE Touch(t)
    <3>1. lastUsed' \in [Users -> {"absent", "fresh", "stale"}]
      BY <2>3 DEF Touch, TouchAgent
    <3>2. CASE Leads(t)
      BY <2>3, <3>1, <3>2, FinishFlightTypes DEF Touch, TouchAgent
    <3>3. CASE ~Leads(t)
      BY <2>3, <3>1, <3>3 DEF Touch, TouchAgent
    <3> QED
      BY <3>2, <3>3
  <2>4. CASE EnterFlight(t)
    <3>1. t \in Threads /\ user[t] \in Users
      BY <2>4 DEF EnterFlight, Roles, ReaperPlaces
    <3>2. pc' \in [Workers -> Places]
      BY <2>4 DEF EnterFlight
    <3>3. flight' \in [Users -> Threads \cup {NoThread}]
      BY <2>4, <3>1 DEF EnterFlight
    <3> QED
      BY <2>4, <3>2, <3>3 DEF EnterFlight
  <2>5. CASE LoadRow(t)
    <3>1. CASE row[user[t]] = NoRow
      BY <2>5, <3>1, FinishFlightTypes DEF LoadRow
    <3>2. CASE row[user[t]] # NoRow
      <4>1. user[t] \in Users
        BY <2>5 DEF LoadRow, Roles
      <4>2. <<row[user[t]], NoFile>> \in (Models \cup {NoRow}) \X Stored
        BY <4>1 DEF Stored
      <4>3. draft' \in [Workers -> (Models \cup {NoRow}) \X Stored]
        BY <2>5, <3>2, <4>2 DEF LoadRow
      <4>4. pc' \in [Workers -> Places]
        BY <2>5, <3>2 DEF LoadRow
      <4> QED
        BY <2>5, <3>2, <4>3, <4>4 DEF LoadRow
    <3> QED
      BY <3>1, <3>2
  <2>6. CASE ReadConfig(t)
    <3>1. user[t] \in Users /\ file' \in [Users -> Stored]
      BY <1>4, <2>6 DEF ReadConfig, Roles, Stored
    <3> DEFINE content == IF file[user[t]] = NoFile THEN Template ELSE file[user[t]]
    <3>2. content \in Stored
      BY <3>1 DEF Stored
    <3> HIDE DEF content
    <3>3. CASE /\ draft' = [draft EXCEPT ![t] = <<draft[t][1], content>>]
               /\ Goto(t, "add")
               /\ UNCHANGED flight
      BY <2>6, <3>1, <3>2, <3>3 DEF ReadConfig
    <3>4. CASE FinishFlight(t, "failed") /\ draft' = [draft EXCEPT ![t] = NoDraft]
      BY <2>6, <3>1, <3>4, FinishFlightTypes DEF ReadConfig, Stored, NoDraft
    <3> QED
      BY <2>6, <3>3, <3>4 DEF ReadConfig, content
  <2>7. ASSUME NEW i \in Insts, Materialize(t, i) PROVE TypeOK'
    <3> DEFINE b == [user |-> user[t], model |-> draft[t][1], config |-> draft[t][2],
                     rowAt |-> row[user[t]], fileAt |-> file[user[t]]]
    <3>1. user[t] \in Users /\ draft[t][1] \in Models
      BY <2>7 DEF Materialize, Roles, Leading
    <3>2. b \in Builds
      BY <3>1 DEF Builds
    <3>3. draft' \in [Workers -> (Models \cup {NoRow}) \X Stored]
      BY <2>7 DEF Materialize, NoDraft, Stored
    <3>4. CASE Registered(user[t])
      BY <2>7, <3>3, <3>4, FinishFlightTypes DEF Materialize
    <3>5. CASE ~Registered(user[t])
      <4>1. AddUserAgent(user[t], i, b)
        BY <2>7, <3>5 DEF Materialize
      <4> HIDE DEF b
      <4>2. RegistryTypeOK'
        BY <3>1, <3>2, <4>1 DEF AddUserAgent
      <4>3. pc' \in [Workers -> Places] /\ held' \in [Workers -> Insts \cup {NoInst}]
        BY <2>7, <3>5 DEF Materialize
      <4> QED
        BY <2>7, <3>3, <3>5, <4>2, <4>3 DEF Materialize
    <3> QED
      BY <3>4, <3>5
  <2>8. CASE InitializeMCP(t)
    BY <1>4, <2>8 DEF InitializeMCP, StartMCP, Handles
  <2>9. CASE RegisterTools(t)
    BY <1>4, <2>9 DEF RegisterTools, FinishFlight
  <2>10. CASE Dispatch(t)
    BY <1>4, <2>10 DEF Dispatch, Registered, Roles
  <2>11. CASE TouchForTurn(t)
    BY <1>4, <2>11 DEF TouchForTurn, TouchAgent
  <2>12. CASE StartTurn(t)
    BY <1>4, <2>12 DEF StartTurn
  <2>13. CASE EndTurn(t)
    <3>1. Goroutines'
      BY <2>13, AnswerTypes DEF EndTurn
    <3> QED
      BY <2>13, <3>1 DEF EndTurn, Goroutines
  <2>14. CASE AnswerCommand(t)
    <3>1. Goroutines'
      BY <2>14, AnswerTypes DEF AnswerCommand
    <3> QED
      BY <2>14, <3>1 DEF AnswerCommand, Goroutines
  <2>15. CASE CountTurn(t)
    BY <1>4, <2>15 DEF CountTurn, Finish, Roles
  <2>16. CASE Refuse(t)
    BY <1>4, <2>16 DEF Refuse, Finish
  <2>17. CASE TruncateConfig(t)
    BY <1>4, <2>17 DEF TruncateConfig, Stored
  <2>18. CASE WriteConfig(t)
    BY <1>4, <2>18 DEF WriteConfig, Stored, Roles
  <2>19. CASE SetModel(t)
    <3>1. row' \in [Users -> Models \cup {NoRow}]
      BY <2>19 DEF SetModel
    <3>2. Goroutines'
      BY <2>19, FinishTypes DEF SetModel, Goroutines
    <3> QED
      BY <2>19, <3>1, <3>2 DEF SetModel, Goroutines
  <2>20. CASE InsertUser(t)
    BY <1>4, <2>20 DEF InsertUser, Finish, Stored, Roles
  <2>21. CASE DeleteRow(t)
    BY <1>4, <2>21 DEF DeleteRow, Finish
  <2>22. CASE Unregister(t)
    <3>1. CASE Registered(user[t])
      <4>1. UnregisterAgent(user[t]) /\ Goto(t, "closemcp") /\ Holds(t, agents[user[t]])
            /\ UNCHANGED <<storeVars, flight, counter, profiles, draft, sessionMu, kind, user, todo>>
        BY <2>22, <3>1 DEF Unregister
      <4>2. agents[user[t]] \in Insts \cup {NoInst}
        BY <2>22 DEF Unregister, Roles
      <4> QED
        BY <4>1, <4>2 DEF UnregisterAgent
    <3>2. CASE ~Registered(user[t])
      <4>1. Removed(t, FALSE, FALSE)
            /\ UNCHANGED <<registryVars, storeVars, flight, counter, profiles, draft>>
        BY <2>22, <3>2 DEF Unregister
      <4>2. Goroutines'
        BY <4>1, RemovedTypes
      <4> QED
        BY <4>1, <4>2 DEF Goroutines
    <3> QED
      BY <3>1, <3>2
  <2>23. CASE CloseMCP(t)
    BY <1>4, <2>23 DEF CloseMCP, BeginClose, Closing
  <2>24. CASE CloseInstance(t)
    <3>1. Goroutines'
      BY <2>24, RemovedTypes DEF CloseInstance
    <3> QED
      BY <2>24, <3>1 DEF CloseInstance, FinishClose, Goroutines
  <2>25. CASE Sweep(t)
    <3>1. Goroutines'
      <4>1. CASE Finish(t)
        BY <4>1, FinishTypes
      <4>2. CASE \E u \in todo[t] :
                   /\ user' = [user EXCEPT ![t] = u]
                   /\ todo' = [todo EXCEPT ![t] = @ \ {u}]
                   /\ Goto(t, "unregister")
                   /\ UNCHANGED <<sessionMu, kind, held>>
        BY <4>2 DEF Goroutines
      <4> QED
        BY <2>25, <4>1, <4>2 DEF Sweep
    <3> QED
      BY <2>25, <3>1 DEF Sweep, Goroutines
  <2> QED
    BY <1>4, <2>1, <2>2, <2>3, <2>4, <2>5, <2>6, <2>7, <2>8, <2>9, <2>10, <2>11, <2>12, <2>13,
       <2>14, <2>15, <2>16, <2>17, <2>18, <2>19, <2>20, <2>21, <2>22, <2>23, <2>24, <2>25 DEF Serve
<1>5. ASSUME NEW u \in Users, GrowOld(u)
      PROVE  TypeOK'
  BY <1>5 DEF GrowOld, Age
<1>6. CASE UNCHANGED vars
  BY <1>6 DEF vars
<1> QED
  BY <1>1, <1>2, <1>3, <1>4, <1>5, <1>6 DEF Next

-----------------------------------------------------------------------------
(* Each part of the invariant is preserved.                                *)

\* Only request goroutines materialize, and whoever serves has a tenant.
LEMMA NextRoles ==
  ASSUME IInv, [Next]_vars
  PROVE  Roles'
<1> USE DEF IInv, TypeOK, RegistryTypeOK, storeVars, bridgeVars, registryVars,
            At, Goto, Holds, Workers, AllKinds, Roles, ReaperPlaces
<1>1. ASSUME NEW t \in Threads, NEW u \in Users, NEW k \in AllKinds, Begin(t, k, u)
      PROVE  Roles'
  BY <1>1 DEF Begin, FirstPlace
<1>2. ASSUME NEW t \in Threads, NEW u \in Users, BeginProfile(t, u)
      PROVE  Roles'
  BY <1>2 DEF BeginProfile, FirstPlace
<1>3. ASSUME NEW t \in Threads, BeginSweep(t, "reap")
      PROVE  Roles'
  BY <1>3 DEF BeginSweep, FirstPlace
<1>4. ASSUME BeginSweep(Reaper, "ticker")
      PROVE  Roles'
  BY <1>4 DEF BeginSweep, FirstPlace
<1>5. ASSUME NEW t \in Workers, Serve(t)
      PROVE  Roles'
  <2>1. CASE LockSession(t)
    BY <1>5, <2>1 DEF LockSession
  <2>2. CASE Lookup(t)
    BY <1>5, <2>2 DEF Lookup
  <2>3. CASE Touch(t)
    BY <1>5, <2>3 DEF Touch, TouchAgent, FinishFlight
  <2>4. CASE EnterFlight(t)
    BY <1>5, <2>4 DEF EnterFlight
  <2>5. CASE LoadRow(t)
    BY <1>5, <2>5 DEF LoadRow, FinishFlight
  <2>6. CASE ReadConfig(t)
    BY <1>5, <2>6 DEF ReadConfig, FinishFlight
  <2>7. ASSUME NEW i \in Insts, Materialize(t, i) PROVE Roles'
    <3>1. CASE Registered(user[t])
      BY <1>5, <2>7, <3>1 DEF Materialize, FinishFlight
    <3>2. CASE ~Registered(user[t])
      BY <1>5, <2>7, <3>2 DEF Materialize
    <3> QED
      BY <3>1, <3>2
  <2>8. CASE InitializeMCP(t)
    BY <1>5, <2>8 DEF InitializeMCP, StartMCP
  <2>9. CASE RegisterTools(t)
    BY <1>5, <2>9 DEF RegisterTools, FinishFlight
  <2>10. CASE Dispatch(t)
    BY <1>5, <2>10 DEF Dispatch
  <2>11. CASE TouchForTurn(t)
    BY <1>5, <2>11 DEF TouchForTurn, TouchAgent
  <2>12. CASE StartTurn(t)
    BY <1>5, <2>12 DEF StartTurn
  <2>13. CASE EndTurn(t)
    BY <1>5, <2>13 DEF EndTurn, Answer, Finish
  <2>14. CASE AnswerCommand(t)
    BY <1>5, <2>14 DEF AnswerCommand, Answer, Finish
  <2>15. CASE CountTurn(t)
    BY <1>5, <2>15 DEF CountTurn, Finish
  <2>16. CASE Refuse(t)
    BY <1>5, <2>16 DEF Refuse, Finish
  <2>17. CASE TruncateConfig(t)
    BY <1>5, <2>17 DEF TruncateConfig
  <2>18. CASE WriteConfig(t)
    BY <1>5, <2>18 DEF WriteConfig
  <2>19. CASE SetModel(t)
    <3>1. CASE row[user[t]] = NoRow
      BY <1>5, <2>19, <3>1 DEF SetModel, Finish
    <3>2. CASE row[user[t]] # NoRow
      BY <1>5, <2>19, <3>2 DEF SetModel
    <3> QED
      BY <3>1, <3>2
  <2>20. CASE InsertUser(t)
    BY <1>5, <2>20 DEF InsertUser, Finish
  <2>21. CASE DeleteRow(t)
    BY <1>5, <2>21 DEF DeleteRow, Finish
  <2>22. CASE Unregister(t)
    BY <1>5, <2>22 DEF Unregister, UnregisterAgent, Removed, GoesOn, Finish
  <2>23. CASE CloseMCP(t)
    BY <1>5, <2>23 DEF CloseMCP, BeginClose
  <2>24. CASE CloseInstance(t)
    BY <1>5, <2>24 DEF CloseInstance, FinishClose, Removed, GoesOn, Finish
  <2>25. CASE Sweep(t)
    BY <1>5, <2>25 DEF Sweep, Finish
  <2> QED
    BY <1>5, <2>1, <2>2, <2>3, <2>4, <2>5, <2>6, <2>7, <2>8, <2>9, <2>10, <2>11, <2>12, <2>13,
       <2>14, <2>15, <2>16, <2>17, <2>18, <2>19, <2>20, <2>21, <2>22, <2>23, <2>24, <2>25 DEF Serve
<1>6. ASSUME NEW u \in Users, GrowOld(u)
      PROVE  Roles'
  BY <1>6 DEF GrowOld, Age
<1>7. CASE UNCHANGED vars
  BY <1>7 DEF vars
<1> QED
  BY <1>1, <1>2, <1>3, <1>4, <1>5, <1>6, <1>7 DEF Next

\* Nobody else releases or takes a session's mutex while its holder works.
LEMMA NextSessionHeld ==
  ASSUME IInv, [Next]_vars
  PROVE  SessionHeld'
<1> USE DEF IInv, TypeOK, RegistryTypeOK, storeVars, bridgeVars, registryVars,
            At, Goto, Holds, Workers, AllKinds, Roles, SessionHeld, ReaperPlaces
<1>1. ASSUME NEW t \in Threads, NEW u \in Users, NEW k \in AllKinds, Begin(t, k, u)
      PROVE  SessionHeld'
  BY <1>1 DEF Begin, FirstPlace
<1>2. ASSUME NEW t \in Threads, NEW u \in Users, BeginProfile(t, u)
      PROVE  SessionHeld'
  BY <1>2 DEF BeginProfile, FirstPlace
<1>3. ASSUME NEW t \in Threads, BeginSweep(t, "reap")
      PROVE  SessionHeld'
  BY <1>3 DEF BeginSweep, FirstPlace
<1>4. ASSUME BeginSweep(Reaper, "ticker")
      PROVE  SessionHeld'
  BY <1>4 DEF BeginSweep, FirstPlace
<1>5. ASSUME NEW t \in Workers, Serve(t)
      PROVE  SessionHeld'
  <2>1. CASE LockSession(t)
    BY <1>5, <2>1 DEF LockSession
  <2>2. CASE Lookup(t)
    BY <1>5, <2>2 DEF Lookup
  <2>3. CASE Touch(t)
    BY <1>5, <2>3 DEF Touch, TouchAgent, FinishFlight
  <2>4. CASE EnterFlight(t)
    BY <1>5, <2>4 DEF EnterFlight
  <2>5. CASE LoadRow(t)
    BY <1>5, <2>5 DEF LoadRow, FinishFlight
  <2>6. CASE ReadConfig(t)
    BY <1>5, <2>6 DEF ReadConfig, FinishFlight
  <2>7. ASSUME NEW i \in Insts, Materialize(t, i) PROVE SessionHeld'
    <3>1. CASE Registered(user[t])
      BY <1>5, <2>7, <3>1 DEF Materialize, FinishFlight
    <3>2. CASE ~Registered(user[t])
      BY <1>5, <2>7, <3>2 DEF Materialize, AddUserAgent
    <3> QED
      BY <3>1, <3>2
  <2>8. CASE InitializeMCP(t)
    BY <1>5, <2>8 DEF InitializeMCP, StartMCP
  <2>9. CASE RegisterTools(t)
    BY <1>5, <2>9 DEF RegisterTools, FinishFlight
  <2>10. CASE Dispatch(t)
    BY <1>5, <2>10 DEF Dispatch
  <2>11. CASE TouchForTurn(t)
    BY <1>5, <2>11 DEF TouchForTurn, TouchAgent
  <2>12. CASE StartTurn(t)
    BY <1>5, <2>12 DEF StartTurn
  <2>13. CASE EndTurn(t)
    BY <1>5, <2>13 DEF EndTurn, Answer, Finish
  <2>14. CASE AnswerCommand(t)
    BY <1>5, <2>14 DEF AnswerCommand, Answer, Finish
  <2>15. CASE CountTurn(t)
    BY <1>5, <2>15 DEF CountTurn, Finish
  <2>16. CASE Refuse(t)
    BY <1>5, <2>16 DEF Refuse, Finish
  <2>17. CASE TruncateConfig(t)
    BY <1>5, <2>17 DEF TruncateConfig
  <2>18. CASE WriteConfig(t)
    BY <1>5, <2>18 DEF WriteConfig
  <2>19. CASE SetModel(t)
    BY <1>5, <2>19 DEF SetModel, Finish
  <2>20. CASE InsertUser(t)
    BY <1>5, <2>20 DEF InsertUser, Finish
  <2>21. CASE DeleteRow(t)
    BY <1>5, <2>21 DEF DeleteRow, Finish
  <2>22. CASE Unregister(t)
    BY <1>5, <2>22 DEF Unregister, UnregisterAgent, Removed, GoesOn, Finish
  <2>23. CASE CloseMCP(t)
    BY <1>5, <2>23 DEF CloseMCP, BeginClose
  <2>24. CASE CloseInstance(t)
    BY <1>5, <2>24 DEF CloseInstance, FinishClose, Removed, GoesOn, Finish
  <2>25. CASE Sweep(t)
    BY <1>5, <2>25 DEF Sweep, Finish
  <2> QED
    BY <1>5, <2>1, <2>2, <2>3, <2>4, <2>5, <2>6, <2>7, <2>8, <2>9, <2>10, <2>11, <2>12, <2>13,
       <2>14, <2>15, <2>16, <2>17, <2>18, <2>19, <2>20, <2>21, <2>22, <2>23, <2>24, <2>25 DEF Serve
<1>6. ASSUME NEW u \in Users, GrowOld(u)
      PROVE  SessionHeld'
  BY <1>6 DEF GrowOld, Age
<1>7. CASE UNCHANGED vars
  BY <1>7 DEF vars
<1> QED
  BY <1>1, <1>2, <1>3, <1>4, <1>5, <1>6, <1>7 DEF Next

\* One goroutine at most builds for a tenant, and it leads the flight.
LEMMA NextSingleFlight ==
  ASSUME IInv, [Next]_vars
  PROVE  SingleFlight'
<1> USE DEF IInv, TypeOK, RegistryTypeOK, storeVars, bridgeVars, registryVars,
            At, Goto, Holds, Workers, AllKinds, Roles, Leading, SingleFlight, Building, Leads
<1>1. ASSUME NEW t \in Threads, NEW u \in Users, NEW k \in AllKinds, Begin(t, k, u)
      PROVE  SingleFlight'
  BY <1>1 DEF Begin, FirstPlace
<1>2. ASSUME NEW t \in Threads, NEW u \in Users, BeginProfile(t, u)
      PROVE  SingleFlight'
  BY <1>2 DEF BeginProfile, FirstPlace
<1>3. ASSUME NEW t \in Threads, BeginSweep(t, "reap")
      PROVE  SingleFlight'
  BY <1>3 DEF BeginSweep, FirstPlace
<1>4. ASSUME BeginSweep(Reaper, "ticker")
      PROVE  SingleFlight'
  BY <1>4 DEF BeginSweep, FirstPlace
<1>5. ASSUME NEW t \in Workers, Serve(t)
      PROVE  SingleFlight'
  <2>1. CASE LockSession(t)
    BY <1>5, <2>1 DEF LockSession
  <2>2. CASE Lookup(t)
    BY <1>5, <2>2 DEF Lookup
  <2>3. CASE Touch(t)
    BY <1>5, <2>3 DEF Touch, TouchAgent, FinishFlight
  <2>4. CASE EnterFlight(t)
    BY <1>5, <2>4 DEF EnterFlight
  <2>5. CASE LoadRow(t)
    BY <1>5, <2>5 DEF LoadRow, FinishFlight
  <2>6. CASE ReadConfig(t)
    BY <1>5, <2>6 DEF ReadConfig, FinishFlight
  <2>7. ASSUME NEW i \in Insts, Materialize(t, i) PROVE SingleFlight'
    <3>1. CASE Registered(user[t])
      BY <1>5, <2>7, <3>1 DEF Materialize, FinishFlight
    <3>2. CASE ~Registered(user[t])
      BY <1>5, <2>7, <3>2 DEF Materialize, AddUserAgent
    <3> QED
      BY <3>1, <3>2
  <2>8. CASE InitializeMCP(t)
    BY <1>5, <2>8 DEF InitializeMCP, StartMCP
  <2>9. CASE RegisterTools(t)
    BY <1>5, <2>9 DEF RegisterTools, FinishFlight
  <2>10. CASE Dispatch(t)
    BY <1>5, <2>10 DEF Dispatch
  <2>11. CASE TouchForTurn(t)
    BY <1>5, <2>11 DEF TouchForTurn, TouchAgent
  <2>12. CASE StartTurn(t)
    BY <1>5, <2>12 DEF StartTurn
  <2>13. CASE EndTurn(t)
    BY <1>5, <2>13 DEF EndTurn, Answer, Finish
  <2>14. CASE AnswerCommand(t)
    BY <1>5, <2>14 DEF AnswerCommand, Answer, Finish
  <2>15. CASE CountTurn(t)
    BY <1>5, <2>15 DEF CountTurn, Finish
  <2>16. CASE Refuse(t)
    BY <1>5, <2>16 DEF Refuse, Finish
  <2>17. CASE TruncateConfig(t)
    BY <1>5, <2>17 DEF TruncateConfig
  <2>18. CASE WriteConfig(t)
    BY <1>5, <2>18 DEF WriteConfig
  <2>19. CASE SetModel(t)
    BY <1>5, <2>19 DEF SetModel, Finish
  <2>20. CASE InsertUser(t)
    BY <1>5, <2>20 DEF InsertUser, Finish
  <2>21. CASE DeleteRow(t)
    BY <1>5, <2>21 DEF DeleteRow, Finish
  <2>22. CASE Unregister(t)
    BY <1>5, <2>22 DEF Unregister, UnregisterAgent, Removed, GoesOn, Finish
  <2>23. CASE CloseMCP(t)
    BY <1>5, <2>23 DEF CloseMCP, BeginClose
  <2>24. CASE CloseInstance(t)
    BY <1>5, <2>24 DEF CloseInstance, FinishClose, Removed, GoesOn, Finish
  <2>25. CASE Sweep(t)
    BY <1>5, <2>25 DEF Sweep, Finish
  <2> QED
    BY <1>5, <2>1, <2>2, <2>3, <2>4, <2>5, <2>6, <2>7, <2>8, <2>9, <2>10, <2>11, <2>12, <2>13,
       <2>14, <2>15, <2>16, <2>17, <2>18, <2>19, <2>20, <2>21, <2>22, <2>23, <2>24, <2>25 DEF Serve
<1>6. ASSUME NEW u \in Users, GrowOld(u)
      PROVE  SingleFlight'
  BY <1>6 DEF GrowOld, Age
<1>7. CASE UNCHANGED vars
  BY <1>7 DEF vars
<1> QED
  BY <1>1, <1>2, <1>3, <1>4, <1>5, <1>6, <1>7 DEF Next

\* The leader builds for a tenant that has a row and no instance.
LEMMA NextLeading ==
  ASSUME IInv, [Next]_vars
  PROVE  Leading'
<1> USE DEF IInv, TypeOK, RegistryTypeOK, storeVars, bridgeVars, registryVars,
            At, Goto, Holds, Workers, AllKinds, Roles, Leading, SingleFlight, Building, Leads, Registered
<1>1. ASSUME NEW t \in Threads, NEW u \in Users, NEW k \in AllKinds, Begin(t, k, u)
      PROVE  Leading'
  BY <1>1 DEF Begin, FirstPlace
<1>2. ASSUME NEW t \in Threads, NEW u \in Users, BeginProfile(t, u)
      PROVE  Leading'
  BY <1>2 DEF BeginProfile, FirstPlace
<1>3. ASSUME NEW t \in Threads, BeginSweep(t, "reap")
      PROVE  Leading'
  BY <1>3 DEF BeginSweep, FirstPlace
<1>4. ASSUME BeginSweep(Reaper, "ticker")
      PROVE  Leading'
  BY <1>4 DEF BeginSweep, FirstPlace
<1>5. ASSUME NEW t \in Workers, Serve(t)
      PROVE  Leading'
  <2>1. CASE LockSession(t)
    BY <1>5, <2>1 DEF LockSession
  <2>2. CASE Lookup(t)
    BY <1>5, <2>2 DEF Lookup
  <2>3. CASE Touch(t)
    BY <1>5, <2>3 DEF Touch, TouchAgent, FinishFlight
  <2>4. CASE EnterFlight(t)
    BY <1>5, <2>4 DEF EnterFlight
  <2>5. CASE LoadRow(t)
    BY <1>5, <2>5 DEF LoadRow, FinishFlight
  <2>6. CASE ReadConfig(t)
    BY <1>5, <2>6 DEF ReadConfig, FinishFlight
  <2>7. ASSUME NEW i \in Insts, Materialize(t, i) PROVE Leading'
    <3>1. CASE Registered(user[t])
      BY <1>5, <2>7, <3>1 DEF Materialize, FinishFlight
    <3>2. CASE ~Registered(user[t])
      BY <1>5, <2>7, <3>2 DEF Materialize, AddUserAgent
    <3> QED
      BY <3>1, <3>2
  <2>8. CASE InitializeMCP(t)
    BY <1>5, <2>8 DEF InitializeMCP, StartMCP
  <2>9. CASE RegisterTools(t)
    BY <1>5, <2>9 DEF RegisterTools, FinishFlight
  <2>10. CASE Dispatch(t)
    BY <1>5, <2>10 DEF Dispatch
  <2>11. CASE TouchForTurn(t)
    BY <1>5, <2>11 DEF TouchForTurn, TouchAgent
  <2>12. CASE StartTurn(t)
    BY <1>5, <2>12 DEF StartTurn
  <2>13. CASE EndTurn(t)
    BY <1>5, <2>13 DEF EndTurn, Answer, Finish
  <2>14. CASE AnswerCommand(t)
    BY <1>5, <2>14 DEF AnswerCommand, Answer, Finish
  <2>15. CASE CountTurn(t)
    BY <1>5, <2>15 DEF CountTurn, Finish
  <2>16. CASE Refuse(t)
    BY <1>5, <2>16 DEF Refuse, Finish
  <2>17. CASE TruncateConfig(t)
    BY <1>5, <2>17 DEF TruncateConfig
  <2>18. CASE WriteConfig(t)
    BY <1>5, <2>18 DEF WriteConfig
  <2>19. CASE SetModel(t)
    BY <1>5, <2>19 DEF SetModel, Finish
  <2>20. CASE InsertUser(t)
    BY <1>5, <2>20 DEF InsertUser, Finish
  <2>21. CASE DeleteRow(t)
    BY <1>5, <2>21 DEF DeleteRow, Finish
  <2>22. CASE Unregister(t)
    BY <1>5, <2>22 DEF Unregister, UnregisterAgent, Removed, GoesOn, Finish
  <2>23. CASE CloseMCP(t)
    BY <1>5, <2>23 DEF CloseMCP, BeginClose
  <2>24. CASE CloseInstance(t)
    BY <1>5, <2>24 DEF CloseInstance, FinishClose, Removed, GoesOn, Finish
  <2>25. CASE Sweep(t)
    BY <1>5, <2>25 DEF Sweep, Finish
  <2> QED
    BY <1>5, <2>1, <2>2, <2>3, <2>4, <2>5, <2>6, <2>7, <2>8, <2>9, <2>10, <2>11, <2>12, <2>13,
       <2>14, <2>15, <2>16, <2>17, <2>18, <2>19, <2>20, <2>21, <2>22, <2>23, <2>24, <2>25 DEF Serve
<1>6. ASSUME NEW u \in Users, GrowOld(u)
      PROVE  Leading'
  BY <1>6 DEF GrowOld, Age
<1>7. CASE UNCHANGED vars
  BY <1>7 DEF vars
<1> QED
  BY <1>1, <1>2, <1>3, <1>4, <1>5, <1>6, <1>7 DEF Next

\* A goroutine that builds on an instance or runs a turn has one.
LEMMA NextHandles ==
  ASSUME IInv, [Next]_vars
  PROVE  Handles'
<1> USE DEF IInv, TypeOK, RegistryTypeOK, storeVars, bridgeVars, registryVars,
            At, Goto, Holds, Workers, AllKinds, Roles, Handles, Registered
<1>1. ASSUME NEW t \in Threads, NEW u \in Users, NEW k \in AllKinds, Begin(t, k, u)
      PROVE  Handles'
  BY <1>1 DEF Begin, FirstPlace
<1>2. ASSUME NEW t \in Threads, NEW u \in Users, BeginProfile(t, u)
      PROVE  Handles'
  BY <1>2 DEF BeginProfile, FirstPlace
<1>3. ASSUME NEW t \in Threads, BeginSweep(t, "reap")
      PROVE  Handles'
  BY <1>3 DEF BeginSweep, FirstPlace
<1>4. ASSUME BeginSweep(Reaper, "ticker")
      PROVE  Handles'
  BY <1>4 DEF BeginSweep, FirstPlace
<1>5. ASSUME NEW t \in Workers, Serve(t)
      PROVE  Handles'
  <2>1. CASE LockSession(t)
    BY <1>5, <2>1 DEF LockSession
  <2>2. CASE Lookup(t)
    BY <1>5, <2>2 DEF Lookup
  <2>3. CASE Touch(t)
    BY <1>5, <2>3 DEF Touch, TouchAgent, FinishFlight
  <2>4. CASE EnterFlight(t)
    BY <1>5, <2>4 DEF EnterFlight
  <2>5. CASE LoadRow(t)
    BY <1>5, <2>5 DEF LoadRow, FinishFlight
  <2>6. CASE ReadConfig(t)
    BY <1>5, <2>6 DEF ReadConfig, FinishFlight
  <2>7. ASSUME NEW i \in Insts, Materialize(t, i) PROVE Handles'
    <3>1. CASE Registered(user[t])
      BY <1>5, <2>7, <3>1 DEF Materialize, FinishFlight
    <3>2. CASE ~Registered(user[t])
      BY <1>5, <2>7, <3>2 DEF Materialize, AddUserAgent
    <3> QED
      BY <3>1, <3>2
  <2>8. CASE InitializeMCP(t)
    BY <1>5, <2>8 DEF InitializeMCP, StartMCP
  <2>9. CASE RegisterTools(t)
    BY <1>5, <2>9 DEF RegisterTools, FinishFlight
  <2>10. CASE Dispatch(t)
    BY <1>5, <2>10 DEF Dispatch
  <2>11. CASE TouchForTurn(t)
    BY <1>5, <2>11 DEF TouchForTurn, TouchAgent
  <2>12. CASE StartTurn(t)
    BY <1>5, <2>12 DEF StartTurn
  <2>13. CASE EndTurn(t)
    BY <1>5, <2>13 DEF EndTurn, Answer, Finish
  <2>14. CASE AnswerCommand(t)
    BY <1>5, <2>14 DEF AnswerCommand, Answer, Finish
  <2>15. CASE CountTurn(t)
    BY <1>5, <2>15 DEF CountTurn, Finish
  <2>16. CASE Refuse(t)
    BY <1>5, <2>16 DEF Refuse, Finish
  <2>17. CASE TruncateConfig(t)
    BY <1>5, <2>17 DEF TruncateConfig
  <2>18. CASE WriteConfig(t)
    BY <1>5, <2>18 DEF WriteConfig
  <2>19. CASE SetModel(t)
    BY <1>5, <2>19 DEF SetModel, Finish
  <2>20. CASE InsertUser(t)
    BY <1>5, <2>20 DEF InsertUser, Finish
  <2>21. CASE DeleteRow(t)
    BY <1>5, <2>21 DEF DeleteRow, Finish
  <2>22. CASE Unregister(t)
    BY <1>5, <2>22 DEF Unregister, UnregisterAgent, Removed, GoesOn, Finish
  <2>23. CASE CloseMCP(t)
    BY <1>5, <2>23 DEF CloseMCP, BeginClose
  <2>24. CASE CloseInstance(t)
    BY <1>5, <2>24 DEF CloseInstance, FinishClose, Removed, GoesOn, Finish
  <2>25. CASE Sweep(t)
    BY <1>5, <2>25 DEF Sweep, Finish
  <2> QED
    BY <1>5, <2>1, <2>2, <2>3, <2>4, <2>5, <2>6, <2>7, <2>8, <2>9, <2>10, <2>11, <2>12, <2>13,
       <2>14, <2>15, <2>16, <2>17, <2>18, <2>19, <2>20, <2>21, <2>22, <2>23, <2>24, <2>25 DEF Serve
<1>6. ASSUME NEW u \in Users, GrowOld(u)
      PROVE  Handles'
  BY <1>6 DEF GrowOld, Age
<1>7. CASE UNCHANGED vars
  BY <1>7 DEF vars
<1> QED
  BY <1>1, <1>2, <1>3, <1>4, <1>5, <1>6, <1>7 DEF Next

-----------------------------------------------------------------------------
(* Most steps leave alone what the closing of instances depends on.        *)

ClosingPlaces == {"closemcp", "close"}

\* The registry keeps its entries and no goroutine begins or ends a Close.
Quiescent ==
    /\ UNCHANGED <<agents, life, built>>
    /\ \A u \in Users : lastUsed'[u] = "absent" <=> lastUsed[u] = "absent"
    /\ \A t \in Workers : pc[t] \in ClosingPlaces \/ pc'[t] \in ClosingPlaces =>
                            pc'[t] = pc[t] /\ held'[t] = held[t]

\* A step that touches neither instances nor their closers preserves all of this.
LEMMA QuiescentKeeps ==
  ASSUME IInv, Quiescent
  PROVE  Closing' /\ Alive' /\ RegistryConsistent' /\ NoInstanceLost'
<1>1. Closing' /\ Alive'
  BY DEF IInv, Quiescent, ClosingPlaces, Closing, Alive
<1>2. RegistryConsistent'
  BY DEF IInv, Quiescent, RegistryConsistent, Registered
<1>3. \A i \in Insts : Closers(i)' = Closers(i)
  BY DEF Quiescent, ClosingPlaces, Closers
<1>4. NoInstanceLost'
  BY <1>3 DEF IInv, Quiescent, NoInstanceLost
<1> QED
  BY <1>1, <1>2, <1>4

\* Whoever is done with RemoveUserAgent is no closer any more and holds no instance.
LEMMA RemovedLeaves ==
  ASSUME TypeOK, NEW t \in Workers, NEW known, NEW ok, Removed(t, known, ok)
  PROVE  \E place \in {"idle", "sweep", "delrow"} :
            /\ pc' = [pc EXCEPT ![t] = place]
            /\ held' = [held EXCEPT ![t] = NoInst]
<1>1. CASE GoesOn(t, known, ok)
  BY <1>1 DEF Removed, Goto, Holds
<1>2. CASE ~GoesOn(t, known, ok)
  BY <1>2 DEF Removed, Finish, Goto, Holds
<1> QED
  BY <1>1, <1>2

\* The parts of IInv that only the makers and closers of instances can disturb.
Kept == Closing /\ Alive /\ RegistryConsistent /\ NoInstanceLost

\* The instance a closer holds is in no map and in nobody else's hands.
LEMMA CloserOwns ==
  ASSUME IInv, NEW t \in Workers, pc[t] \in ClosingPlaces
  PROVE  /\ held[t] \in Insts
         /\ Closers(held[t]) = {t}
         /\ \A u \in Users : agents[u] # held[t]
<1>1. held[t] \in Insts /\ life[held[t]] \in {"open", "closing"}
  BY DEF IInv, Closing, ClosingPlaces
<1>2. t \in Closers(held[t])
  BY DEF Closers, ClosingPlaces
<1> QED
  BY <1>1, <1>2 DEF IInv, NoInstanceLost

\* addUserAgent registers an instance nobody knew.
LEMMA MaterializeKeeps ==
  ASSUME IInv, NEW t \in Workers, NEW i \in Insts, Materialize(t, i), ~Registered(user[t])
  PROVE  Kept'
<1> DEFINE u == user[t]
           b == [user |-> u, model |-> draft[t][1], config |-> draft[t][2],
                 rowAt |-> row[u], fileAt |-> file[u]]
<1>1. u \in Users /\ b \in Builds /\ b.user = u
  BY DEF IInv, TypeOK, Roles, Leading, Materialize, At, Builds
<1>2. AddUserAgent(u, i, b) /\ pc' = [pc EXCEPT ![t] = "mcp"] /\ held' = [held EXCEPT ![t] = i]
  BY DEF Materialize, Goto, Holds
<1>3. /\ life[i] = "closed" /\ pc[t] = "add"
      /\ \A w \in Users : agents[w] # i
      /\ \A s \in Workers : held[s] # i
  BY DEF Materialize, Garbage, At
<1> HIDE DEF u, b
<1> USE DEF IInv, TypeOK, RegistryTypeOK
<1>4. /\ agents' = [agents EXCEPT ![u] = i] /\ life' = [life EXCEPT ![i] = "open"]
      /\ built' = [built EXCEPT ![i] = b] /\ lastUsed' = [lastUsed EXCEPT ![u] = "fresh"]
  BY <1>2 DEF AddUserAgent
<1>5. Closing' /\ Alive'
  BY <1>1, <1>2, <1>3, <1>4 DEF Closing, Alive
<1>6. RegistryConsistent'
  BY <1>1, <1>3, <1>4 DEF RegistryConsistent, Registered
<1>7. \A j \in Insts : Closers(j)' = Closers(j)
  BY <1>2, <1>3 DEF Closers
<1>8. Closers(i) = {}
  BY <1>3 DEF Closers
<1>9. agents[u] = NoInst
  BY DEF Registered, u
<1>10. NoInstanceLost'
  BY <1>1, <1>3, <1>4, <1>7, <1>8, <1>9 DEF NoInstanceLost, Alive, Builds
<1> QED
  BY <1>5, <1>6, <1>10 DEF Kept

\* RemoveUserAgent takes the instance out and becomes its one closer.
LEMMA UnregisterKeeps ==
  ASSUME IInv, NEW t \in Workers, Unregister(t), Registered(user[t])
  PROVE  Kept'
<1> SUFFICES ASSUME NEW u, u = user[t], NEW i, i = agents[u]
             PROVE  Kept'
  OBVIOUS
<1>1. /\ u \in Users /\ i \in Insts /\ pc[t] = "unregister"
      /\ life[i] = "open" /\ built[i].user = u
  BY DEF IInv, TypeOK, RegistryTypeOK, Roles, Unregister, At, Registered, RegistryConsistent
<1>2. UnregisterAgent(u) /\ pc' = [pc EXCEPT ![t] = "closemcp"] /\ held' = [held EXCEPT ![t] = i]
  BY DEF Unregister, Goto, Holds
<1>3. Closers(i) = {}
  BY <1>1 DEF IInv, NoInstanceLost
<1>4. \A w \in Users : agents[w] = i => w = u
  BY <1>1 DEF IInv, RegistryConsistent, Registered
<1> USE DEF IInv, TypeOK, RegistryTypeOK
<1>5. /\ agents' = [agents EXCEPT ![u] = NoInst] /\ lastUsed' = [lastUsed EXCEPT ![u] = "absent"]
      /\ UNCHANGED <<life, built>>
  BY <1>2 DEF UnregisterAgent
<1>6. Closing' /\ Alive'
  BY <1>1, <1>2, <1>5 DEF Closing, Alive
<1>7. RegistryConsistent'
  BY <1>1, <1>5 DEF RegistryConsistent, Registered
<1>8. \A j \in Insts : j # i => Closers(j)' = Closers(j)
  BY <1>1, <1>2 DEF Closers
<1>9. Closers(i)' = {t}
  BY <1>2, <1>3 DEF Closers
<1>10. NoInstanceLost'
  <2> SUFFICES ASSUME NEW j \in Insts, life'[j] \in {"open", "closing"}
               PROVE  \/ agents'[built'[j].user] = j /\ Closers(j)' = {}
                      \/ /\ \A w \in Users : agents'[w] # j
                         /\ \E s \in Closers(j)' : Closers(j)' = {s}
    BY DEF NoInstanceLost
  <2>1. CASE j = i
    BY <1>1, <1>4, <1>5, <1>9, <2>1
  <2>2. CASE j # i
    <3>1. built[j].user \in Users /\ built' = built /\ Closers(j)' = Closers(j)
      BY <1>5, <1>8, <2>2 DEF Alive, Builds
    <3>2. \/ agents[built[j].user] = j /\ Closers(j) = {}
          \/ /\ \A w \in Users : agents[w] # j
             /\ \E s \in Closers(j) : Closers(j) = {s}
      BY <1>5 DEF NoInstanceLost
    <3> QED
      BY <1>1, <1>5, <2>2, <3>1, <3>2
  <2> QED
    BY <2>1, <2>2
<1> QED
  BY <1>6, <1>7, <1>10 DEF Kept

\* Close starts: its instance is registered nowhere.
LEMMA CloseMCPKeeps ==
  ASSUME IInv, NEW t \in Workers, CloseMCP(t)
  PROVE  Kept'
<1> DEFINE i == held[t]
<1>1. i \in Insts /\ Closers(i) = {t} /\ \A u \in Users : agents[u] # i
  BY CloserOwns DEF CloseMCP, At, ClosingPlaces
<1>2. /\ pc[t] = "closemcp" /\ pc' = [pc EXCEPT ![t] = "close"] /\ UNCHANGED held
      /\ life' = [life EXCEPT ![i] = "closing"] /\ UNCHANGED <<agents, lastUsed, built>>
  BY DEF CloseMCP, At, Goto, BeginClose
<1>3. life[i] = "open"
  BY <1>2 DEF IInv, Closing
<1>4. held[t] = i
  OBVIOUS
<1> HIDE DEF i
<1> USE DEF IInv, TypeOK, RegistryTypeOK
<1>5. Closing'
  BY <1>1, <1>2, <1>4 DEF Closing, Closers
<1>6. Alive' /\ RegistryConsistent'
  BY <1>1, <1>2, <1>3 DEF Alive, RegistryConsistent, Registered
<1>7. \A j \in Insts : Closers(j)' = Closers(j)
  BY <1>2 DEF Closers
<1>8. NoInstanceLost'
  <2> SUFFICES ASSUME NEW j \in Insts, life'[j] \in {"open", "closing"}
               PROVE  \/ agents'[built'[j].user] = j /\ Closers(j)' = {}
                      \/ /\ \A u \in Users : agents'[u] # j
                         /\ \E s \in Closers(j)' : Closers(j)' = {s}
    BY DEF NoInstanceLost
  <2>1. CASE j = i
    BY <1>1, <1>2, <1>7, <2>1
  <2>2. CASE j # i
    <3>1. life'[j] = life[j] /\ built' = built /\ agents' = agents /\ Closers(j)' = Closers(j)
      BY <1>2, <1>7, <2>2
    <3>2. \/ agents[built[j].user] = j /\ Closers(j) = {}
          \/ /\ \A u \in Users : agents[u] # j
             /\ \E s \in Closers(j) : Closers(j) = {s}
      BY <3>1 DEF NoInstanceLost
    <3> QED
      BY <3>1, <3>2
  <2> QED
    BY <2>1, <2>2
<1> QED
  BY <1>5, <1>6, <1>8 DEF Kept

\* Close ends: the instance needs nobody any more.
LEMMA CloseInstanceKeeps ==
  ASSUME IInv, NEW t \in Workers, CloseInstance(t)
  PROVE  Kept'
<1> DEFINE i == held[t]
<1>1. i \in Insts /\ Closers(i) = {t} /\ \A u \in Users : agents[u] # i
  BY CloserOwns DEF CloseInstance, At, ClosingPlaces
<1>2. /\ pc[t] = "close" /\ life' = [life EXCEPT ![i] = "closed"]
      /\ built' = [built EXCEPT ![i] = NoBuild] /\ UNCHANGED <<agents, lastUsed>>
  BY DEF CloseInstance, At, FinishClose
<1>3. PICK place \in {"idle", "sweep", "delrow"} :
            /\ pc' = [pc EXCEPT ![t] = place]
            /\ held' = [held EXCEPT ![t] = NoInst]
  BY RemovedLeaves DEF CloseInstance, IInv
<1>4. held[t] = i
  OBVIOUS
<1> HIDE DEF i
<1> USE DEF IInv, TypeOK, RegistryTypeOK
<1>5. Closing'
  BY <1>1, <1>2, <1>3, <1>4 DEF Closing, Closers
<1>6. Alive' /\ RegistryConsistent'
  BY <1>1, <1>2 DEF Alive, RegistryConsistent, Registered
<1>7. \A j \in Insts : j # i => Closers(j)' = Closers(j)
  BY <1>2, <1>3, <1>4 DEF Closers
<1>8. NoInstanceLost'
  BY <1>1, <1>2, <1>7 DEF NoInstanceLost
<1> QED
  BY <1>5, <1>6, <1>8 DEF Kept

\* A step is quiescent, or it is one of the four that make, take out or close an instance.
LEMMA NextStep ==
  ASSUME IInv, [Next]_vars
  PROVE  Quiescent \/ Kept'
<1> USE DEF IInv, TypeOK, RegistryTypeOK, Roles, At, Goto, Holds, Workers, Registered, Leads,
            storeVars, bridgeVars, registryVars, Quiescent, ClosingPlaces
<1>1. ASSUME NEW t \in Threads, NEW u \in Users, NEW k \in AllKinds, Begin(t, k, u)
      PROVE  Quiescent \/ Kept'
  BY <1>1 DEF Begin, FirstPlace, AllKinds
<1>2. ASSUME NEW t \in Threads, NEW u \in Users, BeginProfile(t, u)
      PROVE  Quiescent \/ Kept'
  BY <1>2 DEF BeginProfile, FirstPlace, AllKinds
<1>3. ASSUME NEW t \in Threads, BeginSweep(t, "reap")
      PROVE  Quiescent \/ Kept'
  BY <1>3 DEF BeginSweep, FirstPlace, AllKinds
<1>4. ASSUME BeginSweep(Reaper, "ticker")
      PROVE  Quiescent \/ Kept'
  BY <1>4 DEF BeginSweep, FirstPlace, AllKinds
<1>5. ASSUME NEW t \in Workers, Serve(t)
      PROVE  Quiescent \/ Kept'
  <2>1. CASE LockSession(t)
    BY <1>5, <2>1 DEF LockSession
  <2>2. CASE Lookup(t)
    BY <1>5, <2>2 DEF Lookup
  <2>3. CASE Touch(t)
    BY <1>5, <2>3 DEF Touch, TouchAgent, FinishFlight, RegistryConsistent
  <2>4. CASE EnterFlight(t)
    BY <1>5, <2>4 DEF EnterFlight
  <2>5. CASE LoadRow(t)
    BY <1>5, <2>5 DEF LoadRow, FinishFlight
  <2>6. CASE ReadConfig(t)
    BY <1>5, <2>6 DEF ReadConfig, FinishFlight
  <2>7. ASSUME NEW i \in Insts, Materialize(t, i) PROVE Quiescent \/ Kept'
    <3>1. CASE Registered(user[t])
      <4>1. Quiescent
        BY <2>7, <3>1 DEF Materialize, FinishFlight
      <4> QED
        BY <4>1
    <3>2. CASE ~Registered(user[t])
      BY <2>7, <3>2, MaterializeKeeps
    <3> QED
      BY <3>1, <3>2
  <2>8. CASE InitializeMCP(t)
    BY <1>5, <2>8 DEF InitializeMCP, StartMCP
  <2>9. CASE RegisterTools(t)
    BY <1>5, <2>9 DEF RegisterTools, FinishFlight
  <2>10. CASE Dispatch(t)
    BY <1>5, <2>10 DEF Dispatch
  <2>11. CASE TouchForTurn(t)
    BY <1>5, <2>11 DEF TouchForTurn, TouchAgent, RegistryConsistent
  <2>12. CASE StartTurn(t)
    BY <1>5, <2>12 DEF StartTurn
  <2>13. CASE EndTurn(t)
    BY <1>5, <2>13 DEF EndTurn, Answer, Finish
  <2>14. CASE AnswerCommand(t)
    BY <1>5, <2>14 DEF AnswerCommand, Answer, Finish
  <2>15. CASE CountTurn(t)
    BY <1>5, <2>15 DEF CountTurn, Finish
  <2>16. CASE Refuse(t)
    BY <1>5, <2>16 DEF Refuse, Finish
  <2>17. CASE TruncateConfig(t)
    BY <1>5, <2>17 DEF TruncateConfig
  <2>18. CASE WriteConfig(t)
    BY <1>5, <2>18 DEF WriteConfig
  <2>19. CASE SetModel(t)
    BY <1>5, <2>19 DEF SetModel, Finish
  <2>20. CASE InsertUser(t)
    BY <1>5, <2>20 DEF InsertUser, Finish
  <2>21. CASE DeleteRow(t)
    BY <1>5, <2>21 DEF DeleteRow, Finish
  <2>22. CASE Unregister(t)
    <3>1. CASE Registered(user[t])
      BY <2>22, <3>1, UnregisterKeeps
    <3>2. CASE ~Registered(user[t])
      <4>1. UNCHANGED registryVars /\ Removed(t, FALSE, FALSE) /\ pc[t] = "unregister"
        BY <2>22, <3>2 DEF Unregister
      <4>2. PICK place \in {"idle", "sweep", "delrow"} :
                  /\ pc' = [pc EXCEPT ![t] = place]
                  /\ held' = [held EXCEPT ![t] = NoInst]
        BY <4>1, RemovedLeaves
      <4>3. Quiescent
        BY <4>1, <4>2
      <4> QED
        BY <4>3
    <3> QED
      BY <3>1, <3>2
  <2>23. CASE CloseMCP(t)
    BY <2>23, CloseMCPKeeps
  <2>24. CASE CloseInstance(t)
    BY <2>24, CloseInstanceKeeps
  <2>25. CASE Sweep(t)
    BY <1>5, <2>25 DEF Sweep, Finish
  <2> QED
    BY <1>5, <2>1, <2>2, <2>3, <2>4, <2>5, <2>6, <2>7, <2>8, <2>9, <2>10, <2>11, <2>12, <2>13,
       <2>14, <2>15, <2>16, <2>17, <2>18, <2>19, <2>20, <2>21, <2>22, <2>23, <2>24, <2>25 DEF Serve
<1>6. ASSUME NEW u \in Users, GrowOld(u)
      PROVE  Quiescent \/ Kept'
  BY <1>6 DEF GrowOld, Age
<1>7. CASE UNCHANGED vars
  BY <1>7 DEF vars
<1> QED
  BY <1>1, <1>2, <1>3, <1>4, <1>5, <1>6, <1>7 DEF Next

-----------------------------------------------------------------------------
(* The theorems.                                                           *)

\* The invariant is inductive.
LEMMA NextIInv ==
  ASSUME IInv, [Next]_vars
  PROVE  IInv'
<1>1. Kept'
  BY NextStep, QuiescentKeeps DEF Kept
<1> QED
  BY <1>1, NextType, NextRoles, NextSessionHeld, NextLeading, NextHandles, NextSingleFlight DEF IInv, Kept

\* The inductive invariant holds in every reachable state.
THEOREM Invariance == Spec => []IInv
<1>1. Init => IInv
  BY InitIInv
<1>2. IInv /\ [Next]_vars => IInv'
  BY NextIInv
<1> QED
  BY <1>1, <1>2, PTL DEF Spec

\* Every variable keeps its type, whatever the numbers of tenants and goroutines.
THEOREM TypeCorrect == Spec => []TypeOK
<1>1. IInv => TypeOK
  BY DEF IInv
<1> QED
  BY <1>1, Invariance, PTL

\* registry.go: what GetAgent hands out is open, is its tenant's own, and is known
\* to the reaper.
THEOREM RegistryIsConsistent == Spec => []RegistryConsistent
<1>1. IInv => RegistryConsistent
  BY DEF IInv
<1> QED
  BY <1>1, Invariance, PTL

\* server.go, ensureUserAgent: any number of concurrent first messages builds one
\* instance, and none of them is answered "already registered".
THEOREM OneFlight == Spec => []SingleFlight
<1>1. IInv => SingleFlight
  BY DEF IInv
<1> QED
  BY <1>1, Invariance, PTL

\* registry.go, RemoveUserAgent: an instance is registered or is being closed, by
\* one goroutine; however many sweeps, settings updates and deletions meet.
THEOREM NothingLost == Spec => []NoInstanceLost
<1>1. IInv => NoInstanceLost
  BY DEF IInv
<1> QED
  BY <1>1, Invariance, PTL

\* pico.go, handleInbound: turns of one WebSocket session never overlap.
THEOREM SessionsAreSerial == Spec => []WsSerial
<1>1. IInv => WsSerial
  BY DEF IInv, TypeOK, Roles, SessionHeld, WsSerial, Workers
<1> QED
  BY <1>1, Invariance, PTL

\* Only CloseInstance closes, and it waits for the turns on its instance.
LEMMA NextUncut ==
  ASSUME IInv, [Next]_vars
  PROVE  Uncut
<1> USE DEF IInv, registryVars, Uncut
<1>1. ASSUME NEW t \in Threads, NEW u \in Users, NEW k \in AllKinds, Begin(t, k, u)
      PROVE  Uncut
  BY <1>1 DEF Begin, FirstPlace
<1>2. ASSUME NEW t \in Threads, NEW u \in Users, BeginProfile(t, u)
      PROVE  Uncut
  BY <1>2 DEF BeginProfile, FirstPlace
<1>3. ASSUME NEW t \in Threads, BeginSweep(t, "reap")
      PROVE  Uncut
  BY <1>3 DEF BeginSweep, FirstPlace
<1>4. ASSUME BeginSweep(Reaper, "ticker")
      PROVE  Uncut
  BY <1>4 DEF BeginSweep, FirstPlace
<1>5. ASSUME NEW t \in Workers, Serve(t)
      PROVE  Uncut
  <2>1. CASE LockSession(t)
    BY <1>5, <2>1 DEF LockSession
  <2>2. CASE Lookup(t)
    BY <1>5, <2>2 DEF Lookup
  <2>3. CASE Touch(t)
    BY <1>5, <2>3 DEF Touch, TouchAgent, FinishFlight
  <2>4. CASE EnterFlight(t)
    BY <1>5, <2>4 DEF EnterFlight
  <2>5. CASE LoadRow(t)
    BY <1>5, <2>5 DEF LoadRow, FinishFlight
  <2>6. CASE ReadConfig(t)
    BY <1>5, <2>6 DEF ReadConfig, FinishFlight
  <2>7. ASSUME NEW i \in Insts, Materialize(t, i) PROVE Uncut
    BY <2>7 DEF Materialize, AddUserAgent, Garbage, Handles, TypeOK, RegistryTypeOK
  <2>8. CASE InitializeMCP(t)
    BY <1>5, <2>8 DEF InitializeMCP, StartMCP
  <2>9. CASE RegisterTools(t)
    BY <1>5, <2>9 DEF RegisterTools, FinishFlight
  <2>10. CASE Dispatch(t)
    BY <1>5, <2>10 DEF Dispatch
  <2>11. CASE TouchForTurn(t)
    BY <1>5, <2>11 DEF TouchForTurn, TouchAgent
  <2>12. CASE StartTurn(t)
    BY <1>5, <2>12 DEF StartTurn
  <2>13. CASE EndTurn(t)
    BY <1>5, <2>13 DEF EndTurn, Answer, Finish
  <2>14. CASE AnswerCommand(t)
    BY <1>5, <2>14 DEF AnswerCommand, Answer, Finish
  <2>15. CASE CountTurn(t)
    BY <1>5, <2>15 DEF CountTurn, Finish
  <2>16. CASE Refuse(t)
    BY <1>5, <2>16 DEF Refuse, Finish
  <2>17. CASE TruncateConfig(t)
    BY <1>5, <2>17 DEF TruncateConfig
  <2>18. CASE WriteConfig(t)
    BY <1>5, <2>18 DEF WriteConfig
  <2>19. CASE SetModel(t)
    BY <1>5, <2>19 DEF SetModel, Finish
  <2>20. CASE InsertUser(t)
    BY <1>5, <2>20 DEF InsertUser, Finish
  <2>21. CASE DeleteRow(t)
    BY <1>5, <2>21 DEF DeleteRow, Finish
  <2>22. CASE Unregister(t)
    BY <1>5, <2>22 DEF Unregister, UnregisterAgent, Removed, GoesOn, Finish
  <2>23. CASE CloseMCP(t)
    BY <1>5, <2>23 DEF CloseMCP, BeginClose
  <2>24. CASE CloseInstance(t)
    BY <2>24 DEF CloseInstance, FinishClose, Readers, TypeOK, RegistryTypeOK
  <2>25. CASE Sweep(t)
    BY <1>5, <2>25 DEF Sweep, Finish
  <2> QED
    BY <1>5, <2>1, <2>2, <2>3, <2>4, <2>5, <2>6, <2>7, <2>8, <2>9, <2>10, <2>11, <2>12, <2>13,
       <2>14, <2>15, <2>16, <2>17, <2>18, <2>19, <2>20, <2>21, <2>22, <2>23, <2>24, <2>25 DEF Serve
<1>6. ASSUME NEW u \in Users, GrowOld(u)
      PROVE  Uncut
  BY <1>6 DEF GrowOld, Age
<1>7. CASE UNCHANGED vars
  BY <1>7 DEF vars
<1> QED
  BY <1>1, <1>2, <1>3, <1>4, <1>5, <1>6, <1>7 DEF Next

\* turn_coord.go and instance.go: Close waits for the turns on its instance.
THEOREM TurnsAreWhole == Spec => TurnNotCut
<1>1. IInv /\ [Next]_vars => [Uncut]_vars
  BY NextUncut
<1> QED
  BY <1>1, Invariance, PTL DEF Spec, TurnNotCut

-----------------------------------------------------------------------------
(* The control plane implements the pool of agents.                        *)

\* The instance on which each goroutine runs a turn, as AgentPool sees it.
Using == [t \in Workers |-> IF pc[t] = "turn" THEN held[t] ELSE NoInst]

\* A step between the pool's operations: no instance changes its state or its
\* tenant, and no turn begins, ends or moves to another instance.
BesidePool ==
    /\ UNCHANGED <<agents, life>>
    /\ \A t \in Workers : pc[t] = "turn" \/ pc'[t] = "turn" =>
                            pc'[t] = pc[t] /\ held'[t] = held[t]

\* Such a step is a stutter of the pool.
LEMMA BesideStutters ==
  ASSUME BesidePool
  PROVE  UNCHANGED Pool!vars
<1>1. Using' = Using
  BY DEF BesidePool, Using
<1> QED
  BY <1>1 DEF BesidePool, Using, Pool!vars

\* A restarted server has an empty pool.
LEMMA InitPool == Init => Pool!Init
<1> SUFFICES ASSUME Init PROVE Pool!Init
  OBVIOUS
<1>1. agents = [u \in Users |-> NoInst]
  BY DEF Init, RegistryInit
<1>2. \A i \in Insts : life[i] = "closed"
  BY DEF Init, RegistryInit
<1>3. \A t \in Workers : pc[t] = "idle"
  BY DEF Init
<1> QED
  BY <1>1, <1>2, <1>3 DEF Pool!Init

\* addUserAgent provides a tenant that has no instance with a new one.
LEMMA MaterializeProvides ==
  ASSUME IInv, NEW t \in Workers, NEW i \in Insts, Materialize(t, i), ~Registered(user[t])
  PROVE  Pool!Next
<1> SUFFICES ASSUME NEW u, u = user[t]
             PROVE  Pool!Next
  OBVIOUS
<1>1. /\ u \in Users /\ agents[u] = NoInst /\ pc[t] = "add" /\ life[i] = "closed"
      /\ \A w \in Users : agents[w] # i
      /\ \A s \in Workers : held[s] # i
  BY DEF IInv, Roles, Materialize, At, Garbage, Registered
<1>2. /\ agents' = [agents EXCEPT ![u] = i] /\ life' = [life EXCEPT ![i] = "open"]
      /\ pc' = [pc EXCEPT ![t] = "mcp"] /\ held' = [held EXCEPT ![t] = i]
  BY DEF Materialize, AddUserAgent, Goto, Holds
<1> USE RegistryAssumption DEF IInv, TypeOK, RegistryTypeOK
<1>3. Pool!Free(i)
  BY <1>1 DEF Pool!Free
<1>4. {j \in Insts : life[j] = "open" /\ \A w \in Users : agents[w] # j}'
        = {j \in Insts : life[j] = "open" /\ \A w \in Users : agents[w] # j}
  <2> SUFFICES ASSUME NEW j \in Insts
               PROVE  life'[j] = "open" /\ (\A w \in Users : agents'[w] # j)
                        <=> life[j] = "open" /\ (\A w \in Users : agents[w] # j)
    OBVIOUS
  <2>1. CASE j = i
    BY <1>1, <1>2, <2>1
  <2>2. CASE j # i
    BY <1>1, <1>2, <2>2
  <2> QED
    BY <2>1, <2>2
<1>5. {j \in Insts : life[j] = "closing"}' = {j \in Insts : life[j] = "closing"}
  BY <1>1, <1>2
<1>6. Using' = Using
  BY <1>1, <1>2 DEF Using
<1>7. Pool!Provide(u, i)
  BY <1>1, <1>2, <1>3, <1>4, <1>5, <1>6 DEF Pool!Provide, Using
<1> QED
  BY <1>1, <1>7 DEF Pool!Next

\* RemoveUserAgent, the locked half, retires the tenant's instance.
LEMMA UnregisterRetires ==
  ASSUME IInv, NEW t \in Workers, Unregister(t), Registered(user[t])
  PROVE  Pool!Next
<1> SUFFICES ASSUME NEW u, u = user[t], NEW i, i = agents[u]
             PROVE  Pool!Next
  OBVIOUS
<1>1. /\ u \in Users /\ i \in Insts /\ i # NoInst /\ pc[t] = "unregister"
      /\ life[i] = "open" /\ built[i].user = u
  BY DEF IInv, TypeOK, RegistryTypeOK, Roles, Unregister, At, Registered, RegistryConsistent
<1>2. \A w \in Users : agents[w] = i => w = u
  BY <1>1 DEF IInv, RegistryConsistent, Registered
<1>3. /\ agents' = [agents EXCEPT ![u] = NoInst] /\ UNCHANGED life
      /\ pc' = [pc EXCEPT ![t] = "closemcp"] /\ held' = [held EXCEPT ![t] = i]
  BY DEF Unregister, UnregisterAgent, Goto, Holds, Registered
<1> USE RegistryAssumption DEF IInv, TypeOK, RegistryTypeOK
<1>4. {j \in Insts : life[j] = "open" /\ \A w \in Users : agents[w] # j}'
        = {j \in Insts : life[j] = "open" /\ \A w \in Users : agents[w] # j} \cup {agents[u]}
  <2>1. ASSUME NEW j \in Insts
        PROVE  life'[j] = "open" /\ (\A w \in Users : agents'[w] # j)
                 <=> (life[j] = "open" /\ \A w \in Users : agents[w] # j) \/ j = i
    <3>1. CASE j = i
      BY <1>1, <1>2, <1>3, <3>1
    <3>2. CASE j # i
      BY <1>1, <1>3, <3>2
    <3> QED
      BY <3>1, <3>2
  <2> QED
    BY <1>1, <2>1
<1>5. Using' = Using
  BY <1>1, <1>3 DEF Using
<1>6. Pool!Retire(u)
  BY <1>1, <1>3, <1>4, <1>5 DEF Pool!Retire, Using
<1> QED
  BY <1>1, <1>6 DEF Pool!Next

\* CloseMCP, and the Lock that waits, drain the instance.
LEMMA CloseMCPDrains ==
  ASSUME IInv, NEW t \in Workers, CloseMCP(t)
  PROVE  Pool!Next
<1> SUFFICES ASSUME NEW i, i = held[t]
             PROVE  Pool!Next
  OBVIOUS
<1>1. i \in Insts /\ \A u \in Users : agents[u] # i
  BY CloserOwns DEF CloseMCP, At, ClosingPlaces
<1>2. /\ pc[t] = "closemcp" /\ pc' = [pc EXCEPT ![t] = "close"] /\ UNCHANGED held
      /\ life' = [life EXCEPT ![i] = "closing"] /\ UNCHANGED agents
  BY DEF CloseMCP, At, Goto, BeginClose
<1>3. life[i] = "open"
  BY <1>2 DEF IInv, Closing
<1> USE DEF IInv, TypeOK, RegistryTypeOK
<1>4. {j \in Insts : life[j] = "open" /\ \A w \in Users : agents[w] # j}'
        = {j \in Insts : life[j] = "open" /\ \A w \in Users : agents[w] # j} \ {i}
  BY <1>1, <1>2
<1>5. {j \in Insts : life[j] = "closing"}' = {j \in Insts : life[j] = "closing"} \cup {i}
  BY <1>1, <1>2
<1>6. Using' = Using
  BY <1>2 DEF Using
<1>7. Pool!Drain(i)
  BY <1>1, <1>2, <1>3, <1>4, <1>5, <1>6 DEF Pool!Drain, Using
<1> QED
  BY <1>1, <1>7 DEF Pool!Next

\* Close, once it has modelMu, closes an instance on which no turn runs.
LEMMA CloseInstanceCloses ==
  ASSUME IInv, NEW t \in Workers, CloseInstance(t)
  PROVE  Pool!Next
<1> SUFFICES ASSUME NEW i, i = held[t]
             PROVE  Pool!Next
  OBVIOUS
<1>1. i \in Insts
  BY CloserOwns DEF CloseInstance, At, ClosingPlaces
<1>2. /\ pc[t] = "close" /\ Readers(i) = {}
      /\ life' = [life EXCEPT ![i] = "closed"] /\ UNCHANGED agents
  BY DEF CloseInstance, At, FinishClose
<1>3. life[i] = "closing"
  BY <1>2 DEF IInv, Closing
<1>4. PICK place \in {"idle", "sweep", "delrow"} :
            /\ pc' = [pc EXCEPT ![t] = place]
            /\ held' = [held EXCEPT ![t] = NoInst]
  BY RemovedLeaves DEF CloseInstance, IInv
<1> USE RegistryAssumption DEF IInv, TypeOK, RegistryTypeOK
<1>5. \A s \in Workers : Using[s] # i
  BY <1>1, <1>2 DEF Using, Readers
<1>6. {j \in Insts : life[j] = "open" /\ \A w \in Users : agents[w] # j}'
        = {j \in Insts : life[j] = "open" /\ \A w \in Users : agents[w] # j}
  BY <1>1, <1>2, <1>3
<1>7. {j \in Insts : life[j] = "closing"}' = {j \in Insts : life[j] = "closing"} \ {i}
  BY <1>1, <1>2
<1>8. Using' = Using
  BY <1>2, <1>4 DEF Using
<1>9. Pool!Close(i)
  BY <1>1, <1>2, <1>3, <1>5, <1>6, <1>7, <1>8 DEF Pool!Close, Using
<1> QED
  BY <1>1, <1>9 DEF Pool!Next

\* A turn begins on an instance whose modelMu has no writer waiting.
LEMMA StartTurnBegins ==
  ASSUME IInv, NEW t \in Workers, StartTurn(t)
  PROVE  Pool!Next
<1> SUFFICES ASSUME NEW i, i = held[t]
             PROVE  Pool!Next
  OBVIOUS
<1>1. /\ pc[t] = "rlock" /\ life[i] # "closing" /\ i \in Insts
      /\ pc' = [pc EXCEPT ![t] = "turn"] /\ UNCHANGED <<agents, life, held>>
  BY DEF IInv, Handles, StartTurn, At, Goto, Readable, registryVars
<1>2. Using[t] = NoInst /\ Using' = [Using EXCEPT ![t] = i]
  BY <1>1 DEF IInv, TypeOK, Using
<1>3. Pool!BeginTurn(t, i)
  BY <1>1, <1>2 DEF Pool!BeginTurn, Using
<1> QED
  BY <1>1, <1>3 DEF Pool!Next

\* The end of a turn, whatever its goroutine does next.
LEMMA EndTurnEnds ==
  ASSUME IInv, NEW t \in Workers, EndTurn(t)
  PROVE  Pool!Next
<1>1. /\ pc[t] = "turn" /\ held[t] \in Insts /\ UNCHANGED <<agents, life>>
  BY DEF IInv, Handles, EndTurn, At, registryVars
<1>2. PICK place \in {"idle", "profile"} :
            pc' = [pc EXCEPT ![t] = place] /\ held' = [held EXCEPT ![t] = NoInst]
  BY DEF EndTurn, Answer, Finish, Goto, Holds
<1>3. Using[t] # NoInst /\ Using' = [Using EXCEPT ![t] = NoInst]
  BY <1>1, <1>2, RegistryAssumption DEF IInv, TypeOK, Using
<1>4. Pool!EndTurn(t)
  BY <1>1, <1>3 DEF Pool!EndTurn, Using
<1> QED
  BY <1>4 DEF Pool!Next

\* Every step of the control plane is a step of the pool or beside it.
LEMMA NextPool ==
  ASSUME IInv, [Next]_vars
  PROVE  [Pool!Next]_Pool!vars
<1> SUFFICES Pool!Next \/ BesidePool
  BY BesideStutters
<1> USE DEF IInv, TypeOK, RegistryTypeOK, At, Goto, Holds, storeVars, bridgeVars, registryVars,
            BesidePool
<1>1. ASSUME NEW t \in Threads, NEW u \in Users, NEW k \in AllKinds, Begin(t, k, u)
      PROVE  BesidePool
  BY <1>1 DEF Begin, FirstPlace, AllKinds
<1>2. ASSUME NEW t \in Threads, NEW u \in Users, BeginProfile(t, u)
      PROVE  BesidePool
  BY <1>2 DEF BeginProfile, FirstPlace
<1>3. ASSUME NEW t \in Threads, BeginSweep(t, "reap")
      PROVE  BesidePool
  BY <1>3 DEF BeginSweep, FirstPlace
<1>4. ASSUME BeginSweep(Reaper, "ticker")
      PROVE  BesidePool
  BY <1>4 DEF BeginSweep, FirstPlace
<1>5. ASSUME NEW t \in Workers, Serve(t)
      PROVE  Pool!Next \/ BesidePool
  <2>1. CASE LockSession(t)
    BY <1>5, <2>1 DEF LockSession
  <2>2. CASE Lookup(t)
    BY <1>5, <2>2 DEF Lookup
  <2>3. CASE Touch(t)
    BY <1>5, <2>3 DEF Touch, TouchAgent, FinishFlight
  <2>4. CASE EnterFlight(t)
    BY <1>5, <2>4 DEF EnterFlight
  <2>5. CASE LoadRow(t)
    BY <1>5, <2>5 DEF LoadRow, FinishFlight
  <2>6. CASE ReadConfig(t)
    BY <1>5, <2>6 DEF ReadConfig, FinishFlight
  <2>7. ASSUME NEW i \in Insts, Materialize(t, i) PROVE Pool!Next \/ BesidePool
    <3>1. CASE Registered(user[t])
      <4>1. BesidePool
        BY <2>7, <3>1 DEF Materialize, FinishFlight
      <4> QED
        BY <4>1
    <3>2. CASE ~Registered(user[t])
      BY <2>7, <3>2, MaterializeProvides
    <3> QED
      BY <3>1, <3>2
  <2>8. CASE InitializeMCP(t)
    BY <1>5, <2>8 DEF InitializeMCP, StartMCP
  <2>9. CASE RegisterTools(t)
    BY <1>5, <2>9 DEF RegisterTools, FinishFlight
  <2>10. CASE Dispatch(t)
    BY <1>5, <2>10 DEF Dispatch
  <2>11. CASE TouchForTurn(t)
    BY <1>5, <2>11 DEF TouchForTurn, TouchAgent
  <2>12. CASE StartTurn(t)
    BY <2>12, StartTurnBegins
  <2>13. CASE EndTurn(t)
    BY <2>13, EndTurnEnds
  <2>14. CASE AnswerCommand(t)
    BY <1>5, <2>14 DEF AnswerCommand, Answer, Finish
  <2>15. CASE CountTurn(t)
    BY <1>5, <2>15 DEF CountTurn, Finish
  <2>16. CASE Refuse(t)
    BY <1>5, <2>16 DEF Refuse, Finish
  <2>17. CASE TruncateConfig(t)
    BY <1>5, <2>17 DEF TruncateConfig
  <2>18. CASE WriteConfig(t)
    BY <1>5, <2>18 DEF WriteConfig
  <2>19. CASE SetModel(t)
    BY <1>5, <2>19 DEF SetModel, Finish
  <2>20. CASE InsertUser(t)
    BY <1>5, <2>20 DEF InsertUser, Finish
  <2>21. CASE DeleteRow(t)
    BY <1>5, <2>21 DEF DeleteRow, Finish
  <2>22. CASE Unregister(t)
    <3>1. CASE Registered(user[t])
      BY <2>22, <3>1, UnregisterRetires
    <3>2. CASE ~Registered(user[t])
      <4>1. UNCHANGED registryVars /\ Removed(t, FALSE, FALSE) /\ pc[t] = "unregister"
        BY <2>22, <3>2 DEF Unregister
      <4>2. PICK place \in {"idle", "sweep", "delrow"} :
                  /\ pc' = [pc EXCEPT ![t] = place]
                  /\ held' = [held EXCEPT ![t] = NoInst]
        BY <4>1, RemovedLeaves
      <4>3. BesidePool
        BY <4>1, <4>2
      <4> QED
        BY <4>3
    <3> QED
      BY <3>1, <3>2
  <2>23. CASE CloseMCP(t)
    BY <2>23, CloseMCPDrains
  <2>24. CASE CloseInstance(t)
    BY <2>24, CloseInstanceCloses
  <2>25. CASE Sweep(t)
    BY <1>5, <2>25 DEF Sweep, Finish
  <2> QED
    BY <1>5, <2>1, <2>2, <2>3, <2>4, <2>5, <2>6, <2>7, <2>8, <2>9, <2>10, <2>11, <2>12, <2>13,
       <2>14, <2>15, <2>16, <2>17, <2>18, <2>19, <2>20, <2>21, <2>22, <2>23, <2>24, <2>25 DEF Serve
<1>6. ASSUME NEW u \in Users, GrowOld(u)
      PROVE  BesidePool
  BY <1>6 DEF GrowOld, Age
<1>7. CASE UNCHANGED vars
  BY <1>7 DEF vars
<1> QED
  BY <1>1, <1>2, <1>3, <1>4, <1>5, <1>6, <1>7 DEF Next

\* registry.go, instance.go and turn_coord.go together are the pool: one instance a
\* tenant, closed once, after it left the registry and after its turns.
THEOREM PoolImplemented == Spec => PoolAsSpecified
<1>1. Init => Pool!Init
  BY InitPool
<1>2. IInv /\ [Next]_vars => [Pool!Next]_Pool!vars
  BY NextPool
<1> QED
  BY <1>1, <1>2, Invariance, PTL DEF Spec, PoolAsSpecified, Pool!Spec

=============================================================================
