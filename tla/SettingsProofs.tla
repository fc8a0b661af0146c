--------------------------- MODULE SettingsProofs ---------------------------
(***************************************************************************)
(* As long as no user is deleted, an update of a tenant's settings takes   *)
(* down the instance that was registered before it, for any number of      *)
(* tenants, goroutines, models and configs.  (DELETE drops the instance    *)
(* before the row, so that a message in between builds one of a tenant     *)
(* that is about to lose its row.)                                         *)
(***************************************************************************)
EXTENDS ControlPlaneProofs

-----------------------------------------------------------------------------
(* The inductive invariant, beside IInv.                                   *)

\* Who writes settings is a settings handler, and nobody deletes a user.
Writers ==
    \A t \in Workers :
        /\ kind[t] # "delete" /\ pc[t] # "delrow"
        /\ pc[t] \in {"truncate", "write"} => kind[t] = "config"
        /\ pc[t] = "setmodel" => kind[t] = "model"

\* A row has its file, and whoever is built or registered has its row.
Rows ==
    /\ \A u \in Users : row[u] # NoRow => file[u] # NoFile
    /\ \A u \in Users : Registered(u) => row[u] # NoRow
    /\ \A t \in Workers : pc[t] \in {"readcfg", "add"} => row[user[t]] # NoRow

SettingsInv == Writers /\ Rows /\ UpdateDropsInstance

-----------------------------------------------------------------------------
(* Most steps leave settings, instances and those who update them alone.   *)

UpdatesFor(t, u) ==
    /\ user[t] = u
    /\ kind[t] \in {"config", "model"}
    /\ pc[t] \in {"write", "unregister"}

\* Rows, files and instances stay, and no update ends.
Steady ==
    /\ UNCHANGED <<agents, built, row, file>>
    /\ \A t \in Workers, u \in Users : UpdatesFor(t, u) => UpdatesFor(t, u)'
    /\ \A t \in Workers : pc'[t] \in {"readcfg", "add"} => row[user'[t]] # NoRow

LEMMA SteadyKeeps ==
  ASSUME SettingsInv, Steady
  PROVE  Rows' /\ UpdateDropsInstance'
<1>1. \A u \in Users : Updating(u) => Updating(u)'
  BY DEF Steady, UpdatesFor, Updating
<1> QED
  BY <1>1 DEF SettingsInv, Steady, Rows, UpdateDropsInstance, Registered

\* The handlers of a step are those of the step before, or begin in their first place.
LEMMA NextWriters ==
  ASSUME "delete" \notin Kinds, IInv, Writers, [Next]_vars
  PROVE  Writers'
<1> USE DEF IInv, TypeOK, RegistryTypeOK, Roles, Writers, At, Goto, Holds, Workers,
            storeVars, bridgeVars, registryVars
<1>1. ASSUME NEW t \in Threads, NEW u \in Users, NEW k \in AllKinds, Begin(t, k, u)
      PROVE  Writers'
  BY <1>1 DEF Begin, FirstPlace, AllKinds
<1>2. ASSUME NEW t \in Threads, NEW u \in Users, BeginProfile(t, u)
      PROVE  Writers'
  BY <1>2 DEF BeginProfile, FirstPlace, AllKinds
<1>3. ASSUME NEW t \in Workers, NEW k \in {"reap", "ticker"}, BeginSweep(t, k)
      PROVE  Writers'
  BY <1>3 DEF BeginSweep, FirstPlace, AllKinds
<1>4. ASSUME NEW t \in Workers, Serve(t)
      PROVE  Writers'
  <2>1. CASE LockSession(t)
    BY <1>4, <2>1 DEF LockSession
  <2>2. CASE Lookup(t)
    BY <1>4, <2>2 DEF Lookup
  <2>3. CASE Touch(t)
    BY <1>4, <2>3 DEF Touch, FinishFlight
  <2>4. CASE EnterFlight(t)
    BY <1>4, <2>4 DEF EnterFlight
  <2>5. CASE LoadRow(t)
    BY <1>4, <2>5 DEF LoadRow, FinishFlight
  <2>6. CASE ReadConfig(t)
    BY <1>4, <2>6 DEF ReadConfig, FinishFlight
  <2>7. ASSUME NEW i \in Insts, Materialize(t, i) PROVE Writers'
    BY <1>4, <2>7 DEF Materialize, FinishFlight
  <2>8. CASE InitializeMCP(t)
    BY <1>4, <2>8 DEF InitializeMCP
  <2>9. CASE RegisterTools(t)
    BY <1>4, <2>9 DEF RegisterTools, FinishFlight
  <2>10. CASE Dispatch(t)
    BY <1>4, <2>10 DEF Dispatch
  <2>11. CASE TouchForTurn(t)
    BY <1>4, <2>11 DEF TouchForTurn
  <2>12. CASE StartTurn(t)
    BY <1>4, <2>12 DEF StartTurn
  <2>13. CASE EndTurn(t)
    BY <1>4, <2>13 DEF EndTurn, Answer, Finish
  <2>14. CASE AnswerCommand(t)
    BY <1>4, <2>14 DEF AnswerCommand, Answer, Finish
  <2>15. CASE CountTurn(t)
    BY <1>4, <2>15 DEF CountTurn, Finish
  <2>16. CASE Refuse(t)
    BY <1>4, <2>16 DEF Refuse, Finish
  <2>17. CASE TruncateConfig(t)
    BY <1>4, <2>17 DEF TruncateConfig
  <2>18. CASE WriteConfig(t)
    BY <1>4, <2>18 DEF WriteConfig
  <2>19. CASE SetModel(t)
    BY <1>4, <2>19 DEF SetModel, Finish
  <2>20. CASE InsertUser(t)
    BY <1>4, <2>20 DEF InsertUser, Finish
  <2>21. CASE DeleteRow(t)
    BY <1>4, <2>21 DEF DeleteRow
  <2>22. CASE Unregister(t)
    BY <1>4, <2>22 DEF Unregister, Removed, GoesOn, Finish
  <2>23. CASE CloseMCP(t)
    BY <1>4, <2>23 DEF CloseMCP
  <2>24. CASE CloseInstance(t)
    BY <1>4, <2>24 DEF CloseInstance, Removed, GoesOn, Finish
  <2>25. CASE Sweep(t)
    BY <1>4, <2>25 DEF Sweep, Finish
  <2> QED
    BY <1>4, <2>1, <2>2, <2>3, <2>4, <2>5, <2>6, <2>7, <2>8, <2>9, <2>10, <2>11, <2>12, <2>13,
       <2>14, <2>15, <2>16, <2>17, <2>18, <2>19, <2>20, <2>21, <2>22, <2>23, <2>24, <2>25 DEF Serve
<1>5. ASSUME NEW u \in Users, GrowOld(u)
      PROVE  Writers'
  BY <1>5 DEF GrowOld
<1>6. CASE UNCHANGED vars
  BY <1>6 DEF vars
<1> QED
  BY <1>1, <1>2, <1>3, <1>4, <1>5, <1>6 DEF Next


-----------------------------------------------------------------------------
(* The steps that are not steady.                                          *)

\* addUserAgent: the instance is built from what is stored at this moment.
LEMMA MaterializeAgrees ==
  ASSUME IInv, SettingsInv, NEW t \in Workers, NEW i \in Insts, Materialize(t, i),
         ~Registered(user[t])
  PROVE  Rows' /\ UpdateDropsInstance'
<1> DEFINE u == user[t]
<1> USE DEF IInv, TypeOK, RegistryTypeOK, At, Goto, Holds, Workers, storeVars, bridgeVars
<1>1. u \in Users /\ pc[t] = "add" /\ row[u] # NoRow
  BY DEF Materialize, Roles, ReaperPlaces, SettingsInv, Rows
<1>2. /\ agents' = [agents EXCEPT ![u] = i] /\ UNCHANGED <<row, file, user, kind>>
      /\ pc' = [pc EXCEPT ![t] = "mcp"]
      /\ built' = [built EXCEPT ![i] = [user |-> u, model |-> draft[t][1], config |-> draft[t][2],
                                        rowAt |-> row[u], fileAt |-> file[u]]]
      /\ \A v \in Users : agents[v] # i
  BY DEF Materialize, AddUserAgent, Garbage
<1> HIDE DEF u
<1>3. Rows'
  BY <1>1, <1>2 DEF SettingsInv, Rows, Registered
<1>4. ASSUME NEW v \in Users, Registered(v)'
      PROVE  (built'[agents'[v]].rowAt = row'[v] /\ built'[agents'[v]].fileAt = file'[v]) \/ Updating(v)'
  <2>1. CASE v = u
    <3>1. agents'[v] = i
      BY <1>1, <1>2, <2>1
    <3>2. built'[i].rowAt = row[u] /\ built'[i].fileAt = file[u]
      BY <1>2
    <3> QED
      BY <1>2, <2>1, <3>1, <3>2
  <2>2. CASE v # u
    <3>1. agents'[v] = agents[v] /\ Registered(v) /\ agents[v] \in Insts /\ agents[v] # i
      BY <1>2, <1>4, <2>2 DEF Registered
    <3>2. built'[agents'[v]] = built[agents[v]]
      BY <1>2, <3>1
    <3>3. Updating(v) => Updating(v)'
      BY <1>1, <1>2 DEF Updating
    <3> QED
      BY <1>2, <3>1, <3>2, <3>3 DEF SettingsInv, UpdateDropsInstance
  <2> QED
    BY <2>1, <2>2
<1> QED
  BY <1>3, <1>4 DEF UpdateDropsInstance

\* Whoever changes what is stored of a tenant is on the way to RemoveUserAgent.
LEMMA WritersUpdate ==
  ASSUME IInv, SettingsInv, NEW t \in Workers,
         TruncateConfig(t) \/ WriteConfig(t) \/ (SetModel(t) /\ row[user[t]] # NoRow)
  PROVE  Rows' /\ UpdateDropsInstance'
<1> DEFINE u == user[t]
<1> USE DEF IInv, TypeOK, RegistryTypeOK, At, Goto, storeVars, bridgeVars, registryVars
<1>1. u \in Users /\ kind[t] \in {"config", "model"}
  BY DEF Roles, SettingsInv, Writers, TruncateConfig, WriteConfig, SetModel
<1>2. /\ UNCHANGED <<agents, built, user, kind>>
      /\ \A v \in Users : v # u => row'[v] = row[v] /\ file'[v] = file[v]
      /\ row[u] # NoRow => row'[u] # NoRow
      /\ row'[u] # NoRow => row[u] # NoRow
      /\ file[u] # NoFile => file'[u] # NoFile
      /\ \A s \in Workers : s # t => pc'[s] = pc[s]
      /\ pc[t] \in {"truncate", "write", "setmodel"} /\ pc'[t] \in {"write", "unregister"}
  <2>1. CASE TruncateConfig(t)
    BY <1>1, <2>1, RegistryAssumption DEF TruncateConfig
  <2>2. CASE WriteConfig(t)
    BY <1>1, <2>2, RegistryAssumption DEF WriteConfig
  <2>3. CASE SetModel(t) /\ row[user[t]] # NoRow
    BY <1>1, <2>3, RegistryAssumption DEF SetModel
  <2> QED
    BY <2>1, <2>2, <2>3
<1> HIDE DEF u
<1>3. u = user[t]
  BY DEF u
<1>4. Rows'
  <2>1. \A v \in Users : row'[v] # NoRow => file'[v] # NoFile
    BY <1>1, <1>2 DEF SettingsInv, Rows
  <2>2. \A v \in Users : row[v] # NoRow => row'[v] # NoRow
    BY <1>2
  <2>3. \A s \in Workers : pc'[s] \in {"readcfg", "add"} =>
            pc[s] \in {"readcfg", "add"} /\ user[s] \in Users
    BY <1>2 DEF Roles
  <2> QED
    BY <1>2, <2>1, <2>2, <2>3 DEF SettingsInv, Rows, Registered
<1>5. \A v \in Users : Updating(v) => Updating(v)'
  BY <1>1, <1>2, <1>3 DEF Updating
<1>6. \A v \in Users : v = u => Updating(v)'
  BY <1>1, <1>2, <1>3 DEF Updating
<1> QED
  BY <1>2, <1>4, <1>5, <1>6 DEF SettingsInv, UpdateDropsInstance, Registered

\* RemoveUserAgent: a tenant whose update ends here has no instance any more.
LEMMA UnregisterDrops ==
  ASSUME IInv, SettingsInv, NEW t \in Workers, Unregister(t)
  PROVE  Rows' /\ UpdateDropsInstance'
<1> DEFINE u == user[t]
<1> USE DEF IInv, TypeOK, RegistryTypeOK, At, Goto, Holds, storeVars, bridgeVars, registryVars
<1>1. u \in Users /\ UNCHANGED <<row, file, built>>
  BY DEF Roles, Unregister, UnregisterAgent
<1>2. agents' = [agents EXCEPT ![u] = NoInst]
  <2>1. CASE Registered(u)
    BY <2>1 DEF Unregister, UnregisterAgent
  <2>2. CASE ~Registered(u)
    BY <2>2 DEF Unregister, Registered
  <2> QED
    BY <2>1, <2>2
<1>3. /\ \A s \in Workers : s # t => pc'[s] = pc[s] /\ user'[s] = user[s] /\ kind'[s] = kind[s]
      /\ pc'[t] \in {"closemcp", "delrow", "sweep", "idle"}
  BY DEF Unregister, Removed, Finish
<1>4. u = user[t]
  OBVIOUS
<1> HIDE DEF u
<1>5. Rows'
  BY <1>1, <1>2, <1>3 DEF SettingsInv, Rows, Registered
<1>6. \A v \in Users : v # u /\ Updating(v) => Updating(v)'
  BY <1>3, <1>4 DEF Updating
<1> QED
  BY <1>1, <1>2, <1>5, <1>6 DEF SettingsInv, UpdateDropsInstance, Registered

\* Close ends: no registered instance is closed.
LEMMA CloseAgrees ==
  ASSUME IInv, SettingsInv, NEW t \in Workers, CloseInstance(t)
  PROVE  Rows' /\ UpdateDropsInstance'
<1> DEFINE i == held[t]
<1> USE DEF IInv, TypeOK, RegistryTypeOK, At, Goto, Holds, storeVars, bridgeVars, registryVars
<1>1. i \in Insts /\ \A u \in Users : agents[u] # i
  BY CloserOwns DEF CloseInstance, ClosingPlaces
<1>2. /\ UNCHANGED <<row, file, agents>> /\ built' = [built EXCEPT ![i] = NoBuild]
      /\ \A s \in Workers : s # t => pc'[s] = pc[s] /\ user'[s] = user[s] /\ kind'[s] = kind[s]
      /\ pc[t] = "close" /\ pc'[t] \in {"delrow", "sweep", "idle"}
  BY DEF CloseInstance, FinishClose, Removed, Finish
<1> HIDE DEF i
<1>3. Rows'
  BY <1>2 DEF SettingsInv, Rows, Registered
<1>4. \A v \in Users : Updating(v) => Updating(v)'
  BY <1>2 DEF Updating
<1>5. \A v \in Users : Registered(v) => built'[agents[v]] = built[agents[v]]
  BY <1>1, <1>2 DEF Registered
<1> QED
  BY <1>2, <1>3, <1>4, <1>5 DEF SettingsInv, UpdateDropsInstance, Registered

\* RegisterUser only makes rows and files of tenants that have no row, and so no instance.
LEMMA InsertAgrees ==
  ASSUME IInv, SettingsInv, NEW t \in Workers, InsertUser(t)
  PROVE  Rows' /\ UpdateDropsInstance'
<1> DEFINE u == user[t]
<1> USE DEF IInv, TypeOK, RegistryTypeOK, At, Goto, Holds, storeVars, bridgeVars, registryVars
<1>1. u \in Users
  BY DEF Roles, InsertUser
<1>2. /\ UNCHANGED <<agents, built>>
      /\ \A v \in Users : row[v] # NoRow => row'[v] = row[v]
      /\ \A v \in Users : file[v] # NoFile => file'[v] = file[v]
      /\ file'[u] # NoFile
      /\ \A v \in Users : v # u => row'[v] = row[v]
      /\ \A s \in Workers : s # t => pc'[s] = pc[s] /\ user'[s] = user[s] /\ kind'[s] = kind[s]
      /\ pc[t] = "insert" /\ pc'[t] = "idle"
  <2>1. /\ UNCHANGED <<agents, built>>
        /\ file' = IF file[u] = NoFile THEN [file EXCEPT ![u] = Template] ELSE file
        /\ \A s \in Workers : s # t => pc'[s] = pc[s] /\ user'[s] = user[s] /\ kind'[s] = kind[s]
        /\ pc[t] = "insert" /\ pc'[t] = "idle"
    BY DEF InsertUser, Finish
  <2>2. \A v \in Users : row[v] # NoRow \/ v # u => row'[v] = row[v]
    <3>1. CASE row[u] = NoRow
      <4>1. PICK m \in Models : row' = [row EXCEPT ![u] = m]
        BY <3>1 DEF InsertUser
      <4> QED
        BY <1>1, <3>1, <4>1
    <3>2. CASE row[u] # NoRow
      BY <3>2 DEF InsertUser
    <3> QED
      BY <3>1, <3>2
  <2>3. Template # NoFile
    BY RegistryAssumption, ControlPlaneAssumption
  <2> QED
    BY <1>1, <2>1, <2>2, <2>3
<1> HIDE DEF u
<1>3. Rows'
  <2>1. \A v \in Users : row'[v] # NoRow => file'[v] # NoFile
    BY <1>1, <1>2 DEF SettingsInv, Rows
  <2>2. \A v \in Users : row[v] # NoRow => row'[v] # NoRow
    BY <1>2
  <2>3. \A s \in Workers : pc'[s] \in {"readcfg", "add"} =>
            s # t /\ pc[s] \in {"readcfg", "add"} /\ user[s] \in Users
    BY <1>2 DEF Roles
  <2> QED
    BY <1>2, <2>1, <2>2, <2>3 DEF SettingsInv, Rows, Registered
<1>4. \A v \in Users : Updating(v) => Updating(v)'
  BY <1>2 DEF Updating
<1>5. \A v \in Users : Registered(v) => row'[v] = row[v] /\ file'[v] = file[v]
  BY <1>2 DEF SettingsInv, Rows
<1> QED
  BY <1>2, <1>3, <1>4, <1>5 DEF SettingsInv, UpdateDropsInstance, Registered

\* userConfigFor: a tenant with a row has a file, which is left as it is.
LEMMA ReadIsSteady ==
  ASSUME IInv, SettingsInv, NEW t \in Workers, ReadConfig(t)
  PROVE  Steady
<1> USE DEF IInv, TypeOK, RegistryTypeOK, At, Goto, storeVars, bridgeVars, registryVars
<1>1. user[t] \in Users /\ pc[t] = "readcfg" /\ row[user[t]] # NoRow
  BY DEF Roles, ReadConfig, SettingsInv, Rows
<1>2. file[user[t]] # NoFile
  BY <1>1 DEF SettingsInv, Rows
<1>3. file' = file
  BY <1>1, <1>2 DEF ReadConfig
<1>4. UNCHANGED <<agents, built, row, user, kind>>
  BY DEF ReadConfig
<1>5. CASE pc' = [pc EXCEPT ![t] = "add"]
  BY <1>1, <1>3, <1>4, <1>5 DEF Steady, UpdatesFor, SettingsInv, Rows
<1>6. CASE FinishFlight(t, "failed")
  BY <1>1, <1>3, <1>4, <1>6 DEF Steady, UpdatesFor, SettingsInv, Rows, FinishFlight
<1> QED
  BY <1>5, <1>6 DEF ReadConfig

\* Every step is steady or one of those.
LEMMA NextSettings ==
  ASSUME "delete" \notin Kinds, IInv, SettingsInv, [Next]_vars
  PROVE  SettingsInv'
<1> SUFFICES Steady \/ (Rows' /\ UpdateDropsInstance')
  BY SteadyKeeps, NextWriters DEF SettingsInv
<1> USE DEF IInv, TypeOK, RegistryTypeOK, Roles, At, Goto, Holds, Workers, Leads,
            storeVars, bridgeVars, registryVars
<1>0. /\ \A t \in Workers : pc[t] \in {"readcfg", "add"} => row[user[t]] # NoRow
      /\ \A t \in Workers : pc[t] # "delrow"
  BY DEF SettingsInv, Rows, Writers
<1> USE DEF Steady, UpdatesFor
<1>1. ASSUME NEW t \in Threads, NEW u \in Users, NEW k \in AllKinds, Begin(t, k, u)
      PROVE  Steady
  BY <1>0, <1>1 DEF Begin, FirstPlace, AllKinds
<1>2. ASSUME NEW t \in Threads, NEW u \in Users, BeginProfile(t, u)
      PROVE  Steady
  BY <1>0, <1>2 DEF BeginProfile, FirstPlace
<1>3. ASSUME NEW t \in Workers, NEW k \in {"reap", "ticker"}, BeginSweep(t, k)
      PROVE  Steady
  BY <1>0, <1>3 DEF BeginSweep, FirstPlace
<1>4. ASSUME NEW t \in Workers, Serve(t)
      PROVE  Steady \/ (Rows' /\ UpdateDropsInstance')
  <2>1. CASE LockSession(t)
    BY <1>0, <2>1 DEF LockSession
  <2>2. CASE Lookup(t)
    BY <1>0, <2>2 DEF Lookup
  <2>3. CASE Touch(t)
    BY <1>0, <2>3 DEF Touch, TouchAgent, FinishFlight
  <2>4. CASE EnterFlight(t)
    BY <1>0, <2>4 DEF EnterFlight
  <2>5. CASE LoadRow(t)
    BY <1>0, <2>5 DEF LoadRow, FinishFlight
  <2>6. CASE ReadConfig(t)
    BY <2>6, ReadIsSteady
  <2>7. ASSUME NEW i \in Insts, Materialize(t, i)
        PROVE  Steady \/ (Rows' /\ UpdateDropsInstance')
    <3>1. CASE Registered(user[t])
      <4>1. Steady
        BY <1>0, <2>7, <3>1 DEF Materialize, FinishFlight
      <4> QED
        BY <4>1
    <3>2. CASE ~Registered(user[t])
      BY <2>7, <3>2, MaterializeAgrees
    <3> QED
      BY <3>1, <3>2
  <2>8. CASE InitializeMCP(t)
    BY <1>0, <2>8 DEF InitializeMCP, StartMCP
  <2>9. CASE RegisterTools(t)
    BY <1>0, <2>9 DEF RegisterTools, FinishFlight
  <2>10. CASE Dispatch(t)
    BY <1>0, <2>10 DEF Dispatch
  <2>11. CASE TouchForTurn(t)
    BY <1>0, <2>11 DEF TouchForTurn, TouchAgent
  <2>12. CASE StartTurn(t)
    BY <1>0, <2>12 DEF StartTurn
  <2>13. CASE EndTurn(t)
    BY <1>0, <2>13 DEF EndTurn, Answer, Finish
  <2>14. CASE AnswerCommand(t)
    BY <1>0, <2>14 DEF AnswerCommand, Answer, Finish
  <2>15. CASE CountTurn(t)
    BY <1>0, <2>15 DEF CountTurn, Finish
  <2>16. CASE Refuse(t)
    BY <1>0, <2>16 DEF Refuse, Finish
  <2>17. CASE TruncateConfig(t)
    BY <2>17, WritersUpdate
  <2>18. CASE WriteConfig(t)
    BY <2>18, WritersUpdate
  <2>19. CASE SetModel(t)
    <3>1. CASE row[user[t]] = NoRow
      <4>1. Steady
        BY <1>0, <2>19, <3>1 DEF SetModel, Finish
      <4> QED
        BY <4>1
    <3>2. CASE row[user[t]] # NoRow
      BY <2>19, <3>2, WritersUpdate
    <3> QED
      BY <3>1, <3>2
  <2>20. CASE InsertUser(t)
    BY <2>20, InsertAgrees
  <2>21. CASE DeleteRow(t)
    BY <1>0, <2>21 DEF DeleteRow
  <2>22. CASE Unregister(t)
    BY <2>22, UnregisterDrops
  <2>23. CASE CloseMCP(t)
    BY <1>0, <2>23 DEF CloseMCP, BeginClose
  <2>24. CASE CloseInstance(t)
    BY <2>24, CloseAgrees
  <2>25. CASE Sweep(t)
    BY <1>0, <2>25 DEF Sweep, Finish
  <2> QED
    BY <1>4, <2>1, <2>2, <2>3, <2>4, <2>5, <2>6, <2>7, <2>8, <2>9, <2>10, <2>11, <2>12, <2>13,
       <2>14, <2>15, <2>16, <2>17, <2>18, <2>19, <2>20, <2>21, <2>22, <2>23, <2>24, <2>25 DEF Serve
<1>5. ASSUME NEW u \in Users, GrowOld(u)
      PROVE  Steady
  BY <1>0, <1>5 DEF GrowOld, Age
<1>6. CASE UNCHANGED vars
  BY <1>0, <1>6 DEF vars
<1> QED
  BY <1>1, <1>2, <1>3, <1>4, <1>5, <1>6 DEF Next

\* A restarted server has no instances, and every row has its file.
LEMMA InitSettings == Init => SettingsInv
<1> SUFFICES ASSUME Init PROVE SettingsInv
  OBVIOUS
<1>1. Writers
  BY DEF Init, Writers, Workers
<1>2. Rows /\ UpdateDropsInstance
  BY RegistryAssumption, ControlPlaneAssumption
     DEF Init, RegistryInit, Rows, UpdateDropsInstance, Registered
<1> QED
  BY <1>1, <1>2 DEF SettingsInv

\* user_config.go and models.go: what is stored first and dropped afterwards leaves no
\* instance from before the update, whatever messages, sweeps, registrations and other
\* updates meet it.
THEOREM UpdatesTakeDown ==
  ASSUME "delete" \notin Kinds
  PROVE  Spec => []UpdateDropsInstance
<1>1. Init => IInv /\ SettingsInv
  BY InitIInv, InitSettings
<1>2. IInv /\ SettingsInv /\ [Next]_vars => (IInv /\ SettingsInv)'
  BY NextIInv, NextSettings
<1>3. SettingsInv => UpdateDropsInstance
  BY DEF SettingsInv
<1> QED
  BY <1>1, <1>2, <1>3, PTL DEF Spec
=============================================================================
