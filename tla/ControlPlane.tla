---------------------------- MODULE ControlPlane ----------------------------
(***************************************************************************)
(* The v7 control plane (v7/cmd/v7server): what the goroutines of HTTP and *)
(* WebSocket handlers and of the reaper do with the meta database, the     *)
(* tenants' config.json files and the agent registry.                      *)
(*                                                                         *)
(* Every action is one atomic section of one goroutine: a critical section *)
(* of a lock, a database statement or a file operation.  What lies between *)
(* two of them is where the other goroutines run.                          *)
(***************************************************************************)
EXTENDS AgentRegistry, Naturals

CONSTANTS
    Threads,            \* goroutines that serve requests
    Reaper,             \* the goroutine of runReaper
    NoThread, NoUser,
    Template,           \* userConfigTemplateJSON, the config.json of a new tenant
    Kinds,              \* the handlers a run exercises
    ProfileThreshold    \* messages between two profile turns (20 in the code)

Workers == Threads \cup {Reaper}

AllKinds == {"chat", "ws", "profile", "config", "model", "register", "delete", "reap"}

ASSUME ControlPlaneAssumption ==
    /\ Reaper \notin Threads
    /\ NoThread \notin Workers
    /\ NoUser \notin Users
    /\ Template \in Configs
    /\ Kinds \subseteq AllKinds
    /\ ProfileThreshold \in Nat \ {0}

VARIABLES
    row,        \* row[u]: users.model of u's row, or NoRow
    file,       \* file[u]: u's config.json
    flight,     \* flight[u]: the leader of singleflight group "materialize"
    sessionMu,  \* sessionMu[u]: holder of the mutex of session "user:<u>"
    counter,    \* counter[u]: memory/.profile_counter
    profiles,   \* tenants whose profile goroutine was spawned and has not run yet
    pc, kind, user, todo,   \* per goroutine: place, handler, tenant, rest of a sweep
    held,       \* held[t]: the instance pointer goroutine t works with
    draft       \* draft[t]: <<model, config>> read by a materialization

storeVars  == <<row, file>>
bridgeVars == <<sessionMu, counter, profiles>>
vars == <<registryVars, storeVars, flight, bridgeVars, pc, kind, user, todo, held, draft>>

NoDraft == <<NoRow, NoFile>>

Places == {"idle", "lock", "ensure", "touch", "flight", "join", "recheck", "load",
           "readcfg", "add", "mcp", "tools", "dispatch", "ptouch", "rlock", "turn",
           "profile", "failed", "duplicate", "refused", "truncate", "write", "setmodel",
           "insert", "unregister", "closemcp", "close", "delrow", "sweep"}

TypeOK ==
    /\ RegistryTypeOK
    /\ row \in [Users -> Models \cup {NoRow}]
    /\ file \in [Users -> Stored]
    /\ flight \in [Users -> Threads \cup {NoThread}]
    /\ sessionMu \in [Users -> Threads \cup {NoThread}]
    /\ counter \in [Users -> 0 .. ProfileThreshold - 1]
    /\ profiles \in SUBSET Users
    /\ pc \in [Workers -> Places]
    /\ kind \in [Workers -> AllKinds \cup {"none", "ticker"}]
    /\ user \in [Workers -> Users \cup {NoUser}]
    /\ todo \in [Workers -> SUBSET Users]
    /\ held \in [Workers -> Insts \cup {NoInst}]
    /\ draft \in [Workers -> (Models \cup {NoRow}) \X Stored]

\* A restarted server: rows and files survive, everything in memory is empty.
Init ==
    /\ RegistryInit
    /\ row \in [Users -> Models \cup {NoRow}]
    /\ file = [u \in Users |-> IF row[u] = NoRow THEN NoFile ELSE Template]
    /\ flight = [u \in Users |-> NoThread]
    /\ sessionMu = [u \in Users |-> NoThread]
    /\ counter = [u \in Users |-> 0]
    /\ profiles = {}
    /\ pc = [t \in Workers |-> "idle"]
    /\ kind = [t \in Workers |-> IF t = Reaper THEN "ticker" ELSE "none"]
    /\ user = [t \in Workers |-> NoUser]
    /\ todo = [t \in Workers |-> {}]
    /\ held = [t \in Workers |-> NoInst]
    /\ draft = [t \in Workers |-> NoDraft]

-----------------------------------------------------------------------------
(* How a goroutine moves on.                                               *)

At(t, place) == pc[t] = place
Goto(t, place) == pc' = [pc EXCEPT ![t] = place]

Holds(t, i) == held' = [held EXCEPT ![t] = i]

\* The handler returns: its locals and the session mutex it may hold are released.
Finish(t) ==
    /\ Goto(t, "idle")
    /\ kind' = [kind EXCEPT ![t] = IF t = Reaper THEN "ticker" ELSE "none"]
    /\ user' = [user EXCEPT ![t] = NoUser]
    /\ todo' = [todo EXCEPT ![t] = {}]
    /\ Holds(t, NoInst)
    /\ sessionMu' = [u \in Users |-> IF sessionMu[u] = t THEN NoThread ELSE sessionMu[u]]

\* Mutant of FinishFlight: the joiners are not woken.
FinishFlightAlone(t, place) ==
    /\ Goto(t, place)
    /\ flight' = [flight EXCEPT ![user[t]] = NoThread]

\* materialize.Do returns: the leader t and all who joined it get one result.
FinishFlight(t, place) ==
    /\ pc' = [s \in Workers |->
                IF s = t \/ (pc[s] = "join" /\ user[s] = user[t]) THEN place ELSE pc[s]]
    /\ flight' = [flight EXCEPT ![user[t]] = NoThread]

Leads(t) == flight[user[t]] = t

-----------------------------------------------------------------------------
(* Requests arrive.                                                        *)

FirstPlace == [chat |-> "ensure", ws |-> "lock", profile |-> "dispatch",
               config |-> "truncate", model |-> "setmodel", register |-> "insert",
               delete |-> "unregister", reap |-> "sweep"]

\* handleUserConfig answers 404 before it touches anything when there is no row.
Begin(t, k, u) ==
    /\ At(t, "idle")
    /\ k \in Kinds \ {"profile", "reap"}
    /\ k = "config" => row[u] # NoRow
    /\ Goto(t, FirstPlace[k])
    /\ kind' = [kind EXCEPT ![t] = k]
    /\ user' = [user EXCEPT ![t] = u]
    /\ UNCHANGED <<registryVars, storeVars, flight, bridgeVars, todo, held, draft>>

\* The goroutine checkAndTriggerProfile spawned gets to run.
BeginProfile(t, u) ==
    /\ At(t, "idle")
    /\ u \in profiles
    /\ profiles' = profiles \ {u}
    /\ Goto(t, FirstPlace["profile"])
    /\ kind' = [kind EXCEPT ![t] = "profile"]
    /\ user' = [user EXCEPT ![t] = u]
    /\ UNCHANGED <<registryVars, storeVars, flight, sessionMu, counter, todo, held, draft>>

\* The ticker of runReaper, or POST /api/v1/reap: a snapshot of the idle tenants.
BeginSweep(t, k) ==
    /\ At(t, "idle")
    /\ Goto(t, FirstPlace["reap"])
    /\ kind' = [kind EXCEPT ![t] = k]
    /\ todo' = [todo EXCEPT ![t] = IdleAgents]
    /\ UNCHANGED <<registryVars, storeVars, flight, bridgeVars, user, held, draft>>

-----------------------------------------------------------------------------
(* ensureUserAgent: find the tenant's instance or build one, once.         *)

\* Mutant of LockSession: no mutual exclusion.
LockSessionFree(t) ==
    /\ At(t, "lock")
    /\ sessionMu' = [sessionMu EXCEPT ![user[t]] = t]
    /\ Goto(t, "ensure")
    /\ UNCHANGED <<registryVars, storeVars, flight, counter, profiles, kind, user, todo,
                   held, draft>>

\* handleInbound: sessionMu for "user:<id>" is held until the handler returns.
LockSession(t) ==
    /\ At(t, "lock")
    /\ sessionMu[user[t]] = NoThread
    /\ sessionMu' = [sessionMu EXCEPT ![user[t]] = t]
    /\ Goto(t, "ensure")
    /\ UNCHANGED <<registryVars, storeVars, flight, counter, profiles, kind, user, todo,
                   held, draft>>

\* The lookup of the fast path, and the one repeated inside the flight.
Lookup(t) ==
    /\ pc[t] \in {"ensure", "recheck"}
    /\ Goto(t, IF Registered(user[t]) THEN "touch"
               ELSE IF At(t, "ensure") THEN "flight" ELSE "load")
    /\ UNCHANGED <<registryVars, storeVars, flight, bridgeVars, kind, user, todo, held, draft>>

Touch(t) ==
    /\ At(t, "touch")
    /\ TouchAgent(user[t])
    /\ IF Leads(t) THEN FinishFlight(t, "dispatch")
                   ELSE Goto(t, "dispatch") /\ UNCHANGED flight
    /\ UNCHANGED <<storeVars, bridgeVars, kind, user, todo, held, draft>>

\* Mutant of EnterFlight: everybody leads.
EnterFlightAlways(t) ==
    /\ At(t, "flight")
    /\ Goto(t, "recheck")
    /\ flight' = [flight EXCEPT ![user[t]] = t]
    /\ UNCHANGED <<registryVars, storeVars, bridgeVars, kind, user, todo, held, draft>>

\* materialize.Do: lead the flight, or wait for the one under way.
EnterFlight(t) ==
    /\ At(t, "flight")
    /\ IF flight[user[t]] = NoThread
       THEN Goto(t, "recheck") /\ flight' = [flight EXCEPT ![user[t]] = t]
       ELSE Goto(t, "join") /\ UNCHANGED flight
    /\ UNCHANGED <<registryVars, storeVars, bridgeVars, kind, user, todo, held, draft>>

\* Mutant of LoadRow: a tenant without a row is built all the same.
LoadRowBlind(t) ==
    /\ At(t, "load")
    /\ Goto(t, "readcfg")
    /\ draft' = [draft EXCEPT ![t] = <<row[user[t]], NoFile>>]
    /\ UNCHANGED <<registryVars, storeVars, flight, bridgeVars, kind, user, todo, held>>

\* store.GetUser
LoadRow(t) ==
    /\ At(t, "load")
    /\ IF row[user[t]] = NoRow
       THEN FinishFlight(t, "failed") /\ UNCHANGED draft
       ELSE /\ Goto(t, "readcfg")
            /\ draft' = [draft EXCEPT ![t] = <<row[user[t]], NoFile>>]
            /\ UNCHANGED flight
    /\ UNCHANGED <<registryVars, storeVars, bridgeVars, kind, user, todo, held>>

\* userConfigFor: EnsureUserConfigTemplate, then LoadUserConfig.  A torn file reads
\* as empty, which the code takes for "no overrides", or it does not parse and
\* fails the flight.
ReadConfig(t) ==
    LET u == user[t]
        content == IF file[u] = NoFile THEN Template ELSE file[u]
    IN  /\ At(t, "readcfg")
        /\ file' = [file EXCEPT ![u] = content]
        /\ \/ /\ draft' = [draft EXCEPT ![t] = <<draft[t][1], content>>]
              /\ Goto(t, "add")
              /\ UNCHANGED flight
           \/ /\ content = Torn
              /\ FinishFlight(t, "failed")
              /\ draft' = [draft EXCEPT ![t] = NoDraft]
        /\ UNCHANGED <<registryVars, row, bridgeVars, kind, user, todo, held>>

\* An instance nobody can reach any more: its memory may be used again.
Garbage(i) ==
    /\ life[i] = "closed"
    /\ \A u \in Users : agents[u] # i
    /\ \A t \in Workers : held[t] # i

\* AddUserAgentWithConfig; "agent already registered" fails the flight.
Materialize(t, i) ==
    LET u == user[t] IN
    /\ At(t, "add")
    /\ Garbage(i)
    /\ IF Registered(u)
       THEN FinishFlight(t, "duplicate") /\ UNCHANGED <<registryVars, held>>
       ELSE /\ AddUserAgent(u, i, [user |-> u, model |-> draft[t][1], config |-> draft[t][2],
                                   rowAt |-> row[u], fileAt |-> file[u]])
            /\ Holds(t, i)
            /\ Goto(t, "mcp")
            /\ UNCHANGED flight
    /\ draft' = [draft EXCEPT ![t] = NoDraft]
    /\ UNCHANGED <<storeVars, bridgeVars, kind, user, todo>>

\* MaterializeUserAgent: initializeMCP, for up to 30 s after the instance is visible.
InitializeMCP(t) ==
    /\ At(t, "mcp")
    /\ StartMCP(held[t])
    /\ Goto(t, "tools")
    /\ UNCHANGED <<storeVars, flight, bridgeVars, kind, user, todo, held, draft>>

\* history_search, knowledge and recall are registered and the flight lands.
RegisterTools(t) ==
    /\ At(t, "tools")
    /\ FinishFlight(t, "dispatch")
    /\ Holds(t, NoInst)
    /\ UNCHANGED <<registryVars, storeVars, bridgeVars, kind, user, todo, draft>>

-----------------------------------------------------------------------------
(* ProcessToAgent and the turn.                                            *)

\* The second lookup, by id: the instance ensureUserAgent returned is not used.
Dispatch(t) ==
    /\ At(t, "dispatch")
    /\ Goto(t, IF Registered(user[t]) THEN "ptouch" ELSE "refused")
    /\ Holds(t, agents[user[t]])
    /\ UNCHANGED <<registryVars, storeVars, flight, bridgeVars, kind, user, todo, draft>>

TouchForTurn(t) ==
    /\ At(t, "ptouch")
    /\ TouchAgent(user[t])
    /\ Goto(t, "rlock")
    /\ UNCHANGED <<storeVars, flight, bridgeVars, kind, user, todo, held, draft>>

\* runTurn holds modelMu for reading from here to its end.
StartTurn(t) ==
    /\ At(t, "rlock")
    /\ Readable(held[t])
    /\ Goto(t, "turn")
    /\ UNCHANGED <<registryVars, storeVars, flight, bridgeVars, kind, user, todo, held, draft>>

\* ProcessToAgent returns; handleInbound counts the turn unless it failed.
Answer(t, ok) ==
    IF kind[t] = "ws" /\ ok
    THEN /\ Goto(t, "profile")
         /\ Holds(t, NoInst)
         /\ UNCHANGED <<sessionMu, kind, user, todo>>
    ELSE Finish(t)

EndTurn(t) ==
    /\ At(t, "turn")
    /\ \E ok \in BOOLEAN : Answer(t, ok)
    /\ UNCHANGED <<registryVars, storeVars, flight, counter, profiles, draft>>

\* handleCommand answers a slash command without a turn.
AnswerCommand(t) ==
    /\ At(t, "rlock")
    /\ Answer(t, TRUE)
    /\ UNCHANGED <<registryVars, storeVars, flight, counter, profiles, draft>>

\* Mutant of CountTurn: the counter is not reset.
CountTurnOn(t) ==
    LET u == user[t] IN
    /\ At(t, "profile")
    /\ counter' = [counter EXCEPT ![u] = counter[u] + 1]
    /\ Finish(t)
    /\ UNCHANGED <<registryVars, storeVars, flight, profiles, draft>>

\* checkAndTriggerProfile, then the deferred unlock of sessionMu.  Two profile
\* goroutines of one tenant that have not run yet count as one.
CountTurn(t) ==
    LET u == user[t]
        due == counter[u] + 1 >= ProfileThreshold
    IN  /\ At(t, "profile")
        /\ counter' = [counter EXCEPT ![u] = IF due THEN 0 ELSE counter[u] + 1]
        /\ profiles' = IF due /\ "profile" \in Kinds THEN profiles \cup {u} ELSE profiles
        /\ Finish(t)
        /\ UNCHANGED <<registryVars, storeVars, flight, draft>>

\* The handler answers with an error.
Refuse(t) ==
    /\ pc[t] \in {"failed", "duplicate", "refused"}
    /\ Finish(t)
    /\ UNCHANGED <<registryVars, storeVars, flight, counter, profiles, draft>>

-----------------------------------------------------------------------------
(* Writers of a tenant's settings.                                         *)

\* SaveUserConfig is os.WriteFile: truncate first, then write.
TruncateConfig(t) ==
    /\ At(t, "truncate")
    /\ file' = [file EXCEPT ![user[t]] = Torn]
    /\ Goto(t, "write")
    /\ UNCHANGED <<registryVars, row, flight, bridgeVars, kind, user, todo, held, draft>>

\* Mutant of WriteConfig: the running instance is left in place.
WriteConfigOnly(t) ==
    /\ At(t, "write")
    /\ \E c \in Configs : file' = [file EXCEPT ![user[t]] = c]
    /\ Finish(t)
    /\ UNCHANGED <<registryVars, row, flight, counter, profiles, draft>>

WriteConfig(t) ==
    /\ At(t, "write")
    /\ \E c \in Configs : file' = [file EXCEPT ![user[t]] = c]
    /\ Goto(t, "unregister")
    /\ UNCHANGED <<registryVars, row, flight, bridgeVars, kind, user, todo, held, draft>>

\* UpdateUserModel; no row updated is an error and ends the request.
SetModel(t) ==
    /\ At(t, "setmodel")
    /\ IF row[user[t]] = NoRow
       THEN Finish(t) /\ UNCHANGED row
       ELSE /\ \E m \in Models : row' = [row EXCEPT ![user[t]] = m]
            /\ Goto(t, "unregister")
            /\ UNCHANGED <<sessionMu, kind, user, todo, held>>
    /\ UNCHANGED <<registryVars, file, flight, counter, profiles, draft>>

\* RegisterUser: the config template, then the row; a second row conflicts.
InsertUser(t) ==
    LET u == user[t] IN
    /\ At(t, "insert")
    /\ file' = IF file[u] = NoFile THEN [file EXCEPT ![u] = Template] ELSE file
    /\ IF row[u] = NoRow THEN \E m \in Models : row' = [row EXCEPT ![u] = m]
                         ELSE UNCHANGED row
    /\ Finish(t)
    /\ UNCHANGED <<registryVars, flight, counter, profiles, draft>>

\* The last step of DELETE /api/v1/users/{id}.
DeleteRow(t) ==
    /\ At(t, "delrow")
    /\ row' = [row EXCEPT ![user[t]] = NoRow]
    /\ Finish(t)
    /\ UNCHANGED <<registryVars, file, flight, counter, profiles, draft>>

-----------------------------------------------------------------------------
(* RemoveUserAgent and what each of its callers does with the result.      *)

\* Does the caller go on?  known says that an instance was registered, ok that
\* Close returned no error.  The ticker stops at no error, a manual sweep at any;
\* DELETE tolerates an unknown agent; settings handlers only log and are done.
GoesOn(t, known, ok) ==
    \/ kind[t] = "ticker"
    \/ kind[t] = "reap" /\ known /\ ok
    \/ kind[t] = "delete" /\ (known => ok)

Removed(t, known, ok) ==
    IF GoesOn(t, known, ok)
    THEN /\ Goto(t, IF kind[t] = "delete" THEN "delrow" ELSE "sweep")
         /\ Holds(t, NoInst)
         /\ UNCHANGED <<sessionMu, kind, user, todo>>
    ELSE Finish(t)

\* Mutant of Unregister: what left the registry is not closed.
UnregisterOnly(t) ==
    /\ At(t, "unregister")
    /\ IF Registered(user[t]) THEN UnregisterAgent(user[t]) ELSE UNCHANGED registryVars
    /\ Removed(t, Registered(user[t]), TRUE)
    /\ UNCHANGED <<storeVars, flight, counter, profiles, draft>>

Unregister(t) ==
    /\ At(t, "unregister")
    /\ \/ /\ Registered(user[t])
          /\ UnregisterAgent(user[t])
          /\ Holds(t, agents[user[t]])
          /\ Goto(t, "closemcp")
          /\ UNCHANGED <<sessionMu, kind, user, todo>>
       \/ /\ ~Registered(user[t])
          /\ UNCHANGED registryVars
          /\ Removed(t, FALSE, FALSE)
    /\ UNCHANGED <<storeVars, flight, counter, profiles, draft>>

CloseMCP(t) ==
    /\ At(t, "closemcp")
    /\ BeginClose(held[t])
    /\ Goto(t, "close")
    /\ UNCHANGED <<storeVars, flight, bridgeVars, kind, user, todo, held, draft>>

\* Turns that hold modelMu for reading on instance i.
Readers(i) == {s \in Workers : pc[s] = "turn" /\ held[s] = i}

\* Mutant of CloseInstance: modelMu is not taken.
CloseInstanceNow(t) ==
    /\ At(t, "close")
    /\ FinishClose(held[t])
    /\ \E ok \in BOOLEAN : Removed(t, TRUE, ok)
    /\ UNCHANGED <<storeVars, flight, counter, profiles, draft>>

CloseInstance(t) ==
    /\ At(t, "close")
    /\ Readers(held[t]) = {}
    /\ FinishClose(held[t])
    /\ \E ok \in BOOLEAN : Removed(t, TRUE, ok)
    /\ UNCHANGED <<storeVars, flight, counter, profiles, draft>>

\* The next tenant of the snapshot (the code takes them in id order), or done.
Sweep(t) ==
    /\ At(t, "sweep")
    /\ \/ /\ todo[t] = {}
          /\ Finish(t)
       \/ \E u \in todo[t] :
            /\ user' = [user EXCEPT ![t] = u]
            /\ todo' = [todo EXCEPT ![t] = @ \ {u}]
            /\ Goto(t, "unregister")
            /\ UNCHANGED <<sessionMu, kind, held>>
    /\ UNCHANGED <<registryVars, storeVars, flight, counter, profiles, draft>>

-----------------------------------------------------------------------------
\* One step of a goroutine that is serving something.
Serve(t) ==
    \/ LockSession(t)
    \/ Lookup(t)
    \/ Touch(t)
    \/ EnterFlight(t)
    \/ LoadRow(t)
    \/ ReadConfig(t)
    \/ \E i \in Insts : Materialize(t, i)
    \/ InitializeMCP(t)
    \/ RegisterTools(t)
    \/ Dispatch(t)
    \/ TouchForTurn(t)
    \/ StartTurn(t)
    \/ EndTurn(t)
    \/ AnswerCommand(t)
    \/ CountTurn(t)
    \/ Refuse(t)
    \/ TruncateConfig(t)
    \/ WriteConfig(t)
    \/ SetModel(t)
    \/ InsertUser(t)
    \/ DeleteRow(t)
    \/ Unregister(t)
    \/ CloseMCP(t)
    \/ CloseInstance(t)
    \/ Sweep(t)

GrowOld(u) ==
    /\ Age(u)
    /\ UNCHANGED <<storeVars, flight, bridgeVars, pc, kind, user, todo, held, draft>>

Next ==
    \/ \E t \in Threads, u \in Users, k \in AllKinds : Begin(t, k, u)
    \/ \E t \in Threads, u \in Users : BeginProfile(t, u)
    \/ \E t \in Threads : "reap" \in Kinds /\ BeginSweep(t, "reap")
    \/ BeginSweep(Reaper, "ticker")
    \/ \E t \in Workers : Serve(t)
    \/ \E u \in Users : GrowOld(u)

Spec == Init /\ [][Next]_vars

\* Go schedules every runnable goroutine; sync.Mutex hands itself to a waiter
\* that has starved for 1 ms; turns, MCP start-up and database calls end (they
\* carry timeouts); the ticker keeps ticking.
Fairness ==
    /\ \A t \in Workers : WF_vars(Serve(t)) /\ SF_vars(LockSession(t))
    /\ WF_vars(BeginSweep(Reaper, "ticker"))

FairSpec == Spec /\ Fairness

-----------------------------------------------------------------------------
(* Properties.                                                             *)

\* The registry never hands out an instance that is being torn down: what is
\* registered is open, belongs to that tenant, and has a lastUsed entry for the
\* reaper to find it by (registry.go: both maps change in one critical section,
\* and an instance leaves the maps before Close touches it).
RegistryConsistent ==
    \A u \in Users :
        /\ Registered(u) <=> lastUsed[u] # "absent"
        /\ Registered(u) => life[agents[u]] = "open" /\ built[agents[u]].user = u

\* Concurrent first messages of one tenant build one instance: while a
\* materialization is under way no other goroutine is inside one, and
\* "already registered" is never the answer (server.go, Server.materialize).
Building == {"recheck", "load", "readcfg", "add", "mcp", "tools"}

SingleFlight ==
    /\ \A t \in Workers : pc[t] \in Building => Leads(t)
    /\ \A t \in Workers : pc[t] # "duplicate"

\* Nothing that was built is forgotten: an instance that is not closed is either
\* registered for its tenant or in the hands of exactly one goroutine that is
\* closing it.  Otherwise its session database and provider stay open for ever
\* (registry.go, RemoveUserAgent: the goroutine that took it out closes it).
Closers(i) == {t \in Workers : pc[t] \in {"closemcp", "close"} /\ held[t] = i}

NoInstanceLost ==
    \A i \in Insts : life[i] \in {"open", "closing"} =>
        \/ agents[built[i].user] = i /\ Closers(i) = {}
        \/ /\ \A u \in Users : agents[u] # i
           /\ \E t \in Closers(i) : Closers(i) = {t}

\* A turn that is running when its instance is closed has just ended.
Uncut ==
    \A t \in Workers :
        pc[t] = "turn" /\ life[held[t]] # "closed" /\ life'[held[t]] = "closed"
            => pc'[t] # "turn"

\* A turn that reached its tenant's open instance is never cut: the instance is
\* not closed before the turn ends (turn_coord.go holds modelMu for reading,
\* instance.go takes it for writing).
TurnNotCut == [][Uncut]_vars

\* A settings update takes down every instance built from what was stored before
\* it: when the registered instance was built from other content than is stored
\* now, an update of that tenant is still on its way to RemoveUserAgent
\* (user_config.go and models.go: store first, then drop the instance).
Updating(u) == \E t \in Workers : user[t] = u /\ kind[t] \in {"config", "model"}
                                   /\ pc[t] \in {"write", "unregister"}

UpdateDropsInstance ==
    \A u \in Users : Registered(u) =>
        LET b == built[agents[u]] IN
        (b.rowAt = row[u] /\ b.fileAt = file[u]) \/ Updating(u)

\* Messages of one tenant over the WebSocket run one turn at a time
\* (pico.go, handleInbound: sessionMu is held across ProcessToAgent).
WsSerial ==
    \A s, t \in Threads :
        s # t /\ user[s] = user[t] /\ kind[s] = "ws" /\ kind[t] = "ws"
            => ~(pc[s] = "turn" /\ pc[t] = "turn")

\* The registry and the instances' mutexes implement the pool that AgentPool
\* specifies: whatever goroutines build, look up, update, sweep and delete, a tenant
\* has one instance at most, which serves, is retired, drained and closed, in that
\* order and once, and no turn is on it when it is closed (registry.go, instance.go,
\* turn_coord.go).  The refinement mapping tells a retired instance from one that
\* serves by the registry, and one that is drained by the state of its modelMu.
Pool == INSTANCE AgentPool WITH
    serving  <- agents,
    retired  <- {i \in Insts : life[i] = "open" /\ \A u \in Users : agents[u] # i},
    draining <- {i \in Insts : life[i] = "closing"},
    using    <- [t \in Workers |-> IF pc[t] = "turn" THEN held[t] ELSE NoInst],
    Clients  <- Workers

PoolAsSpecified == Pool!Spec

\* Every request is answered: joiners are woken, session mutexes come free and a
\* Close that waits for turns gets its turn.
EveryRequestAnswered == \A t \in Threads : pc[t] # "idle" ~> pc[t] = "idle"

\* Memory tracks active users: an instance whose tenant stays silent past the
\* idle timeout leaves the registry (server.go, runReaper).
IdleReclaimed == \A u \in Users : lastUsed[u] = "stale" ~> lastUsed[u] # "stale"

-----------------------------------------------------------------------------
(* The inductive invariant behind RegistryConsistent, SingleFlight,        *)
(* NoInstanceLost and WsSerial.                                            *)

\* Who is where: only request goroutines materialize, the reaper only removes.
ReaperPlaces == {"idle", "sweep", "unregister", "closemcp", "close"}

Roles ==
    /\ kind[Reaper] = "ticker"
    /\ pc[Reaper] \in ReaperPlaces
    /\ \A t \in Threads : kind[t] # "ticker"
    /\ \A t \in Workers : pc[t] \notin {"idle", "sweep"} => user[t] \in Users
    /\ \A t \in Workers : pc[t] = "sweep" => kind[t] \in {"reap", "ticker"}

\* A WebSocket message is worked on under its session's mutex.
SessionHeld ==
    \A t \in Threads :
        kind[t] = "ws" /\ pc[t] \notin {"idle", "lock"} => sessionMu[user[t]] = t

\* The leader of a flight has a row to build from and nobody to build it twice.
Leading ==
    \A t \in Workers :
        /\ pc[t] \in {"load", "readcfg", "add"} => ~Registered(user[t])
        /\ pc[t] \in {"readcfg", "add"} => draft[t][1] \in Models

\* Which instance a goroutine works with, and what a closer has done to its own.
Handles ==
    \A t \in Workers :
        pc[t] \in {"mcp", "tools", "ptouch", "rlock", "turn"} => held[t] \in Insts

Closing ==
    \A t \in Workers :
        /\ pc[t] = "closemcp" => held[t] \in Insts /\ life[held[t]] = "open"
        /\ pc[t] = "close" => held[t] \in Insts /\ life[held[t]] = "closing"

Alive == \A i \in Insts : life[i] # "closed" => built[i] \in Builds

\* The invariant a step preserves: what the properties need to know about program
\* counters, pointers, mutexes and flights (all of server.go's ensureUserAgent and
\* registry.go's RemoveUserAgent at once).
IInv ==
    /\ TypeOK
    /\ Roles
    /\ SessionHeld
    /\ Leading
    /\ Handles
    /\ Closing
    /\ Alive
    /\ RegistryConsistent
    /\ SingleFlight
    /\ NoInstanceLost

-----------------------------------------------------------------------------
(* What comments of the code claim and its interleavings break.            *)

\* user_config.go: "Drop the tenant's in-memory instance so the change applies on
\* the next message (lazy rebuild reads the new config)": with no update and no
\* materialization under way, the next message meets the stored settings.
Quiet(u) == flight[u] = NoThread /\ ~Updating(u)

ChangeApplies ==
    \A u \in Users : Registered(u) /\ Quiet(u) =>
        built[agents[u]].model = row[u] /\ built[agents[u]].config = file[u]

\* user_config.go: the PUT is an "atomic write": no instance is built from a
\* config.json that is neither the old content nor the new one.
AtomicWrite == \A u \in Users : Registered(u) => built[agents[u]].config # Torn

\* pico.go: "sessionMu serializes turns per session ID so a session never runs two
\* agent turns concurrently".  Profile turns run on session "user:<id>" as well.
OneTurnPerSession ==
    \A s, t \in Threads :
        s # t /\ user[s] = user[t] /\ {kind[s], kind[t]} \subseteq {"ws", "profile"}
            => ~(pc[s] = "turn" /\ pc[t] = "turn")

\* registry.go: "Persisted workspace data on disk is untouched, so the agent can be
\* re-added later with full history": no turn appends to a closed session store.
TurnsPersist == \A t \in Threads : pc[t] = "turn" => life[held[t]] # "closed"

\* instance.go: CloseMCP is "releasing its per-tenant server connections / child
\* processes": a closed instance that nobody is still starting has none.
ClosedReleasesMCP ==
    \A i \in Insts : life[i] = "closed" /\ mcp[i] =>
        \E t \in Workers : pc[t] \in {"mcp", "tools"} /\ held[t] = i

=============================================================================
