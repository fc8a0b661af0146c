--------------------------- MODULE AgentRegistry ---------------------------
(***************************************************************************)
(* picoclaw's dynamic agent registry (pkg/agent/registry.go) and the life  *)
(* of the AgentInstance objects it hands out (pkg/agent/instance.go).      *)
(*                                                                         *)
(* The registry is two maps under one RWMutex: agents (id -> instance) and *)
(* lastUsed (id -> time).  Each critical section is one operator here, for *)
(* a composing module to put in its actions.  An instance outlives its     *)
(* registry entry: whoever looked it up keeps the pointer, so its own life *)
(* is tracked apart from the maps.                                         *)
(***************************************************************************)
CONSTANTS
    Users,      \* tenant ids; an agent id is its tenant's id
    Insts,      \* identities of AgentInstance objects, recycled by Go's GC
    Models,     \* values of the users.model column
    Configs,    \* contents of a tenant's config.json
    NoInst,     \* a nil *AgentInstance
    NoRow,      \* no row in the users table
    NoFile,     \* no config.json on disk
    NoBuild,    \* of an instance that does not exist
    Torn        \* config.json between O_TRUNC and the write of its bytes

ASSUME RegistryAssumption ==
    /\ NoInst \notin Insts
    /\ NoRow \notin Models
    /\ NoFile \notin Configs
    /\ Torn \notin Configs \cup {NoFile}

VARIABLES
    agents,     \* agents[u]: the instance registered for u, or NoInst
    lastUsed,   \* lastUsed[u]: "absent", "fresh", or "stale" (before the cutoff)
    life,       \* life[i]: "open", "closing" (modelMu.Lock pending), "closed" (or never made)
    mcp,        \* mcp[i]: does i's mcpState hold a live MCP manager
    built       \* built[i]: what i was built from; history, kept until i is closed

registryVars == <<agents, lastUsed, life, mcp, built>>

Stored == Configs \cup {NoFile, Torn}

\* rowAt and fileAt: what was stored when i was registered, not when it was read.
Builds == [user : Users, model : Models, config : Stored,
           rowAt : Models \cup {NoRow}, fileAt : Stored]

RegistryTypeOK ==
    /\ agents \in [Users -> Insts \cup {NoInst}]
    /\ lastUsed \in [Users -> {"absent", "fresh", "stale"}]
    /\ life \in [Insts -> {"open", "closing", "closed"}]
    /\ mcp \in [Insts -> BOOLEAN]
    /\ built \in [Insts -> Builds \cup {NoBuild}]

RegistryInit ==
    /\ agents = [u \in Users |-> NoInst]
    /\ lastUsed = [u \in Users |-> "absent"]
    /\ life = [i \in Insts |-> "closed"]
    /\ mcp = [i \in Insts |-> FALSE]
    /\ built = [i \in Insts |-> NoBuild]

-----------------------------------------------------------------------------
(* Critical sections of the registry mutex.                                *)

\* GetAgent
Registered(u) == agents[u] # NoInst

\* Mutant of TouchAgent: stamps an id that was unregistered since its lookup.
TouchUnchecked(u) ==
    /\ lastUsed' = [lastUsed EXCEPT ![u] = "fresh"]
    /\ UNCHANGED <<agents, life, mcp, built>>

\* Touch: a no-op on an id that is no longer registered.
TouchAgent(u) ==
    /\ lastUsed' = IF Registered(u) THEN [lastUsed EXCEPT ![u] = "fresh"] ELSE lastUsed
    /\ UNCHANGED <<agents, life, mcp, built>>

\* addUserAgent, past its "already registered" check: the new instance i is
\* visible to every GetAgent from here on, before it has any MCP server.
AddUserAgent(u, i, b) ==
    /\ agents' = [agents EXCEPT ![u] = i]
    /\ lastUsed' = [lastUsed EXCEPT ![u] = "fresh"]
    /\ life' = [life EXCEPT ![i] = "open"]
    /\ mcp' = [mcp EXCEPT ![i] = FALSE]
    /\ built' = [built EXCEPT ![i] = b]

\* RemoveUserAgent, the locked half: both maps forget u.
UnregisterAgent(u) ==
    /\ agents' = [agents EXCEPT ![u] = NoInst]
    /\ lastUsed' = [lastUsed EXCEPT ![u] = "absent"]
    /\ UNCHANGED <<life, mcp, built>>

\* Mutant of IdleAgents: the comparison with the cutoff is turned round.
RecentAgents == {u \in Users : lastUsed[u] = "fresh"}

IdleAgents == {u \in Users : lastUsed[u] = "stale"}

\* The clock passes lastUsed[u] + IdleTimeout.
Age(u) ==
    /\ lastUsed[u] = "fresh"
    /\ lastUsed' = [lastUsed EXCEPT ![u] = "stale"]
    /\ UNCHANGED <<agents, life, mcp, built>>

-----------------------------------------------------------------------------
(* AgentInstance.Close runs after the registry mutex is released.          *)

\* CloseMCP, and the announcement of modelMu.Lock that holds new readers off.
BeginClose(i) ==
    /\ mcp' = [mcp EXCEPT ![i] = FALSE]
    /\ life' = [life EXCEPT ![i] = "closing"]
    /\ UNCHANGED <<agents, lastUsed, built>>

\* modelMu is held for writing: providers and the session store are closed.
FinishClose(i) ==
    /\ life' = [life EXCEPT ![i] = "closed"]
    /\ built' = [built EXCEPT ![i] = NoBuild]
    /\ UNCHANGED <<agents, lastUsed, mcp>>

\* initializeMCP: the manager is installed when a server is configured and loads.
StartMCP(i) ==
    /\ \E up \in BOOLEAN : mcp' = [mcp EXCEPT ![i] = up]
    /\ UNCHANGED <<agents, lastUsed, life, built>>

\* Mutant of Readable: readers overtake the pending writer.
ReadableAnyway(i) == TRUE

\* modelMu.RLock waits only for a pending writer; a closed instance admits readers.
Readable(i) == life[i] # "closing"

=============================================================================
