--------------------------- MODULE MCControlPlane ---------------------------
(* Instances of ControlPlane for TLC.                                      *)
EXTENDS ControlPlane, TLC

Symmetry == Permutations(Threads) \cup Permutations(Insts) \cup Permutations(Models)

RequestKinds  == {"chat", "ws", "profile", "register", "delete", "reap"}
AnswerKinds   == {"chat", "ws", "reap"}
SettingsKinds == {"chat", "config", "model"}
ModelKinds    == {"chat", "model"}
ConfigKinds   == {"chat", "config"}
ProfileKinds  == {"ws", "profile"}
ChatKinds     == {"chat"}

\* Every tenant is registered when the server starts.
RegisteredInit == Init /\ \A u \in Users : row[u] # NoRow
RegisteredSpec == RegisteredInit /\ [][Next]_vars

\* As RegisteredSpec, and no agent outlives IdleTimeout (10 minutes by default)
\* between a request's arrival and the start of its turn.
Prompt ==
    \A u \in Users : lastUsed[u] = "fresh" /\ lastUsed'[u] = "stale" =>
        \A t \in Threads : user[t] = u => pc[t] = "turn"

PromptSpec == RegisteredInit /\ [][Next /\ Prompt]_vars

\* Two reductions for liveness checking, which allows no symmetry: instances are
\* interchangeable, so a new one may always be the first that is free; and no
\* tenant has an MCP server, since nothing waits for one to be up.
FirstFree ==
    \A i \in Insts : life[i] = "closed" /\ life'[i] = "open" =>
        i = CHOOSE j \in Insts : Garbage(j)

NoServers == UNCHANGED mcp

LiveSpec == RegisteredInit /\ [][Next /\ FirstFree /\ NoServers]_vars /\ Fairness

=============================================================================
