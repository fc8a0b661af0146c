------------------------------ MODULE AgentPool ------------------------------
(***************************************************************************)
(* What the registry of agents promises to those who talk to one: a tenant *)
(* is served by one instance at most; an instance that stops serving never *)
(* serves again; it is drained, which lets no new turn in and waits for    *)
(* the turns that run, and closed once.  Its identity, an address in       *)
(* memory, stands for a new instance only after that.                      *)
(*                                                                         *)
(* A turn may begin on any instance that is not being drained, one that is *)
(* closed already included: the code does not look (see TurnsPersist).     *)
(***************************************************************************)
CONSTANTS
    Users,      \* tenants
    Insts,      \* identities of instances
    Clients,    \* goroutines that run turns
    NoInst      \* no instance

VARIABLES
    serving,    \* serving[u]: the instance that serves u, or NoInst
    retired,    \* instances that no longer serve, and are not being closed yet
    draining,   \* instances that wait for the end of their turns
    using       \* using[t]: the instance on which t runs a turn, or NoInst

vars == <<serving, retired, draining, using>>

\* An identity nobody has any use for.
Free(i) ==
    /\ \A u \in Users : serving[u] # i
    /\ \A t \in Clients : using[t] # i
    /\ i \notin retired \cup draining

Init ==
    /\ serving = [u \in Users |-> NoInst]
    /\ retired = {}
    /\ draining = {}
    /\ using = [t \in Clients |-> NoInst]

\* The first message of u, or the first since its instance was retired.
Provide(u, i) ==
    /\ serving[u] = NoInst
    /\ Free(i)
    /\ serving' = [serving EXCEPT ![u] = i]
    /\ UNCHANGED <<retired, draining, using>>

\* Idle, reconfigured or deleted: u has no instance until the next message.
Retire(u) ==
    /\ serving[u] # NoInst
    /\ retired' = retired \cup {serving[u]}
    /\ serving' = [serving EXCEPT ![u] = NoInst]
    /\ UNCHANGED <<draining, using>>

Drain(i) ==
    /\ i \in retired
    /\ retired' = retired \ {i}
    /\ draining' = draining \cup {i}
    /\ UNCHANGED <<serving, using>>

Close(i) ==
    /\ i \in draining
    /\ \A t \in Clients : using[t] # i
    /\ draining' = draining \ {i}
    /\ UNCHANGED <<serving, retired, using>>

BeginTurn(t, i) ==
    /\ using[t] = NoInst
    /\ i \notin draining
    /\ using' = [using EXCEPT ![t] = i]
    /\ UNCHANGED <<serving, retired, draining>>

EndTurn(t) ==
    /\ using[t] # NoInst
    /\ using' = [using EXCEPT ![t] = NoInst]
    /\ UNCHANGED <<serving, retired, draining>>

Next ==
    \/ \E u \in Users, i \in Insts : Provide(u, i)
    \/ \E u \in Users : Retire(u)
    \/ \E i \in Insts : Drain(i) \/ Close(i)
    \/ \E t \in Clients, i \in Insts : BeginTurn(t, i)
    \/ \E t \in Clients : EndTurn(t)

Spec == Init /\ [][Next]_vars

=============================================================================
