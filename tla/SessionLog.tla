----------------------------- MODULE SessionLog -----------------------------
(***************************************************************************)
(* What the agent loop may expect of a session's history (memory/store.go, *)
(* interface Store): a message that is said goes to the end of the log;    *)
(* everything else that happens to the log - truncation, compression, a    *)
(* rollback, clearing, deletion - leaves a selection of what was said, in  *)
(* the order in which it was said and with no message twice.               *)
(***************************************************************************)
EXTENDS Integers, Sequences

VARIABLES
    log,    \* the messages GetHistory returns, each by the moment it was said
    births  \* how many messages have been said

vars == <<log, births>>

\* A selection of the first n messages, in order.
IsSelection(s, n) ==
    /\ s \in Seq(1..n)
    /\ \A i, j \in 1..Len(s) : i < j => s[i] < s[j]

Init ==
    /\ log = <<>>
    /\ births = 0

Say ==
    /\ births' = births + 1
    /\ log' = Append(log, births')

Rewrite ==
    /\ IsSelection(log', births)
    /\ UNCHANGED births

Next == Say \/ Rewrite

Spec == Init /\ [][Next]_vars

=============================================================================
