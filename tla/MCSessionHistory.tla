-------------------------- MODULE MCSessionHistory --------------------------
(* Instances of SessionHistory for TLC: see the cfg files.                 *)
EXTENDS SessionHistory, TLC

CONSTANTS t1, t2, LoopMessages, LongMessages, DirectMessages

MCMaxSaid == [d \in AllDrivers |-> IF d = "loop" THEN LongMessages ELSE DirectMessages]

TurnSymmetry == Permutations(Turns)

\* Everything may happen in a session of the loop with up to LoopMessages messages;
\* a longer one is followed as far as it was only truncated.
OnlyTruncated ==
    /\ stop = NoStop
    /\ \A t \in Turns : ~abort[t] /\ at[t] \notin {"compress", "squeeze", "refresh"}
    /\ \A i \in DOMAIN msgs : msgs[i] = Len(said) - Len(msgs) + i

Bounded == driver = "loop" /\ Len(said) > LoopMessages => OnlyTruncated

=============================================================================
