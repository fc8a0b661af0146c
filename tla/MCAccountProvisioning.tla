------------------------ MODULE MCAccountProvisioning ------------------------
(* Instances of AccountProvisioning for TLC.                               *)
EXTENDS AccountProvisioning, TLC

CONSTANTS a, b, r1, r2, k1

\* A reduction for liveness checking, which allows no symmetry: user b only registers
\* and logs in, and does so through request r2.
Reduced ==
    /\ who'[r1] # b
    /\ who'[r2] = b => kind'[r2] # "create"
    /\ row[b] # NoRow => row'[b] # NoRow
    /\ config'[b] # "own"

LiveAccountSpec == AccountInit /\ [][AccountNext /\ Reduced]_accountVars /\ AccountFairness
=============================================================================
