----------------------------- MODULE MCService -----------------------------
(* The history of Service for TLC: a delta on the genesis, and on that one   *)
(* a delta and another that is refused.                                      *)
EXTENDS Service

MCParents == [h \in Deltas |-> IF h = 0 THEN {} ELSE IF h = 1 THEN {0} ELSE {1}]
=============================================================================
