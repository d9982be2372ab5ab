------------------------------- MODULE MCGate -------------------------------
(* Model-checking instances of the gate. *)
EXTENDS Gate, TLC

CONSTANTS cheap, dear
MCPrice == [t \in Tool |-> IF t = dear THEN 2 ELSE 1]

SymmetricRequests == Permutations(Req)
=============================================================================
