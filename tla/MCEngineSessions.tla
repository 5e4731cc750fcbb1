---------------------------- MODULE MCEngineSessions ----------------------------
(* The sessions of EngineSessions are interchangeable.                       *)
EXTENDS EngineSessions, TLC

Interchangeable == Permutations(Sids)
=============================================================================
