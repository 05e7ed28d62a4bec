------------------------ MODULE MCPrefixShardLedger ------------------------
(* The prefix ledger for TLC: owners and callers are interchangeable. *)
EXTENDS PrefixShardLedger, TLC

Symmetry == Permutations(Owners) \cup Permutations(Callers)
=============================================================================
