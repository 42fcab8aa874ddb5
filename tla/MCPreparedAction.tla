-------------------------- MODULE MCPreparedAction --------------------------
(* Small instances of PreparedAction for TLC.                               *)
EXTENDS PreparedAction, TLC

\* An approval and a deposit, and a deposit alone.
TwoCalls == {<<"approve", "deposit">>}
OneCall == {<<"deposit">>}

\* No definition tells two ids, two hashes or two requests apart.
Symmetry == Permutations(Actions) \cup Permutations(TxHashes) \cup Permutations(Requests)

=============================================================================
