--------------------------- MODULE MCActionConsole ---------------------------
(* Small instances of ActionConsole for TLC.                                *)
EXTENDS ActionConsole, TLC

\* An approval and a deposit, and a deposit alone.
TwoCalls == {<<"approve", "deposit">>}
OneCall == {<<"deposit">>}

\* No definition tells two hashes or two requests apart.
ConsoleSymmetry == Permutations(TxHashes) \cup Permutations(Requests)

=============================================================================
