---------------------------- MODULE MCPromotion ----------------------------
(* Small networks for TLC: a trunk "A" and the branches that leave it.      *)
EXTENDS Promotion

\* The first height at which branch b differs from the trunk.  E never does: it
\* is the trunk again, once the network has come back to it.
ForkAt == [A |-> 0, B |-> 2, C |-> 4, D |-> 1, E |-> MaxHead + 1]

MCHashes == {<<h, b>> : h \in Heights, b \in Branches}

MCBlockHash ==
  [b \in Branches |-> [h \in Heights |-> IF h < ForkAt[b] THEN <<h, "A">> ELSE <<h, b>>]]

MCHeight == [x \in MCHashes |-> x[1]]

\* Every other block carries rows; those of height 3 need the next release.
MixedRows ==
  [x \in MCHashes |-> CASE x[1] = 3 -> "unknown" [] x[1] % 2 = 1 -> "known" [] OTHER -> "none"]

AllRows == [x \in MCHashes |-> "known"]

\* A row that needs the next release below the confirmed head of three blocks, which
\* the other branch does not have at all.
LateRows ==
  [x \in MCHashes |-> CASE x = <<2, "A">> -> "unknown" [] x = <<2, "D">> -> "none" [] OTHER -> "known"]

\* The blocks that branch B replaces carry no row on the trunk.
SparseTrunk ==
  [x \in MCHashes |-> IF x[2] = "A" /\ x[1] >= ForkAt["B"] THEN "none" ELSE "known"]

Either == {<<"A", "B">>, <<"A", "C">>}
ToB == {<<"A", "B">>}
ToD == {<<"A", "D">>}
ThereAndBack == {<<"A", "D">>, <<"D", "E">>}

\* Calm conditions: a reorg finds no job running, and by the time a job starts
\* the sink has undone and written again what the reorg replaced.
Calm ==
  /\ branch' # branch => pc = "idle"
  /\ pc = "idle" /\ pc' # "idle" => sinkHead = head /\ Agree(sinkBranch, branch, sinkHead)

CalmSpec == Init /\ [][Next /\ Calm]_vars /\ Fairness

============================================================================
