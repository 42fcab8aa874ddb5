-------------------------- MODULE ConfirmedHistory --------------------------
(****************************************************************************)
(* What the observation tables promise whoever reads them: a ledger of      *)
(* attested blocks that only ever grows at its end, and the rows of exactly *)
(* the blocks in it.  No chain, no sink, no job, no cursor.                 *)
(****************************************************************************)
EXTENDS Integers

CONSTANTS
  Hashes,    \* block hashes
  RowKind    \* RowKind[x] = "none" when block x carries no row

VARIABLES
  ledger,    \* the attested block of each height
  observed   \* the blocks whose rows a reader sees

\* The blocks of a ledger that carry rows.
RowBlocks(l) == {x \in Hashes : RowKind[x] # "none" /\ \E h \in DOMAIN l : l[h] = x}

Init ==
  /\ DOMAIN ledger = {}
  /\ observed = {}

\* Blocks are attested above those that already are, with all their rows.
Attest ==
  /\ DOMAIN ledger \subseteq DOMAIN ledger'
  /\ \A h \in DOMAIN ledger : ledger'[h] = ledger[h]
  /\ \A h \in DOMAIN ledger' \ DOMAIN ledger, k \in DOMAIN ledger : k < h
  /\ observed' = RowBlocks(ledger')

Spec == Init /\ [][Attest]_<<ledger, observed>>

=============================================================================
