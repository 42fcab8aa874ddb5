----------------------------- MODULE VaultStream -----------------------------
(****************************************************************************)
(* The Substreams package, substreams/erc4626: from one block of the chain  *)
(* to the raw rows of that block, without any state of its own.             *)
(*                                                                          *)
(* A block is [logs, calls]: the logs in order, each [address, kind, from,  *)
(* to, assets], and for each vault what a call would answer after the block *)
(* [assets, supply, decimals, value], or Null if the provider cannot be     *)
(* reached.  An answer is Null when the call reverts or cannot be decoded.  *)
(* The parameters of a release are [anchor, interval, vaults, schema]:      *)
(* vaults maps each curated address to the share decimals of its manifest.  *)
(****************************************************************************)
EXTENDS Integers, Sequences

CONSTANTS
  Null,       \* an absent value
  ZeroAddress \* where mints come from and burns go to

------------------------------------------------------------------------------
(* Parameters                                                               *)

\* 10^77 is the last power of ten in a uint256.
MaxDecimals == 77

\* Config::parse rejects everything else, and the package stops.
Accepts(params) ==
  /\ params.anchor \in Nat
  /\ params.interval \in Nat \ {0}
  /\ DOMAIN params.vaults # {}
  /\ \A v \in DOMAIN params.vaults : params.vaults[v] \in 0..MaxDecimals

\* one_share_units, by its exponent.
OneShareUnits(params, v) == params.vaults[v]

------------------------------------------------------------------------------
(* Events                                                                   *)

\* The members of a sequence at some positions, in their order.
Keep(s, positions) ==
  LET upTo[n \in 0..Len(s)] ==
        CASE n = 0 -> <<>>
          [] n \in positions -> Append(upTo[n - 1], s[n])
          [] OTHER -> upTo[n - 1]
  IN  upTo[Len(s)]

IsCurated(params, log) == log.address \in DOMAIN params.vaults

ClassifyTransfer(log) ==
  CASE log.from = ZeroAddress /\ log.to = ZeroAddress -> "unspecified"
    [] log.from = ZeroAddress /\ log.to # ZeroAddress -> "mint"
    [] log.from # ZeroAddress /\ log.to = ZeroAddress -> "burn"
    [] OTHER -> "transfer"

\* The flow row of a log.  A share transfer moves no assets.
FlowRow(log) ==
  IF log.kind = "share_transfer"
  THEN [vault |-> log.address, kind |-> log.kind, transferKind |-> ClassifyTransfer(log),
        assets |-> Null]
  ELSE [vault |-> log.address, kind |-> log.kind, transferKind |-> Null,
        assets |-> log.assets]

\* extract_events, in log order.
ExtractEvents(params, block) ==
  LET curated == {i \in DOMAIN block.logs : IsCurated(params, block.logs[i])}
      decoded == Keep(block.logs, curated)
  IN  [i \in DOMAIN decoded |-> FlowRow(decoded[i])]

\* Mutant: only deposits count as activity.
DepositingVaults(flows) == {flows[i].vault : i \in {j \in DOMAIN flows : flows[j].kind = "deposit"}}

\* Share transfers do not move a vault's assets.
ActiveVaults(flows) ==
  {flows[i].vault : i \in {j \in DOMAIN flows : flows[j].kind \in {"deposit", "withdraw"}}}

------------------------------------------------------------------------------
(* Snapshots                                                                *)

\* Mutant: the first block of the window is sampled like any other.
PlanWithoutAnchor(params, height, flows) ==
  {v \in DOMAIN params.vaults : v \in ActiveVaults(flows) \/ height % params.interval = 0}

\* plan_snapshots: the vaults to read at this block.
PlanSnapshots(params, height, flows) ==
  {v \in DOMAIN params.vaults :
     \/ v \in ActiveVaults(flows)
     \/ height % params.interval = 0
     \/ height = params.anchor}

Methods == {"assets", "supply", "decimals", "value"}

Failed(answers) == {m \in Methods : answers[m] = Null}

\* Mutant: a call without an answer is no error.
CallErrorsOfMismatch(params, v, answers) ==
  IF answers.decimals \notin {Null, params.vaults[v]} THEN {<<"decimals", "manifest_mismatch">>} ELSE {}

\* The errors of classify: every method that failed, and decimals that
\* contradict the manifest.
CallErrors(params, v, answers) ==
  {<<m, "reverted">> : m \in Failed(answers)}
    \cup IF answers.decimals \notin {Null, params.vaults[v]}
         THEN {<<"decimals", "manifest_mismatch">>} ELSE {}

\* The status of classify.
CallStatus(errors, answers) ==
  CASE errors = {} -> "ok"
    [] Failed(answers) = Methods -> "reverted"
    [] OTHER -> "partial"

NoAnswers == [m \in Methods |-> Null]

\* execute, and the row of the snapshot: a provider that cannot be reached
\* leaves every value absent, under an error of its own.
SnapshotRow(params, v, calls) ==
  LET answers == IF calls = Null THEN NoAnswers ELSE calls
      graded == CallErrors(params, v, answers)
  IN  [vault |-> v,
       assets |-> answers.assets,
       supply |-> answers.supply,
       units |-> OneShareUnits(params, v),
       value |-> answers.value,
       schema |-> params.schema,
       status |-> CallStatus(graded, answers),
       errors |-> IF calls = Null THEN {<<"*", "batch_failed">>} ELSE graded]

\* map_vault_block_batch and db_out: the rows of a block.
BlockBatch(params, height, block) ==
  LET flows == ExtractEvents(params, block)
  IN  [flows |-> flows,
       snapshots |-> {SnapshotRow(params, v, block.calls[v]) :
                        v \in PlanSnapshots(params, height, flows)}]

=============================================================================
