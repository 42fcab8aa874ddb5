-------------------------- MODULE CapabilityProbes --------------------------
(****************************************************************************)
(* Onboarding evidence: what a curated vault answered at a block, and what  *)
(* that may back.  packages/chain vault-reader and capabilities, packages/  *)
(* evidence capability, and the onboarding gate of packages/test-vaults.    *)
(*                                                                          *)
(* A vault at a block is a record: what each method returns, in `plain` and *)
(* `capacity`, and the probed owner's `shares`.                             *)
(****************************************************************************)
EXTENDS Integers, FiniteSets

CONSTANTS
  PlainMethods,    \* methods of the vault alone
  CapacityMethods, \* methods that answer for an account: maxWithdraw, maxRedeem
  Reverts          \* what a method returns that reverts

\* A call that fails is an outcome; what it failed of is not told apart.
Read(answer, answers) ==
  IF answers /\ answer # Reverts THEN [ok |-> TRUE, value |-> answer] ELSE [ok |-> FALSE]

\* What a probing asks: the methods and the balance of the probed owner.
ProbedCalls == PlainMethods \cup CapacityMethods \cup {"balanceOf"}

\* What came back of one reading: `answered` are the calls the provider served.
ReadCalls(vault, answered) ==
  [plain |-> [m \in PlainMethods |-> Read(vault.plain[m], m \in answered)],
   capacity |-> [m \in CapacityMethods |-> Read(vault.capacity[m], m \in answered)],
   ownerShares |-> Read(vault.shares, "balanceOf" \in answered)]

\* The adapter sends two multicalls, one without and one with the account: each fails as a
\* whole when the provider does, and else one method of it at a time.
Batches == {"plain", "account"}

CallsOf(batch) == IF batch = "plain" THEN PlainMethods ELSE CapacityMethods \cup {"balanceOf"}

AnsweredBy(reached) == UNION {CallsOf(batch) : batch \in reached}

Probe(status, raw) == [status |-> status, raw |-> raw]

ProbeNumeric(outcome) ==
  IF outcome.ok THEN Probe("supported", outcome.value) ELSE Probe("reverted", Reverts)

ProbeCapacity(outcome, holds) ==
  IF outcome.ok /\ outcome.value = 0 /\ holds
  THEN Probe("nonstandard_zero", 0)
  ELSE ProbeNumeric(outcome)

\* A balance that could not be read is no balance.
OwnerHoldsShares(results) == results.ownerShares.ok /\ results.ownerShares.value > 0

ClassifyCapabilities(results, holds) ==
  [m \in PlainMethods \cup CapacityMethods |->
    IF m \in CapacityMethods
    THEN ProbeCapacity(results.capacity[m], holds)
    ELSE ProbeNumeric(results.plain[m])]

\* The blocks a vault is probed at.
ProbeBlocks == {"historical", "latest"}

\* Mutant: the head's balance stands for both blocks, as the first gate had it.
ProbeVaultByHead(vault, answered) ==
  [b \in ProbeBlocks |->
    ClassifyCapabilities(ReadCalls(vault[b], answered[b]),
                         OwnerHoldsShares(ReadCalls(vault["latest"], answered["latest"])))]

\* Both blocks, each with the balance of the block.
ProbeVault(vault, answered) ==
  [b \in ProbeBlocks |->
    LET results == ReadCalls(vault[b], answered[b])
    IN  ClassifyCapabilities(results, OwnerHoldsShares(results))]

Usability(status) == IF status = "supported" THEN "usable" ELSE "unknown"

\* A method that was never probed is unsupported.
StatusOf(probes, m) == IF m \in DOMAIN probes THEN probes[m].status ELSE "unsupported"

IsUsable(probes, m) == Usability(StatusOf(probes, m)) = "usable"

=============================================================================
