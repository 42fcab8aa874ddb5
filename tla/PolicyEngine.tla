---------------------------- MODULE PolicyEngine ----------------------------
(****************************************************************************)
(* The policy engine, packages/policy: five rules over a draft, each PASS,  *)
(* FAIL or UNKNOWN, and their combination.                                  *)
(*                                                                          *)
(* A policy is a record: allowed assets, historyDays, minTvl, the return    *)
(* minBps over bpsDays, and the owner's minWithdraw.                        *)
(****************************************************************************)
EXTENDS EvidenceEngine

\* No verdict is none of the three.
ASSUME VerdictAssumption == Null \notin {"PASS", "FAIL", "UNKNOWN"}

RuleKeys == {"underlyingAsset", "minimumHistory", "minimumTvl",
             "minimumObservedReturn", "minimumWithdrawableAssets"}

Pass(observed) == [status |-> "PASS", observed |-> observed, reasons |-> {}]
Fail(observed, reasons) == [status |-> "FAIL", observed |-> observed, reasons |-> reasons]
Unknown(observed, reasons) == [status |-> "UNKNOWN", observed |-> observed, reasons |-> reasons]

AtLeast(observed, threshold) ==
  IF observed >= threshold THEN Pass(observed) ELSE Fail(observed, {})

\* The draft's own reasons among the candidates, or else the first candidate.
ReasonsFor(draft, candidates, first) ==
  IF draft.reasons \cap candidates = {} THEN {first} ELSE draft.reasons \cap candidates

\* The registry's key of the vault's asset.  The API always has an answer from
\* the registry, Null when the address matches no curated asset.
UnderlyingAsset(policy, key) ==
  CASE key = Null -> Unknown(Null, {"INCOMPATIBLE_ASSET"})
    [] key # Null /\ key \in policy.assets -> Pass(key)
    [] OTHER -> Fail(key, {"INCOMPATIBLE_ASSET"})

\* Too little history is the vault's fault when the vault is that young, and
\* the index's otherwise.
MinimumHistory(policy, draft, deployedAt) ==
  LET required == policy.historyDays * SecondsPerDay
      covered == draft.elapsed
  IN  CASE covered # Null /\ covered >= required -> Pass(covered)
        [] deployedAt # Null /\ draft.time - deployedAt < required
             /\ (covered = Null \/ covered < required) -> Fail(draft.time - deployedAt, {})
        [] OTHER -> Unknown(covered, {"MISSING_OBSERVATION"})

MinimumTvl(policy, draft) ==
  IF draft.assets = Null
  THEN Unknown(Null, {"CALL_REVERTED"})
  ELSE AtLeast(draft.assets, policy.minTvl)

\* Mutant: an absent return counts as no return at all.
MinimumObservedReturnOfZero(policy, draft) ==
  AtLeast(IF draft.bps = Null THEN 0 ELSE draft.bps, policy.minBps)

\* A return over another window than the policy's answers another question.
MinimumObservedReturn(policy, draft) ==
  CASE draft.bps = Null ->
         Unknown(Null, ReasonsFor(draft,
           {"MISSING_OBSERVATION", "AMBIGUOUS_CAPABILITY", "INCOMPATIBLE_IMPLEMENTATION",
            "INCOMPATIBLE_ASSET"}, "MISSING_OBSERVATION"))
    [] draft.bps # Null /\ draft.days # policy.bpsDays ->
         Unknown(draft.bps, {"MISSING_OBSERVATION"})
    [] OTHER -> AtLeast(draft.bps, policy.minBps)

\* Evidence of one wallet never satisfies a rule about another's.
MinimumWithdrawable(policy, draft, owner) ==
  CASE owner = Null -> Unknown(Null, {"MISSING_OBSERVATION"})
    [] owner # Null /\ owner # policy.owner -> Unknown(Null, {"WALLET_CONTEXT_CHANGED"})
    [] owner = policy.owner /\ draft.maxWithdraw = Null ->
         Unknown(Null, ReasonsFor(draft,
           {"AMBIGUOUS_CAPABILITY", "CALL_REVERTED", "UNSUPPORTED_CAPABILITY"},
           "AMBIGUOUS_CAPABILITY"))
    [] OTHER -> AtLeast(draft.maxWithdraw, policy.minWithdraw)

\* Mutant: a sweep without FAIL passes.
OverallStatusLenient(rules) ==
  IF \E k \in DOMAIN rules : rules[k].status = "FAIL" THEN "FAIL" ELSE "PASS"

OverallStatus(rules) ==
  LET statuses == {rules[k].status : k \in DOMAIN rules}
  IN  CASE "FAIL" \in statuses -> "FAIL"
        [] "FAIL" \notin statuses /\ "UNKNOWN" \in statuses -> "UNKNOWN"
        [] OTHER -> "PASS"

EvaluatePolicy(policy, draft, key, deployedAt, owner) ==
  LET rules ==
        [k \in RuleKeys |->
          CASE k = "underlyingAsset" -> UnderlyingAsset(policy, key)
            [] k = "minimumHistory" -> MinimumHistory(policy, draft, deployedAt)
            [] k = "minimumTvl" -> MinimumTvl(policy, draft)
            [] k = "minimumObservedReturn" -> MinimumObservedReturn(policy, draft)
            [] k = "minimumWithdrawableAssets" -> MinimumWithdrawable(policy, draft, owner)]
  IN  [status |-> OverallStatus(rules), rules |-> rules]

=============================================================================
