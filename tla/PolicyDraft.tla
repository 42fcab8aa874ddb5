---------------------------- MODULE PolicyDraft ----------------------------
(****************************************************************************)
(* The policy panel: from the six texts of a draft to a policy, the issues  *)
(* the contract takes with it and where the panel shows them.  apps/web     *)
(* policy-draft and PolicyBuilder, packages/policy schema, packages/domain  *)
(* policy.                                                                  *)
(*                                                                          *)
(* A text is [value, plain]: the integer it spells, or Null, and whether it *)
(* spells it as the contract writes amounts: no sign, space or leading      *)
(* zero.  The owner's text is its address, or Null when it is none.         *)
(****************************************************************************)
EXTENDS PolicyEngine

CONSTANT MaxSafeInteger \* 2^53 - 1 in the code

ASSUME SafeAssumption == MaxSafeInteger \in Nat

Text(text) == [type |-> "string", value |-> text.value, plain |-> text.plain]

\* A number when the text is one, spaces and leading zeros aside.
NumberOrRaw(text) ==
  IF text.value # Null THEN [type |-> "number", value |-> text.value] ELSE Text(text)

\* What is posted: shaped as a policy, and perhaps none.
DraftToPolicy(draft) ==
  [minHistoryDays |-> NumberOrRaw(draft.minHistoryDays),
   minTvlAssets |-> Text(draft.minTvlAssets),
   windowDays |-> NumberOrRaw(draft.returnWindowDays),
   returnBps |-> NumberOrRaw(draft.minObservedReturnBps),
   owner |-> draft.owner,
   withdrawable |-> Text(draft.minWithdrawableAssets)]

SafeInteger(json) == json.type = "number" /\ json.value \in -MaxSafeInteger..MaxSafeInteger
PositiveInteger(json) == SafeInteger(json) /\ json.value > 0
BaseUnits(json) == json.type = "string" /\ json.plain

\* validatePolicy: the paths, inside the policy, of what the contract refuses.
Issues(candidate) ==
  {path \in {"minHistoryDays", "minTvlAssets", "minObservedReturnBps.windowDays",
             "minObservedReturnBps.value", "minWithdrawableAssets.owner",
             "minWithdrawableAssets.value"} :
     CASE path = "minHistoryDays" -> ~PositiveInteger(candidate.minHistoryDays)
       [] path = "minTvlAssets" -> ~BaseUnits(candidate.minTvlAssets)
       [] path = "minObservedReturnBps.windowDays" -> ~PositiveInteger(candidate.windowDays)
       [] path = "minObservedReturnBps.value" -> ~SafeInteger(candidate.returnBps)
       [] path = "minWithdrawableAssets.owner" -> candidate.owner = Null
       [] path = "minWithdrawableAssets.value" -> ~BaseUnits(candidate.withdrawable)}

\* The policy of a candidate without issues.
PolicyOf(candidate) ==
  [assets |-> {"USDC"},
   historyDays |-> candidate.minHistoryDays.value,
   minTvl |-> candidate.minTvlAssets.value,
   bpsDays |-> candidate.windowDays.value,
   minBps |-> candidate.returnBps.value,
   owner |-> candidate.owner,
   minWithdraw |-> candidate.withdrawable.value]

\* Mutant: the return's window takes the path of its value.
PathForPrefix(field) ==
  CASE field = "returnWindowDays" -> "minObservedReturnBps.value"
    [] field = "owner" -> "minWithdrawableAssets.owner"
    [] field = "minWithdrawableAssets" -> "minWithdrawableAssets.value"
    [] field = "minObservedReturnBps" -> "minObservedReturnBps.value"
    [] OTHER -> field

\* Where a field's issues are.
PathFor(field) ==
  CASE field = "returnWindowDays" -> "minObservedReturnBps.windowDays"
    [] field = "minObservedReturnBps" -> "minObservedReturnBps.value"
    [] field = "owner" -> "minWithdrawableAssets.owner"
    [] field = "minWithdrawableAssets" -> "minWithdrawableAssets.value"
    [] OTHER -> field

\* The fields the panel marks invalid.
Marked(draft, issues) == {field \in DOMAIN draft : PathFor(field) \in issues}

\* formatBasisPoints: sign, whole percent and hundredths.
FormatBasisPoints(bps) ==
  [negative |-> bps < 0, whole |-> Magnitude(bps) \div 100, hundredths |-> Magnitude(bps) % 100]

=============================================================================
