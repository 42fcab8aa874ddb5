--------------------------- MODULE EvidenceEngine ---------------------------
(****************************************************************************)
(* The evidence engine, packages/evidence: pure functions from a window of  *)
(* promoted observations to the figures of a report.                        *)
(*                                                                          *)
(* A snapshot is a record of its block (`at`, and `gen`, which tells the    *)
(* hashes of one height apart), its time, total assets, one-share units and *)
(* value, and schema.  Null is SQL's NULL: the call gave no usable answer.  *)
(* Amounts are bigints, hence integers without a width.                     *)
(****************************************************************************)
EXTENDS Integers, FiniteSetsExt

CONSTANTS
  Null,             \* an absent value
  BasisPointsScale, \* how many basis points make one: 10000 in the code
  SecondsPerDay     \* SECONDS_PER_DAY: 86400 in the code

\* What is absent is no amount and no kind of transfer.
ASSUME NullAssumption == Null \notin Int \cup {"mint", "burn"}
ASSUME ScaleAssumption == BasisPointsScale \in Nat \ {0}
ASSUME DayAssumption == SecondsPerDay \in Nat \ {0}

------------------------------------------------------------------------------
(* Rationals                                                                *)

Sign(n) == IF n < 0 THEN -1 ELSE 1
Magnitude(n) == Sign(n) * n

\* Euclid's loop, on naturals.
gcd[p \in Nat \X Nat] == IF p[2] = 0 THEN p[1] ELSE gcd[<<p[2], p[1] % p[2]>>]

\* Division of bigints: toward zero.
Truncated(n, d) == Sign(n) * Sign(d) * (Magnitude(n) \div Magnitude(d))

\* Lowest terms, the sign on the numerator.
Reduce(n, d) ==
  LET divisor == gcd[<<Magnitude(n), Magnitude(d)>>]
  IN  [numerator |-> Truncated(Sign(d) * n, divisor), denominator |-> Magnitude(d) \div divisor]

\* Mutant: bigint division itself, which rounds a loss up.
FloorDivTruncates(n, d) == Truncated(n, d)

FloorDiv(n, d) ==
  LET quotient == Truncated(n, d)
      inexact == n # quotient * d
  IN  IF inexact /\ (n < 0) # (d < 0) THEN quotient - 1 ELSE quotient

ToBasisPoints(ratio) == FloorDiv(ratio.numerator * BasisPointsScale, ratio.denominator)

------------------------------------------------------------------------------
(* Figures                                                                  *)

\* The return of one share, in basis points, or why there is none.
ObserveShareValue(start, end) ==
  CASE end = Null \/ start = Null -> [bps |-> Null, reasons |-> {"MISSING_OBSERVATION"}]
    [] start = 0 -> [bps |-> Null, reasons |-> {"AMBIGUOUS_CAPABILITY"}]
    [] OTHER -> [bps |-> ToBasisPoints(Reduce(end - start, start)), reasons |-> {}]

\* What makes two snapshots incomparable.  One vault is modelled, so they never
\* belong to two.
CheckCompatibility(start, end) ==
  IF /\ start # Null
     /\ start.units # end.units \/ start.schema # end.schema
  THEN {"INCOMPATIBLE_IMPLEMENTATION"}
  ELSE {}

\* Deposits less withdrawals.  Share transfers move no assets, and an event
\* without an amount is left out.
NetFlow(flows) ==
  LET Sum(kind) ==
        SumFunctionOnSet([i \in DOMAIN flows |-> flows[i].assets],
                         {i \in DOMAIN flows : flows[i].kind = kind /\ flows[i].assets # Null})
  IN  Sum("deposit") - Sum("withdraw")

ElapsedSeconds(start, end) == IF start = Null THEN Null ELSE end.time - start.time

\* serialiseSnapshot: what of a snapshot the report identity covers, which is all
\* but how its calls went.
SerialiseSnapshot(s) ==
  IF s = Null THEN Null
  ELSE [at |-> s.at, gen |-> s.gen, time |-> s.time, assets |-> s.assets, supply |-> s.supply,
        units |-> s.units, value |-> s.value, schema |-> s.schema]

\* The blocks a report says its figures come from.
Provenance(start, end) == {<<s.at, s.gen>> : s \in {start, end} \ {Null}}

\* Mutant: half a day off the window asked for goes without a word.
DistantAboveHalfADay(elapsed, days) ==
  elapsed # Null /\ 2 * Magnitude(elapsed - days * SecondsPerDay) > SecondsPerDay

\* The observations lie half a day or more off the window asked for.
Distant(elapsed, days) ==
  elapsed # Null /\ 2 * Magnitude(elapsed - days * SecondsPerDay) >= SecondsPerDay

\* What a reader must know to interpret the figures, one tag for each sentence.
Limitations(reasons, flows, elapsed, days) ==
  LET rows == {flows[i] : i \in DOMAIN flows}
      applies ==
        [distant      |-> Distant(elapsed, days),
         no_start     |-> "MISSING_OBSERVATION" \in reasons,
         ambiguous    |-> "AMBIGUOUS_CAPABILITY" \in reasons,
         reverted     |-> "CALL_REVERTED" \in reasons,
         incomparable |-> reasons \cap {"INCOMPATIBLE_IMPLEMENTATION", "INCOMPATIBLE_ASSET"} # {},
         share_side   |-> \E f \in rows : f.transferKind \in {"mint", "burn"},
         lower_bound  |-> \E f \in rows : f.kind # "share_transfer" /\ f.assets = Null]
  IN  {tag \in DOMAIN applies : applies[tag]}

\* A draft.  `id` is everything the report identity covers: what was observed
\* and the window asked for, neither the policy nor the time of the request.  No
\* account is read, so maxWithdraw is absent.
BuildEvidence(start, end, flows, days) ==
  LET incompatible == CheckCompatibility(start, end)
      value == ObserveShareValue(IF start = Null THEN Null ELSE start.value, end.value)
      reasons == (IF incompatible = {} THEN value.reasons ELSE incompatible)
                   \cup (IF end.assets = Null THEN {"CALL_REVERTED"} ELSE {})
  IN  [id |-> [start |-> SerialiseSnapshot(start), end |-> SerialiseSnapshot(end),
               flows |-> flows, days |-> days],
       time |-> end.time,
       bps |-> IF incompatible = {} THEN value.bps ELSE Null,
       days |-> days,
       assets |-> end.assets,
       netFlow |-> NetFlow(flows),
       maxWithdraw |-> Null,
       elapsed |-> ElapsedSeconds(start, end),
       reasons |-> reasons,
       provenance |-> Provenance(start, end),
       limitations |-> Limitations(reasons, flows, ElapsedSeconds(start, end), days)]

IsComplete(draft) == draft.bps # Null /\ draft.assets # Null

=============================================================================
