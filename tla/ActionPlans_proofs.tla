------------------------- MODULE ActionPlans_proofs -------------------------
(****************************************************************************)
(* Theorems of ActionPlans: what a prepared plan does to the account, and   *)
(* what the tables say of it afterwards, for any asks, vaults, actions and  *)
(* hashes.                                                                  *)
(*                                                                          *)
(* The tables hold neither who signed nor what was mined.  PlansInv says    *)
(* how they are tied: a call is offered only after the calls before it were *)
(* reported, a wallet signs what was offered, and the chain mines in the    *)
(* order of the signatures.  So an approval is never mined after the        *)
(* deposit it is for, and what the vault may take has a deposit to come.    *)
(****************************************************************************)
EXTENDS ActionPlans, PreparedAction_proofs

(* Plans                                                                    *)

\* Sequences with the same elements at the same places are the same.
LEMMA SameElements ==
  ASSUME NEW S, NEW s \in Seq(S), NEW t \in Seq(S), Len(s) = Len(t),
         \A i \in 1..Len(s) : s[i] = t[i]
  PROVE  s = t
OBVIOUS

\* An approval and a deposit, concatenated.
LEMMA PairOf ==
  ASSUME NEW x, NEW y
  PROVE  <<x>> \o <<y>> = <<x, y>>
<1>. DEFINE joined == <<x>> \o <<y>>
            pair == <<x, y>>
<1>1. <<x>> \in Seq({x, y}) /\ <<y>> \in Seq({x, y}) /\ pair \in Seq({x, y})
  OBVIOUS
<1>2. Len(<<x>>) = 1 /\ Len(<<y>>) = 1 /\ Len(pair) = 2 /\ pair[1] = x /\ pair[2] = y
  OBVIOUS
<1>3. joined \in Seq({x, y})
  BY <1>1
<1>4. Len(joined) = 2
  BY <1>1, <1>2
<1>5. joined[1] = x
  BY <1>1, <1>2
<1>6. joined[2] = y
  BY <1>1, <1>2
<1>. HIDE DEF joined, pair
<1>7. \A i \in 1..Len(joined) : joined[i] = pair[i]
  BY <1>2, <1>4, <1>5, <1>6
<1>8. joined = pair
  BY <1>1, <1>2, <1>3, <1>4, <1>7, SameElements
<1>. QED
  BY <1>8 DEF joined, pair

\* The calls of a deposit: an approval of it if the allowance is short, or not read.
LEMMA DepositCallsAre ==
  ASSUME NEW ask, ask.kind = "deposit", NEW seen
  PROVE  PlanOf(ask, seen) =
           IF seen.allowance = Null \/ seen.allowance < ask.amount
             THEN <<Call("approve", ask), Call("deposit", ask)>>
             ELSE <<Call("deposit", ask)>>
<1>1. <<>> \o <<Call("deposit", ask)>> = <<Call("deposit", ask)>>
  OBVIOUS
<1>2. <<Call("approve", ask)>> \o <<Call("deposit", ask)>> =
        <<Call("approve", ask), Call("deposit", ask)>>
  BY PairOf
<1>. QED
  BY <1>1, <1>2 DEF PlanOf, DepositCalls

\* Plans are what the asks lead to: an operation, or an approval and a deposit.
LEMMA PlansAreAsked ==
  Plans = {<<Call(ask.kind, ask)>> : ask \in Asks}
             \cup {<<Call("approve", ask), Call("deposit", ask)>> :
                     ask \in {other \in Asks : other.kind = "deposit"}}
<1>. DEFINE Leads(ask) == {PlanOf(ask, [allowance |-> allowance]) : allowance \in {Null, ask.amount}}
            one(ask) == <<Call(ask.kind, ask)>>
            two(ask) == <<Call("approve", ask), Call("deposit", ask)>>
<1>1. ASSUME NEW ask \in Asks
      PROVE  Leads(ask) = IF ask.kind = "deposit" THEN {one(ask), two(ask)} ELSE {one(ask)}
  <2>1. /\ ask.kind \in {"deposit", "redeem"}
        /\ ask.amount # Null /\ ~(ask.amount < ask.amount)
    BY PlansAssumption
  <2>2. CASE ask.kind = "deposit"
    <3>1. PlanOf(ask, [allowance |-> Null]) = two(ask)
      BY <2>2, DepositCallsAre
    <3>2. PlanOf(ask, [allowance |-> ask.amount]) = one(ask)
      BY <2>1, <2>2, DepositCallsAre
    <3>. QED
      BY <2>2, <3>1, <3>2
  <2>3. CASE ask.kind = "redeem"
    BY <2>3 DEF PlanOf
  <2>. QED
    BY <2>1, <2>2, <2>3
<1>2. Plans = UNION {Leads(ask) : ask \in Asks}
  BY PlansAssumption
<1>. HIDE DEF Leads, one, two
<1>3. Plans = {one(ask) : ask \in Asks}
                \cup {two(ask) : ask \in {other \in Asks : other.kind = "deposit"}}
  <2>1. ASSUME NEW p \in Plans
        PROVE  \/ \E ask \in Asks : p = one(ask)
               \/ \E ask \in Asks : ask.kind = "deposit" /\ p = two(ask)
    BY <1>1, <1>2
  <2>2. ASSUME NEW ask \in Asks
        PROVE  one(ask) \in Plans /\ (ask.kind = "deposit" => two(ask) \in Plans)
    BY <1>1, <1>2
  <2>. QED
    BY <2>1, <2>2
<1>. QED
  BY <1>3 DEF one, two

\* What a plan is made of.
IsCall(c) == c.kind \in {"approve", "deposit", "redeem"} /\ c.amount \in Nat

\* Plans are an operation, or an approval of what the deposit after it spends.
LEMMA PlansAre ==
  \A p \in Plans :
    /\ Len(p) \in {1, 2}
    /\ \A i \in IndicesOf(p) : IsCall(p[i + 1])
    /\ p[Len(p)].kind \in {"deposit", "redeem"}
    /\ Len(p) = 2 => /\ p[1].kind = "approve" /\ p[2].kind = "deposit"
                     /\ p[2].amount = p[1].amount
<1>. SUFFICES ASSUME NEW p \in Plans
              PROVE  /\ Len(p) \in {1, 2}
                     /\ \A i \in IndicesOf(p) : IsCall(p[i + 1])
                     /\ p[Len(p)].kind \in {"deposit", "redeem"}
                     /\ Len(p) = 2 => /\ p[1].kind = "approve" /\ p[2].kind = "deposit"
                                      /\ p[2].amount = p[1].amount
  OBVIOUS
<1>1. CASE \E ask \in Asks : p = <<Call(ask.kind, ask)>>
  <2>1. PICK ask \in Asks : p = <<Call(ask.kind, ask)>>
    BY <1>1
  <2>2. /\ Len(p) = 1 /\ p[1].kind = ask.kind /\ p[1].amount = ask.amount
        /\ ask.kind \in {"deposit", "redeem"} /\ ask.amount \in Nat
    BY <2>1, PlansAssumption DEF Call
  <2>. QED
    BY <2>2 DEF IndicesOf, IsCall
<1>2. CASE \E ask \in Asks : ask.kind = "deposit" /\ p = <<Call("approve", ask), Call("deposit", ask)>>
  <2>1. PICK ask \in Asks : p = <<Call("approve", ask), Call("deposit", ask)>>
    BY <1>2
  <2>2. /\ Len(p) = 2 /\ p[1].kind = "approve" /\ p[1].amount = ask.amount
        /\ p[2].kind = "deposit" /\ p[2].amount = ask.amount /\ ask.amount \in Nat
    BY <2>1, PlansAssumption DEF Call
  <2>. QED
    BY <2>2 DEF IndicesOf, IsCall
<1>. QED
  BY <1>1, <1>2, PlansAreAsked

\* Whatever is read, what an ask leads to is a plan.
LEMMA AsksLeadToPlans ==
  ASSUME NEW ask \in Asks, NEW seen
  PROVE  PlanOf(ask, seen) \in Plans
<1>1. ask.kind \in {"deposit", "redeem"}
  BY PlansAssumption
<1>2. CASE ask.kind = "redeem"
  BY <1>2, PlansAreAsked DEF PlanOf
<1>3. CASE ask.kind = "deposit"
  <2>1. <<>> \o <<Call("deposit", ask)>> = <<Call("deposit", ask)>>
    OBVIOUS
  <2>2. <<Call("approve", ask)>> \o <<Call("deposit", ask)>> =
          <<Call("approve", ask), Call("deposit", ask)>>
    BY PairOf
  <2>3. PlanOf(ask, seen) \in {<<Call("deposit", ask)>>, <<Call("approve", ask), Call("deposit", ask)>>}
    BY <1>3, <2>1, <2>2 DEF PlanOf, DepositCalls
  <2>. QED
    BY <1>3, <2>3, PlansAreAsked
<1>. QED
  BY <1>1, <1>2, <1>3

\* The event of a vault call is its own contract's, and names who holds the shares.
LEMMA DecodedIs ==
  ASSUME NEW c, c.kind \in {"deposit", "redeem"}, NEW n
  PROVE  Decoded(c, Events(c, n)) =
           IF c.kind = "deposit" /\ c.receiver # "owner" THEN Null ELSE n
<1>. DEFINE name == IF c.kind = "deposit" THEN "Deposit" ELSE "Withdraw"
            holder == IF c.kind = "deposit" THEN c.receiver ELSE "owner"
            theirs == [by |-> "another", name |-> name, owner |-> holder, amount |-> n + 1]
            ours == [by |-> "vault", name |-> name, owner |-> holder, amount |-> n]
<1>1. Events(c, n) = <<theirs, ours>>
  BY DEF Events
<1>2. ~Matches(theirs, c.kind)
  BY DEF Matches
<1>3. Matches(ours, c.kind) <=> ~(c.kind = "deposit" /\ c.receiver # "owner")
  BY DEF Matches
<1>. DEFINE found == {i \in 1..Len(<<theirs, ours>>) : Matches(<<theirs, ours>>[i], c.kind)}
<1>4. found = IF Matches(ours, c.kind) THEN {2} ELSE {}
  <2>1. Len(<<theirs, ours>>) = 2 /\ <<theirs, ours>>[1] = theirs /\ <<theirs, ours>>[2] = ours
    OBVIOUS
  <2>. QED
    BY <1>2, <2>1
<1>5. SelectInSeq(<<theirs, ours>>, LAMBDA e : Matches(e, c.kind)) =
        IF Matches(ours, c.kind) THEN 2 ELSE 0
  <2>1. Min({2}) = 2
    BY DEF Min
  <2>. QED
    BY <1>4, <2>1 DEF SelectInSeq
<1>6. <<theirs, ours>>[2].amount = n
  OBVIOUS
<1>. QED
  BY <1>1, <1>3, <1>5, <1>6 DEF Decoded

-----------------------------------------------------------------------------
(* Execution                                                                *)

\* What the owner holds.
Account == [assets : Nat, allowance : Nat, shares : Nat]

\* What a call gives is a natural number: prices are, and not zero.
LEMMA GivenIs ==
  ASSUME NEW c, IsCall(c), NEW v \in VaultStates
  PROVE  Given(c, v) \in Nat
<1>1. c.amount \in Nat /\ v.price \in Nat \ {0}
  BY PlansAssumption DEF IsCall
<1>2. c.amount \div v.price \in Nat /\ c.amount * v.price \in Nat
  BY <1>1
<1>. QED
  BY <1>1, <1>2 DEF Given, Shares, Assets

\* An account stays one, and the allowance is what an approval says, less a deposit.
LEMMA AfterIs ==
  ASSUME NEW c, IsCall(c), NEW v \in VaultStates, NEW acc \in Account, Executes(c, acc, v)
  PROVE  /\ After(c, acc, v) \in Account
         /\ After(c, acc, v).allowance =
              CASE c.kind = "approve" -> c.amount
                [] c.kind = "deposit" -> acc.allowance - c.amount
                [] OTHER -> acc.allowance
<1>. DEFINE kept == IF c.receiver = "owner" THEN Given(c, v) ELSE 0
<1>1. c.amount \in Nat /\ kept \in Nat
  BY GivenIs DEF IsCall
<1>2. acc.assets \in Nat /\ acc.allowance \in Nat /\ acc.shares \in Nat
  BY DEF Account
<1>. HIDE DEF kept
<1>3. CASE c.kind = "approve"
  BY <1>1, <1>2, <1>3 DEF After, Account
<1>4. CASE c.kind = "deposit"
  <2>1. c.amount <= acc.assets /\ c.amount <= acc.allowance
    BY <1>4 DEF Executes
  <2>2. After(c, acc, v) = [acc EXCEPT !.assets = @ - c.amount, !.allowance = @ - c.amount,
                                       !.shares = @ + kept]
    BY <1>4 DEF After, kept
  <2>3. /\ acc.assets - c.amount \in Nat /\ acc.allowance - c.amount \in Nat
        /\ acc.shares + kept \in Nat
    BY <1>1, <1>2, <2>1
  <2>4. /\ After(c, acc, v) \in Account
        /\ After(c, acc, v).allowance = acc.allowance - c.amount
    BY <2>2, <2>3 DEF Account
  <2>. QED
    BY <1>4, <2>4
<1>5. CASE c.kind = "redeem"
  <2>1. c.amount <= acc.shares
    BY <1>5 DEF Executes
  <2>2. After(c, acc, v) = [acc EXCEPT !.shares = @ - c.amount, !.assets = @ + kept]
    BY <1>5 DEF After, kept
  <2>3. acc.shares - c.amount \in Nat /\ acc.assets + kept \in Nat
    BY <1>1, <1>2, <2>1
  <2>4. After(c, acc, v) \in Account /\ After(c, acc, v).allowance = acc.allowance
    BY <2>2, <2>3 DEF Account
  <2>. QED
    BY <1>5, <2>4
<1>. QED
  BY <1>3, <1>4, <1>5 DEF IsCall

-----------------------------------------------------------------------------
(* The invariant                                                            *)

\* The world keeps its types.
WorldOK ==
  /\ account \in Account
  /\ vault \in VaultStates
  /\ apart \in BOOLEAN
  /\ given \in [TxHashes -> Int]

\* What is called signable is a call of an action, after calls that were all reported.
OffersAreInOrder ==
  \A o \in offers :
    /\ o \in Actions \X Calls
    /\ o[2] \in IndicesOf(plan[o[1]])
    /\ Before(o[1], o[2])

\* The wallet signs what was offered, each call once and after the calls before it.
SignedInOrder ==
  /\ sent \in Seq(Actions \X Calls)
  /\ DOMAIN sent \subseteq TxHashes
  /\ \A h \in DOMAIN sent : sent[h] \in offers
  /\ \A g, h \in DOMAIN sent : sent[g] = sent[h] => g = h
  /\ \A h \in DOMAIN sent, j \in Calls :
       j < sent[h][2] => \E g \in DOMAIN sent : g < h /\ sent[g] = <<sent[h][1], j>>

IsSigned(h, a, i) == h \in DOMAIN sent /\ sent[h] = <<a, i>>

\* A hash on record, or on its way there, is of the call it is reported for.
ReceiptsAreSigned ==
  \A a \in Actions, i \in Calls : i \in Reported(a) => IsSigned(receipts[a][i].hash, a, i)

ReportsAreSigned ==
  \A r \in Requests : pc[r] \in Reporting => IsSigned(req[r].hash, req[r].act, req[r].call)

\* What is mined was signed, and so was mined all that was signed before it.
MinedInOrder ==
  \A h \in TxHashes :
    mined[h] # "none" => h \in DOMAIN sent /\ \A g \in DOMAIN sent : g < h => mined[g] # "none"

\* If nothing was mined after an approval and nothing happened apart, it stands.
LastApprovalStands ==
  \A h \in DOMAIN sent :
    /\ mined[h] = "success" /\ Signed(h).kind = "approve"
    /\ \A g \in DOMAIN sent : g > h => mined[g] # "success"
    => account.allowance = Signed(h).amount \/ apart

\* The amount on record of an action.
Amount(a) ==
  LET i == Operation(a)
      call == CallOf(a, i)
  IN  IF i \in Calls /\ receipts[a][i].outcome = "success"
           /\ ~(call.kind = "deposit" /\ call.receiver # "owner")
        THEN given[receipts[a][i].hash] ELSE Null

ActualIsRecorded == \A a \in Actions : actual[a] = Amount(a)

\* What every step keeps.
PlansInv ==
  /\ ActionInv /\ NewestIsStored
  /\ WorldOK
  /\ OffersAreInOrder /\ SignedInOrder /\ ReceiptsAreSigned /\ ReportsAreSigned
  /\ MinedInOrder
  /\ AllowanceHasADeposit /\ LastApprovalStands
  /\ actual \in [Actions -> Int \cup {Null}] /\ ActualIsRecorded

\* What was signed is a call of an action that keeps its plan.
LEMMA SignedAre ==
  ASSUME PlansInv, NEW h \in DOMAIN sent
  PROVE  /\ h \in Nat /\ h \in TxHashes
         /\ sent[h] = <<sent[h][1], sent[h][2]>>
         /\ sent[h][1] \in Actions /\ sent[h][2] \in IndicesOf(plan[sent[h][1]])
         /\ sent[h][2] \in Calls
         /\ plan[sent[h][1]] \in Plans /\ plan[sent[h][1]] # <<>>
         /\ IsCall(Signed(h))
<1>1. /\ sent \in Seq(Actions \X Calls) /\ DOMAIN sent \subseteq TxHashes
      /\ sent[h] \in Actions \X Calls
      /\ sent[h][2] \in IndicesOf(plan[sent[h][1]])
      /\ plan \in [Actions -> Plans \cup {<<>>}]
  BY DEF PlansInv, SignedInOrder, OffersAreInOrder, ActionInv, TypeOK
<1>2. plan[sent[h][1]] \in Plans /\ plan[sent[h][1]] # <<>>
  BY <1>1, CallsAre
<1>. QED
  BY <1>1, <1>2, PlansAre DEF Signed, CallOf

\* What a step says of the plans it says of everything signed.
LEMMA SignedStays ==
  ASSUME PlansInv, \A a \in Actions : plan[a] # <<>> => plan'[a] = plan[a],
         sent' = sent, NEW h \in DOMAIN sent
  PROVE  /\ Signed(h)' = Signed(h)
         /\ Operation(sent[h][1])' = Operation(sent[h][1])
         /\ CallOf(sent[h][1], Operation(sent[h][1]))' = CallOf(sent[h][1], Operation(sent[h][1]))
<1>1. sent[h][1] \in Actions /\ plan[sent[h][1]] # <<>>
  BY SignedAre
<1>2. plan'[sent[h][1]] = plan[sent[h][1]]
  BY <1>1
<1>. QED
  BY <1>2 DEF Signed, CallOf, Operation, CallCount

\* Nothing was offered, signed or mined, and nothing is allowed.
LEMMA PlansInvInit == PlansInit => PlansInv
<1>. SUFFICES ASSUME PlansInit PROVE PlansInv
  OBVIOUS
<1>1. Init /\ ActionInv
  BY InvInit DEF PlansInit
<1>2. NewestIsStored
  BY <1>1 DEF Init, NewestIsStored, NoSimulation
<1>3. WorldOK /\ account.allowance = 0 /\ actual \in [Actions -> Int \cup {Null}]
  <2>1. account = Opening /\ Opening \in [assets : Nat, allowance : {0}, shares : Nat]
    BY PlansAssumption DEF PlansInit
  <2>2. account \in Account /\ account.allowance = 0
    BY <2>1 DEF Account
  <2>3. given \in [TxHashes -> Int] /\ actual \in [Actions -> Int \cup {Null}]
    BY DEF PlansInit
  <2>. QED
    BY <2>2, <2>3 DEF PlansInit, WorldOK
<1>4. sent = <<>> /\ sent \in Seq(Actions \X Calls) /\ DOMAIN sent = {} /\ offers = {}
  BY DEF PlansInit
<1>5. \A a \in Actions : Reported(a) = {}
  BY <1>1 DEF Init, Reported, NoReceipt
<1>6. ASSUME NEW a \in Actions PROVE actual[a] = Amount(a)
  <2>1. actual[a] = Null
    BY DEF PlansInit
  <2>2. \A i \in Calls : receipts[a][i].outcome # "success"
    BY <1>1 DEF Init, NoReceipt
  <2>. QED
    BY <2>1, <2>2 DEF Amount
<1>7. ReportsAreSigned /\ MinedInOrder
  BY <1>1 DEF Init, ReportsAreSigned, MinedInOrder, Reporting
<1>. QED
  BY <1>1, <1>2, <1>3, <1>4, <1>5, <1>6, <1>7 DEF PlansInv, OffersAreInOrder, SignedInOrder,
     ReceiptsAreSigned, AllowanceHasADeposit, LastApprovalStands, ActualIsRecorded

-----------------------------------------------------------------------------
(* Steps of the API                                                         *)

\* What the API does for one request.
ApiSteps(r) == Prepare(r) \/ Simulate(r) \/ Report(r) \/ Status(r) \/ RequestLost(r)

\* The chain does nothing while the API does something.
LEMMA ApiLeavesTheChain ==
  ASSUME NEW r \in Requests, ApiSteps(r)
  PROVE  UNCHANGED chainVars
<1>1. CASE Prepare(r)
  BY <1>1 DEF Prepare, PrepareLive, PrepareNew, PrepareCreate, PrepareServed
<1>2. CASE Simulate(r)
  BY <1>2 DEF Simulate, SimulateRead, SimulateRun, SimulateRecord, SimulateRefused
<1>3. CASE Report(r)
  BY <1>3 DEF Report, ReportRead, ReportOrder, ReportInsert, ReportCount, ReportUpdate,
     ReportRefused, ObserveSettled, ObserveUnmined, ObserveMined, ConfirmReceipt
<1>4. CASE Status(r)
  BY <1>4 DEF Status, StatusAsked, StatusRead, StatusJudge
<1>5. CASE RequestLost(r)
  BY <1>5 DEF RequestLost
<1>. QED
  BY <1>1, <1>2, <1>3, <1>4, <1>5 DEF ApiSteps

\* What the tables say of the calls signed is not lost, whoever is served.
LEMMA ApiKeeps ==
  ASSUME PlansInv, NEW r \in Requests, ApiSteps(r),
         UNCHANGED <<account, vault, apart, sent, given>>,
         offers \subseteq offers',
         \A o \in offers' \ offers :
           o \in Actions \X Calls /\ o[2] \in IndicesOf(plan[o[1]]) /\ Before(o[1], o[2]),
         ReportsAreSigned', actual' \in [Actions -> Int \cup {Null}], ActualIsRecorded'
  PROVE  PlansInv'
<1>1. Next /\ UNCHANGED mined
  BY ApiLeavesTheChain DEF Next, ApiSteps, chainVars
<1>2. ActionInv' /\ NewestIsStored' /\ Kept
  BY <1>1, InvStep, NewestStep, ReceiptsStep DEF PlansInv
<1>3. \A a \in Actions : plan[a] # <<>> => plan'[a] = plan[a]
  BY <1>1, TablesGrow DEF PlansInv
<1>4. \A a \in Actions : Reported(a) \subseteq Reported(a)'
  BY <1>2 DEF Kept, Reported
<1>5. WorldOK'
  BY DEF PlansInv, WorldOK
<1>6. OffersAreInOrder'
  <2>. SUFFICES ASSUME NEW o \in offers'
                PROVE  /\ o \in Actions \X Calls /\ o[2] \in IndicesOf(plan'[o[1]])
                       /\ Before(o[1], o[2])'
    BY DEF OffersAreInOrder
  <2>1. /\ o \in Actions \X Calls /\ o[2] \in IndicesOf(plan[o[1]])
        /\ Before(o[1], o[2])
    BY DEF PlansInv, OffersAreInOrder
  <2>2. plan'[o[1]] = plan[o[1]]
    BY <1>3, <2>1, CallsAre
  <2>3. Before(o[1], o[2])'
    BY <1>4, <2>1 DEF Before
  <2>. QED
    BY <2>1, <2>2, <2>3
<1>7. SignedInOrder'
  BY DEF PlansInv, SignedInOrder
<1>8. ReceiptsAreSigned'
  <2>. SUFFICES ASSUME NEW a \in Actions, NEW i \in Calls, i \in Reported(a)'
                PROVE  IsSigned(receipts[a][i].hash, a, i)'
    BY DEF ReceiptsAreSigned
  <2>1. CASE receipts'[a][i].hash = receipts[a][i].hash
    BY <2>1 DEF PlansInv, ReceiptsAreSigned, Reported, IsSigned
  <2>2. CASE receipts'[a][i].hash # receipts[a][i].hash
    <3>1. PICK q \in Requests : /\ pc[q] = "update" /\ req[q].act = a /\ req[q].call = i
                                /\ receipts'[a][i].hash = req[q].hash
      BY <1>1, <2>2, NewHash DEF PlansInv
    <3>2. IsSigned(req[q].hash, a, i)
      BY <3>1 DEF PlansInv, ReportsAreSigned, Reporting
    <3>. QED
      BY <3>1, <3>2 DEF IsSigned
  <2>. QED
    BY <2>1, <2>2
<1>9. MinedInOrder'
  BY <1>1 DEF PlansInv, MinedInOrder
<1>10. AllowanceHasADeposit' /\ LastApprovalStands'
  <2>1. \A h \in DOMAIN sent :
          /\ Signed(h)' = Signed(h)
          /\ Operation(sent[h][1])' = Operation(sent[h][1])
          /\ CallOf(sent[h][1], Operation(sent[h][1]))' = CallOf(sent[h][1], Operation(sent[h][1]))
    BY <1>3, SignedStays
  <2>2. LastApprovalStands'
    BY <1>1, <2>1 DEF PlansInv, LastApprovalStands
  <2>3. \A h \in DOMAIN sent : Executed(sent[h][1])' <=> Executed(sent[h][1])
    BY <1>1, <2>1 DEF Executed
  <2>4. AllowanceHasADeposit'
    BY <1>1, <2>1, <2>3 DEF PlansInv, AllowanceHasADeposit
  <2>. QED
    BY <2>2, <2>4
<1>. QED
  BY <1>2, <1>5, <1>6, <1>7, <1>8, <1>9, <1>10 DEF PlansInv

\* Who is served carries the hash it came with.
LEMMA ServedStaySigned ==
  ASSUME PlansInv, NEW r \in Requests, ApiSteps(r), pc[r] # "idle", sent' = sent
  PROVE  ReportsAreSigned'
<1>. SUFFICES ASSUME NEW q \in Requests, pc'[q] \in Reporting
              PROVE  IsSigned(req[q].hash, req[q].act, req[q].call)'
  BY DEF ReportsAreSigned
<1>1. /\ \A o \in Requests \ {r} : pc'[o] = pc[o] /\ req'[o] = req[o]
      /\ pc'[r] # "idle" => req'[r].act = req[r].act
      /\ pc'[r] \in Reporting =>
           pc[r] \in Reporting /\ req'[r].call = req[r].call /\ req'[r].hash = req[r].hash
  BY ServeStep DEF PlansInv, ApiSteps
<1>2. /\ pc[q] \in Reporting /\ req'[q].act = req[q].act /\ req'[q].call = req[q].call
      /\ req'[q].hash = req[q].hash
  BY <1>1 DEF Reporting
<1>3. IsSigned(req[q].hash, req[q].act, req[q].call)
  BY <1>2 DEF PlansInv, ReportsAreSigned
<1>. QED
  BY <1>2, <1>3 DEF IsSigned

\* Only a confirmation changes what receipts say became of their transactions.
LEMMA OutcomesStay ==
  ASSUME PlansInv, NEW r \in Requests, ApiSteps(r), ~ConfirmReceipt(r),
         NEW a \in Actions, NEW i \in Calls
  PROVE  /\ receipts'[a][i].outcome = receipts[a][i].outcome
         /\ receipts[a][i].outcome # "none" => receipts'[a][i].hash = receipts[a][i].hash
<1>1. /\ ActionInv /\ receipts \in [Actions -> [Calls -> Receipt]]
      /\ req[r] \in Carried
  BY DEF PlansInv, ActionInv, TypeOK
<1>2. CASE UNCHANGED receipts
  BY <1>2
<1>3. CASE ReportUpdate(r)
  <2>1. req[r].act \in Actions /\ req[r].call \in Calls
    BY <1>1, <1>3 DEF ActionInv, TypeOK, Carried, Knows, Reporting, ReportUpdate
  <2>2. UNCHANGED receipts \/ receipts' = [receipts EXCEPT ![req[r].act][req[r].call].hash = req[r].hash]
    BY <1>3 DEF ReportUpdate
  <2>3. receipts'[a][i].outcome = receipts[a][i].outcome
    <3>1. receipts[a][i] \in Receipt
      BY <1>1
    <3>2. \/ receipts'[a][i] = receipts[a][i]
          \/ receipts'[a][i] = [receipts[a][i] EXCEPT !.hash = req[r].hash]
      <4>1. CASE UNCHANGED receipts
        BY <4>1
      <4>2. CASE receipts' = [receipts EXCEPT ![req[r].act][req[r].call].hash = req[r].hash]
        BY <1>1, <4>2
      <4>. QED
        BY <2>2, <4>1, <4>2
    <3>. QED
      BY <3>1, <3>2 DEF Receipt
  <2>4. receipts[a][i].outcome # "none" => receipts'[a][i] = receipts[a][i]
    BY <1>1, <1>3, UpdateKeepsReceipts
  <2>. QED
    BY <2>3, <2>4
<1>4. CASE Prepare(r) \/ Simulate(r) \/ Status(r) \/ RequestLost(r)
  <2>1. UNCHANGED receipts
    BY <1>4 DEF Prepare, PrepareLive, PrepareNew, PrepareCreate, PrepareServed, Simulate,
       SimulateRead, SimulateRun, SimulateRecord, SimulateRefused, Status, StatusAsked,
       StatusRead, StatusJudge, RequestLost, tableVars
  <2>. QED
    BY <1>2, <2>1
<1>5. CASE Report(r)
  <2>1. UNCHANGED receipts \/ ReportUpdate(r)
    BY <1>5 DEF Report, ReportRead, ReportOrder, ReportInsert, ReportCount, ReportRefused,
       ObserveSettled, ObserveUnmined, ObserveMined, tableVars
  <2>. QED
    BY <1>2, <1>3, <2>1
<1>. QED
  BY <1>4, <1>5 DEF ApiSteps

\* An action without calls has no outcome.
LEMMA NoPlanNoOutcome ==
  ASSUME PlansInv, NEW a \in Actions, plan[a] = <<>>, NEW i \in Calls
  PROVE  receipts[a][i].outcome = "none"
<1>1. Reported(a) = {} /\ OutcomesAreMined(a)
  BY CallsAre DEF PlansInv, ActionInv, Ordered
<1>. QED
  BY <1>1 DEF OutcomesAreMined, Reported

\* Until its operation's receipt is confirmed again, an action keeps its amount.
LEMMA AmountStays ==
  ASSUME PlansInv, NEW r \in Requests, ApiSteps(r), ~ConfirmReceipt(r), UNCHANGED <<actual, given>>
  PROVE  ActualIsRecorded'
<1>. SUFFICES ASSUME NEW a \in Actions PROVE Amount(a)' = Amount(a)
  BY DEF PlansInv, ActualIsRecorded
<1>1. ActionInv /\ Next
  BY DEF PlansInv, Next, ApiSteps
<1>2. \A i \in Calls :
        /\ receipts'[a][i].outcome = receipts[a][i].outcome
        /\ receipts[a][i].outcome # "none" => receipts'[a][i].hash = receipts[a][i].hash
  BY OutcomesStay
<1>3. CASE plan[a] # <<>>
  <2>1. plan'[a] = plan[a]
    BY <1>1, <1>3, TablesGrow
  <2>2. Operation(a)' = Operation(a) /\ CallOf(a, Operation(a))' = CallOf(a, Operation(a))
    BY <2>1 DEF Operation, CallCount, CallOf
  <2>. QED
    BY <1>2, <2>2 DEF Amount
<1>4. CASE plan[a] = <<>>
  <2>1. \A i \in Calls : receipts[a][i].outcome = "none"
    BY <1>4, NoPlanNoOutcome
  <2>2. Amount(a) = Null /\ Amount(a)' = Null
    BY <1>2, <2>1 DEF Amount
  <2>. QED
    BY <2>2
<1>. QED
  BY <1>3, <1>4

\* The last call of a plan is its operation.
LEMMA OperationsAre ==
  ASSUME PlansInv, NEW a \in Actions, plan[a] # <<>>
  PROVE  /\ plan[a] \in Plans /\ Operation(a) \in IndicesOf(plan[a]) /\ Operation(a) \in Calls
         /\ CallOf(a, Operation(a)).kind \in {"deposit", "redeem"}
         /\ IsCall(CallOf(a, Operation(a)))
<1>1. plan[a] \in Plans
  BY DEF PlansInv, ActionInv, TypeOK
<1>2. Operation(a) \in IndicesOf(plan[a]) /\ Operation(a) + 1 = Len(plan[a])
  BY <1>1, CallsAre DEF Operation, CallCount, IndicesOf
<1>. QED
  BY <1>1, <1>2, CallsAre, PlansAre DEF CallOf

\* What a confirmation records is what the transaction gave, if its receiver is the owner.
LEMMA ConfirmationRecords ==
  ASSUME PlansInv, NEW r \in Requests, ConfirmReceipt(r), ContinueReport(r)
  PROVE  ActualIsRecorded' /\ actual' \in [Actions -> Int \cup {Null}]
<1>. DEFINE a == req[r].act
            i == req[r].call
            h == req[r].hash
            settles == i = Operation(a)
            call == CallOf(a, i)
            amount == IF mined[h] = "success" THEN Decoded(call, Events(call, given[h])) ELSE Null
<1>1. /\ ActionInv /\ pc[r] = "confirm" /\ UNCHANGED <<plan, sent, given, mined>>
      /\ actual \in [Actions -> Int \cup {Null}] /\ given \in [TxHashes -> Int]
      /\ receipts \in [Actions -> [Calls -> Receipt]]
      /\ receipts' = [receipts EXCEPT ![a][i].outcome = mined[h]]
  BY DEF PlansInv, WorldOK, ConfirmReceipt, ContinueReport, worldVars, chainVars, ActionInv, TypeOK
<1>2. /\ a \in Actions /\ plan[a] # <<>> /\ i \in IndicesOf(plan[a]) /\ i \in Calls
      /\ h \in TxHashes /\ receipts[a][i].hash = h /\ mined[h] \in {"success", "reverted"}
  <2>1. req[r] \in Carried /\ mined \in [TxHashes -> {"none", "success", "reverted"}]
    BY <1>1 DEF ActionInv, TypeOK
  <2>2. Knows("confirm", req[r])
    BY <1>1 DEF ActionInv
  <2>3. /\ a \in Actions /\ plan[a] # <<>> /\ i \in IndicesOf(plan[a]) /\ h \in TxHashes
        /\ receipts[a][i].hash = h /\ mined[h] # "none"
    BY <2>2 DEF Knows, Reporting
  <2>4. i \in Calls
    BY <2>1 DEF Carried
  <2>5. mined[h] \in {"success", "reverted"}
    BY <2>1, <2>3
  <2>. QED
    BY <2>3, <2>4, <2>5
<1>3. IsSigned(h, a, i)
  BY <1>1 DEF PlansInv, ReportsAreSigned, Reporting
<1>4. Signed(h) = call
  BY <1>3 DEF IsSigned, Signed
<1>5. actual' = IF settles THEN [actual EXCEPT ![a] = amount] ELSE actual
  BY <1>1, <1>4 DEF ContinueReport
<1>6. amount \in Int \cup {Null} /\
      (settles => amount = IF mined[h] = "success"
                             /\ ~(call.kind = "deposit" /\ call.receiver # "owner")
                             THEN given[h] ELSE Null)
  <2>1. settles => call.kind \in {"deposit", "redeem"}
    BY <1>2, OperationsAre
  <2>2. call.kind \in {"deposit", "redeem"} =>
          Decoded(call, Events(call, given[h])) =
            IF call.kind = "deposit" /\ call.receiver # "owner" THEN Null ELSE given[h]
    BY DecodedIs
  <2>3. given[h] \in Int
    BY <1>1, <1>2
  <2>4. IsCall(call)
    <3>1. plan[a] \in Plans
      BY <1>1, <1>2 DEF ActionInv, TypeOK
    <3>. QED
      BY <1>2, <3>1, PlansAre DEF CallOf
  <2>5. call.kind = "approve" => Decoded(call, Events(call, given[h])) = Null
    BY DEF Decoded
  <2>. QED
    BY <2>1, <2>2, <2>3, <2>4, <2>5 DEF IsCall
<1>. HIDE DEF call, amount
<1>7. actual' \in [Actions -> Int \cup {Null}]
  BY <1>1, <1>2, <1>5, <1>6
<1>8. ASSUME NEW b \in Actions PROVE actual'[b] = Amount(b)'
  <2>1. actual[b] = Amount(b)
    BY DEF PlansInv, ActualIsRecorded
  <2>2. Operation(b)' = Operation(b) /\ CallOf(b, Operation(b))' = CallOf(b, Operation(b))
    BY <1>1 DEF Operation, CallCount, CallOf
  <2>3. Amount(b)' =
          IF Operation(b) \in Calls /\ receipts'[b][Operation(b)].outcome = "success"
               /\ ~(CallOf(b, Operation(b)).kind = "deposit"
                    /\ CallOf(b, Operation(b)).receiver # "owner")
            THEN given[receipts'[b][Operation(b)].hash] ELSE Null
    <3>1. given' = given
      BY <1>1
    <3>. QED
      BY <2>2, <3>1 DEF Amount
  <2>4. CASE b = a /\ settles
    <3>1. receipts'[a][i].outcome = mined[h] /\ receipts'[a][i].hash = h
      <4>1. receipts[a][i] \in Receipt
        BY <1>1, <1>2
      <4>2. receipts'[a][i] = [receipts[a][i] EXCEPT !.outcome = mined[h]]
        BY <1>1, <1>2
      <4>. QED
        BY <1>2, <4>1, <4>2 DEF Receipt
    <3>2. actual'[a] = amount
      BY <1>1, <1>2, <1>5, <2>4
    <3>3. Amount(b)' = IF mined[h] = "success" /\ ~(call.kind = "deposit" /\ call.receiver # "owner")
                         THEN given[h] ELSE Null
      BY <1>2, <2>3, <2>4, <3>1 DEF call
    <3>. QED
      BY <1>6, <2>4, <3>2, <3>3
  <2>5. CASE ~(b = a /\ settles)
    <3>1. actual'[b] = actual[b]
      BY <1>1, <1>2, <1>5, <2>5
    <3>2. Operation(b) \in Calls => receipts'[b][Operation(b)] = receipts[b][Operation(b)]
      BY <1>1, <1>2, <2>5
    <3>3. Amount(b)' = Amount(b)
      BY <2>3, <3>2 DEF Amount
    <3>. QED
      BY <2>1, <3>1, <3>3
  <2>. QED
    BY <2>4, <2>5
<1>. QED
  BY <1>7, <1>8 DEF ActualIsRecorded

\* A request that is let in to do something other than report.
LEMMA OthersStaySigned ==
  ASSUME PlansInv, NEW r \in Requests, NEW place \in Places \ Reporting, Goto(r, place),
         \A q \in Requests \ {r} : req'[q] = req[q], sent' = sent
  PROVE  ReportsAreSigned'
<1>. SUFFICES ASSUME NEW q \in Requests, pc'[q] \in Reporting
              PROVE  IsSigned(req[q].hash, req[q].act, req[q].call)'
  BY DEF ReportsAreSigned
<1>1. pc \in [Requests -> Places]
  BY DEF PlansInv, ActionInv, TypeOK
<1>2. q # r /\ pc'[q] = pc[q] /\ req'[q] = req[q]
  BY <1>1 DEF Goto
<1>3. IsSigned(req[q].hash, req[q].act, req[q].call)
  BY <1>2 DEF PlansInv, ReportsAreSigned
<1>. QED
  BY <1>2, <1>3 DEF IsSigned

\* A step of a request that offers nothing and confirms nothing.
LEMMA QuietStep ==
  ASSUME PlansInv, NEW r \in Requests, ApiSteps(r), ~ConfirmReceipt(r), UNCHANGED planVars,
         ReportsAreSigned'
  PROVE  PlansInv'
<1>1. UNCHANGED <<account, vault, apart, offers, sent, given, actual>>
  BY DEF planVars, worldVars
<1>2. ActualIsRecorded'
  BY <1>1, AmountStays
<1>3. actual' \in [Actions -> Int \cup {Null}]
  BY <1>1 DEF PlansInv
<1>. QED
  BY <1>1, <1>2, <1>3, ApiKeeps

\* A preparation reports nothing.
LEMMA PrepareStep ==
  ASSUME PlansInv, NEW r \in Requests, AskPrepare(r) \/ FinishPrepare(r)
  PROVE  PlansInv'
<1>1. CASE AskPrepare(r)
  <2>1. PICK p \in Plans : PrepareLive(r, p) \/ PrepareNew(r, p)
    BY <1>1, AsksLeadToPlans DEF AskPrepare
  <2>2. Prepare(r)
    BY <2>1 DEF Prepare
  <2>3. \E place \in {"refresh", "create"} : Goto(r, place)
    BY <2>1 DEF PrepareLive, PrepareNew
  <2>4. \A q \in Requests \ {r} : req'[q] = req[q]
    <3>1. req \in [Requests -> Carried]
      BY DEF PlansInv, ActionInv, TypeOK
    <3>2. \E new : req' = [req EXCEPT ![r] = new]
      BY <2>1, <3>1 DEF PrepareLive, PrepareNew
    <3>. QED
      BY <3>1, <3>2
  <2>5. UNCHANGED planVars /\ pc[r] = "idle"
    BY <1>1, <2>1 DEF AskPrepare, PrepareLive, PrepareNew
  <2>6. ReportsAreSigned'
    BY <2>3, <2>4, <2>5, OthersStaySigned DEF planVars, worldVars, Places, Reporting
  <2>7. ~ConfirmReceipt(r)
    BY <2>5 DEF ConfirmReceipt
  <2>. QED
    BY <2>2, <2>5, <2>6, <2>7, QuietStep DEF ApiSteps
<1>2. CASE FinishPrepare(r)
  <2>1. Prepare(r) /\ pc[r] = "create" /\ UNCHANGED planVars
    BY <1>2 DEF FinishPrepare, Prepare, PrepareCreate, PrepareServed
  <2>2. ~ConfirmReceipt(r)
    BY <2>1 DEF ConfirmReceipt
  <2>3. ReportsAreSigned'
    BY <2>1, ServedStaySigned DEF ApiSteps, planVars, worldVars
  <2>. QED
    BY <2>1, <2>2, <2>3, QuietStep DEF ApiSteps
<1>. QED
  BY <1>1, <1>2

\* Nor does a simulation.
LEMMA SimulateStep ==
  ASSUME PlansInv, NEW r \in Requests, AskSimulate(r)
  PROVE  PlansInv'
<1>1. Simulate(r) /\ UNCHANGED planVars
  BY DEF AskSimulate
<1>2. ~ConfirmReceipt(r)
  BY <1>1 DEF Simulate, SimulateRead, SimulateRun, SimulateRecord, SimulateRefused, ConfirmReceipt
<1>3. ReportsAreSigned'
  <2>1. CASE pc[r] # "idle"
    BY <1>1, <2>1, ServedStaySigned DEF ApiSteps, planVars, worldVars
  <2>2. CASE pc[r] = "idle"
    <3>1. PICK a \in Actions : SimulateRead(r, a)
      BY <1>1, <2>2 DEF Simulate, SimulateRun, SimulateRecord, SimulateRefused
    <3>2. req \in [Requests -> Carried]
      BY DEF PlansInv, ActionInv, TypeOK
    <3>3. \E new : req' = [req EXCEPT ![r] = new]
      BY <3>1, <3>2 DEF SimulateRead
    <3>4. \A q \in Requests \ {r} : req'[q] = req[q]
      BY <3>2, <3>3
    <3>5. Goto(r, "simulate") /\ "simulate" \in Places \ Reporting
      BY <3>1 DEF SimulateRead, Places, Reporting
    <3>. QED
      BY <1>1, <3>4, <3>5, OthersStaySigned DEF planVars, worldVars
  <2>. QED
    BY <2>1, <2>2
<1>. QED
  BY <1>1, <1>2, <1>3, QuietStep DEF ApiSteps

\* Callers report the hash that signing a call returned, for that call.
LEMMA ReportStep ==
  ASSUME PlansInv, NEW r \in Requests, AskReport(r)
  PROVE  PlansInv'
<1>1. PICK h \in DOMAIN sent : ReportRead(r, sent[h][1], sent[h][2], h)
  BY DEF AskReport
<1>2. /\ sent[h][1] \in Actions /\ sent[h][2] \in Calls /\ h \in TxHashes
      /\ sent[h] = <<sent[h][1], sent[h][2]>>
  BY SignedAre
<1>3. Report(r) /\ pc[r] = "idle" /\ UNCHANGED planVars
  BY <1>1, <1>2 DEF Report, ReportRead, AskReport
<1>4. req \in [Requests -> Carried] /\ pc \in [Requests -> Places]
  BY DEF PlansInv, ActionInv, TypeOK
<1>5. ReportsAreSigned'
  <2>. SUFFICES ASSUME NEW q \in Requests, pc'[q] \in Reporting
                PROVE  IsSigned(req[q].hash, req[q].act, req[q].call)'
    BY DEF ReportsAreSigned
  <2>1. sent' = sent
    BY <1>3 DEF planVars, worldVars
  <2>2. CASE q = r
    <3>1. req'[r].act = sent[h][1] /\ req'[r].call = sent[h][2] /\ req'[r].hash = h
      BY <1>1, <1>4 DEF ReportRead, Carried
    <3>. QED
      BY <1>2, <2>1, <2>2, <3>1 DEF IsSigned
  <2>3. CASE q # r
    <3>1. pc'[q] = pc[q] /\ req'[q] = req[q]
      BY <1>1, <1>4, <2>3 DEF ReportRead, Goto
    <3>2. IsSigned(req[q].hash, req[q].act, req[q].call)
      BY <3>1 DEF PlansInv, ReportsAreSigned
    <3>. QED
      BY <2>1, <3>1, <3>2 DEF IsSigned
  <2>. QED
    BY <2>2, <2>3
<1>6. ~ConfirmReceipt(r)
  BY <1>3 DEF ConfirmReceipt
<1>. QED
  BY <1>3, <1>5, <1>6, QuietStep DEF ApiSteps

\* The rest of a report keeps the hash it came with.
LEMMA ContinueStep ==
  ASSUME PlansInv, NEW r \in Requests, ContinueReport(r)
  PROVE  PlansInv'
<1>1. /\ Report(r) /\ pc[r] # "idle"
      /\ UNCHANGED <<account, vault, apart, offers, sent, given>>
  BY DEF ContinueReport, worldVars
<1>2. ReportsAreSigned'
  BY <1>1, ServedStaySigned DEF ApiSteps
<1>3. ActualIsRecorded' /\ actual' \in [Actions -> Int \cup {Null}]
  <2>1. CASE ConfirmReceipt(r)
    BY <2>1, ConfirmationRecords
  <2>2. CASE ~ConfirmReceipt(r)
    <3>1. pc[r] # "confirm"
      BY <1>1, <2>2 DEF Report, ReportRead, ReportOrder, ReportInsert, ReportCount, ReportUpdate,
         ReportRefused, ObserveSettled, ObserveUnmined, ObserveMined
    <3>2. actual' = actual
      BY <3>1 DEF ContinueReport
    <3>3. ActualIsRecorded'
      BY <1>1, <2>2, <3>2, AmountStays DEF ApiSteps
    <3>. QED
      BY <3>2, <3>3 DEF PlansInv
  <2>. QED
    BY <2>1, <2>2
<1>. QED
  BY <1>1, <1>2, <1>3, ApiKeeps DEF ApiSteps

\* What is called signable was simulated, and a call is simulated after every call before
\* it was reported.
LEMMA StatusStep ==
  ASSUME PlansInv, NEW r \in Requests, AskStatus(r)
  PROVE  PlansInv'
<1>1. Status(r) /\ UNCHANGED <<account, vault, apart, sent, given, actual>>
  BY DEF AskStatus
<1>2. ~ConfirmReceipt(r)
  BY <1>1 DEF Status, StatusAsked, StatusRead, StatusJudge, ConfirmReceipt
<1>3. ReportsAreSigned'
  <2>1. CASE pc[r] # "idle"
    BY <1>1, <2>1, ServedStaySigned DEF ApiSteps
  <2>2. CASE pc[r] = "idle"
    <3>1. PICK a \in Actions : StatusAsked(r, a)
      BY <1>1, <2>2 DEF Status, StatusRead, StatusJudge
    <3>2. req \in [Requests -> Carried]
      BY DEF PlansInv, ActionInv, TypeOK
    <3>3. \A q \in Requests \ {r} : req'[q] = req[q]
      BY <3>1, <3>2 DEF StatusAsked
    <3>4. Goto(r, "status") /\ "status" \in Places \ Reporting
      BY <3>1 DEF StatusAsked, Places, Reporting
    <3>. QED
      BY <1>1, <3>3, <3>4, OthersStaySigned
  <2>. QED
    BY <2>1, <2>2
<1>4. offers \subseteq offers'
  BY DEF AskStatus
<1>5. ASSUME NEW o \in offers' \ offers
      PROVE  o \in Actions \X Calls /\ o[2] \in IndicesOf(plan[o[1]]) /\ Before(o[1], o[2])
  <2>1. pc[r] = "judge" /\ Signable(r) /\ o = <<req[r].act, req[r].count>>
    BY DEF AskStatus
  <2>2. req[r].act \in Actions
    BY <2>1 DEF PlansInv, ActionInv, Knows, Reading
  <2>3. req[r].count \in simulated[req[r].act] \cap IndicesOf(plan[req[r].act])
    BY <2>1, <2>2 DEF PlansInv, NewestIsStored, Signable
  <2>4. simulated[req[r].act] \subseteq Calls
    BY <2>2 DEF PlansInv, ActionInv, TypeOK
  <2>5. Before(req[r].act, req[r].count)
    BY <2>2, <2>3 DEF PlansInv, ActionInv, Ordered
  <2>. QED
    BY <2>1, <2>2, <2>3, <2>4, <2>5
<1>6. ActualIsRecorded' /\ actual' \in [Actions -> Int \cup {Null}]
  BY <1>1, <1>2, AmountStays DEF ApiSteps, PlansInv
<1>. QED
  BY <1>1, <1>3, <1>4, <1>5, <1>6, ApiKeeps DEF ApiSteps

\* A request that is lost leaves nothing but the tables.
LEMMA ForgetStep ==
  ASSUME PlansInv, NEW r \in Requests, Forget(r)
  PROVE  PlansInv'
<1>1. RequestLost(r) /\ pc[r] # "idle" /\ UNCHANGED planVars
  BY DEF Forget, RequestLost
<1>2. ReportsAreSigned'
  BY <1>1, ServedStaySigned DEF ApiSteps, planVars, worldVars
<1>3. CASE ~ConfirmReceipt(r)
  BY <1>1, <1>2, <1>3, QuietStep DEF ApiSteps
<1>4. CASE ConfirmReceipt(r)
  <2>1. pc \in [Requests -> Places]
    BY DEF PlansInv, ActionInv, TypeOK
  <2>2. pc'[r] = "idle" /\ pc'[r] = "status"
    BY <1>1, <1>4, <2>1 DEF RequestLost, EndRequest, ConfirmReceipt, ToStatus, Goto
  <2>. QED
    BY <2>2
<1>. QED
  BY <1>3, <1>4

-----------------------------------------------------------------------------
(* Steps of the wallet, the chain and the world                             *)

\* What the invariant says of tables that nobody touches.
LEMMA TablesRest ==
  ASSUME PlansInv, UNCHANGED <<tableVars, requestVars>>
  PROVE  /\ NewestIsStored'
         /\ offers' = offers => OffersAreInOrder'
         /\ offers' = offers /\ sent' = sent => SignedInOrder'
         /\ sent' = sent => ReceiptsAreSigned' /\ ReportsAreSigned'
         /\ UNCHANGED <<given, actual>> => ActualIsRecorded'
<1>1. UNCHANGED <<status, plan, sentCount, simulated, newest, receipts, pc, req>>
  BY DEF tableVars, requestVars
<1>2. \A a \in Actions : Reported(a)' = Reported(a)
  BY <1>1 DEF Reported
<1>3. NewestIsStored'
  BY <1>1 DEF PlansInv, NewestIsStored
<1>4. offers' = offers => OffersAreInOrder'
  BY <1>1, <1>2 DEF PlansInv, OffersAreInOrder, Before
<1>5. offers' = offers /\ sent' = sent => SignedInOrder'
  BY DEF PlansInv, SignedInOrder
<1>6. sent' = sent => ReceiptsAreSigned' /\ ReportsAreSigned'
  BY <1>1, <1>2 DEF PlansInv, ReceiptsAreSigned, ReportsAreSigned, IsSigned
<1>7. ASSUME UNCHANGED <<given, actual>> PROVE ActualIsRecorded'
  <2>1. \A a \in Actions : Amount(a)' = Amount(a)
    BY <1>1, <1>7 DEF Amount, Operation, CallCount, CallOf
  <2>. QED
    BY <1>7, <2>1 DEF PlansInv, ActualIsRecorded
<1>. QED
  BY <1>3, <1>4, <1>5, <1>6, <1>7

\* Neither a block nor the vault's state is in what the invariant says of allowances.
LEMMA CalmStep ==
  ASSUME PlansInv, PassBlock \/ MoveVault \/ UNCHANGED allVars
  PROVE  PlansInv'
<1>1. /\ UNCHANGED <<tableVars, requestVars, mined>>
      /\ UNCHANGED <<account, apart, offers, sent, given, actual>>
      /\ vault' \in VaultStates
  BY DEF PassBlock, MoveVault, NextBlock, allVars, planVars, worldVars, vars, chainVars,
     PlansInv, WorldOK
<1>2. ActionInv'
  <2>1. CASE PassBlock
    BY <2>1, BlockKeeps DEF PassBlock, PlansInv
  <2>2. CASE UNCHANGED vars
    BY <2>2, InvStep DEF PlansInv
  <2>. QED
    BY <2>1, <2>2 DEF MoveVault, allVars
<1>3. /\ NewestIsStored' /\ OffersAreInOrder' /\ SignedInOrder'
      /\ ReceiptsAreSigned' /\ ReportsAreSigned' /\ ActualIsRecorded'
  BY <1>1, TablesRest
<1>4. WorldOK' /\ MinedInOrder' /\ actual' \in [Actions -> Int \cup {Null}]
  BY <1>1 DEF PlansInv, WorldOK, MinedInOrder
<1>5. UNCHANGED plan
  BY <1>1 DEF tableVars
<1>6. AllowanceHasADeposit' /\ LastApprovalStands'
  BY <1>1, <1>5 DEF PlansInv, AllowanceHasADeposit, LastApprovalStands, Signed, CallOf, Executed,
     Operation, CallCount
<1>. QED
  BY <1>2, <1>3, <1>4, <1>6 DEF PlansInv

\* The wallet signs another call: the ones before it have been reported, so it signed them.
LEMMA SignStep ==
  ASSUME PlansInv, WalletSigns
  PROVE  PlansInv'
<1>. DEFINE n == Len(sent) + 1
<1>1. PICK o \in offers \ ToSet(sent) : sent' = Append(sent, o)
  BY DEF WalletSigns
<1>2. /\ UNCHANGED <<vars, account, vault, apart, offers, given, actual>>
      /\ UNCHANGED <<tableVars, requestVars, mined, plan>>
      /\ n \in TxHashes
  BY DEF WalletSigns, vars, chainVars, tableVars
<1>3. /\ sent \in Seq(Actions \X Calls) /\ o \in Actions \X Calls
      /\ o[2] \in IndicesOf(plan[o[1]]) /\ Before(o[1], o[2])
  BY <1>1 DEF PlansInv, SignedInOrder, OffersAreInOrder
<1>4. /\ DOMAIN sent = 1..Len(sent) /\ Len(sent) \in Nat /\ n \in Nat /\ n \notin DOMAIN sent
      /\ sent' \in Seq(Actions \X Calls)
      /\ DOMAIN sent' = DOMAIN sent \cup {n}
      /\ sent'[n] = o /\ \A h \in DOMAIN sent : sent'[h] = sent[h] /\ h < n
  BY <1>1, <1>3
<1>. HIDE DEF n
<1>5. \A h \in DOMAIN sent : sent[h] # o
  BY <1>1 DEF ToSet
<1>6. \A h \in TxHashes : mined[h] # "none" => h \in DOMAIN sent
  BY DEF PlansInv, MinedInOrder
<1>7. ActionInv'
  BY <1>2, InvStep DEF PlansInv
<1>8. NewestIsStored' /\ OffersAreInOrder' /\ ActualIsRecorded'
  BY <1>2, TablesRest
<1>9. \A a, i, h : IsSigned(h, a, i) => IsSigned(h, a, i)'
  BY <1>4 DEF IsSigned
<1>10. ReceiptsAreSigned' /\ ReportsAreSigned'
  <2>1. \A a \in Actions, i \in Calls : i \in Reported(a)' =>
          i \in Reported(a) /\ receipts'[a][i].hash = receipts[a][i].hash
    BY <1>2 DEF Reported, tableVars
  <2>2. ReceiptsAreSigned'
    <3>. SUFFICES ASSUME NEW a \in Actions, NEW i \in Calls, i \in Reported(a)'
                  PROVE  IsSigned(receipts[a][i].hash, a, i)'
      BY DEF ReceiptsAreSigned
    <3>1. i \in Reported(a) /\ receipts'[a][i].hash = receipts[a][i].hash
      BY <2>1
    <3>2. IsSigned(receipts[a][i].hash, a, i)
      BY <3>1 DEF PlansInv, ReceiptsAreSigned
    <3>. QED
      BY <1>4, <3>1, <3>2 DEF IsSigned
  <2>3. ReportsAreSigned'
    <3>. SUFFICES ASSUME NEW r \in Requests, pc'[r] \in Reporting
                  PROVE  IsSigned(req[r].hash, req[r].act, req[r].call)'
      BY DEF ReportsAreSigned
    <3>1. pc' = pc /\ req' = req
      BY <1>2 DEF requestVars
    <3>2. IsSigned(req[r].hash, req[r].act, req[r].call)
      BY <3>1 DEF PlansInv, ReportsAreSigned
    <3>. QED
      BY <1>4, <3>1, <3>2 DEF IsSigned
  <2>. QED
    BY <2>2, <2>3
<1>11. SignedInOrder'
  <2>1. DOMAIN sent' \subseteq TxHashes /\ \A h \in DOMAIN sent' : sent'[h] \in offers'
    BY <1>1, <1>2, <1>4 DEF PlansInv, SignedInOrder
  <2>2. \A g, h \in DOMAIN sent' : sent'[g] = sent'[h] => g = h
    BY <1>4, <1>5 DEF PlansInv, SignedInOrder
  <2>3. ASSUME NEW h \in DOMAIN sent', NEW j \in Calls, j < sent'[h][2]
        PROVE  \E g \in DOMAIN sent' : g < h /\ sent'[g] = <<sent'[h][1], j>>
    <3>1. CASE h \in DOMAIN sent
      <4>1. PICK g \in DOMAIN sent : g < h /\ sent[g] = <<sent[h][1], j>>
        BY <1>4, <2>3, <3>1 DEF PlansInv, SignedInOrder
      <4>. QED
        BY <1>4, <3>1, <4>1
    <3>2. CASE h = n
      <4>1. j \in Reported(o[1])
        BY <1>3, <1>4, <2>3, <3>2 DEF Before
      <4>2. IsSigned(receipts[o[1]][j].hash, o[1], j)
        BY <1>3, <4>1 DEF PlansInv, ReceiptsAreSigned
      <4>. QED
        BY <1>4, <3>2, <4>2 DEF IsSigned
    <3>. QED
      BY <1>4, <3>1, <3>2
  <2>. QED
    BY <1>4, <2>1, <2>2, <2>3 DEF SignedInOrder
<1>12. MinedInOrder'
  <2>. SUFFICES ASSUME NEW h \in TxHashes, mined[h] # "none"
                PROVE  h \in DOMAIN sent' /\ \A g \in DOMAIN sent' : g < h => mined[g] # "none"
    BY <1>2 DEF MinedInOrder
  <2>1. h \in DOMAIN sent /\ \A g \in DOMAIN sent : g < h => mined[g] # "none"
    BY DEF PlansInv, MinedInOrder
  <2>2. h < n /\ ~(n < h)
    BY <1>4, <2>1
  <2>. QED
    BY <1>4, <2>1, <2>2
<1>13. \A h \in DOMAIN sent : Signed(h)' = Signed(h)
  BY <1>2, <1>4 DEF Signed, CallOf
<1>14. mined[n] = "none"
  BY <1>2, <1>4, <1>6
<1>15. LastApprovalStands'
  BY <1>2, <1>4, <1>13, <1>14 DEF PlansInv, LastApprovalStands
<1>16. AllowanceHasADeposit'
  <2>. SUFFICES ASSUME account'.allowance > 0
                PROVE  \E h \in DOMAIN sent' :
                         /\ Signed(h)'.kind = "approve" /\ mined'[h] = "success"
                         /\ ~Executed(sent[h][1])'
                         /\ account'.allowance <=
                              CallOf(sent[h][1], Operation(sent[h][1]))'.amount
    BY DEF AllowanceHasADeposit
  <2>1. PICK h \in DOMAIN sent :
          /\ Signed(h).kind = "approve" /\ mined[h] = "success"
          /\ ~Executed(sent[h][1])
          /\ account.allowance <= CallOf(sent[h][1], Operation(sent[h][1])).amount
    BY <1>2 DEF PlansInv, AllowanceHasADeposit
  <2>2. ~Executed(sent[h][1])'
    BY <1>2, <1>4, <1>14, <2>1 DEF Executed, Operation, CallCount
  <2>3. CallOf(sent[h][1], Operation(sent[h][1]))' = CallOf(sent[h][1], Operation(sent[h][1]))
    BY <1>2, <1>4, <2>1 DEF CallOf, Operation, CallCount
  <2>. QED
    BY <1>2, <1>4, <1>13, <2>1, <2>2, <2>3
<1>17. WorldOK' /\ actual' \in [Actions -> Int \cup {Null}]
  BY <1>2 DEF PlansInv, WorldOK
<1>. QED
  BY <1>7, <1>8, <1>10, <1>11, <1>12, <1>15, <1>16, <1>17 DEF PlansInv

\* The owner spends of the allowance elsewhere, which only lowers it.
LEMMA ApartStep ==
  ASSUME PlansInv, DepositApart
  PROVE  PlansInv'
<1>1. PICK ask \in Asks : /\ Executes(Call("deposit", ask), account, vault)
                          /\ account' = After(Call("deposit", ask), account, vault)
  BY DEF DepositApart
<1>2. /\ apart' = TRUE /\ UNCHANGED <<vars, vault, offers, sent, given, actual>>
      /\ UNCHANGED <<tableVars, requestVars, mined, plan>>
  BY DEF DepositApart, vars, chainVars, tableVars
<1>. DEFINE c == Call("deposit", ask)
<1>3. c.kind = "deposit" /\ c.amount \in Nat
  BY PlansAssumption DEF Call
<1>. HIDE DEF c
<1>4. account \in Account /\ vault \in VaultStates
  BY DEF PlansInv, WorldOK
<1>5. account' \in Account /\ account'.allowance <= account.allowance
  <2>1. IsCall(c)
    BY <1>3 DEF IsCall
  <2>2. account' \in Account /\ account'.allowance = account.allowance - c.amount
    BY <1>1, <1>3, <1>4, <2>1, AfterIs DEF c
  <2>. QED
    BY <1>3, <1>4, <2>2 DEF Account
<1>6. ActionInv'
  BY <1>2, InvStep DEF PlansInv
<1>7. /\ NewestIsStored' /\ OffersAreInOrder' /\ SignedInOrder' /\ ReceiptsAreSigned'
      /\ ReportsAreSigned' /\ ActualIsRecorded'
  BY <1>2, TablesRest
<1>8. WorldOK' /\ MinedInOrder' /\ actual' \in [Actions -> Int \cup {Null}]
  BY <1>2, <1>5 DEF PlansInv, WorldOK, MinedInOrder
<1>9. LastApprovalStands'
  BY <1>2 DEF LastApprovalStands
<1>10. AllowanceHasADeposit'
  <2>. SUFFICES ASSUME account'.allowance > 0
                PROVE  \E h \in DOMAIN sent' :
                         /\ Signed(h)'.kind = "approve" /\ mined'[h] = "success"
                         /\ ~Executed(sent[h][1])'
                         /\ account'.allowance <=
                              CallOf(sent[h][1], Operation(sent[h][1]))'.amount
    BY DEF AllowanceHasADeposit
  <2>1. account.allowance > 0
    BY <1>4, <1>5 DEF Account
  <2>2. PICK h \in DOMAIN sent :
          /\ Signed(h).kind = "approve" /\ mined[h] = "success"
          /\ ~Executed(sent[h][1])
          /\ account.allowance <= CallOf(sent[h][1], Operation(sent[h][1])).amount
    BY <2>1 DEF PlansInv, AllowanceHasADeposit
  <2>3. /\ Signed(h)' = Signed(h) /\ (Executed(sent[h][1])' <=> Executed(sent[h][1]))
        /\ CallOf(sent[h][1], Operation(sent[h][1]))' = CallOf(sent[h][1], Operation(sent[h][1]))
    BY <1>2 DEF Signed, CallOf, Executed, Operation, CallCount
  <2>4. CallOf(sent[h][1], Operation(sent[h][1])).amount \in Nat
    BY SignedAre, OperationsAre DEF IsCall
  <2>. QED
    BY <1>2, <1>4, <1>5, <2>2, <2>3, <2>4 DEF Account
<1>. QED
  BY <1>5, <1>6, <1>7, <1>8, <1>9, <1>10 DEF PlansInv

\* The two transactions a plan has are signed in their order.
LEMMA ApprovalIsEarlier ==
  ASSUME PlansInv, NEW h \in DOMAIN sent, Signed(h).kind = "approve"
  PROVE  /\ CallCount(sent[h][1]) = 2 /\ sent[h][2] = 0 /\ Operation(sent[h][1]) = 1
         /\ CallOf(sent[h][1], 1).kind = "deposit"
         /\ CallOf(sent[h][1], 1).amount = Signed(h).amount
         /\ \A k \in DOMAIN sent : sent[k] = <<sent[h][1], 1>> => h < k
<1>. DEFINE a == sent[h][1]
            p == plan[a]
<1>1. /\ a \in Actions /\ p \in Plans /\ sent[h][2] \in IndicesOf(p)
      /\ sent[h] = <<a, sent[h][2]>>
  BY SignedAre
<1>2. /\ Len(p) \in {1, 2} /\ p[Len(p)].kind \in {"deposit", "redeem"}
      /\ Len(p) = 2 => /\ p[2].kind = "deposit" /\ p[2].amount = p[1].amount
  BY <1>1, PlansAre
<1>3. Signed(h) = p[sent[h][2] + 1]
  BY DEF Signed, CallOf
<1>4. Len(p) = 2 /\ sent[h][2] = 0
  BY <1>1, <1>2, <1>3 DEF IndicesOf
<1>5. ASSUME NEW k \in DOMAIN sent, sent[k] = <<a, 1>> PROVE h < k
  <2>1. 0 \in Calls /\ 0 < sent[k][2] /\ sent[k][1] = a
    BY <1>5, CallsAre
  <2>2. PICK g \in DOMAIN sent : g < k /\ sent[g] = <<a, 0>>
    BY <2>1 DEF PlansInv, SignedInOrder
  <2>3. g = h
    BY <1>1, <1>4, <2>2 DEF PlansInv, SignedInOrder
  <2>. QED
    BY <2>2, <2>3
<1>. QED
  BY <1>2, <1>3, <1>4, <1>5 DEF CallOf, Operation, CallCount

\* A transaction is mined: after all that was signed before it, and before the rest.
LEMMA MineStep ==
  ASSUME PlansInv, NEW h \in TxHashes, MineSigned(h)
  PROVE  PlansInv'
<1>. DEFINE c == Signed(h)
            a == sent[h][1]
<1>1. /\ h \in DOMAIN sent /\ mined[h] = "none"
      /\ UNCHANGED <<tableVars, requestVars, vault, apart, offers, sent, actual>>
      /\ UNCHANGED <<plan, receipts>>
  BY DEF MineSigned, MineAs, tableVars
<1>2. \A e \in 1..(h - 1) : mined[e] # "none"
  BY DEF MineSigned
<1>3. PICK outcome \in {"success", "reverted"} :
        /\ MineAs(h, outcome)
        /\ outcome = "success" => /\ Executes(c, account, vault)
                                  /\ account' = After(c, account, vault)
                                  /\ given' = [given EXCEPT ![h] = Given(c, vault)]
        /\ outcome = "reverted" => UNCHANGED <<account, given>>
  BY DEF MineSigned
<1>4. mined' = [mined EXCEPT ![h] = outcome] /\ mined \in [TxHashes -> {"none", "success", "reverted"}]
  BY <1>3 DEF MineAs, PlansInv, ActionInv, TypeOK
<1>5. ActionInv'
  BY <1>3, MineKeeps DEF PlansInv
<1>6. /\ NewestIsStored' /\ OffersAreInOrder' /\ SignedInOrder' /\ ReceiptsAreSigned'
      /\ ReportsAreSigned'
  BY <1>1, TablesRest
<1>7. /\ IsCall(c) /\ h \in Nat /\ account \in Account /\ vault \in VaultStates
      /\ given \in [TxHashes -> Int]
      /\ sent[h] = <<a, sent[h][2]>> /\ \A g \in DOMAIN sent : g \in Nat /\ g \in TxHashes
  BY <1>1, SignedAre DEF PlansInv, WorldOK
<1>8. \A g \in DOMAIN sent : g > h => mined[g] = "none"
  BY <1>1, <1>4, <1>7 DEF PlansInv, MinedInOrder
<1>9. \A g \in DOMAIN sent : Signed(g)' = Signed(g)
  BY <1>1 DEF Signed, CallOf
<1>. HIDE DEF c
<1>10. WorldOK'
  <2>1. outcome = "success" => account' \in Account /\ Given(c, vault) \in Int
    BY <1>3, <1>7, AfterIs, GivenIs
  <2>2. account' \in Account /\ given' \in [TxHashes -> Int]
    BY <1>3, <1>7, <2>1
  <2>. QED
    BY <1>1, <2>2 DEF PlansInv, WorldOK
<1>11. MinedInOrder'
  <2>. SUFFICES ASSUME NEW k \in TxHashes, mined'[k] # "none"
                PROVE  k \in DOMAIN sent /\ \A g \in DOMAIN sent : g < k => mined'[g] # "none"
    BY <1>1 DEF MinedInOrder
  <2>1. CASE k = h
    <3>1. \A g \in DOMAIN sent : g < h => g \in 1..(h - 1)
      <4>1. sent \in Seq(Actions \X Calls)
        BY DEF PlansInv, SignedInOrder
      <4>. QED
        BY <1>7, <4>1
    <3>. QED
      BY <1>1, <1>2, <1>4, <1>7, <2>1, <3>1
  <2>2. CASE k # h
    BY <1>1, <1>4, <1>7, <2>2 DEF PlansInv, MinedInOrder
  <2>. QED
    BY <2>1, <2>2
<1>12. ActualIsRecorded' /\ actual' \in [Actions -> Int \cup {Null}]
  <2>1. ASSUME NEW b \in Actions PROVE Amount(b)' = Amount(b)
    <3>1. Operation(b)' = Operation(b) /\ CallOf(b, Operation(b))' = CallOf(b, Operation(b))
      BY <1>1 DEF Operation, CallCount, CallOf
    <3>2. ASSUME Operation(b) \in Calls, receipts[b][Operation(b)].outcome = "success"
          PROVE  given'[receipts[b][Operation(b)].hash] = given[receipts[b][Operation(b)].hash]
      <4>1. /\ receipts[b][Operation(b)].hash # NoTx
            /\ mined[receipts[b][Operation(b)].hash] = "success"
        BY <3>2 DEF PlansInv, ActionInv, OutcomesAreMined
      <4>2. receipts[b][Operation(b)].hash \in TxHashes
        BY <3>2, <4>1 DEF PlansInv, ActionInv, TypeOK, Receipt
      <4>. QED
        BY <1>1, <1>3, <1>7, <4>1, <4>2
    <3>. QED
      BY <1>1, <3>1, <3>2 DEF Amount
  <2>. QED
    BY <1>1, <2>1 DEF PlansInv, ActualIsRecorded
<1>13. LastApprovalStands'
  <2>. SUFFICES ASSUME NEW k \in DOMAIN sent, mined'[k] = "success", Signed(k).kind = "approve",
                       \A g \in DOMAIN sent : g > k => mined'[g] # "success"
                PROVE  account'.allowance = Signed(k).amount \/ apart
    BY <1>1, <1>9 DEF LastApprovalStands
  <2>1. CASE k = h
    <3>1. outcome = "success"
      BY <1>1, <1>4, <1>7, <2>1
    <3>. QED
      BY <1>3, <1>7, <2>1, <3>1, AfterIs DEF c
  <2>2. CASE k # h
    <3>1. mined[k] = "success" /\ ~(k > h)
      BY <1>4, <1>7, <1>8, <2>2
    <3>2. outcome = "reverted"
      BY <1>1, <1>4, <1>7, <2>2, <3>1
    <3>3. \A g \in DOMAIN sent : g > k => mined[g] # "success"
      BY <1>1, <1>4, <1>7
    <3>. QED
      BY <1>3, <3>1, <3>2, <3>3 DEF PlansInv, LastApprovalStands
  <2>. QED
    BY <2>1, <2>2
<1>14. AllowanceHasADeposit'
  <2>. SUFFICES ASSUME account'.allowance > 0
                PROVE  \E w \in DOMAIN sent' :
                         /\ Signed(w)'.kind = "approve" /\ mined'[w] = "success"
                         /\ ~Executed(sent[w][1])'
                         /\ account'.allowance <=
                              CallOf(sent[w][1], Operation(sent[w][1]))'.amount
    BY DEF AllowanceHasADeposit
  <2>1. \A w \in DOMAIN sent :
          CallOf(sent[w][1], Operation(sent[w][1]))' = CallOf(sent[w][1], Operation(sent[w][1]))
    BY <1>1 DEF CallOf, Operation, CallCount
  <2>2. \A w \in DOMAIN sent :
          Executed(sent[w][1])' =>
            \/ Executed(sent[w][1])
            \/ outcome = "success" /\ sent[h] = <<sent[w][1], Operation(sent[w][1])>>
    BY <1>1, <1>4, <1>7 DEF Executed, Operation, CallCount
  <2>3. CASE outcome = "success" /\ c.kind = "approve"
    <3>1. /\ sent[h][2] = 0 /\ Operation(a) = 1 /\ CallOf(a, 1).amount = c.amount
          /\ \A k \in DOMAIN sent : sent[k] = <<a, 1>> => h < k
      BY <1>1, <2>3, ApprovalIsEarlier DEF c
    <3>2. ~Executed(a)
      BY <1>8, <3>1 DEF Executed
    <3>3. ~Executed(a)'
      <4>1. sent[h] # <<a, 1>>
        BY <1>7, <3>1
      <4>. QED
        BY <1>1, <2>2, <3>1, <3>2, <4>1
    <3>4. account'.allowance = c.amount /\ c.amount \in Nat
      BY <1>3, <1>7, <2>3, AfterIs DEF IsCall
    <3>5. mined'[h] = "success" /\ Signed(h)'.kind = "approve"
      BY <1>1, <1>4, <1>7, <1>9, <2>3 DEF c
    <3>6. account'.allowance <= CallOf(a, Operation(a))'.amount
      BY <1>1, <2>1, <3>1, <3>4
    <3>. QED
      BY <1>1, <3>3, <3>5, <3>6
  <2>4. CASE outcome = "reverted" \/ c.kind # "approve"
    <3>1. account'.allowance <= account.allowance
      BY <1>3, <1>7, <2>4, AfterIs DEF Account, IsCall
    <3>2. PICK w \in DOMAIN sent :
            /\ Signed(w).kind = "approve" /\ mined[w] = "success" /\ ~Executed(sent[w][1])
            /\ account.allowance <= CallOf(sent[w][1], Operation(sent[w][1])).amount
      <4>1. account.allowance > 0
        BY <1>7, <1>10, <3>1 DEF Account, WorldOK
      <4>. QED
        BY <4>1 DEF PlansInv, AllowanceHasADeposit
    <3>3. ~Executed(sent[w][1])'
      <4>. SUFFICES ASSUME outcome = "success", sent[h] = <<sent[w][1], Operation(sent[w][1])>>
                    PROVE  FALSE
        BY <2>2, <3>2
      <4>1. c = CallOf(sent[w][1], Operation(sent[w][1])) /\ c.kind = "deposit"
        BY <3>2, ApprovalIsEarlier DEF c, Signed
      <4>2. account'.allowance = account.allowance - c.amount /\ account.allowance <= c.amount
        BY <1>3, <1>7, <3>2, <4>1, AfterIs
      <4>3. account'.allowance <= 0
        BY <1>7, <4>2 DEF Account, IsCall
      <4>. QED
        BY <1>10, <4>3 DEF WorldOK, Account
    <3>4. mined'[w] = "success" /\ Signed(w)'.kind = "approve"
      BY <1>1, <1>4, <1>7, <1>9, <3>2
    <3>5. CallOf(sent[w][1], Operation(sent[w][1])).amount \in Nat
      BY SignedAre, OperationsAre DEF IsCall
    <3>6. account'.allowance <= CallOf(sent[w][1], Operation(sent[w][1]))'.amount
      BY <1>7, <1>10, <2>1, <3>1, <3>2, <3>5 DEF Account, WorldOK
    <3>. QED
      BY <1>1, <3>3, <3>4, <3>6
  <2>. QED
    BY <2>3, <2>4
<1>. QED
  BY <1>5, <1>6, <1>10, <1>11, <1>12, <1>13, <1>14 DEF PlansInv

\* Every step keeps it.
LEMMA PlansInvStep == PlansInv /\ [PlansNext]_allVars => PlansInv'
<1>. SUFFICES ASSUME PlansInv, [PlansNext]_allVars PROVE PlansInv'
  OBVIOUS
<1>1. CASE PassBlock \/ MoveVault \/ UNCHANGED allVars
  BY <1>1, CalmStep
<1>2. ASSUME NEW r \in Requests,
             \/ AskPrepare(r) \/ FinishPrepare(r) \/ AskSimulate(r)
             \/ AskReport(r) \/ ContinueReport(r) \/ AskStatus(r) \/ Forget(r)
      PROVE  PlansInv'
  BY <1>2, PrepareStep, SimulateStep, ReportStep, ContinueStep, StatusStep, ForgetStep
<1>. QED
  BY <1>1, <1>2, ApartStep, SignStep, MineStep DEF PlansNext

\* So it always holds.
LEMMA PlansInvHolds == PlansSpec => []PlansInv
BY PlansInvInit, PlansInvStep, PTL DEF PlansSpec

-----------------------------------------------------------------------------
(* One request at a time                                                    *)

\* A step is one of a request, or leaves the tables and the requests alone.
LEMMA StepsAre ==
  ASSUME PlansInv, [PlansNext]_allVars
  PROVE  (\E r \in Requests : ApiSteps(r)) \/ UNCHANGED <<tableVars, requestVars>>
<1>1. ASSUME NEW r \in Requests,
             \/ AskPrepare(r) \/ FinishPrepare(r) \/ AskSimulate(r)
             \/ AskReport(r) \/ ContinueReport(r) \/ AskStatus(r) \/ Forget(r)
      PROVE  ApiSteps(r)
  <2>1. CASE AskPrepare(r)
    BY <2>1, AsksLeadToPlans DEF AskPrepare, ApiSteps, Prepare
  <2>2. CASE AskReport(r)
    <3>1. PICK h \in DOMAIN sent : ReportRead(r, sent[h][1], sent[h][2], h)
      BY <2>2 DEF AskReport
    <3>. QED
      BY <3>1, SignedAre DEF ApiSteps, Report
  <2>. QED
    BY <1>1, <2>1, <2>2 DEF FinishPrepare, AskSimulate, ContinueReport, AskStatus, Forget,
       ApiSteps, Prepare
<1>2. ASSUME PassBlock \/ MoveVault \/ DepositApart \/ WalletSigns \/ UNCHANGED allVars
      PROVE  UNCHANGED <<tableVars, requestVars>>
  BY <1>2 DEF PassBlock, NextBlock, MoveVault, DepositApart, WalletSigns, allVars, vars
<1>3. ASSUME NEW h \in TxHashes, MineSigned(h) PROVE UNCHANGED <<tableVars, requestVars>>
  BY <1>3 DEF MineSigned, MineAs
<1>. QED
  BY <1>1, <1>2, <1>3 DEF PlansNext

-----------------------------------------------------------------------------
(* What a plan does                                                         *)

\* A read that gave no answer is no number and no account.
LEMMA NullIsApart == Null \notin Int /\ Null \notin Account
BY PlansAssumption DEF Account

\* What a preparation that is not refused has seen of a vault that says the truth.
LEMMA NotRefused ==
  ASSUME WorldOK, NEW ask \in Asks, NEW lost \in {{}, {"allowance"}},
         Truthful(vault, ask.kind), ~Refused(ask, Seen(ask, account, vault, lost))
  PROVE  /\ ask.amount > 0
         /\ ask.kind = "deposit" => /\ ask.amount <= account.assets
                                    /\ ask.amount <= vault.takes
                                    /\ vault.asset = Declared
         /\ ask.kind = "redeem" => /\ ask.amount <= account.shares
                                   /\ ask.amount <= vault.gives
<1>. DEFINE seen == Seen(ask, account, vault, lost)
<1>1. /\ ask.kind \in {"deposit", "redeem"} /\ ask.amount \in Nat
      /\ account.assets \in Nat /\ account.shares \in Nat
      /\ {vault.takes, vault.saysTakes, vault.gives, vault.saysGives} \subseteq Nat
  BY PlansAssumption DEF WorldOK, Account
<1>2. /\ seen.asset = vault.asset
      /\ seen.balance = IF ask.kind = "deposit" THEN account.assets ELSE account.shares
      /\ seen.limit = IF ask.kind = "deposit" THEN vault.saysTakes ELSE vault.saysGives
  BY DEF Seen
<1>. HIDE DEF seen
<1>3. ~Refused(ask, seen)
  BY DEF seen
<1>4. CASE ask.kind = "deposit"
  BY <1>1, <1>2, <1>3, <1>4, NullIsApart DEF Refused, DepositRefused, Below, Truthful
<1>5. CASE ask.kind = "redeem"
  BY <1>1, <1>2, <1>3, <1>5, NullIsApart DEF Refused, RedeemRefused, Below, Truthful
<1>. QED
  BY <1>1, <1>4, <1>5

\* A deposit after an approval that was reported, mined and followed by nothing has what
\* it was approved.
LEMMA ApprovedStands ==
  ASSUME PlansInv, NEW a \in Actions, NEW h \in DOMAIN sent, sent[h] = <<a, 0>>,
         CallOf(a, 0).kind = "approve", mined[h] = "success", CallCount(a) = 2,
         \A g \in DOMAIN sent : sent[g][1] = a => sent[g][2] # 1,
         ~CameBetween(a), ~apart
  PROVE  account.allowance = CallOf(a, 0).amount
<1>1. Signed(h) = CallOf(a, 0)
  BY DEF Signed
<1>2. ASSUME NEW g \in DOMAIN sent, g > h PROVE mined[g] # "success"
  <2>1. g \in Nat /\ h \in Nat /\ h < g
    BY <1>2, SignedAre
  <2>2. CASE sent[g][1] # a
    BY <2>1, <2>2 DEF CameBetween
  <2>3. CASE sent[g][1] = a
    <3>1. sent[g][2] \in IndicesOf(plan[a]) /\ sent[g] = <<a, sent[g][2]>>
      BY <2>3, SignedAre
    <3>2. sent[g][2] = 0
      BY <2>3, <3>1 DEF IndicesOf, CallCount
    <3>3. g = h
      BY <3>1, <3>2 DEF PlansInv, SignedInOrder
    <3>. QED
      BY <2>1, <3>3
  <2>. QED
    BY <2>2, <2>3
<1>. QED
  BY <1>1, <1>2 DEF PlansInv, LastApprovalStands

\* What is served again can be carried out, but for the five cases.
LEMMA StrandedThus ==
  ASSUME PlansInv
  PROVE  StrandedOnlyThus
<1>. SUFFICES ASSUME NEW ask \in Asks, Truthful(vault, ask.kind),
                     ~Refused(ask, Seen(ask, account, vault, {})),
                     NEW a \in LiveActions(PlanOf(ask, Seen(ask, account, vault, {}))),
                     sentCount[a] # CallCount(a),
                     \A h \in DOMAIN sent :
                       sent[h][1] = a => mined[h] = "success" /\ sent[h][2] # sentCount[a],
                     ~CameBetween(a), ~apart
              PROVE  Executes(CallOf(a, sentCount[a]), account, vault)
  BY DEF StrandedOnlyThus
<1>. DEFINE seen == Seen(ask, account, vault, {})
            p == PlanOf(ask, seen)
<1>1. /\ a \in Actions /\ plan[a] = p /\ status[a] \in Live
      /\ sentCount[a] \in Nat /\ sentCount[a] < CallCount(a)
      /\ Before(a, sentCount[a])
  <2>1. /\ a \in Actions /\ plan[a] = p /\ status[a] \in Live
        /\ sentCount[a] \in Nat /\ sentCount[a] <= CallCount(a)
        /\ Before(a, sentCount[a])
    BY DEF LiveActions, PlansInv, ActionInv, TypeOK, Ordered
  <2>2. CallCount(a) \in Nat
    <3>1. plan[a] \in Plans \/ plan[a] = <<>>
      BY <2>1 DEF PlansInv, ActionInv, TypeOK
    <3>. QED
      BY <3>1, CallsAre DEF CallCount
  <2>. QED
    BY <2>1, <2>2
<1>2. /\ ask.kind \in {"deposit", "redeem"} /\ ask.amount \in Nat /\ WorldOK
      /\ account.allowance \in Nat
  BY PlansAssumption DEF PlansInv, WorldOK, Account
<1>3. /\ ask.kind = "deposit" => /\ ask.amount <= account.assets
                                 /\ ask.amount <= vault.takes
                                 /\ vault.asset = Declared
      /\ ask.kind = "redeem" => /\ ask.amount <= account.shares
                                /\ ask.amount <= vault.gives
  BY <1>2, NotRefused
<1>4. seen.allowance = account.allowance /\ seen.allowance # Null
  BY <1>2, NullIsApart DEF Seen
<1>. HIDE DEF seen
<1>5. CASE ask.kind = "redeem"
  <2>1. p = <<Call("redeem", ask)>>
    BY <1>5 DEF PlanOf
  <2>2. sentCount[a] = 0 /\ CallOf(a, 0) = Call("redeem", ask)
    BY <1>1, <2>1 DEF CallCount, CallOf
  <2>. QED
    BY <1>3, <1>5, <2>2 DEF Executes, Call
<1>6. CASE ask.kind = "deposit" /\ ~(seen.allowance < ask.amount)
  <2>1. p = <<Call("deposit", ask)>>
    BY <1>4, <1>6, DepositCallsAre
  <2>2. sentCount[a] = 0 /\ CallOf(a, 0) = Call("deposit", ask)
    BY <1>1, <2>1 DEF CallCount, CallOf
  <2>3. ask.amount <= account.allowance
    BY <1>2, <1>4, <1>6
  <2>. QED
    BY <1>3, <1>6, <2>2, <2>3 DEF Executes, Call
<1>7. CASE ask.kind = "deposit" /\ seen.allowance < ask.amount
  <2>1. p = <<Call("approve", ask), Call("deposit", ask)>>
    BY <1>7, DepositCallsAre
  <2>2. /\ CallCount(a) = 2 /\ CallOf(a, 0) = Call("approve", ask)
        /\ CallOf(a, 0).kind = "approve" /\ CallOf(a, 0).amount = ask.amount
    BY <1>1, <2>1 DEF CallCount, CallOf, Call
  <2>3. CASE sentCount[a] = 0
    BY <2>2, <2>3 DEF Executes
  <2>4. CASE sentCount[a] = 1
    <3>1. 0 \in Calls /\ 0 \in Reported(a)
      BY <1>1, <2>4, CallsAre DEF Before
    <3>2. PICK h \in DOMAIN sent : sent[h] = <<a, 0>>
      BY <1>1, <3>1 DEF PlansInv, ReceiptsAreSigned, IsSigned
    <3>3. mined[h] = "success" /\ \A g \in DOMAIN sent : sent[g][1] = a => sent[g][2] # 1
      BY <2>4, <3>2
    <3>4. account.allowance = ask.amount
      BY <1>1, <2>2, <3>2, <3>3, ApprovedStands
    <3>. QED
      BY <1>2, <1>4, <1>7, <3>4
  <2>. QED
    BY <1>1, <2>2, <2>3, <2>4
<1>. QED
  BY <1>2, <1>5, <1>6, <1>7

\* Executing a plan of one call is executing the call.
LEMMA FoldOne ==
  ASSUME NEW c, NEW acc, NEW v
  PROVE  AfterAll(<<c>>, acc, v) = AfterOne(c, acc, v)
<1>. DEFINE Body(f, s) == IF s = {} THEN acc ELSE AfterOne(<<c>>[Max(s)], f[s \ {Max(s)}], v)
            Step(f) == [s \in SUBSET {1} |-> Body(f, s)]
            iter == CHOOSE f : f = Step(f)
            known == [s \in SUBSET {1} |-> IF s = {} THEN acc ELSE AfterOne(c, acc, v)]
<1>1. AfterAll(<<c>>, acc, v) = iter[{1}]
  BY DEF AfterAll, FoldLeft, MapThenFoldSet
<1>2. Max({1}) = 1 /\ <<c>>[1] = c /\ {1} \ {1} = {} /\ {1} # {}
  BY DEF Max
<1>3. \A f : Body(f, {}) = acc /\ Body(f, {1}) = AfterOne(c, f[{}], v)
  BY <1>2
<1>4. \A s \in SUBSET {1} : s = {} \/ s = {1}
  OBVIOUS
<1>5. known[{}] = acc /\ known[{1}] = AfterOne(c, acc, v)
  BY <1>2
<1>. HIDE DEF Body
<1>6. known = Step(known)
  <2>1. ASSUME NEW s \in SUBSET {1} PROVE known[s] = Body(known, s)
    <3>. HIDE DEF known
    <3>1. CASE s = {}
      BY <1>3, <1>5, <3>1
    <3>2. CASE s = {1}
      BY <1>3, <1>5, <3>2
    <3>. QED
      BY <1>4, <3>1, <3>2
  <2>. QED
    BY <2>1
<1>7. iter = Step(iter)
  BY <1>6
<1>8. iter[{}] = acc /\ iter[{1}] = AfterOne(c, iter[{}], v)
  BY <1>3, <1>7
<1>. QED
  BY <1>1, <1>8

\* Executing a plan of two is executing the second after the first.
LEMMA FoldTwo ==
  ASSUME NEW c, NEW d, NEW acc, NEW v
  PROVE  AfterAll(<<c, d>>, acc, v) = AfterOne(d, AfterOne(c, acc, v), v)
<1>. DEFINE Body(f, s) == IF s = {} THEN acc ELSE AfterOne(<<c, d>>[Max(s)], f[s \ {Max(s)}], v)
            Step(f) == [s \in SUBSET {1, 2} |-> Body(f, s)]
            iter == CHOOSE f : f = Step(f)
            first == AfterOne(c, acc, v)
            known == [s \in SUBSET {1, 2} |->
                        IF 2 \notin s THEN IF 1 \notin s THEN acc ELSE first
                        ELSE AfterOne(d, IF 1 \notin s THEN acc ELSE first, v)]
<1>1. AfterAll(<<c, d>>, acc, v) = iter[{1, 2}]
  BY DEF AfterAll, FoldLeft, MapThenFoldSet
<1>2. /\ Max({1}) = 1 /\ Max({2}) = 2 /\ Max({1, 2}) = 2
      /\ <<c, d>>[1] = c /\ <<c, d>>[2] = d
      /\ {1} \ {1} = {} /\ {2} \ {2} = {} /\ {1, 2} \ {2} = {1}
      /\ {1} # {} /\ {2} # {} /\ {1, 2} # {}
  BY DEF Max
<1>3. \A f : /\ Body(f, {}) = acc
             /\ Body(f, {1}) = AfterOne(c, f[{}], v)
             /\ Body(f, {2}) = AfterOne(d, f[{}], v)
             /\ Body(f, {1, 2}) = AfterOne(d, f[{1}], v)
  BY <1>2
<1>4. \A s \in SUBSET {1, 2} : s \in {{}, {1}, {2}, {1, 2}}
  OBVIOUS
<1>5. /\ known[{}] = acc /\ known[{1}] = first /\ known[{2}] = AfterOne(d, acc, v)
      /\ known[{1, 2}] = AfterOne(d, first, v)
  OBVIOUS
<1>. HIDE DEF Body
<1>6. known = Step(known)
  <2>1. ASSUME NEW s \in SUBSET {1, 2} PROVE known[s] = Body(known, s)
    <3>. HIDE DEF known, first
    <3>1. CASE s = {}
      BY <1>3, <1>5, <3>1
    <3>2. CASE s = {1}
      BY <1>3, <1>5, <3>2 DEF first
    <3>3. CASE s = {2}
      BY <1>3, <1>5, <3>3
    <3>4. CASE s = {1, 2}
      BY <1>3, <1>5, <3>4
    <3>. QED
      BY <1>4, <3>1, <3>2, <3>3, <3>4
  <2>. QED
    BY <2>1
<1>7. iter = Step(iter)
  BY <1>6
<1>8. /\ iter[{}] = acc /\ iter[{1}] = AfterOne(c, iter[{}], v)
      /\ iter[{1, 2}] = AfterOne(d, iter[{1}], v)
  BY <1>3, <1>7
<1>. QED
  BY <1>1, <1>8

\* What is given by a call is more than nothing only if what is asked is.
LEMMA GivesMore ==
  ASSUME NEW n \in Nat, NEW p \in Nat \ {0}
  PROVE  /\ n \div p \in Nat /\ n * p \in Nat
         /\ n \div p > 0 => n > 0
         /\ n > 0 <=> n * p > 0
<1>1. n = 0 => n \div p = 0 /\ n * p = 0
  OBVIOUS
<1>2. n > 0 => n * p > 0
  OBVIOUS
<1>. QED
  BY <1>1, <1>2

\* A deposit is refused, by what is read of a vault that says the truth, exactly if its
\* calls cannot be executed or give nothing.
LEMMA DepositsExecute ==
  ASSUME WorldOK, NEW ask \in Asks, ask.kind = "deposit",
         NEW lost \in {{}, {"allowance"}}, Truthful(vault, "deposit")
  PROVE  LET seen == Seen(ask, account, vault, lost)
             left == AfterAll(PlanOf(ask, seen), account, vault)
         IN  ~Refused(ask, seen) <=> left # Null /\ seen.preview > 0
<1>. DEFINE seen == Seen(ask, account, vault, lost)
            approve == Call("approve", ask)
            deposit == Call("deposit", ask)
            left == AfterAll(PlanOf(ask, seen), account, vault)
            approved == After(approve, account, vault)
<1>1. /\ ask.amount \in Nat /\ account \in Account /\ account # Null
      /\ account.assets \in Nat /\ account.allowance \in Nat
      /\ vault.takes \in Nat /\ vault.saysTakes \in Nat /\ vault.price \in Nat \ {0}
      /\ vault \in VaultStates
  BY PlansAssumption, NullIsApart DEF WorldOK, Account
<1>2. /\ seen.asset = vault.asset /\ seen.balance = account.assets
      /\ seen.limit = vault.takes /\ seen.preview = ask.amount \div vault.price
      /\ seen.allowance = IF lost = {} THEN account.allowance ELSE Null
  BY DEF Seen, Shares, Truthful
<1>3. /\ approve.kind = "approve" /\ approve.amount = ask.amount /\ IsCall(approve)
      /\ deposit.kind = "deposit" /\ deposit.amount = ask.amount /\ IsCall(deposit)
  BY <1>1 DEF Call, IsCall
<1>. HIDE DEF seen, approve, deposit
<1>4. PlanOf(ask, seen) = IF seen.allowance = Null \/ seen.allowance < ask.amount
                            THEN <<approve, deposit>> ELSE <<deposit>>
  BY DepositCallsAre DEF approve, deposit
<1>5. ~Refused(ask, seen) <=> /\ ask.amount > 0 /\ vault.asset = Declared
                             /\ ask.amount <= account.assets /\ ask.amount <= vault.takes
                             /\ seen.preview > 0
  <2>1. seen.preview \in Nat /\ ask.amount \div vault.price \in Nat
    BY <1>1, <1>2, GivesMore
  <2>2. /\ seen.preview \notin {Null, 0} <=> seen.preview > 0
        /\ ~(seen.balance = Null \/ seen.balance < ask.amount) <=> ask.amount <= account.assets
        /\ ~Below(seen.limit, ask.amount) <=> ask.amount <= vault.takes
    BY <1>1, <1>2, <2>1, NullIsApart DEF Below
  <2>. QED
    BY <1>1, <1>2, <2>2 DEF Refused, DepositRefused
<1>6. seen.preview > 0 => ask.amount > 0
  <2>1. ask.amount \div vault.price > 0 => ask.amount > 0
    BY <1>1, GivesMore
  <2>. QED
    BY <1>2, <2>1
<1>7. \A acc \in Account : Executes(deposit, acc, vault) =>
        After(deposit, acc, vault) \in Account /\ After(deposit, acc, vault) # Null
  <2>1. \A acc \in Account : Executes(deposit, acc, vault) => After(deposit, acc, vault) \in Account
    BY <1>1, <1>3, AfterIs
  <2>. QED
    BY <2>1, NullIsApart
<1>8. CASE seen.allowance = Null \/ seen.allowance < ask.amount
  <2>1. Executes(approve, account, vault)
    BY <1>3 DEF Executes
  <2>2. approved \in Account /\ approved.allowance = ask.amount /\ approved.assets = account.assets
    <3>1. approved = [account EXCEPT !.allowance = ask.amount]
      BY <1>3 DEF After
    <3>. QED
      BY <1>1, <3>1 DEF Account
  <2>3. approved # Null
    BY <2>2, NullIsApart
  <2>. HIDE DEF approved
  <2>4. left = AfterOne(deposit, approved, vault)
    BY <1>1, <1>4, <1>8, <2>1, FoldTwo DEF AfterOne, approved
  <2>5. Executes(deposit, approved, vault) <=> /\ ask.amount <= account.assets
                                              /\ ask.amount <= vault.takes
                                              /\ vault.asset = Declared
    BY <1>1, <1>3, <2>2 DEF Executes
  <2>6. left # Null <=> Executes(deposit, approved, vault)
    BY <1>7, <2>2, <2>3, <2>4 DEF AfterOne
  <2>. HIDE DEF left
  <2>7. ~Refused(ask, seen) <=> left # Null /\ seen.preview > 0
    BY <1>5, <1>6, <2>5, <2>6
  <2>. QED
    BY <2>7 DEF left, seen
<1>9. CASE ~(seen.allowance = Null \/ seen.allowance < ask.amount)
  <2>1. ask.amount <= account.allowance
    BY <1>1, <1>2, <1>9
  <2>2. left = AfterOne(deposit, account, vault)
    BY <1>4, <1>9, FoldOne
  <2>3. Executes(deposit, account, vault) <=> /\ ask.amount <= account.assets
                                             /\ ask.amount <= vault.takes
                                             /\ vault.asset = Declared
    BY <1>3, <2>1 DEF Executes
  <2>4. left # Null <=> Executes(deposit, account, vault)
    BY <1>1, <1>7, <2>2 DEF AfterOne
  <2>. HIDE DEF left
  <2>5. ~Refused(ask, seen) <=> left # Null /\ seen.preview > 0
    BY <1>5, <1>6, <2>3, <2>4
  <2>. QED
    BY <2>5 DEF left, seen
<1>. QED
  BY <1>8, <1>9

\* So is a redemption.
LEMMA RedeemsExecute ==
  ASSUME WorldOK, NEW ask \in Asks, ask.kind = "redeem",
         NEW lost \in {{}, {"allowance"}}, Truthful(vault, "redeem")
  PROVE  LET seen == Seen(ask, account, vault, lost)
             left == AfterAll(PlanOf(ask, seen), account, vault)
         IN  ~Refused(ask, seen) <=> left # Null /\ seen.preview > 0
<1>. DEFINE seen == Seen(ask, account, vault, lost)
            redeem == Call("redeem", ask)
            left == AfterAll(PlanOf(ask, seen), account, vault)
<1>1. /\ ask.amount \in Nat /\ account \in Account /\ account # Null
      /\ account.shares \in Nat /\ vault.price \in Nat \ {0}
      /\ vault.gives \in Nat /\ vault.gives > 0 /\ vault \in VaultStates
  BY PlansAssumption, NullIsApart DEF WorldOK, Account, Truthful
<1>2. /\ seen.balance = account.shares /\ seen.limit = vault.gives
      /\ seen.preview = ask.amount * vault.price
  BY DEF Seen, Assets, Truthful
<1>3. redeem.kind = "redeem" /\ redeem.amount = ask.amount /\ IsCall(redeem)
  BY <1>1 DEF Call, IsCall
<1>. HIDE DEF seen, redeem
<1>4. PlanOf(ask, seen) = <<redeem>>
  BY DEF PlanOf, redeem
<1>5. seen.preview \in Nat /\ (ask.amount > 0 <=> seen.preview > 0)
  BY <1>1, <1>2, GivesMore
<1>6. ~Refused(ask, seen) <=> /\ ask.amount > 0 /\ ask.amount <= account.shares
                             /\ ask.amount <= vault.gives
  <2>1. /\ seen.preview # Null
        /\ ~(seen.balance = Null \/ seen.balance < ask.amount) <=> ask.amount <= account.shares
        /\ ~Below(seen.limit, ask.amount) <=> ask.amount <= vault.gives
        /\ seen.limit # 0
    BY <1>1, <1>2, <1>5, NullIsApart DEF Below
  <2>. QED
    BY <1>1, <2>1 DEF Refused, RedeemRefused
<1>7. left # Null <=> Executes(redeem, account, vault)
  <2>1. left = AfterOne(redeem, account, vault)
    BY <1>4, FoldOne
  <2>2. Executes(redeem, account, vault) => After(redeem, account, vault) # Null
    <3>1. Executes(redeem, account, vault) => After(redeem, account, vault) \in Account
      BY <1>1, <1>3, AfterIs
    <3>. QED
      BY <3>1, NullIsApart
  <2>. QED
    BY <1>1, <2>1, <2>2 DEF AfterOne
<1>8. Executes(redeem, account, vault) <=> ask.amount <= account.shares /\ ask.amount <= vault.gives
  BY <1>3 DEF Executes
<1>. HIDE DEF left
<1>9. ~Refused(ask, seen) <=> left # Null /\ seen.preview > 0
  BY <1>5, <1>6, <1>7, <1>8
<1>. QED
  BY <1>9 DEF left, seen

-----------------------------------------------------------------------------
(* Theorems                                                                 *)

\* For all constants, the vault is allowed no more than a deposit that still stands for it
\* asks, whatever requests run at once: prepare.ts:66-68, PRD TR-F-034.
THEOREM AllowancesAreAccountedFor == PlansSpec => []AllowanceHasADeposit
<1>1. PlansInv => AllowanceHasADeposit
  BY DEF PlansInv
<1>. QED
  BY <1>1, PlansInvHolds, PTL

\* For all constants, the amount on record of an action is what its transaction gave:
\* receipts.ts:9-12, action-service.ts:514-521.
THEOREM AmountsAreWhatHappened == PlansSpec => []ActualIsWhatHappened
<1>1. PlansInv => ActualIsWhatHappened
  <2>. SUFFICES ASSUME PlansInv, NEW a \in Actions
                PROVE  /\ actual[a] # Null =>
                            \E h \in DOMAIN sent : /\ sent[h] = <<a, Operation(a)>>
                                                   /\ mined[h] = "success"
                                                   /\ actual[a] = given[h]
                       /\ Succeeded(a) /\ (CallOf(a, Operation(a)).kind = "redeem"
                                           \/ CallOf(a, Operation(a)).receiver = "owner") =>
                            actual[a] # Null
    BY DEF ActualIsWhatHappened
  <2>. DEFINE i == Operation(a)
              settled == i \in Calls /\ receipts[a][i].outcome = "success"
              elsewhere == CallOf(a, i).kind = "deposit" /\ CallOf(a, i).receiver # "owner"
  <2>1. actual[a] = IF settled /\ ~elsewhere THEN given[receipts[a][i].hash] ELSE Null
    BY DEF PlansInv, ActualIsRecorded, Amount
  <2>2. ASSUME settled
        PROVE  /\ receipts[a][i].hash \in DOMAIN sent /\ sent[receipts[a][i].hash] = <<a, i>>
               /\ mined[receipts[a][i].hash] = "success"
               /\ given[receipts[a][i].hash] \in Int
    <3>1. receipts[a][i].hash # NoTx /\ mined[receipts[a][i].hash] = "success"
      BY <2>2 DEF PlansInv, ActionInv, OutcomesAreMined
    <3>2. IsSigned(receipts[a][i].hash, a, i)
      BY <2>2, <3>1 DEF PlansInv, ReceiptsAreSigned, Reported
    <3>. QED
      BY <3>1, <3>2 DEF IsSigned, PlansInv, SignedInOrder, WorldOK
  <2>3. ASSUME actual[a] # Null
        PROVE  \E h \in DOMAIN sent : /\ sent[h] = <<a, Operation(a)>>
                                      /\ mined[h] = "success"
                                      /\ actual[a] = given[h]
    BY <2>1, <2>2, <2>3
  <2>4. settled /\ ~elsewhere => actual[a] # Null
    BY <2>1, <2>2, NullIsApart
  <2>. QED
    BY <2>3, <2>4 DEF Succeeded
<1>. QED
  BY <1>1, PlansInvHolds, PTL

\* For any number of actions, hashes and requests at once, an action that is served again
\* can be carried out but for five cases: action-service.ts:157-177, actions.ts:68-76.
THEOREM FewAreStranded == PlansSpec => []StrandedOnlyThus
<1>1. PlansInv => StrandedOnlyThus
  BY StrandedThus
<1>. QED
  BY <1>1, PlansInvHolds, PTL

\* For all constants, an action is prepared of a vault that says the truth exactly when its
\* calls, executed in order, all execute and give something: prepare.ts:58-68.
THEOREM PreparedPlansExecute == PlansSpec => []PlansExecute
<1>1. PlansInv => PlansExecute
  <2>1. \A ask \in Asks : ask.kind \in {"deposit", "redeem"}
    BY PlansAssumption
  <2>. QED
    BY <2>1, DepositsExecute, RedeemsExecute DEF PlansInv, PlansExecute
<1>. QED
  BY <1>1, PlansInvHolds, PTL

=============================================================================
