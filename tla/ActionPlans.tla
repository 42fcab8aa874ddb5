----------------------------- MODULE ActionPlans -----------------------------
(****************************************************************************)
(* PreparedAction with the plans the code makes and the chain that executes *)
(* them: one owner and one vault, wallets that sign what is called signable *)
(* and callers that report the hash of what was signed.                     *)
(*                                                                          *)
(* The transactions of one account are mined in the order they were signed, *)
(* which its nonces force: the n-th transaction signed has hash n.          *)
(****************************************************************************)
EXTENDS PreparedAction, VaultCalls

CONSTANTS
  Asks,        \* what an owner may ask for: deposit or redeem, how much, for whom
  Losses,      \* bound: the sets of reads a preparation may lose
  VaultStates, \* bound: the states of the vault
  Opening      \* the owner's account at first

VARIABLES
  account, \* what the owner holds and allows the vault
  vault,   \* the vault
  offers,  \* the calls a status answer has called signable
  sent,    \* what the wallet has signed, in order: <<action, call>>
  apart,   \* whether the owner has used the vault without TR4CE
  given,   \* what each transaction gave its receiver; nobody stores this
  actual   \* transaction_receipt.actual_amount of an action's operation

worldVars == <<account, vault, apart, offers, sent, given>>
planVars == <<worldVars, actual>>
allVars == <<vars, planVars>>

\* A read without an answer is no number and no account.  A digest names what some ask
\* leads to, whether the allowance is read and enough or not.
ASSUME PlansAssumption ==
  /\ TxHashes \subseteq Nat
  /\ Null \notin Int /\ Null \notin [assets : Nat, allowance : Nat, shares : Nat]
  /\ Opening \in [assets : Nat, allowance : {0}, shares : Nat]
  /\ \A ask \in Asks : ask.kind \in {"deposit", "redeem"} /\ ask.amount \in Nat
  /\ Plans = UNION {{PlanOf(ask, [allowance |-> allowance]) : allowance \in {Null, ask.amount}} :
                     ask \in Asks}
  /\ \A v \in VaultStates : /\ v.price \in Nat \ {0} /\ v.previews \in BOOLEAN
                           /\ {v.takes, v.saysTakes, v.gives, v.saysGives} \subseteq Nat

PlansInit ==
  /\ Init
  /\ account = Opening
  /\ vault \in VaultStates
  /\ apart = FALSE
  /\ offers = {}
  /\ sent = <<>>
  /\ given = [h \in TxHashes |-> 0]
  /\ actual = [a \in Actions |-> Null]

CallOf(a, i) == plan[a][i + 1]
Signed(h) == CallOf(sent[h][1], sent[h][2])

------------------------------------------------------------------------------
(* The API                                                                  *)

\* A simulation never succeeds of a call that does not execute.  It also fails when
\* the provider does: simulateCall catches both alike.
SimulatesTruly(r, call) == req'[r].simulation.ok => Executes(call, account, vault)

\* prepareAction up to its simulation; a refusal changes nothing.
AskPrepare(r) ==
  /\ \E ask \in Asks, lost \in Losses :
       LET seen == Seen(ask, account, vault, lost)
           calls == PlanOf(ask, seen)
       IN  /\ ~Refused(ask, seen)
           /\ \/ PrepareLive(r, calls)
              \/ PrepareNew(r, calls) /\ SimulatesTruly(r, calls[1])
  /\ UNCHANGED planVars

AskSimulate(r) ==
  /\ Simulate(r)
  /\ pc[r] \in {"simulate", "refresh"} /\ pc'[r] # "idle" =>
       SimulatesTruly(r, CallOf(req[r].act, req[r].call))
  /\ UNCHANGED planVars

\* A caller reports the hash the wallet returned for the call it signed.
AskReport(r) ==
  /\ \E h \in DOMAIN sent : ReportRead(r, sent[h][1], sent[h][2], h)
  /\ UNCHANGED planVars

\* The rest of a report, with what confirmReceipt stores of the events.
ContinueReport(r) ==
  /\ pc[r] # "idle"
  /\ Report(r)
  /\ actual' = IF pc[r] = "confirm" /\ req[r].call = Operation(req[r].act)
                 THEN [actual EXCEPT ![req[r].act] =
                         LET h == req[r].hash
                             call == CallOf(req[r].act, req[r].call)
                         IN  IF mined[h] = "success" THEN Decoded(call, Events(Signed(h), given[h]))
                             ELSE Null]
                 ELSE actual
  /\ UNCHANGED worldVars

\* The status is asked, and answered.
AskStatus(r) ==
  /\ Status(r)
  /\ offers' = IF pc[r] = "judge" /\ Signable(r)
                 THEN offers \cup {<<req[r].act, req[r].count>>} ELSE offers
  /\ UNCHANGED <<account, vault, apart, sent, given, actual>>

FinishPrepare(r) ==
  /\ PrepareCreate(r) \/ PrepareServed(r)
  /\ UNCHANGED planVars

Forget(r) == RequestLost(r) /\ UNCHANGED planVars

------------------------------------------------------------------------------
(* The wallet and the chain                                                 *)

\* A call that was called signable is signed, whatever happened since, but once:
\* ActionConsole has the caller who signs a call again.
WalletSigns ==
  /\ Len(sent) + 1 \in TxHashes
  /\ \E offer \in offers \ ToSet(sent) : sent' = Append(sent, offer)
  /\ UNCHANGED <<vars, account, vault, apart, offers, given, actual>>

\* A transaction reverts when its call cannot execute, and may for want of gas.
MineSigned(h) ==
  /\ h \in DOMAIN sent
  /\ \A earlier \in 1..(h - 1) : mined[earlier] # "none"
  /\ \/ /\ MineAs(h, "success")
        /\ Executes(Signed(h), account, vault)
        /\ account' = After(Signed(h), account, vault)
        /\ given' = [given EXCEPT ![h] = Given(Signed(h), vault)]
     \/ /\ MineAs(h, "reverted")
        /\ UNCHANGED <<account, given>>
  /\ UNCHANGED <<vault, apart, offers, sent, actual>>

\* Other users of the vault, and its keepers.
MoveVault ==
  /\ vault' \in VaultStates \ {vault}
  /\ UNCHANGED <<vars, account, apart, offers, sent, given, actual>>

\* The owner deposits through another page, with whatever the vault may take; bound:
\* once.
DepositApart ==
  /\ ~apart
  /\ apart' = TRUE
  /\ \E ask \in Asks :
       LET call == Call("deposit", ask)
       IN  /\ Executes(call, account, vault)
           /\ account' = After(call, account, vault)
  /\ UNCHANGED <<vars, vault, offers, sent, given, actual>>

PassBlock == NextBlock /\ UNCHANGED planVars

PlansNext ==
  \/ PassBlock \/ MoveVault \/ DepositApart \/ WalletSigns
  \/ \E h \in TxHashes : MineSigned(h)
  \/ \E r \in Requests :
       \/ AskPrepare(r) \/ FinishPrepare(r) \/ AskSimulate(r)
       \/ AskReport(r) \/ ContinueReport(r) \/ AskStatus(r) \/ Forget(r)

PlansSpec == PlansInit /\ [][PlansNext]_allVars

\* A request that is being served goes on or is lost; the caller who awaits an outcome
\* asks again, for as long as it likes, and no step of that report is killed every time.
Serving(r) ==
  pc[r] # "idle" /\ (FinishPrepare(r) \/ AskSimulate(r) \/ AskStatus(r) \/ Forget(r))

ReportsAgain(r, a) == ReportAgain(r, a) /\ UNCHANGED planVars

PlansFairness ==
  \A r \in Requests :
    /\ WF_allVars(Serving(r))
    /\ \A a \in Actions :
         /\ SF_allVars(ReportsAgain(r, a))
         /\ \A place \in {"order", "insert", "count", "update", "observe", "confirm"} :
              SF_allVars(pc[r] = place /\ Repeats(r, a) /\ ContinueReport(r))

FairPlansSpec == PlansSpec /\ PlansFairness

------------------------------------------------------------------------------
(* Properties                                                               *)

\* The vault's limit is what it says, and not the ambiguous zero.
Truthful(v, kind) ==
  /\ v.previews
  /\ IF kind = "deposit" THEN v.saysTakes = v.takes ELSE v.saysGives = v.gives /\ v.gives > 0

\* An action is prepared exactly when its calls, executed in order from the state it
\* was read from, all execute and give something: no approval is asked for in
\* vain, none is missing, none is left over.  prepare.ts:58-68.
PlansExecute ==
  \A ask \in Asks, lost \in {{}, {"allowance"}} :
    Truthful(vault, ask.kind) =>
      LET seen == Seen(ask, account, vault, lost)
          left == AfterAll(PlanOf(ask, seen), account, vault)
      IN  ~Refused(ask, seen) <=> left # Null /\ seen.preview > 0

\* The operation of an action was mined and succeeded.
Executed(a) ==
  \E h \in DOMAIN sent : sent[h] = <<a, Operation(a)>> /\ mined[h] = "success"

\* The vault may take from the owner only what a deposit still stands for: an
\* allowance was asked for by an action whose deposit has not been executed, and is
\* no larger than that deposit.  prepare.ts:66-68, PRD TR-F-034.
AllowanceHasADeposit ==
  account.allowance > 0 =>
    \E h \in DOMAIN sent :
      /\ Signed(h).kind = "approve"
      /\ mined[h] = "success"
      /\ ~Executed(sent[h][1])
      /\ account.allowance <= CallOf(sent[h][1], Operation(sent[h][1])).amount

\* The operation's receipt is on record, with success.
Succeeded(a) ==
  Operation(a) \in Calls /\ receipts[a][Operation(a)].outcome = "success"

\* The amount on record is what the transaction gave, whatever was previewed and
\* whoever else emitted an event; a redemption, or a deposit for the owner itself, that
\* succeeded has one.  receipts.ts:9-12, action-service.ts:514-521.
ActualIsWhatHappened ==
  \A a \in Actions :
    /\ actual[a] # Null => \E h \in DOMAIN sent : /\ sent[h] = <<a, Operation(a)>>
                                                  /\ mined[h] = "success"
                                                  /\ actual[a] = given[h]
    /\ Succeeded(a) /\ (CallOf(a, Operation(a)).kind = "redeem"
                        \/ CallOf(a, Operation(a)).receiver = "owner") => actual[a] # Null

\* A claim the code does not keep.  Whoever gets the shares, an action that succeeded has its amount from its event.
\* SMART-CONTRACT.md:151-152: "A matching `Deposit` event exists with expected vault and
\* receiver/owner semantics", "Actual shares are reported from event/return/receipt
\* evidence"; receipts.ts:127 compares the event's owner with the wallet.
SuccessHasItsAmount ==
  \A a \in Actions : Succeeded(a) => actual[a] # Null

\* Another action's call succeeded that was signed after one of this action's.
CameBetween(a) ==
  \E h, g \in DOMAIN sent :
    h < g /\ sent[h][1] = a /\ sent[g][1] # a /\ mined[g] = "success"

\* What is served to whoever prepares the same calls again can be carried out: its
\* next call executes, but for five cases.  Every call was sent, and an attempt that was
\* recorded late made the action live again; the approval is not mined, or reverted; the
\* next call was signed and nobody reported it; another action's calls came between; the
\* allowance was spent apart.  The digest names calls and not the allowance they need, so
\* that a stranded action stays live and no other is prepared: action-service.ts:157-177,
\* actions.ts:68-76.
StrandedOnlyThus ==
  \A ask \in Asks :
    LET seen == Seen(ask, account, vault, {})
    IN  Truthful(vault, ask.kind) /\ ~Refused(ask, seen) =>
          \A a \in LiveActions(PlanOf(ask, seen)) :
            \/ sentCount[a] = CallCount(a)
            \/ Executes(CallOf(a, sentCount[a]), account, vault)
            \/ \E h \in DOMAIN sent :
                 /\ sent[h][1] = a
                 /\ mined[h] # "success" \/ sent[h][2] = sentCount[a]
            \/ CameBetween(a) \/ apart

==============================================================================
