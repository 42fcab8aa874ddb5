----------------------------- MODULE VaultCalls -----------------------------
(****************************************************************************)
(* The calls an ERC-4626 deposit or redemption needs, built from what the   *)
(* chain answers, and what they do there.  packages/chain/src/prepare and   *)
(* receipts.  The asset and the vault are contracts outside the repository: *)
(* what executing a call does is modelled from the standards the code       *)
(* relies on.                                                               *)
(*                                                                          *)
(* A vault is a record: asset, the token it holds; price, the assets one    *)
(* share is worth; takes and gives, the most it accepts of a deposit and of *)
(* a redemption; saysTakes and saysGives, what maxDeposit and maxRedeem     *)
(* answer, which need not be the same; previews, whether it quotes at all.  *)
(* The account of the owner is a record of assets, allowance and shares.    *)
(****************************************************************************)
EXTENDS Integers, SequencesExt

CONSTANTS
  Declared, \* the asset the registry attributes to the vault
  Null      \* a read that gave no answer

Call(kind, ask) == [kind |-> kind, amount |-> ask.amount, receiver |-> ask.receiver]

\* Rounded against the caller, as the standard asks.
Shares(assets, v) == assets \div v.price
Assets(shares, v) == shares * v.price

------------------------------------------------------------------------------
(* Preparation                                                              *)

\* What the reads of one preparation give, the ones in lost having failed.
Seen(ask, account, v, lost) ==
  LET Read(name, answer) == IF name \in lost THEN Null ELSE answer
      deposits == ask.kind = "deposit"
  IN  [asset |-> Read("asset", v.asset),
       balance |-> Read("balance", IF deposits THEN account.assets ELSE account.shares),
       allowance |-> Read("allowance", account.allowance),
       preview |-> Read("preview", CASE ~v.previews -> Null
                                     [] deposits -> Shares(ask.amount, v)
                                     [] OTHER -> Assets(ask.amount, v)),
       limit |-> Read("limit", IF deposits THEN v.saysTakes ELSE v.saysGives)]

Below(answer, amount) == answer # Null /\ answer < amount

\* An asset that is not the declared one, or unread; a balance short or unread; a
\* limit read and exceeded; no preview, or one of nothing.
DepositRefused(amount, seen) ==
  \/ amount <= 0
  \/ seen.asset # Declared
  \/ seen.balance = Null \/ seen.balance < amount
  \/ Below(seen.limit, amount)
  \/ seen.preview \in {Null, 0}

\* Mutants: an allowance that is not read is enough, an approval is for more than the
\* deposit, and the deposit is signed first.
DepositCallsTrusting(ask, seen) ==
  (IF Below(seen.allowance, ask.amount) THEN <<Call("approve", ask)>> ELSE <<>>)
    \o <<Call("deposit", ask)>>

DepositCallsUnlimited(ask, seen) ==
  (IF seen.allowance = Null \/ seen.allowance < ask.amount
     THEN <<[Call("approve", ask) EXCEPT !.amount = 2 * @]>> ELSE <<>>)
    \o <<Call("deposit", ask)>>

DepositCallsReversed(ask, seen) ==
  <<Call("deposit", ask)>> \o
  (IF seen.allowance = Null \/ seen.allowance < ask.amount THEN <<Call("approve", ask)>> ELSE <<>>)

\* An exact approval, unless the allowance is read and enough, and the deposit.
DepositCalls(ask, seen) ==
  (IF seen.allowance = Null \/ seen.allowance < ask.amount
     THEN <<Call("approve", ask)>> ELSE <<>>)
    \o <<Call("deposit", ask)>>

\* A zero limit of an owner who holds shares is ambiguous and refuses nothing.
RedeemRefused(amount, seen) ==
  \/ amount <= 0
  \/ seen.balance = Null \/ seen.balance < amount
  \/ seen.preview = Null
  \/ Below(seen.limit, amount) /\ (seen.limit # 0 \/ seen.balance = 0)

Refused(ask, seen) ==
  IF ask.kind = "deposit" THEN DepositRefused(ask.amount, seen) ELSE RedeemRefused(ask.amount, seen)

\* The calls, in the order they must be signed: what the digest names.
PlanOf(ask, seen) ==
  IF ask.kind = "deposit" THEN DepositCalls(ask, seen) ELSE <<Call("redeem", ask)>>

------------------------------------------------------------------------------
(* Execution                                                                *)

Executes(call, account, v) ==
  CASE call.kind = "approve" -> TRUE
    [] call.kind = "deposit" -> /\ call.amount <= account.assets
                                /\ call.amount <= account.allowance
                                /\ call.amount <= v.takes
                                /\ v.asset = Declared
    [] OTHER -> call.amount <= account.shares /\ call.amount <= v.gives

\* What the receiver is given by it: shares, or assets.
Given(call, v) ==
  CASE call.kind = "approve" -> 0
    [] call.kind = "deposit" -> Shares(call.amount, v)
    [] OTHER -> Assets(call.amount, v)

\* The account after it.  Somebody else may be the receiver.
After(call, account, v) ==
  LET kept == IF call.receiver = "owner" THEN Given(call, v) ELSE 0
  IN  CASE call.kind = "approve" -> [account EXCEPT !.allowance = call.amount]
        [] call.kind = "deposit" -> [account EXCEPT !.assets = @ - call.amount,
                                                    !.allowance = @ - call.amount,
                                                    !.shares = @ + kept]
        [] OTHER -> [account EXCEPT !.shares = @ - call.amount, !.assets = @ + kept]

\* The account after one that may not execute, and after a sequence of them: Null once
\* one of them cannot.
AfterOne(call, account, v) ==
  IF account = Null \/ ~Executes(call, account, v) THEN Null ELSE After(call, account, v)

AfterAll(calls, account, v) ==
  FoldLeft(LAMBDA acc, call : AfterOne(call, acc, v), account, calls)

\* The events of a vault call.  A vault that invests in another emits that one's
\* event first; owner is who holds the shares, for a deposit the receiver.
Events(call, given) ==
  IF call.kind = "approve" THEN <<>>
  ELSE LET name == IF call.kind = "deposit" THEN "Deposit" ELSE "Withdraw"
           holder == IF call.kind = "deposit" THEN call.receiver ELSE "owner"
           Event(by, amount) == [by |-> by, name |-> name, owner |-> holder, amount |-> amount]
       IN  <<Event("another", given + 1), Event("vault", given)>>

------------------------------------------------------------------------------
(* Receipts                                                                 *)

\* Mutant: any contract's event counts.
MatchesByName(event, kind) ==
  event.owner = "owner" /\ event.name = (IF kind = "deposit" THEN "Deposit" ELSE "Withdraw")

Matches(event, kind) ==
  /\ event.by = "vault"
  /\ event.owner = "owner"
  /\ event.name = IF kind = "deposit" THEN "Deposit" ELSE "Withdraw"

\* decodeActual: the first matching event's amount, Null without one.
Decoded(call, events) ==
  LET i == SelectInSeq(events, LAMBDA e : Matches(e, call.kind))
  IN  IF call.kind = "approve" \/ i = 0 THEN Null ELSE events[i].amount

=============================================================================
