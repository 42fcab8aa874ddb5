---------------------------- MODULE MCActionPlans ----------------------------
(* Small instances of ActionPlans for TLC.                                  *)
EXTENDS ActionPlans, TLC

Ask(kind, amount, receiver) == [kind |-> kind, amount |-> amount, receiver |-> receiver]

MCAsks == {Ask("deposit", 2, "owner"), Ask("deposit", 1, "other"), Ask("redeem", 1, "owner")}

\* Every plan an ask may lead to, with and without an approval.
MCPlans == {PlanOf(ask, [allowance |-> seen]) : ask \in MCAsks, seen \in {Null, 2}}

\* A vault that answers everything, and one whose share is dear, that takes less and
\* answers zero for what it would give.
Plain == [asset |-> Declared, price |-> 1, takes |-> 2, saysTakes |-> 2, gives |-> 2,
          saysGives |-> 2, previews |-> TRUE]
Dear == [Plain EXCEPT !.price = 2, !.takes = 1, !.saysTakes = 1, !.saysGives = 0]

MCVaults == {Plain, Dear}
MCLosses == {{}, {"allowance"}}
MCOpening == [assets |-> 3, allowance |-> 0, shares |-> 1]

=============================================================================
