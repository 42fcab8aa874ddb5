------------------------------ MODULE CallLog ------------------------------
(****************************************************************************)
(* What the action tables promise whoever reports a transaction: of each    *)
(* action a log of its receipts that grows by one at its end, in the order  *)
(* of the calls, where no hash stands for two calls and no entry is ever    *)
(* replaced, but told its outcome once; and no attempt at a call beyond the *)
(* one that is next.  No request, no count, no status.                      *)
(****************************************************************************)
EXTENDS Integers, Sequences

CONSTANTS
  Actions,   \* prepared actions
  Plans,     \* the sequences of calls one may be of
  TxHashes   \* transaction hashes

VARIABLES
  plan,      \* the calls of an action; none before it is prepared
  tried,     \* its calls that were simulated
  log        \* its receipts, in the order of its calls

\* The hash stands for a call of some action.
Spent(h) == \E a \in Actions : \E i \in DOMAIN log[a] : log[a][i].hash = h

Init ==
  /\ plan = [a \in Actions |-> <<>>]
  /\ tried = [a \in Actions |-> {}]
  /\ log = [a \in Actions |-> <<>>]

\* An action is prepared once, with its first call simulated.
Open(a, p) ==
  /\ plan[a] = <<>>
  /\ plan' = [plan EXCEPT ![a] = p]
  /\ tried' = [tried EXCEPT ![a] = {0}]
  /\ UNCHANGED log

\* A call is simulated that was reported before, or is next: calls are numbered from zero.
Try(a, i) ==
  /\ i < Len(plan[a])
  /\ tried' = [tried EXCEPT ![a] = @ \cup {i}]
  /\ UNCHANGED <<plan, log>>

\* The next call is reported, with a hash of its own.
Enter(a, h) ==
  /\ Len(log[a]) < Len(plan[a])
  /\ ~Spent(h)
  /\ log' = [log EXCEPT ![a] = Append(@, [hash |-> h, outcome |-> "none"])]
  /\ UNCHANGED <<plan, tried>>

\* A receipt's transaction is mined.
Tell(a, i, outcome) ==
  /\ log[a][i].outcome = "none"
  /\ log' = [log EXCEPT ![a][i].outcome = outcome]
  /\ UNCHANGED <<plan, tried>>

Next ==
  \E a \in Actions :
    \/ \E p \in Plans : Open(a, p)
    \/ \E i \in 0..Len(log[a]) : Try(a, i)
    \/ \E h \in TxHashes : Enter(a, h)
    \/ \E i \in DOMAIN log[a], outcome \in {"success", "reverted"} : Tell(a, i, outcome)

Spec == Init /\ [][Next]_<<plan, tried, log>>

=============================================================================
