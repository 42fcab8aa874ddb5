--------------------------- MODULE ActionConsole ---------------------------
(****************************************************************************)
(* One browser tab in front of one prepared action: what it shows, what it  *)
(* asks of the wallet and of the API.  apps/web/components/actions, over    *)
(* the requests of PreparedAction.                                          *)
(*                                                                          *)
(* The tab remembers the last answer it received and whether the wallet is  *)
(* asked; every button is a function of the two.  Its requests run at the   *)
(* API while it goes on, and their answers arrive in any order, or never.   *)
(* The wallet is the owner's, on the right chain, and the tab has stored    *)
(* the calldata: otherwise the gate is shut and nothing is signed.          *)
(****************************************************************************)
EXTENDS PreparedAction

CONSTANTS
  Shown, \* the action the tab is open on
  NoView \* nothing: before the first answer, and for a failed one

ASSUME ConsoleAssumption == Shown \in Actions /\ IsFiniteSet(Calls)

VARIABLES
  view,    \* the last answer received, ActionStatusResponse
  asking,  \* the call the wallet is asked to sign
  signed,  \* the hashes the wallet has returned for each call; nobody stores this
  purpose, \* why each request was made
  answer   \* what the API has answered and the tab has not received

tabVars == <<view, asking>>
consoleVars == <<tabVars, signed, purpose, answer>>
allVars == <<vars, consoleVars>>

NoCall == Cardinality(Calls)

ConsoleInit ==
  /\ Init
  /\ view = NoView
  /\ asking = NoCall
  /\ signed = [i \in Calls |-> {}]
  /\ purpose = [r \in Requests |-> "none"]
  /\ answer = [r \in Requests |-> NoView]

------------------------------------------------------------------------------
(* Answers                                                                  *)

\* statusEnvelope of an action awaiting a signature; its outcome is not shown.
LiveView(r) ==
  [status |-> "live", next |-> req[r].count, signable |-> Signable(r),
   hash |-> NoTx, outcome |-> "none"]

\* Of one that was sent: nextCallIndex, and the outcome of the operation.
SentView(a) ==
  [status |-> status[a], next |-> sentCount[a], signable |-> FALSE,
   hash |-> receipts[a][Operation(a)].hash, outcome |-> receipts[a][Operation(a)].outcome]

\* What the API answers at the end of a request: every route ends by judging the
\* action, and any earlier end is an error.
AnswerOf(r) ==
  CASE pc[r] = "judge" -> LiveView(r)
    [] pc[r] = "status" -> SentView(req[r].act)
    [] OTHER -> NoView

Free(r) == purpose[r] = "none"

Begin(r, why) ==
  /\ Free(r)
  /\ purpose' = [purpose EXCEPT ![r] = why]
  /\ UNCHANGED answer

\* A request that ended keeps its answer for the tab, if the tab still waits.  An
\* error changes nothing the tab acts on.
Ended(r, what) ==
  IF purpose[r] = "gone" \/ what = NoView
  THEN purpose' = [purpose EXCEPT ![r] = "none"] /\ UNCHANGED answer
  ELSE answer' = [answer EXCEPT ![r] = what] /\ UNCHANGED purpose

\* The API works on a request.
Serve(r) ==
  /\ pc[r] # "idle"
  /\ Prepare(r) \/ Simulate(r) \/ Report(r) \/ Status(r)
  /\ IF pc'[r] = "idle" THEN Ended(r, AnswerOf(r)) ELSE UNCHANGED <<purpose, answer>>
  /\ UNCHANGED <<tabVars, signed>>

Lose(r) ==
  /\ RequestLost(r)
  /\ Ended(r, NoView)
  /\ UNCHANGED <<tabVars, signed>>

Waits(r) == purpose[r] \notin {"none", "gone"}

\* The connection breaks, and the answer is lost; the API may be working on.
GiveUp(r) ==
  /\ Waits(r)
  /\ purpose' = [purpose EXCEPT ![r] = IF pc[r] = "idle" THEN "none" ELSE "gone"]
  /\ answer' = [answer EXCEPT ![r] = NoView]
  /\ UNCHANGED <<vars, tabVars, signed>>

\* Mutant: whatever the API answers to a check, the call is done.
ReceiveOptimistic(r) ==
  /\ answer[r] # NoView
  /\ view' = [answer[r] EXCEPT !.status = IF purpose[r] = "check" THEN "confirmed" ELSE @]
  /\ purpose' = [purpose EXCEPT ![r] = "none"]
  /\ answer' = [answer EXCEPT ![r] = NoView]
  /\ UNCHANGED <<vars, asking, signed>>

\* refresh: the answer replaces what is shown, whenever it comes.
Receive(r) ==
  /\ answer[r] # NoView
  /\ view' = answer[r]
  /\ purpose' = [purpose EXCEPT ![r] = "none"]
  /\ answer' = [answer EXCEPT ![r] = NoView]
  /\ UNCHANGED <<vars, asking, signed>>

------------------------------------------------------------------------------
(* The page                                                                 *)

\* The action is prepared on another page; bound: while there is an id to draw.
PrepareElsewhere(r) ==
  /\ Begin(r, "gone")
  /\ \E p \in Plans :
       \/ PrepareLive(r, p)
       \/ PrepareNew(r, p) /\ \E a \in Actions : status[a] = "absent"
  /\ UNCHANGED <<tabVars, signed>>

\* The page is opened, or opened again: the server reads the status.
Load(r) ==
  /\ view = NoView
  /\ \A q \in Requests : purpose[q] # "load"
  /\ Begin(r, "load")
  /\ StatusAsked(r, Shown)
  /\ UNCHANGED <<tabVars, signed>>

\* The page is left or reloaded: its requests run on unheard.  What the wallet
\* still signs then is lost, as with a report that never arrives.
Leave ==
  /\ view # NoView
  /\ view' = NoView
  /\ asking' = NoCall
  /\ purpose' = [r \in Requests |-> CASE ~Waits(r) -> purpose[r]
                                     [] Waits(r) /\ pc[r] = "idle" -> "none"
                                     [] OTHER -> "gone"]
  /\ answer' = [r \in Requests |-> NoView]
  /\ UNCHANGED <<vars, signed>>

\* Mutant: the gate opens whatever the API says of the call.
SigningGateUnjudged == IF view # NoView /\ asking = NoCall THEN view.next ELSE NoCall

\* signingGate: the call the next signature is for, NoCall when it is shut.
SigningGate ==
  IF view # NoView /\ asking = NoCall /\ view.signable THEN view.next ELSE NoCall

\* signNextCall up to the wallet's answer.
Sign ==
  /\ SigningGate \in Calls
  /\ asking' = SigningGate
  /\ UNCHANGED <<vars, view, signed, purpose, answer>>

WalletRejects ==
  /\ asking # NoCall
  /\ asking' = NoCall
  /\ UNCHANGED <<vars, view, signed, purpose, answer>>

\* The wallet returns a new hash, which is reported as call i's.
ReportHash(r, h, i) ==
  /\ \A j \in Calls : h \notin signed[j]
  /\ signed' = [signed EXCEPT ![asking] = @ \cup {h}]
  /\ asking' = NoCall
  /\ Begin(r, "report")
  /\ ReportRead(r, Shown, i, h)
  /\ UNCHANGED view

\* Mutant: the hash is reported for the call that is shown next by now.
WalletSignsForNext(r, h) == asking \in Calls /\ view.next \in Calls /\ ReportHash(r, h, view.next)

\* signNextCall after the wallet's answer.
WalletSigns(r, h) == asking \in Calls /\ ReportHash(r, h, asking)

\* The two other buttons share one flag.
Busy == \E r \in Requests : purpose[r] \in {"resimulate", "check"}

CanResimulate == view.next \in Calls /\ view.status \in {"live", "submitted"}

\* resimulate.  An action with nothing left to simulate is refused without effect.
Resimulate(r) ==
  /\ view # NoView
  /\ ~Busy
  /\ CanResimulate
  /\ Begin(r, "resimulate")
  /\ SimulateRead(r, Shown)
  /\ UNCHANGED <<tabVars, signed>>

AwaitingReceipt == view.status = "submitted" /\ view.outcome # "success"

\* checkReceipt reports the operation's hash again.
CheckReceipt(r) ==
  /\ view # NoView
  /\ ~Busy
  /\ AwaitingReceipt
  /\ view.hash # NoTx
  /\ Begin(r, "check")
  /\ ReportRead(r, Shown, Operation(Shown), view.hash)
  /\ UNCHANGED <<tabVars, signed>>

Environment ==
  /\ NextBlock \/ \E h \in TxHashes : Mine(h)
  /\ UNCHANGED consoleVars

ConsoleNext ==
  \/ Environment
  \/ Leave \/ Sign \/ WalletRejects
  \/ \E r \in Requests, h \in TxHashes : WalletSigns(r, h)
  \/ \E r \in Requests :
       \/ Serve(r) \/ Lose(r) \/ GiveUp(r) \/ Receive(r)
       \/ PrepareElsewhere(r) \/ Load(r) \/ Resimulate(r) \/ CheckReceipt(r)

ConsoleSpec == ConsoleInit /\ [][ConsoleNext]_allVars

------------------------------------------------------------------------------
(* Properties                                                               *)

View == [status : {"live"} \cup Sent, next : Calls \cup {NoCall}, signable : BOOLEAN,
         hash : TxHashes \cup {NoTx}, outcome : {"none", "success", "reverted"}]

ConsoleTypeOK ==
  /\ view \in View \cup {NoView}
  /\ asking \in Calls \cup {NoCall}
  /\ signed \in [Calls -> SUBSET TxHashes]
  /\ purpose \in [Requests -> {"none", "gone", "load", "resimulate", "check", "report"}]
  /\ answer \in [Requests -> View \cup {NoView}]

\* The wallet is asked for a call only after every call before it was reported and
\* after it was itself simulated, however old the answer on the screen is: nobody
\* signs a deposit before its approval.  action-service.ts:387-394, PRD TR-F-032.
AsksInOrder ==
  asking \in Calls =>
    /\ asking \in simulated[Shown]
    /\ \A j \in Calls : j < asking => j \in Reported(Shown)

\* The hash on record for a call is one the wallet returned for that call, although
\* reports cross, repeat and are lost: ActionConsole.tsx:86-92, 138-144.
HashGoesWithItsCall ==
  \A i \in Reported(Shown) : receipts[Shown][i].hash \in signed[i]

\* The screen never claims more than happened.  What it calls sent was signed and
\* recorded call by call, what it calls confirmed the chain has executed, and the
\* hash it shows is the one on record.  action-state.ts:11-14 calls the contrary
\* "the one failure this product cannot have".
ClaimsNoMore ==
  view # NoView =>
    LET recorded == receipts[Shown][Operation(Shown)].hash
    IN  /\ view.next <= Cardinality({i \in Calls : signed[i] # {}})
        /\ view.hash # NoTx => view.hash = recorded
        /\ view.status = "confirmed" => recorded # NoTx /\ mined[recorded] = "success"

\* No signature is asked for that cannot settle: action-state.test.ts:14-16 says the
\* gate stands "between a user and a signature that cannot settle", and a call with
\* a hash on record takes no other (actions.ts:239-243).
AskedCallsCanSettle ==
  [][asking' # asking /\ asking' \in Calls => asking' \notin Reported(Shown)]_allVars

=============================================================================
