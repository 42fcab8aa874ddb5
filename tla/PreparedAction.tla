--------------------------- MODULE PreparedAction ---------------------------
(****************************************************************************)
(* A prepared action from its preparation to its receipts: the tables       *)
(* prepared_action, simulation and transaction_receipt, and the requests of *)
(* the API that read and write them.  apps/api/src/services/action-service, *)
(* packages/db/src/repositories/actions, migration 0004.                    *)
(*                                                                          *)
(* A digest names the calls of an action, in order, so the plan of calls    *)
(* stands for it.  Which plans are made, and what executing one does, is    *)
(* ActionPlans' concern.  A request is a process; an action is what it does *)
(* between two awaits that another request can get between.  PostgreSQL is  *)
(* at its default READ COMMITTED, so the transaction of recordSubmission is *)
(* three steps.  The others are one step each: no write of another request  *)
(* between their statements changes what they do, short of an error that    *)
(* rolls them back.                                                         *)
(****************************************************************************)
EXTENDS Integers, FiniteSets, Sequences

CONSTANTS
  Actions,     \* bound: the ids newActionId may draw
  NoAction,    \* the absence of one
  Plans,       \* the sequences of calls a digest may name
  TxHashes,    \* the transaction hashes a caller may report
  NoTx,        \* the absence of one
  Requests,    \* concurrent API requests
  LastBlock,   \* bound: the highest block of the model
  ExpiryBlocks \* EXPIRY_BLOCKS: how many blocks a simulation binds

\* Calls are numbered from zero.
IndicesOf(p) == 0..(Len(p) - 1)
Calls == UNION {IndicesOf(p) : p \in Plans}

ASSUME ActionAssumption ==
  /\ Plans # {}
  /\ \A p \in Plans : Len(p) \in Nat \ {0}
  /\ NoAction \notin Actions
  /\ NoTx \notin TxHashes
  /\ LastBlock \in Nat
  /\ ExpiryBlocks \in Nat

VARIABLES
  block,     \* the chain's head, as the provider reports it
  mined,     \* what became of each transaction
  status,    \* prepared_action.status; "absent" before insertion
  plan,      \* prepared_action.transactions_json, which the digest is of
  sentCount, \* prepared_action.sent_count
  simulated, \* the calls of an action that have a simulation row
  newest,    \* the newest simulation row of an action, by created_at
  begun,     \* the requests that may have begun to record one before the newest was begun
  receipts,  \* transaction_receipt, by action and call
  pc,        \* where each request stands
  req        \* what each request carries from one step to the next

chainVars == <<block, mined>>
tableVars == <<status, plan, sentCount, simulated, newest, begun, receipts>>
requestVars == <<pc, req>>
vars == <<chainVars, tableVars, requestVars>>

Live == {"prepared", "simulated"}
Sent == {"submitted", "confirmed", "reverted"}

NoSimulation == [call |-> 0, ok |-> FALSE, at |-> 0]
NoReceipt == [hash |-> NoTx, outcome |-> "none"]
NoRequest == [act |-> NoAction, plan |-> <<>>, call |-> 0, hash |-> NoTx, count |-> 0,
              simulation |-> NoSimulation, inserted |-> FALSE]

CallCount(a) == Len(plan[a])
Operation(a) == CallCount(a) - 1

LiveActions(p) == {a \in Actions : plan[a] = p /\ status[a] \in Live}
Reported(a) == {i \in Calls : receipts[a][i].hash # NoTx}

HashTaken(h) == \E a \in Actions, i \in Calls : receipts[a][i].hash = h

Init ==
  /\ block = 0
  /\ mined = [h \in TxHashes |-> "none"]
  /\ status = [a \in Actions |-> "absent"]
  /\ plan = [a \in Actions |-> <<>>]
  /\ sentCount = [a \in Actions |-> 0]
  /\ simulated = [a \in Actions |-> {}]
  /\ newest = [a \in Actions |-> NoSimulation]
  /\ begun = [a \in Actions |-> {}]
  /\ receipts = [a \in Actions |-> [i \in Calls |-> NoReceipt]]
  /\ pc = [r \in Requests |-> "idle"]
  /\ req = [r \in Requests |-> NoRequest]

------------------------------------------------------------------------------
(* The chain                                                                *)

NextBlock ==
  /\ block < LastBlock
  /\ block' = block + 1
  /\ UNCHANGED <<mined, tableVars, requestVars>>

MineAs(h, outcome) ==
  /\ mined[h] = "none"
  /\ mined' = [mined EXCEPT ![h] = outcome]
  /\ UNCHANGED <<block, tableVars, requestVars>>

\* Only a transaction somebody reports, or is reporting, is followed.
Mine(h) ==
  /\ HashTaken(h) \/ \E r \in Requests : req[r].hash = h
  /\ \E outcome \in {"success", "reverted"} : MineAs(h, outcome)

------------------------------------------------------------------------------
(* Requests                                                                 *)

Goto(r, place) == pc' = [pc EXCEPT ![r] = place]

\* A request answers, or throws: its open transaction is gone with it.
EndRequest(r) ==
  /\ Goto(r, "idle")
  /\ req' = [req EXCEPT ![r] = NoRequest]

\* Its attempt, if it was recording one, is recorded or given up.
Withdraw(r) == begun' = [a \in Actions |-> begun[a] \ {r}]

\* The API process is killed, or loses the provider or the database.
RequestLost(r) ==
  /\ pc[r] # "idle"
  /\ EndRequest(r)
  /\ Withdraw(r)
  /\ UNCHANGED <<chainVars, status, plan, sentCount, simulated, newest, receipts>>

\* A simulation pinned to the head: it succeeds or reverts.
Simulations(i) == {[call |-> i, ok |-> ok, at |-> block] : ok \in BOOLEAN}

\* Mutant: the first call nobody simulated is simulated, reported or not.
PrepareLiveAhead(r, p) ==
  /\ pc[r] = "idle"
  /\ \E a \in LiveActions(p) :
       LET next == Cardinality(simulated[a])
       IN  /\ next \in IndicesOf(p)
           /\ req' = [req EXCEPT ![r].act = a, ![r].call = next]
           /\ Goto(r, "refresh")
  /\ UNCHANGED <<chainVars, tableVars>>

\* The rule nextCallToSimulate states and the service applies in place: the next unsent
\* call alone, or none when every call was sent.
NextCallsToSimulate(a) == {sentCount[a]} \cap IndicesOf(plan[a])

\* prepareAction: readLiveActionByDigest finds an action awaiting signature.  Its
\* next call was simulated before, or is simulated now, or does not exist.
PrepareLive(r, p) ==
  /\ pc[r] = "idle"
  /\ \E a \in LiveActions(p) : \E next \in NextCallsToSimulate(a) \ simulated[a] :
       req' = [req EXCEPT ![r].act = a, ![r].call = next]
  /\ Goto(r, "refresh")
  /\ UNCHANGED <<chainVars, tableVars>>

\* prepareAction finds none.
PrepareNew(r, p) ==
  /\ pc[r] = "idle"
  /\ LiveActions(p) = {}
  /\ \E s \in Simulations(0) : req' = [req EXCEPT ![r].plan = p, ![r].simulation = s]
  /\ Goto(r, "create")
  /\ UNCHANGED <<chainVars, tableVars>>

\* The insert and its first simulation, one transaction.
PrepareCreate(r) ==
  /\ pc[r] = "create"
  /\ LiveActions(req[r].plan) = {}
  /\ \E a \in Actions :
       /\ status[a] = "absent"
       /\ plan' = [plan EXCEPT ![a] = req[r].plan]
       /\ status' = [status EXCEPT ![a] = "simulated"]
       /\ simulated' = [simulated EXCEPT ![a] = {0}]
       /\ newest' = [newest EXCEPT ![a] = req[r].simulation]
  /\ EndRequest(r)
  /\ UNCHANGED <<chainVars, sentCount, begun, receipts>>

\* A concurrent request won: ON CONFLICT DO NOTHING, and its action is served.
PrepareServed(r) ==
  /\ pc[r] = "create"
  /\ LiveActions(req[r].plan) # {}
  /\ EndRequest(r)
  /\ UNCHANGED <<chainVars, tableVars>>

\* simulateNextCall reads the action.
SimulateRead(r, a) ==
  /\ pc[r] = "idle"
  /\ status[a] \in Live
  /\ \E next \in NextCallsToSimulate(a) :
       req' = [req EXCEPT ![r].act = a, ![r].call = next]
  /\ Goto(r, "simulate")
  /\ UNCHANGED <<chainVars, tableVars>>

\* simulateAndRecord asks the chain.
SimulateRun(r) ==
  /\ pc[r] \in {"simulate", "refresh"}
  /\ \E s \in Simulations(req[r].call) : req' = [req EXCEPT ![r].simulation = s]
  /\ Goto(r, IF pc[r] = "simulate" THEN "record" ELSE "append")
  /\ UNCHANGED <<chainVars, tableVars>>

Recording(a) == {r \in Requests : pc[r] \in {"record", "append"} /\ req[r].act = a}

\* recordSimulation appends the attempt and makes the action "simulated", from whatever
\* status it has by now.  created_at is the start of the transaction: an attempt whose
\* transaction was open when the newest row was committed may be the older one.
RecordSimulation(r) ==
  LET a == req[r].act
  IN  /\ simulated' = [simulated EXCEPT ![a] = @ \cup {req[r].simulation.call}]
      /\ status' = [status EXCEPT ![a] = "simulated"]
      /\ \/ /\ newest' = [newest EXCEPT ![a] = req[r].simulation]
            /\ begun' = [begun EXCEPT ![a] = Recording(a) \ {r}]
         \/ /\ r \in begun[a]
            /\ Withdraw(r)
            /\ UNCHANGED newest

\* The live-binding index lets no second action of the digest live.
MayLive(a) == LiveActions(plan[a]) \subseteq {a}

SimulateRecord(r) ==
  /\ pc[r] \in {"record", "append"}
  /\ MayLive(req[r].act)
  /\ RecordSimulation(r)
  /\ IF pc[r] = "record"
       THEN /\ Goto(r, "status")
            /\ req' = [req EXCEPT ![r] = [NoRequest EXCEPT !.act = req[r].act]]
       ELSE EndRequest(r)
  /\ UNCHANGED <<chainVars, plan, sentCount, receipts>>

SimulateRefused(r) ==
  /\ pc[r] \in {"record", "append"}
  /\ ~MayLive(req[r].act)
  /\ EndRequest(r)
  /\ Withdraw(r)
  /\ UNCHANGED <<chainVars, status, plan, sentCount, simulated, newest, receipts>>

\* reportSubmission reads the action.
ReportRead(r, a, i, h) ==
  /\ pc[r] = "idle"
  /\ status[a] # "absent"
  /\ i \in IndicesOf(plan[a])
  /\ req' = [req EXCEPT ![r].act = a, ![r].call = i, ![r].hash = h, ![r].count = sentCount[a]]
  /\ Goto(r, "order")
  /\ UNCHANGED <<chainVars, tableVars>>

\* Mutant: no order is asked for.
InOrderUnasked(r) == TRUE

\* Mutant: a call is reported once.
InOrderOnce(r) == req[r].call = req[r].count

\* Only the call that is next, unless it was reported before.
InOrder(r) == req[r].call \in Reported(req[r].act) \/ req[r].call = req[r].count

ReportOrder(r) ==
  /\ pc[r] = "order"
  /\ IF InOrder(r)
       THEN Goto(r, "insert") /\ UNCHANGED req
       ELSE EndRequest(r)
  /\ UNCHANGED <<chainVars, tableVars>>

\* Mutant: the rows of two calls contend, and those of one call do not.
ContendsByHash(r) ==
  \E q \in Requests \ {r} : req[q].inserted /\ req[q].hash = req[r].hash

\* A row another open transaction inserted under the same key, or hash.
Contends(r) ==
  \E q \in Requests \ {r} :
    /\ req[q].inserted
    /\ \/ req[q].act = req[r].act /\ req[q].call = req[r].call
       \/ req[q].hash = req[r].hash

\* recordSubmission, first statement: the receipt row, unless it is there.  The
\* insert waits for a contending transaction to end.
ReportInsert(r) ==
  LET old == receipts[req[r].act][req[r].call].hash
  IN  /\ pc[r] = "insert"
      /\ ~Contends(r)
      /\ \/ /\ old = NoTx
            /\ ~HashTaken(req[r].hash)
            /\ req' = [req EXCEPT ![r].inserted = TRUE]
            /\ Goto(r, "count")
         \/ /\ old = req[r].hash
            /\ UNCHANGED req
            /\ Goto(r, "count")
         \/ /\ old # req[r].hash
            /\ old # NoTx \/ HashTaken(req[r].hash)
            /\ EndRequest(r)
      /\ UNCHANGED <<chainVars, tableVars>>

\* Mutant: the count advances with every report.
ReportCountIncrements(r) ==
  /\ pc[r] = "count"
  /\ req' = [req EXCEPT ![r].count = sentCount[req[r].act] + 1]
  /\ Goto(r, "update")
  /\ UNCHANGED <<chainVars, tableVars>>

\* Second statement: the receipts this transaction sees, its own included.
ReportCount(r) ==
  /\ pc[r] = "count"
  /\ req' = [req EXCEPT ![r].count = Cardinality(Reported(req[r].act) \cup {req[r].call})]
  /\ Goto(r, "update")
  /\ UNCHANGED <<chainVars, tableVars>>

StatusFor(a, count) == IF count >= CallCount(a) THEN "submitted" ELSE "prepared"

\* Third statement, and commit: the count of a moment ago, and its status.
ReportUpdate(r) ==
  LET a == req[r].act
      i == req[r].call
  IN  /\ pc[r] = "update"
      /\ StatusFor(a, req[r].count) \in Live => MayLive(a)
      /\ sentCount' = [sentCount EXCEPT ![a] = req[r].count]
      /\ status' = [status EXCEPT ![a] = StatusFor(a, req[r].count)]
      /\ receipts' = IF req[r].inserted
                       THEN [receipts EXCEPT ![a][i].hash = req[r].hash] ELSE receipts
      /\ req' = [req EXCEPT ![r].inserted = FALSE, ![r].count = 0]
      /\ Goto(r, "observe")
      /\ UNCHANGED <<chainVars, plan, simulated, newest, begun>>

ReportRefused(r) ==
  /\ pc[r] = "update"
  /\ StatusFor(req[r].act, req[r].count) \in Live
  /\ ~MayLive(req[r].act)
  /\ EndRequest(r)
  /\ UNCHANGED <<chainVars, tableVars>>

ToStatus(r) ==
  /\ Goto(r, "status")
  /\ req' = [req EXCEPT ![r] = [NoRequest EXCEPT !.act = req[r].act]]

\* observeReceipt: already observed, or not mined yet, or to be confirmed.
ObserveSettled(r) ==
  /\ pc[r] = "observe"
  /\ receipts[req[r].act][req[r].call].outcome # "none"
  /\ ToStatus(r)
  /\ UNCHANGED <<chainVars, tableVars>>

ObserveUnmined(r) ==
  /\ pc[r] = "observe"
  /\ receipts[req[r].act][req[r].call].outcome = "none"
  /\ mined[req[r].hash] = "none"
  /\ ToStatus(r)
  /\ UNCHANGED <<chainVars, tableVars>>

ObserveMined(r) ==
  /\ pc[r] = "observe"
  /\ receipts[req[r].act][req[r].call].outcome = "none"
  /\ mined[req[r].hash] # "none"
  /\ Goto(r, "confirm")
  /\ UNCHANGED <<chainVars, tableVars, req>>

\* Mutant: whichever call is confirmed decides the action.
ConfirmReceiptOfAny(r) ==
  LET a == req[r].act
      outcome == mined[req[r].hash]
  IN  /\ pc[r] = "confirm"
      /\ receipts' = [receipts EXCEPT ![a][req[r].call].outcome = outcome]
      /\ status' = IF sentCount[a] >= CallCount(a)
                     THEN [status EXCEPT ![a] = IF outcome = "success" THEN "confirmed" ELSE "reverted"]
                     ELSE status
      /\ ToStatus(r)
      /\ UNCHANGED <<chainVars, plan, sentCount, simulated, newest, begun>>

\* confirmReceipt: the receipt's outcome, and the action's if this call is the
\* operation and every call is sent.
ConfirmReceipt(r) ==
  LET a == req[r].act
      i == req[r].call
      outcome == mined[req[r].hash]
  IN  /\ pc[r] = "confirm"
      /\ receipts' = [receipts EXCEPT ![a][i].outcome = outcome]
      /\ status' = IF i = Operation(a) /\ sentCount[a] >= CallCount(a)
                     THEN [status EXCEPT ![a] = IF outcome = "success" THEN "confirmed" ELSE "reverted"]
                     ELSE status
      /\ ToStatus(r)
      /\ UNCHANGED <<chainVars, plan, sentCount, simulated, newest, begun>>

\* actionSignability reads the action, by itself or after another request's work.
StatusAsked(r, a) ==
  /\ pc[r] = "idle"
  /\ status[a] # "absent"
  /\ req' = [req EXCEPT ![r].act = a]
  /\ Goto(r, "status")
  /\ UNCHANGED <<chainVars, tableVars>>

StatusRead(r) ==
  /\ pc[r] = "status"
  /\ IF status[req[r].act] \in Live
       THEN /\ req' = [req EXCEPT ![r].count = sentCount[req[r].act]]
            /\ Goto(r, "judge")
       ELSE EndRequest(r)
  /\ UNCHANGED <<chainVars, tableVars>>

\* Mutant: the newest attempt is enough, whichever call it was of.
SignableByAnyAttempt(r) ==
  LET s == newest[req[r].act] IN s.ok /\ block <= s.at + ExpiryBlocks

\* Its answer: the newest attempt succeeded, covers the next call and still
\* binds.  The time budget, which this model has no clock for, may say no as well.
Signable(r) ==
  LET s == newest[req[r].act]
  IN  s.ok /\ s.call = req[r].count /\ block <= s.at + ExpiryBlocks

StatusJudge(r) ==
  /\ pc[r] = "judge"
  /\ EndRequest(r)
  /\ UNCHANGED <<chainVars, tableVars>>

------------------------------------------------------------------------------

Prepare(r) ==
  \/ \E p \in Plans : PrepareLive(r, p) \/ PrepareNew(r, p)
  \/ PrepareCreate(r) \/ PrepareServed(r)

Simulate(r) ==
  \/ \E a \in Actions : SimulateRead(r, a)
  \/ SimulateRun(r) \/ SimulateRecord(r) \/ SimulateRefused(r)

Report(r) ==
  \/ \E a \in Actions, i \in Calls, h \in TxHashes : ReportRead(r, a, i, h)
  \/ ReportOrder(r) \/ ReportInsert(r) \/ ReportCount(r) \/ ReportUpdate(r) \/ ReportRefused(r)
  \/ ObserveSettled(r) \/ ObserveUnmined(r) \/ ObserveMined(r) \/ ConfirmReceipt(r)

Status(r) == (\E a \in Actions : StatusAsked(r, a)) \/ StatusRead(r) \/ StatusJudge(r)

\* The age of a simulation decides what StatusJudge answers, and no table keeps that:
\* blocks pass in ActionConsole and ActionPlans, where the answer is looked at.
Next ==
  \/ \E h \in TxHashes : Mine(h)
  \/ \E r \in Requests : Prepare(r) \/ Simulate(r) \/ Report(r) \/ Status(r) \/ RequestLost(r)

Spec == Init /\ [][Next]_vars

\* TR4CE does not poll: what settles an action is a caller who reports the operation's
\* hash again.
Repeats(r, a) ==
  /\ req[r].act = a
  /\ req[r].call = Operation(a)
  /\ req[r].hash = receipts[a][Operation(a)].hash

ReportAgain(r, a) ==
  /\ Operation(a) \in Calls
  /\ \E h \in {receipts[a][Operation(a)].hash} \ {NoTx} : ReportRead(r, a, Operation(a), h)

------------------------------------------------------------------------------
(* Properties                                                               *)

Simulation == [call : Calls, ok : BOOLEAN, at : 0..LastBlock]
Receipt == [hash : TxHashes \cup {NoTx}, outcome : {"none", "success", "reverted"}]
Places == {"idle", "refresh", "append", "create", "simulate", "record", "order", "insert",
           "count", "update", "observe", "confirm", "status", "judge"}
Carried == [act : Actions \cup {NoAction}, plan : Plans \cup {<<>>}, call : Calls,
            hash : TxHashes \cup {NoTx}, count : Nat, simulation : Simulation,
            inserted : BOOLEAN]

\* Every column and every local stays within its type, the CHECK constraints of
\* prepared_action in migration 0004 included.
TypeOK ==
  /\ block \in 0..LastBlock
  /\ mined \in [TxHashes -> {"none", "success", "reverted"}]
  /\ status \in [Actions -> {"absent"} \cup Live \cup Sent]
  /\ plan \in [Actions -> Plans \cup {<<>>}]
  /\ \A a \in Actions : status[a] = "absent" <=> plan[a] = <<>>
  /\ sentCount \in [Actions -> Nat]
  /\ \A a \in Actions : sentCount[a] <= CallCount(a)
  /\ simulated \in [Actions -> SUBSET Calls]
  /\ newest \in [Actions -> Simulation]
  /\ begun \in [Actions -> SUBSET Requests]
  /\ receipts \in [Actions -> [Calls -> Receipt]]
  /\ pc \in [Requests -> Places]
  /\ req \in [Requests -> Carried]

\* A call is reported only after every call before it, whatever reports run at
\* once: action-service.ts:440-446, "in order, and only the call that is next".
ReceiptsInOrder ==
  \A a \in Actions : \A i \in Reported(a), j \in Calls : j < i => j \in Reported(a)

\* A call is simulated only after every call before it was reported: nobody is
\* shown a deposit's success that its approval could not yet allow.
\* action-service.ts:113-116, 387-394.
SimulatedInOrder ==
  \A a \in Actions : \A i \in simulated[a], j \in Calls : j < i => j \in Reported(a)

\* An action that claims to be sent has a hash for every call (0004:69-76), and one
\* that claims an outcome has the outcome of its last call, and never the
\* approval's: actions.ts:291-294.
OutcomeIsTheOperations ==
  \A a \in Actions :
    /\ status[a] \in Sent => Reported(a) = IndicesOf(plan[a])
    /\ status[a] = "confirmed" => receipts[a][Operation(a)].outcome = "success"
    /\ status[a] = "reverted" => receipts[a][Operation(a)].outcome = "reverted"

\* What was reported is evidence: no hash is replaced, no outcome taken back.
\* actions.ts:206-209, action-service.ts:487-490.
ReceiptsAreKept ==
  [][\A a \in Actions, i \in Calls :
       /\ i \in Reported(a) => receipts'[a][i].hash = receipts[a][i].hash
       /\ receipts[a][i].outcome # "none" => receipts'[a][i] = receipts[a][i]]_vars

\* The receipts of an action, in the order of its calls.
ReceiptLog(a) == [i \in 1..Cardinality(Reported(a)) |-> receipts[a][i - 1]]

Log ==
  INSTANCE CallLog
    WITH tried <- simulated, log <- [a \in Actions |-> ReceiptLog(a)]

\* The three tables, which several transactions write at READ COMMITTED, behave as one log: a
\* report appends the next call of its action under a hash that stands for no other call, a
\* receipt's outcome is told once, and only the next call is tried: actions.ts:206-270,
\* 0004:157-161 and 199-200.
KeepsCallLog == Log!Spec

\* A claim the code does not keep with two requests.  An action that stands under its
\* digest, and is served to whoever prepares the
\* same calls again, still awaits a signature.  0004:95-100: "Idempotency, scoped to
\* actions that are still awaiting a signature"; actions.ts:71.
LiveAwaitsSignature ==
  \A a \in Actions : status[a] \in Live => Reported(a) # IndicesOf(plan[a])

\* Whatever requests run at once, the call that is called signable was itself simulated and
\* every call before it was reported: no wallet signs a deposit on the strength of its
\* approval's attempt, or before the approval was sent.  action-service.ts:387-396.
OffersAreEarned ==
  \A r \in Requests :
    pc[r] = "judge" /\ Signable(r) =>
      /\ req[r].count \in simulated[req[r].act]
      /\ \A j \in Calls : j < req[r].count => j \in Reported(req[r].act)

\* One request at a time offers no call that was reported: nothing is sent twice.
\* action-service.ts:373-376.
OfferedIsNext ==
  \A r \in Requests :
    pc[r] = "judge" /\ Signable(r) =>
      req[r].count \in simulated[req[r].act] \ Reported(req[r].act)

AwaitsObservation(a) ==
  /\ Operation(a) \in Calls
  /\ LET last == receipts[a][Operation(a)]
     IN  last.hash # NoTx /\ last.outcome = "none" /\ mined[last.hash] # "none"

\* A hash whose transaction is mined settles its action, if the caller keeps
\* reporting it and the receipt is not stored yet: action-service.ts:415-419.
ReportedSettles ==
  \A a \in Actions :
    AwaitsObservation(a) ~> status[a] \in {"confirmed", "reverted"}

\* "Terminal states are terminal": action-service.ts:373.
StatusIsFinal ==
  [][\A a \in Actions : status[a] \in {"confirmed", "reverted"} => status'[a] = status[a]]_vars

==============================================================================
