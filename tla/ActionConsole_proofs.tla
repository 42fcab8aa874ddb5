------------------------ MODULE ActionConsole_proofs ------------------------
(****************************************************************************)
(* Theorems of ActionConsole, for any plans, hashes and requests at once.   *)
(*                                                                          *)
(* The tab acts on an answer that may be as old as it likes.  What makes    *)
(* that safe is that everything an answer says stays true: the tables only  *)
(* ever grow below what it saw (Said).                                      *)
(****************************************************************************)
EXTENDS ActionConsole, PreparedAction_proofs

-----------------------------------------------------------------------------
(* The requests, whose answers the tab receives                             *)

\* What the API knows when it judges an action: every call before the count was reported.
Judges(r) ==
  pc[r] = "judge" =>
    Before(req[r].act, req[r].count) /\ req[r].count <= CallCount(req[r].act)

-----------------------------------------------------------------------------
(* What an answer says                                                      *)

\* The calls of all plans, and the number that is none of them.
LEMMA CallsAreBelow ==
  /\ NoCall \in Nat /\ Calls = 0..(NoCall - 1) /\ IsFiniteSet(Calls)
  /\ \A p \in Plans : Len(p) \in 1..NoCall /\ Len(p) - 1 \in Calls
<1>1. NoCall \in Nat /\ IsFiniteSet(Calls)
  BY ConsoleAssumption, FS_CardinalityType DEF NoCall
<1>2. ASSUME NEW i \in Calls PROVE i \in Nat /\ 0..i \subseteq Calls
  <2>1. PICK p \in Plans : i \in IndicesOf(p)
    BY DEF Calls
  <2>2. Len(p) \in Nat /\ i \in 0..(Len(p) - 1)
    BY <2>1, CallsAre DEF IndicesOf
  <2>3. 0..i \subseteq IndicesOf(p)
    BY <2>2 DEF IndicesOf
  <2>. QED
    BY <2>2, <2>3, CallsAre
<1>3. ASSUME NEW i \in Calls PROVE i \in 0..(NoCall - 1)
  <2>1. IsFiniteSet(0..i) /\ Cardinality(0..i) = i + 1
    BY <1>2, FS_Interval
  <2>2. Cardinality(0..i) <= NoCall
    BY <1>1, <1>2, FS_Subset DEF NoCall
  <2>. QED
    BY <1>1, <1>2, <2>1, <2>2
<1>4. \A i \in Calls : \A j \in Nat : j < i => j \in Calls
  BY <1>2
<1>5. Calls = 0..(NoCall - 1)
  BY <1>1, <1>3, <1>4, PrefixSize DEF NoCall
<1>6. ASSUME NEW p \in Plans PROVE Len(p) \in 1..NoCall /\ Len(p) - 1 \in Calls
  <2>1. Len(p) \in Nat /\ Len(p) > 0 /\ IndicesOf(p) \subseteq Calls
    BY CallsAre
  <2>2. Len(p) - 1 \in Calls
    BY <2>1 DEF IndicesOf
  <2>. QED
    BY <1>1, <1>3, <2>1, <2>2
<1>. QED
  BY <1>1, <1>5, <1>6

\* What holds of the calls, simulations and receipts of an action that answer x is about.
Says(x, calls, attempts, log) ==
  x # NoView =>
    /\ calls # <<>>
    /\ \A j \in Calls : j < x.next => log[j].hash # NoTx
    /\ x.signable => x.next \in attempts
    /\ x.hash # NoTx => x.hash = log[Len(calls) - 1].hash
    /\ x.status = "confirmed" => log[Len(calls) - 1].outcome = "success"

Said(x) == Says(x, plan[Shown], simulated[Shown], receipts[Shown])

\* The tables never go back behind an answer.
Grown ==
  /\ plan[Shown] # <<>> => plan'[Shown] = plan[Shown] /\ simulated[Shown] \subseteq simulated'[Shown]
  /\ \A i \in Calls :
       /\ receipts[Shown][i].hash # NoTx => receipts'[Shown][i].hash = receipts[Shown][i].hash
       /\ receipts[Shown][i].outcome # "none" => receipts'[Shown][i] = receipts[Shown][i]

LEMMA AnswersStayTrue ==
  ASSUME ActionInv, Grown, NEW x, Said(x)
  PROVE  Says(x, plan'[Shown], simulated'[Shown], receipts'[Shown])
<1>1. plan[Shown] # <<>> => Len(plan[Shown]) - 1 \in Calls
  BY ConsoleAssumption, CallsAreBelow DEF ActionInv, TypeOK
<1>. QED
  BY <1>1 DEF Grown, Said, Says

LEMMA TablesAreGrown == ActionInv /\ (Next \/ UNCHANGED tableVars) => Grown
<1>. SUFFICES ASSUME ActionInv, Next \/ UNCHANGED tableVars PROVE Grown
  OBVIOUS
<1>1. CASE Next
  <2>1. Kept
    BY <1>1, ReceiptsStep
  <2>2. plan[Shown] # <<>> =>
          plan'[Shown] = plan[Shown] /\ simulated[Shown] \subseteq simulated'[Shown]
    BY <1>1, ConsoleAssumption, TablesGrow
  <2>. QED
    BY <2>1, <2>2, ConsoleAssumption DEF Grown, Kept, Reported
<1>2. CASE UNCHANGED tableVars
  BY <1>2 DEF Grown, tableVars
<1>. QED
  BY <1>1, <1>2

\* What the API answers when it ends a request of the tab's, it says truly.
LEMMA AnswersAreTrue ==
  ASSUME ActionInv, NewestIsStored, NEW r \in Requests, Judges(r), req[r].act = Shown,
         pc[r] # "idle", Prepare(r) \/ Simulate(r) \/ Report(r) \/ Status(r), pc'[r] = "idle"
  PROVE  AnswerOf(r) \in View \cup {NoView} /\ Said(AnswerOf(r))
<1>. DEFINE last == Operation(Shown)
<1>0. /\ pc \in [Requests -> Places] /\ req[r] \in Carried /\ Shown \in Actions
      /\ receipts \in [Actions -> [Calls -> Receipt]] /\ newest[Shown] \in Simulation
      /\ status \in [Actions -> {"absent"} \cup Live \cup Sent] /\ sentCount[Shown] \in Nat
      /\ sentCount[Shown] <= CallCount(Shown) /\ Ordered(Shown)
  BY ConsoleAssumption DEF ActionInv, TypeOK
<1>1. ASSUME pc[r] \in Reading
      PROVE  /\ plan[Shown] # <<>> /\ status[Shown] # "absent" /\ CallCount(Shown) \in 1..NoCall
             /\ last \in Calls
  <2>1. plan[Shown] # <<>>
    BY <1>1 DEF ActionInv, Knows
  <2>. QED
    BY <1>0, <2>1, CallsAreBelow DEF ActionInv, TypeOK, CallCount, Operation
<1>2. CASE pc[r] = "judge"
  <2>1. AnswerOf(r) = [status |-> "live", next |-> req[r].count, signable |-> Signable(r),
                       hash |-> NoTx, outcome |-> "none"]
    BY <1>2 DEF AnswerOf, LiveView
  <2>2. req[r].count \in Calls \cup {NoCall} /\ Before(Shown, req[r].count)
    BY <1>0, <1>1, <1>2, CallsAreBelow DEF Judges, Reading, Carried
  <2>3. Signable(r) \in BOOLEAN /\ (Signable(r) => req[r].count \in simulated[Shown])
    BY <1>0 DEF Signable, NewestIsStored
  <2>4. AnswerOf(r) \in View
    BY <2>1, <2>2, <2>3 DEF View
  <2>5. Said(AnswerOf(r))
    BY <1>1, <1>2, <2>1, <2>2, <2>3 DEF Said, Says, Before, Reported, Reading
  <2>. QED
    BY <2>4, <2>5
<1>3. CASE pc[r] = "status"
  <2>1. AnswerOf(r) = [status |-> status[Shown], next |-> sentCount[Shown], signable |-> FALSE,
                       hash |-> receipts[Shown][last].hash,
                       outcome |-> receipts[Shown][last].outcome]
    BY <1>3 DEF AnswerOf, SentView
  <2>2. StatusRead(r)
    BY <1>3 DEF Prepare, PrepareLive, PrepareNew, PrepareCreate, PrepareServed, Simulate,
       SimulateRead, SimulateRun, SimulateRecord, SimulateRefused, Report, ReportRead,
       ReportOrder, ReportInsert, ReportCount, ReportUpdate, ReportRefused, ObserveSettled,
       ObserveUnmined, ObserveMined, ConfirmReceipt, Status, StatusAsked, StatusJudge
  <2>3. status[Shown] \in Sent
    BY <1>0, <1>1, <1>3, <2>2 DEF StatusRead, Goto, Reading
  <2>4. sentCount[Shown] \in Calls \cup {NoCall} /\ Before(Shown, sentCount[Shown])
    BY <1>0, <1>1, <1>3, CallsAreBelow DEF Ordered, Reading
  <2>5. receipts[Shown][last] \in Receipt
    BY <1>0, <1>1, <1>3 DEF Reading
  <2>6. AnswerOf(r) \in View
    BY <2>1, <2>3, <2>4, <2>5 DEF View, Receipt
  <2>7. status[Shown] = "confirmed" => receipts[Shown][last].outcome = "success"
    BY <1>0 DEF ActionInv, OutcomeIsTheOperations
  <2>8. Said(AnswerOf(r))
    BY <1>1, <1>3, <2>1, <2>4, <2>7 DEF Said, Says, Before, Reported, Reading, Operation, CallCount
  <2>. QED
    BY <2>6, <2>8
<1>4. CASE pc[r] \notin {"judge", "status"}
  BY <1>4 DEF AnswerOf, Said, Says
<1>. QED
  BY <1>2, <1>3, <1>4

-----------------------------------------------------------------------------
(* The tab                                                                  *)

\* A request the tab made is about its action, and so is every report there is, with a
\* hash the wallet returned for that call; what the API has answered, it said truly.
RequestKnown(r) ==
  /\ purpose[r] = "none" => pc[r] = "idle" /\ answer[r] = NoView
  /\ answer[r] # NoView => pc[r] = "idle"
  /\ Waits(r) /\ pc[r] # "idle" => req[r].act = Shown
  /\ pc[r] \in Reporting => req[r].act = Shown /\ req[r].hash \in signed[req[r].call]
  /\ Judges(r)
  /\ Said(answer[r])

TabInv ==
  /\ ConsoleTypeOK
  /\ Said(view)
  /\ asking \in Calls => plan[Shown] # <<>> /\ asking \in simulated[Shown]
  /\ HashGoesWithItsCall
  /\ \A r \in Requests : RequestKnown(r)

ConsoleInv == ActionInv /\ NewestIsStored /\ TabInv

\* The wallet forgets no signature.
SignaturesStay == \A i \in Calls : signed[i] \subseteq signed'[i]

\* A request nobody touches.
LEMMA RequestStays ==
  ASSUME ConsoleInv, Next \/ UNCHANGED tableVars, SignaturesStay, NEW q \in Requests,
         pc'[q] = pc[q], req'[q] = req[q], purpose'[q] = purpose[q], answer'[q] = answer[q]
  PROVE  RequestKnown(q)'
<1>1. RequestKnown(q) /\ Knows(pc[q], req[q]) /\ req[q] \in Carried /\ Grown
  BY TablesAreGrown DEF ConsoleInv, TabInv, ActionInv, TypeOK
<1>2. Said(answer[q])'
  <2>1. Says(answer[q], plan'[Shown], simulated'[Shown], receipts'[Shown])
    BY <1>1, AnswersStayTrue DEF ConsoleInv, RequestKnown
  <2>. QED
    BY <2>1 DEF Said
<1>3. pc[q] \in Reporting => req[q].act = Shown /\ req[q].hash \in signed'[req[q].call]
  <2>1. req[q].call \in Calls
    BY <1>1 DEF Carried
  <2>. QED
    BY <1>1, <2>1 DEF RequestKnown, SignaturesStay
<1>4. ASSUME pc[q] = "judge"
      PROVE  Before(req[q].act, req[q].count)' /\ req[q].count <= CallCount(req[q].act)'
  <2>1. /\ req[q].act \in Actions /\ plan[req[q].act] # <<>>
        /\ Before(req[q].act, req[q].count) /\ req[q].count <= CallCount(req[q].act)
    BY <1>1, <1>4 DEF RequestKnown, Judges, Knows, Reading
  <2>2. CASE Next
    <3>1. plan'[req[q].act] = plan[req[q].act]
      BY <2>1, <2>2, TablesGrow DEF ConsoleInv
    <3>2. Reported(req[q].act) \subseteq Reported(req[q].act)'
      BY <2>1, <2>2, ReceiptsStep DEF ConsoleInv, Kept, Reported
    <3>. QED
      BY <2>1, <3>1, <3>2 DEF Before, CallCount
  <2>3. CASE UNCHANGED tableVars
    BY <2>1, <2>3 DEF Before, CallCount, Reported, tableVars
  <2>. QED
    BY <2>2, <2>3
<1>5. Judges(q)'
  BY <1>4 DEF Judges
<1>6. /\ purpose'[q] = "none" => pc'[q] = "idle" /\ answer'[q] = NoView
      /\ answer'[q] # NoView => pc'[q] = "idle"
      /\ Waits(q)' /\ pc'[q] # "idle" => req'[q].act = Shown
  BY <1>1 DEF RequestKnown, Waits
<1>. QED
  BY <1>2, <1>3, <1>5, <1>6 DEF RequestKnown

\* A hash on record came with a report, and a report has a hash of the wallet's.
LEMMA HashesStay ==
  ASSUME ConsoleInv, Next \/ UNCHANGED tableVars, SignaturesStay
  PROVE  HashGoesWithItsCall'
<1>. SUFFICES ASSUME NEW i \in Calls, receipts'[Shown][i].hash # NoTx
              PROVE  receipts'[Shown][i].hash \in signed'[i]
  BY DEF HashGoesWithItsCall, Reported
<1>1. CASE receipts'[Shown][i].hash = receipts[Shown][i].hash
  <2>1. receipts[Shown][i].hash \in signed[i]
    BY <1>1 DEF ConsoleInv, TabInv, HashGoesWithItsCall, Reported
  <2>. QED
    BY <1>1, <2>1 DEF SignaturesStay
<1>2. CASE receipts'[Shown][i].hash # receipts[Shown][i].hash
  <2>1. Next
    BY <1>2 DEF tableVars
  <2>2. PICK r \in Requests : /\ pc[r] = "update" /\ req[r].call = i
                              /\ receipts'[Shown][i].hash = req[r].hash
    BY <1>2, <2>1, ConsoleAssumption, NewHash DEF ConsoleInv
  <2>3. req[r].hash \in signed[i]
    BY <2>2 DEF ConsoleInv, TabInv, RequestKnown, Reporting
  <2>. QED
    BY <2>2, <2>3 DEF SignaturesStay
<1>. QED
  BY <1>1, <1>2

\* The call the wallet is asked for keeps its simulation.
LEMMA AskedStaysSimulated ==
  ASSUME ConsoleInv, Next \/ UNCHANGED tableVars, asking' \in {asking, NoCall}
  PROVE  asking' \in Calls => plan'[Shown] # <<>> /\ asking' \in simulated'[Shown]
<1>1. Grown
  BY TablesAreGrown DEF ConsoleInv
<1>2. NoCall \notin Calls
  BY CallsAreBelow
<1>. QED
  BY <1>1, <1>2 DEF Grown, ConsoleInv, TabInv

LEMMA ShownStaysTrue ==
  ASSUME ConsoleInv, Next \/ UNCHANGED tableVars, UNCHANGED view
  PROVE  Said(view)'
<1>1. Says(view, plan'[Shown], simulated'[Shown], receipts'[Shown])
  BY TablesAreGrown, AnswersStayTrue DEF ConsoleInv, TabInv
<1>. QED
  BY <1>1 DEF Said

\* The API's part of a step of the tab.
LEMMA ApiStep ==
  ASSUME ConsoleInv, Next
  PROVE  ActionInv' /\ NewestIsStored'
BY InvStep, NewestStep DEF ConsoleInv

LEMMA ServeKeeps ==
  ASSUME ConsoleInv, NEW r \in Requests, Serve(r) \/ Lose(r)
  PROVE  ConsoleInv'
<1>. DEFINE what == IF Lose(r) THEN NoView ELSE AnswerOf(r)
<1>1. /\ pc[r] # "idle" /\ UNCHANGED <<view, asking, signed>>
      /\ Prepare(r) \/ Simulate(r) \/ Report(r) \/ Status(r) \/ RequestLost(r)
  BY DEF Serve, Lose, RequestLost, tabVars
<1>2. Next /\ SignaturesStay
  BY <1>1 DEF Next, SignaturesStay
<1>3. /\ \A q \in Requests \ {r} : pc'[q] = pc[q] /\ req'[q] = req[q]
      /\ pc'[r] # "idle" => req'[r].act = req[r].act
      /\ pc'[r] \in Reporting =>
           pc[r] \in Reporting /\ req'[r].call = req[r].call /\ req'[r].hash = req[r].hash
      /\ pc'[r] = "judge" => UNCHANGED tableVars /\ req'[r].count = sentCount[req'[r].act]
      /\ pc[r] \in Reading => UNCHANGED rows
  BY <1>1, ServeStep DEF ConsoleInv
<1>4. /\ purpose \in [Requests -> {"none", "gone", "load", "resimulate", "check", "report"}]
      /\ answer \in [Requests -> View \cup {NoView}]
      /\ pc \in [Requests -> Places] /\ RequestKnown(r) /\ purpose[r] # "none"
  BY <1>1 DEF ConsoleInv, TabInv, ConsoleTypeOK, ActionInv, TypeOK, RequestKnown
<1>5. \/ UNCHANGED <<purpose, answer>> /\ pc'[r] # "idle"
      \/ purpose' = [purpose EXCEPT ![r] = "none"] /\ answer' = answer /\ pc'[r] = "idle"
      \/ /\ answer' = [answer EXCEPT ![r] = AnswerOf(r)] /\ purpose' = purpose /\ pc'[r] = "idle"
         /\ purpose[r] # "gone" /\ Serve(r)
  <2>1. CASE Lose(r)
    <3>1. pc'[r] = "idle"
      BY <1>4, <2>1 DEF Lose, RequestLost, EndRequest, Goto
    <3>. QED
      BY <2>1, <3>1 DEF Lose, Ended
  <2>2. CASE Serve(r)
    BY <2>2 DEF Serve, Ended
  <2>. QED
    BY <2>1, <2>2
<1>6. ASSUME answer' = [answer EXCEPT ![r] = AnswerOf(r)], pc'[r] = "idle", purpose[r] # "gone",
             Serve(r)
      PROVE  AnswerOf(r) \in View \cup {NoView}
             /\ Says(AnswerOf(r), plan'[Shown], simulated'[Shown], receipts'[Shown])
  <2>1. req[r].act = Shown /\ Judges(r)
    BY <1>1, <1>4, <1>6 DEF RequestKnown, Waits
  <2>2. AnswerOf(r) \in View \cup {NoView} /\ Said(AnswerOf(r))
    BY <1>1, <1>6, <2>1, AnswersAreTrue DEF ConsoleInv, Serve
  <2>. QED
    BY <1>2, <2>2, TablesAreGrown, AnswersStayTrue DEF ConsoleInv
<1>7. ConsoleTypeOK'
  BY <1>1, <1>4, <1>5, <1>6 DEF ConsoleInv, TabInv, ConsoleTypeOK
<1>8. ASSUME NEW q \in Requests \ {r} PROVE RequestKnown(q)'
  <2>1. purpose'[q] = purpose[q] /\ answer'[q] = answer[q]
    BY <1>4, <1>5
  <2>. QED
    BY <1>2, <1>3, <2>1, RequestStays
<1>9. RequestKnown(r)'
  <2>1. Said(answer[r])'
    <3>1. Says(answer'[r], plan'[Shown], simulated'[Shown], receipts'[Shown])
      <4>1. CASE answer' = answer
        BY <1>2, <1>4, <4>1, TablesAreGrown, AnswersStayTrue DEF ConsoleInv, RequestKnown
      <4>2. CASE answer' # answer
        BY <1>4, <1>5, <1>6, <4>2
      <4>. QED
        BY <4>1, <4>2
    <3>. QED
      BY <3>1 DEF Said
  <2>2. pc'[r] \in Reporting => req'[r].act = Shown /\ req'[r].hash \in signed'[req'[r].call]
    <3>1. "idle" \notin Reporting
      BY DEF Reporting
    <3>. QED
      BY <1>1, <1>3, <1>4, <3>1 DEF RequestKnown
  <2>3. Judges(r)'
    <3>. SUFFICES ASSUME pc'[r] = "judge"
                  PROVE  /\ Before(req[r].act, req[r].count)'
                         /\ (req[r].count <= CallCount(req[r].act))'
      BY DEF Judges
    <3>1. Knows(pc[r], req[r])' /\ ActionInv'
      BY <1>2, ApiStep DEF ActionInv
    <3>2. req'[r].act \in Actions
      BY <3>1 DEF Knows, Reading
    <3>3. UNCHANGED tableVars /\ req'[r].count = sentCount[req'[r].act]
      BY <1>3
    <3>4. Before(req'[r].act, req'[r].count) /\ req'[r].count <= CallCount(req'[r].act)
      BY <3>2, <3>3 DEF ConsoleInv, ActionInv, TypeOK, Ordered
    <3>. QED
      BY <3>3, <3>4 DEF Before, Reported, CallCount, tableVars
  <2>4. /\ purpose'[r] = "none" => pc'[r] = "idle" /\ answer'[r] = NoView
        /\ answer'[r] # NoView => pc'[r] = "idle"
    BY <1>1, <1>4, <1>5 DEF RequestKnown
  <2>5. Waits(r)' /\ pc'[r] # "idle" => req'[r].act = Shown
    BY <1>1, <1>3, <1>4, <1>5 DEF RequestKnown, Waits
  <2>. QED
    BY <2>1, <2>2, <2>3, <2>4, <2>5 DEF RequestKnown
<1>10. Said(view)'
  BY <1>1, <1>2, ShownStaysTrue
<1>11. asking' \in Calls => plan'[Shown] # <<>> /\ asking' \in simulated'[Shown]
  BY <1>1, <1>2, AskedStaysSimulated
<1>. QED
  BY <1>2, <1>7, <1>8, <1>9, <1>10, <1>11, ApiStep, HashesStay DEF ConsoleInv, TabInv

\* What the tab and the connection do by themselves: no request and no table moves.
LEMMA TabAlone ==
  ASSUME ConsoleInv, UNCHANGED vars, ConsoleTypeOK', SignaturesStay, Said(view'),
         asking' \in Calls => plan[Shown] # <<>> /\ asking' \in simulated[Shown],
         \A r \in Requests :
           /\ purpose'[r] = "none" => pc[r] = "idle" /\ answer'[r] = NoView
           /\ purpose'[r] \notin {"none", "gone"} => purpose'[r] = purpose[r]
           /\ answer'[r] \in {answer[r], NoView}
  PROVE  ConsoleInv'
<1>1. UNCHANGED tableVars /\ UNCHANGED <<pc, req, mined, block>>
  BY DEF vars, chainVars, requestVars
<1>2. ActionInv' /\ NewestIsStored'
  BY <1>1, InvStep DEF ConsoleInv, NewestIsStored, tableVars
<1>3. ASSUME NEW r \in Requests PROVE RequestKnown(r)'
  <2>1. RequestKnown(r) /\ req[r].call \in Calls
    BY DEF ConsoleInv, TabInv, ActionInv, TypeOK, Carried
  <2>2. Said(answer[r])'
    BY <1>1, <2>1 DEF RequestKnown, Said, Says, tableVars
  <2>3. Judges(r)'
    BY <1>1, <2>1 DEF RequestKnown, Judges, Before, Reported, CallCount, tableVars
  <2>. QED
    BY <1>1, <2>1, <2>2, <2>3 DEF RequestKnown, Waits, SignaturesStay
<1>4. Said(view)' /\ (asking' \in Calls => plan'[Shown] # <<>> /\ asking' \in simulated'[Shown])
  BY <1>1 DEF Said, tableVars
<1>. QED
  BY <1>1, <1>2, <1>3, <1>4, HashesStay DEF ConsoleInv, TabInv

LEMMA TabKeeps ==
  ASSUME ConsoleInv,
         Leave \/ Sign \/ WalletRejects \/ (\E r \in Requests : GiveUp(r) \/ Receive(r))
  PROVE  ConsoleInv'
<1>1. /\ view \in View \cup {NoView} /\ asking \in Calls \cup {NoCall}
      /\ signed \in [Calls -> SUBSET TxHashes]
      /\ purpose \in [Requests -> {"none", "gone", "load", "resimulate", "check", "report"}]
      /\ answer \in [Requests -> View \cup {NoView}]
      /\ Said(view) /\ NoCall \notin Calls
      /\ asking \in Calls => plan[Shown] # <<>> /\ asking \in simulated[Shown]
  BY CallsAreBelow DEF ConsoleInv, TabInv, ConsoleTypeOK
<1>2. \A r \in Requests : RequestKnown(r) /\ Said(answer[r])
  BY DEF ConsoleInv, TabInv, RequestKnown
<1>3. UNCHANGED vars /\ UNCHANGED signed /\ SignaturesStay
  BY DEF Leave, Sign, WalletRejects, GiveUp, Receive, SignaturesStay
<1>4. CASE Leave
  <2>1. /\ view' = NoView /\ asking' = NoCall /\ answer' = [r \in Requests |-> NoView]
        /\ purpose' = [r \in Requests |-> CASE ~Waits(r) -> purpose[r]
                                           [] Waits(r) /\ pc[r] = "idle" -> "none"
                                           [] OTHER -> "gone"]
    BY <1>4 DEF Leave
  <2>2. ASSUME NEW r \in Requests
        PROVE  /\ purpose'[r] = "none" => pc[r] = "idle" /\ answer'[r] = NoView
               /\ purpose'[r] \notin {"none", "gone"} => purpose'[r] = purpose[r]
               /\ purpose'[r] \in {purpose[r], "none", "gone"}
    <3>1. purpose'[r] = CASE ~Waits(r) -> purpose[r]
                          [] Waits(r) /\ pc[r] = "idle" -> "none"
                          [] OTHER -> "gone"
      BY <2>1
    <3>2. answer'[r] = NoView
      BY <2>1
    <3>3. purpose[r] = "none" => pc[r] = "idle"
      BY <1>2 DEF RequestKnown
    <3>. QED
      BY <3>1, <3>2, <3>3 DEF Waits
  <2>3. ConsoleTypeOK'
    <3>1. \A r \in Requests : purpose'[r] \in {"none", "gone", "load", "resimulate", "check", "report"}
      BY <1>1, <2>2
    <3>. QED
      BY <1>1, <1>3, <2>1, <3>1 DEF ConsoleTypeOK
  <2>. QED
    BY <1>1, <1>3, <2>1, <2>2, <2>3, TabAlone DEF Said, Says
<1>5. CASE Sign
  <2>1. /\ asking' \in Calls /\ asking' = view.next /\ view # NoView /\ view.signable
        /\ UNCHANGED <<view, purpose, answer>>
    BY <1>1, <1>5 DEF Sign, SigningGate
  <2>2. plan[Shown] # <<>> /\ asking' \in simulated[Shown]
    BY <1>1, <2>1 DEF Said, Says
  <2>. QED
    BY <1>1, <1>2, <1>3, <2>1, <2>2, TabAlone DEF ConsoleTypeOK, RequestKnown
<1>6. CASE WalletRejects
  BY <1>1, <1>2, <1>3, <1>6, TabAlone DEF WalletRejects, ConsoleTypeOK, RequestKnown
<1>7. ASSUME NEW r \in Requests, GiveUp(r) PROVE ConsoleInv'
  <2>1. /\ purpose' = [purpose EXCEPT ![r] = IF pc[r] = "idle" THEN "none" ELSE "gone"]
        /\ answer' = [answer EXCEPT ![r] = NoView] /\ UNCHANGED <<view, asking>>
    BY <1>7 DEF GiveUp, tabVars
  <2>. QED
    BY <1>1, <1>2, <1>3, <2>1, TabAlone DEF ConsoleTypeOK, RequestKnown
<1>8. ASSUME NEW r \in Requests, Receive(r) PROVE ConsoleInv'
  <2>1. /\ purpose' = [purpose EXCEPT ![r] = "none"] /\ answer' = [answer EXCEPT ![r] = NoView]
        /\ view' = answer[r] /\ asking' = asking
    BY <1>8 DEF Receive
  <2>2. pc[r] = "idle"
    BY <1>2, <1>8 DEF Receive, RequestKnown
  <2>. QED
    BY <1>1, <1>2, <1>3, <2>1, <2>2, TabAlone DEF ConsoleTypeOK, RequestKnown
<1>. QED
  BY <1>4, <1>5, <1>6, <1>7, <1>8

\* A request begins: one of another page's, or one about the tab's action.
LEMMA Begins ==
  ASSUME ConsoleInv, UNCHANGED tableVars, ActionInv', SignaturesStay, NEW r \in Requests,
         NEW why \in {"gone", "load", "resimulate", "check", "report"}, Begin(r, why),
         UNCHANGED view, asking' \in {asking, NoCall},
         signed' \in [Calls -> SUBSET TxHashes],
         \A q \in Requests \ {r} : pc'[q] = pc[q] /\ req'[q] = req[q],
         why = "gone" \/ req'[r].act = Shown,
         pc'[r] # "judge",
         pc'[r] \in Reporting => req'[r].act = Shown /\ req'[r].hash \in signed'[req'[r].call]
  PROVE  ConsoleInv'
<1>1. /\ purpose \in [Requests -> {"none", "gone", "load", "resimulate", "check", "report"}]
      /\ purpose[r] = "none" /\ purpose' = [purpose EXCEPT ![r] = why] /\ answer' = answer
      /\ RequestKnown(r)
  BY DEF ConsoleInv, TabInv, ConsoleTypeOK, Begin, Free
<1>2. ConsoleTypeOK'
  BY <1>1 DEF ConsoleInv, TabInv, ConsoleTypeOK
<1>3. \A q \in Requests \ {r} : RequestKnown(q)'
  BY <1>1, RequestStays
<1>4. RequestKnown(r)'
  <2>1. purpose'[r] = why /\ answer'[r] = NoView
    BY <1>1 DEF RequestKnown
  <2>. QED
    BY <2>1 DEF RequestKnown, Waits, Judges, Said, Says
<1>5. NewestIsStored'
  BY DEF ConsoleInv, NewestIsStored, tableVars
<1>. QED
  BY <1>2, <1>3, <1>4, <1>5, ShownStaysTrue, AskedStaysSimulated, HashesStay DEF ConsoleInv, TabInv

\* Where the first step of a preparation, a report or another question leads.
LEMMA PreparationBegins ==
  ASSUME ActionInv, NEW r \in Requests, NEW p \in Plans, PrepareLive(r, p) \/ PrepareNew(r, p)
  PROVE  /\ UNCHANGED tableVars /\ pc'[r] \in {"refresh", "create"}
         /\ \A q \in Requests \ {r} : pc'[q] = pc[q] /\ req'[q] = req[q]
BY DEF ActionInv, TypeOK, PrepareLive, PrepareNew, Goto

LEMMA ReportBegins ==
  ASSUME ActionInv, NEW r \in Requests, NEW a, NEW i, NEW h, ReportRead(r, a, i, h)
  PROVE  /\ UNCHANGED tableVars /\ pc'[r] = "order"
         /\ req'[r].act = a /\ req'[r].call = i /\ req'[r].hash = h
         /\ \A q \in Requests \ {r} : pc'[q] = pc[q] /\ req'[q] = req[q]
<1>1. pc \in [Requests -> Places] /\ req \in [Requests -> Carried] /\ req[r] \in Carried
  BY DEF ActionInv, TypeOK
<1>. QED
  BY <1>1 DEF ReportRead, Goto, Carried

LEMMA QuestionBegins ==
  ASSUME ActionInv, NEW r \in Requests, NEW a, SimulateRead(r, a) \/ StatusAsked(r, a)
  PROVE  /\ UNCHANGED tableVars /\ pc'[r] \in {"simulate", "status"} /\ req'[r].act = a
         /\ \A q \in Requests \ {r} : pc'[q] = pc[q] /\ req'[q] = req[q]
<1>1. pc \in [Requests -> Places] /\ req \in [Requests -> Carried] /\ req[r] \in Carried
  BY DEF ActionInv, TypeOK
<1>. QED
  BY <1>1 DEF SimulateRead, StatusAsked, Goto, Carried

LEMMA BeginningKeeps ==
  ASSUME ConsoleInv, NEW r \in Requests,
         \/ PrepareElsewhere(r) \/ Load(r) \/ Resimulate(r) \/ CheckReceipt(r)
         \/ \E h \in TxHashes : WalletSigns(r, h)
  PROVE  ConsoleInv'
<1>1. CASE PrepareElsewhere(r)
  <2>1. /\ Begin(r, "gone") /\ UNCHANGED <<view, asking, signed>>
        /\ \E p \in Plans : PrepareLive(r, p) \/ PrepareNew(r, p)
    BY <1>1 DEF PrepareElsewhere, tabVars
  <2>2. Next
    BY <2>1 DEF Next, Prepare
  <2>3. /\ UNCHANGED tableVars /\ pc'[r] \in {"refresh", "create"}
        /\ \A q \in Requests \ {r} : pc'[q] = pc[q] /\ req'[q] = req[q]
    BY <2>1, PreparationBegins DEF ConsoleInv
  <2>. QED
    BY <2>1, <2>2, <2>3, ApiStep, Begins
       DEF SignaturesStay, ConsoleInv, TabInv, ConsoleTypeOK, Reporting
<1>2. CASE Load(r) \/ Resimulate(r)
  <2>1. /\ Begin(r, "load") \/ Begin(r, "resimulate")
        /\ UNCHANGED <<view, asking, signed>>
        /\ SimulateRead(r, Shown) \/ StatusAsked(r, Shown)
    BY <1>2 DEF Load, Resimulate, tabVars
  <2>2. Next
    BY <2>1, ConsoleAssumption DEF Next, Simulate, Status
  <2>3. /\ UNCHANGED tableVars /\ pc'[r] \in {"simulate", "status"} /\ req'[r].act = Shown
        /\ \A q \in Requests \ {r} : pc'[q] = pc[q] /\ req'[q] = req[q]
    BY <2>1, QuestionBegins DEF ConsoleInv
  <2>. QED
    BY <2>1, <2>2, <2>3, ApiStep, Begins
       DEF SignaturesStay, ConsoleInv, TabInv, ConsoleTypeOK, Reporting
<1>3. CASE CheckReceipt(r)
  <2>1. /\ Begin(r, "check") /\ UNCHANGED <<view, asking, signed>> /\ view.hash # NoTx
        /\ view # NoView /\ ReportRead(r, Shown, Operation(Shown), view.hash)
    BY <1>3 DEF CheckReceipt, tabVars
  <2>2. view.hash \in TxHashes /\ Operation(Shown) \in Calls
    <3>1. plan[Shown] \in Plans
      BY <2>1, ConsoleAssumption DEF ConsoleInv, TabInv, ActionInv, TypeOK, Said, Says
    <3>. QED
      BY <2>1, <3>1, CallsAreBelow DEF ConsoleInv, TabInv, ConsoleTypeOK, View, Operation, CallCount
  <2>3. Next
    BY <2>1, <2>2, ConsoleAssumption DEF Next, Report
  <2>4. view.hash \in signed[Operation(Shown)]
    <3>1. view.hash = receipts[Shown][Operation(Shown)].hash
      BY <2>1 DEF ConsoleInv, TabInv, Said, Says, Operation, CallCount
    <3>. QED
      BY <2>1, <2>2, <3>1 DEF ConsoleInv, TabInv, HashGoesWithItsCall, Reported
  <2>5. /\ UNCHANGED tableVars /\ pc'[r] = "order"
        /\ req'[r].act = Shown /\ req'[r].call = Operation(Shown) /\ req'[r].hash = view.hash
        /\ \A q \in Requests \ {r} : pc'[q] = pc[q] /\ req'[q] = req[q]
    BY <2>1, ReportBegins DEF ConsoleInv
  <2>. QED
    BY <2>1, <2>3, <2>4, <2>5, ApiStep, Begins DEF SignaturesStay, ConsoleInv, TabInv, ConsoleTypeOK
<1>4. ASSUME NEW h \in TxHashes, WalletSigns(r, h) PROVE ConsoleInv'
  <2>1. /\ asking \in Calls /\ asking' = NoCall /\ Begin(r, "report") /\ UNCHANGED view
        /\ ReportRead(r, Shown, asking, h) /\ signed' = [signed EXCEPT ![asking] = @ \cup {h}]
    BY <1>4 DEF WalletSigns, ReportHash
  <2>2. Next
    BY <2>1, ConsoleAssumption DEF Next, Report
  <2>3. /\ UNCHANGED tableVars /\ pc'[r] = "order"
        /\ req'[r].act = Shown /\ req'[r].call = asking /\ req'[r].hash = h
        /\ \A q \in Requests \ {r} : pc'[q] = pc[q] /\ req'[q] = req[q]
    BY <2>1, ReportBegins DEF ConsoleInv
  <2>4. /\ signed' \in [Calls -> SUBSET TxHashes] /\ SignaturesStay /\ h \in signed'[asking]
    BY <2>1 DEF SignaturesStay, ConsoleInv, TabInv, ConsoleTypeOK
  <2>. QED
    BY <2>1, <2>2, <2>3, <2>4, ApiStep, Begins
<1>. QED
  BY <1>1, <1>2, <1>3, <1>4

\* The chain.
LEMMA EnvironmentKeeps == ConsoleInv /\ Environment => ConsoleInv'
<1>. SUFFICES ASSUME ConsoleInv, Environment PROVE ConsoleInv'
  OBVIOUS
<1>1. UNCHANGED <<view, asking, signed, purpose, answer>> /\ SignaturesStay
  BY DEF Environment, consoleVars, tabVars, SignaturesStay
<1>2. UNCHANGED <<tableVars, pc, req>>
  BY DEF Environment, NextBlock, Mine, MineAs, requestVars
<1>3. ActionInv'
  <2>1. CASE \E h \in TxHashes : Mine(h)
    BY <2>1, MineKeeps DEF ConsoleInv, Mine
  <2>2. CASE NextBlock
    BY <2>2, BlockKeeps DEF ConsoleInv
  <2>. QED
    BY <2>1, <2>2 DEF Environment
<1>4. NewestIsStored' /\ ConsoleTypeOK'
  BY <1>1, <1>2 DEF ConsoleInv, TabInv, NewestIsStored, ConsoleTypeOK, tableVars
<1>5. \A r \in Requests : RequestKnown(r)'
  BY <1>1, <1>2, RequestStays
<1>. QED
  BY <1>1, <1>2, <1>3, <1>4, <1>5, ShownStaysTrue, AskedStaysSimulated, HashesStay
     DEF ConsoleInv, TabInv

-----------------------------------------------------------------------------
(* Theorems                                                                 *)

LEMMA ConsoleInvHolds == ConsoleSpec => []ConsoleInv
<1>1. ConsoleInit => ConsoleInv
  <2>. SUFFICES ASSUME ConsoleInit PROVE ConsoleInv
    OBVIOUS
  <2>1. ActionInv /\ NewestIsStored
    BY InvInit DEF ConsoleInit, Init, NewestIsStored, NoSimulation
  <2>2. Reported(Shown) = {}
    BY ConsoleAssumption DEF ConsoleInit, Init, Reported, NoReceipt
  <2>3. ConsoleTypeOK /\ Said(view) /\ HashGoesWithItsCall /\ asking \notin Calls
    BY <2>2, CallsAreBelow DEF ConsoleInit, ConsoleTypeOK, Said, Says, HashGoesWithItsCall
  <2>4. \A r \in Requests : RequestKnown(r)
    BY DEF ConsoleInit, Init, RequestKnown, Waits, Reporting, Judges, Said, Says
  <2>. QED
    BY <2>1, <2>3, <2>4 DEF ConsoleInv, TabInv
<1>2. ConsoleInv /\ [ConsoleNext]_allVars => ConsoleInv'
  <2>. SUFFICES ASSUME ConsoleInv, [ConsoleNext]_allVars PROVE ConsoleInv'
    OBVIOUS
  <2>1. CASE UNCHANGED allVars
    <3>1. UNCHANGED vars /\ UNCHANGED <<view, asking, signed, purpose, answer>>
      BY <2>1 DEF allVars, consoleVars, tabVars
    <3>2. UNCHANGED simulated /\ SignaturesStay /\ ConsoleTypeOK'
      BY <3>1 DEF vars, tableVars, SignaturesStay, ConsoleInv, TabInv, ConsoleTypeOK
    <3>3. Said(view) /\ \A r \in Requests : RequestKnown(r)
      BY DEF ConsoleInv, TabInv
    <3>. QED
      BY <3>1, <3>2, <3>3, TabAlone DEF RequestKnown, ConsoleInv, TabInv
  <2>. QED
    BY <2>1, EnvironmentKeeps, TabKeeps, ServeKeeps, BeginningKeeps DEF ConsoleNext
<1>. QED
  BY <1>1, <1>2, PTL DEF ConsoleSpec

\* For all constants, what the tab shows, asks and remembers keeps its type: the answer of
\* one of its own requests, and never a call the action does not have.
THEOREM ConsoleTypeCorrect == ConsoleSpec => []ConsoleTypeOK
<1>1. ConsoleInv => ConsoleTypeOK
  BY DEF ConsoleInv, TabInv
<1>. QED
  BY <1>1, ConsoleInvHolds, PTL

\* However old the answer on the screen, and whatever other pages prepare: nobody is asked
\* to sign a call that was not simulated, or before the calls it relies on were reported.
THEOREM AskedInOrder == ConsoleSpec => []AsksInOrder
<1>1. ConsoleInv => AsksInOrder
  BY ConsoleAssumption DEF ConsoleInv, TabInv, ActionInv, Ordered, Before, AsksInOrder
<1>. QED
  BY <1>1, ConsoleInvHolds, PTL

\* Whatever reports cross, repeat or are lost, the hash on record for a call is one the
\* wallet returned for that call.
THEOREM HashesAreOfTheirCalls == ConsoleSpec => []HashGoesWithItsCall
<1>1. ConsoleInv => HashGoesWithItsCall
  BY DEF ConsoleInv, TabInv
<1>. QED
  BY <1>1, ConsoleInvHolds, PTL

\* Whichever of its answers arrive, and in whatever order: the screen never claims more
\* than was signed, recorded and executed.
THEOREM ScreenClaimsNoMore == ConsoleSpec => []ClaimsNoMore
<1>1. ConsoleInv => ClaimsNoMore
  <2>. SUFFICES ASSUME ConsoleInv, view # NoView
                PROVE  LET recorded == receipts[Shown][Operation(Shown)].hash
                       IN  /\ view.next <= Cardinality({i \in Calls : signed[i] # {}})
                           /\ view.hash # NoTx => view.hash = recorded
                           /\ view.status = "confirmed" =>
                                recorded # NoTx /\ mined[recorded] = "success"
    BY DEF ClaimsNoMore
  <2>. DEFINE recorded == receipts[Shown][Operation(Shown)].hash
              S == {i \in Calls : signed[i] # {}}
  <2>1. /\ plan[Shown] \in Plans /\ view \in View
        /\ \A j \in Calls : j < view.next => receipts[Shown][j].hash # NoTx
        /\ view.hash # NoTx => view.hash = recorded
        /\ view.status = "confirmed" => receipts[Shown][Operation(Shown)].outcome = "success"
    BY ConsoleAssumption DEF ConsoleInv, TabInv, ConsoleTypeOK, ActionInv, TypeOK, Said, Says,
       Operation, CallCount
  <2>2. Operation(Shown) \in Calls
    BY <2>1, CallsAreBelow DEF Operation, CallCount
  <2>3. view.status = "confirmed" => recorded # NoTx /\ mined[recorded] = "success"
    BY <2>1, <2>2, ConsoleAssumption DEF ConsoleInv, ActionInv, OutcomesAreMined
  <2>4. view.next \in Nat /\ 0..(view.next - 1) \subseteq Calls
    BY <2>1, CallsAreBelow DEF View
  <2>5. 0..(view.next - 1) \subseteq S
    BY <2>1, <2>4 DEF ConsoleInv, TabInv, HashGoesWithItsCall, Reported
  <2>6. IsFiniteSet(S)
    BY CallsAreBelow, FS_Subset
  <2>7. Cardinality(0..(view.next - 1)) = view.next
    BY <2>4, FS_Interval
  <2>8. Cardinality(0..(view.next - 1)) <= Cardinality(S)
    <3>. HIDE DEF S
    <3>. QED
      BY <2>5, <2>6, FS_Subset
  <2>9. view.next <= Cardinality(S)
    BY <2>7, <2>8
  <2>. QED
    BY <2>1, <2>3, <2>9
<1>. QED
  BY <1>1, ConsoleInvHolds, PTL

=============================================================================
