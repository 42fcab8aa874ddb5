------------------------ MODULE PreparedAction_proofs ------------------------
(****************************************************************************)
(* Theorems of PreparedAction, for any number of actions, of calls in a     *)
(* plan, of hashes and of requests at once.                                 *)
(*                                                                          *)
(* Most steps change one request and no table; four change a table.  What   *)
(* makes both kinds safe is what every request still knows to be true of    *)
(* the tables when it acts on what it read (Knows).                         *)
(****************************************************************************)
EXTENDS PreparedAction, FiniteSetTheorems, TLAPS

\* Every call below n was reported.
Before(a, n) == \A j \in Calls : j < n => j \in Reported(a)

\* The tables of an action: its calls are reported and simulated in order, the count is
\* no higher than they are, and an outcome is what became of its hash.
Ordered(a) ==
  /\ Reported(a) \subseteq IndicesOf(plan[a])
  /\ \A i \in Reported(a) : Before(a, i)
  /\ Before(a, sentCount[a])
  /\ \A i \in simulated[a] : Before(a, i)

OutcomesAreMined(a) ==
  \A i \in Calls :
    receipts[a][i].outcome # "none" =>
      /\ receipts[a][i].hash # NoTx
      /\ receipts[a][i].outcome = mined[receipts[a][i].hash]

Simulating == {"simulate", "refresh", "record", "append"}
Reporting == {"order", "insert", "count", "update", "observe", "confirm"}
Reading == {"status", "judge"}

\* What a request at some place knows of its action, though others run between its steps.
Knows(place, q) ==
  LET hash == receipts[q.act][q.call].hash
  IN  /\ place = "create" => q.plan \in Plans /\ q.simulation.call = 0
      /\ place \in Simulating \cup Reporting \cup Reading =>
           q.act \in Actions /\ plan[q.act] # <<>>
      /\ place \in Simulating \cup Reporting => q.call \in IndicesOf(plan[q.act])
      /\ place \in Reporting => q.hash \in TxHashes
      /\ place = "order" => Before(q.act, q.count)
      /\ place \in Simulating \cup {"insert", "count", "update"} => Before(q.act, q.call)
      /\ place \in {"record", "append"} => q.simulation.call = q.call
      /\ q.inserted => place \in {"count", "update"} /\ hash = NoTx
      /\ place \in {"count", "update"} /\ ~q.inserted => hash = q.hash
      /\ place = "update" =>
           /\ q.count <= CallCount(q.act)
           /\ \A j \in Calls : j < q.count => j \in Reported(q.act) \cup {q.call}
      /\ place \in {"observe", "confirm"} => hash = q.hash
      /\ place = "confirm" => mined[q.hash] # "none"

\* No two transactions under way insert the same call's receipt.
InsertsDiffer ==
  \A q, r \in Requests :
    q # r /\ req[q].inserted /\ req[r].inserted =>
      req[q].act # req[r].act \/ req[q].call # req[r].call

ActionInv ==
  /\ TypeOK
  /\ \A a \in Actions : Ordered(a) /\ OutcomesAreMined(a)
  /\ OutcomeIsTheOperations
  /\ \A r \in Requests : Knows(pc[r], req[r])
  /\ InsertsDiffer

-----------------------------------------------------------------------------
(* Calls and their numbers                                                  *)

\* Calls are numbered from zero, and every plan has one.
LEMMA CallsAre ==
  /\ Calls \subseteq Nat
  /\ 0 \in Calls
  /\ \A p \in Plans : Len(p) \in Nat /\ Len(p) > 0 /\ 0 \in IndicesOf(p)
                      /\ IndicesOf(p) \subseteq Calls
  /\ IndicesOf(<<>>) = {}
  /\ <<>> \notin Plans
<1>1. \A p \in Plans : Len(p) \in Nat /\ Len(p) > 0
  BY ActionAssumption
<1>2. Len(<<>>) = 0
  OBVIOUS
<1>3. \A p \in Plans : IndicesOf(p) \subseteq Nat /\ 0 \in IndicesOf(p)
  BY <1>1 DEF IndicesOf
<1>4. PICK p \in Plans : TRUE
  BY ActionAssumption
<1>5. \A q \in Plans : IndicesOf(q) \subseteq Calls
  BY DEF Calls
<1>6. Calls \subseteq Nat
  BY <1>3 DEF Calls
<1>. QED
  BY <1>1, <1>2, <1>3, <1>4, <1>5, <1>6 DEF IndicesOf

\* A set of calls that holds every call below one of its own is an interval, and its
\* size is where it ends.
LEMMA PrefixSize ==
  ASSUME NEW n \in Nat, NEW D, D \subseteq 0..(n - 1),
         \A i \in D : \A j \in Nat : j < i => j \in D
  PROVE  Cardinality(D) \in 0..n /\ D = 0..(Cardinality(D) - 1)
<1>1. IsFiniteSet(0..(n - 1)) /\ Cardinality(0..(n - 1)) = n
  BY FS_Interval
<1>2. IsFiniteSet(D) /\ Cardinality(D) <= n
  BY <1>1, FS_Subset
<1>3. Cardinality(D) \in Nat
  BY <1>2, FS_CardinalityType
<1>4. ASSUME NEW j \in 0..(Cardinality(D) - 1), j \notin D PROVE FALSE
  <2>1. j \in Nat /\ j < Cardinality(D)
    BY <1>3
  <2>2. D \subseteq 0..(j - 1)
    BY <1>4, <2>1
  <2>3. IsFiniteSet(0..(j - 1)) /\ Cardinality(0..(j - 1)) = j
    BY <2>1, FS_Interval
  <2>4. Cardinality(D) <= Cardinality(0..(j - 1))
    BY <2>2, <2>3, FS_Subset
  <2>. QED
    BY <1>3, <2>1, <2>3, <2>4
<1>5. ASSUME NEW i \in D PROVE i \in 0..(Cardinality(D) - 1)
  <2>1. i \in Nat
    OBVIOUS
  <2>2. 0..i \subseteq D
    BY <2>1
  <2>3. IsFiniteSet(0..i) /\ Cardinality(0..i) = i + 1
    BY <2>1, FS_Interval
  <2>4. i + 1 <= Cardinality(D)
    BY <1>2, <2>2, <2>3, FS_Subset
  <2>. QED
    BY <1>3, <2>1, <2>4
<1>6. Cardinality(D) \in 0..n
  BY <1>2, <1>3
<1>7. D \subseteq 0..(Cardinality(D) - 1)
  BY <1>5
<1>8. 0..(Cardinality(D) - 1) \subseteq D
  BY <1>4
<1>. QED
  BY <1>6, <1>7, <1>8

-----------------------------------------------------------------------------
(* The invariant                                                            *)

\* An empty database and idle requests.
LEMMA InvInit == Init => ActionInv
<1>. SUFFICES ASSUME Init PROVE ActionInv
  OBVIOUS
<1>1. NoSimulation \in Simulation /\ NoReceipt \in Receipt
  BY CallsAre, ActionAssumption DEF NoSimulation, Simulation, NoReceipt, Receipt
<1>2. NoRequest \in Carried
  BY <1>1, CallsAre DEF NoRequest, Carried
<1>3. \A a \in Actions : CallCount(a) = 0 /\ Reported(a) = {}
  BY DEF Init, CallCount, Reported, NoReceipt
<1>4. TypeOK
  BY <1>1, <1>2, <1>3, ActionAssumption DEF Init, TypeOK, Places
<1>5. \A a \in Actions : Ordered(a) /\ OutcomesAreMined(a)
  BY <1>3, CallsAre DEF Init, Ordered, OutcomesAreMined, Before, NoReceipt
<1>6. OutcomeIsTheOperations
  BY DEF Init, OutcomeIsTheOperations, Sent
<1>7. \A r \in Requests : Knows(pc[r], req[r])
  BY DEF Init, Knows, NoRequest, Simulating, Reporting, Reading
<1>8. InsertsDiffer
  BY DEF Init, InsertsDiffer, NoRequest
<1>. QED
  BY <1>4, <1>5, <1>6, <1>7, <1>8 DEF ActionInv

\* What the tables hold, but for who may have begun an attempt before the newest.
rows == <<status, plan, sentCount, simulated, newest, receipts>>

\* They stay as they are.
TablesStand ==
  /\ UNCHANGED <<block, mined, rows>>
  /\ begun' \in [Actions -> SUBSET Requests]

\* One request moves on, with what it then knows, and the tables stand.
LEMMA MovesOn ==
  ASSUME ActionInv, TablesStand, NEW r \in Requests,
         pc' \in [Requests -> Places], req' \in [Requests -> Carried],
         \A q \in Requests \ {r} : pc'[q] = pc[q] /\ req'[q] = req[q],
         Knows(pc'[r], req'[r]),
         req'[r].inserted =>
           \A q \in Requests \ {r} :
             req[q].inserted => req[q].act # req'[r].act \/ req[q].call # req'[r].call
  PROVE  ActionInv'
<1>. USE DEF TablesStand, rows
<1>1. TypeOK'
  BY DEF ActionInv, TypeOK, CallCount
<1>2. \A a \in Actions : Reported(a)' = Reported(a) /\ CallCount(a)' = CallCount(a)
                       /\ Operation(a)' = Operation(a)
  BY DEF Reported, CallCount, Operation
<1>3. \A a \in Actions : (Ordered(a) /\ OutcomesAreMined(a))'
  BY DEF ActionInv, Ordered, OutcomesAreMined, Before, Reported
<1>4. OutcomeIsTheOperations'
  BY <1>2 DEF ActionInv, OutcomeIsTheOperations
<1>5. ASSUME NEW q \in Requests PROVE Knows(pc[q], req[q])'
  <2>1. Knows(pc'[q], req'[q])
    BY DEF ActionInv
  <2>. QED
    BY <2>1 DEF Knows, Before, Reported, CallCount
<1>6. InsertsDiffer'
  BY DEF ActionInv, InsertsDiffer
<1>. QED
  BY <1>1, <1>3, <1>4, <1>5, <1>6 DEF ActionInv

\* The same when no table changes at all.
LEMMA Local ==
  ASSUME ActionInv, UNCHANGED <<chainVars, tableVars>>, NEW r \in Requests,
         pc' \in [Requests -> Places], req' \in [Requests -> Carried],
         \A q \in Requests \ {r} : pc'[q] = pc[q] /\ req'[q] = req[q],
         Knows(pc'[r], req'[r]),
         req'[r].inserted =>
           \A q \in Requests \ {r} :
             req[q].inserted => req[q].act # req'[r].act \/ req[q].call # req'[r].call
  PROVE  ActionInv'
<1>1. TablesStand
  BY DEF TablesStand, rows, ActionInv, TypeOK, chainVars, tableVars
<1>. QED
  BY <1>1, MovesOn

\* The same, for a move that says where to and what is carried.
LEMMA Move ==
  ASSUME ActionInv, UNCHANGED <<chainVars, tableVars>>, NEW r \in Requests,
         NEW place \in Places, NEW q \in Carried,
         Goto(r, place), req' = [req EXCEPT ![r] = q], Knows(place, q),
         q.inserted =>
           \A o \in Requests \ {r} :
             req[o].inserted => req[o].act # q.act \/ req[o].call # q.call
  PROVE  ActionInv'
<1>1. pc \in [Requests -> Places] /\ req \in [Requests -> Carried]
  BY DEF ActionInv, TypeOK
<1>2. pc' \in [Requests -> Places] /\ req' \in [Requests -> Carried]
  BY <1>1 DEF Goto
<1>3. pc'[r] = place /\ req'[r] = q
  BY <1>1 DEF Goto
<1>4. \A o \in Requests \ {r} : pc'[o] = pc[o] /\ req'[o] = req[o]
  BY <1>1 DEF Goto
<1>5. Knows(pc'[r], req'[r])
  BY <1>3
<1>. QED
  BY <1>2, <1>3, <1>4, <1>5, Local

\* What a request carries when it has none, or has its action alone.
LEMMA Carriers ==
  /\ NoRequest \in Carried /\ ~NoRequest.inserted
  /\ \A a \in Actions : [NoRequest EXCEPT !.act = a] \in Carried
<1>1. NoSimulation \in Simulation
  BY CallsAre, ActionAssumption DEF NoSimulation, Simulation
<1>. QED
  BY <1>1, CallsAre DEF NoRequest, Carried

\* A request ends.
LEMMA Ends ==
  ASSUME ActionInv, UNCHANGED <<chainVars, tableVars>>, NEW r \in Requests, EndRequest(r)
  PROVE  ActionInv'
<1>1. Knows("idle", NoRequest)
  BY DEF Knows, NoRequest, Simulating, Reporting, Reading
<1>2. "idle" \in Places
  BY DEF Places
<1>. QED
  BY <1>1, <1>2, Carriers, Move DEF EndRequest

\* A request ends, and its attempt with it.
LEMMA GivesUp ==
  ASSUME ActionInv, NEW r \in Requests, SimulateRefused(r) \/ RequestLost(r)
  PROVE  ActionInv'
<1>1. EndRequest(r)
  BY DEF SimulateRefused, RequestLost
<1>2. TablesStand
  BY DEF ActionInv, TypeOK, TablesStand, rows, SimulateRefused, RequestLost, Withdraw, chainVars
<1>3. Knows("idle", NoRequest) /\ "idle" \in Places
  BY DEF Knows, NoRequest, Simulating, Reporting, Reading, Places
<1>4. /\ pc' \in [Requests -> Places] /\ req' \in [Requests -> Carried]
      /\ pc'[r] = "idle" /\ req'[r] = NoRequest
      /\ \A q \in Requests \ {r} : pc'[q] = pc[q] /\ req'[q] = req[q]
  BY <1>1, <1>3, Carriers DEF ActionInv, TypeOK, EndRequest, Goto
<1>. QED
  BY <1>2, <1>3, <1>4, Carriers, MovesOn

\* A request that acted on its action goes on to read its status.
LEMMA GoesToStatus ==
  ASSUME ActionInv, UNCHANGED <<chainVars, tableVars>>, NEW r \in Requests,
         pc[r] \in Simulating \cup Reporting, ToStatus(r)
  PROVE  ActionInv'
<1>. DEFINE q == [NoRequest EXCEPT !.act = req[r].act]
<1>1. req[r].act \in Actions /\ plan[req[r].act] # <<>>
  BY DEF ActionInv, Knows
<1>2. q \in Carried /\ ~q.inserted /\ q.act = req[r].act
  BY <1>1, Carriers DEF NoRequest
<1>3. Knows("status", q)
  BY <1>1, <1>2 DEF Knows, Simulating, Reporting, Reading
<1>4. "status" \in Places
  BY DEF Places
<1>. HIDE DEF q
<1>5. Goto(r, "status") /\ req' = [req EXCEPT ![r] = q]
  BY DEF ToStatus, q
<1>. QED
  BY <1>2, <1>3, <1>4, <1>5, Move

-----------------------------------------------------------------------------
(* Steps that change no table                                               *)

\* The next call to simulate is after every reported call.
LEMMA NextIsAfter ==
  ASSUME ActionInv, NEW a \in Actions, NEW next \in NextCallsToSimulate(a)
  PROVE  next \in IndicesOf(plan[a]) /\ next \in Calls /\ Before(a, next) /\ plan[a] # <<>>
<1>1. next = sentCount[a] /\ next \in IndicesOf(plan[a])
  BY DEF NextCallsToSimulate
<1>2. plan[a] \in Plans
  BY <1>1, CallsAre DEF ActionInv, TypeOK
<1>. QED
  BY <1>1, <1>2, CallsAre DEF ActionInv, Ordered

\* A request begins with a call to simulate.
LEMMA BeginsSimulating ==
  ASSUME ActionInv, UNCHANGED <<chainVars, tableVars>>, NEW r \in Requests,
         pc[r] = "idle", NEW place \in {"simulate", "refresh"}, Goto(r, place),
         NEW a \in Actions, NEW next \in NextCallsToSimulate(a),
         req' = [req EXCEPT ![r].act = a, ![r].call = next]
  PROVE  ActionInv'
<1>. DEFINE q == [req[r] EXCEPT !.act = a, !.call = next]
<1>1. req \in [Requests -> Carried]
  BY DEF ActionInv, TypeOK
<1>2. q \in Carried /\ q.act = a /\ q.call = next /\ q.inserted = req[r].inserted
  BY <1>1, NextIsAfter DEF Carried
<1>3. ~req[r].inserted
  BY DEF ActionInv, Knows
<1>4. req' = [req EXCEPT ![r] = q]
  BY <1>1
<1>. HIDE DEF q
<1>5. Knows(place, q)
  BY <1>2, <1>3, NextIsAfter DEF Knows, Simulating, Reporting, Reading
<1>6. place \in Places
  BY DEF Places
<1>. QED
  BY <1>2, <1>3, <1>4, <1>5, <1>6, Move

\* A simulation of a call of an action, or of the first call of none yet.
LEMMA SimulationsAre ==
  ASSUME ActionInv, NEW i \in Calls, NEW s \in Simulations(i)
  PROVE  s \in Simulation /\ s.call = i
BY DEF ActionInv, TypeOK, Simulations, Simulation

\* No action stands under the digest: its first call is simulated.
LEMMA PrepareNewKeeps ==
  ASSUME ActionInv, NEW r \in Requests, NEW p \in Plans, PrepareNew(r, p)
  PROVE  ActionInv'
<1>1. PICK s \in Simulations(0) : req' = [req EXCEPT ![r].plan = p, ![r].simulation = s]
  BY DEF PrepareNew
<1>. DEFINE q == [req[r] EXCEPT !.plan = p, !.simulation = s]
<1>2. req \in [Requests -> Carried]
  BY DEF ActionInv, TypeOK
<1>3. s \in Simulation /\ s.call = 0
  BY CallsAre, SimulationsAre
<1>4. q \in Carried /\ q.plan = p /\ q.simulation = s /\ q.inserted = req[r].inserted
  BY <1>2, <1>3 DEF Carried
<1>5. ~req[r].inserted
  BY DEF ActionInv, Knows, PrepareNew
<1>6. req' = [req EXCEPT ![r] = q]
  BY <1>1, <1>2
<1>. HIDE DEF q
<1>7. Knows("create", q)
  BY <1>3, <1>4, <1>5 DEF Knows, Simulating, Reporting, Reading
<1>8. "create" \in Places
  BY DEF Places
<1>. QED
  BY <1>4, <1>5, <1>6, <1>7, <1>8, Move DEF PrepareNew

\* A call is simulated, and the attempt is of that call.
LEMMA SimulateRunKeeps ==
  ASSUME ActionInv, NEW r \in Requests, SimulateRun(r)
  PROVE  ActionInv'
<1>1. PICK s \in Simulations(req[r].call) : req' = [req EXCEPT ![r].simulation = s]
  BY DEF SimulateRun
<1>. DEFINE q == [req[r] EXCEPT !.simulation = s]
            place == IF pc[r] = "simulate" THEN "record" ELSE "append"
<1>2. req \in [Requests -> Carried] /\ req[r].call \in Calls
  BY DEF ActionInv, TypeOK, Carried
<1>3. s \in Simulation /\ s.call = req[r].call
  BY <1>2, SimulationsAre
<1>4. q \in Carried /\ q.act = req[r].act /\ q.call = req[r].call /\ q.simulation = s
      /\ q.inserted = req[r].inserted
  BY <1>2, <1>3 DEF Carried
<1>5. req' = [req EXCEPT ![r] = q]
  BY <1>1, <1>2
<1>6. Knows(pc[r], req[r]) /\ pc[r] \in {"simulate", "refresh"}
  BY DEF ActionInv, SimulateRun
<1>. HIDE DEF q
<1>7. Knows(place, q) /\ ~q.inserted
  BY <1>3, <1>4, <1>6 DEF Knows, Simulating, Reporting, Reading
<1>8. place \in Places /\ Goto(r, place)
  BY DEF Places, SimulateRun
<1>. QED
  BY <1>4, <1>5, <1>7, <1>8, Move DEF SimulateRun

\* A report begins.
LEMMA ReportReadKeeps ==
  ASSUME ActionInv, NEW r \in Requests, NEW a \in Actions, NEW i \in Calls, NEW h \in TxHashes,
         ReportRead(r, a, i, h)
  PROVE  ActionInv'
<1>. DEFINE q == [req[r] EXCEPT !.act = a, !.call = i, !.hash = h, !.count = sentCount[a]]
<1>1. req \in [Requests -> Carried] /\ sentCount[a] \in Nat
  BY DEF ActionInv, TypeOK
<1>2. q \in Carried /\ q.act = a /\ q.call = i /\ q.hash = h /\ q.count = sentCount[a]
      /\ q.inserted = req[r].inserted
  BY <1>1 DEF Carried
<1>3. ~req[r].inserted
  BY DEF ActionInv, Knows, ReportRead
<1>4. req' = [req EXCEPT ![r] = q]
  BY <1>1 DEF ReportRead
<1>5. plan[a] # <<>> /\ i \in IndicesOf(plan[a]) /\ Before(a, sentCount[a])
  BY CallsAre DEF ActionInv, Ordered, ReportRead
<1>. HIDE DEF q
<1>6. Knows("order", q)
  BY <1>2, <1>3, <1>5 DEF Knows, Simulating, Reporting, Reading
<1>7. "order" \in Places
  BY DEF Places
<1>. QED
  BY <1>2, <1>3, <1>4, <1>6, <1>7, Move DEF ReportRead

\* A report that asks nothing out of order goes on: the calls before its own were reported,
\* because its own was, or because it is the count.
LEMMA ReportOrderKeeps ==
  ASSUME ActionInv, NEW r \in Requests, ReportOrder(r)
  PROVE  ActionInv'
<1>1. CASE ~InOrder(r)
  BY <1>1, Ends DEF ReportOrder
<1>2. CASE InOrder(r)
  <2>1. req \in [Requests -> Carried] /\ Knows("order", req[r]) /\ req[r].act \in Actions
    BY DEF ActionInv, TypeOK, ReportOrder, Knows, Reporting
  <2>2. Before(req[r].act, req[r].call)
    BY <1>2, <2>1 DEF ActionInv, Ordered, InOrder, Knows
  <2>3. Knows("insert", req[r]) /\ ~req[r].inserted
    BY <2>1, <2>2 DEF Knows, Simulating, Reporting, Reading
  <2>4. "insert" \in Places /\ req' = [req EXCEPT ![r] = req[r]] /\ Goto(r, "insert")
    BY <1>2, <2>1 DEF Places, ReportOrder
  <2>. QED
    BY <2>1, <2>3, <2>4, Move DEF ReportOrder
<1>. QED
  BY <1>1, <1>2

\* The first statement of recordSubmission: a row nobody else holds, or the row that is
\* there, or no row.
LEMMA ReportInsertKeeps ==
  ASSUME ActionInv, NEW r \in Requests, ReportInsert(r)
  PROVE  ActionInv'
<1>. DEFINE old == receipts[req[r].act][req[r].call].hash
            q == [req[r] EXCEPT !.inserted = TRUE]
<1>1. req \in [Requests -> Carried] /\ Knows("insert", req[r])
  BY DEF ActionInv, TypeOK, ReportInsert
<1>2. ~req[r].inserted /\ req[r] \in Carried
  BY <1>1 DEF Knows
<1>3. "count" \in Places /\ UNCHANGED <<chainVars, tableVars>>
  BY DEF Places, ReportInsert
<1>4. CASE old = NoTx /\ req' = [req EXCEPT ![r].inserted = TRUE] /\ Goto(r, "count")
  <2>1. q \in Carried /\ q.act = req[r].act /\ q.call = req[r].call /\ q.hash = req[r].hash
        /\ q.inserted
    BY <1>2 DEF Carried
  <2>2. req' = [req EXCEPT ![r] = q]
    BY <1>1, <1>4
  <2>. HIDE DEF q
  <2>3. Knows("count", q)
    BY <1>1, <1>4, <2>1 DEF Knows, Simulating, Reporting, Reading
  <2>4. \A o \in Requests \ {r} :
          req[o].inserted => req[o].act # q.act \/ req[o].call # q.call
    BY <2>1 DEF ReportInsert, Contends
  <2>. QED
    BY <1>3, <1>4, <2>1, <2>2, <2>3, <2>4, Move
<1>5. CASE old = req[r].hash /\ UNCHANGED req /\ Goto(r, "count")
  <2>1. Knows("count", req[r])
    BY <1>1, <1>2, <1>5 DEF Knows, Simulating, Reporting, Reading
  <2>2. req' = [req EXCEPT ![r] = req[r]]
    BY <1>1, <1>5
  <2>. QED
    BY <1>2, <1>3, <1>5, <2>1, <2>2, Move
<1>6. CASE EndRequest(r)
  BY <1>3, <1>6, Ends
<1>. QED
  BY <1>4, <1>5, <1>6 DEF ReportInsert

\* The second: the receipts it sees, its own included, are the calls below their number.
LEMMA ReportCountKeeps ==
  ASSUME ActionInv, NEW r \in Requests, ReportCount(r)
  PROVE  ActionInv'
<1>. DEFINE a == req[r].act
            D == Reported(a) \cup {req[r].call}
            q == [req[r] EXCEPT !.count = Cardinality(D)]
<1>1. req \in [Requests -> Carried] /\ Knows("count", req[r]) /\ req[r] \in Carried
  BY DEF ActionInv, TypeOK, ReportCount
<1>2. a \in Actions /\ req[r].call \in IndicesOf(plan[a]) /\ Before(a, req[r].call)
      /\ plan[a] # <<>>
  BY <1>1 DEF Knows, Reporting
<1>3. plan[a] \in Plans /\ CallCount(a) \in Nat
  BY <1>2, CallsAre DEF ActionInv, TypeOK, CallCount
<1>4. D \subseteq 0..(CallCount(a) - 1)
  BY <1>2 DEF ActionInv, Ordered, IndicesOf, CallCount
<1>5. \A i \in D : \A j \in Nat : j < i => j \in D
  <2>1. SUFFICES ASSUME NEW i \in D, NEW j \in Nat, j < i PROVE j \in D
    OBVIOUS
  <2>2. j \in Calls
    BY <1>3, <1>4, <2>1, CallsAre DEF IndicesOf, CallCount
  <2>3. Before(a, i)
    BY <1>2 DEF ActionInv, Ordered
  <2>. QED
    BY <2>1, <2>2, <2>3 DEF Before
<1>6. Cardinality(D) \in 0..CallCount(a) /\ D = 0..(Cardinality(D) - 1)
  BY <1>3, <1>4, <1>5, PrefixSize
<1>7. q \in Carried /\ q.count = Cardinality(D) /\ q.act = a /\ q.call = req[r].call
      /\ q.hash = req[r].hash /\ q.inserted = req[r].inserted
  BY <1>1, <1>3, <1>6 DEF Carried
<1>8. req' = [req EXCEPT ![r] = q]
  BY <1>1 DEF ReportCount
<1>9. ASSUME NEW j \in Calls, j < q.count PROVE j \in D
  <2>1. j \in 0..(Cardinality(D) - 1)
    BY <1>3, <1>6, <1>7, <1>9, CallsAre
  <2>. QED
    BY <1>6, <2>1
<1>10. q.count <= CallCount(a)
  BY <1>3, <1>6, <1>7
<1>. HIDE DEF q
<1>11. Knows("update", q)
  <2>1. q.count <= CallCount(q.act)
        /\ \A j \in Calls : j < q.count => j \in Reported(q.act) \cup {q.call}
    BY <1>7, <1>9, <1>10
  <2>. QED
    BY <1>1, <1>7, <2>1 DEF Knows, Simulating, Reporting, Reading
<1>12. "update" \in Places
  BY DEF Places
<1>13. q.inserted =>
         \A o \in Requests \ {r} :
           req[o].inserted => req[o].act # q.act \/ req[o].call # q.call
  BY <1>7 DEF ActionInv, InsertsDiffer
<1>. QED
  BY <1>7, <1>8, <1>11, <1>12, <1>13, Move DEF ReportCount

\* A reported call is observed.
LEMMA ObserveKeeps ==
  ASSUME ActionInv, NEW r \in Requests,
         ObserveSettled(r) \/ ObserveUnmined(r) \/ ObserveMined(r)
  PROVE  ActionInv'
<1>1. pc[r] = "observe" /\ UNCHANGED <<chainVars, tableVars>>
  BY DEF ObserveSettled, ObserveUnmined, ObserveMined
<1>2. CASE ToStatus(r)
  BY <1>1, <1>2, GoesToStatus DEF Reporting
<1>3. CASE mined[req[r].hash] # "none" /\ Goto(r, "confirm") /\ UNCHANGED req
  <2>1. req \in [Requests -> Carried] /\ Knows("observe", req[r]) /\ req[r] \in Carried
    BY <1>1 DEF ActionInv, TypeOK
  <2>2. Knows("confirm", req[r]) /\ ~req[r].inserted
    BY <1>3, <2>1 DEF Knows, Simulating, Reporting, Reading
  <2>3. "confirm" \in Places /\ req' = [req EXCEPT ![r] = req[r]]
    BY <1>3, <2>1 DEF Places
  <2>. QED
    BY <1>1, <1>3, <2>1, <2>2, <2>3, Move
<1>. QED
  BY <1>2, <1>3 DEF ObserveSettled, ObserveUnmined, ObserveMined

\* The status is asked for, and read.
LEMMA StatusKeeps ==
  ASSUME ActionInv, NEW r \in Requests,
         (\E a \in Actions : StatusAsked(r, a)) \/ StatusRead(r) \/ StatusJudge(r)
  PROVE  ActionInv'
<1>1. req \in [Requests -> Carried] /\ req[r] \in Carried
  BY DEF ActionInv, TypeOK
<1>2. ASSUME NEW a \in Actions, StatusAsked(r, a) PROVE ActionInv'
  <2>. DEFINE q == [req[r] EXCEPT !.act = a]
  <2>1. q \in Carried /\ q.act = a /\ q.inserted = req[r].inserted /\ req' = [req EXCEPT ![r] = q]
    BY <1>1, <1>2 DEF Carried, StatusAsked
  <2>2. ~req[r].inserted /\ plan[a] # <<>>
    BY <1>2 DEF ActionInv, TypeOK, Knows, StatusAsked
  <2>. HIDE DEF q
  <2>3. Knows("status", q) /\ "status" \in Places
    BY <2>1, <2>2 DEF Knows, Simulating, Reporting, Reading, Places
  <2>. QED
    BY <1>2, <2>1, <2>2, <2>3, Move DEF StatusAsked
<1>3. CASE StatusRead(r) /\ status[req[r].act] \in Live
  <2>. DEFINE q == [req[r] EXCEPT !.count = sentCount[req[r].act]]
  <2>1. Knows("status", req[r])
    BY <1>3 DEF ActionInv, StatusRead
  <2>2. sentCount[req[r].act] \in Nat
    BY <2>1 DEF ActionInv, TypeOK, Knows, Reading
  <2>3. q \in Carried /\ q.act = req[r].act /\ q.inserted = req[r].inserted
        /\ req' = [req EXCEPT ![r] = q]
    BY <1>1, <1>3, <2>2 DEF Carried, StatusRead
  <2>. HIDE DEF q
  <2>4. Knows("judge", q) /\ ~q.inserted /\ "judge" \in Places
    BY <2>1, <2>3 DEF Knows, Simulating, Reporting, Reading, Places
  <2>. QED
    BY <1>3, <2>3, <2>4, Move DEF StatusRead
<1>4. CASE StatusRead(r) /\ status[req[r].act] \notin Live
  BY <1>4, Ends DEF StatusRead
<1>5. CASE StatusJudge(r)
  BY <1>5, Ends DEF StatusJudge
<1>. QED
  BY <1>2, <1>3, <1>4, <1>5

\* Every step of a request that leaves the tables as they are, but for who has begun.
LEMMA LocalSteps ==
  ASSUME ActionInv, NEW r \in Requests,
         \/ \E p \in Plans : PrepareLive(r, p) \/ PrepareNew(r, p)
         \/ PrepareServed(r)
         \/ \E a \in Actions : SimulateRead(r, a)
         \/ SimulateRun(r) \/ SimulateRefused(r)
         \/ \E a \in Actions, i \in Calls, h \in TxHashes : ReportRead(r, a, i, h)
         \/ ReportOrder(r) \/ ReportInsert(r) \/ ReportCount(r) \/ ReportRefused(r)
         \/ ObserveSettled(r) \/ ObserveUnmined(r) \/ ObserveMined(r)
         \/ Status(r) \/ RequestLost(r)
  PROVE  ActionInv'
<1>1. ASSUME NEW p \in Plans, PrepareLive(r, p) PROVE ActionInv'
  <2>1. PICK a \in LiveActions(p) :
          \E next \in NextCallsToSimulate(a) \ simulated[a] :
            req' = [req EXCEPT ![r].act = a, ![r].call = next]
    BY <1>1 DEF PrepareLive
  <2>2. PICK next \in NextCallsToSimulate(a) :
          req' = [req EXCEPT ![r].act = a, ![r].call = next]
    BY <2>1
  <2>. QED
    BY <1>1, <2>1, <2>2, BeginsSimulating DEF PrepareLive, LiveActions
<1>2. ASSUME NEW a \in Actions, SimulateRead(r, a) PROVE ActionInv'
  <2>1. PICK next \in NextCallsToSimulate(a) : req' = [req EXCEPT ![r].act = a, ![r].call = next]
    BY <1>2 DEF SimulateRead
  <2>. QED
    BY <1>2, <2>1, BeginsSimulating DEF SimulateRead
<1>3. CASE PrepareServed(r) \/ ReportRefused(r)
  BY <1>3, Ends DEF PrepareServed, ReportRefused
<1>4. CASE Status(r)
  BY <1>4, StatusKeeps DEF Status
<1>. QED
  BY <1>1, <1>2, <1>3, <1>4, GivesUp, PrepareNewKeeps, SimulateRunKeeps, ReportReadKeeps,
     ReportOrderKeeps, ReportInsertKeeps, ReportCountKeeps, ObserveKeeps

-----------------------------------------------------------------------------
(* Steps that change a table                                                *)

\* What a request knows outlasts another's write: plans stay, reports add up, what was
\* mined stays mined, and no receipt that a request relies on is changed.
LEMMA OthersKnow ==
  ASSUME NEW q \in Requests, pc'[q] = pc[q], req'[q] = req[q], Knows(pc[q], req[q]),
         \A a \in Actions : plan[a] # <<>> => plan'[a] = plan[a],
         \A a \in Actions : Reported(a) \subseteq Reported(a)',
         \A h \in TxHashes : mined[h] # "none" => mined'[h] = mined[h],
         req[q].inserted \/ pc[q] \in {"count", "update", "observe", "confirm"} =>
           receipts'[req[q].act][req[q].call].hash = receipts[req[q].act][req[q].call].hash
  PROVE  Knows(pc[q], req[q])'
<1>. DEFINE place == pc[q]
            c == req[q]
<1>1. place = "create" => c.plan \in Plans /\ c.simulation.call = 0
  BY DEF Knows
<1>2. ASSUME place \in Simulating \cup Reporting \cup Reading
      PROVE  c.act \in Actions /\ plan[c.act] # <<>> /\ plan'[c.act] = plan[c.act]
             /\ CallCount(c.act)' = CallCount(c.act) /\ Reported(c.act) \subseteq Reported(c.act)'
  <2>1. c.act \in Actions /\ plan[c.act] # <<>>
    BY <1>2 DEF Knows
  <2>. QED
    BY <2>1 DEF CallCount
<1>3. ASSUME place \in Simulating \cup Reporting
      PROVE  c.call \in IndicesOf(plan'[c.act])
  BY <1>2, <1>3 DEF Knows
<1>4. ASSUME place = "order" PROVE Before(c.act, c.count)'
  BY <1>2, <1>4 DEF Knows, Before, Reporting
<1>5. ASSUME place \in Simulating \cup {"insert", "count", "update"} PROVE Before(c.act, c.call)'
  BY <1>2, <1>5 DEF Knows, Before, Reporting
<1>6. ASSUME place = "update"
      PROVE  /\ c.count <= CallCount(c.act)'
             /\ \A j \in Calls : j < c.count => j \in Reported(c.act)' \cup {c.call}
  BY <1>2, <1>6 DEF Knows, Reporting
<1>7. place = "confirm" => mined'[c.hash] # "none"
  BY DEF Knows, Reporting
<1>. QED
  BY <1>1, <1>2, <1>3, <1>4, <1>5, <1>6, <1>7 DEF Knows, Simulating, Reporting, Reading

\* A transaction is mined: no receipt had its outcome.
LEMMA MineKeeps ==
  ASSUME ActionInv, NEW h \in TxHashes, NEW outcome \in {"success", "reverted"},
         MineAs(h, outcome)
  PROVE  ActionInv'
<1>1. mined \in [TxHashes -> {"none", "success", "reverted"}]
  BY DEF ActionInv, TypeOK
<1>2. /\ mined' \in [TxHashes -> {"none", "success", "reverted"}]
      /\ \A k \in TxHashes : mined[k] # "none" => mined'[k] = mined[k]
      /\ UNCHANGED <<block, tableVars, requestVars>>
  BY <1>1 DEF MineAs
<1>3. TypeOK'
  BY <1>2 DEF ActionInv, TypeOK, tableVars, requestVars, CallCount
<1>4. \A a \in Actions : Reported(a)' = Reported(a) /\ Operation(a)' = Operation(a)
  BY <1>2 DEF tableVars, Reported, Operation, CallCount
<1>5. ASSUME NEW a \in Actions PROVE Ordered(a)' /\ OutcomesAreMined(a)'
  <2>1. receipts[a] \in [Calls -> Receipt]
    BY DEF ActionInv, TypeOK
  <2>2. Ordered(a)'
    BY <1>2, <1>4 DEF ActionInv, Ordered, Before, tableVars
  <2>. QED
    BY <1>2, <2>1, <2>2 DEF ActionInv, OutcomesAreMined, tableVars, Receipt
<1>6. OutcomeIsTheOperations'
  BY <1>2, <1>4 DEF ActionInv, OutcomeIsTheOperations, tableVars
<1>7. \A q \in Requests : Knows(pc[q], req[q])'
  BY <1>2, <1>4, OthersKnow DEF ActionInv, tableVars, requestVars
<1>8. InsertsDiffer'
  BY <1>2 DEF ActionInv, InsertsDiffer, requestVars
<1>. QED
  BY <1>3, <1>5, <1>6, <1>7, <1>8 DEF ActionInv

\* Blocks pass, and nothing that is stored or carried is about the head.
LEMMA BlockKeeps ==
  ASSUME ActionInv, NextBlock
  PROVE  ActionInv'
<1>1. /\ UNCHANGED <<mined, status, plan, sentCount, simulated, newest, begun, receipts, pc, req>>
      /\ block' \in 0..LastBlock
  BY ActionAssumption DEF NextBlock, tableVars, requestVars, ActionInv, TypeOK
<1>2. TypeOK' /\ OutcomeIsTheOperations' /\ InsertsDiffer'
  BY <1>1 DEF ActionInv, TypeOK, OutcomeIsTheOperations, InsertsDiffer, Reported,
     CallCount, Operation
<1>3. \A a \in Actions : (Ordered(a) /\ OutcomesAreMined(a))'
  BY <1>1 DEF ActionInv, Ordered, OutcomesAreMined, Before, Reported
<1>4. ASSUME NEW r \in Requests PROVE Knows(pc[r], req[r])'
  <2>1. Knows(pc[r], req[r])
    BY DEF ActionInv
  <2>. QED
    BY <1>1, <2>1 DEF Knows, Before, Reported, CallCount
<1>. QED
  BY <1>2, <1>3, <1>4 DEF ActionInv

\* A new action: nobody knew its id, and it has no report.
LEMMA PrepareCreateKeeps ==
  ASSUME ActionInv, NEW r \in Requests, PrepareCreate(r)
  PROVE  ActionInv'
<1>1. PICK a \in Actions :
        /\ status[a] = "absent"
        /\ plan' = [plan EXCEPT ![a] = req[r].plan]
        /\ status' = [status EXCEPT ![a] = "simulated"]
        /\ simulated' = [simulated EXCEPT ![a] = {0}]
        /\ newest' = [newest EXCEPT ![a] = req[r].simulation]
  BY DEF PrepareCreate
<1>2. TypeOK /\ EndRequest(r) /\ UNCHANGED <<chainVars, sentCount, begun, receipts>>
  BY DEF ActionInv, PrepareCreate
<1>3. req[r].plan \in Plans /\ req[r].simulation \in Simulation
  BY DEF ActionInv, TypeOK, Carried, Knows, PrepareCreate
<1>4. plan[a] = <<>> /\ Reported(a) = {} /\ sentCount[a] = 0
  <2>1. plan[a] = <<>>
    BY <1>1, <1>2 DEF TypeOK
  <2>2. Reported(a) = {}
    BY <2>1, CallsAre DEF ActionInv, Ordered
  <2>3. sentCount[a] \in Nat /\ sentCount[a] <= 0
    BY <1>2, <2>1 DEF TypeOK, CallCount
  <2>. QED
    BY <2>1, <2>2, <2>3
<1>5. \A b \in Actions : Reported(b)' = Reported(b)
  BY <1>2 DEF Reported
<1>6. TypeOK'
  <2>1. plan' \in [Actions -> Plans \cup {<<>>}]
        /\ status' \in [Actions -> {"absent"} \cup Live \cup Sent]
        /\ simulated' \in [Actions -> SUBSET Calls] /\ newest' \in [Actions -> Simulation]
    BY <1>1, <1>2, <1>3, CallsAre DEF TypeOK, Live
  <2>2. \A b \in Actions : status'[b] = "absent" <=> plan'[b] = <<>>
    BY <1>1, <1>2, <1>3, CallsAre DEF TypeOK
  <2>3. \A b \in Actions : sentCount[b] <= CallCount(b)'
    BY <1>1, <1>2, <1>3, <1>4, CallsAre DEF TypeOK, CallCount
  <2>4. pc' \in [Requests -> Places] /\ req' \in [Requests -> Carried]
    BY <1>2, Carriers DEF TypeOK, EndRequest, Goto, Places
  <2>. QED
    BY <1>2, <2>1, <2>2, <2>3, <2>4 DEF TypeOK, chainVars
<1>7. ASSUME NEW b \in Actions PROVE Ordered(b)' /\ OutcomesAreMined(b)'
  <2>1. OutcomesAreMined(b)'
    BY <1>2 DEF ActionInv, OutcomesAreMined, chainVars
  <2>2. CASE b = a
    <3>1. Reported(a)' = {} /\ sentCount'[a] = 0 /\ simulated'[a] = {0}
      BY <1>1, <1>2, <1>4, <1>5 DEF TypeOK
    <3>2. \A j \in Calls : ~(j < 0)
      BY CallsAre
    <3>. QED
      BY <2>1, <2>2, <3>1, <3>2 DEF Ordered, Before
  <2>3. CASE b # a
    BY <1>1, <1>2, <1>5, <2>1, <2>3 DEF ActionInv, TypeOK, Ordered, Before
  <2>. QED
    BY <2>2, <2>3
<1>8. OutcomeIsTheOperations'
  BY <1>1, <1>2, <1>5 DEF ActionInv, TypeOK, OutcomeIsTheOperations, Operation, CallCount, Sent
<1>9. ASSUME NEW q \in Requests PROVE Knows(pc[q], req[q])'
  <2>1. CASE q = r
    BY <1>2, <2>1 DEF TypeOK, EndRequest, Goto, Knows, NoRequest, Simulating, Reporting, Reading
  <2>2. CASE q # r
    <3>1. pc'[q] = pc[q] /\ req'[q] = req[q]
      BY <1>2, <2>2 DEF TypeOK, EndRequest, Goto
    <3>2. \A b \in Actions : plan[b] # <<>> => plan'[b] = plan[b]
      BY <1>1, <1>2, <1>4 DEF TypeOK
    <3>. QED
      BY <1>2, <1>5, <3>1, <3>2, OthersKnow DEF ActionInv, chainVars
  <2>. QED
    BY <2>1, <2>2
<1>10. InsertsDiffer'
  BY <1>2, Carriers DEF ActionInv, TypeOK, InsertsDiffer, EndRequest
<1>. QED
  BY <1>6, <1>7, <1>8, <1>9, <1>10 DEF ActionInv

\* After a step, a request is idle, or has an action and reads its status.
LEMMA Leaves ==
  ASSUME TypeOK, NEW r \in Requests, EndRequest(r) \/ ToStatus(r),
         ToStatus(r) => req[r].act \in Actions /\ plan'[req[r].act] # <<>>
  PROVE  /\ pc' \in [Requests -> Places] /\ req' \in [Requests -> Carried]
         /\ \A q \in Requests \ {r} : pc'[q] = pc[q] /\ req'[q] = req[q]
         /\ ~req'[r].inserted
         /\ Knows(pc[r], req[r])'
<1>1. CASE EndRequest(r)
  BY <1>1, Carriers DEF TypeOK, EndRequest, Goto, Places, Knows, NoRequest, Simulating,
     Reporting, Reading
<1>2. CASE ToStatus(r)
  <2>. DEFINE q == [NoRequest EXCEPT !.act = req[r].act]
  <2>1. q \in Carried /\ ~q.inserted /\ q.act = req[r].act
    BY <1>2, Carriers DEF NoRequest
  <2>. HIDE DEF q
  <2>2. Goto(r, "status") /\ req' = [req EXCEPT ![r] = q]
    BY <1>2 DEF ToStatus, q
  <2>3. pc'[r] = "status" /\ req'[r] = q
    BY <2>2 DEF TypeOK, Goto
  <2>4. Knows(pc[r], req[r])'
    BY <1>2, <2>1, <2>3 DEF Knows, Simulating, Reporting, Reading
  <2>. QED
    BY <2>1, <2>2, <2>3, <2>4 DEF TypeOK, Goto, Places
<1>. QED
  BY <1>1, <1>2

\* An attempt is recorded: it is of a call whose predecessors were reported.
LEMMA SimulateRecordKeeps ==
  ASSUME ActionInv, NEW r \in Requests, SimulateRecord(r)
  PROVE  ActionInv'
<1>. DEFINE a == req[r].act
            s == req[r].simulation
<1>1. TypeOK /\ UNCHANGED <<chainVars, plan, sentCount, receipts>>
      /\ (EndRequest(r) \/ ToStatus(r)) /\ RecordSimulation(r)
  BY DEF ActionInv, SimulateRecord, ToStatus
<1>2. /\ a \in Actions /\ plan[a] # <<>> /\ s \in Simulation
      /\ s.call \in IndicesOf(plan[a]) /\ Before(a, s.call)
  BY DEF ActionInv, TypeOK, Carried, Knows, Simulating, SimulateRecord
<1>3. s.call \in Calls
  BY <1>2 DEF Simulation
<1>4. \A b \in Actions : Reported(b)' = Reported(b) /\ CallCount(b)' = CallCount(b)
  BY <1>1 DEF Reported, CallCount
<1>5. /\ pc' \in [Requests -> Places] /\ req' \in [Requests -> Carried]
      /\ \A q \in Requests \ {r} : pc'[q] = pc[q] /\ req'[q] = req[q]
      /\ ~req'[r].inserted
      /\ Knows(pc[r], req[r])'
  BY <1>1, <1>2, Leaves
<1>6. TypeOK'
  <2>1. status' \in [Actions -> {"absent"} \cup Live \cup Sent]
        /\ simulated' \in [Actions -> SUBSET Calls]
    BY <1>1, <1>2, <1>3 DEF TypeOK, RecordSimulation, Live
  <2>3. newest' \in [Actions -> Simulation] /\ begun' \in [Actions -> SUBSET Requests]
    <3>1. /\ newest' = [newest EXCEPT ![req[r].act] = req[r].simulation] \/ newest' = newest
          /\ \/ begun' = [begun EXCEPT ![req[r].act] = Recording(req[r].act) \ {r}]
             \/ begun' = [b \in Actions |-> begun[b] \ {r}]
      BY <1>1 DEF RecordSimulation, Withdraw
    <3>2. Recording(req[r].act) \subseteq Requests
      BY DEF Recording
    <3>. QED
      BY <1>1, <1>2, <3>1, <3>2 DEF TypeOK
  <2>2. \A b \in Actions : status'[b] = "absent" <=> plan'[b] = <<>>
    BY <1>1, <1>2 DEF TypeOK, RecordSimulation
  <2>. QED
    BY <1>1, <1>4, <1>5, <2>1, <2>2, <2>3 DEF TypeOK, chainVars
<1>7. ASSUME NEW b \in Actions PROVE Ordered(b)' /\ OutcomesAreMined(b)'
  <2>1. simulated'[b] = IF b = req[r].act THEN simulated[b] \cup {req[r].simulation.call}
                                          ELSE simulated[b]
    BY <1>1, <1>2 DEF TypeOK, RecordSimulation
  <2>2. \A i \in simulated'[b] : Before(b, i)
    BY <1>2, <2>1 DEF ActionInv, Ordered
  <2>3. Ordered(b)'
    BY <1>1, <1>4, <2>2 DEF ActionInv, Ordered, Before
  <2>4. OutcomesAreMined(b)'
    BY <1>1 DEF ActionInv, OutcomesAreMined, chainVars
  <2>. QED
    BY <2>3, <2>4
<1>8. OutcomeIsTheOperations'
  BY <1>1, <1>2, <1>4 DEF ActionInv, TypeOK, OutcomeIsTheOperations, Operation,
     RecordSimulation, Sent
<1>9. ASSUME NEW q \in Requests \ {r} PROVE Knows(pc[q], req[q])'
  BY <1>1, <1>4, <1>5, OthersKnow DEF ActionInv, chainVars
<1>10. InsertsDiffer'
  BY <1>5 DEF ActionInv, InsertsDiffer
<1>. QED
  BY <1>5, <1>6, <1>7, <1>8, <1>9, <1>10 DEF ActionInv

\* The commit of a report.  The count it writes is of a moment ago, and still no higher
\* than the calls reported since.
LEMMA ReportUpdateKeeps ==
  ASSUME ActionInv, NEW r \in Requests, ReportUpdate(r)
  PROVE  ActionInv'
<1>0. PICK a, i, n, h : a = req[r].act /\ i = req[r].call /\ n = req[r].count /\ h = req[r].hash
  OBVIOUS
<1>. DEFINE q == [req[r] EXCEPT !.inserted = FALSE, !.count = 0]
<1>1. /\ TypeOK /\ UNCHANGED <<chainVars, plan, simulated, newest, begun>>
      /\ Knows("update", req[r]) /\ req[r] \in Carried
      /\ receipts' = IF req[r].inserted
                       THEN [receipts EXCEPT ![a][i].hash = h] ELSE receipts
      /\ sentCount' = [sentCount EXCEPT ![a] = n]
      /\ status' = [status EXCEPT ![a] = StatusFor(a, n)]
  BY <1>0 DEF ActionInv, TypeOK, ReportUpdate
<1>2. /\ a \in Actions /\ plan[a] \in Plans /\ i \in IndicesOf(plan[a]) /\ i \in Calls
      /\ h \in TxHashes /\ Before(a, i)
      /\ n \in Nat /\ n <= CallCount(a)
      /\ \A j \in Calls : j < n => j \in Reported(a) \cup {i}
  BY <1>0, <1>1 DEF TypeOK, Carried, Knows, Reporting
<1>3. receipts[a][i].hash = IF req[r].inserted THEN NoTx ELSE h
  BY <1>0, <1>1 DEF Knows
<1>4. /\ receipts' \in [Actions -> [Calls -> Receipt]]
      /\ receipts'[a][i].hash = h
      /\ \A b \in Actions, j \in Calls :
           /\ receipts'[b][j].outcome = receipts[b][j].outcome
           /\ b # a \/ j # i => receipts'[b][j].hash = receipts[b][j].hash
  <2>1. CASE req[r].inserted
    <3>. DEFINE cell == [receipts[a][i] EXCEPT !.hash = h]
                row == [receipts[a] EXCEPT ![i] = cell]
    <3>1. /\ receipts \in [Actions -> [Calls -> Receipt]]
          /\ receipts[a] \in [Calls -> Receipt] /\ receipts[a][i] \in Receipt
      BY <1>1, <1>2 DEF TypeOK
    <3>2. cell \in Receipt /\ cell.hash = h /\ cell.outcome = receipts[a][i].outcome
      BY <1>2, <3>1 DEF Receipt
    <3>. HIDE DEF cell
    <3>3. row \in [Calls -> Receipt] /\ row[i] = cell
          /\ \A j \in Calls \ {i} : row[j] = receipts[a][j]
      BY <1>2, <3>1, <3>2
    <3>4. receipts' = [receipts EXCEPT ![a] = row]
      BY <1>1, <2>1 DEF cell
    <3>. HIDE DEF row
    <3>5. receipts' \in [Actions -> [Calls -> Receipt]] /\ receipts'[a] = row
          /\ \A b \in Actions \ {a} : receipts'[b] = receipts[b]
      BY <1>2, <3>1, <3>3, <3>4
    <3>. QED
      BY <3>2, <3>3, <3>5
  <2>2. CASE ~req[r].inserted
    BY <1>1, <1>3, <2>2 DEF TypeOK
  <2>. QED
    BY <2>1, <2>2
<1>5. \A b \in Actions : Reported(b)' = IF b = a THEN Reported(a) \cup {i} ELSE Reported(b)
  BY <1>2, <1>4, ActionAssumption DEF Reported
<1>6. \A b \in Actions : CallCount(b)' = CallCount(b) /\ Operation(b)' = Operation(b)
  BY <1>1 DEF CallCount, Operation
<1>7. /\ q \in Carried /\ ~q.inserted /\ q.act = a /\ q.call = i /\ q.hash = h
      /\ req' = [req EXCEPT ![r] = q]
  BY <1>0, <1>1 DEF Carried, TypeOK, ReportUpdate
<1>. HIDE DEF q
<1>8. /\ pc' \in [Requests -> Places] /\ req' \in [Requests -> Carried]
      /\ pc'[r] = "observe" /\ req'[r] = q
      /\ \A o \in Requests \ {r} : pc'[o] = pc[o] /\ req'[o] = req[o]
  <2>1. pc' = [pc EXCEPT ![r] = "observe"] /\ "observe" \in Places
    BY DEF ReportUpdate, Goto, Places
  <2>. QED
    BY <1>1, <1>7, <2>1 DEF TypeOK
<1>9. TypeOK'
  <2>1. StatusFor(a, n) \in {"submitted", "prepared"}
    BY DEF StatusFor
  <2>2. status' \in [Actions -> {"absent"} \cup Live \cup Sent]
        /\ \A b \in Actions : status'[b] = "absent" <=> plan'[b] = <<>>
    BY <1>1, <1>2, <2>1, CallsAre DEF TypeOK, Live, Sent
  <2>3. sentCount' \in [Actions -> Nat] /\ \A b \in Actions : sentCount'[b] <= CallCount(b)'
    BY <1>1, <1>2, <1>6 DEF TypeOK
  <2>. QED
    BY <1>1, <1>4, <1>8, <2>2, <2>3 DEF TypeOK, chainVars
<1>10. ASSUME NEW b \in Actions PROVE Ordered(b)'
  <2>1. Ordered(b)
    BY DEF ActionInv
  <2>2. CASE b = a
    <3>1. sentCount'[a] = n /\ Reported(a)' = Reported(a) \cup {i}
      BY <1>1, <1>2, <1>5 DEF TypeOK
    <3>. QED
      BY <1>1, <1>2, <2>1, <2>2, <3>1 DEF Ordered, Before
  <2>3. CASE b # a
    BY <1>1, <1>2, <1>5, <2>1, <2>3 DEF TypeOK, Ordered, Before
  <2>. QED
    BY <2>2, <2>3
<1>11. ASSUME NEW b \in Actions PROVE OutcomesAreMined(b)'
  <2>1. SUFFICES ASSUME NEW j \in Calls, receipts'[b][j].outcome # "none"
                 PROVE  /\ receipts'[b][j].hash # NoTx
                        /\ receipts'[b][j].outcome = mined'[receipts'[b][j].hash]
    BY DEF OutcomesAreMined
  <2>2. /\ receipts[b][j].hash # NoTx
        /\ receipts[b][j].outcome = mined[receipts[b][j].hash]
    BY <1>4, <2>1 DEF ActionInv, OutcomesAreMined
  <2>3. receipts'[b][j].hash = receipts[b][j].hash
    BY <1>2, <1>3, <1>4, <2>2, ActionAssumption
  <2>. QED
    BY <1>1, <1>4, <2>2, <2>3 DEF chainVars
<1>12. OutcomeIsTheOperations'
  <2>1. SUFFICES ASSUME NEW b \in Actions
                 PROVE /\ status'[b] \in Sent => Reported(b)' = IndicesOf(plan'[b])
                       /\ status'[b] = "confirmed" => receipts'[b][Operation(b)'].outcome = "success"
                       /\ status'[b] = "reverted" => receipts'[b][Operation(b)'].outcome = "reverted"
    BY DEF OutcomeIsTheOperations
  <2>2. CASE b = a
    <3>1. status'[a] = StatusFor(a, n)
      BY <1>1, <1>2 DEF TypeOK
    <3>2. status'[a] \notin {"confirmed", "reverted"}
      BY <3>1 DEF StatusFor
    <3>3. ASSUME status'[a] \in Sent PROVE Reported(a)' = IndicesOf(plan'[a])
      <4>1. n = CallCount(a)
        BY <1>2, <3>1, <3>3, CallsAre DEF StatusFor, Sent, CallCount
      <4>2. IndicesOf(plan[a]) \subseteq Reported(a) \cup {i}
        BY <1>2, <4>1, CallsAre DEF IndicesOf, CallCount
      <4>. QED
        BY <1>1, <1>2, <1>5, <4>2 DEF ActionInv, Ordered
    <3>. QED
      BY <2>2, <3>2, <3>3
  <2>3. CASE b # a
    <3>1. status'[b] = status[b] /\ plan'[b] = plan[b] /\ receipts'[b] = receipts[b]
      BY <1>1, <1>2, <2>3 DEF TypeOK
    <3>. QED
      BY <1>5, <1>6, <2>3, <3>1 DEF ActionInv, OutcomeIsTheOperations
  <2>. QED
    BY <2>2, <2>3
<1>13. ASSUME NEW o \in Requests PROVE Knows(pc[o], req[o])'
  <2>1. CASE o = r
    <3>1. plan'[a] # <<>> /\ q.call \in IndicesOf(plan'[a])
      BY <1>1, <1>2, <1>7, CallsAre
    <3>. QED
      BY <1>2, <1>4, <1>7, <1>8, <2>1, <3>1 DEF Knows, Simulating, Reporting, Reading
  <2>2. CASE o # r
    <3>1. Knows(pc[o], req[o]) /\ pc'[o] = pc[o] /\ req'[o] = req[o]
      BY <1>8, <2>2 DEF ActionInv
    <3>2. ASSUME req[o].inserted \/ pc[o] \in {"count", "update", "observe", "confirm"}
          PROVE  receipts'[req[o].act][req[o].call].hash = receipts[req[o].act][req[o].call].hash
      <4>1. req[o].act \in Actions /\ req[o].call \in Calls /\ req[o].hash \in TxHashes
        BY <3>1, <3>2 DEF ActionInv, TypeOK, Carried, Knows, Reporting
      <4>2. CASE req[o].act # a \/ req[o].call # i
        BY <1>4, <4>1, <4>2
      <4>3. CASE req[o].act = a /\ req[o].call = i /\ req[r].inserted
        <5>1. ~req[o].inserted
          BY <1>0, <2>2, <4>3 DEF ActionInv, InsertsDiffer
        <5>2. receipts[a][i].hash = req[o].hash
          BY <3>1, <3>2, <4>3, <5>1 DEF Knows
        <5>. QED
          BY <1>3, <4>1, <4>3, <5>2, ActionAssumption
      <4>4. CASE ~req[r].inserted
        BY <1>1, <4>4
      <4>. QED
        BY <4>2, <4>3, <4>4
    <3>3. \A b \in Actions : Reported(b) \subseteq Reported(b)'
      BY <1>5
    <3>. QED
      BY <1>1, <3>1, <3>2, <3>3, OthersKnow DEF chainVars
  <2>. QED
    BY <2>1, <2>2
<1>14. InsertsDiffer'
  BY <1>7, <1>8 DEF ActionInv, InsertsDiffer
<1>. QED
  BY <1>9, <1>10, <1>11, <1>12, <1>13, <1>14 DEF ActionInv

\* An outcome is stored: what became of the receipt's own hash, as any earlier outcome of
\* it was.
LEMMA ConfirmReceiptKeeps ==
  ASSUME ActionInv, NEW r \in Requests, ConfirmReceipt(r)
  PROVE  ActionInv'
<1>0. PICK a, i, h, outcome : /\ a = req[r].act /\ i = req[r].call /\ h = req[r].hash
                             /\ outcome = mined[h]
  OBVIOUS
<1>. DEFINE settles == i = Operation(a) /\ sentCount[a] >= CallCount(a)
<1>1. /\ TypeOK /\ UNCHANGED <<chainVars, plan, sentCount, simulated, newest, begun>>
      /\ Knows("confirm", req[r]) /\ ToStatus(r)
      /\ receipts' = [receipts EXCEPT ![a][i].outcome = outcome]
      /\ status' = IF settles
                     THEN [status EXCEPT ![a] = IF outcome = "success" THEN "confirmed" ELSE "reverted"]
                     ELSE status
  BY <1>0 DEF ActionInv, TypeOK, ConfirmReceipt
<1>2. /\ a \in Actions /\ plan[a] # <<>> /\ plan[a] \in Plans
      /\ i \in IndicesOf(plan[a]) /\ i \in Calls
      /\ h \in TxHashes /\ receipts[a][i].hash = h
      /\ outcome \in {"success", "reverted"}
  BY <1>0, <1>1 DEF TypeOK, Carried, Knows, Reporting
<1>3. /\ receipts' \in [Actions -> [Calls -> Receipt]]
      /\ receipts'[a][i].outcome = outcome
      /\ \A b \in Actions, j \in Calls :
           /\ receipts'[b][j].hash = receipts[b][j].hash
           /\ b # a \/ j # i => receipts'[b][j].outcome = receipts[b][j].outcome
  <2>. DEFINE cell == [receipts[a][i] EXCEPT !.outcome = outcome]
              row == [receipts[a] EXCEPT ![i] = cell]
  <2>1. /\ receipts \in [Actions -> [Calls -> Receipt]]
        /\ receipts[a] \in [Calls -> Receipt] /\ receipts[a][i] \in Receipt
    BY <1>1, <1>2 DEF TypeOK
  <2>2. cell \in Receipt /\ cell.outcome = outcome /\ cell.hash = receipts[a][i].hash
    BY <1>2, <2>1 DEF Receipt
  <2>. HIDE DEF cell
  <2>3. row \in [Calls -> Receipt] /\ row[i] = cell
        /\ \A j \in Calls \ {i} : row[j] = receipts[a][j]
    BY <1>2, <2>1, <2>2
  <2>4. receipts' = [receipts EXCEPT ![a] = row]
    BY <1>1 DEF cell
  <2>. HIDE DEF row
  <2>5. receipts' \in [Actions -> [Calls -> Receipt]] /\ receipts'[a] = row
        /\ \A b \in Actions \ {a} : receipts'[b] = receipts[b]
    BY <1>2, <2>1, <2>3, <2>4
  <2>. QED
    BY <2>2, <2>3, <2>5
<1>4. \A b \in Actions : Reported(b)' = Reported(b) /\ CallCount(b)' = CallCount(b)
                       /\ Operation(b)' = Operation(b)
  BY <1>1, <1>3 DEF Reported, CallCount, Operation
<1>5. /\ pc' \in [Requests -> Places] /\ req' \in [Requests -> Carried]
      /\ \A q \in Requests \ {r} : pc'[q] = pc[q] /\ req'[q] = req[q]
      /\ ~req'[r].inserted
      /\ Knows(pc[r], req[r])'
  BY <1>0, <1>1, <1>2, Leaves
<1>6. TypeOK'
  <2>1. status' \in [Actions -> {"absent"} \cup Live \cup Sent]
        /\ \A b \in Actions : status'[b] = "absent" <=> plan'[b] = <<>>
    BY <1>1, <1>2 DEF TypeOK, Sent
  <2>. QED
    BY <1>1, <1>3, <1>4, <1>5, <2>1 DEF TypeOK, chainVars
<1>7. ASSUME NEW b \in Actions PROVE Ordered(b)'
  BY <1>1, <1>4 DEF ActionInv, Ordered, Before
<1>8. ASSUME NEW b \in Actions PROVE OutcomesAreMined(b)'
  <2>1. ASSUME NEW j \in Calls, receipts'[b][j].outcome # "none"
        PROVE  /\ receipts'[b][j].hash # NoTx
               /\ receipts'[b][j].outcome = mined'[receipts'[b][j].hash]
    <3>1. CASE b = a /\ j = i
      <4>1. receipts'[b][j].hash = h /\ receipts'[b][j].outcome = outcome
        BY <1>2, <1>3, <3>1
      <4>2. h # NoTx /\ mined' = mined
        BY <1>1, <1>2, ActionAssumption DEF chainVars
      <4>. QED
        BY <1>0, <4>1, <4>2
    <3>2. CASE b # a \/ j # i
      <4>1. /\ receipts'[b][j].hash = receipts[b][j].hash
            /\ receipts'[b][j].outcome = receipts[b][j].outcome
        BY <1>3, <3>2
      <4>2. receipts[b][j].hash # NoTx /\ receipts[b][j].outcome = mined[receipts[b][j].hash]
        BY <2>1, <4>1 DEF ActionInv, OutcomesAreMined
      <4>. QED
        BY <1>1, <4>1, <4>2 DEF chainVars
    <3>. QED
      BY <3>1, <3>2
  <2>. QED
    BY <2>1 DEF OutcomesAreMined
<1>9. OutcomeIsTheOperations'
  <2>1. SUFFICES ASSUME NEW b \in Actions
                 PROVE /\ status'[b] \in Sent => Reported(b) = IndicesOf(plan[b])
                       /\ status'[b] = "confirmed" => receipts'[b][Operation(b)].outcome = "success"
                       /\ status'[b] = "reverted" => receipts'[b][Operation(b)].outcome = "reverted"
    BY <1>1, <1>4 DEF OutcomeIsTheOperations
  <2>2. CASE b = a /\ settles
    <3>1. IndicesOf(plan[a]) \subseteq Reported(a)
      BY <1>2, <2>2, CallsAre DEF ActionInv, TypeOK, Ordered, Before, IndicesOf, CallCount
    <3>2. Reported(a) = IndicesOf(plan[a])
      BY <1>2, <3>1 DEF ActionInv, Ordered
    <3>3. status'[a] = IF outcome = "success" THEN "confirmed" ELSE "reverted"
      BY <1>1, <1>2, <2>2 DEF TypeOK
    <3>. QED
      BY <1>2, <1>3, <2>2, <3>2, <3>3
  <2>3. CASE ~(b = a /\ settles)
    <3>1. status'[b] = status[b]
      BY <1>1, <1>2, <2>3 DEF TypeOK
    <3>2. /\ status[b] \in Sent => Reported(b) = IndicesOf(plan[b])
          /\ status[b] = "confirmed" => receipts[b][Operation(b)].outcome = "success"
          /\ status[b] = "reverted" => receipts[b][Operation(b)].outcome = "reverted"
      BY DEF ActionInv, OutcomeIsTheOperations
    <3>3. ASSUME status[b] \in Sent PROVE Operation(b) \in Calls
      <4>1. plan[b] \in Plans
        BY <1>1, <3>3 DEF TypeOK, Sent
      <4>. QED
        BY <4>1, CallsAre DEF Operation, CallCount, IndicesOf
    <3>4. ASSUME status[b] \in {"confirmed", "reverted"}, b = a, Operation(b) = i
          PROVE  receipts[a][i].outcome = outcome
      <4>1. receipts[a][i].outcome # "none"
        BY <3>2, <3>4
      <4>. QED
        BY <1>0, <1>2, <4>1 DEF ActionInv, OutcomesAreMined
    <3>5. status[b] \in {"confirmed", "reverted"} =>
            receipts'[b][Operation(b)].outcome = receipts[b][Operation(b)].outcome
      BY <1>3, <3>3, <3>4 DEF Sent
    <3>. QED
      BY <3>1, <3>2, <3>5
  <2>. QED
    BY <2>2, <2>3
<1>10. ASSUME NEW q \in Requests \ {r} PROVE Knows(pc[q], req[q])'
  <2>1. Knows(pc[q], req[q]) /\ pc'[q] = pc[q] /\ req'[q] = req[q]
    BY <1>5 DEF ActionInv
  <2>2. req[q].inserted \/ pc[q] \in {"count", "update", "observe", "confirm"} =>
          req[q].act \in Actions /\ req[q].call \in Calls
    BY <2>1 DEF ActionInv, TypeOK, Carried, Knows, Reporting
  <2>. QED
    BY <1>1, <1>3, <1>4, <2>1, <2>2, OthersKnow DEF chainVars
<1>11. InsertsDiffer'
  BY <1>5 DEF ActionInv, InsertsDiffer
<1>. QED
  BY <1>5, <1>6, <1>7, <1>8, <1>9, <1>10, <1>11 DEF ActionInv

\* Every step keeps what every request relies on.
LEMMA InvStep == ActionInv /\ [Next]_vars => ActionInv'
<1>. SUFFICES ASSUME ActionInv, [Next]_vars PROVE ActionInv'
  OBVIOUS
<1>1. ASSUME NEW h \in TxHashes, Mine(h) PROVE ActionInv'
  BY <1>1, MineKeeps DEF Mine
<1>2. ASSUME NEW r \in Requests, Prepare(r) PROVE ActionInv'
  BY <1>2, LocalSteps, PrepareCreateKeeps DEF Prepare
<1>3. ASSUME NEW r \in Requests, Simulate(r) PROVE ActionInv'
  BY <1>3, LocalSteps, SimulateRecordKeeps DEF Simulate
<1>4. ASSUME NEW r \in Requests, Report(r) PROVE ActionInv'
  BY <1>4, LocalSteps, ReportUpdateKeeps, ConfirmReceiptKeeps DEF Report
<1>5. ASSUME NEW r \in Requests, Status(r) \/ RequestLost(r) PROVE ActionInv'
  BY <1>5, LocalSteps
<1>6. CASE UNCHANGED vars
  <2>1. UNCHANGED <<block, mined, status, plan, sentCount, simulated, newest, begun, receipts, pc, req>>
    BY <1>6 DEF vars, chainVars, tableVars, requestVars
  <2>2. TypeOK' /\ OutcomeIsTheOperations' /\ InsertsDiffer'
    BY <2>1 DEF ActionInv, TypeOK, OutcomeIsTheOperations, InsertsDiffer, Reported, CallCount,
       Operation
  <2>3. ASSUME NEW a \in Actions PROVE Ordered(a)' /\ OutcomesAreMined(a)'
    <3>1. Ordered(a) /\ OutcomesAreMined(a)
      BY DEF ActionInv
    <3>. QED
      BY <2>1, <3>1 DEF Ordered, OutcomesAreMined, Before, Reported, CallCount
  <2>4. ASSUME NEW r \in Requests PROVE Knows(pc[r], req[r])'
    <3>1. Knows(pc[r], req[r])
      BY DEF ActionInv
    <3>. QED
      BY <2>1, <3>1 DEF Knows, Before, Reported, CallCount, Operation
  <2>. QED
    BY <2>2, <2>3, <2>4 DEF ActionInv
<1>. QED
  BY <1>1, <1>2, <1>3, <1>4, <1>5, <1>6 DEF Next

\* The invariant holds of every behaviour.
LEMMA InvHolds == Spec => []ActionInv
BY InvInit, InvStep, PTL DEF Spec

\* The commit of a report writes a hash where there is none.
LEMMA UpdateKeepsReceipts ==
  ASSUME ActionInv, NEW r \in Requests, ReportUpdate(r), NEW a \in Actions, NEW i \in Calls
  PROVE  /\ i \in Reported(a) => receipts'[a][i].hash = receipts[a][i].hash
         /\ receipts[a][i].outcome # "none" => receipts'[a][i] = receipts[a][i]
<1>1. /\ receipts \in [Actions -> [Calls -> Receipt]]
      /\ req[r].act \in Actions /\ req[r].call \in Calls
      /\ req[r].inserted => receipts[req[r].act][req[r].call].hash = NoTx
  BY DEF ActionInv, TypeOK, Carried, Knows, Reporting, ReportUpdate
<1>2. CASE receipts[a][i].hash = NoTx
  BY <1>2 DEF ActionInv, OutcomesAreMined, Reported
<1>3. CASE receipts[a][i].hash # NoTx
  <2>1. a # req[r].act \/ i # req[r].call \/ ~req[r].inserted
    BY <1>1, <1>3
  <2>2. receipts'[a][i] = receipts[a][i]
    BY <1>1, <2>1 DEF ReportUpdate
  <2>. QED
    BY <2>2
<1>. QED
  BY <1>2, <1>3

\* An outcome stored again is the outcome that is stored.
LEMMA ConfirmKeepsReceipts ==
  ASSUME ActionInv, NEW r \in Requests, ConfirmReceipt(r), NEW a \in Actions, NEW i \in Calls
  PROVE  /\ i \in Reported(a) => receipts'[a][i].hash = receipts[a][i].hash
         /\ receipts[a][i].outcome # "none" => receipts'[a][i] = receipts[a][i]
<1>1. /\ receipts \in [Actions -> [Calls -> Receipt]]
      /\ req[r].act \in Actions /\ req[r].call \in Calls
      /\ receipts[req[r].act][req[r].call].hash = req[r].hash
  BY DEF ActionInv, TypeOK, Carried, Knows, Reporting, ConfirmReceipt
<1>2. receipts' = [receipts EXCEPT ![req[r].act][req[r].call].outcome = mined[req[r].hash]]
  BY DEF ConfirmReceipt
<1>3. CASE a # req[r].act \/ i # req[r].call
  BY <1>1, <1>2, <1>3
<1>4. CASE a = req[r].act /\ i = req[r].call
  <2>1. receipts[a][i] \in Receipt
    BY <1>1
  <2>2. receipts'[a][i] = [receipts[a][i] EXCEPT !.outcome = mined[req[r].hash]]
    BY <1>1, <1>2, <1>4
  <2>3. receipts[a][i].outcome # "none" => receipts[a][i].outcome = mined[req[r].hash]
    <3>1. OutcomesAreMined(a)
      BY DEF ActionInv
    <3>. QED
      BY <1>1, <1>4, <3>1 DEF OutcomesAreMined
  <2>. QED
    BY <2>1, <2>2, <2>3 DEF Receipt
<1>. QED
  BY <1>3, <1>4

\* A reported hash and a stored outcome in the next state.
Kept ==
  \A a \in Actions, i \in Calls :
    /\ i \in Reported(a) => receipts'[a][i].hash = receipts[a][i].hash
    /\ receipts[a][i].outcome # "none" => receipts'[a][i] = receipts[a][i]

LEMMA ReceiptsStep == ActionInv /\ Next => Kept
<1>. SUFFICES ASSUME ActionInv, Next PROVE Kept
  OBVIOUS
<1>1. CASE UNCHANGED receipts
  BY <1>1 DEF Kept
<1>2. ASSUME NEW r \in Requests, ReportUpdate(r) \/ ConfirmReceipt(r) PROVE Kept
  BY <1>2, UpdateKeepsReceipts, ConfirmKeepsReceipts DEF Kept
<1>3. ASSUME NEW h \in TxHashes, Mine(h) PROVE UNCHANGED receipts
  BY <1>3 DEF Mine, MineAs, tableVars
<1>4. ASSUME NEW r \in Requests, Prepare(r) \/ Simulate(r) \/ Status(r) \/ RequestLost(r)
      PROVE  UNCHANGED receipts
  BY <1>4 DEF Prepare, PrepareLive, PrepareNew, PrepareCreate, PrepareServed, Simulate,
     SimulateRead, SimulateRun, SimulateRecord, SimulateRefused, Status, StatusAsked,
     StatusRead, StatusJudge, RequestLost, tableVars
<1>5. ASSUME NEW r \in Requests, Report(r)
      PROVE  UNCHANGED receipts \/ ReportUpdate(r) \/ ConfirmReceipt(r)
  BY <1>5 DEF Report, ReportRead, ReportOrder, ReportInsert, ReportCount, ReportRefused,
     ObserveSettled, ObserveUnmined, ObserveMined, tableVars
<1>. QED
  BY <1>1, <1>2, <1>3, <1>4, <1>5 DEF Next

-----------------------------------------------------------------------------
(* What a step leaves as it was                                              *)

\* The newest simulation row, if it succeeded, is of a call that has one.
NewestIsStored ==
  \A a \in Actions :
    newest[a].ok => newest[a].call \in simulated[a] \cap IndicesOf(plan[a])

\* An action that exists keeps its calls and the simulations it has.
LEMMA TablesGrow ==
  ASSUME ActionInv, Next, NEW a \in Actions, plan[a] # <<>>
  PROVE  plan'[a] = plan[a] /\ simulated[a] \subseteq simulated'[a]
<1>1. /\ plan \in [Actions -> Plans \cup {<<>>}] /\ simulated \in [Actions -> SUBSET Calls]
      /\ status[a] # "absent"
  BY DEF ActionInv, TypeOK
<1>2. CASE UNCHANGED <<plan, simulated>>
  BY <1>2
<1>3. ASSUME NEW r \in Requests, PrepareCreate(r)
      PROVE  plan'[a] = plan[a] /\ simulated'[a] = simulated[a]
  BY <1>1, <1>3 DEF PrepareCreate
<1>4. ASSUME NEW r \in Requests, SimulateRecord(r)
      PROVE  plan'[a] = plan[a] /\ simulated[a] \subseteq simulated'[a]
  <2>1. plan' = plan /\ simulated' = [simulated EXCEPT ![req[r].act] = @ \cup {req[r].simulation.call}]
    BY <1>4 DEF SimulateRecord, RecordSimulation
  <2>. QED
    BY <1>1, <2>1
<1>5. ASSUME NEW h \in TxHashes, Mine(h) PROVE UNCHANGED <<plan, simulated>>
  BY <1>5 DEF Mine, MineAs, tableVars
<1>6. ASSUME NEW r \in Requests, Prepare(r) PROVE UNCHANGED <<plan, simulated>> \/ PrepareCreate(r)
  BY <1>6 DEF Prepare, PrepareLive, PrepareNew, PrepareServed, tableVars
<1>7. ASSUME NEW r \in Requests, Simulate(r) PROVE UNCHANGED <<plan, simulated>> \/ SimulateRecord(r)
  BY <1>7 DEF Simulate, SimulateRead, SimulateRun, SimulateRefused, tableVars
<1>8. ASSUME NEW r \in Requests, Report(r) PROVE UNCHANGED <<plan, simulated>>
  BY <1>8 DEF Report, ReportRead, ReportOrder, ReportInsert, ReportCount, ReportUpdate,
     ReportRefused, ObserveSettled, ObserveUnmined, ObserveMined, ConfirmReceipt, tableVars
<1>9. ASSUME NEW r \in Requests, Status(r) \/ RequestLost(r) PROVE UNCHANGED <<plan, simulated>>
  BY <1>9 DEF Status, StatusAsked, StatusRead, StatusJudge, RequestLost, tableVars
<1>. QED
  BY <1>2, <1>3, <1>4, <1>5, <1>6, <1>7, <1>8, <1>9 DEF Next

\* A simulation row and the set of simulated calls are one write.
LEMMA NewestStep == ActionInv /\ NewestIsStored /\ Next => NewestIsStored'
<1>. SUFFICES ASSUME ActionInv, NewestIsStored, Next PROVE NewestIsStored'
  OBVIOUS
<1>1. /\ simulated \in [Actions -> SUBSET Calls] /\ newest \in [Actions -> Simulation]
      /\ plan \in [Actions -> Plans \cup {<<>>}]
  BY DEF ActionInv, TypeOK
<1>2. CASE UNCHANGED <<newest, simulated, plan>>
  BY <1>2 DEF NewestIsStored
<1>3. ASSUME NEW r \in Requests, PrepareCreate(r) PROVE NewestIsStored'
  <2>1. req[r].simulation.call = 0 /\ 0 \in IndicesOf(req[r].plan)
    BY <1>3, CallsAre DEF ActionInv, Knows, PrepareCreate
  <2>2. PICK a \in Actions : /\ simulated' = [simulated EXCEPT ![a] = {0}]
                             /\ newest' = [newest EXCEPT ![a] = req[r].simulation]
                             /\ plan' = [plan EXCEPT ![a] = req[r].plan]
    BY <1>3 DEF PrepareCreate
  <2>. QED
    BY <1>1, <2>1, <2>2 DEF NewestIsStored
<1>4. ASSUME NEW r \in Requests, SimulateRecord(r) PROVE NewestIsStored'
  <2>1. /\ simulated' = [simulated EXCEPT ![req[r].act] = @ \cup {req[r].simulation.call}]
        /\ newest' = [newest EXCEPT ![req[r].act] = req[r].simulation] \/ newest' = newest
        /\ plan' = plan
    BY <1>4 DEF SimulateRecord, RecordSimulation
  <2>2. req[r].simulation.call \in IndicesOf(plan[req[r].act])
    BY <1>4 DEF ActionInv, Knows, SimulateRecord, Simulating
  <2>. QED
    BY <1>1, <2>1, <2>2 DEF NewestIsStored
<1>5. ASSUME NEW h \in TxHashes, Mine(h) PROVE UNCHANGED <<newest, simulated, plan>>
  BY <1>5 DEF Mine, MineAs, tableVars
<1>6. ASSUME NEW r \in Requests, Prepare(r)
      PROVE  UNCHANGED <<newest, simulated, plan>> \/ PrepareCreate(r)
  BY <1>6 DEF Prepare, PrepareLive, PrepareNew, PrepareServed, tableVars
<1>7. ASSUME NEW r \in Requests, Simulate(r)
      PROVE  UNCHANGED <<newest, simulated, plan>> \/ SimulateRecord(r)
  BY <1>7 DEF Simulate, SimulateRead, SimulateRun, SimulateRefused, tableVars
<1>8. ASSUME NEW r \in Requests, Report(r) PROVE UNCHANGED <<newest, simulated, plan>>
  BY <1>8 DEF Report, ReportRead, ReportOrder, ReportInsert, ReportCount, ReportUpdate,
     ReportRefused, ObserveSettled, ObserveUnmined, ObserveMined, ConfirmReceipt, tableVars
<1>9. ASSUME NEW r \in Requests, Status(r) \/ RequestLost(r)
      PROVE  UNCHANGED <<newest, simulated, plan>>
  BY <1>9 DEF Status, StatusAsked, StatusRead, StatusJudge, RequestLost, tableVars
<1>. QED
  BY <1>2, <1>3, <1>4, <1>5, <1>6, <1>7, <1>8, <1>9 DEF Next

\* A hash comes into the tables with the report that carries it.
LEMMA NewHash ==
  ASSUME ActionInv, Next, NEW a \in Actions, NEW i \in Calls,
         receipts'[a][i].hash # receipts[a][i].hash
  PROVE  \E r \in Requests : /\ ReportUpdate(r) /\ pc[r] = "update" /\ req[r].inserted
                             /\ req[r].act = a /\ req[r].call = i
                             /\ receipts'[a][i].hash = req[r].hash
<1>1. receipts \in [Actions -> [Calls -> Receipt]]
  BY DEF ActionInv, TypeOK
<1>2. ASSUME NEW h \in TxHashes, Mine(h) PROVE UNCHANGED receipts
  BY <1>2 DEF Mine, MineAs, tableVars
<1>3. ASSUME NEW r \in Requests, Prepare(r) \/ Simulate(r) \/ Status(r) \/ RequestLost(r)
      PROVE  UNCHANGED receipts
  BY <1>3 DEF Prepare, PrepareLive, PrepareNew, PrepareCreate, PrepareServed, Simulate,
     SimulateRead, SimulateRun, SimulateRecord, SimulateRefused, Status, StatusAsked,
     StatusRead, StatusJudge, RequestLost, tableVars
<1>4. PICK r \in Requests : ReportUpdate(r) \/ ConfirmReceipt(r)
  <2>1. ASSUME NEW r \in Requests, Report(r)
        PROVE  UNCHANGED receipts \/ ReportUpdate(r) \/ ConfirmReceipt(r)
    BY <2>1 DEF Report, ReportRead, ReportOrder, ReportInsert, ReportCount,
       ReportRefused, ObserveSettled, ObserveUnmined, ObserveMined, tableVars
  <2>. QED
    BY <1>2, <1>3, <2>1 DEF Next
<1>5. req[r].act \in Actions /\ req[r].call \in Calls
  BY <1>4 DEF ActionInv, TypeOK, Carried, Knows, Reporting, ReportUpdate, ConfirmReceipt
<1>6. ~ConfirmReceipt(r)
  <2>. SUFFICES ASSUME ConfirmReceipt(r) PROVE receipts'[a][i].hash = receipts[a][i].hash
    OBVIOUS
  <2>1. receipts' = [receipts EXCEPT ![req[r].act][req[r].call].outcome = mined[req[r].hash]]
    BY DEF ConfirmReceipt
  <2>2. receipts[a][i] \in Receipt
    BY <1>1
  <2>3. \/ receipts'[a][i] = receipts[a][i]
        \/ receipts'[a][i] = [receipts[a][i] EXCEPT !.outcome = mined[req[r].hash]]
    BY <1>1, <1>5, <2>1
  <2>. QED
    BY <2>2, <2>3 DEF Receipt
<1>7. ReportUpdate(r) /\ req[r].inserted
  BY <1>4, <1>6 DEF ReportUpdate
<1>8. receipts' = [receipts EXCEPT ![req[r].act][req[r].call].hash = req[r].hash]
  BY <1>7 DEF ReportUpdate
<1>9. req[r].act = a /\ req[r].call = i
  BY <1>1, <1>5, <1>8
<1>10. receipts'[a][i].hash = req[r].hash
  BY <1>1, <1>8, <1>9 DEF Receipt
<1>. QED
  BY <1>7, <1>9, <1>10 DEF ReportUpdate

\* One step of a request under way: it stays with its action, and with its report.
LEMMA ServeStep ==
  ASSUME ActionInv, NEW r \in Requests, pc[r] # "idle",
         Prepare(r) \/ Simulate(r) \/ Report(r) \/ Status(r) \/ RequestLost(r)
  PROVE  /\ \A q \in Requests \ {r} : pc'[q] = pc[q] /\ req'[q] = req[q]
         /\ pc'[r] # "idle" => req'[r].act = req[r].act
         /\ pc'[r] \in Reporting =>
              pc[r] \in Reporting /\ req'[r].call = req[r].call /\ req'[r].hash = req[r].hash
         /\ pc'[r] = "judge" =>
              UNCHANGED tableVars /\ req'[r].count = sentCount[req'[r].act]
         /\ pc[r] \in Reading => UNCHANGED rows
<1>. DEFINE Stays ==
       /\ \A q \in Requests \ {r} : pc'[q] = pc[q] /\ req'[q] = req[q]
       /\ pc'[r] # "idle" => req'[r].act = req[r].act
       /\ pc'[r] \in Reporting =>
            pc[r] \in Reporting /\ req'[r].call = req[r].call /\ req'[r].hash = req[r].hash
       /\ pc'[r] = "judge" => UNCHANGED tableVars /\ req'[r].count = sentCount[req'[r].act]
       /\ pc[r] \in Reading => UNCHANGED rows
<1>1. /\ pc \in [Requests -> Places] /\ req \in [Requests -> Carried]
      /\ \A q \in Requests : req[q] \in Carried
  BY DEF ActionInv, TypeOK
<1>2. ASSUME EndRequest(r), pc[r] \notin Reading \/ UNCHANGED rows
      PROVE  Stays
  BY <1>1, <1>2 DEF EndRequest, Goto, Reporting
<1>3. ASSUME ToStatus(r), pc[r] \notin Reading PROVE Stays
  BY <1>1, <1>3 DEF ToStatus, Goto, Reporting, NoRequest
<1>4. CASE Prepare(r)
  BY <1>2, <1>4 DEF Prepare, PrepareLive, PrepareNew, PrepareCreate, PrepareServed, Reading,
     rows, tableVars
<1>5. CASE Simulate(r)
  <2>1. CASE SimulateRun(r)
    BY <1>1, <2>1 DEF SimulateRun, Goto, Carried, Reporting, Reading
  <2>2. CASE SimulateRecord(r)
    <3>1. pc[r] \in {"record", "append"} /\ (EndRequest(r) \/ ToStatus(r))
      BY <2>2 DEF SimulateRecord, ToStatus
    <3>. QED
      BY <1>2, <1>3, <3>1 DEF Reading
  <2>3. CASE SimulateRefused(r)
    BY <1>2, <2>3 DEF SimulateRefused, Reading
  <2>. QED
    BY <1>5, <2>1, <2>2, <2>3 DEF Simulate, SimulateRead
<1>6. CASE Report(r)
  <2>1. CASE ReportOrder(r)
    BY <1>1, <1>2, <2>1 DEF ReportOrder, Goto, Reporting, Reading
  <2>2. CASE ReportInsert(r)
    <3>1. pc[r] = "insert"
      BY <2>2 DEF ReportInsert
    <3>2. CASE EndRequest(r)
      BY <1>2, <3>1, <3>2 DEF Reading
    <3>3. CASE Goto(r, "count") /\ req' = [req EXCEPT ![r].inserted = TRUE]
      BY <1>1, <3>1, <3>3 DEF Goto, Reporting, Reading, Carried
    <3>4. CASE Goto(r, "count") /\ UNCHANGED req
      BY <1>1, <3>1, <3>4 DEF Goto, Reporting, Reading, Carried
    <3>. QED
      BY <2>2, <3>2, <3>3, <3>4 DEF ReportInsert
  <2>3. CASE ReportCount(r)
    BY <1>1, <2>3 DEF ReportCount, Goto, Reporting, Reading, Carried
  <2>4. CASE ReportUpdate(r)
    BY <1>1, <2>4 DEF ReportUpdate, Goto, Reporting, Reading, Carried
  <2>5. CASE ReportRefused(r)
    BY <1>2, <2>5 DEF ReportRefused, Reading
  <2>6. CASE ObserveSettled(r) \/ ObserveUnmined(r) \/ ConfirmReceipt(r)
    BY <1>3, <2>6 DEF ObserveSettled, ObserveUnmined, ConfirmReceipt, Reading
  <2>7. CASE ObserveMined(r)
    BY <1>1, <2>7 DEF ObserveMined, Goto, Reporting, Reading
  <2>. QED
    BY <1>6, <2>1, <2>2, <2>3, <2>4, <2>5, <2>6, <2>7 DEF Report, ReportRead
<1>7. CASE Status(r)
  <2>1. CASE StatusRead(r)
    BY <1>1, <1>2, <2>1 DEF StatusRead, Goto, Reporting, Carried, rows, tableVars
  <2>2. CASE StatusJudge(r)
    BY <1>2, <2>2 DEF StatusJudge, rows, tableVars
  <2>. QED
    BY <1>7, <2>1, <2>2 DEF Status, StatusAsked
<1>8. CASE RequestLost(r)
  BY <1>2, <1>8 DEF RequestLost, rows
<1>. QED
  BY <1>4, <1>5, <1>6, <1>7, <1>8

-----------------------------------------------------------------------------
(* The tables implement the log of CallLog                                  *)

\* A row that a transaction under way inserted has a hash that no other row has.
InsertsAreNew ==
  \A r \in Requests :
    req[r].inserted =>
      /\ ~HashTaken(req[r].hash)
      /\ \A q \in Requests \ {r} : req[q].inserted => req[q].hash # req[r].hash

\* Four steps write what the log is of.
LEMMA LogChanges ==
  ASSUME Next
  PROVE  \/ UNCHANGED <<plan, simulated, receipts>>
         \/ \E r \in Requests :
              PrepareCreate(r) \/ SimulateRecord(r) \/ ReportUpdate(r) \/ ConfirmReceipt(r)
<1>1. ASSUME NEW h \in TxHashes, Mine(h) PROVE UNCHANGED <<plan, simulated, receipts>>
  BY <1>1 DEF Mine, MineAs, tableVars
<1>2. ASSUME NEW r \in Requests, Prepare(r)
      PROVE  UNCHANGED <<plan, simulated, receipts>> \/ PrepareCreate(r)
  BY <1>2 DEF Prepare, PrepareLive, PrepareNew, PrepareServed, tableVars
<1>3. ASSUME NEW r \in Requests, Simulate(r)
      PROVE  UNCHANGED <<plan, simulated, receipts>> \/ SimulateRecord(r)
  BY <1>3 DEF Simulate, SimulateRead, SimulateRun, SimulateRefused, tableVars
<1>4. ASSUME NEW r \in Requests, Report(r)
      PROVE  UNCHANGED <<plan, simulated, receipts>> \/ ReportUpdate(r) \/ ConfirmReceipt(r)
  BY <1>4 DEF Report, ReportRead, ReportOrder, ReportInsert, ReportCount, ReportRefused,
     ObserveSettled, ObserveUnmined, ObserveMined, tableVars
<1>5. ASSUME NEW r \in Requests, Status(r) \/ RequestLost(r)
      PROVE  UNCHANGED <<plan, simulated, receipts>>
  BY <1>5 DEF Status, StatusAsked, StatusRead, StatusJudge, RequestLost, tableVars
<1>. QED
  BY <1>1, <1>2, <1>3, <1>4, <1>5 DEF Next

\* A row is inserted by a request of its own that found no row with its hash, and no other
\* transaction inserting one.
LEMMA InsertIs ==
  ASSUME ActionInv, NEW r \in Requests,
         Prepare(r) \/ Simulate(r) \/ Report(r) \/ Status(r) \/ RequestLost(r)
  PROVE  /\ \A q \in Requests \ {r} : req'[q] = req[q]
         /\ req'[r].inserted =>
              /\ UNCHANGED receipts
              /\ req'[r].hash = req[r].hash
              /\ req[r].inserted \/ (~HashTaken(req[r].hash) /\ ~Contends(r))
<1>. DEFINE Stays ==
       /\ \A q \in Requests \ {r} : req'[q] = req[q]
       /\ req'[r].inserted =>
            /\ UNCHANGED receipts
            /\ req'[r].hash = req[r].hash
            /\ req[r].inserted \/ (~HashTaken(req[r].hash) /\ ~Contends(r))
<1>1. /\ req \in [Requests -> Carried] /\ req[r] \in Carried
      /\ req[r].inserted => pc[r] \in {"count", "update"}
  BY DEF ActionInv, TypeOK, Knows
<1>2. ASSUME EndRequest(r) \/ ToStatus(r) PROVE Stays
  BY <1>1, <1>2 DEF EndRequest, ToStatus, NoRequest
<1>3. CASE Prepare(r)
  <2>1. ASSUME NEW p \in Plans, PrepareLive(r, p) PROVE Stays
    BY <1>1, <2>1 DEF PrepareLive, Carried
  <2>2. ASSUME NEW p \in Plans, PrepareNew(r, p) PROVE Stays
    BY <1>1, <2>2 DEF PrepareNew, Carried
  <2>. QED
    BY <1>2, <1>3, <2>1, <2>2 DEF Prepare, PrepareCreate, PrepareServed
<1>4. CASE Simulate(r)
  <2>1. ASSUME NEW a \in Actions, SimulateRead(r, a) PROVE Stays
    BY <1>1, <2>1 DEF SimulateRead, Carried
  <2>2. ASSUME SimulateRun(r) PROVE Stays
    BY <1>1, <2>2 DEF SimulateRun, Carried
  <2>3. ASSUME SimulateRecord(r) PROVE EndRequest(r) \/ ToStatus(r)
    BY <2>3 DEF SimulateRecord, ToStatus
  <2>. QED
    BY <1>2, <1>4, <2>1, <2>2, <2>3 DEF Simulate, SimulateRefused
<1>5. CASE Report(r)
  <2>1. ASSUME NEW a \in Actions, NEW i \in Calls, NEW h \in TxHashes, ReportRead(r, a, i, h)
        PROVE  Stays
    BY <1>1, <2>1 DEF ReportRead, Carried
  <2>2. ASSUME ReportOrder(r) PROVE Stays
    BY <1>1, <1>2, <2>2 DEF ReportOrder
  <2>3. ASSUME ReportInsert(r) PROVE Stays
    <3>1. UNCHANGED receipts /\ ~Contends(r)
      BY <2>3 DEF ReportInsert, tableVars
    <3>2. CASE EndRequest(r)
      BY <1>2, <3>2
    <3>3. CASE UNCHANGED req
      BY <1>1, <2>3, <3>3 DEF ReportInsert
    <3>4. CASE ~HashTaken(req[r].hash) /\ req' = [req EXCEPT ![r].inserted = TRUE]
      BY <1>1, <3>1, <3>4 DEF Carried
    <3>. QED
      BY <2>3, <3>2, <3>3, <3>4 DEF ReportInsert
  <2>4. ASSUME ReportCount(r) PROVE Stays
    BY <1>1, <2>4 DEF ReportCount, Carried, tableVars
  <2>5. ASSUME ReportUpdate(r) PROVE Stays
    BY <1>1, <2>5 DEF ReportUpdate, Carried
  <2>6. ASSUME ObserveMined(r) PROVE Stays
    BY <1>1, <2>6 DEF ObserveMined
  <2>. QED
    BY <1>2, <1>5, <2>1, <2>2, <2>3, <2>4, <2>5, <2>6
    DEF Report, ReportRefused, ObserveSettled, ObserveUnmined, ConfirmReceipt
<1>6. CASE Status(r)
  <2>1. ASSUME NEW a \in Actions, StatusAsked(r, a) PROVE Stays
    BY <1>1, <2>1 DEF StatusAsked, Carried
  <2>2. ASSUME StatusRead(r) PROVE Stays
    BY <1>1, <1>2, <2>2 DEF StatusRead, Carried
  <2>. QED
    BY <1>2, <1>6, <2>1, <2>2 DEF Status, StatusJudge
<1>7. CASE RequestLost(r)
  BY <1>2, <1>7 DEF RequestLost
<1>. QED
  BY <1>3, <1>4, <1>5, <1>6, <1>7

\* The index waits for a transaction that inserts the same hash, and refuses one that is
\* in the table.
LEMMA InsertsStayNew == ActionInv /\ InsertsAreNew /\ [Next]_vars => InsertsAreNew'
<1>. SUFFICES ASSUME ActionInv, InsertsAreNew, [Next]_vars PROVE InsertsAreNew'
  OBVIOUS
<1>1. CASE UNCHANGED <<receipts, req>>
  BY <1>1 DEF InsertsAreNew, HashTaken
<1>2. ASSUME NEW h \in TxHashes, Mine(h) PROVE UNCHANGED <<receipts, req>>
  BY <1>2 DEF Mine, MineAs, tableVars, requestVars
<1>3. ASSUME NEW r \in Requests,
             Prepare(r) \/ Simulate(r) \/ Report(r) \/ Status(r) \/ RequestLost(r)
      PROVE  InsertsAreNew'
  <2>1. Next
    BY <1>3 DEF Next
  <2>2. ASSUME NEW h, HashTaken(h)'
        PROVE  HashTaken(h) \/ (~UNCHANGED receipts /\ req[r].inserted /\ h = req[r].hash)
    <3>1. PICK a \in Actions, i \in Calls : receipts'[a][i].hash = h
      BY <2>2 DEF HashTaken
    <3>2. CASE receipts[a][i].hash = h
      BY <3>1, <3>2 DEF HashTaken
    <3>3. CASE receipts[a][i].hash # h
      <4>1. PICK q \in Requests : /\ pc[q] = "update" /\ req[q].inserted /\ ReportUpdate(q)
                                  /\ h = req[q].hash
        BY <2>1, <3>1, <3>3, NewHash
      <4>2. q = r
        <5>1. req'[q].inserted = FALSE
          BY <4>1 DEF ReportUpdate, ActionInv, TypeOK, Carried
        <5>. QED
          BY <1>3, <4>1, <5>1, InsertIs
      <4>. QED
        BY <3>1, <3>3, <4>1, <4>2
    <3>. QED
      BY <3>2, <3>3
  <2>3. ASSUME NEW q \in Requests, req'[q].inserted
        PROVE  \A a \in Actions, i \in Calls : receipts'[a][i].hash # req'[q].hash
    <3>. SUFFICES ASSUME HashTaken(req[q].hash)' PROVE FALSE
      BY DEF HashTaken
    <3>1. PICK h : h = req'[q].hash
      OBVIOUS
    <3>2. HashTaken(h) \/ (~UNCHANGED receipts /\ req[r].inserted /\ h = req[r].hash)
      BY <2>2, <3>1 DEF HashTaken
    <3>3. CASE q = r
      BY <1>3, <2>3, <3>1, <3>2, <3>3, InsertIs DEF InsertsAreNew
    <3>4. CASE q # r
      BY <1>3, <2>3, <3>1, <3>2, <3>4, InsertIs DEF InsertsAreNew
    <3>. QED
      BY <3>3, <3>4
  <2>4. ASSUME NEW q \in Requests, NEW o \in Requests \ {q}, req'[q].inserted, req'[o].inserted
        PROVE  req'[q].hash # req'[o].hash
    BY <1>3, <2>4, InsertIs DEF InsertsAreNew, Contends
  <2>. QED
    BY <2>3, <2>4 DEF InsertsAreNew, HashTaken
<1>. QED
  BY <1>1, <1>2, <1>3 DEF Next, vars, tableVars, requestVars

\* The log of an action is as long as it has reports, and lists their receipts.
LogOf(a) ==
  LET n == Cardinality(Reported(a))
  IN  /\ n \in Nat /\ n <= CallCount(a)
      /\ Reported(a) = 0..(n - 1)
      /\ ReceiptLog(a) \in Seq(Receipt) /\ Len(ReceiptLog(a)) = n
      /\ \A k \in 1..n : ReceiptLog(a)[k] = receipts[a][k - 1]

LEMMA LogsAre == ActionInv => \A a \in Actions : LogOf(a)
<1>. SUFFICES ASSUME ActionInv, NEW a \in Actions PROVE LogOf(a)
  OBVIOUS
<1>. DEFINE n == Cardinality(Reported(a))
<1>1. /\ CallCount(a) \in Nat /\ IndicesOf(plan[a]) = 0..(CallCount(a) - 1)
      /\ IndicesOf(plan[a]) \subseteq Calls
  <2>1. plan[a] \in Plans \/ plan[a] = <<>>
    BY DEF ActionInv, TypeOK
  <2>. QED
    BY <2>1, CallsAre DEF CallCount, IndicesOf
<1>2. \A i \in Reported(a) : \A j \in Nat : j < i => j \in Reported(a)
  <2>. SUFFICES ASSUME NEW i \in Reported(a), NEW j \in Nat, j < i PROVE j \in Reported(a)
    OBVIOUS
  <2>1. i \in 0..(CallCount(a) - 1)
    BY <1>1 DEF ActionInv, Ordered
  <2>2. j \in Calls
    BY <1>1, <2>1
  <2>. QED
    BY <2>2 DEF ActionInv, Ordered, Before
<1>3. n \in 0..CallCount(a) /\ Reported(a) = 0..(n - 1)
  <2>1. Reported(a) \subseteq 0..(CallCount(a) - 1)
    BY <1>1 DEF ActionInv, Ordered
  <2>. QED
    BY <1>1, <1>2, <2>1, PrefixSize
<1>4. \A k \in 1..n : receipts[a][k - 1] \in Receipt
  <2>1. \A k \in 1..n : k - 1 \in 0..(n - 1)
    BY <1>3
  <2>2. \A k \in 1..n : k - 1 \in Calls
    BY <1>3, <2>1 DEF Reported
  <2>. QED
    BY <2>2 DEF ActionInv, TypeOK
<1>. HIDE DEF n
<1>5. ReceiptLog(a) = [k \in 1..n |-> receipts[a][k - 1]]
  BY DEF ReceiptLog, n
<1>6. ReceiptLog(a) \in Seq(Receipt) /\ Len(ReceiptLog(a)) = n
  BY <1>3, <1>4, <1>5
<1>. QED
  BY <1>1, <1>3, <1>5, <1>6 DEF LogOf, n

\* And in the next state.
LEMMA LogsBecome == ActionInv' => (\A a \in Actions : LogOf(a))'
BY LogsAre, PTL

\* An action's receipts are as they were, and so is its log.
LEMMA LogStays ==
  ASSUME NEW a \in Actions, receipts'[a] = receipts[a]
  PROVE  ReceiptLog(a)' = ReceiptLog(a)
BY DEF ReceiptLog, Reported

\* A new action has no receipt.
LEMMA LogOpens ==
  ASSUME ActionInv, NEW r \in Requests, PrepareCreate(r)
  PROVE  Log!Next
<1>1. PICK a \in Actions : /\ status[a] = "absent"
                           /\ plan' = [plan EXCEPT ![a] = req[r].plan]
                           /\ simulated' = [simulated EXCEPT ![a] = {0}]
  BY DEF PrepareCreate
<1>2. plan[a] = <<>> /\ req[r].plan \in Plans
  BY <1>1 DEF ActionInv, TypeOK, Knows, PrepareCreate
<1>3. \A b \in Actions : ReceiptLog(b)' = ReceiptLog(b)
  BY LogStays DEF PrepareCreate
<1>4. Log!Open(a, req[r].plan)
  BY <1>1, <1>2, <1>3 DEF Log!Open
<1>. QED
  BY <1>2, <1>4 DEF Log!Next

\* What is simulated was reported before, or is the next call.
LEMMA LogTries ==
  ASSUME ActionInv, NEW r \in Requests, SimulateRecord(r)
  PROVE  Log!Next
<1>. DEFINE a == req[r].act
            i == req[r].call
<1>1. /\ a \in Actions /\ plan[a] # <<>> /\ i \in IndicesOf(plan[a]) /\ Before(a, i)
      /\ req[r].simulation.call = i
  BY DEF ActionInv, Knows, SimulateRecord, Simulating
<1>2. simulated' = [simulated EXCEPT ![a] = @ \cup {i}] /\ UNCHANGED <<plan, receipts>>
  BY <1>1 DEF SimulateRecord, RecordSimulation
<1>3. \A b \in Actions : ReceiptLog(b)' = ReceiptLog(b)
  BY <1>2, LogStays
<1>4. i \in Calls /\ i \in Nat /\ i < Len(plan[a])
  BY <1>1, CallsAre DEF ActionInv, TypeOK, IndicesOf
<1>5. i \in 0..Len(ReceiptLog(a))
  <2>. DEFINE n == Cardinality(Reported(a))
  <2>1. n \in Nat /\ Reported(a) = 0..(n - 1) /\ Len(ReceiptLog(a)) = n
    BY <1>1, LogsAre DEF LogOf
  <2>2. ASSUME i > n PROVE FALSE
    <3>1. n \in Calls
      BY <1>1, <1>4, <2>1, <2>2, CallsAre DEF ActionInv, TypeOK, IndicesOf
    <3>2. n \in Reported(a)
      BY <1>1, <2>1, <2>2, <3>1 DEF Before
    <3>. QED
      BY <2>1, <3>2
  <2>. QED
    BY <1>4, <2>1, <2>2
<1>. HIDE DEF a, i
<1>6. Log!Try(a, i)
  BY <1>1, <1>2, <1>3, <1>4 DEF Log!Try
<1>. QED
  BY <1>1, <1>5, <1>6 DEF Log!Next

\* The commit of a report appends a receipt, or finds it there.
LEMMA LogEnters ==
  ASSUME ActionInv, ActionInv', InsertsAreNew, NEW r \in Requests, ReportUpdate(r)
  PROVE  Log!Next \/ UNCHANGED <<plan, simulated, receipts>>
<1>. PICK a, i, h : a = req[r].act /\ i = req[r].call /\ h = req[r].hash
  OBVIOUS
<1>. DEFINE n == Cardinality(Reported(a))
<1>0. UNCHANGED <<plan, simulated>>
  BY DEF ReportUpdate
<1>1. CASE ~req[r].inserted
  BY <1>0, <1>1 DEF ReportUpdate
<1>2. CASE req[r].inserted
  <2>. DEFINE new == [hash |-> h, outcome |-> "none"]
  <2>1. /\ a \in Actions /\ plan[a] # <<>> /\ i \in IndicesOf(plan[a]) /\ Before(a, i)
        /\ h \in TxHashes /\ receipts[a][i].hash = NoTx
    BY <1>2 DEF ActionInv, Knows, ReportUpdate, Simulating, Reporting
  <2>2. /\ i \in Calls /\ i \in Nat /\ i < Len(plan[a]) /\ Len(plan[a]) \in Nat
        /\ IndicesOf(plan[a]) = 0..(Len(plan[a]) - 1) /\ IndicesOf(plan[a]) \subseteq Calls
    BY <2>1, CallsAre DEF ActionInv, TypeOK, IndicesOf
  <2>3. /\ receipts \in [Actions -> [Calls -> Receipt]] /\ receipts[a] \in [Calls -> Receipt]
        /\ receipts[a][i] \in Receipt
    BY <2>1, <2>2 DEF ActionInv, TypeOK
  <2>4. receipts' = [receipts EXCEPT ![a][i].hash = h]
    BY <1>2 DEF ReportUpdate
  <2>5. receipts'[a][i] = new
    <3>1. receipts[a][i].outcome = "none"
      BY <2>1, <2>2 DEF ActionInv, OutcomesAreMined
    <3>. QED
      BY <2>1, <2>2, <2>3, <2>4, <3>1 DEF Receipt
  <2>6. /\ \A b \in Actions \ {a} : receipts'[b] = receipts[b]
        /\ \A j \in Calls \ {i} : receipts'[a][j] = receipts[a][j]
    BY <2>1, <2>3, <2>4
  <2>7. h # NoTx
    BY <2>1, ActionAssumption
  <2>8. i \notin Reported(a) /\ Reported(a)' = Reported(a) \cup {i}
    <3>1. receipts'[a][i].hash # NoTx
      BY <2>5, <2>7
    <3>2. i \notin Reported(a)
      BY <2>1 DEF Reported
    <3>. HIDE DEF new
    <3>3. \A j \in Calls : receipts'[a][j].hash # NoTx <=> j = i \/ receipts[a][j].hash # NoTx
      BY <2>6, <3>1
    <3>4. Reported(a)' = {j \in Calls : receipts'[a][j].hash # NoTx}
      BY DEF Reported
    <3>. QED
      BY <2>2, <3>2, <3>3, <3>4 DEF Reported
  <2>9. LogOf(a) /\ LogOf(a)'
    BY <2>1, LogsAre, LogsBecome
  <2>. HIDE DEF new
  <2>10. i = n /\ Cardinality(Reported(a)') = n + 1
    <3>. DEFINE m == Cardinality(Reported(a)')
    <3>1. n \in Nat /\ Reported(a) = 0..(n - 1) /\ m \in Nat /\ Reported(a)' = 0..(m - 1)
      BY <2>9 DEF LogOf
    <3>. HIDE DEF n, m
    <3>2. i >= n
      BY <2>2, <2>8, <3>1
    <3>3. ASSUME i > n PROVE FALSE
      <4>1. n \in Calls
        BY <2>2, <3>1, <3>3
      <4>2. n \in Reported(a)
        BY <2>1, <3>3, <4>1 DEF Before
      <4>. QED
        BY <3>1, <4>2
    <3>4. i = n
      BY <2>2, <3>1, <3>2, <3>3
    <3>5. 0..(m - 1) = 0..n
      <4>1. 0..(n - 1) \cup {n} = 0..n
        BY <3>1
      <4>. QED
        BY <2>8, <3>1, <3>4, <4>1
    <3>6. m = n + 1
      <4>1. n \in 0..(m - 1) /\ n + 1 \notin 0..(m - 1)
        BY <3>1, <3>5
      <4>. QED
        BY <3>1, <4>1
    <3>. QED
      BY <3>4, <3>6 DEF m
  <2>11. ReceiptLog(a)' = Append(ReceiptLog(a), new)
    <3>1. /\ n \in Nat /\ ReceiptLog(a) \in Seq(Receipt) /\ Len(ReceiptLog(a)) = n
          /\ \A k \in 1..n : ReceiptLog(a)[k] = receipts[a][k - 1]
          /\ ReceiptLog(a)' \in Seq(Receipt) /\ Len(ReceiptLog(a)') = n + 1
          /\ \A k \in 1..(n + 1) : ReceiptLog(a)'[k] = receipts'[a][k - 1]
      BY <2>9, <2>10 DEF LogOf
    <3>2. new \in Receipt
      BY <2>1 DEF new, Receipt
    <3>0. i = n
      BY <2>10
    <3>. HIDE DEF n
    <3>3. \A k \in 1..n : k - 1 \in Calls /\ k - 1 # i
      <4>1. \A k \in 1..n : k - 1 \in IndicesOf(plan[a]) /\ k - 1 # i
        BY <2>2, <3>0, <3>1
      <4>. QED
        BY <2>2, <4>1
    <3>4. \A k \in 1..n : ReceiptLog(a)'[k] = ReceiptLog(a)[k]
      BY <2>6, <3>1, <3>3
    <3>5. ReceiptLog(a)'[n + 1] = new
      BY <2>5, <2>10, <3>1
    <3>. QED
      BY <3>1, <3>2, <3>4, <3>5
  <2>12. \A b \in Actions \ {a} : ReceiptLog(b)' = ReceiptLog(b)
    BY <2>6, LogStays
  <2>13. ~Log!Spent(h)
    <3>. SUFFICES ASSUME NEW b \in Actions, NEW k \in DOMAIN ReceiptLog(b),
                         ReceiptLog(b)[k].hash = h
                  PROVE  FALSE
      BY DEF Log!Spent
    <3>1. LogOf(b)
      BY LogsAre
    <3>2. k - 1 \in Reported(b) /\ ReceiptLog(b)[k] = receipts[b][k - 1]
      BY <3>1 DEF LogOf
    <3>3. HashTaken(h)
      BY <3>2 DEF HashTaken, Reported
    <3>. QED
      BY <1>2, <3>3 DEF InsertsAreNew
  <2>14. Len(ReceiptLog(a)) < Len(plan[a])
    BY <2>2, <2>9, <2>10 DEF LogOf
  <2>15. Log!Enter(a, h)
    BY <1>0, <2>1, <2>11, <2>12, <2>13, <2>14 DEF Log!Enter, new
  <2>. QED
    BY <2>1, <2>15 DEF Log!Next
<1>. QED
  BY <1>1, <1>2

\* The outcome stored is the first of its receipt, or the one that is there.
LEMMA LogTells ==
  ASSUME ActionInv, ActionInv', NEW r \in Requests, ConfirmReceipt(r)
  PROVE  Log!Next \/ UNCHANGED <<plan, simulated, receipts>>
<1>. PICK a, i, outcome : a = req[r].act /\ i = req[r].call /\ outcome = mined[req[r].hash]
  OBVIOUS
<1>0. UNCHANGED <<plan, simulated>>
  BY DEF ConfirmReceipt
<1>1. /\ a \in Actions /\ i \in Calls /\ req[r].hash \in TxHashes
      /\ receipts[a][i].hash = req[r].hash /\ outcome \in {"success", "reverted"}
      /\ receipts \in [Actions -> [Calls -> Receipt]] /\ receipts[a] \in [Calls -> Receipt]
      /\ receipts[a][i] \in Receipt
  BY DEF ActionInv, TypeOK, Carried, Knows, Reporting, ConfirmReceipt
<1>2. receipts' = [receipts EXCEPT ![a][i].outcome = outcome]
  BY DEF ConfirmReceipt
<1>3. CASE receipts[a][i].outcome # "none"
  <2>1. receipts'[a][i] = receipts[a][i]
    BY <1>1, <1>3, ConfirmKeepsReceipts
  <2>2. receipts' = receipts
    BY <1>1, <1>2, <2>1
  <2>. QED
    BY <1>0, <2>2
<1>4. CASE receipts[a][i].outcome = "none"
  <2>1. i \in Reported(a)
    BY <1>1, ActionAssumption DEF Reported
  <2>2. /\ receipts'[a][i] = [receipts[a][i] EXCEPT !.outcome = outcome]
        /\ \A b \in Actions \ {a} : receipts'[b] = receipts[b]
        /\ \A j \in Calls \ {i} : receipts'[a][j] = receipts[a][j]
    BY <1>1, <1>2
  <2>3. Reported(a)' = Reported(a)
    <3>1. receipts'[a][i].hash = receipts[a][i].hash
      BY <1>1, <2>2 DEF Receipt
    <3>. QED
      BY <1>1, <2>2, <3>1 DEF Reported
  <2>4. LogOf(a) /\ LogOf(a)'
    BY <1>1, LogsAre, LogsBecome
  <2>5. ReceiptLog(a)' = [ReceiptLog(a) EXCEPT ![i + 1].outcome = outcome]
    <3>. DEFINE n == Cardinality(Reported(a))
    <3>1. /\ n \in Nat /\ Reported(a) = 0..(n - 1)
          /\ ReceiptLog(a) = [k \in 1..n |-> receipts[a][k - 1]]
          /\ ReceiptLog(a)' = [k \in 1..n |-> receipts'[a][k - 1]]
      BY <2>3, <2>4 DEF LogOf, ReceiptLog
    <3>. HIDE DEF n
    <3>. DEFINE told == [receipts[a][i] EXCEPT !.outcome = outcome]
    <3>2. i + 1 \in 1..n /\ (i + 1) - 1 = i
      BY <2>1, <3>1
    <3>3. \A k \in 1..n : receipts'[a][k - 1] = IF k = i + 1 THEN told ELSE receipts[a][k - 1]
      <4>. SUFFICES ASSUME NEW k \in 1..n
                    PROVE  receipts'[a][k - 1] = IF k = i + 1 THEN told ELSE receipts[a][k - 1]
        OBVIOUS
      <4>1. k - 1 \in Calls
        <5>1. k - 1 \in 0..(n - 1)
          BY <3>1
        <5>. QED
          BY <3>1, <5>1 DEF Reported
      <4>2. CASE k = i + 1
        BY <2>2, <3>2, <4>2
      <4>3. CASE k # i + 1
        <5>1. k - 1 # i
          BY <3>1, <4>3
        <5>. QED
          BY <2>2, <4>1, <4>3, <5>1
      <4>. QED
        BY <4>2, <4>3
    <3>4. [ReceiptLog(a) EXCEPT ![i + 1].outcome = outcome] = [ReceiptLog(a) EXCEPT ![i + 1] = told]
      <4>1. ReceiptLog(a)[i + 1] = receipts[a][i]
        BY <3>1, <3>2
      <4>. QED
        BY <4>1
    <3>. HIDE DEF told
    <3>5. [ReceiptLog(a) EXCEPT ![i + 1] = told] =
            [k \in 1..n |-> IF k = i + 1 THEN told ELSE receipts[a][k - 1]]
      BY <3>1, <3>2
    <3>6. ReceiptLog(a)' = [k \in 1..n |-> IF k = i + 1 THEN told ELSE receipts[a][k - 1]]
      BY <3>1, <3>3
    <3>. QED
      BY <3>4, <3>5, <3>6
  <2>6. \A b \in Actions \ {a} : ReceiptLog(b)' = ReceiptLog(b)
    BY <2>2, LogStays
  <2>7. i + 1 \in DOMAIN ReceiptLog(a) /\ ReceiptLog(a)[i + 1] = receipts[a][i]
    <3>. DEFINE n == Cardinality(Reported(a))
    <3>1. /\ n \in Nat /\ i \in 0..(n - 1) /\ ReceiptLog(a) = [k \in 1..n |-> receipts[a][k - 1]]
      BY <2>1, <2>4 DEF LogOf, ReceiptLog
    <3>. HIDE DEF n
    <3>2. i + 1 \in 1..n /\ (i + 1) - 1 = i
      BY <3>1
    <3>. QED
      BY <3>1, <3>2
  <2>8. Log!Tell(a, i + 1, outcome)
    BY <1>0, <1>1, <1>4, <2>5, <2>6, <2>7 DEF Log!Tell
  <2>. QED
    BY <1>1, <2>7, <2>8 DEF Log!Next
<1>. QED
  BY <1>3, <1>4

\* Every step is a step of the log, or leaves it.
LEMMA LogStep ==
  ASSUME ActionInv, ActionInv', InsertsAreNew, [Next]_vars
  PROVE  Log!Next \/ UNCHANGED <<plan, simulated, receipts>>
<1>1. CASE Next
  BY <1>1, LogChanges, LogOpens, LogTries, LogEnters, LogTells
<1>2. CASE UNCHANGED vars
  BY <1>2 DEF vars, tableVars
<1>. QED
  BY <1>1, <1>2

-----------------------------------------------------------------------------
(* Theorems                                                                 *)

\* For all constants, every column and every local of the requests keeps its type, and the
\* CHECK constraints of prepared_action hold (0004:14-103).
THEOREM ActionTypeCorrect == Spec => []TypeOK
<1>1. ActionInv => TypeOK
  BY DEF ActionInv
<1>. QED
  BY <1>1, InvHolds, PTL

\* For all constants, whatever reports run at once, a call is reported only after every
\* call before it (action-service.ts:440-446).
THEOREM ReportsInOrder == Spec => []ReceiptsInOrder
<1>1. ActionInv => ReceiptsInOrder
  BY DEF ActionInv, Ordered, Before, ReceiptsInOrder
<1>. QED
  BY <1>1, InvHolds, PTL

\* For all constants, a call is simulated only after every call before it was reported
\* (action-service.ts:113-116, 387-394).
THEOREM SimulationsInOrder == Spec => []SimulatedInOrder
<1>1. ActionInv => SimulatedInOrder
  BY DEF ActionInv, Ordered, Before, SimulatedInOrder
<1>. QED
  BY <1>1, InvHolds, PTL

\* For all constants, a sent action has a hash for every call, and a settled one the
\* outcome of its last call (actions.ts:291-294).
THEOREM OutcomesAreOfOperations == Spec => []OutcomeIsTheOperations
<1>1. ActionInv => OutcomeIsTheOperations
  BY DEF ActionInv
<1>. QED
  BY <1>1, InvHolds, PTL

\* For all constants, no reported hash is replaced and no stored outcome is taken back
\* (actions.ts:206-209, action-service.ts:487-490).
THEOREM ReceiptsStay == Spec => ReceiptsAreKept
<1>1. ActionInv /\ [Next]_vars =>
        [\A a \in Actions, i \in Calls :
           /\ i \in Reported(a) => receipts'[a][i].hash = receipts[a][i].hash
           /\ receipts[a][i].outcome # "none" => receipts'[a][i] = receipts[a][i]]_vars
  BY ReceiptsStep DEF Kept
<1>. QED
  BY <1>1, InvHolds, PTL DEF Spec, ReceiptsAreKept

\* For all constants, the three tables behave as the log of CallLog, though several
\* transactions write them at once: a report appends the next call of its action under a
\* hash that stands for no other call of any, its outcome is told once, and no call beyond
\* the next is tried (actions.ts:206-270, 0004:157-161 and 199-200).
THEOREM KeepsTheCallLog == Spec => KeepsCallLog
<1>. DEFINE logs == [a \in Actions |-> ReceiptLog(a)]
<1>1. Init => Log!Init /\ InsertsAreNew
  <2>. SUFFICES ASSUME Init PROVE Log!Init /\ InsertsAreNew
    OBVIOUS
  <2>1. ASSUME NEW a \in Actions PROVE ReceiptLog(a) = <<>>
    <3>1. Reported(a) = {}
      BY DEF Init, Reported, NoReceipt
    <3>2. Cardinality(Reported(a)) = 0
      BY <3>1, FS_EmptySet
    <3>. QED
      BY <3>2 DEF ReceiptLog
  <2>. QED
    BY <2>1 DEF Init, Log!Init, InsertsAreNew, NoRequest
<1>2. ActionInv /\ ActionInv' /\ InsertsAreNew /\ [Next]_vars
        => [Log!Next]_<<plan, simulated, logs>>
  <2>. SUFFICES ASSUME ActionInv, ActionInv', InsertsAreNew, [Next]_vars,
                       UNCHANGED <<plan, simulated, receipts>>
                PROVE  UNCHANGED <<plan, simulated, logs>>
    BY LogStep
  <2>. QED
    BY LogStays
<1>. QED
  BY <1>1, <1>2, InsertsStayNew, InvHolds, PTL DEF Spec, KeepsCallLog, Log!Spec

\* For any number of concurrent requests, actions and hashes, the call that is called signable
\* was itself simulated and every call before it was reported, whatever attempts and reports
\* came between the statements of the answer (action-service.ts:387-396).
THEOREM OffersEarned == Spec => []OffersAreEarned
<1>1. Init => ActionInv /\ NewestIsStored
  BY InvInit DEF Init, NewestIsStored, NoSimulation
<1>2. ActionInv /\ NewestIsStored /\ [Next]_vars => ActionInv' /\ NewestIsStored'
  <2>1. CASE UNCHANGED vars
    BY <2>1, InvStep DEF NewestIsStored, vars, tableVars
  <2>. QED
    BY <2>1, InvStep, NewestStep
<1>3. ActionInv /\ NewestIsStored => OffersAreEarned
  <2>. SUFFICES ASSUME ActionInv, NewestIsStored,
                       NEW r \in Requests, pc[r] = "judge", Signable(r)
                PROVE  /\ req[r].count \in simulated[req[r].act]
                       /\ Before(req[r].act, req[r].count)
    BY DEF OffersAreEarned, Before
  <2>1. req[r].act \in Actions
    BY DEF ActionInv, Knows, Reading
  <2>2. newest[req[r].act].ok /\ newest[req[r].act].call = req[r].count
    BY DEF Signable
  <2>3. req[r].count \in simulated[req[r].act]
    BY <2>1, <2>2 DEF NewestIsStored
  <2>. QED
    BY <2>1, <2>3 DEF ActionInv, Ordered
<1>. QED
  BY <1>1, <1>2, <1>3, PTL DEF Spec

=============================================================================
