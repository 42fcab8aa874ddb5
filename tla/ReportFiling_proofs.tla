------------------------- MODULE ReportFiling_proofs -------------------------
(****************************************************************************)
(* Theorems of ReportFiling, for any number of requests, policies, blocks   *)
(* and repairs: what is served is what is stored, and the versions of a     *)
(* policy count its changes.                                                *)
(*                                                                          *)
(* Both are about transactions that cannot see each other.  The invariants  *)
(* say what each one knows at each of its statements, and that two of them  *)
(* never hold the same key at once.                                         *)
(****************************************************************************)
EXTENDS ReportFiling, FiniteSetTheorems, TLAPS

\* A request carries what NoRequest names.
Fields == {"policy", "days", "asOf", "end", "start", "flows", "cites", "deployed", "number",
           "newRow", "newVersion", "id", "document", "created"}
Shaped(q) == q = [f \in Fields |-> q[f]]

\* The rows of the three tables have their columns.
Columns ==
  /\ \A report \in reports :
       report = [id |-> report.id, document |-> report.document,
                 cites |-> report.cites, canonical |-> report.canonical]
  /\ \A v \in versions : v = [policy |-> v.policy, number |-> v.number]
  /\ \A row \in results :
       row = [report |-> row.report, policy |-> row.policy, rule |-> row.rule,
              verdict |-> row.verdict]

Carrying ==
  /\ pc = [r \in Requests |-> pc[r]]
  /\ req = [r \in Requests |-> req[r]]
  /\ \A r \in Requests : Shaped(req[r])

Judging == {"policy", "version", "report"}
Storing == {"version", "report", "commit"}

\* The documents that are stored under an id.
Documents(id) == {report.document : report \in Stored(id)}

\* What a request at some place knows of the reports that are stored.
Serves(place, q) ==
  /\ q.created \in BOOLEAN
  /\ place \in Judging \/ q.created => q.document.policy = q.policy
  /\ q.created => place = "commit" /\ Stored(q.id) = {}
  /\ place = "answered" \/ (place = "commit" /\ ~q.created) => Documents(q.id) = {q.document}

\* No two open transactions insert a report under one id.
InsertsDiffer ==
  \A q, r \in Requests : q # r /\ req[q].created /\ req[r].created => req[q].id # req[r].id

\* The verdicts of a report, without its id.
VerdictsOf(id) ==
  {[policy |-> row.policy, rule |-> row.rule, verdict |-> row.verdict] :
     row \in {s \in results : s.report = id}}

DocumentVerdicts(document) ==
  {[policy |-> document.policy, rule |-> k,
    verdict |-> document.evaluation.rules[k]] : k \in RuleKeys}

ServingInv ==
  /\ Columns /\ Carrying
  /\ \A r \in Requests : Serves(pc[r], req[r])
  /\ InsertsDiffer
  /\ \A x, y \in reports : x.id = y.id => x.document = y.document
  /\ \A row \in results : \E report \in reports : report.id = row.report
  /\ \A report \in reports : VerdictsOf(report.id) = DocumentVerdicts(report.document)

\* The numbers of a policy's versions, and their contents.
Numbers(row) == {v.number : v \in VersionsOf(row)}
Contents(row) == {v.policy : v \in VersionsOf(row)}

\* The versions of a policy are numbered from one, and their contents differ.
Counted(row) ==
  /\ IsFiniteSet(VersionsOf(row))
  /\ IsFiniteSet(Contents(row))
  /\ Numbers(row) = 1..Cardinality(VersionsOf(row))
  /\ Cardinality(Contents(row)) = Cardinality(VersionsOf(row))

Taken(q) ==
  \E v \in VersionsOf(PolicyRow[q.policy]) : v.number = q.number \/ v.policy = q.policy

\* What a request knows of the versions that are stored.
Counts(place, q) ==
  place \in Storing =>
    /\ q.newVersion \in BOOLEAN
    /\ ~q.newVersion => [policy |-> q.policy, number |-> q.number] \in versions
    /\ q.newVersion => q.number \in 1..(Cardinality(VersionsOf(PolicyRow[q.policy])) + 1)
    /\ q.newVersion /\ place \in {"report", "commit"} => ~Taken(q)

\* No two open transactions insert a version of one policy with one number or one content.
VersionsDiffer ==
  \A q, r \in Requests :
    /\ q # r
    /\ req[q].newVersion /\ pc[q] \in {"report", "commit"}
    /\ req[r].newVersion /\ pc[r] \in {"report", "commit"}
    /\ PolicyRow[req[q].policy] = PolicyRow[req[r].policy]
    => req[q].number # req[r].number /\ req[q].policy # req[r].policy

CountingInv ==
  /\ Columns /\ Carrying
  /\ \A v \in versions : Counted(PolicyRow[v.policy])
  /\ \A r \in Requests : Counts(pc[r], req[r])
  /\ VersionsDiffer

FilingInv == ServingInv /\ CountingInv

-----------------------------------------------------------------------------
(* Tables that stay                                                         *)

\* A request that carries nothing has every field.
LEMMA NoRequestIsShaped == Shaped(NoRequest)
BY DEF Shaped, NoRequest, Fields

\* No report, no request has come so far, and at most the first version of one policy.
LEMMA InvInit == Init => FilingInv
<1>. SUFFICES ASSUME Init PROVE FilingInv
  OBVIOUS
<1>1. Shaped(NoRequest) /\ ~NoRequest.created
  BY NoRequestIsShaped DEF NoRequest
<1>2. Carrying
  BY <1>1 DEF Init, Carrying
<1>3. versions = {} \/ \E p \in Known : versions = {[policy |-> p, number |-> 1]}
  BY DEF Init
<1>4. Columns
  BY <1>3 DEF Init, Columns
<1>5. ServingInv
  BY <1>1, <1>2, <1>4 DEF Init, ServingInv, Serves, InsertsDiffer, Judging, NoRequest
<1>6. \A v \in versions : Counted(PolicyRow[v.policy])
  <2>1. SUFFICES ASSUME NEW p \in Known, versions = {[policy |-> p, number |-> 1]}
                 PROVE  Counted(PolicyRow[p])
    BY <1>3
  <2>2. VersionsOf(PolicyRow[p]) = {[policy |-> p, number |-> 1]}
    BY <2>1 DEF VersionsOf
  <2>3. Contents(PolicyRow[p]) = {p} /\ Numbers(PolicyRow[p]) = {1}
    BY <2>2 DEF Contents, Numbers
  <2>4. \A x : IsFiniteSet({x}) /\ Cardinality({x}) = 1
    BY FS_Singleton
  <2>5. 1..1 = {1}
    OBVIOUS
  <2>. QED
    BY <2>2, <2>3, <2>4, <2>5 DEF Counted
<1>7. CountingInv
  BY <1>2, <1>4, <1>6 DEF Init, CountingInv, Counts, VersionsDiffer, Storing
<1>. QED
  BY <1>5, <1>7 DEF FilingInv

\* Nothing that a request has stored or carries changes.
LEMMA TablesStay == FilingInv /\ UNCHANGED <<tableVars, requestVars>> => FilingInv'
<1>. SUFFICES ASSUME FilingInv, UNCHANGED <<rows, versions, reports, results, pc, req>>
              PROVE  FilingInv'
  BY DEF tableVars, requestVars
<1>1. Columns' /\ Carrying'
  BY DEF FilingInv, ServingInv, Columns, Carrying
<1>2. \A r \in Requests : Serves(pc[r], req[r])' /\ Counts(pc[r], req[r])'
  BY DEF FilingInv, ServingInv, CountingInv, Serves, Documents, Stored, Counts, Taken, VersionsOf
<1>3. ServingInv'
  BY <1>1, <1>2 DEF FilingInv, ServingInv, InsertsDiffer, VerdictsOf, DocumentVerdicts
<1>4. CountingInv'
  BY <1>1, <1>2 DEF FilingInv, CountingInv, Counted, VersionsOf, Contents, Numbers, VersionsDiffer
<1>. QED
  BY <1>3, <1>4 DEF FilingInv

\* A repair marks reports and changes no other column.
LEMMA RepairKeeps == FilingInv /\ Repair => FilingInv'
<1>. SUFFICES ASSUME FilingInv, Repair PROVE FilingInv'
  OBVIOUS
<1>1. UNCHANGED <<rows, versions, results, pc, req>>
  BY DEF Repair, requestVars
<1>2. PICK h \in 0..(Len(ledger) - 1) :
        reports' = {[report EXCEPT !.canonical = @ /\ \A c \in report.cites : c[1] <= h] :
                      report \in reports}
  BY DEF Repair
<1>. DEFINE Canonical(report) == report.canonical /\ \A c \in report.cites : c[1] <= h
            Marked(report) == [report EXCEPT !.canonical = Canonical(report)]
<1>3. ASSUME NEW report \in reports
      PROVE  /\ Marked(report).id = report.id /\ Marked(report).document = report.document
             /\ Marked(report) = [id |-> report.id, document |-> report.document,
                                  cites |-> report.cites, canonical |-> Canonical(report)]
  <2>1. report = [id |-> report.id, document |-> report.document,
                  cites |-> report.cites, canonical |-> report.canonical]
    BY DEF FilingInv, ServingInv, Columns
  <2>. HIDE DEF Canonical
  <2>. QED
    BY <2>1
<1>4. /\ \A x \in reports : \E y \in reports' : y.id = x.id /\ y.document = x.document
      /\ \A y \in reports' : \E x \in reports : y.id = x.id /\ y.document = x.document
      /\ \A y \in reports' : y = [id |-> y.id, document |-> y.document,
                                  cites |-> y.cites, canonical |-> y.canonical]
  <2>1. reports' = {Marked(report) : report \in reports}
    BY <1>2
  <2>. HIDE DEF Canonical
  <2>2. \A y \in reports' : y = [id |-> y.id, document |-> y.document,
                                  cites |-> y.cites, canonical |-> y.canonical]
    BY <1>3, <2>1
  <2>. HIDE DEF Marked
  <2>. QED
    BY <1>3, <2>1, <2>2
<1>5. \A id : Documents(id)' = Documents(id) /\ (Stored(id)' = {} <=> Stored(id) = {})
  BY <1>4 DEF Documents, Stored
<1>6. Columns' /\ Carrying'
  BY <1>1, <1>4 DEF FilingInv, ServingInv, Columns, Carrying
<1>7. \A r \in Requests : Serves(pc[r], req[r])'
  BY <1>1, <1>5 DEF FilingInv, ServingInv, Serves
<1>8. InsertsDiffer'
  BY <1>1 DEF FilingInv, ServingInv, InsertsDiffer
<1>9. /\ \A x, y \in reports' : x.id = y.id => x.document = y.document
      /\ \A row \in results' : \E report \in reports' : report.id = row.report
  BY <1>1, <1>4 DEF FilingInv, ServingInv
<1>10. \A report \in reports' : VerdictsOf(report.id)' = DocumentVerdicts(report.document)
  BY <1>1, <1>4 DEF FilingInv, ServingInv, VerdictsOf
<1>11. ServingInv'
  BY <1>6, <1>7, <1>8, <1>9, <1>10 DEF ServingInv, DocumentVerdicts
<1>12. CountingInv'
  BY <1>1, <1>6 DEF FilingInv, CountingInv, Counted, VersionsOf, Contents, Numbers, Counts,
     Taken, VersionsDiffer
<1>. QED
  BY <1>11, <1>12 DEF FilingInv

\* One request moves on, with what it then knows, and the tables stay.
LEMMA Move ==
  ASSUME FilingInv, UNCHANGED tableVars, NEW r \in Requests, NEW place, NEW q,
         Goto(r, place), req' = [req EXCEPT ![r] = q],
         Shaped(q), Serves(place, q), Counts(place, q),
         q.created => \A o \in Requests \ {r} : req[o].created => req[o].id # q.id,
         q.newVersion /\ place \in {"report", "commit"} =>
           \A o \in Requests \ {r} :
             /\ req[o].newVersion /\ pc[o] \in {"report", "commit"}
             /\ PolicyRow[req[o].policy] = PolicyRow[q.policy]
             => req[o].number # q.number /\ req[o].policy # q.policy
  PROVE  FilingInv'
<1>1. Carrying
  BY DEF FilingInv, ServingInv
<1>2. /\ pc'[r] = place /\ req'[r] = q
      /\ \A o \in Requests \ {r} : pc'[o] = pc[o] /\ req'[o] = req[o]
      /\ pc' = [o \in Requests |-> pc'[o]] /\ req' = [o \in Requests |-> req'[o]]
  BY <1>1 DEF Carrying, Goto
<1>3. Columns' /\ Carrying'
  BY <1>1, <1>2 DEF FilingInv, ServingInv, Columns, Carrying, tableVars
<1>4. \A o \in Requests : Serves(pc'[o], req'[o]) /\ Counts(pc'[o], req'[o])
  BY <1>2 DEF FilingInv, ServingInv, CountingInv
<1>5. \A o \in Requests : Serves(pc[o], req[o])' /\ Counts(pc[o], req[o])'
  BY <1>4 DEF Serves, Documents, Stored, Counts, Taken, VersionsOf, tableVars
<1>6. InsertsDiffer'
  BY <1>2 DEF FilingInv, ServingInv, InsertsDiffer
<1>7. VersionsDiffer'
  BY <1>2 DEF FilingInv, CountingInv, VersionsDiffer
<1>8. ServingInv'
  BY <1>3, <1>5, <1>6 DEF FilingInv, ServingInv, VerdictsOf, DocumentVerdicts, tableVars
<1>9. CountingInv'
  BY <1>3, <1>5, <1>7 DEF FilingInv, CountingInv, Counted, VersionsOf, Contents, Numbers,
     tableVars
<1>. QED
  BY <1>8, <1>9 DEF FilingInv

\* A request ends.
LEMMA Ends ==
  ASSUME FilingInv, UNCHANGED tableVars, NEW r \in Requests, EndRequest(r)
  PROVE  FilingInv'
<1>1. Serves("ended", NoRequest) /\ Counts("ended", NoRequest)
  BY DEF NoRequest, Serves, Counts, Judging, Storing
<1>. QED
  BY <1>1, NoRequestIsShaped, Move DEF EndRequest, NoRequest

-----------------------------------------------------------------------------
(* Requests up to their commit                                              *)

\* A request reads: it holds nothing yet.
LEMMA Reads ==
  ASSUME FilingInv, UNCHANGED tableVars, NEW r \in Requests,
         NEW place \in {"end", "start", "flows", "evaluate"}, NEW q,
         pc[r] # "commit", Goto(r, place), req' = [req EXCEPT ![r] = q],
         Shaped(q), q.created = req[r].created
  PROVE  FilingInv'
<1>1. q.created = FALSE
  BY DEF FilingInv, ServingInv, Serves
<1>2. Serves(place, q) /\ Counts(place, q)
  BY <1>1 DEF Serves, Counts, Judging, Storing
<1>. QED
  BY <1>1, <1>2, Move

\* The question, from a cursor.
LEMMA AskKeeps == ASSUME FilingInv, NEW r \in Requests, Ask(r) PROVE FilingInv'
<1>1. CASE EndRequest(r)
  BY <1>1, Ends DEF Ask
<1>2. ASSUME NEW p, NEW d, Goto(r, "end"),
             req' = [req EXCEPT ![r].policy = p, ![r].days = d, ![r].asOf = Len(ledger)]
      PROVE  FilingInv'
  <2>. DEFINE q == [req[r] EXCEPT !.policy = p, !.days = d, !.asOf = Len(ledger)]
  <2>1. Shaped(req[r]) /\ req = [o \in Requests |-> req[o]]
    BY DEF FilingInv, ServingInv, Carrying
  <2>2. Shaped(q) /\ q.created = req[r].created
    BY <2>1 DEF Shaped, Fields
  <2>3. req' = [req EXCEPT ![r] = q]
    BY <1>2, <2>1
  <2>. HIDE DEF q
  <2>. QED
    BY <1>2, <2>2, <2>3, Reads DEF Ask
<1>. QED
  BY <1>1, <1>2 DEF Ask

\* The first of the three reads of the window: where it ends.
LEMMA ReadEndKeeps == ASSUME FilingInv, NEW r \in Requests, ReadEnd(r) PROVE FilingInv'
<1>1. CASE EndRequest(r)
  BY <1>1, Ends DEF ReadEnd
<1>2. ASSUME NEW end, Goto(r, "start"), req' = [req EXCEPT ![r].end = end] PROVE FilingInv'
  <2>. DEFINE q == [req[r] EXCEPT !.end = end]
  <2>1. Shaped(req[r]) /\ req = [o \in Requests |-> req[o]]
    BY DEF FilingInv, ServingInv, Carrying
  <2>2. Shaped(q) /\ q.created = req[r].created
    BY <2>1 DEF Shaped, Fields
  <2>3. req' = [req EXCEPT ![r] = q]
    BY <1>2, <2>1
  <2>. HIDE DEF q
  <2>. QED
    BY <1>2, <2>2, <2>3, Reads DEF ReadEnd
<1>. QED
  BY <1>1, <1>2 DEF ReadEnd

\* The second read: where the window starts.
LEMMA ReadStartKeeps == ASSUME FilingInv, NEW r \in Requests, ReadStart(r) PROVE FilingInv'
<1>1. PICK start : req' = [req EXCEPT ![r].start = start, ![r].asOf = 0]
  BY DEF ReadStart
<1>. DEFINE q == [req[r] EXCEPT !.start = start, !.asOf = 0]
<1>2. Shaped(req[r]) /\ req = [o \in Requests |-> req[o]]
  BY DEF FilingInv, ServingInv, Carrying
<1>3. Shaped(q) /\ q.created = req[r].created
  BY <1>2 DEF Shaped, Fields
<1>4. req' = [req EXCEPT ![r] = q]
  BY <1>1, <1>2
<1>. HIDE DEF q
<1>. QED
  BY <1>3, <1>4, Reads DEF ReadStart

\* The third read: the flows of the window, and what the report will cite.
LEMMA ReadFlowsKeeps == ASSUME FilingInv, NEW r \in Requests, ReadFlows(r) PROVE FilingInv'
<1>1. PICK flows, cites, t : req' = [req EXCEPT ![r].flows = flows, ![r].cites = cites,
                                                ![r].deployed = t]
  BY DEF ReadFlows
<1>. DEFINE q == [req[r] EXCEPT !.flows = flows, !.cites = cites, !.deployed = t]
<1>2. Shaped(req[r]) /\ req = [o \in Requests |-> req[o]]
  BY DEF FilingInv, ServingInv, Carrying
<1>3. Shaped(q) /\ q.created = req[r].created
  BY <1>2 DEF Shaped, Fields
<1>4. req' = [req EXCEPT ![r] = q]
  BY <1>1, <1>2
<1>. HIDE DEF q
<1>. QED
  BY <1>3, <1>4, Reads DEF ReadFlows

\* The document that goes into the transaction judges by the request's own policy.
LEMMA EvaluateKeeps == ASSUME FilingInv, NEW r \in Requests, Evaluate(r) PROVE FilingInv'
<1>1. CASE EndRequest(r)
  BY <1>1, Ends DEF Evaluate
<1>2. ASSUME NEW id, NEW cites, Goto(r, "policy"),
             req' = [req EXCEPT ![r] = [NoRequest EXCEPT !.policy = req[r].policy, !.id = id,
                                          !.document = Document(req[r]), !.cites = cites]]
      PROVE  FilingInv'
  <2>. DEFINE q == [NoRequest EXCEPT !.policy = req[r].policy, !.id = id,
                                     !.document = Document(req[r]), !.cites = cites]
  <2>1. Document(req[r]).policy = req[r].policy
    BY DEF Document
  <2>2. Shaped(q)
    BY NoRequestIsShaped DEF Shaped, Fields
  <2>5. q.created = FALSE /\ q.newVersion = FALSE /\ q.policy = req[r].policy
        /\ q.document = Document(req[r])
    BY DEF NoRequest
  <2>3. req' = [req EXCEPT ![r] = q]
    BY <1>2
  <2>. HIDE DEF q
  <2>4. Serves("policy", q) /\ Counts("policy", q)
    BY <2>1, <2>5 DEF Serves, Counts, Judging, Storing
  <2>. QED
    BY <1>2, <2>2, <2>3, <2>4, <2>5, Move DEF Evaluate
<1>. QED
  BY <1>1, <1>2 DEF Evaluate

\* A policy without a version has them numbered up to zero.
LEMMA AllCounted ==
  ASSUME FilingInv, NEW row
  PROVE  /\ Counted(row)
         /\ Cardinality(VersionsOf(row)) \in Nat
<1>1. Counted(row)
  <2>1. CASE VersionsOf(row) = {}
    <3>1. Contents(row) = {} /\ Numbers(row) = {}
      BY <2>1 DEF Contents, Numbers
    <3>2. IsFiniteSet({}) /\ Cardinality({}) = 0
      BY FS_EmptySet
    <3>3. 1..0 = {}
      OBVIOUS
    <3>. QED
      BY <2>1, <3>1, <3>2, <3>3 DEF Counted
  <2>2. CASE VersionsOf(row) # {}
    <3>1. PICK v \in versions : PolicyRow[v.policy] = row
      BY <2>2 DEF VersionsOf
    <3>. QED
      BY <3>1 DEF FilingInv, CountingInv
  <2>. QED
    BY <2>1, <2>2
<1>. QED
  BY <1>1, FS_CardinalityType DEF Counted

\* The content under its version, or the next number.
LEMMA StorePolicyKeeps == ASSUME FilingInv, NEW r \in Requests, StorePolicy(r) PROVE FilingInv'
<1>1. PICK policy : policy = req[r].policy
  OBVIOUS
<1>. DEFINE row == PolicyRow[policy]
            existing == {v \in versions : v.policy = policy}
            number == IF existing # {} THEN (CHOOSE v \in existing : TRUE).number
                                       ELSE Max({v.number : v \in VersionsOf(row)} \cup {0}) + 1
            q == [req[r] EXCEPT !.newRow = row \notin rows, !.newVersion = existing = {},
                                !.number = number]
<1>2. Shaped(req[r]) /\ req = [o \in Requests |-> req[o]] /\ Serves("policy", req[r])
  BY DEF FilingInv, ServingInv, Carrying, StorePolicy
<1>3. req' = [req EXCEPT ![r] = q] /\ Goto(r, "version") /\ UNCHANGED tableVars
  BY <1>1, <1>2 DEF StorePolicy
<1>4. existing # {} => [policy |-> policy, number |-> number] \in versions
  <2>1. SUFFICES ASSUME existing # {} PROVE [policy |-> policy, number |-> number] \in versions
    OBVIOUS
  <2>2. PICK v \in existing : v = CHOOSE w \in existing : TRUE
    BY <2>1
  <2>3. v = [policy |-> v.policy, number |-> v.number] /\ v \in versions
    BY DEF FilingInv, ServingInv, Columns
  <2>4. v.policy = policy /\ v.number = number
    BY <2>1, <2>2
  <2>. QED
    BY <2>3, <2>4
<1>5. existing = {} => number \in 1..(Cardinality(VersionsOf(row)) + 1)
  <2>1. PICK n \in Nat : n = Cardinality(VersionsOf(row))
    BY AllCounted
  <2>2. {v.number : v \in VersionsOf(row)} \cup {0} = 0..n
    <3>1. {v.number : v \in VersionsOf(row)} = 1..n
      BY <2>1, AllCounted DEF Counted, Numbers
    <3>. QED
      BY <3>1
  <2>3. Max(0..n) = n
    BY DEF Max
  <2>4. existing = {} => number = Max({v.number : v \in VersionsOf(row)} \cup {0}) + 1
    OBVIOUS
  <2>5. existing = {} => number = n + 1
    BY <2>2, <2>3, <2>4
  <2>. HIDE DEF number, existing
  <2>. QED
    BY <2>1, <2>5
<1>. HIDE DEF number
<1>6. /\ Shaped(q) /\ q.created = req[r].created /\ q.policy = policy
      /\ q.document = req[r].document
      /\ q.newVersion = (existing = {}) /\ q.number = number
  BY <1>1, <1>2 DEF Shaped, Fields
<1>. HIDE DEF q
<1>7. Serves("version", q) /\ ~q.created
  BY <1>1, <1>2, <1>6 DEF Serves, Judging
<1>8. Counts("version", q)
  BY <1>4, <1>5, <1>6 DEF Counts
<1>. QED
  BY <1>3, <1>6, <1>7, <1>8, Move

\* The version's insert waits for a contending one, and fails on one that was committed.
LEMMA InsertVersionKeeps ==
  ASSUME FilingInv, NEW r \in Requests, InsertVersion(r) PROVE FilingInv'
<1>1. /\ Shaped(req[r]) /\ req = [o \in Requests |-> req[o]]
      /\ Serves("version", req[r]) /\ Counts("version", req[r]) /\ UNCHANGED tableVars
  BY DEF FilingInv, ServingInv, CountingInv, Carrying, InsertVersion
<1>2. CASE EndRequest(r)
  BY <1>1, <1>2, Ends
<1>3. CASE /\ Goto(r, "report") /\ UNCHANGED req
           /\ req[r].newVersion => ~VersionContends(r) /\ ~VersionTaken(r)
  <2>1. Serves("report", req[r]) /\ ~req[r].created
    BY <1>1 DEF Serves, Judging
  <2>2. Counts("report", req[r])
    BY <1>1, <1>3 DEF Counts, Storing, VersionTaken, Taken
  <2>3. req' = [req EXCEPT ![r] = req[r]]
    BY <1>1, <1>3
  <2>4. req[r].newVersion =>
          \A o \in Requests \ {r} :
            /\ req[o].newVersion /\ pc[o] \in {"report", "commit"}
            /\ PolicyRow[req[o].policy] = PolicyRow[req[r].policy]
            => req[o].number # req[r].number /\ req[o].policy # req[r].policy
    BY <1>3 DEF VersionContends, Open
  <2>. QED
    BY <1>1, <1>3, <2>1, <2>2, <2>3, <2>4, Move
<1>. QED
  BY <1>2, <1>3 DEF InsertVersion

\* What VersionsDiffer says of a request that goes on to commit.
LEMMA StillDiffers ==
  ASSUME FilingInv, NEW r \in Requests, pc[r] = "report", req[r].newVersion,
         NEW o \in Requests \ {r}, req[o].newVersion, pc[o] \in {"report", "commit"},
         PolicyRow[req[o].policy] = PolicyRow[req[r].policy]
  PROVE  req[o].number # req[r].number /\ req[o].policy # req[r].policy
BY DEF FilingInv, CountingInv, VersionsDiffer

\* The stored report is served.
LEMMA ServeStoredKeeps == ASSUME FilingInv, NEW r \in Requests, ServeStored(r) PROVE FilingInv'
<1>1. PICK report \in Stored(req[r].id) : req' = [req EXCEPT ![r].document = report.document]
  BY DEF ServeStored
<1>. DEFINE q == [req[r] EXCEPT !.document = report.document]
<1>2. /\ Shaped(req[r]) /\ req = [o \in Requests |-> req[o]] /\ pc[r] = "report"
      /\ Serves("report", req[r]) /\ Counts("report", req[r])
      /\ Goto(r, "commit") /\ UNCHANGED tableVars
  BY DEF FilingInv, ServingInv, CountingInv, Carrying, ServeStored
<1>3. /\ Shaped(q) /\ q.created = req[r].created /\ q.policy = req[r].policy
      /\ q.number = req[r].number /\ q.newVersion = req[r].newVersion
      /\ q.id = req[r].id /\ q.document = report.document
  BY <1>2 DEF Shaped, Fields
<1>4. req' = [req EXCEPT ![r] = q]
  BY <1>1, <1>2
<1>. HIDE DEF q
<1>5. Documents(q.id) = {q.document}
  BY <1>1, <1>3 DEF FilingInv, ServingInv, Documents, Stored
<1>6. Serves("commit", q) /\ ~q.created
  BY <1>2, <1>3, <1>5 DEF Serves, Judging
<1>7. Counts("commit", q)
  BY <1>2, <1>3 DEF Counts, Storing, Taken
<1>. QED
  BY <1>2, <1>3, <1>4, <1>6, <1>7, StillDiffers, Move

\* The report's insert waits for one under its id, and holds the id until it commits.
LEMMA InsertReportKeeps ==
  ASSUME FilingInv, NEW r \in Requests, InsertReport(r) PROVE FilingInv'
<1>1. /\ Shaped(req[r]) /\ req = [o \in Requests |-> req[o]] /\ pc[r] = "report"
      /\ Serves("report", req[r]) /\ Counts("report", req[r])
      /\ ~ReportContends(r) /\ Stored(req[r].id) = {} /\ UNCHANGED tableVars
  BY DEF FilingInv, ServingInv, CountingInv, Carrying, InsertReport
<1>2. CASE EndRequest(r)
  BY <1>1, <1>2, Ends
<1>3. CASE req' = [req EXCEPT ![r].created = TRUE] /\ Goto(r, "commit")
  <2>. DEFINE q == [req[r] EXCEPT !.created = TRUE]
  <2>1. /\ Shaped(q) /\ q.created = TRUE /\ q.policy = req[r].policy
        /\ q.number = req[r].number /\ q.newVersion = req[r].newVersion
        /\ q.id = req[r].id /\ q.document = req[r].document
    BY <1>1 DEF Shaped, Fields
  <2>2. req' = [req EXCEPT ![r] = q]
    BY <1>1, <1>3
  <2>. HIDE DEF q
  <2>3. Serves("commit", q)
    BY <1>1, <2>1 DEF Serves, Judging
  <2>4. Counts("commit", q)
    BY <1>1, <2>1 DEF Counts, Storing, Taken
  <2>5. ASSUME NEW o \in Requests \ {r}, req[o].created PROVE req[o].id # q.id
    BY <1>1, <2>1, <2>5 DEF FilingInv, ServingInv, Serves, ReportContends, Open
  <2>. QED
    BY <1>1, <1>3, <2>1, <2>2, <2>3, <2>4, <2>5, StillDiffers, Move
<1>. QED
  BY <1>2, <1>3 DEF InsertReport

-----------------------------------------------------------------------------
(* The commit                                                               *)

\* The request that commits is answered and holds nothing any more; the tables keep their
\* columns.
LEMMA Answers ==
  ASSUME FilingInv, NEW r \in Requests, Commit(r)
  PROVE  /\ pc'[r] = "answered"
         /\ req'[r].created = FALSE /\ req'[r].newVersion = FALSE
         /\ req'[r].id = req[r].id /\ req'[r].document = req[r].document
         /\ \A o \in Requests \ {r} : pc'[o] = pc[o] /\ req'[o] = req[o]
         /\ Columns' /\ Carrying'
<1>. DEFINE q == [req[r] EXCEPT !.cites = {}, !.number = 0, !.newRow = FALSE,
                                !.newVersion = FALSE, !.created = FALSE]
<1>1. Carrying
  BY DEF FilingInv, ServingInv
<1>2. req' = [req EXCEPT ![r] = q]
  BY <1>1 DEF Carrying, Commit
<1>3. /\ Shaped(q) /\ q.created = FALSE /\ q.newVersion = FALSE
      /\ q.id = req[r].id /\ q.document = req[r].document
  BY <1>1 DEF Carrying, Shaped, Fields
<1>. HIDE DEF q
<1>4. /\ pc'[r] = "answered" /\ req'[r] = q
      /\ \A o \in Requests \ {r} : pc'[o] = pc[o] /\ req'[o] = req[o]
      /\ pc' = [o \in Requests |-> pc'[o]] /\ req' = [o \in Requests |-> req'[o]]
  BY <1>1, <1>2 DEF Carrying, Commit, Goto
<1>5. Carrying'
  BY <1>1, <1>3, <1>4 DEF Carrying
<1>6. Columns
  BY DEF FilingInv, ServingInv
<1>7. \A v \in versions' : v = [policy |-> v.policy, number |-> v.number]
  BY <1>6 DEF Columns, Commit
<1>8. \A report \in reports' :
        report = [id |-> report.id, document |-> report.document,
                  cites |-> report.cites, canonical |-> report.canonical]
  BY <1>6 DEF Columns, Commit
<1>9. \A row \in results' :
        row = [report |-> row.report, policy |-> row.policy, rule |-> row.rule,
               verdict |-> row.verdict]
  <2>1. results' = results \/ results' = results \cup RuleResults(req[r])
    BY DEF Commit
  <2>2. \A row \in RuleResults(req[r]) :
          row = [report |-> row.report, policy |-> row.policy, rule |-> row.rule,
                 verdict |-> row.verdict]
    BY DEF RuleResults
  <2>. QED
    BY <1>6, <2>1, <2>2 DEF Columns
<1>10. Columns'
  BY <1>7, <1>8, <1>9 DEF Columns
<1>. QED
  BY <1>3, <1>4, <1>5, <1>10

\* A report and its verdicts are stored together, under an id nobody else stores, or what
\* is stored was served.
LEMMA CommitServes == ASSUME FilingInv, NEW r \in Requests, Commit(r) PROVE ServingInv'
<1>1. PICK id, document, policy :
        id = req[r].id /\ document = req[r].document /\ policy = req[r].policy
  OBVIOUS
<1>2. /\ pc[r] = "commit" /\ Serves("commit", req[r])
      /\ pc'[r] = "answered" /\ ~req'[r].created /\ req'[r].created \in BOOLEAN
      /\ req'[r].id = id /\ req'[r].document = document
      /\ \A o \in Requests \ {r} : pc'[o] = pc[o] /\ req'[o] = req[o]
      /\ Columns' /\ Carrying'
  BY <1>1, Answers DEF FilingInv, ServingInv, Commit
<1>3. InsertsDiffer'
  BY <1>2 DEF FilingInv, ServingInv, InsertsDiffer
<1>4. CASE ~req[r].created
  <2>1. UNCHANGED <<reports, results>>
    BY <1>4 DEF Commit
  <2>2. \A x : Documents(x)' = Documents(x) /\ Stored(x)' = Stored(x)
             /\ VerdictsOf(x)' = VerdictsOf(x)
    BY <2>1 DEF Documents, Stored, VerdictsOf
  <2>3. Serves(pc[r], req[r])'
    BY <1>1, <1>2, <1>4, <2>2 DEF Serves, Judging
  <2>4. ASSUME NEW o \in Requests \ {r} PROVE Serves(pc[o], req[o])'
    BY <1>2, <2>2 DEF FilingInv, ServingInv, Serves
  <2>. QED
    BY <1>2, <1>3, <2>1, <2>2, <2>3, <2>4 DEF FilingInv, ServingInv, DocumentVerdicts
<1>5. CASE req[r].created
  <2>1. Stored(id) = {} /\ document.policy = policy
    BY <1>1, <1>2, <1>5 DEF Serves
  <2>. DEFINE new == [id |-> req[r].id, document |-> req[r].document,
                      cites |-> req[r].cites, canonical |-> TRUE]
  <2>2. PICK stored : /\ reports' = reports \cup {stored}
                      /\ stored.id = id /\ stored.document = document
    <3>1. reports' = reports \cup {new}
      BY <1>5 DEF Commit
    <3>2. new.id = id /\ new.document = document
      BY <1>1
    <3>. HIDE DEF new
    <3>. QED
      BY <3>1, <3>2
  <2>3. results' = results \cup
          {[report |-> id, policy |-> policy, rule |-> k,
            verdict |-> document.evaluation.rules[k]] : k \in RuleKeys}
    BY <1>1, <1>5 DEF Commit, RuleResults
  <2>4. \A x : x # id => Stored(x)' = Stored(x) /\ Documents(x)' = Documents(x)
    BY <2>2 DEF Stored, Documents
  <2>5. Stored(id)' = {stored} /\ Documents(id)' = {document}
    BY <2>1, <2>2 DEF Stored, Documents
  <2>6. Serves(pc[r], req[r])'
    BY <1>1, <1>2, <2>5 DEF Serves, Judging
  <2>7. ASSUME NEW o \in Requests \ {r} PROVE Serves(pc[o], req[o])'
    <3>1. Serves(pc[o], req[o]) /\ pc'[o] = pc[o] /\ req'[o] = req[o]
      BY <1>2 DEF FilingInv, ServingInv
    <3>2. CASE req[o].id # id
      BY <2>4, <3>1, <3>2 DEF Serves
    <3>3. CASE req[o].id = id
      <4>1. ~req[o].created
        BY <1>1, <1>5, <3>3 DEF FilingInv, ServingInv, InsertsDiffer
      <4>2. Documents(id) = {}
        BY <2>1 DEF Documents
      <4>. QED
        BY <3>1, <3>3, <4>1, <4>2 DEF Serves
    <3>. QED
      BY <3>2, <3>3
  <2>8. \A x, y \in reports' : x.id = y.id => x.document = y.document
    BY <2>1, <2>2 DEF FilingInv, ServingInv, Stored
  <2>9. \A row \in results' : \E report \in reports' : report.id = row.report
    BY <2>2, <2>3 DEF FilingInv, ServingInv
  <2>10. \A row \in results : row.report # id
    BY <2>1 DEF FilingInv, ServingInv, Stored
  <2>11. VerdictsOf(id)' = DocumentVerdicts(document)
    <3>. DEFINE Row(k) == [report |-> id, policy |-> policy, rule |-> k,
                           verdict |-> document.evaluation.rules[k]]
    <3>1. {row \in results' : row.report = id} = {Row(k) : k \in RuleKeys}
      BY <2>3, <2>10
    <3>2. \A k \in RuleKeys : /\ Row(k).policy = document.policy /\ Row(k).rule = k
                             /\ Row(k).verdict = document.evaluation.rules[k]
      BY <2>1
    <3>. HIDE DEF Row
    <3>3. VerdictsOf(id)' = {[policy |-> row.policy, rule |-> row.rule, verdict |-> row.verdict] :
                               row \in {Row(k) : k \in RuleKeys}}
      BY <3>1 DEF VerdictsOf
    <3>. QED
      BY <3>2, <3>3 DEF DocumentVerdicts
  <2>12. ASSUME NEW x, x # id PROVE VerdictsOf(x)' = VerdictsOf(x)
    <3>1. {row \in results' : row.report = x} = {row \in results : row.report = x}
      BY <2>3, <2>12
    <3>. QED
      BY <3>1 DEF VerdictsOf
  <2>13. \A report \in reports' : VerdictsOf(report.id)' = DocumentVerdicts(report.document)
    BY <2>1, <2>2, <2>11, <2>12 DEF FilingInv, ServingInv, Stored
  <2>14. \A o \in Requests : Serves(pc[o], req[o])'
    BY <2>6, <2>7
  <2>. QED
    BY <1>2, <1>3, <2>8, <2>9, <2>13, <2>14 DEF ServingInv, DocumentVerdicts
<1>. QED
  BY <1>4, <1>5

\* A version that is stored has the next number of its policy, although the number was
\* chosen before others could commit.
LEMMA CommitCounts == ASSUME FilingInv, NEW r \in Requests, Commit(r) PROVE CountingInv'
<1>1. PICK policy, number, row, w :
        /\ policy = req[r].policy /\ number = req[r].number /\ row = PolicyRow[policy]
        /\ w = [policy |-> policy, number |-> number]
  OBVIOUS
<1>2. /\ pc[r] = "commit" /\ Counts("commit", req[r])
      /\ pc'[r] = "answered" /\ ~req'[r].newVersion
      /\ \A o \in Requests \ {r} : pc'[o] = pc[o] /\ req'[o] = req[o]
      /\ Columns' /\ Carrying'
      /\ versions' = versions \cup {w}
  BY <1>1, Answers DEF FilingInv, CountingInv, Commit
<1>3. VersionsDiffer'
  BY <1>2 DEF FilingInv, CountingInv, VersionsDiffer
<1>4. Counts(pc[r], req[r])'
  BY <1>2 DEF Counts, Storing
<1>5. CASE w \in versions
  <2>1. UNCHANGED versions
    BY <1>2, <1>5
  <2>2. \A x : VersionsOf(x)' = VersionsOf(x) /\ Counted(x)' = Counted(x)
    BY <2>1 DEF VersionsOf, Counted, Contents, Numbers
  <2>3. ASSUME NEW o \in Requests \ {r} PROVE Counts(pc[o], req[o])'
    BY <1>2, <2>1, <2>2 DEF FilingInv, CountingInv, Counts, Taken
  <2>. QED
    BY <1>2, <1>3, <1>4, <2>1, <2>2, <2>3 DEF FilingInv, CountingInv
<1>6. CASE w \notin versions
  <2>1. req[r].newVersion /\ ~Taken(req[r])
    BY <1>1, <1>2, <1>6 DEF Counts, Storing
  <2>2. PICK n \in Nat : n = Cardinality(VersionsOf(row))
    BY AllCounted
  <2>3. Counted(row) /\ number \in 1..(n + 1)
    BY <1>1, <1>2, <2>1, <2>2, AllCounted DEF Counts, Storing
  <2>4. \A v \in VersionsOf(row) : v.number # number /\ v.policy # policy
    BY <1>1, <2>1 DEF Taken
  <2>5. number \notin Numbers(row) /\ policy \notin Contents(row) /\ w \notin VersionsOf(row)
    BY <1>6, <2>4 DEF Numbers, Contents, VersionsOf
  <2>6. number = n + 1
    BY <2>2, <2>3, <2>5 DEF Counted
  <2>7. w.policy = policy /\ w.number = number
    BY <1>1
  <2>8. /\ VersionsOf(row)' = VersionsOf(row) \cup {w}
        /\ \A x : x # row => VersionsOf(x)' = VersionsOf(x)
    BY <1>1, <1>2, <2>7 DEF VersionsOf
  <2>9. Cardinality(VersionsOf(row)') = n + 1 /\ IsFiniteSet(VersionsOf(row)')
    BY <2>2, <2>3, <2>5, <2>8, FS_AddElement DEF Counted
  <2>10. Counted(row)'
    <3>1. Numbers(row)' = Numbers(row) \cup {number} /\ Contents(row)' = Contents(row) \cup {policy}
      BY <2>7, <2>8 DEF Numbers, Contents
    <3>2. Numbers(row)' = 1..(n + 1)
      BY <2>2, <2>3, <2>6, <3>1 DEF Counted
    <3>3. Cardinality(Contents(row)') = n + 1 /\ IsFiniteSet(Contents(row)')
      BY <2>2, <2>3, <2>5, <3>1, FS_AddElement DEF Counted
    <3>. QED
      BY <2>9, <3>2, <3>3 DEF Counted
  <2>11. ASSUME NEW v \in versions' PROVE Counted(PolicyRow[v.policy])'
    <3>1. ASSUME NEW x, x # row, Counted(x) PROVE Counted(x)'
      BY <2>8, <3>1 DEF Counted, Numbers, Contents
    <3>2. PICK x : x = PolicyRow[v.policy]
      OBVIOUS
    <3>3. x # row => Counted(x)
      BY <3>2, AllCounted
    <3>. QED
      BY <2>10, <3>1, <3>2, <3>3
  <2>12. ASSUME NEW o \in Requests \ {r} PROVE Counts(pc[o], req[o])'
    <3>1. Counts(pc[o], req[o]) /\ pc'[o] = pc[o] /\ req'[o] = req[o]
      BY <1>2 DEF FilingInv, CountingInv
    <3>2. CASE PolicyRow[req[o].policy] # row
      <4>1. VersionsOf(PolicyRow[req[o].policy])' = VersionsOf(PolicyRow[req[o].policy])
        BY <2>8, <3>1, <3>2
      <4>. QED
        BY <1>2, <3>1, <4>1 DEF Counts, Taken
    <3>3. CASE PolicyRow[req[o].policy] = row
      <4>1. req[o].newVersion /\ pc[o] \in Storing =>
              req[o].number \in 1..(Cardinality(VersionsOf(row)') + 1)
        BY <2>2, <2>9, <3>1, <3>3 DEF Counts
      <4>2. ASSUME req[o].newVersion, pc[o] \in {"report", "commit"} PROVE ~Taken(req[o])'
        <5>1. ~Taken(req[o])
          BY <3>1, <4>2 DEF Counts, Storing
        <5>2. w.number # req[o].number /\ w.policy # req[o].policy
          BY <1>1, <1>2, <2>1, <2>7, <3>3, <4>2 DEF FilingInv, CountingInv, VersionsDiffer
        <5>3. \A v \in VersionsOf(row)' : v.number # req[o].number /\ v.policy # req[o].policy
          BY <2>8, <3>3, <5>1, <5>2 DEF Taken
        <5>. QED
          BY <3>1, <3>3, <5>3 DEF Taken
      <4>. QED
        BY <1>2, <3>1, <3>3, <4>1, <4>2 DEF Counts
    <3>. QED
      BY <3>2, <3>3
  <2>13. \A o \in Requests : Counts(pc[o], req[o])'
    BY <1>4, <2>12
  <2>. QED
    BY <1>2, <1>3, <2>11, <2>13 DEF CountingInv
<1>. QED
  BY <1>5, <1>6

-----------------------------------------------------------------------------
(* Theorems                                                                 *)

\* Every step keeps what every request relies on.
LEMMA InvStep == FilingInv /\ [Next]_vars => FilingInv'
<1>. SUFFICES ASSUME FilingInv, [Next]_vars PROVE FilingInv'
  OBVIOUS
<1>1. CASE PromoteBlock \/ UNCHANGED vars
  BY <1>1, TablesStay DEF PromoteBlock, vars
<1>2. ASSUME NEW r \in Requests, Handle(r) PROVE FilingInv'
  <2>1. CASE Preview(r)
    BY <2>1, Ends DEF Preview
  <2>2. CASE Commit(r)
    BY <2>2, CommitServes, CommitCounts DEF FilingInv
  <2>. QED
    BY <1>2, <2>1, <2>2, ReadEndKeeps, ReadStartKeeps, ReadFlowsKeeps, EvaluateKeeps,
       StorePolicyKeeps, InsertVersionKeeps, ServeStoredKeeps, InsertReportKeeps DEF Handle
<1>3. ASSUME NEW r \in Requests, RequestLost(r) PROVE FilingInv'
  BY <1>3, Ends DEF RequestLost
<1>. QED
  BY <1>1, <1>2, <1>3, AskKeeps, RepairKeeps DEF Next

\* The invariant holds of every behaviour.
LEMMA InvHolds == Spec => []FilingInv
BY InvInit, InvStep, PTL DEF Spec

\* For all constants, a served report is the one stored under its id, and every stored report
\* has exactly the verdicts of its document (reports.ts:19-27, evidence-service.ts:241-243).
THEOREM ServedReportsAreStored == Spec => []ServedIsStored
<1>1. FilingInv => ServedIsStored
  BY DEF FilingInv, ServingInv, Serves, Documents, VerdictsOf, DocumentVerdicts, ServedIsStored
<1>. QED
  BY <1>1, InvHolds, PTL

\* For all constants, the versions of a policy are numbered without a gap or a repetition and
\* differ in content (policies.ts:97-98, migration 0002:102-107).
THEOREM VersionsAreCounted == Spec => []VersionsCountChanges
<1>1. ASSUME FilingInv PROVE VersionsCountChanges
  BY <1>1, AllCounted DEF Counted, Numbers, Contents, VersionsCountChanges
<1>. QED
  BY <1>1, InvHolds, PTL

=============================================================================
