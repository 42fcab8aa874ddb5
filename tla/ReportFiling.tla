---------------------------- MODULE ReportFiling ----------------------------
(****************************************************************************)
(* Filing evidence reports: POST /v1/reports as concurrent requests over    *)
(* the promoted observations of one vault.  services/evidence-service and   *)
(* repositories evidence-window, reports and policies, migration 0002.      *)
(*                                                                          *)
(* A request reads its window in several statements outside any             *)
(* transaction, evaluates its policy, and stores version, report and        *)
(* verdicts in one READ COMMITTED transaction, cut at the statements that   *)
(* wait for a contending insert.  What a transaction has not committed is   *)
(* in `req`.  POST /v1/policies/evaluate ends before the transaction.       *)
(*                                                                          *)
(* The worker is an environment here: it appends what VaultStream makes of  *)
(* the next block of the chain, and withdraws the newest blocks.  Promotion *)
(* says what it really does, and also what happens when a repair meets an   *)
(* insert: here no repair commits between the insert of a report and its    *)
(* commit.                                                                  *)
(****************************************************************************)
EXTENDS PolicyEngine, Sequences

CONSTANTS
  Requests,     \* concurrent requests, each made once
  Policies,     \* policies a request may name
  Known,        \* policies of which one may be stored before the first request
  PolicyRow,    \* the policy row, owner and name, that a policy is a version of
  WindowDays,   \* windows a request may ask for
  Vault,        \* the address of the vault the requests are about
  ZeroAddress,  \* the zero address
  BlockContents,\* for each height, what it may hold: blocks with the parameters that stream them
  BlockTime,    \* the time of each block
  BlockSeconds, \* nominal seconds between blocks
  AssetKey,     \* the registry's key of the vault's asset
  DeployedAt,   \* the vault's deployment time, or Null
  MaxBlock,     \* bound: the highest block
  MaxRepairs    \* bound: how often the worker withdraws blocks

ASSUME FilingAssumption ==
  /\ MaxBlock \in Nat /\ MaxRepairs \in Nat
  /\ BlockSeconds \in Nat \ {0}
  /\ WindowDays \subseteq Nat \ {0}
  /\ BlockTime \in [1..MaxBlock -> Nat]

INSTANCE VaultStream

\* The releases read the vault.
ASSUME StreamAssumption ==
  \A h \in 1..MaxBlock : \A i \in DOMAIN BlockContents[h] :
    LET params == BlockContents[h][i].params
    IN  Accepts(params) /\ Vault \in DOMAIN params.vaults

\* The logs are decoded events, and an answer is a uint256 or none.
ASSUME ChainAssumption ==
  \A h \in 1..MaxBlock : \A i \in DOMAIN BlockContents[h] :
    LET block == BlockContents[h][i].block
    IN  /\ block.logs \in Seq(Range(block.logs))
        /\ \A log \in Range(block.logs) : \/ log.kind = "share_transfer"
                                          \/ log.kind \in {"deposit", "withdraw"} /\ log.assets \in Nat
        /\ block.calls[Vault] # Null =>
             \A m \in Methods : block.calls[Vault][m] \in Nat \cup {Null}

\* What the contract of a policy lets in.
ASSUME PolicyAssumption ==
  \A p \in Policies : p.historyDays \in Nat \ {0} /\ p.minBps \in Int

VARIABLES
  ledger,   \* the canonical promoted blocks, oldest first; its length is the cursor.  Each
            \* has rows, and names its `content`, which only the properties look at
  repairs,  \* how many repairs there were
  rows,     \* committed policy rows
  versions, \* committed policy versions
  reports,  \* committed reports, without their verdicts
  results,  \* committed verdicts, one row for each rule of a report
  pc,       \* where each request stands
  req       \* what each request carries; what is not read any more is reset

workerVars == <<ledger, repairs>>
tableVars == <<rows, versions, reports, results>>
requestVars == <<pc, req>>
vars == <<workerVars, tableVars, requestVars>>

\* A request is answered with a report, or ends without one.
Over == {"answered", "ended"}

NoRequest == [policy |-> Null, days |-> 0, asOf |-> 0, end |-> Null, start |-> Null,
              flows |-> <<>>, cites |-> {}, deployed |-> Null, number |-> 0, newRow |-> FALSE,
              newVersion |-> FALSE, id |-> Null, document |-> Null, created |-> FALSE]

Init ==
  /\ ledger = <<>>
  /\ repairs = 0
  /\ versions \in {{}} \cup {{[policy |-> p, number |-> 1]} : p \in Known}
  /\ rows = {PolicyRow[v.policy] : v \in versions}
  /\ reports = {}
  /\ results = {}
  /\ pc = [r \in Requests |-> "new"]
  /\ req = [r \in Requests |-> NoRequest]

------------------------------------------------------------------------------
(* The worker                                                               *)

\* The vault's flow rows, and its snapshot row, if there is one, named by its block.
FlowsOf(batch) ==
  Keep(batch.flows, {i \in DOMAIN batch.flows : batch.flows[i].vault = Vault})

SnapshotOf(batch, h) ==
  LET taken == {s \in batch.snapshots : s.vault = Vault}
  IN  IF taken = {} THEN Null
      ELSE LET s == CHOOSE s \in taken : TRUE
           IN  [at |-> h, gen |-> repairs, time |-> BlockTime[h], assets |-> s.assets,
                supply |-> s.supply, units |-> s.units, value |-> s.value,
                schema |-> s.schema, status |-> s.status, errors |-> s.errors]

\* The raw rows of every block there may be.
RawRows ==
  [h \in 1..MaxBlock |->
    [i \in DOMAIN BlockContents[h] |->
      BlockBatch(BlockContents[h][i].params, h, BlockContents[h][i].block)]]

\* The rows are promoted as the package wrote them.
PromoteBlock ==
  /\ Len(ledger) < MaxBlock
  /\ LET h == Len(ledger) + 1
     IN  \E i \in DOMAIN BlockContents[h] :
           LET batch == RawRows[h][i]
           IN  ledger' = Append(ledger, [gen |-> repairs, content |-> i,
                                         flows |-> FlowsOf(batch),
                                         snapshot |-> SnapshotOf(batch, h)])
  /\ UNCHANGED <<repairs, tableVars, requestVars>>

\* A repair withdraws the blocks above h and every report that cites one.
Repair ==
  /\ repairs < MaxRepairs
  /\ \A r \in Requests : ~(pc[r] = "commit" /\ req[r].created)
  /\ \E h \in 0..(Len(ledger) - 1) :
       /\ ledger' = SubSeq(ledger, 1, h)
       /\ reports' = {[report EXCEPT !.canonical = @ /\ \A c \in report.cites : c[1] <= h] :
                        report \in reports}
  /\ repairs' = repairs + 1
  /\ UNCHANGED <<rows, versions, results, requestVars>>

------------------------------------------------------------------------------
(* Reading the window                                                       *)

Snapshots == {ledger[h].snapshot : h \in DOMAIN ledger} \ {Null}

Newest(snapshots) ==
  IF snapshots = {} THEN Null
  ELSE CHOOSE s \in snapshots : \A t \in snapshots : t.at <= s.at

Oldest(snapshots) ==
  IF snapshots = {} THEN Null
  ELSE CHOOSE s \in snapshots : \A t \in snapshots : s.at <= t.at

\* Mutant: the attested block bounds nothing.
LatestOfAll(h) == Newest(Snapshots)

LatestAtOrBelow(h) == Newest({s \in Snapshots : s.at <= h})
EarliestBelow(h) == Oldest({s \in Snapshots : s.at < h})

\* Where the window opens, counted from the cursor and in nominal blocks.
EstimateStartBlock(asOf, days) ==
  LET span == (days * SecondsPerDay + BlockSeconds - 1) \div BlockSeconds
  IN  IF asOf < span THEN 0 ELSE asOf - span

\* The snapshot at or before the requested start, strictly below the end, or
\* else the earliest there is.
Opening(asOf, days, end) ==
  LET requested == LatestAtOrBelow(EstimateStartBlock(asOf, days))
  IN  IF requested # Null /\ requested.at < end.at THEN requested ELSE EarliestBelow(end.at)

\* Mutant: the flows of the opening block are counted again.
FlowBlocksFromStart(start, end) ==
  {h \in DOMAIN ledger : /\ start = Null \/ h >= start.at
                         /\ h <= end.at
                         /\ ledger[h].flows # <<>>}

\* The blocks of the canonical flows after the start, up to the end.
FlowBlocks(start, end) ==
  {h \in DOMAIN ledger : /\ start = Null \/ h > start.at
                         /\ h <= end.at
                         /\ ledger[h].flows # <<>>}

\* A block as a citation names it.
Cite(h) == <<h, ledger[h].gen>>

\* The flows of some blocks, oldest block first.  The rows of one block come in any
\* order: the query does not say which.
Orders(s) == {[i \in DOMAIN s |-> s[p[i]]] : p \in Bijection(DOMAIN s, DOMAIN s)}

Readings(blocks) ==
  LET upTo[h \in 0..Len(ledger)] ==
        CASE h = 0 -> {<<>>}
          [] h \in blocks -> {f \o g : f \in upTo[h - 1], g \in Orders(ledger[h].flows)}
          [] OTHER -> upTo[h - 1]
  IN  upTo[Len(ledger)]

Goto(r, place) == pc' = [pc EXCEPT ![r] = place]

\* A request ends without a report, and its transaction is rolled back.
EndRequest(r) ==
  /\ Goto(r, "ended")
  /\ req' = [req EXCEPT ![r] = NoRequest]

\* requireVault reads the cursor; without one there is nothing to report.
Ask(r) ==
  /\ pc[r] = "new"
  /\ IF ledger = <<>>
     THEN EndRequest(r)
     ELSE /\ \E p \in Policies, d \in WindowDays :
               req' = [req EXCEPT ![r].policy = p, ![r].days = d, ![r].asOf = Len(ledger)]
          /\ Goto(r, "end")
  /\ UNCHANGED <<workerVars, tableVars>>

ReadEnd(r) ==
  /\ pc[r] = "end"
  /\ LET end == LatestAtOrBelow(req[r].asOf)
     IN  IF end = Null
         THEN EndRequest(r)
         ELSE /\ req' = [req EXCEPT ![r].end = end]
              /\ Goto(r, "start")
  /\ UNCHANGED <<workerVars, tableVars>>

ReadStart(r) ==
  /\ pc[r] = "start"
  /\ req' = [req EXCEPT ![r].start = Opening(req[r].asOf, req[r].days, req[r].end),
                          ![r].asOf = 0]
  /\ Goto(r, "flows")
  /\ UNCHANGED <<workerVars, tableVars>>

\* resolveDeploymentTime: the provider resolves the deployment block, or cannot.
DeploymentTime == {DeployedAt, Null}

\* The provider shares nothing with other requests, and is asked in the same step.
ReadFlows(r) ==
  /\ pc[r] = "flows"
  /\ LET blocks == FlowBlocks(req[r].start, req[r].end)
     IN  \E flows \in Readings(blocks), t \in DeploymentTime :
           req' = [req EXCEPT ![r].flows = flows, ![r].cites = {Cite(h) : h \in blocks},
                              ![r].deployed = t]
  /\ Goto(r, "evaluate")
  /\ UNCHANGED <<workerVars, tableVars>>

Draft(q) == BuildEvidence(q.start, q.end, q.flows, q.days)

\* The API reads nothing for an owner.
Evaluation(q) == EvaluatePolicy(q.policy, Draft(q), AssetKey, q.deployed, Null)

\* POST /v1/policies/evaluate answers and forgets.
Preview(r) ==
  /\ pc[r] = "evaluate"
  /\ EndRequest(r)
  /\ UNCHANGED <<workerVars, tableVars>>

\* What the report says: the policy it judged by, the evaluation, and of its
\* figures where they come from and what limits them.
Document(q) ==
  LET draft == Draft(q)
  IN  [policy |-> q.policy, evaluation |-> Evaluation(q),
       provenance |-> draft.provenance, limitations |-> draft.limitations]

\* The snapshots and the flows of the window.
Citations(q) == q.cites \cup Provenance(q.start, q.end)

\* POST /v1/reports refuses what the response cannot represent, and goes on with the
\* report and its citations alone.
Evaluate(r) ==
  /\ pc[r] = "evaluate"
  /\ LET q == req[r]
     IN  IF IsComplete(Draft(q))
         THEN /\ req' = [req EXCEPT ![r] = [NoRequest EXCEPT !.policy = q.policy,
                                              !.id = Draft(q).id, !.document = Document(q),
                                              !.cites = Citations(q)]]
              /\ Goto(r, "policy")
         ELSE EndRequest(r)
  /\ UNCHANGED <<workerVars, tableVars>>

------------------------------------------------------------------------------
(* The transaction of createReport                                          *)

\* Requests whose transaction may hold something not committed.
Open(place) == {q \in Requests : pc[q] \in place}

\* Another transaction that is ahead with an insert under the same key is
\* waited for.
PolicyRowContends(r) ==
  \E q \in Open({"version", "report", "commit"}) :
    q # r /\ req[q].newRow /\ PolicyRow[req[q].policy] = PolicyRow[req[r].policy]

VersionContends(r) ==
  \E q \in Open({"report", "commit"}) :
    /\ q # r
    /\ req[q].newVersion
    /\ PolicyRow[req[q].policy] = PolicyRow[req[r].policy]
    /\ req[q].number = req[r].number \/ req[q].policy = req[r].policy

ReportContends(r) ==
  \E q \in Open({"commit"}) : q # r /\ req[q].created /\ req[q].id = req[r].id

VersionsOf(row) == {v \in versions : PolicyRow[v.policy] = row}

\* storePolicyVersion up to its insert: wallet and policy rows unless they
\* exist, the version under this content, or the next number of the policy.
StorePolicy(r) ==
  /\ pc[r] = "policy"
  /\ ~PolicyRowContends(r)
  /\ LET row == PolicyRow[req[r].policy]
         existing == {v \in versions : v.policy = req[r].policy}
         numbers == {v.number : v \in VersionsOf(row)}
     IN  req' = [req EXCEPT ![r].newRow = row \notin rows,
                            ![r].newVersion = existing = {},
                            ![r].number = IF existing # {}
                                          THEN (CHOOSE v \in existing : TRUE).number
                                          ELSE Max(numbers \cup {0}) + 1]
  /\ Goto(r, "version")
  /\ UNCHANGED <<workerVars, tableVars>>

\* A number or a content taken since: the insert fails, and the request.
VersionTaken(r) ==
  \E v \in VersionsOf(PolicyRow[req[r].policy]) :
    v.number = req[r].number \/ v.policy = req[r].policy

\* Mutant: no unique key guards the numbers.
InsertVersionUnguarded(r) ==
  /\ pc[r] = "version"
  /\ Goto(r, "report")
  /\ UNCHANGED <<workerVars, tableVars, req>>

InsertVersion(r) ==
  /\ pc[r] = "version"
  /\ \/ /\ ~req[r].newVersion
        /\ Goto(r, "report")
        /\ UNCHANGED req
     \/ /\ req[r].newVersion
        /\ ~VersionContends(r)
        /\ ~VersionTaken(r)
        /\ Goto(r, "report")
        /\ UNCHANGED req
     \/ /\ req[r].newVersion
        /\ ~VersionContends(r)
        /\ VersionTaken(r)
        /\ EndRequest(r)
  /\ UNCHANGED <<workerVars, tableVars>>

Stored(id) == {report \in reports : report.id = id}

\* report_observation_requires_canonical, for every row a report cites.
CitesCanonical(cites) == \A c \in cites : c[1] \in DOMAIN ledger /\ Cite(c[1]) = c

\* Mutant: the answer is the report at hand instead of the stored one.
ServeAssembled(r) ==
  /\ pc[r] = "report"
  /\ ~ReportContends(r)
  /\ Stored(req[r].id) # {}
  /\ Goto(r, "commit")
  /\ UNCHANGED <<workerVars, tableVars, req>>

\* insertReport finds the report stored, and serves that.
ServeStored(r) ==
  /\ pc[r] = "report"
  /\ ~ReportContends(r)
  /\ \E report \in Stored(req[r].id) :
       req' = [req EXCEPT ![r].document = report.document]
  /\ Goto(r, "commit")
  /\ UNCHANGED <<workerVars, tableVars>>

\* The rows insertRuleResults writes: the verdicts of the evaluation at hand, under
\* the rules of the request's policy.
RuleResults(q) ==
  {[report |-> q.id, policy |-> q.policy, rule |-> k,
    verdict |-> q.document.evaluation.rules[k]] : k \in RuleKeys}

\* rule_result_observed_presence_check.
PassesObserved(row) == row.verdict.status = "PASS" => row.verdict.observed # Null

\* createReport inserts the report and its citations, if the trigger lets it, and
\* then its verdicts, if the table's check lets them.
InsertReport(r) ==
  /\ pc[r] = "report"
  /\ ~ReportContends(r)
  /\ Stored(req[r].id) = {}
  /\ IF /\ CitesCanonical(req[r].cites)
        /\ \A row \in RuleResults(req[r]) : PassesObserved(row)
     THEN /\ req' = [req EXCEPT ![r].created = TRUE]
          /\ Goto(r, "commit")
     ELSE EndRequest(r)
  /\ UNCHANGED <<workerVars, tableVars>>

\* Mutant: a report that is served again gets the verdicts at hand as well.
CommitAllResults(r) ==
  /\ pc[r] = "commit"
  /\ rows' = rows \cup {PolicyRow[req[r].policy]}
  /\ versions' = versions \cup {[policy |-> req[r].policy, number |-> req[r].number]}
  /\ reports' =
       IF req[r].created
       THEN reports \cup {[id |-> req[r].id, document |-> req[r].document,
                           cites |-> req[r].cites, canonical |-> TRUE]}
       ELSE reports
  /\ results' = results \cup RuleResults(req[r])
  /\ req' = [req EXCEPT ![r].cites = {}, ![r].number = 0, ![r].newRow = FALSE,
                         ![r].newVersion = FALSE, ![r].created = FALSE]
  /\ Goto(r, "answered")
  /\ UNCHANGED workerVars

Commit(r) ==
  /\ pc[r] = "commit"
  /\ rows' = rows \cup {PolicyRow[req[r].policy]}
  /\ versions' = versions \cup {[policy |-> req[r].policy, number |-> req[r].number]}
  /\ reports' =
       IF req[r].created
       THEN reports \cup {[id |-> req[r].id, document |-> req[r].document,
                           cites |-> req[r].cites, canonical |-> TRUE]}
       ELSE reports
  /\ results' = IF req[r].created THEN results \cup RuleResults(req[r]) ELSE results
  /\ req' = [req EXCEPT ![r].cites = {}, ![r].number = 0, ![r].newRow = FALSE,
                         ![r].newVersion = FALSE, ![r].created = FALSE]
  /\ Goto(r, "answered")
  /\ UNCHANGED workerVars

\* The API process dies or loses the database: the transaction is rolled back.
RequestLost(r) ==
  /\ pc[r] \notin Over \cup {"new"}
  /\ EndRequest(r)
  /\ UNCHANGED <<workerVars, tableVars>>

------------------------------------------------------------------------------

Handle(r) ==
  \/ ReadEnd(r) \/ ReadStart(r) \/ ReadFlows(r)
  \/ Preview(r) \/ Evaluate(r)
  \/ StorePolicy(r) \/ InsertVersion(r) \/ ServeStored(r) \/ InsertReport(r) \/ Commit(r)

Next ==
  \/ PromoteBlock
  \/ Repair
  \/ \E r \in Requests : Ask(r) \/ Handle(r) \/ RequestLost(r)

Spec == Init /\ [][Next]_vars

------------------------------------------------------------------------------
(* Properties                                                               *)

TypeOK ==
  /\ Len(ledger) \in 0..MaxBlock
  /\ repairs \in 0..MaxRepairs
  /\ \A b \in DOMAIN ledger : ledger[b].gen \in 0..repairs
  /\ rows \subseteq {PolicyRow[p] : p \in Policies \cup Known}
  /\ versions \subseteq [policy : Policies \cup Known, number : Nat \ {0}]
  /\ \A report \in reports :
       /\ report.document.policy \in Policies
       /\ report.canonical \in BOOLEAN
       /\ report.cites \subseteq (1..MaxBlock) \X (0..MaxRepairs)
  /\ {row.report : row \in results} \subseteq {report.id : report \in reports}
  /\ pc \in [Requests -> {"new", "end", "start", "flows", "evaluate",
                           "policy", "version", "report", "commit"} \cup Over]
  /\ \A r \in Requests :
       /\ req[r].asOf \in 0..MaxBlock
       /\ pc[r] = "start" => req[r].end.at <= req[r].asOf
       /\ req[r].created \in BOOLEAN /\ req[r].newRow \in BOOLEAN
       /\ req[r].newVersion \in BOOLEAN

\* The versions of a policy are numbered without a gap or a repetition, and each
\* differs from every other, whatever requests store policies at once:
\* policies.ts:97-98, migration 0002:102-107.
VersionsCountChanges ==
  \A row \in rows :
    LET stored == VersionsOf(row)
    IN  /\ {v.number : v \in stored} = 1..Cardinality(stored)
        /\ Cardinality({v.policy : v \in stored}) = Cardinality(stored)

\* The block of the chain at height h, what it did to the vault's assets, and what
\* the vault answered after it.
ChainBlock(h) == BlockContents[h][ledger[h].content].block

ChainFlow(h) ==
  LET logs == ChainBlock(h).logs
      Amount(i) == CASE logs[i].address # Vault -> 0
                     [] logs[i].address = Vault /\ logs[i].kind = "deposit" -> logs[i].assets
                     [] logs[i].address = Vault /\ logs[i].kind = "withdraw" -> -logs[i].assets
                     [] OTHER -> 0
  IN  SumFunction([i \in DOMAIN logs |-> Amount(i)])

ChainAnswer(h, method) ==
  LET calls == ChainBlock(h).calls[Vault]
  IN  IF calls = Null THEN Null ELSE calls[method]

\* Half a day or more lies between two blocks' distance and a number of days.
HalfADayOff(from, to, days) ==
  \/ 2 * BlockTime[to] >= 2 * BlockTime[from] + (2 * days + 1) * SecondsPerDay
  \/ 2 * BlockTime[to] <= 2 * BlockTime[from] + (2 * days - 1) * SecondsPerDay

\* Shares of the vault were minted or burnt at height h.
MovesShareSupply(h) ==
  \E i \in DOMAIN ChainBlock(h).logs :
    LET log == ChainBlock(h).logs[i]
    IN  /\ log.address = Vault /\ log.kind = "share_transfer"
        /\ (log.from = ZeroAddress) # (log.to = ZeroAddress)

\* A canonical report rests on two snapshots that are canonical now, the first
\* below the second.  Their values are what the vault answered at those blocks, and
\* the net flow is that of every block between them: package, worker and the
\* statements that read the window told one history, although blocks were withdrawn
\* and promoted again between the statements (evidence-window.ts, the trigger of
\* migration 0002).  Its provenance is on the chain, and it tells when the period is
\* half a day off the one asked for and when shares were minted or burnt in it.
WindowsAreWhole ==
  \A report \in reports :
    report.canonical =>
      LET start == report.id.start
          end == report.id.end
      IN  /\ {start, end} \subseteq {SerialiseSnapshot(s) : s \in Snapshots}
          /\ start.at < end.at
          /\ \A s \in {start, end} : s.value = ChainAnswer(s.at, "value")
          /\ end.assets = ChainAnswer(end.at, "assets")
          /\ NetFlow(report.id.flows)
                = SumFunction([h \in (start.at + 1)..end.at |-> ChainFlow(h)])
          /\ CitesCanonical(report.document.provenance)
          /\ "distant" \in report.document.limitations
               <=> HalfADayOff(start.at, end.at, report.id.days)
          /\ "share_side" \in report.document.limitations
               <=> \E h \in (start.at + 1)..end.at : MovesShareSupply(h)

\* A window misses no deposit and no withdrawal below the attested block: none lies
\* above the snapshot the window ends at, although few blocks have a snapshot and the
\* end is read after the cursor (snapshots.rs:29-34, evidence-window.ts:96-100).
NoFlowAfterTheEnd ==
  [][\A r \in Requests :
       pc[r] = "end" /\ pc'[r] = "start" =>
         \A h \in DOMAIN ledger :
           req'[r].end.at < h /\ h <= req[r].asOf =>
             \A i \in DOMAIN ChainBlock(h).logs :
               ChainBlock(h).logs[i].address = Vault =>
                 ChainBlock(h).logs[i].kind = "share_transfer"]_vars

\* Once the anchor block is promoted, every window that ends above it has a start,
\* "even when that block is quiet": config.rs:24-26.
AnchorIsAStart ==
  [][\A r \in Requests :
       pc[r] = "start" /\ pc'[r] = "flows" =>
         LET anchors == {BlockContents[h][ledger[h].content].params.anchor : h \in DOMAIN ledger}
         IN  (\A a \in anchors : a < req[r].end.at /\ a <= Len(ledger)) /\ anchors # {} =>
               req'[r].start # Null]_vars

Names(s, method) == \E e \in s.errors : e[1] \in {method, "*"}

\* A figure is missing only where a stored row says which call failed, or where no
\* comparison is possible; and the table's check on status and errors lets every row
\* of the package in (observations.ts:232-236, migration 0001:195-198).
AbsenceIsExplained ==
  /\ \A s \in Snapshots : s.status = "ok" <=> s.errors = {}
  /\ \A r \in Requests :
       pc[r] = "evaluate" =>
         LET start == req[r].start
             end == req[r].end
             draft == Draft(req[r])
         IN  /\ draft.assets = Null => Names(end, "assets")
             /\ draft.bps = Null =>
                  \/ start = Null
                  \/ start # Null /\ (\/ start.units # end.units \/ start.schema # end.schema
                                      \/ start.value = 0
                                      \/ Names(start, "value"))
                  \/ Names(end, "value")

\* Reference definitions of four rules, in the policy's own words.
KnownReturn(q) ==
  /\ q.start # Null
  /\ q.start.value \notin {Null, 0} /\ q.end.value # Null
  /\ q.start.units = q.end.units /\ q.start.schema = q.end.schema
  /\ q.days = q.policy.bpsDays

Verdict(known, met) == IF ~known THEN "UNKNOWN" ELSE IF met THEN "PASS" ELSE "FAIL"

\* Cross-multiplied: no division, no rounding.
ReturnVerdict(q) ==
  Verdict(KnownReturn(q),
          KnownReturn(q) => BasisPointsScale * (q.end.value - q.start.value)
                              >= q.policy.minBps * q.start.value)

AssetVerdict(q) == Verdict(AssetKey # Null, AssetKey \in q.policy.assets)

TvlVerdict(q) ==
  Verdict(q.end.assets # Null, q.end.assets # Null => q.end.assets >= q.policy.minTvl)

HistoryVerdict(q) ==
  LET required == q.policy.historyDays * SecondsPerDay
      covered == IF q.start = Null THEN 0 ELSE q.end.time - q.start.time
      tooYoung == q.deployed # Null /\ (q.deployed # Null => q.end.time - q.deployed < required)
  IN  Verdict(covered >= required \/ tooYoung, covered >= required)

\* The engine's rules say what exact arithmetic says; what was not observed is
\* UNKNOWN, never a pass or a failure (evaluate.ts:14-20); and the decision is
\* the worst of them, so that a report no account was read for never passes.
VerdictsAreExact ==
  \A r \in Requests :
    pc[r] = "evaluate" =>
      LET evaluation == Evaluation(req[r])
          verdicts == <<AssetVerdict(req[r]), HistoryVerdict(req[r]), TvlVerdict(req[r]),
                        ReturnVerdict(req[r])>>
      IN  /\ verdicts = <<evaluation.rules["underlyingAsset"].status,
                          evaluation.rules["minimumHistory"].status,
                          evaluation.rules["minimumTvl"].status,
                          evaluation.rules["minimumObservedReturn"].status>>
          /\ evaluation.status = IF \E i \in 1..4 : verdicts[i] = "FAIL" THEN "FAIL" ELSE "UNKNOWN"

\* A report that was served is the one that is stored under its id, the only
\* one, for good: reports.ts:19-27, evidence-service.ts:241-243.  And a stored report
\* has one verdict for each rule, of the policy it was judged by and as its document
\* gives it, however often it is served and to whatever policies.
ServedIsStored ==
  /\ \A r \in Requests :
       pc[r] = "answered" =>
         {report.document : report \in Stored(req[r].id)} = {req[r].document}
  /\ \A report \in reports :
       {[policy |-> row.policy, rule |-> row.rule, verdict |-> row.verdict] :
          row \in {s \in results : s.report = report.id}}
         = {[policy |-> report.document.policy, rule |-> k,
             verdict |-> report.document.evaluation.rules[k]] : k \in RuleKeys}

\* A report answers the request it is served for: it judges by the request's
\* policy.  reports.ts:118-119 refuses to serve "some other report", which
\* "would answer a question the caller did not ask".
AnswersTheQuestion ==
  \A r \in Requests : pc[r] = "answered" => req[r].document.policy = req[r].policy

=============================================================================
