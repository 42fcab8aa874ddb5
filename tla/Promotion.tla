------------------------------ MODULE Promotion ------------------------------
(****************************************************************************)
(* The observation pipeline: the chain the RPC provider reports, the sink   *)
(* that mirrors it into raw staging, the worker that promotes confirmed raw *)
(* rows and repairs deep reorgs, and the API that files reports over the    *)
(* promoted rows.  apps/worker, packages/db, apps/api/evidence-service.     *)
(*                                                                          *)
(* One worker runs one job at a time (docs/technical/ARCHITECTURE.md:297),  *)
(* so a single program counter `pc` serves both of its jobs.  An action is  *)
(* what runs between two awaits that another party can get between; a       *)
(* database transaction is one action unless its atomicity is in question   *)
(* (the report insert is not: see InsertReport).                            *)
(*                                                                          *)
(* A block is its hash; the payload of its rows is abstracted to whether    *)
(* the block carries rows, and whether this worker release accepts them.    *)
(****************************************************************************)
EXTENDS Integers

CONSTANTS
  Branches,          \* the chains the network can settle on
  Hashes,            \* block hashes
  NoHash,            \* the absence of one
  BlockHash,         \* BlockHash[b][h]: the hash of the block at height h of b
  Height,            \* Height[x]: the height of block x
  RowKind,           \* RowKind[x]: "none", "known" or "unknown" (see Accepted)
  FirstBranch,       \* the branch the network starts on
  Reorgs,            \* the pairs <<b, c>> of branches the network may switch
  MaxHead,           \* bound: the highest block of the model
  MaxReorgDepth,     \* how many blocks below the head a reorg replaces at most
  SinkKeepsUp,       \* TRUE: the sink undoes an orphaned block before its
                     \* height is confirmed; FALSE: it may lag without bound
  ConfirmationDepth, \* network.confirmation_depth
  WindowStart,       \* the earliest manifest windowStartBlock
  MaxBlocksPerRun,   \* DEFAULT_MAX_BLOCKS_PER_RUN
  Requests,          \* concurrent POST /v1/reports requests
  MaxFaults          \* bound: crashes, provider errors and missing answers

Heights == 0..MaxHead

ASSUME HeadAssumption ==
  /\ MaxHead \in Nat
  /\ MaxReorgDepth \in Nat
  /\ ConfirmationDepth \in Nat
  /\ WindowStart \in Nat
  /\ MaxBlocksPerRun \in Nat \ {0}
  /\ MaxFaults \in Nat
  /\ SinkKeepsUp \in BOOLEAN

ASSUME ChainAssumption ==
  /\ NoHash \notin Hashes
  /\ FirstBranch \in Branches
  /\ Reorgs \subseteq Branches \X Branches
  /\ BlockHash \in [Branches -> [Heights -> Hashes]]
  /\ Height \in [Hashes -> Heights]
  /\ RowKind \in [Hashes -> {"none", "known", "unknown"}]

\* A hash commits to its height and to every ancestor.
ASSUME HashAssumption ==
  /\ \A b \in Branches, h \in Heights : Height[BlockHash[b][h]] = h
  /\ \A b, c \in Branches, h \in Heights :
       BlockHash[b][h] = BlockHash[c][h] =>
         \A k \in 0..h : BlockHash[b][k] = BlockHash[c][k]

None == -1

VARIABLES
  branch, head,              \* the chain, as the RPC provider reports it
  sinkBranch, sinkHead,      \* the chain the sink has mirrored, and how far
  deployed,                  \* TRUE once a release accepts "unknown" rows
  rows,                      \* vault_flow and vault_snapshot, per block
  cursor, cursorHash,        \* indexer_cursor
  auditRows, auditReports,   \* reorg_invalidation
  reports, revoked,          \* evidence_report; the non-canonical ones
  pc,                        \* where the worker's job stands
  accepts, rpcHead, ceiling, \* a promotion's locals
  from, to, toHash,
  todo, orphans,             \* a reconciliation's locals
  reqPc, reqCites,           \* the report requests in flight
  faults                     \* faults so far

chainVars == <<branch, head>>
sinkVars == <<sinkBranch, sinkHead>>
historyVars == <<rows, cursor, cursorHash>>
auditVars == <<auditRows, auditReports>>
reportVars == <<reports, revoked>>
promoteVars == <<accepts, rpcHead, ceiling, from, to, toHash>>
reconcileVars == <<todo, orphans>>
jobVars == <<pc, promoteVars, reconcileVars>>
requestVars == <<reqPc, reqCites>>
storedVars == <<historyVars, auditVars, reportVars>>
vars == <<chainVars, sinkVars, deployed, storedVars, jobVars, requestVars, faults>>

Lower(a, b) == IF a <= b THEN a ELSE b
Higher(a, b) == IF a >= b THEN a ELSE b

\* Branches b and c share their block at height h, hence all below it.  Below
\* the first block every two chains agree.
Agree(b, c, h) == h >= 0 => BlockHash[b][h] = BlockHash[c][h]

Carries(x) == RowKind[x] # "none"

\* A row is rejected whose schema_version the release does not read, whose vault
\* the registry does not list, or whose block no capability profile covers.
Accepted(release) == IF release THEN {"none", "known", "unknown"} ELSE {"none", "known"}

Canonical == {x \in Hashes : rows[x] = "canonical"}
Orphaned == {x \in Hashes : rows[x] = "orphaned"}

\* What raw staging holds in a range of blocks.
RawRows(lo, hi) ==
  {x \in Hashes : /\ Carries(x)
                  /\ Height[x] \in lo..Lower(hi, sinkHead)
                  /\ BlockHash[sinkBranch][Height[x]] = x}

Init ==
  /\ branch = FirstBranch /\ head = 0
  /\ sinkBranch = FirstBranch /\ sinkHead = None
  /\ deployed = FALSE
  /\ rows = [x \in Hashes |-> "absent"]
  /\ cursor = None /\ cursorHash = NoHash
  /\ auditRows = {} /\ auditReports = {}
  /\ reports = {} /\ revoked = {}
  /\ pc = "idle"
  /\ accepts = FALSE /\ rpcHead = 0 /\ ceiling = None
  /\ from = 0 /\ to = 0 /\ toHash = NoHash
  /\ todo = {} /\ orphans = {}
  /\ reqPc = [r \in Requests |-> "idle"]
  /\ reqCites = [r \in Requests |-> {}]
  /\ faults = 0

------------------------------------------------------------------------------
(* The environment: the network, the sink, and the operator's deploys.      *)

\* The sink has undone every block the network dropped, up to height h.
SinkAgreesUpTo(h) == Agree(sinkBranch, branch, Lower(sinkHead, h))

ExtendChain ==
  /\ head < MaxHead
  /\ SinkKeepsUp => SinkAgreesUpTo(head + 1 - ConfirmationDepth)
  /\ head' = head + 1
  /\ UNCHANGED <<branch, sinkVars, deployed, storedVars, jobVars, requestVars, faults>>

\* The network settles on another branch, replacing at most the MaxReorgDepth
\* blocks below the head.
Reorg(c) ==
  /\ <<branch, c>> \in Reorgs
  /\ ~Agree(branch, c, head)
  /\ Agree(branch, c, Higher(head - MaxReorgDepth, 0))
  /\ branch' = c
  /\ UNCHANGED <<head, sinkVars, deployed, storedVars, jobVars, requestVars, faults>>

\* The sink commits the next block: its rows and its own cursor together.
SinkWrite ==
  /\ sinkHead < head
  /\ Agree(sinkBranch, branch, sinkHead)
  /\ sinkBranch' = branch
  /\ sinkHead' = sinkHead + 1
  /\ UNCHANGED <<chainVars, deployed, storedVars, jobVars, requestVars, faults>>

\* The sink learns that blocks it wrote are orphaned, deletes their rows and
\* steps its cursor back to the last block that still stands.
SinkUndo ==
  /\ ~Agree(sinkBranch, branch, sinkHead)
  /\ \E k \in None..(sinkHead - 1) :
       /\ Agree(sinkBranch, branch, k)
       /\ ~Agree(sinkBranch, branch, k + 1)
       /\ sinkHead' = k
  /\ sinkBranch' = branch
  /\ UNCHANGED <<chainVars, deployed, storedVars, jobVars, requestVars, faults>>

\* A release that reads the new schema, or lists the new vault.
Deploy ==
  /\ ~deployed
  /\ deployed' = TRUE
  /\ UNCHANGED <<chainVars, sinkVars, storedVars, jobVars, requestVars, faults>>

------------------------------------------------------------------------------
(* Promotion: apps/worker/src/promote-confirmed.ts                          *)

\* A job ends, by return or by throw, and its locals with it.
EndJob ==
  /\ pc' = "idle"
  /\ accepts' = FALSE /\ rpcHead' = 0 /\ ceiling' = None
  /\ from' = 0 /\ to' = 0 /\ toHash' = NoHash
  /\ todo' = {} /\ orphans' = {}

\* The process starts: it seeds the registry of its own release and asks the
\* provider once for the head that bounds the whole run.
PromoteStart ==
  /\ pc = "idle"
  /\ accepts' = deployed
  /\ rpcHead' = head
  /\ pc' = "ceiling"
  /\ UNCHANGED <<chainVars, sinkVars, deployed, storedVars, ceiling, from, to, toHash,
                 reconcileVars, requestVars, faults>>

\* Mutants: the sink's head alone bounds the ceiling, or the depth alone does.
CeilingOfSink(rpc, sink) == sink
CeilingOfDepth(rpc, sink) == IF rpc < ConfirmationDepth THEN None ELSE rpc - ConfirmationDepth

\* promotionCeiling: neither above the sink nor within the confirmation depth.
PromotionCeiling(rpc, sink) ==
  LET confirmed == Lower(rpc - ConfirmationDepth, sink)
  IN  IF sink = None \/ confirmed < 0 THEN None ELSE confirmed

PromoteCeiling ==
  /\ pc = "ceiling"
  /\ ceiling' = PromotionCeiling(rpcHead, sinkHead)
  /\ ceiling' # None
  /\ pc' = "cursor"
  /\ UNCHANGED <<chainVars, sinkVars, deployed, storedVars, accepts, rpcHead, from, to, toHash,
                 reconcileVars, requestVars, faults>>

PromoteNoCeiling ==
  /\ pc = "ceiling"
  /\ PromotionCeiling(rpcHead, sinkHead) = None
  /\ EndJob
  /\ UNCHANGED <<chainVars, sinkVars, deployed, storedVars, requestVars, faults>>

\* nextRange: where the next batch starts and ends; empty when end < start.
\* Mutants: the range skips a block, stops one short, or forgets its ceiling.
RangeFromSkipping(at) == IF at = None THEN WindowStart ELSE at + 2
RangeFrom(at) == IF at = None THEN WindowStart ELSE at + 1
RangeToExclusive(at, top) == Lower(top - 1, RangeFrom(at) + MaxBlocksPerRun - 1)
RangeToUnbounded(at, top) == RangeFrom(at) + MaxBlocksPerRun - 1
RangeTo(at, top) == Lower(top, RangeFrom(at) + MaxBlocksPerRun - 1)

PromoteCursor ==
  /\ pc = "cursor"
  /\ RangeTo(cursor, ceiling) >= RangeFrom(cursor)
  /\ from' = RangeFrom(cursor)
  /\ to' = RangeTo(cursor, ceiling)
  /\ pc' = "hash"
  /\ UNCHANGED <<chainVars, sinkVars, deployed, storedVars, accepts, rpcHead, ceiling, toHash,
                 reconcileVars, requestVars, faults>>

\* Caught up: the run's loop ends.
PromoteDone ==
  /\ pc = "cursor"
  /\ RangeTo(cursor, ceiling) < RangeFrom(cursor)
  /\ EndJob
  /\ UNCHANGED <<chainVars, sinkVars, deployed, storedVars, requestVars, faults>>

\* Mutant: the hash of the run's ceiling.
HashOfCeiling ==
  /\ pc = "hash"
  /\ toHash' = BlockHash[branch][ceiling]
  /\ pc' = "commit"
  /\ UNCHANGED <<chainVars, sinkVars, deployed, storedVars, accepts, rpcHead, ceiling, from, to,
                 reconcileVars, requestVars, faults>>

\* The hash of the range's last block, read before the transaction opens.
PromoteHash ==
  /\ pc = "hash"
  /\ toHash' = BlockHash[branch][to]
  /\ pc' = "commit"
  /\ UNCHANGED <<chainVars, sinkVars, deployed, storedVars, accepts, rpcHead, ceiling, from, to,
                 reconcileVars, requestVars, faults>>

\* Every row of the batch is one this release accepts.
BatchAccepted == \A x \in RawRows(from, to) : RowKind[x] \in Accepted(accepts)

\* Mutant: the upsert makes whatever it reads canonical.
UpsertRevives(batch) ==
  rows' = [x \in Hashes |-> IF x \in batch THEN "canonical" ELSE rows[x]]

\* The upsert: a new row is canonical, one already there keeps what it was.
Upsert(batch) ==
  rows' = [x \in Hashes |->
             IF x \in batch /\ rows[x] = "absent" THEN "canonical" ELSE rows[x]]

\* One transaction for the rows and the cursor; then the loop goes round.
PromoteCommit ==
  /\ pc = "commit"
  /\ BatchAccepted
  /\ Upsert(RawRows(from, to))
  /\ cursor' = to
  /\ cursorHash' = toHash
  /\ pc' = "ceiling"
  /\ ceiling' = None /\ from' = 0 /\ to' = 0 /\ toHash' = NoHash
  /\ UNCHANGED <<chainVars, sinkVars, deployed, auditVars, reportVars, accepts, rpcHead,
                 reconcileVars, requestVars, faults>>

\* A rejected batch throws: nothing is written and the run ends.
PromoteReject ==
  /\ pc = "commit"
  /\ ~BatchAccepted
  /\ EndJob
  /\ UNCHANGED <<chainVars, sinkVars, deployed, storedVars, requestVars, faults>>

------------------------------------------------------------------------------
(* Reconciliation: apps/worker/src/reconcile-deep-reorg.ts                  *)

\* Mutant: only the block the cursor names is checked.
ListCursorOnly ==
  /\ pc = "idle"
  /\ todo' = {x \in Canonical : Height[x] = cursor}
  /\ pc' = "check"
  /\ UNCHANGED <<chainVars, sinkVars, deployed, storedVars, promoteVars, orphans,
                 requestVars, faults>>

\* listPromotedBlockHashes, from the window start up.
ReconcileList ==
  /\ pc = "idle"
  /\ todo' = {x \in Canonical : Height[x] >= WindowStart}
  /\ pc' = "check"
  /\ UNCHANGED <<chainVars, sinkVars, deployed, storedVars, promoteVars, orphans,
                 requestVars, faults>>

\* The provider's hash at the height of the next listed block, lowest first.
ReconcileCheck ==
  /\ pc = "check"
  /\ \E x \in todo :
       LET now == BlockHash[branch][Height[x]]
       IN  /\ \A y \in todo : Height[x] <= Height[y]
           /\ todo' = todo \ {x}
           /\ orphans' = orphans \cup (IF now = x THEN {} ELSE {[hash |-> x, by |-> now]})
  /\ UNCHANGED <<chainVars, sinkVars, deployed, storedVars, pc, promoteVars,
                 requestVars, faults>>

\* Every listed block still stands.
ReconcileClean ==
  /\ pc = "check"
  /\ todo = {} /\ orphans = {}
  /\ EndJob
  /\ UNCHANGED <<chainVars, sinkVars, deployed, storedVars, requestVars, faults>>

\* The rows the repair flips, and the reports it finds citing them.
Flipped == {x \in Canonical : \E o \in orphans : o.hash = x}
\* Mutant: a report falls only when all it cites falls.
DependentsOfAll == {c \in reports \ revoked : c \subseteq Flipped}
Dependents == {c \in reports \ revoked : c \cap Flipped # {}}

\* Mutant: the first orphan of the repair, cited or not.
FirstOrphan(c, o) == \A p \in orphans : Height[o.hash] <= Height[p.hash]

\* Of the orphans report c cites, o is the one whose turn comes first.
FirstCited(c, o) ==
  /\ o.hash \in c \cap Flipped
  /\ \A p \in orphans : p.hash \in c \cap Flipped => Height[o.hash] <= Height[p.hash]

\* Mutant: only the first orphan is recorded.
InvalidateUnrecorded ==
  /\ rows' = [x \in Hashes |-> IF x \in Flipped THEN "orphaned" ELSE rows[x]]
  /\ revoked' = revoked \cup Dependents
  /\ auditRows' = auditRows \cup {o \in orphans : \A p \in orphans : Height[o.hash] <= Height[p.hash]}
  /\ UNCHANGED <<auditReports, reports>>

\* invalidateOrphanedBlock, for each orphan in turn.
Invalidate ==
  /\ rows' = [x \in Hashes |-> IF x \in Flipped THEN "orphaned" ELSE rows[x]]
  /\ revoked' = revoked \cup Dependents
  /\ auditRows' = auditRows \cup {o \in orphans : o.hash \in Flipped}
  /\ auditReports' = auditReports \cup
       {a \in [report : Dependents, by : {o.by : o \in orphans}] :
          \E o \in orphans : FirstCited(a.report, o) /\ a.by = o.by}
  /\ UNCHANGED reports

\* Mutant: the cursor goes back below the deepest orphan only.
RewindToLast ==
  \E o \in orphans :
    /\ \A p \in orphans : Height[p.hash] <= Height[o.hash]
    /\ cursor' = Lower(cursor, Height[o.hash] - 1)
    /\ cursorHash' = BlockHash[branch][Higher(Height[o.hash] - 1, 0)]

\* The cursor goes back to just below the shallowest orphan, never forward.
Rewind ==
  \E o \in orphans :
    LET low == Height[o.hash]
        anchor == Higher(low - 1, 0)
    IN  /\ \A p \in orphans : low <= Height[p.hash]
        /\ cursor' = IF cursor # None /\ cursor >= low THEN anchor ELSE cursor
        /\ cursorHash' = IF cursor # None /\ cursor >= low
                           THEN BlockHash[branch][anchor] ELSE cursorHash

\* One transaction invalidates every orphan and rewinds the cursor.
ReconcileRepair ==
  /\ pc = "check"
  /\ todo = {} /\ orphans # {}
  /\ Invalidate
  /\ Rewind
  /\ EndJob
  /\ UNCHANGED <<chainVars, sinkVars, deployed, requestVars, faults>>

\* The worker is killed, loses the provider or the database, or is given no
\* block where it needs one: the job throws and an open transaction rolls back.
WorkerFault ==
  /\ pc # "idle"
  /\ faults < MaxFaults
  /\ faults' = faults + 1
  /\ EndJob
  /\ UNCHANGED <<chainVars, sinkVars, deployed, storedVars, requestVars>>

------------------------------------------------------------------------------
(* Filing a report: createReport of apps/api/src/services/evidence-service. *)
(* A report's id derives from the observations it cites, so a report is     *)
(* identified here with the set of blocks whose rows it cites.              *)

\* Read the canonical rows of a window that ends at the cursor.  The window's
\* choice of rows is abstracted to its lower bound; a row flipped between two
\* of its reads is caught at the insert, like one flipped after them.
ReadWindow(r, start) ==
  LET window == {x \in Canonical : Height[x] \in start..cursor}
  IN  /\ reqPc[r] = "idle"
      /\ window # {}
      /\ reqPc' = [reqPc EXCEPT ![r] = "insert"]
      /\ reqCites' = [reqCites EXCEPT ![r] = window]
      /\ UNCHANGED <<chainVars, sinkVars, deployed, storedVars, jobVars, faults>>

EndRequest(r) ==
  /\ reqPc' = [reqPc EXCEPT ![r] = "idle"]
  /\ reqCites' = [reqCites EXCEPT ![r] = {}]

\* insertReport within its transaction, READ COMMITTED: the report and its
\* citations are in place but no other transaction sees them yet.  A second
\* insert of the same id waits for the first to end.
InsertReport(r) ==
  /\ reqPc[r] = "insert"
  /\ reqCites[r] \notin reports
  /\ \A q \in Requests : reqPc[q] = "inserted" => reqCites[q] # reqCites[r]
  /\ reqCites[r] \subseteq Canonical
  /\ reqPc' = [reqPc EXCEPT ![r] = "inserted"]
  /\ UNCHANGED <<chainVars, sinkVars, deployed, storedVars, jobVars, reqCites, faults>>

\* The id is taken: the stored report is served, whatever became of it.
ServeStored(r) ==
  /\ reqPc[r] = "insert"
  /\ reqCites[r] \in reports
  /\ EndRequest(r)
  /\ UNCHANGED <<chainVars, sinkVars, deployed, storedVars, jobVars, faults>>

\* report_observation_requires_canonical raises: the insert rolls back.
RefuseReport(r) ==
  /\ reqPc[r] = "insert"
  /\ reqCites[r] \notin reports
  /\ \A q \in Requests : reqPc[q] = "inserted" => reqCites[q] # reqCites[r]
  /\ ~(reqCites[r] \subseteq Canonical)
  /\ EndRequest(r)
  /\ UNCHANGED <<chainVars, sinkVars, deployed, storedVars, jobVars, faults>>

CommitReport(r) ==
  /\ reqPc[r] = "inserted"
  /\ reports' = reports \cup {reqCites[r]}
  /\ EndRequest(r)
  /\ UNCHANGED <<chainVars, sinkVars, deployed, historyVars, auditVars, revoked, jobVars, faults>>

\* The API process is killed or the database refuses: the request rolls back.
RequestFault(r) ==
  /\ reqPc[r] # "idle"
  /\ faults < MaxFaults
  /\ faults' = faults + 1
  /\ EndRequest(r)
  /\ UNCHANGED <<chainVars, sinkVars, deployed, storedVars, jobVars>>

------------------------------------------------------------------------------

Environment == ExtendChain \/ (\E c \in Branches : Reorg(c)) \/ SinkWrite \/ SinkUndo \/ Deploy

PromoteStep ==
  \/ PromoteCeiling \/ PromoteNoCeiling \/ PromoteCursor \/ PromoteDone
  \/ PromoteHash \/ PromoteCommit \/ PromoteReject

ReconcileStep == ReconcileCheck \/ ReconcileClean \/ ReconcileRepair

Worker == PromoteStart \/ PromoteStep \/ ReconcileList \/ ReconcileStep \/ WorkerFault

Api ==
  \E r \in Requests :
    \/ \E start \in Heights : ReadWindow(r, start)
    \/ InsertReport(r) \/ ServeStored(r) \/ RefuseReport(r) \/ CommitReport(r) \/ RequestFault(r)

Next == Environment \/ Worker \/ Api

Spec == Init /\ [][Next]_vars

\* The sink streams on, the operator runs both jobs again and again, a job that
\* has started runs on, and a release the rows need is deployed some day.  The
\* network need not grow, nobody need ask for a report, and a started request
\* may hang.  MaxFaults bounds the faults, so a job is not interrupted forever.
Fairness ==
  /\ WF_vars(SinkWrite \/ SinkUndo)
  /\ WF_vars(Deploy)
  /\ SF_vars(PromoteStart)
  /\ SF_vars(ReconcileList)
  /\ WF_vars(PromoteStep)
  /\ WF_vars(ReconcileStep)

FairSpec == Spec /\ Fairness

------------------------------------------------------------------------------
(* Properties                                                               *)

AuditRow == [hash : Hashes, by : Hashes]
AuditReport == [report : SUBSET Hashes, by : Hashes]
Blocks == Heights \cup {None}

\* Every variable stays within its type; the worker's locals (promote-confirmed
\* and reconcile-deep-reorg) are numbers and hashes whatever the interleaving.
TypeOK ==
  /\ branch \in Branches /\ head \in Heights
  /\ sinkBranch \in Branches /\ sinkHead \in Blocks
  /\ deployed \in BOOLEAN
  /\ rows \in [Hashes -> {"absent", "canonical", "orphaned"}]
  /\ cursor \in Blocks /\ cursorHash \in Hashes \cup {NoHash}
  /\ auditRows \subseteq AuditRow /\ auditReports \subseteq AuditReport
  /\ reports \subseteq SUBSET Hashes /\ revoked \subseteq reports
  /\ pc \in {"idle", "ceiling", "cursor", "hash", "commit", "check"}
  /\ accepts \in BOOLEAN /\ rpcHead \in Heights /\ ceiling \in Blocks
  /\ from \in Int /\ to \in Heights /\ toHash \in Hashes \cup {NoHash}
  /\ todo \subseteq Hashes /\ orphans \subseteq AuditRow
  /\ reqPc \in [Requests -> {"idle", "insert", "inserted"}]
  /\ reqCites \in [Requests -> SUBSET Hashes]
  /\ faults \in 0..MaxFaults

\* "Anything the sink might still undo has never been promoted": under shallow
\* reorgs and a sink that keeps up, every promoted row is of a block that still
\* stands, and no reorg the network may still make can remove it.
\* promote-confirmed.ts:30-34, cursors.ts:116-125.
PromotedRowsAreFinal ==
  \A x \in Hashes : rows[x] # "absent" =>
    /\ rows[x] = "canonical"
    /\ BlockHash[branch][Height[x]] = x
    /\ Height[x] <= head - ConfirmationDepth

\* The cursor never passes a block whose rows are not in the application tables:
\* there is no permanent hole in the observation history.  cursors.ts:58-64.
NoHoles ==
  \A h \in Heights :
    h \in WindowStart..cursor /\ Carries(BlockHash[branch][h]) =>
      rows[BlockHash[branch][h]] = "canonical"

\* The cursor's hash is that of the block it names, on the chain as it is.
\* promote-confirmed.ts:38-41.
CursorAttestsChain == cursor # None => cursorHash = BlockHash[branch][cursor]

\* The record of a withdrawn answer is never lost: an orphaned row stays
\* orphaned whatever is promoted later, a withdrawn report stays withdrawn, no
\* report and no audit row disappears.  observations.ts:252-255, 402-411.
HistoryIsAppendOnly ==
  [][/\ Orphaned \subseteq Orphaned'
     /\ Canonical \subseteq Canonical' \cup Orphaned'
     /\ reports \subseteq reports' /\ revoked \subseteq revoked'
     /\ auditRows \subseteq auditRows' /\ auditReports \subseteq auditReports']_vars

\* Every invalidation can be explained: an orphaned row has an audit row naming
\* a different block of its height, and a withdrawn report cites an orphaned row
\* and has an audit row naming the block that replaced it.  observations.ts:402-411.
InvalidationsAreExplained ==
  /\ \A x \in Orphaned :
       \E a \in auditRows : a.hash = x /\ a.by # x /\ Height[a.by] = Height[x]
  /\ \A c \in revoked :
       \E a \in auditReports, o \in auditRows :
         a.report = c /\ o.hash \in c /\ o.hash \in Orphaned /\ a.by = o.by

\* Orphaning rows and withdrawing the stored reports that cite them is one step,
\* whatever block of its window a report cites them from.  observations.ts:458-489.
DependentsFallTogether ==
  [][\A c \in reports \ revoked :
       (c \cap (Orphaned' \ Orphaned) # {}) <=> c \in revoked']_vars

\* A repair leaves the cursor below every row it orphaned, so that promotion
\* reads all their blocks again.  reconcile-deep-reorg.ts:104-107.  Block 0 has
\* nothing below it.
RepairRewindsBelowOrphans ==
  [][\A x \in Orphaned' \ Orphaned : cursor' < Height[x] \/ cursor' = 0]_vars

\* The cursor comes to every confirmed block some day, however deep the reorgs: no
\* throw, rejected batch, crash or rewind stops it for good.  observations.ts:144,
\* promote-confirmed.ts:139-141.
ConfirmedBlocksArePromoted ==
  \A h \in Heights :
    (h >= WindowStart /\ h <= head - ConfirmationDepth) ~> (cursor >= h)

\* A row of a block the network dropped does not stay canonical: the next full
\* reconciliation finds it, however deep the reorg.  reconcile-deep-reorg.ts:20-29.
OrphansAreFound ==
  \A x \in Hashes :
    (x \in Canonical /\ Height[x] >= WindowStart /\ BlockHash[branch][Height[x]] # x)
      ~> (x \notin Canonical \/ BlockHash[branch][Height[x]] = x)

\* Why they hold, as one invariant that every step keeps: at or below the
\* confirmed head the sink has mirrored the chain as it is, a job's range lies
\* where both bounds of the ceiling put it, and a reconciliation finds nothing.
SinkSettled ==
  /\ sinkHead <= head
  /\ \A h \in Heights :
       h <= sinkHead /\ h <= head - ConfirmationDepth =>
         BlockHash[sinkBranch][h] = BlockHash[branch][h]

JobSettled ==
  /\ rpcHead <= head
  /\ pc \in {"cursor", "hash", "commit"} =>
       ceiling >= 0 /\ ceiling <= sinkHead /\ ceiling <= rpcHead - ConfirmationDepth
  /\ pc \in {"hash", "commit"} => from = RangeFrom(cursor) /\ from <= to /\ to <= ceiling
  /\ pc = "commit" => toHash = BlockHash[branch][to]
  /\ orphans = {} /\ todo \subseteq Canonical

ShallowInv ==
  /\ SinkSettled
  /\ JobSettled
  /\ PromotedRowsAreFinal
  /\ NoHoles
  /\ CursorAttestsChain
  /\ cursor # None => cursor \in WindowStart..(head - ConfirmationDepth)
  /\ \A x \in Canonical : Carries(x) /\ Height[x] \in WindowStart..cursor

\* The history a reader is promised: a ledger that only grows, and its rows.
Ledger ==
  INSTANCE ConfirmedHistory
    WITH ledger <- [h \in WindowStart..cursor |-> BlockHash[branch][h]],
         observed <- Canonical

\* Under shallow reorgs and a sink that keeps up, the application tables are such
\* a history: what was once at or below the cursor is never revised, and the rows
\* are those of its blocks, no more and no less.  promote-confirmed.ts:26-34.
KeepsLedger == Ledger!Spec

\* What the documentation says and the code does not always do.

\* "The affected range is promoted again from the canonical chain": some day the
\* history has no hole, and stays so.  cursors.ts:82.
HistoryHeals == <>[]NoHoles

\* "A detected deep reorg invalidates every promoted dependent": no report that
\* passes for canonical cites a row that does not.  docs/PRD.md:265.
CanonicalReportsCiteCanonicalRows == \A c \in reports \ revoked : c \subseteq Canonical

==============================================================================
