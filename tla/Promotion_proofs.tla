-------------------------- MODULE Promotion_proofs --------------------------
(****************************************************************************)
(* Theorems of Promotion, for every network, every number of blocks and     *)
(* every number of concurrent report requests.                              *)
(****************************************************************************)
EXTENDS Promotion, TLAPS, WellFoundedInduction

\* The minimum and maximum of the code's Math.min and Math.max.
LEMMA LowerOf ==
  ASSUME NEW a \in Int, NEW b \in Int
  PROVE  /\ Lower(a, b) \in {a, b}
         /\ Lower(a, b) <= a /\ Lower(a, b) <= b
         /\ Higher(a, b) \in {a, b}
         /\ Higher(a, b) >= a /\ Higher(a, b) >= b
  BY DEF Lower, Higher

\* Heights and Blocks, as the provers need them.
LEMMA HeightsAre ==
  /\ MaxHead \in Int /\ MaxHead >= 0
  /\ \A h : h \in Heights <=> h \in Int /\ 0 <= h /\ h <= MaxHead
  /\ \A h : h \in Blocks <=> h \in Heights \/ h = -1
  /\ None = -1
  BY HeadAssumption DEF Heights, Blocks, None

\* What two chains share at a height they share below it.
LEMMA AgreeBelow ==
  ASSUME NEW b \in Branches, NEW c \in Branches, NEW h \in Int, h <= MaxHead,
         Agree(b, c, h), NEW k \in Heights, k <= h
  PROVE  BlockHash[b][k] = BlockHash[c][k]
<1>1. h \in Heights
  BY HeadAssumption DEF Heights
<1>2. BlockHash[b][h] = BlockHash[c][h]
  BY <1>1 DEF Agree, Heights
<1>. QED
  BY <1>1, <1>2, HashAssumption DEF Heights

\* The ceiling is a block number, or None.
LEMMA CeilingIsABlock ==
  ASSUME NEW rpc \in Heights, NEW sink \in Blocks
  PROVE  /\ PromotionCeiling(rpc, sink) \in Blocks
         /\ PromotionCeiling(rpc, sink) # None =>
              /\ PromotionCeiling(rpc, sink) >= 0
              /\ PromotionCeiling(rpc, sink) <= sink
              /\ PromotionCeiling(rpc, sink) <= rpc - ConfirmationDepth
  BY HeadAssumption DEF PromotionCeiling, Lower, Heights, Blocks, None

\* The block below an orphan, where a rewind leaves the cursor.
LEMMA AnchorIsABlock ==
  ASSUME NEW h \in Heights
  PROVE  Higher(h - 1, 0) \in Heights /\ Higher(h - 1, 0) <= h
  BY HeadAssumption DEF Higher, Heights

\* A non-empty range ends at a block number, not above the ceiling.
LEMMA RangeIsBounded ==
  ASSUME NEW at \in Blocks, NEW top \in Blocks, RangeTo(at, top) >= RangeFrom(at)
  PROVE  /\ RangeFrom(at) \in Nat
         /\ RangeTo(at, top) \in Heights
         /\ RangeTo(at, top) <= top
  BY HeadAssumption DEF RangeTo, RangeFrom, Lower, Heights, Blocks, None

-----------------------------------------------------------------------------

\* An empty database and an idle worker are within their types.
LEMMA TypeInit == Init => TypeOK
<1>. SUFFICES ASSUME Init PROVE TypeOK
  OBVIOUS
<1>1. 0 \in Heights /\ None \in Blocks /\ 0 \in 0..MaxFaults /\ 0 \in Int
  BY HeightsAre, HeadAssumption
<1>2. FirstBranch \in Branches
  BY ChainAssumption
<1>. QED
  BY <1>1, <1>2 DEF Init, TypeOK

\* A job that ends leaves its locals within their types.
LEMMA TypeEndJob ==
  ASSUME EndJob
  PROVE  /\ pc' \in {"idle", "ceiling", "cursor", "hash", "commit", "check"}
         /\ accepts' \in BOOLEAN /\ rpcHead' \in Heights /\ ceiling' \in Blocks
         /\ from' \in Int /\ to' \in Heights /\ toHash' \in Hashes \cup {NoHash}
         /\ todo' \subseteq Hashes /\ orphans' \subseteq AuditRow
<1>1. 0 \in Heights /\ None \in Blocks /\ 0 \in Int
  BY HeightsAre
<1>. QED
  BY <1>1 DEF EndJob

\* The network, the sink and a deploy change nothing but their own, within its type.
LEMMA TypeEnvironment == TypeOK /\ Environment => TypeOK'
<1>. SUFFICES ASSUME TypeOK, Environment PROVE TypeOK'
  OBVIOUS
<1>. USE HeightsAre
     DEF TypeOK, chainVars, sinkVars, storedVars, historyVars, auditVars, reportVars,
         jobVars, promoteVars, reconcileVars, requestVars
<1>1. CASE ExtendChain
  BY <1>1 DEF ExtendChain
<1>2. ASSUME NEW c \in Branches, Reorg(c) PROVE TypeOK'
  BY <1>2 DEF Reorg
<1>3. CASE SinkWrite
  BY <1>3 DEF SinkWrite
<1>4. CASE SinkUndo
  BY <1>4 DEF SinkUndo
<1>5. CASE Deploy
  BY <1>5 DEF Deploy
<1>. QED
  BY <1>1, <1>2, <1>3, <1>4, <1>5 DEF Environment

\* Every step of either job keeps the types: ranges, hashes and orphans are of blocks.
LEMMA TypeWorker == TypeOK /\ Worker => TypeOK'
<1>. SUFFICES ASSUME TypeOK, Worker PROVE TypeOK'
  OBVIOUS
<1>0. 0 \in Heights /\ 0 \in Int /\ None \in Blocks /\ to \in Blocks
  BY HeightsAre DEF TypeOK
<1>. USE HeadAssumption, ChainAssumption
     DEF TypeOK, chainVars, sinkVars, storedVars, historyVars, auditVars, reportVars,
         jobVars, promoteVars, reconcileVars, requestVars
<1>1. CASE PromoteStart
  BY <1>1 DEF PromoteStart
<1>2. CASE PromoteCeiling
  BY <1>2, CeilingIsABlock DEF PromoteCeiling
<1>3. CASE PromoteNoCeiling
  BY <1>3, TypeEndJob DEF PromoteNoCeiling
<1>4. CASE PromoteCursor
  BY <1>4, RangeIsBounded DEF PromoteCursor
<1>5. CASE PromoteDone
  BY <1>5, TypeEndJob DEF PromoteDone
<1>6. CASE PromoteHash
  BY <1>6 DEF PromoteHash
<1>7. CASE PromoteCommit
  <2>1. rows' \in [Hashes -> {"absent", "canonical", "orphaned"}]
    BY <1>7 DEF PromoteCommit, Upsert
  <2>. QED
    BY <1>0, <1>7, <2>1 DEF PromoteCommit
<1>8. CASE PromoteReject
  BY <1>8, TypeEndJob DEF PromoteReject
<1>9. CASE ReconcileList
  BY <1>9 DEF ReconcileList, Canonical
<1>10. CASE ReconcileCheck
  BY <1>10 DEF ReconcileCheck, AuditRow
<1>11. CASE ReconcileClean
  BY <1>11, TypeEndJob DEF ReconcileClean
<1>12. CASE ReconcileRepair
  <2>1. /\ rows' \in [Hashes -> {"absent", "canonical", "orphaned"}]
        /\ auditRows' \subseteq AuditRow
        /\ auditReports' \subseteq AuditReport
        /\ reports' \subseteq SUBSET Hashes /\ revoked' \subseteq reports'
    BY <1>12 DEF ReconcileRepair, Invalidate, Dependents, AuditRow, AuditReport
  <2>2. cursor' \in Blocks /\ cursorHash' \in Hashes \cup {NoHash}
    <3>1. PICK o \in orphans : Rewind!(o)
      BY <1>12 DEF ReconcileRepair, Rewind
    <3>2. Height[o.hash] \in Heights
      BY DEF AuditRow
    <3>3. BlockHash[branch] \in [Heights -> Hashes]
      OBVIOUS
    <3>4. Higher(Height[o.hash] - 1, 0) \in Heights
      BY <3>2, AnchorIsABlock
    <3>. QED
      BY <3>1, <3>3, <3>4 DEF Blocks
  <2>. QED
    BY <1>12, <2>1, <2>2, TypeEndJob DEF ReconcileRepair
<1>13. CASE WorkerFault
  BY <1>13, TypeEndJob DEF WorkerFault
<1>. QED
  BY <1>1, <1>2, <1>3, <1>4, <1>5, <1>6, <1>7, <1>8, <1>9, <1>10, <1>11, <1>12, <1>13
  DEF Worker, PromoteStep, ReconcileStep

\* Every step of a report request keeps the types.
LEMMA TypeApi == TypeOK /\ Api => TypeOK'
<1>. SUFFICES ASSUME TypeOK, NEW r \in Requests,
                     \/ \E start \in Heights : ReadWindow(r, start)
                     \/ InsertReport(r) \/ ServeStored(r) \/ RefuseReport(r)
                     \/ CommitReport(r) \/ RequestFault(r)
              PROVE  TypeOK'
  BY DEF Api
<1>. USE HeadAssumption
     DEF TypeOK, chainVars, sinkVars, storedVars, historyVars, auditVars, reportVars,
         jobVars, promoteVars, reconcileVars, requestVars, EndRequest
<1>1. ASSUME NEW start \in Heights, ReadWindow(r, start) PROVE TypeOK'
  BY <1>1 DEF ReadWindow, Canonical
<1>2. CASE InsertReport(r)
  BY <1>2 DEF InsertReport
<1>3. CASE ServeStored(r)
  BY <1>3 DEF ServeStored
<1>4. CASE RefuseReport(r)
  BY <1>4 DEF RefuseReport
<1>5. CASE CommitReport(r)
  BY <1>5 DEF CommitReport
<1>6. CASE RequestFault(r)
  BY <1>6 DEF RequestFault
<1>. QED
  BY <1>1, <1>2, <1>3, <1>4, <1>5, <1>6

\* Every variable keeps its type, whatever the network, the faults and the
\* number of requests.
THEOREM TypeCorrect == Spec => []TypeOK
<1>1. TypeOK /\ UNCHANGED vars => TypeOK'
  BY DEF TypeOK, vars, chainVars, sinkVars, storedVars, historyVars, auditVars, reportVars,
         jobVars, promoteVars, reconcileVars, requestVars, Canonical
<1>2. TypeOK /\ [Next]_vars => TypeOK'
  BY <1>1, TypeEnvironment, TypeWorker, TypeApi DEF Next
<1>. QED
  BY TypeInit, <1>2, PTL DEF Spec

-----------------------------------------------------------------------------
(* Shallow reorgs and a sink that keeps up.                                 *)

\* No reorg reaches a confirmed block.
LEMMA ReorgIsShallow ==
  ASSUME TypeOK, MaxReorgDepth <= ConfirmationDepth,
         NEW c \in Branches, Reorg(c), NEW k \in Heights, k <= head - ConfirmationDepth
  PROVE  BlockHash[branch][k] = BlockHash[c][k]
<1> DEFINE deepest == Higher(head - MaxReorgDepth, 0)
<1>1. deepest \in Int /\ deepest <= MaxHead /\ k <= deepest
  BY HeadAssumption DEF TypeOK, Heights, Higher
<1>2. Agree(branch, c, deepest) /\ branch \in Branches
  BY DEF Reorg, TypeOK
<1> HIDE DEF deepest
<1>. QED
  BY <1>1, <1>2, AgreeBelow

\* A chain that grows finds the sink's blocks settled at every height the growth
\* confirms.
LEMMA GrowthIsSettled ==
  ASSUME TypeOK, SinkSettled, SinkKeepsUp, ExtendChain
  PROVE  SinkSettled'
<1> DEFINE newest == Lower(sinkHead, head + 1 - ConfirmationDepth)
<1>1. newest \in Int /\ newest <= MaxHead
  BY HeadAssumption DEF TypeOK, Blocks, Heights, Lower, None
<1>2. Agree(sinkBranch, branch, newest) /\ branch \in Branches /\ sinkBranch \in Branches
  BY DEF ExtendChain, SinkAgreesUpTo, TypeOK
<1>3. \A h \in Heights : h <= sinkHead /\ h <= head + 1 - ConfirmationDepth => h <= newest
  BY DEF Lower
<1> HIDE DEF newest
<1>4. \A h \in Heights :
        h <= sinkHead /\ h <= head + 1 - ConfirmationDepth =>
          BlockHash[sinkBranch][h] = BlockHash[branch][h]
  BY <1>1, <1>2, <1>3, AgreeBelow
<1>5. sinkHead <= head + 1
  BY HeightsAre DEF SinkSettled, TypeOK
<1>6. /\ branch' = branch /\ sinkBranch' = sinkBranch /\ sinkHead' = sinkHead
      /\ head' = head + 1
  BY DEF ExtendChain, sinkVars
<1>7. head \in Int /\ ConfirmationDepth \in Int /\ sinkHead \in Int /\ \A h \in Heights : h \in Int
  BY HeightsAre, HeadAssumption DEF TypeOK
<1>8. \A h \in Heights :
        h <= sinkHead' /\ h <= head' - ConfirmationDepth =>
          BlockHash[sinkBranch'][h] = BlockHash[branch'][h]
  BY <1>4, <1>6, <1>7
<1>9. sinkHead' <= head'
  BY <1>5, <1>6
<1>. QED
  BY <1>8, <1>9 DEF SinkSettled

\* Undoing never takes back a block below a running job's ceiling.
LEMMA UndoStaysAboveCeiling ==
  ASSUME TypeOK, SinkSettled, NEW k \in None..(sinkHead - 1), ~Agree(sinkBranch, branch, k + 1)
  PROVE  \A h \in Blocks : h <= sinkHead /\ h <= head - ConfirmationDepth => h <= k
<1>. SUFFICES ASSUME NEW h \in Blocks, h <= sinkHead, h <= head - ConfirmationDepth, ~(h <= k)
              PROVE  FALSE
  OBVIOUS
<1>1. k + 1 \in Heights /\ k + 1 <= sinkHead /\ k + 1 <= head - ConfirmationDepth
  BY HeadAssumption DEF TypeOK, Blocks, Heights, None
<1>. QED
  BY <1>1 DEF SinkSettled, Agree

\* The numbers of a state, and the blocks of its chains.
LEMMA Numbers ==
  ASSUME TypeOK
  PROVE  /\ head \in Int /\ sinkHead \in Int /\ cursor \in Int /\ rpcHead \in Int
         /\ ceiling \in Int /\ from \in Int /\ to \in Int
         /\ ConfirmationDepth \in Int /\ WindowStart \in Int /\ WindowStart >= 0
         /\ \A h \in Heights : h \in Int /\ h >= 0
         /\ \A x \in Hashes : Height[x] \in Heights
         /\ \A b \in Branches, h \in Heights :
              BlockHash[b][h] \in Hashes /\ Height[BlockHash[b][h]] = h
         /\ branch \in Branches /\ sinkBranch \in Branches
         /\ cursor \in Heights \/ cursor = -1
<1>1. /\ branch \in Branches /\ sinkBranch \in Branches
      /\ head \in Heights /\ sinkHead \in Blocks /\ cursor \in Blocks /\ rpcHead \in Heights
      /\ ceiling \in Blocks /\ from \in Int /\ to \in Heights
  BY DEF TypeOK
<1>2. /\ \A x \in Hashes : Height[x] \in Heights
      /\ \A b \in Branches, h \in Heights :
           BlockHash[b][h] \in Hashes /\ Height[BlockHash[b][h]] = h
  BY ChainAssumption, HashAssumption
<1>. QED
  BY <1>1, <1>2, HeightsAre, HeadAssumption

\* What a step of the network, which only lengthens or shallowly replaces the
\* chain, keeps.
LEMMA ShallowChain ==
  ASSUME TypeOK, ShallowInv, TypeOK', SinkSettled',
         NEW c \in Branches, branch' = c, head' >= head,
         \A k \in Heights : k <= head - ConfirmationDepth => BlockHash[branch][k] = BlockHash[c][k],
         UNCHANGED <<sinkHead, storedVars, jobVars>>
  PROVE  ShallowInv'
<1>. USE Numbers DEF ShallowInv
<1>0. UNCHANGED <<rows, cursor, cursorHash, pc, rpcHead, ceiling, from, to, toHash, todo, orphans>>
  BY DEF storedVars, historyVars, jobVars, promoteVars, reconcileVars
<1>h. head' \in Int
  BY HeightsAre DEF TypeOK
<1>1. JobSettled'
  <2>1. rpcHead' <= head'
    BY <1>0, <1>h DEF JobSettled
  <2>2. pc = "commit" => toHash' = BlockHash[c][to]
    <3>1. pc = "commit" => to <= head - ConfirmationDepth /\ to \in Heights
      BY DEF JobSettled, TypeOK
    <3>. QED
      BY <1>0, <3>1 DEF JobSettled
  <2>3. Canonical' = Canonical
    BY <1>0 DEF Canonical
  <2>. QED
    BY <1>0, <2>1, <2>2, <2>3 DEF JobSettled, RangeFrom
<1>2. PromotedRowsAreFinal'
  BY <1>0, <1>h DEF PromotedRowsAreFinal
<1>3. NoHoles'
  <2>. SUFFICES ASSUME NEW h \in Heights, h \in WindowStart..cursor, Carries(BlockHash[c][h])
                PROVE  rows[BlockHash[c][h]] = "canonical"
    BY <1>0 DEF NoHoles, Carries
  <2>1. h <= head - ConfirmationDepth
    BY DEF None
  <2>. QED
    BY <2>1 DEF NoHoles
<1>4. CursorAttestsChain'
  <2>1. cursor # None => cursor \in Heights /\ cursor <= head - ConfirmationDepth
    BY DEF None
  <2>. QED
    BY <1>0, <2>1 DEF CursorAttestsChain
<1>5. cursor' # None => cursor' \in WindowStart..(head' - ConfirmationDepth)
  BY <1>0, <1>h
<1>6. \A x \in Canonical' : Carries(x) /\ Height[x] \in WindowStart..cursor'
  BY <1>0 DEF Canonical
<1>. QED
  BY <1>1, <1>2, <1>3, <1>4, <1>5, <1>6

\* An empty history is final, whole and attested.
LEMMA ShallowInit == Init => ShallowInv
<1>. SUFFICES ASSUME Init PROVE ShallowInv
  OBVIOUS
<1>1. sinkHead = -1 /\ cursor = -1 /\ Canonical = {} /\ head = 0
  BY DEF Init, None, Canonical
<1>2. SinkSettled
  BY <1>1, HeightsAre, HeadAssumption DEF SinkSettled
<1>3. JobSettled
  BY <1>1 DEF Init, JobSettled
<1>4. PromotedRowsAreFinal /\ CursorAttestsChain
  BY DEF Init, PromotedRowsAreFinal, CursorAttestsChain
<1>5. NoHoles
  BY <1>1, HeadAssumption DEF NoHoles
<1>. QED
  BY <1>1, <1>2, <1>3, <1>4, <1>5 DEF ShallowInv, None

\* Neither a shallow reorg nor the sink reaches what a job has read or promoted.
LEMMA ShallowEnvironment ==
  ASSUME SinkKeepsUp, MaxReorgDepth <= ConfirmationDepth,
         TypeOK, ShallowInv, Environment
  PROVE  ShallowInv'
<1>0. TypeOK'
  BY TypeEnvironment
<1>. USE Numbers
<1>1. CASE ExtendChain
  <2>1. SinkSettled'
    BY <1>1, GrowthIsSettled DEF ShallowInv
  <2>2. branch' = branch /\ head' >= head /\ UNCHANGED <<sinkHead, storedVars, jobVars>>
    BY <1>1 DEF ExtendChain, sinkVars
  <2>. QED
    BY <1>0, <2>1, <2>2, ShallowChain
<1>2. ASSUME NEW c \in Branches, Reorg(c) PROVE ShallowInv'
  <2>1. \A k \in Heights : k <= head - ConfirmationDepth => BlockHash[branch][k] = BlockHash[c][k]
    BY <1>2, ReorgIsShallow
  <2>2. branch' = c /\ head' = head /\ sinkBranch' = sinkBranch
        /\ UNCHANGED <<sinkHead, storedVars, jobVars>>
    BY <1>2 DEF Reorg, sinkVars
  <2>3. SinkSettled'
    BY <2>1, <2>2 DEF SinkSettled, ShallowInv
  <2>. QED
    BY <1>0, <2>1, <2>2, <2>3, ShallowChain
<1>3. ASSUME sinkBranch' = branch, sinkHead' \in Int, sinkHead' <= head,
             UNCHANGED <<chainVars, storedVars, jobVars>>,
             pc \in {"cursor", "hash", "commit"} => ceiling <= sinkHead'
      PROVE  ShallowInv'
  <2>1. UNCHANGED <<branch, head, rows, cursor, cursorHash, pc, rpcHead, ceiling, from, to,
                    toHash, todo, orphans>>
    BY <1>3 DEF chainVars, storedVars, historyVars, jobVars, promoteVars, reconcileVars
  <2>2. SinkSettled'
    BY <1>3, <2>1 DEF SinkSettled
  <2>3. JobSettled'
    BY <1>3, <2>1 DEF JobSettled, ShallowInv, RangeFrom, Canonical
  <2>. QED
    BY <2>1, <2>2, <2>3
    DEF ShallowInv, PromotedRowsAreFinal, NoHoles, CursorAttestsChain, Canonical, Carries
<1>4. CASE SinkWrite
  <2>1. /\ sinkBranch' = branch /\ sinkHead' \in Int /\ sinkHead <= sinkHead' /\ sinkHead' <= head
        /\ UNCHANGED <<chainVars, storedVars, jobVars>>
    BY <1>4 DEF SinkWrite
  <2>. QED
    BY <1>3, <2>1 DEF ShallowInv, JobSettled
<1>5. CASE SinkUndo
  <2>1. PICK k \in None..(sinkHead - 1) : ~Agree(sinkBranch, branch, k + 1) /\ sinkHead' = k
    BY <1>5 DEF SinkUndo
  <2>2. /\ sinkBranch' = branch /\ k \in Int /\ k < sinkHead
        /\ UNCHANGED <<chainVars, storedVars, jobVars>>
    BY <1>5, <2>1 DEF SinkUndo, None
  <2>3. k <= head
    BY <2>2 DEF ShallowInv, SinkSettled
  <2>4. pc \in {"cursor", "hash", "commit"} => ceiling <= k
    <3>1. pc \in {"cursor", "hash", "commit"} =>
            ceiling \in Blocks /\ ceiling <= sinkHead /\ ceiling <= head - ConfirmationDepth
      BY DEF ShallowInv, JobSettled, TypeOK
    <3>. QED
      BY <2>1, <3>1, UndoStaysAboveCeiling DEF ShallowInv
  <2>. QED
    BY <1>3, <2>1, <2>2, <2>3, <2>4
<1>6. CASE Deploy
  <2>1. UNCHANGED <<chainVars, sinkVars, storedVars, jobVars>>
    BY <1>6 DEF Deploy
  <2>2. UNCHANGED <<branch, head, sinkBranch, sinkHead, rows, cursor, cursorHash, pc, rpcHead,
                    ceiling, from, to, toHash, todo, orphans>>
    BY <2>1
    DEF chainVars, sinkVars, storedVars, historyVars, jobVars, promoteVars, reconcileVars
  <2>. QED
    BY <2>2 DEF ShallowInv, SinkSettled, JobSettled, RangeFrom, PromotedRowsAreFinal, NoHoles,
                CursorAttestsChain, Canonical, Carries
<1>. QED
  BY <1>1, <1>2, <1>4, <1>5, <1>6 DEF Environment

\* A job that ends, or moves on to a place where it holds no range, leaves the
\* history as it was.
LEMMA ShallowQuiet ==
  ASSUME ShallowInv,
         UNCHANGED <<chainVars, sinkVars, historyVars>>,
         rpcHead' <= head,
         pc' \in {"idle", "ceiling", "check"},
         orphans' = {}, todo' \subseteq Canonical
  PROVE  ShallowInv'
<1>1. UNCHANGED <<branch, head, sinkBranch, sinkHead, rows, cursor, cursorHash>>
  BY DEF chainVars, sinkVars, historyVars
<1>2. Canonical' = Canonical
  BY <1>1 DEF Canonical
<1>3. JobSettled'
  BY <1>1, <1>2 DEF JobSettled
<1>. QED
  BY <1>1, <1>2, <1>3
  DEF ShallowInv, SinkSettled, PromotedRowsAreFinal, NoHoles, CursorAttestsChain, Carries

\* A job that ends carries nothing the invariant speaks of.
LEMMA ShallowEndJob ==
  ASSUME TypeOK, ShallowInv, EndJob, UNCHANGED <<chainVars, sinkVars, historyVars>>
  PROVE  ShallowInv'
<1>1. rpcHead' <= head
  BY HeightsAre DEF EndJob, TypeOK
<1>2. pc' = "idle" /\ orphans' = {} /\ todo' = {}
  BY DEF EndJob
<1>. QED
  BY <1>1, <1>2, ShallowQuiet

\* Within a promotion only the job's own locals change.
LEMMA ShallowLocals ==
  ASSUME ShallowInv, JobSettled', UNCHANGED <<chainVars, sinkVars, historyVars>>
  PROVE  ShallowInv'
<1>1. UNCHANGED <<branch, head, sinkBranch, sinkHead, rows, cursor, cursorHash>>
  BY DEF chainVars, sinkVars, historyVars
<1>. QED
  BY <1>1
  DEF ShallowInv, SinkSettled, PromotedRowsAreFinal, NoHoles, CursorAttestsChain, Carries, Canonical

\* The batch is the rows of its range on the chain as it is.
LEMMA BatchIsSettled ==
  ASSUME TypeOK, ShallowInv, pc = "commit", NEW x \in Hashes
  PROVE  x \in RawRows(from, to) <=>
           Carries(x) /\ Height[x] \in from..to /\ BlockHash[branch][Height[x]] = x
<1>. USE Numbers
<1>1. to \in Heights /\ to <= sinkHead /\ to <= head - ConfirmationDepth /\ Height[x] \in Heights
  BY DEF ShallowInv, JobSettled, TypeOK
<1>2. Lower(to, sinkHead) = to
  BY <1>1 DEF Lower
<1>3. Height[x] <= to => BlockHash[sinkBranch][Height[x]] = BlockHash[branch][Height[x]]
  BY <1>1 DEF ShallowInv, SinkSettled
<1>. QED
  BY <1>1, <1>2, <1>3 DEF RawRows

\* The commit of a batch: its rows are exactly those of the chain between the cursors.
LEMMA ShallowCommit ==
  ASSUME TypeOK, ShallowInv, PromoteCommit
  PROVE  ShallowInv'
<1>. USE Numbers
<1>1. /\ UNCHANGED <<branch, head, sinkBranch, sinkHead, rpcHead, todo, orphans>>
      /\ pc = "commit" /\ pc' = "ceiling"
      /\ cursor' = to /\ cursorHash' = toHash
      /\ rows' = [x \in Hashes |->
                    IF x \in RawRows(from, to) /\ rows[x] = "absent" THEN "canonical" ELSE rows[x]]
  BY DEF PromoteCommit, Upsert, chainVars, sinkVars, reconcileVars
<1>2. /\ from = RangeFrom(cursor) /\ from <= to /\ to <= ceiling
      /\ to \in Heights /\ to <= head - ConfirmationDepth
      /\ toHash = BlockHash[branch][to]
  BY <1>1 DEF ShallowInv, JobSettled, TypeOK
<1>3. /\ from >= WindowStart /\ cursor < from
      /\ \A h \in Int : h >= WindowStart /\ h < from => h <= cursor
  <2>1. cursor = -1 => from = WindowStart
    BY <1>2 DEF RangeFrom, None
  <2>2. cursor # -1 => from = cursor + 1 /\ WindowStart <= cursor
    BY <1>2 DEF RangeFrom, None, ShallowInv
  <2>. QED
    BY <2>1, <2>2
<1>4. \A x \in Hashes :
        rows'[x] = IF /\ Carries(x) /\ Height[x] \in from..to
                      /\ BlockHash[branch][Height[x]] = x /\ rows[x] = "absent"
                     THEN "canonical" ELSE rows[x]
  BY <1>1, BatchIsSettled
<1>5. SinkSettled'
  BY <1>1 DEF SinkSettled, ShallowInv
<1>6. JobSettled'
  <2>1. Canonical \subseteq Canonical'
    BY <1>4 DEF Canonical
  <2>. QED
    BY <1>1, <2>1 DEF JobSettled, ShallowInv
<1>7. PromotedRowsAreFinal'
  <2>. SUFFICES ASSUME NEW x \in Hashes, rows'[x] # "absent"
                PROVE  /\ rows'[x] = "canonical"
                       /\ BlockHash[branch][Height[x]] = x
                       /\ Height[x] <= head - ConfirmationDepth
    BY <1>1 DEF PromotedRowsAreFinal
  <2>1. CASE rows[x] # "absent"
    BY <2>1, <1>4 DEF ShallowInv, PromotedRowsAreFinal
  <2>2. CASE rows[x] = "absent"
    BY <2>2, <1>2, <1>4
  <2>. QED
    BY <2>1, <2>2
<1>8. NoHoles'
  <2>. SUFFICES ASSUME NEW h \in Heights, h >= WindowStart, h <= to, Carries(BlockHash[branch][h])
                PROVE  rows'[BlockHash[branch][h]] = "canonical"
    BY <1>1, <1>2 DEF NoHoles, Carries
  <2> DEFINE x == BlockHash[branch][h]
  <2>1. x \in Hashes /\ Height[x] = h
    OBVIOUS
  <2>2. CASE h <= cursor
    <3>1. rows[x] = "canonical"
      BY <2>2 DEF ShallowInv, NoHoles
    <3>. QED
      BY <2>1, <3>1, <1>4
  <2>3. CASE h >= from
    <3>1. rows[x] \in {"absent", "canonical"}
      BY <2>1 DEF ShallowInv, PromotedRowsAreFinal
    <3>. QED
      BY <2>1, <2>3, <3>1, <1>4
  <2>. QED
    BY <1>3, <2>2, <2>3
<1>9. CursorAttestsChain' /\ (cursor' # None => cursor' \in WindowStart..(head' - ConfirmationDepth))
  BY <1>1, <1>2, <1>3 DEF CursorAttestsChain
<1>10. \A x \in Canonical' : Carries(x) /\ Height[x] \in WindowStart..cursor'
  <2>. SUFFICES ASSUME NEW x \in Hashes, rows'[x] = "canonical"
                PROVE  Carries(x) /\ Height[x] \in WindowStart..to
    BY <1>1 DEF Canonical
  <2>1. CASE rows[x] = "canonical"
    <3>1. Carries(x) /\ Height[x] \in WindowStart..cursor
      BY <2>1 DEF ShallowInv, Canonical
    <3>. QED
      BY <3>1, <1>2, <1>3
  <2>2. CASE rows[x] # "canonical"
    BY <2>2, <1>2, <1>3, <1>4
  <2>. QED
    BY <2>1, <2>2
<1>. QED
  BY <1>5, <1>6, <1>7, <1>8, <1>9, <1>10 DEF ShallowInv, Carries

\* Every step of either job keeps the invariant; a reconciliation finds nothing.
LEMMA ShallowWorker ==
  ASSUME TypeOK, ShallowInv, Worker
  PROVE  ShallowInv'
<1>. USE Numbers
<1>1. CASE PromoteStart
  <2>1. /\ UNCHANGED <<chainVars, sinkVars, historyVars>>
        /\ rpcHead' = head /\ pc' = "ceiling" /\ orphans' = orphans /\ todo' = todo
    BY <1>1 DEF PromoteStart, storedVars, reconcileVars
  <2>. QED
    BY <2>1, ShallowQuiet DEF ShallowInv, JobSettled
<1>2. CASE PromoteCeiling
  <2>1. /\ UNCHANGED <<chainVars, sinkVars, historyVars>>
        /\ UNCHANGED <<head, sinkHead, rows, cursor, branch, rpcHead, from, to, toHash, orphans, todo>>
        /\ pc' = "cursor"
        /\ ceiling' = PromotionCeiling(rpcHead, sinkHead) /\ ceiling' # None
    BY <1>2 DEF PromoteCeiling, chainVars, sinkVars, storedVars, historyVars, reconcileVars
  <2>2. ceiling' >= 0 /\ ceiling' <= sinkHead /\ ceiling' <= rpcHead - ConfirmationDepth
    BY <2>1, CeilingIsABlock DEF TypeOK
  <2>3. JobSettled'
    BY <2>1, <2>2 DEF JobSettled, ShallowInv, Canonical
  <2>. QED
    BY <2>1, <2>3, ShallowLocals
<1>3. CASE PromoteNoCeiling
  BY <1>3, ShallowEndJob DEF PromoteNoCeiling, storedVars
<1>4. CASE PromoteCursor
  <2>1. /\ UNCHANGED <<chainVars, sinkVars, historyVars>>
        /\ UNCHANGED <<head, sinkHead, rows, cursor, branch, rpcHead, ceiling, toHash, orphans, todo>>
        /\ pc = "cursor" /\ pc' = "hash"
        /\ from' = RangeFrom(cursor) /\ to' = RangeTo(cursor, ceiling)
        /\ RangeTo(cursor, ceiling) >= RangeFrom(cursor)
    BY <1>4 DEF PromoteCursor, chainVars, sinkVars, storedVars, historyVars, reconcileVars
  <2>2. to' \in Int /\ to' <= ceiling /\ from' \in Int
    BY <2>1, RangeIsBounded, HeightsAre DEF TypeOK
  <2>3. JobSettled'
    BY <2>1, <2>2 DEF JobSettled, ShallowInv, Canonical, RangeFrom
  <2>. QED
    BY <2>1, <2>3, ShallowLocals
<1>5. CASE PromoteDone
  BY <1>5, ShallowEndJob DEF PromoteDone, storedVars
<1>6. CASE PromoteHash
  <2>1. /\ UNCHANGED <<chainVars, sinkVars, historyVars>>
        /\ UNCHANGED <<head, sinkHead, rows, cursor, branch, rpcHead, ceiling, from, to, orphans, todo>>
        /\ pc = "hash" /\ pc' = "commit" /\ toHash' = BlockHash[branch][to]
    BY <1>6 DEF PromoteHash, chainVars, sinkVars, storedVars, historyVars, reconcileVars
  <2>2. JobSettled'
    BY <2>1 DEF JobSettled, ShallowInv, Canonical, RangeFrom
  <2>. QED
    BY <2>1, <2>2, ShallowLocals
<1>7. CASE PromoteCommit
  BY <1>7, ShallowCommit
<1>8. CASE PromoteReject
  BY <1>8, ShallowEndJob DEF PromoteReject, storedVars
<1>9. CASE ReconcileList
  <2>1. /\ UNCHANGED <<chainVars, sinkVars, historyVars>>
        /\ rpcHead' = rpcHead /\ pc' = "check" /\ orphans' = orphans /\ todo' \subseteq Canonical
    BY <1>9 DEF ReconcileList, storedVars, promoteVars
  <2>. QED
    BY <2>1, ShallowQuiet DEF ShallowInv, JobSettled
<1>10. CASE ReconcileCheck
  <2>1. /\ UNCHANGED <<chainVars, sinkVars, historyVars>>
        /\ rpcHead' = rpcHead /\ pc' = "check" /\ todo' \subseteq todo
    BY <1>10 DEF ReconcileCheck, storedVars, promoteVars
  <2>2. orphans' = {}
    <3>1. \A x \in todo : BlockHash[branch][Height[x]] = x
      BY DEF ShallowInv, JobSettled, PromotedRowsAreFinal, Canonical
    <3>. QED
      BY <1>10, <3>1 DEF ReconcileCheck, ShallowInv, JobSettled
  <2>. QED
    BY <2>1, <2>2, ShallowQuiet DEF ShallowInv, JobSettled
<1>11. CASE ReconcileClean
  BY <1>11, ShallowEndJob DEF ReconcileClean, storedVars
<1>12. CASE ReconcileRepair
  BY <1>12 DEF ReconcileRepair, ShallowInv, JobSettled
<1>13. CASE WorkerFault
  BY <1>13, ShallowEndJob DEF WorkerFault, storedVars
<1>. QED
  BY <1>1, <1>2, <1>3, <1>4, <1>5, <1>6, <1>7, <1>8, <1>9, <1>10, <1>11, <1>12, <1>13
  DEF Worker, PromoteStep, ReconcileStep

\* A report request reads the history and never writes it.
LEMMA ApiKeepsHistory ==
  ASSUME Api
  PROVE  UNCHANGED <<chainVars, sinkVars, historyVars, jobVars>>
  BY DEF Api, ReadWindow, InsertReport, ServeStored, RefuseReport, CommitReport, RequestFault,
         storedVars

\* A report request reads the history and leaves it alone.
LEMMA ShallowApi ==
  ASSUME ShallowInv, UNCHANGED <<chainVars, sinkVars, historyVars, jobVars>>
  PROVE  ShallowInv'
<1>1. UNCHANGED <<branch, head, sinkBranch, sinkHead, rows, cursor, cursorHash, pc, rpcHead,
                  ceiling, from, to, toHash, todo, orphans>>
  BY DEF chainVars, sinkVars, historyVars, jobVars, promoteVars, reconcileVars
<1>. QED
  BY <1>1 DEF ShallowInv, SinkSettled, JobSettled, RangeFrom, PromotedRowsAreFinal, NoHoles,
              CursorAttestsChain, Canonical, Carries

\* One step of the system, from the three parts.
LEMMA ShallowStep ==
  ASSUME SinkKeepsUp, MaxReorgDepth <= ConfirmationDepth, TypeOK, ShallowInv, [Next]_vars
  PROVE  ShallowInv'
<1>1. CASE Next
  BY <1>1, ShallowEnvironment, ShallowWorker, ApiKeepsHistory, ShallowApi DEF Next
<1>2. CASE UNCHANGED vars
  BY <1>2, ShallowApi DEF vars, storedVars
<1>. QED
  BY <1>1, <1>2

\* While no reorg reaches a confirmed block and the sink undoes orphans in time,
\* the history holds only rows of blocks that can no longer be removed, all of
\* them up to the cursor, and the cursor names the chain as it is.
THEOREM ShallowSafety ==
  ASSUME SinkKeepsUp, MaxReorgDepth <= ConfirmationDepth
  PROVE  Spec => []ShallowInv
<1>1. Init => ShallowInv
  BY ShallowInit
<1>2. TypeOK /\ ShallowInv /\ [Next]_vars => ShallowInv'
  BY ShallowStep
<1>. QED
  BY <1>1, <1>2, TypeCorrect, PTL DEF Spec

\* Nothing above the ceiling is ever read, so what the sink might still undo has
\* never been promoted: promote-confirmed.ts:30-34.
THEOREM PromotedIsFinal ==
  ASSUME SinkKeepsUp, MaxReorgDepth <= ConfirmationDepth
  PROVE  Spec => []PromotedRowsAreFinal
<1>1. ShallowInv => PromotedRowsAreFinal
  BY DEF ShallowInv
<1>. QED
  BY <1>1, ShallowSafety, PTL

\* The cursor leaves no block behind whose rows were not promoted: cursors.ts:58-64.
THEOREM CursorLeavesNoHole ==
  ASSUME SinkKeepsUp, MaxReorgDepth <= ConfirmationDepth
  PROVE  Spec => []NoHoles
<1>1. ShallowInv => NoHoles
  BY DEF ShallowInv
<1>. QED
  BY <1>1, ShallowSafety, PTL

\* The cursor's hash is that of the chain: promote-confirmed.ts:38-41.
THEOREM CursorAttests ==
  ASSUME SinkKeepsUp, MaxReorgDepth <= ConfirmationDepth
  PROVE  Spec => []CursorAttestsChain
<1>1. ShallowInv => CursorAttestsChain
  BY DEF ShallowInv
<1>. QED
  BY <1>1, ShallowSafety, PTL

-----------------------------------------------------------------------------
(* The history implements the ledger of ConfirmedHistory.                   *)

\* The cursor only advances, and no block at or below it is replaced.
LEMMA CursorOnlyAdvances ==
  ASSUME SinkKeepsUp, MaxReorgDepth <= ConfirmationDepth, TypeOK, ShallowInv, [Next]_vars
  PROVE  /\ cursor <= cursor'
         /\ \A h \in WindowStart..cursor : BlockHash[branch'][h] = BlockHash[branch][h]
<1>. USE Numbers
<1>1. CASE cursor' = cursor /\ branch' = branch
  BY <1>1
<1>2. ASSUME NEW c \in Branches, Reorg(c)
      PROVE  /\ cursor <= cursor'
             /\ \A h \in WindowStart..cursor : BlockHash[branch'][h] = BlockHash[branch][h]
  <2>1. cursor' = cursor /\ branch' = c
    BY <1>2 DEF Reorg, storedVars, historyVars
  <2>2. \A h \in WindowStart..cursor : h \in Heights /\ h <= head - ConfirmationDepth
    BY HeightsAre DEF ShallowInv
  <2>. QED
    BY <1>2, <2>1, <2>2, ReorgIsShallow
<1>3. CASE PromoteCommit
  <2>1. branch' = branch /\ cursor' = to
    BY <1>3 DEF PromoteCommit, chainVars
  <2>2. cursor <= to
    BY <1>3 DEF PromoteCommit, ShallowInv, JobSettled, RangeFrom, None
  <2>. QED
    BY <2>1, <2>2
<1>4. CASE UNCHANGED vars
  BY <1>1, <1>4 DEF vars, chainVars, storedVars, historyVars
<1>5. CASE Api
  BY <1>1, <1>5, ApiKeepsHistory DEF chainVars, historyVars
<1>6. CASE ExtendChain \/ SinkWrite \/ SinkUndo \/ Deploy
  BY <1>1, <1>6 DEF ExtendChain, SinkWrite, SinkUndo, Deploy, chainVars, storedVars, historyVars
<1>7. CASE PromoteStart \/ PromoteCeiling \/ PromoteNoCeiling \/ PromoteCursor \/ PromoteDone
           \/ PromoteHash \/ PromoteReject \/ ReconcileList \/ ReconcileCheck \/ ReconcileClean
           \/ WorkerFault
  BY <1>1, <1>7 DEF PromoteStart, PromoteCeiling, PromoteNoCeiling, PromoteCursor, PromoteDone,
                    PromoteHash, PromoteReject, ReconcileList, ReconcileCheck, ReconcileClean,
                    WorkerFault, chainVars, storedVars, historyVars
<1>8. CASE ReconcileRepair
  BY <1>8 DEF ReconcileRepair, ShallowInv, JobSettled
<1>. QED
  BY <1>2, <1>3, <1>4, <1>5, <1>6, <1>7, <1>8
  DEF Next, Environment, Worker, PromoteStep, ReconcileStep

\* A reader sees the rows of the ledger's blocks, no more and no less.
LEMMA RowsAreTheLedgers ==
  ASSUME TypeOK, ShallowInv
  PROVE  Canonical = Ledger!RowBlocks([h \in WindowStart..cursor |-> BlockHash[branch][h]])
<1>. USE Numbers
<1>1. \A x \in Canonical : /\ RowKind[x] # "none" /\ Height[x] \in WindowStart..cursor
                           /\ BlockHash[branch][Height[x]] = x
  BY DEF ShallowInv, PromotedRowsAreFinal, Canonical, Carries
<1>2. \A h \in WindowStart..cursor :
        RowKind[BlockHash[branch][h]] # "none" => BlockHash[branch][h] \in Canonical
  <2>1. \A h \in WindowStart..cursor : h \in Heights
    BY HeightsAre
  <2>. QED
    BY <2>1 DEF ShallowInv, NoHoles, Canonical, Carries
<1>. QED
  BY <1>1, <1>2 DEF Ledger!RowBlocks, Canonical

\* The application tables are the ledger a reader is promised: a detailed step is
\* a step of the ledger, or none.  promote-confirmed.ts:26-34.
THEOREM KeepsTheLedger ==
  ASSUME SinkKeepsUp, MaxReorgDepth <= ConfirmationDepth
  PROVE  Spec => KeepsLedger
<1> DEFINE blocks == [h \in WindowStart..cursor |-> BlockHash[branch][h]]
           complete == Canonical = Ledger!RowBlocks(blocks)
<1>1. Init => Ledger!Init
  <2>. SUFFICES ASSUME Init PROVE Ledger!Init
    OBVIOUS
  <2>1. cursor = -1 /\ Canonical = {} /\ WindowStart..cursor = {}
    BY HeadAssumption DEF Init, None, Canonical
  <2>. QED
    BY <2>1 DEF Ledger!Init
<1>2. TypeOK /\ ShallowInv /\ TypeOK' /\ complete' /\ [Next]_vars
        => [Ledger!Attest]_<<blocks, Canonical>>
  <2>. SUFFICES ASSUME TypeOK, ShallowInv, TypeOK', complete', [Next]_vars
                PROVE  Ledger!Attest
    OBVIOUS
  <2>1. /\ cursor \in Int /\ cursor' \in Int /\ WindowStart \in Int /\ cursor <= cursor'
        /\ \A h \in WindowStart..cursor : BlockHash[branch'][h] = BlockHash[branch][h]
    <3>1. cursor \in Int /\ WindowStart \in Int
      BY Numbers
    <3>2. cursor' \in Int
      BY HeightsAre DEF TypeOK
    <3>. QED
      BY <3>1, <3>2, CursorOnlyAdvances
  <2>2. DOMAIN blocks = WindowStart..cursor /\ DOMAIN blocks' = WindowStart..cursor'
    OBVIOUS
  <2>3. \A h \in DOMAIN blocks : blocks'[h] = blocks[h]
    BY <2>1, <2>2
  <2>. QED
    BY <2>1, <2>2, <2>3 DEF Ledger!Attest
<1>3. TypeOK /\ ShallowInv => complete
  BY RowsAreTheLedgers
<1>. QED
  BY <1>1, <1>2, <1>3, TypeCorrect, ShallowSafety, PTL DEF Spec, KeepsLedger, Ledger!Spec

-----------------------------------------------------------------------------
(* Deep reorgs: nothing is assumed of the network or the sink.              *)

\* Of a set of block heights one is the lowest.
LEMMA LowestOf ==
  ASSUME NEW S \in SUBSET Hashes, S # {}
  PROVE  \E x \in S : \A y \in S : Height[x] <= Height[y]
<1> DEFINE less == {p \in Nat \X Nat : p[1] < p[2]}
           heights == {Height[x] : x \in S}
<1>1. IsWellFoundedOn(less, Nat)
  BY NatLessThanWellFounded DEF OpToRel
<1>2. heights \subseteq Nat /\ heights # {}
  <2>1. \A x \in S : Height[x] \in Nat
    BY ChainAssumption, HeadAssumption DEF Heights
  <2>. QED
    BY <2>1
<1>3. PICK h \in heights : \A k \in heights : ~(<<k, h>> \in less)
  <2> HIDE DEF less, heights
  <2>. QED
    BY <1>1, <1>2, WFMin
<1>4. \A k \in heights : h <= k
  <2>. SUFFICES ASSUME NEW k \in heights PROVE h <= k
    OBVIOUS
  <2>1. k \in Nat /\ h \in Nat
    BY <1>2
  <2>2. k < h => <<k, h>> \in less
    BY <2>1
  <2>. QED
    BY <1>3, <2>1, <2>2
<1>. QED
  BY <1>4

\* Only a repair revises the history, the reports that passed for canonical, or
\* their audit; everything else leaves them alone or adds to them.
LEMMA OnlyRepairRevises ==
  ASSUME TypeOK, [Next]_vars, ~ReconcileRepair
  PROVE  /\ Orphaned' = Orphaned /\ Canonical \subseteq Canonical'
         /\ reports \subseteq reports' /\ revoked' = revoked
         /\ auditRows' = auditRows /\ auditReports' = auditReports
<1>1. CASE PromoteCommit
  <2>1. /\ \A x \in Hashes : rows'[x] = IF x \in RawRows(from, to) /\ rows[x] = "absent"
                                          THEN "canonical" ELSE rows[x]
        /\ UNCHANGED <<auditRows, auditReports, reports, revoked>>
    BY <1>1 DEF PromoteCommit, Upsert, auditVars, reportVars
  <2>. QED
    BY <2>1 DEF Orphaned, Canonical
<1>2. CASE UNCHANGED rows /\ UNCHANGED auditVars /\ UNCHANGED revoked /\ reports \subseteq reports'
  BY <1>2 DEF Orphaned, Canonical, auditVars
<1>3. CASE UNCHANGED vars
  BY <1>2, <1>3 DEF vars, storedVars, historyVars, reportVars
<1>4. CASE Environment
  BY <1>2, <1>4 DEF Environment, ExtendChain, Reorg, SinkWrite, SinkUndo, Deploy, storedVars,
                    historyVars, reportVars
<1>5. CASE PromoteStart \/ PromoteCeiling \/ PromoteNoCeiling \/ PromoteCursor \/ PromoteDone
           \/ PromoteHash \/ PromoteReject \/ ReconcileList \/ ReconcileCheck \/ ReconcileClean
           \/ WorkerFault
  BY <1>2, <1>5 DEF PromoteStart, PromoteCeiling, PromoteNoCeiling, PromoteCursor, PromoteDone,
                    PromoteHash, PromoteReject, ReconcileList, ReconcileCheck, ReconcileClean,
                    WorkerFault, storedVars, historyVars, reportVars
<1>6. CASE Api
  BY <1>2, <1>6 DEF Api, ReadWindow, InsertReport, ServeStored, RefuseReport, CommitReport,
                    RequestFault, storedVars, historyVars, reportVars
<1>. QED
  BY <1>1, <1>3, <1>4, <1>5, <1>6 DEF Next, Worker, PromoteStep, ReconcileStep

\* What a repair does to the rows and the reports.
LEMMA RepairRevises ==
  ASSUME TypeOK, ReconcileRepair
  PROVE  /\ Orphaned' = Orphaned \cup Flipped /\ Flipped \cap Orphaned = {}
         /\ Canonical' = Canonical \ Flipped
         /\ reports' = reports /\ revoked' = revoked \cup Dependents
         /\ auditRows' = auditRows \cup {o \in orphans : o.hash \in Flipped}
         /\ auditReports \subseteq auditReports'
<1>1. \A x \in Hashes : rows'[x] = IF x \in Flipped THEN "orphaned" ELSE rows[x]
  BY DEF ReconcileRepair, Invalidate
<1>2. Flipped \subseteq Canonical
  BY DEF Flipped
<1>3. Orphaned' = Orphaned \cup Flipped /\ Canonical' = Canonical \ Flipped
      /\ Flipped \cap Orphaned = {}
  BY <1>1, <1>2 DEF Orphaned, Canonical
<1>. QED
  BY <1>3 DEF ReconcileRepair, Invalidate

\* The record of a withdrawn answer is never lost: observations.ts:252-255, 402-411.
THEOREM HistoryOnlyAppends == Spec => HistoryIsAppendOnly
<1>1. TypeOK /\ [Next]_vars =>
        /\ Orphaned \subseteq Orphaned'
        /\ Canonical \subseteq Canonical' \cup Orphaned'
        /\ reports \subseteq reports' /\ revoked \subseteq revoked'
        /\ auditRows \subseteq auditRows' /\ auditReports \subseteq auditReports'
  BY OnlyRepairRevises, RepairRevises
<1>. QED
  BY <1>1, TypeCorrect, PTL DEF Spec, HistoryIsAppendOnly

\* The rows that fall and the reports that cite them fall in one step:
\* observations.ts:458-489.
THEOREM DependentsFall == Spec => DependentsFallTogether
<1>1. TypeOK /\ [Next]_vars =>
        \A c \in reports \ revoked :
          (c \cap (Orphaned' \ Orphaned) # {}) <=> c \in revoked'
  <2>. SUFFICES ASSUME TypeOK, [Next]_vars, NEW c \in reports \ revoked
                PROVE  (c \cap (Orphaned' \ Orphaned) # {}) <=> c \in revoked'
    OBVIOUS
  <2>1. CASE ReconcileRepair
    <3>1. Orphaned' \ Orphaned = Flipped /\ revoked' = revoked \cup Dependents
      BY <2>1, RepairRevises
    <3>. QED
      BY <3>1 DEF Dependents
  <2>2. CASE ~ReconcileRepair
    BY <2>2, OnlyRepairRevises
  <2>. QED
    BY <2>1, <2>2
<1>. QED
  BY <1>1, TypeCorrect, PTL DEF Spec, DependentsFallTogether

\* A repair leaves the cursor below every row it orphaned, so that promotion
\* reads their blocks again: reconcile-deep-reorg.ts:104-107.
THEOREM RepairRewinds == Spec => RepairRewindsBelowOrphans
<1>1. TypeOK /\ [Next]_vars =>
        \A x \in Orphaned' \ Orphaned : cursor' < Height[x] \/ cursor' = 0
  <2>. SUFFICES ASSUME TypeOK, [Next]_vars, NEW x \in Orphaned' \ Orphaned
                PROVE  cursor' < Height[x] \/ cursor' = 0
    OBVIOUS
  <2>1. ReconcileRepair
    BY OnlyRepairRevises
  <2>2. PICK p \in orphans : p.hash = x
    BY <2>1, RepairRevises DEF Flipped
  <2>3. PICK o \in orphans : Rewind!(o)
    BY <2>1 DEF ReconcileRepair, Rewind
  <2>4. Height[o.hash] <= Height[x] /\ Height[o.hash] \in Heights /\ Height[x] \in Heights
    BY <2>2, <2>3, Numbers DEF TypeOK, AuditRow
  <2>5. Height[o.hash] \in Int /\ Height[o.hash] >= 0 /\ Height[x] \in Int /\ cursor \in Int
    BY <2>4, Numbers
  <2>. QED
    BY <2>3, <2>4, <2>5 DEF Higher, None
<1>. QED
  BY <1>1, TypeCorrect, PTL DEF Spec, RepairRewindsBelowOrphans

\* What a reconciliation has found so far: blocks and the blocks that replaced them.
OrphansAreReplaced == \A o \in orphans : o.by # o.hash /\ Height[o.by] = Height[o.hash]

\* InvalidationsAreExplained, strengthened to be inductive.
ExplainedInv == InvalidationsAreExplained /\ OrphansAreReplaced

\* A repair audits every row it flips and every report it withdraws.
LEMMA RepairExplains ==
  ASSUME TypeOK, ExplainedInv, ReconcileRepair
  PROVE  InvalidationsAreExplained'
<1>1. /\ Orphaned' = Orphaned \cup Flipped /\ revoked' = revoked \cup Dependents
      /\ auditRows' = auditRows \cup {o \in orphans : o.hash \in Flipped}
      /\ auditReports \subseteq auditReports'
  BY RepairRevises
<1>2. ASSUME NEW x \in Orphaned'
      PROVE  \E a \in auditRows' : a.hash = x /\ a.by # x /\ Height[a.by] = Height[x]
  <2>1. CASE x \in Orphaned
    BY <1>1, <2>1 DEF ExplainedInv, InvalidationsAreExplained
  <2>2. CASE x \in Flipped
    <3>1. PICK o \in orphans : o.hash = x
      BY <2>2 DEF Flipped
    <3>2. o \in auditRows'
      BY <1>1, <2>2, <3>1
    <3>. QED
      BY <3>1, <3>2 DEF ExplainedInv, OrphansAreReplaced
  <2>. QED
    BY <1>1, <1>2, <2>1, <2>2
<1>3. ASSUME NEW c \in revoked'
      PROVE  \E a \in auditReports', o \in auditRows' :
               a.report = c /\ o.hash \in c /\ o.hash \in Orphaned' /\ a.by = o.by
  <2>1. CASE c \in revoked
    BY <1>1, <2>1 DEF ExplainedInv, InvalidationsAreExplained
  <2>2. CASE c \in Dependents
    <3>1. c \cap Flipped \in SUBSET Hashes /\ c \cap Flipped # {}
      BY <2>2 DEF Dependents, Flipped, Canonical
    <3>2. PICK x \in c \cap Flipped : \A y \in c \cap Flipped : Height[x] <= Height[y]
      BY <3>1, LowestOf
    <3>3. PICK o \in orphans : o.hash = x
      BY <3>2 DEF Flipped
    <3>4. FirstCited(c, o)
      BY <3>2, <3>3 DEF FirstCited
    <3>5. [report |-> c, by |-> o.by] \in auditReports'
      BY <2>2, <3>4 DEF ReconcileRepair, Invalidate
    <3>6. o \in auditRows' /\ o.hash \in Orphaned'
      BY <1>1, <3>2, <3>3
    <3>. QED
      BY <3>2, <3>3, <3>5, <3>6
  <2>. QED
    BY <1>1, <1>3, <2>1, <2>2
<1>. QED
  BY <1>2, <1>3 DEF InvalidationsAreExplained

\* A reconciliation holds an orphan only with the other block of its height.
LEMMA OrphansStayReplaced ==
  ASSUME TypeOK, OrphansAreReplaced, [Next]_vars
  PROVE  OrphansAreReplaced'
<1>1. CASE orphans' = orphans
  BY <1>1 DEF OrphansAreReplaced
<1>2. CASE orphans' = {}
  BY <1>2 DEF OrphansAreReplaced
<1>3. CASE ReconcileCheck
  <2>1. PICK x \in todo :
          orphans' = orphans \cup (IF BlockHash[branch][Height[x]] = x THEN {}
                                   ELSE {[hash |-> x, by |-> BlockHash[branch][Height[x]]]})
    BY <1>3 DEF ReconcileCheck
  <2>2. Height[BlockHash[branch][Height[x]]] = Height[x]
    BY Numbers DEF TypeOK
  <2>. QED
    BY <2>1, <2>2 DEF OrphansAreReplaced
<1>4. CASE PromoteNoCeiling \/ PromoteDone \/ PromoteReject \/ ReconcileClean \/ ReconcileRepair
           \/ WorkerFault
  BY <1>2, <1>4 DEF PromoteNoCeiling, PromoteDone, PromoteReject, ReconcileClean,
                    ReconcileRepair, WorkerFault, EndJob
<1>5. CASE PromoteStart \/ PromoteCeiling \/ PromoteCursor \/ PromoteHash \/ PromoteCommit
           \/ ReconcileList
  BY <1>1, <1>5 DEF PromoteStart, PromoteCeiling, PromoteCursor, PromoteHash, PromoteCommit,
                    ReconcileList, reconcileVars
<1>6. CASE Environment \/ Api \/ UNCHANGED vars
  BY <1>1, <1>6, ApiKeepsHistory
  DEF Environment, ExtendChain, Reorg, SinkWrite, SinkUndo, Deploy, vars, jobVars, reconcileVars
<1>. QED
  BY <1>3, <1>4, <1>5, <1>6 DEF Next, Worker, PromoteStep, ReconcileStep

\* Every orphaned row and every withdrawn report has the audit row that explains
\* it, through any number of reorgs: observations.ts:402-411.
THEOREM InvalidationsExplained == Spec => []InvalidationsAreExplained
<1>1. Init => ExplainedInv
  BY DEF Init, ExplainedInv, InvalidationsAreExplained, OrphansAreReplaced, Orphaned
<1>2. TypeOK /\ ExplainedInv /\ [Next]_vars => ExplainedInv'
  <2>. SUFFICES ASSUME TypeOK, ExplainedInv, [Next]_vars PROVE ExplainedInv'
    OBVIOUS
  <2>1. OrphansAreReplaced'
    BY OrphansStayReplaced DEF ExplainedInv
  <2>2. CASE ReconcileRepair
    BY <2>1, <2>2, RepairExplains DEF ExplainedInv
  <2>3. CASE ~ReconcileRepair
    <3>1. /\ Orphaned' = Orphaned /\ revoked' = revoked
          /\ auditRows' = auditRows /\ auditReports' = auditReports
      BY <2>3, OnlyRepairRevises
    <3>2. InvalidationsAreExplained'
      BY <3>1 DEF InvalidationsAreExplained, ExplainedInv
    <3>. QED
      BY <2>1, <3>2 DEF ExplainedInv
  <2>. QED
    BY <2>2, <2>3
<1>3. ExplainedInv => InvalidationsAreExplained
  BY DEF ExplainedInv
<1>. QED
  BY <1>1, <1>2, <1>3, TypeCorrect, PTL DEF Spec

=============================================================================
