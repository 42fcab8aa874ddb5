-------------------------- MODULE SearchPage_proofs --------------------------
(****************************************************************************)
(* Theorems of SearchPage and of the registry under it, for any releases,   *)
(* vaults, drafts, worlds, migrations and runs of the migration runner.     *)
(*                                                                          *)
(* The registry comes first: it knows nothing of the page.  Of the engines  *)
(* one thing is needed, that the identity of evidence decides its verdict.  *)
(****************************************************************************)
EXTENDS SearchPage, EvidenceEngine_proofs, SequenceTheorems

-----------------------------------------------------------------------------
(* Probes                                                                   *)

\* The balance comes with the capacities, or none of them does.
LEMMA AccountAnswers ==
  ASSUME NEW reached, NEW m \in CapacityMethods, m \in AnsweredBy(reached)
  PROVE  "balanceOf" \in AnsweredBy(reached)
<1>1. PICK batch \in reached : m \in CallsOf(batch)
  BY DEF AnsweredBy
<1>2. "balanceOf" \in CallsOf(batch)
  BY <1>1, RegistryAssumption DEF CallsOf
<1>. QED
  BY <1>1, <1>2 DEF AnsweredBy

\* Whatever batches reached the vault, its zeros are explained.
LEMMA ProbesExplain ==
  ASSUME NEW v \in DOMAIN Chain, NEW reached
  PROVE  ZeroIsExplained(v, ProbeVault(Chain[v], [b \in ProbeBlocks |-> AnsweredBy(reached[b])]))
<1>. DEFINE answered == [b \in ProbeBlocks |-> AnsweredBy(reached[b])]
            probes == ProbeVault(Chain[v], answered)
<1>1. ASSUME NEW b \in ProbeBlocks, NEW m \in CapacityMethods, probes[b][m].raw = 0
      PROVE  LET held == Chain[v][b].shares > 0
             IN  /\ IsUsable(probes[b], m) = ~held
                 /\ (probes[b][m].status = "nonstandard_zero") = held
  <2>. DEFINE results == ReadCalls(Chain[v][b], answered[b])
              held == Chain[v][b].shares > 0
  <2>1. probes[b] = ClassifyCapabilities(results, OwnerHoldsShares(results))
    BY DEF ProbeVault
  <2>2. /\ m \in DOMAIN probes[b]
        /\ probes[b][m] = ProbeCapacity(results.capacity[m], OwnerHoldsShares(results))
    BY <2>1 DEF ClassifyCapabilities
  <2>3. /\ results.capacity[m] = Read(Chain[v][b].capacity[m], m \in answered[b])
        /\ results.ownerShares = Read(Chain[v][b].shares, "balanceOf" \in answered[b])
    BY DEF ReadCalls
  <2>4. Chain[v][b].shares \in Nat /\ Reverts \notin Int
    BY RegistryAssumption
  <2>. HIDE DEF results, probes
  <2>5. results.capacity[m].ok /\ results.capacity[m].value = 0 /\ m \in answered[b]
    BY <1>1, <2>2, <2>3, <2>4 DEF ProbeCapacity, ProbeNumeric, Probe, Read
  <2>6. "balanceOf" \in answered[b]
    BY <2>5, AccountAnswers
  <2>7. OwnerHoldsShares(results) <=> held
    BY <2>3, <2>4, <2>6 DEF OwnerHoldsShares, Read
  <2>8. CASE held
    <3>1. probes[b][m].status = "nonstandard_zero"
      BY <2>2, <2>5, <2>7, <2>8 DEF ProbeCapacity, Probe
    <3>. QED
      BY <2>2, <2>8, <3>1 DEF IsUsable, StatusOf, Usability
  <2>9. CASE ~held
    <3>1. probes[b][m].status = "supported"
      BY <2>2, <2>5, <2>7, <2>9 DEF ProbeCapacity, ProbeNumeric, Probe
    <3>. QED
      BY <2>2, <2>9, <3>1 DEF IsUsable, StatusOf, Usability
  <2>. QED
    BY <2>8, <2>9
<1>. QED
  BY <1>1 DEF ZeroIsExplained

-----------------------------------------------------------------------------
(* The registry                                                             *)

\* Every vault was refreshed of a release that was deployed, after which no other was that
\* lists it; it has one profile, of that release's identity, which stays open.
SeededInv ==
  /\ \A p \in profiles : p.to = "open" /\ p.vault \in DOMAIN vaultRows
  /\ \A p, q \in profiles : p.vault = q.vault => p = q
  /\ \A v \in DOMAIN vaultRows :
       LET row == vaultRows[v]
           entry == Releases[row.release].vaults[v]
       IN  /\ row.release \in 1..release
           /\ row.status = entry.status
           /\ \E p \in profiles : ProfileId(p) = <<v, entry.adapter, entry.from>>
           /\ \A u \in DOMAIN vaultRows :
                row.release < vaultRows[u].release
                  => v \notin DOMAIN Releases[vaultRows[u].release].vaults

\* The zeros of evidence that was probed again.
Reprobed(v, record) == record.provider = "keyed" => ZeroIsExplained(v, record.probes)

\* The manifest has evidence of every vault it lists, and profiles have what a manifest had.
ProbedInv ==
  /\ release \in 0..Len(Releases)
  /\ DOMAIN evidence \subseteq DOMAIN Chain
  /\ release > 0 => DOMAIN evidence = Curated
  /\ \A v \in DOMAIN evidence : Reprobed(v, evidence[v])
  /\ \A p \in profiles : Reprobed(p.vault, p.evidence)

CuratedInv == SeededInv /\ ProbedInv

\* What the statements of the registry leave alone.
LEMMA RegistryStays == CuratedInv /\ UNCHANGED curatedVars => CuratedInv'
BY DEF CuratedInv, SeededInv, ProbedInv, curatedVars, Curated, Manifest, ProfileId, Reprobed

\* The gate's evidence is not of the tool.
LEMMA GateIsPublic ==
  ASSUME NEW i, NEW v, NEW answered
  PROVE  Reprobed(v, GateEvidence(i, v, answered))
BY DEF Reprobed, GateEvidence

\* What a manifest's entry becomes.
LEMMA EntriesBecome ==
  ASSUME NEW v
  PROVE  /\ ProfileOf(v).vault = v /\ ProfileOf(v).to = "open"
         /\ ProfileOf(v).evidence = evidence[v]
         /\ ProfileId(ProfileOf(v)) = <<v, Manifest.vaults[v].adapter, Manifest.vaults[v].from>>
         /\ VaultRow(v).release = release
         /\ VaultRow(v).status = Manifest.vaults[v].status
BY DEF ProfileOf, ProfileId, VaultRow

\* A database that was seeded before, or none.
LEMMA RegistryStarts == Init => CuratedInv
<1>. SUFFICES ASSUME Init PROVE CuratedInv
  OBVIOUS
<1>1. CASE RegistryInit
  <2>1. DOMAIN evidence = {} /\ DOMAIN vaultRows = {} /\ profiles = {} /\ release = 0
    BY <1>1 DEF RegistryInit
  <2>2. SeededInv
    BY <2>1 DEF SeededInv
  <2>3. release \in 0..Len(Releases)
    BY <2>1, RegistryAssumption
  <2>4. ProbedInv
    BY <2>1, <2>3 DEF ProbedInv
  <2>. QED
    BY <2>2, <2>4 DEF CuratedInv
<1>2. CASE Installed
  <2>1. /\ release = 1 /\ Curated \subseteq DOMAIN Chain
        /\ vaultRows = [v \in Curated |-> VaultRow(v)]
        /\ profiles = {ProfileOf(v) : v \in Curated}
    BY <1>2, RegistryAssumption DEF Installed, Curated, Manifest
  <2>2. DOMAIN evidence = Curated /\ \A v \in Curated : Reprobed(v, evidence[v])
    BY <1>2, GateIsPublic DEF Installed
  <2>3. \A p \in profiles : /\ p.vault \in Curated /\ p = ProfileOf(p.vault) /\ p.to = "open"
                            /\ p.evidence = evidence[p.vault]
    BY <2>1, EntriesBecome
  <2>4. ProbedInv
    BY <2>1, <2>2, <2>3, RegistryAssumption DEF ProbedInv
  <2>5. DOMAIN vaultRows = Curated
    BY <2>1
  <2>6. ASSUME NEW v \in DOMAIN vaultRows
        PROVE  LET entry == Releases[1].vaults[v]
               IN  /\ vaultRows[v].release = 1 /\ vaultRows[v].status = entry.status
                   /\ \E p \in profiles : ProfileId(p) = <<v, entry.adapter, entry.from>>
    BY <2>1, <2>5, EntriesBecome DEF Manifest
  <2>7. SeededInv
    BY <2>1, <2>3, <2>5, <2>6 DEF SeededInv
  <2>. QED
    BY <2>4, <2>7 DEF CuratedInv
<1>. QED
  BY <1>1, <1>2 DEF Init

\* A release brings the gate's evidence, and what the manifest had.
LEMMA DeployKeeps == CuratedInv /\ Deploy => CuratedInv'
<1>. SUFFICES ASSUME CuratedInv, Deploy PROVE CuratedInv'
  OBVIOUS
<1>1. /\ release \in Nat /\ release + 1 \in 1..Len(Releases) /\ release' = release + 1
      /\ Curated' = DOMAIN Releases[release + 1].vaults
      /\ UNCHANGED <<vaultRows, profiles>>
  BY RegistryAssumption DEF CuratedInv, ProbedInv, Deploy, Curated, Manifest
<1>2. Curated' \subseteq DOMAIN Chain
  BY <1>1, RegistryAssumption
<1>3. PICK answered :
        evidence' = [v \in Curated' |->
                      IF v \in Gated(release + 1) THEN GateEvidence(release + 1, v, answered[v])
                      ELSE evidence[v]]
  BY <1>1 DEF Deploy
<1>4. DOMAIN evidence' = Curated' /\ \A v \in Curated' : Reprobed(v, evidence'[v])
  <2>1. \A v \in Curated' \ Gated(release + 1) : v \in DOMAIN evidence
    BY <1>1 DEF Gated
  <2>. QED
    BY <1>3, <2>1, GateIsPublic DEF CuratedInv, ProbedInv
<1>5. ProbedInv'
  <2>1. \A p \in profiles' : Reprobed(p.vault, p.evidence)
    BY <1>1 DEF CuratedInv, ProbedInv
  <2>2. \A v \in DOMAIN evidence' : Reprobed(v, evidence[v])'
    BY <1>4 DEF Reprobed
  <2>3. release' \in 0..Len(Releases)
    BY <1>1, RegistryAssumption
  <2>. QED
    BY <1>2, <1>4, <2>1, <2>2, <2>3 DEF ProbedInv, Reprobed
<1>6. SeededInv'
  BY <1>1 DEF CuratedInv, SeededInv, ProfileId
<1>. QED
  BY <1>5, <1>6 DEF CuratedInv

\* Probing again replaces evidence by evidence.
LEMMA ReprobeKeeps == CuratedInv /\ Reprobe => CuratedInv'
<1>. SUFFICES ASSUME CuratedInv, Reprobe PROVE CuratedInv'
  OBVIOUS
<1>1. PICK found, reached :
        evidence' = [v \in Curated |-> IF v \in found THEN ReprobedEvidence(v, reached[v])
                                       ELSE evidence[v]]
  BY DEF Reprobe
<1>2. /\ release' = release /\ Curated' = Curated /\ DOMAIN evidence = Curated
      /\ Curated \subseteq DOMAIN Chain /\ UNCHANGED <<vaultRows, profiles>>
  BY DEF Reprobe, CuratedInv, ProbedInv, Curated, Manifest
<1>3. ASSUME NEW v \in Curated PROVE Reprobed(v, ReprobedEvidence(v, reached[v]))
  <2>1. ReprobedEvidence(v, reached[v]).probes
          = ProbeVault(Chain[v], [b \in ProbeBlocks |-> AnsweredBy(reached[v][b])])
    BY DEF ReprobedEvidence
  <2>2. ZeroIsExplained(v, ReprobedEvidence(v, reached[v]).probes)
    BY <1>2, <2>1, ProbesExplain
  <2>. QED
    BY <2>2 DEF Reprobed
<1>4. DOMAIN evidence' = Curated /\ \A v \in Curated : Reprobed(v, evidence'[v])
  BY <1>1, <1>2, <1>3 DEF CuratedInv, ProbedInv
<1>5. ProbedInv'
  <2>1. \A v \in DOMAIN evidence' : Reprobed(v, evidence[v])'
    BY <1>4 DEF Reprobed
  <2>2. \A p \in profiles' : Reprobed(p.vault, p.evidence)
    BY <1>2 DEF CuratedInv, ProbedInv
  <2>. QED
    BY <1>2, <1>4, <2>1, <2>2 DEF CuratedInv, ProbedInv, Reprobed
<1>6. SeededInv'
  BY <1>2 DEF CuratedInv, SeededInv, ProfileId
<1>. QED
  BY <1>5, <1>6 DEF CuratedInv

\* A seeding opens a profile only of a vault that has none, and only if the profile of every
\* other vault of the release is the one the release describes; and it refreshes them all.
LEMMA SeedKeeps == CuratedInv /\ Seed => CuratedInv'
<1>. SUFFICES ASSUME CuratedInv, Seed PROVE CuratedInv'
  OBVIOUS
<1>1. /\ release' = release /\ evidence' = evidence /\ release \in Nat /\ release > 0
      /\ profiles' = profiles \cup Opened
      /\ DOMAIN vaultRows' = Curated \cup DOMAIN vaultRows
  <2>1. release \in Nat
    BY RegistryAssumption DEF CuratedInv, ProbedInv
  <2>2. DOMAIN vaultRows' = Curated \cup DOMAIN vaultRows
    BY DEF Seed, UpsertVaults
  <2>. QED
    BY <2>1, <2>2 DEF Seed
<1>2. ASSUME NEW v \in Curated
      PROVE  vaultRows'[v].release = release /\ vaultRows'[v].status = Manifest.vaults[v].status
  <2>. DEFINE kept == [VaultRow(v) EXCEPT !.protocol = vaultRows[v].protocol,
                                          !.asset = vaultRows[v].asset]
  <2>1. vaultRows'[v] = kept \/ vaultRows'[v] = VaultRow(v)
    BY DEF Seed, UpsertVaults
  <2>2. kept.release = VaultRow(v).release /\ kept.status = VaultRow(v).status
    BY DEF VaultRow
  <2>. HIDE DEF kept
  <2>. QED
    BY <2>1, <2>2, EntriesBecome
<1>3. \A v \in DOMAIN vaultRows' \ Curated : v \in DOMAIN vaultRows /\ vaultRows'[v] = vaultRows[v]
  BY <1>1 DEF Seed, UpsertVaults
<1>4. /\ \A p \in profiles : p.to = "open" /\ p.vault \in DOMAIN vaultRows
      /\ \A p, q \in profiles : p.vault = q.vault => p = q
  BY DEF CuratedInv, SeededInv
<1>5. \A p \in Opened : /\ p.vault \in Curated /\ p = ProfileOf(p.vault) /\ p.to = "open"
                        /\ p.evidence = evidence[p.vault]
                        /\ \A q \in profiles : q.vault # p.vault
  BY <1>4, EntriesBecome DEF Opened, Seed, OpensTwo
<1>6. ProbedInv'
  <2>1. DOMAIN evidence = Curated /\ Curated' = Curated
    BY <1>1 DEF CuratedInv, ProbedInv, Curated, Manifest
  <2>2. \A p \in profiles' : Reprobed(p.vault, p.evidence)
    BY <1>1, <1>5, <2>1 DEF CuratedInv, ProbedInv
  <2>. QED
    BY <1>1, <2>1, <2>2 DEF CuratedInv, ProbedInv, Reprobed
<1>7. \A p \in profiles' : p.to = "open" /\ p.vault \in DOMAIN vaultRows'
  BY <1>1, <1>4, <1>5
<1>8. \A p, q \in profiles' : p.vault = q.vault => p = q
  BY <1>1, <1>4, <1>5
<1>9. ASSUME NEW v \in DOMAIN vaultRows'
      PROVE  LET entry == Releases[vaultRows'[v].release].vaults[v]
             IN  /\ vaultRows'[v].release \in 1..release
                 /\ vaultRows'[v].status = entry.status
                 /\ \E p \in profiles' : ProfileId(p) = <<v, entry.adapter, entry.from>>
  <2>1. CASE v \in Curated
    <3>1. \E p \in profiles' : ProfileId(p) = ProfileId(ProfileOf(v))
      BY <1>1, <2>1 DEF Opened, Seeded
    <3>. QED
      BY <1>1, <1>2, <2>1, <3>1, EntriesBecome DEF Manifest
  <2>2. CASE v \notin Curated
    BY <1>1, <1>3, <2>2 DEF CuratedInv, SeededInv
  <2>. QED
    BY <2>1, <2>2
<1>10. ASSUME NEW v \in DOMAIN vaultRows', NEW u \in DOMAIN vaultRows',
              vaultRows'[v].release < vaultRows'[u].release
       PROVE  v \notin DOMAIN Releases[vaultRows'[u].release].vaults
  <2>1. CASE v \in Curated
    <3>1. vaultRows'[u].release \in 1..release /\ vaultRows'[v].release = release
      BY <1>2, <1>9, <2>1
    <3>. QED
      BY <1>1, <1>10, <3>1
  <2>2. CASE v \notin Curated /\ u \in Curated
    BY <1>2, <2>2 DEF Curated, Manifest
  <2>3. CASE v \notin Curated /\ u \notin Curated
    BY <1>3, <1>10, <2>3 DEF CuratedInv, SeededInv
  <2>. QED
    BY <2>1, <2>2, <2>3
<1>11. SeededInv'
  BY <1>1, <1>7, <1>8, <1>9, <1>10 DEF SeededInv, ProfileId
<1>. QED
  BY <1>6, <1>11 DEF CuratedInv

\* No step of the migration runner or of the page touches the curated tables.
LEMMA CurationStep == CuratedInv /\ [Next]_vars => CuratedInv'
<1>. SUFFICES ASSUME CuratedInv, [Next]_vars PROVE CuratedInv'
  OBVIOUS
<1>1. CASE Curate
  BY <1>1, DeployKeeps, ReprobeKeeps, SeedKeeps DEF Curate
<1>2. CASE UNCHANGED curatedVars
  BY <1>2, RegistryStays
<1>3. CASE RunMigration
  BY <1>3, RegistryStays DEF RunMigration, ReadRecorded, SkipFile, GuardFile, ApplyFile, RecordFile,
     EndRun
<1>4. CASE UsePage
  BY <1>4, <1>2 DEF UsePage, Visit, Leave, Edit, Evaluate, EvaluationRefused, EvaluationAnswered,
     EvaluationLost, FileReport, InspectionAnswered, ReportOpened, InspectionFailed, EvaluateVault,
     Inspect, registryVars
<1>5. CASE Promote
  BY <1>5, <1>2 DEF Promote, registryVars
<1>6. CASE UNCHANGED vars
  BY <1>6, <1>2 DEF vars, registryVars
<1>. QED
  BY <1>1, <1>3, <1>4, <1>5, <1>6 DEF Next

LEMMA RegistryIsCurated == Spec => []CuratedInv
<1>1. Init => CuratedInv
  BY RegistryStarts
<1>. QED
  BY <1>1, CurationStep, PTL DEF Spec

LEMMA OneRelease == CuratedInv => RegistryIsSeededWhole
<1>. SUFFICES ASSUME CuratedInv, NEW v \in DOMAIN vaultRows
              PROVE  LET row == vaultRows[v]
                         entry == Releases[row.release].vaults[v]
                     IN  /\ \A u \in DOMAIN vaultRows :
                              row.release < vaultRows[u].release
                                => v \notin DOMAIN Releases[vaultRows[u].release].vaults
                         /\ row.status = entry.status
                         /\ {ProfileId(p) : p \in OpenProfiles(v)} = {<<v, entry.adapter, entry.from>>}
                         /\ \A p \in profiles : Cardinality(ResolveCapabilityAt(v, p.from)) <= 1
                         /\ Cardinality(FindVaultDetail(v)) = 1
  BY DEF RegistryIsSeededWhole
<1>. DEFINE entry == Releases[vaultRows[v].release].vaults[v]
<1>1. PICK p \in profiles : ProfileId(p) = <<v, entry.adapter, entry.from>>
  BY DEF CuratedInv, SeededInv
<1>2. p.vault = v /\ p.to = "open"
  BY <1>1 DEF ProfileId, CuratedInv, SeededInv
<1>3. \A q \in profiles : q.vault = v => q = p
  BY <1>2 DEF CuratedInv, SeededInv
<1>4. OpenProfiles(v) = {p}
  BY <1>2, <1>3 DEF OpenProfiles
<1>5. {ProfileId(q) : q \in OpenProfiles(v)} = {<<v, entry.adapter, entry.from>>}
  BY <1>1, <1>4
<1>6. ASSUME NEW q \in profiles
      PROVE  Cardinality(ResolveCapabilityAt(v, q.from)) <= 1
  <2>1. ResolveCapabilityAt(v, q.from) = {} \/ ResolveCapabilityAt(v, q.from) = {p}
    BY <1>3 DEF ResolveCapabilityAt
  <2>2. Cardinality(ResolveCapabilityAt(v, q.from)) \in {0, 1}
    BY <2>1, FS_EmptySet, FS_Singleton
  <2>. QED
    BY <2>2
<1>7. FindVaultDetail(v) = {[vault |-> v, status |-> vaultRows[v].status, adapter |-> p.adapter]}
  <2>. DEFINE Adapters(w) == IF OpenProfiles(w) = {} THEN {"unresolved"}
                             ELSE {q.adapter : q \in OpenProfiles(w)}
              Row(w, adapter) == [vault |-> w, status |-> vaultRows[w].status, adapter |-> adapter]
              Rows(w) == {Row(w, adapter) : adapter \in Adapters(w)}
  <2>1. Adapters(v) = {p.adapter}
    BY <1>4
  <2>2. \A row : row \in ListVaultDetails <=>
                 \E w \in DOMAIN vaultRows : \E adapter \in Adapters(w) : row = Row(w, adapter)
    <3>1. ListVaultDetails = UNION {Rows(w) : w \in DOMAIN vaultRows}
      BY DEF ListVaultDetails
    <3>2. \A w, row : row \in Rows(w) <=> \E adapter \in Adapters(w) : row = Row(w, adapter)
      OBVIOUS
    <3>. HIDE DEF Rows, Row, Adapters
    <3>. QED
      BY <3>1, <3>2
  <2>3. \A row : row \in FindVaultDetail(v) <=> row = Row(v, p.adapter)
    BY <2>1, <2>2 DEF FindVaultDetail
  <2>. QED
    BY <2>3
<1>8. Cardinality(FindVaultDetail(v)) = 1
  BY <1>7, FS_Singleton
<1>. QED
  BY <1>5, <1>6, <1>8 DEF CuratedInv, SeededInv

\* Whatever releases are deployed and seeded in whatever order, whatever seedings fail, and
\* wherever the runs of the migration runner stand: no vault is left behind by a release
\* that lists it, and its status and the identity of its one open profile are of the
\* release that refreshed it.
THEOREM RegistrySeededWhole == Spec => []RegistryIsSeededWhole
BY RegistryIsCurated, OneRelease, PTL

\* However the chain answers and whatever batches failed when a vault was probed again: no
\* zero capacity found then is taken for what it is not, in the manifest or in a profile.
THEOREM ReprobedZerosExplained == Spec => []ReprobedZerosAreExplained
<1>1. CuratedInv => ReprobedZerosAreExplained
  BY DEF CuratedInv, ProbedInv, Reprobed, ReprobedZerosAreExplained
<1>. QED
  BY <1>1, RegistryIsCurated, PTL

-----------------------------------------------------------------------------
(* Migrations                                                               *)

Placing(pc, at, known) == [pc |-> pc, at |-> at, known |-> known]

\* Where a run may stand: what it knows was recorded, as is every file it went past; and a
\* file it is about to record has its tables.
Placed(place) ==
  /\ place = Placing(place.pc, place.at, place.known)
  /\ place.at \in Nat \ {0}
  /\ place.known \subseteq recorded
  /\ place.pc # "idle" => \A i \in DOMAIN Migrations : i < place.at => Migrations[i] \in recorded
  /\ place.pc \in {"apply", "record"} => place.at \in DOMAIN Migrations
  /\ place.pc = "record" => Migrations[place.at] \in tables

MigratingInv ==
  /\ run = [m \in Migrators |-> run[m]]
  /\ \A m \in Migrators : Placed(run[m])
  /\ MigrationsInOrder

LEMMA MigrationsStay == MigratingInv /\ UNCHANGED migrationVars => MigratingInv'
BY DEF MigratingInv, Placed, MigrationsInOrder, migrationVars

LEMMA NotRunningIsPlaced == Placed(NotRunning) /\ Placed(NotRunning)'
BY DEF Placed, Placing, NotRunning

LEMMA MigrationsStart == Init => MigratingInv
<1>. SUFFICES ASSUME Init PROVE MigratingInv
  OBVIOUS
<1>1. /\ run = [m \in Migrators |-> NotRunning]
      /\ \/ tables = {} /\ recorded = {}
         \/ tables = ToSet(Migrations) /\ recorded = ToSet(Migrations)
  BY DEF Init, Installed, RegistryInit
<1>2. \A i \in DOMAIN Migrations : Migrations[i] \in ToSet(Migrations)
  BY DEF ToSet
<1>3. MigrationsInOrder
  BY <1>1, <1>2, RegistryAssumption DEF MigrationsInOrder
<1>4. \A m \in Migrators : run[m] = NotRunning
  BY <1>1
<1>. QED
  BY <1>1, <1>3, <1>4, NotRunningIsPlaced DEF MigratingInv

\* The runs beside the one that moves stay where they may stand.
LEMMA OneRunMoves ==
  ASSUME MigratingInv, NEW m \in Migrators, NEW spot, run' = [run EXCEPT ![m] = spot],
         tables \subseteq tables', recorded \subseteq recorded', Placed(spot)', MigrationsInOrder'
  PROVE  MigratingInv'
<1>1. run' = [n \in Migrators |-> IF n = m THEN spot ELSE run[n]]
  BY DEF MigratingInv
<1>2. ASSUME NEW n \in Migrators PROVE Placed(run[n])'
  <2>1. CASE n = m
    BY <1>1, <2>1 DEF Placed
  <2>2. CASE n # m
    <3>1. run'[n] = run[n] /\ Placed(run[n])
      BY <1>1, <2>2 DEF MigratingInv
    <3>. QED
      BY <3>1 DEF Placed
  <2>. QED
    BY <2>1, <2>2
<1>. QED
  BY <1>1, <1>2 DEF MigratingInv

\* Where a run goes.
LEMMA MigrationKeeps ==
  ASSUME MigratingInv, NEW m \in Migrators,
         ReadRecorded(m) \/ SkipFile(m) \/ GuardFile(m) \/ ApplyFile(m) \/ RecordFile(m) \/ EndRun(m)
  PROVE  MigratingInv'
<1>0. PICK at, known, names : at = run[m].at /\ known = run[m].known /\ names = recorded
  OBVIOUS
<1>1. /\ m \in DOMAIN run /\ run[m] = Placing(run[m].pc, at, known)
      /\ at \in Nat \ {0} /\ known \subseteq recorded
      /\ run[m].pc # "idle" => \A i \in DOMAIN Migrations : i < at => Migrations[i] \in recorded
      /\ run[m].pc \in {"apply", "record"} => at \in DOMAIN Migrations
      /\ run[m].pc = "record" => Migrations[at] \in tables
      /\ Len(Migrations) \in Nat /\ DOMAIN Migrations = 1..Len(Migrations)
  BY <1>0, RegistryAssumption DEF MigratingInv, Placed
<1>2. \A pc, i, files : /\ Placing(pc, i, files).pc = pc /\ Placing(pc, i, files).at = i
                        /\ Placing(pc, i, files).known = files
  BY DEF Placing
<1>3. /\ \A pc : [run EXCEPT ![m].pc = pc] = [run EXCEPT ![m] = Placing(pc, at, known)]
      /\ \A i : [run EXCEPT ![m].at = i] = [run EXCEPT ![m] = Placing(run[m].pc, i, known)]
  BY <1>1 DEF Placing
<1>4. ASSUME UNCHANGED <<tables, recorded>> PROVE MigrationsInOrder'
  BY <1>4 DEF MigratingInv, MigrationsInOrder
<1>5. MigrationsInOrder
  BY DEF MigratingInv
<1>6. CASE ReadRecorded(m)
  <2>1. /\ run' = [run EXCEPT ![m] = Placing("next", 1, names)]
        /\ UNCHANGED <<tables, recorded>>
    BY <1>0, <1>6 DEF ReadRecorded, Placing
  <2>2. Placed(Placing("next", 1, names))'
    BY <1>0, <1>1, <1>2, <2>1 DEF Placed
  <2>3. MigrationsInOrder'
    BY <1>4, <2>1
  <2>. QED
    BY <2>1, <2>2, <2>3, OneRunMoves
<1>7. CASE SkipFile(m)
  <2>1. UNCHANGED <<tables, recorded>> /\ run[m].pc = "next"
    BY <1>7 DEF SkipFile
  <2>2. CASE at > Len(Migrations)
    BY <1>0, <1>4, <1>7, <2>1, <2>2, NotRunningIsPlaced, OneRunMoves DEF SkipFile
  <2>3. CASE ~(at > Len(Migrations))
    <3>1. /\ run' = [run EXCEPT ![m].at = at + 1] /\ at \in DOMAIN Migrations
          /\ Migrations[at] \in known
      BY <1>0, <1>1, <1>7, <2>3 DEF SkipFile, FileOf
    <3>2. run' = [run EXCEPT ![m] = Placing("next", at + 1, known)]
      BY <1>3, <2>1, <3>1
    <3>3. Placed(Placing("next", at + 1, known))'
      BY <1>1, <1>2, <2>1, <3>1 DEF Placed
    <3>. QED
      BY <1>4, <2>1, <3>2, <3>3, OneRunMoves
  <2>. QED
    BY <2>2, <2>3
<1>8. CASE GuardFile(m)
  <2>1. PICK pc \in {"failed", "apply"} : run' = [run EXCEPT ![m].pc = pc]
    BY <1>8 DEF GuardFile, Step
  <2>2. /\ UNCHANGED <<tables, recorded>> /\ run[m].pc = "next" /\ at \in DOMAIN Migrations
    BY <1>0, <1>1, <1>8 DEF GuardFile
  <2>3. Placed(Placing(pc, at, known))'
    BY <1>1, <1>2, <2>1, <2>2 DEF Placed
  <2>. QED
    BY <1>3, <1>4, <2>1, <2>2, <2>3, OneRunMoves
<1>9. CASE ApplyFile(m)
  <2>1. recorded' = recorded /\ run[m].pc = "apply" /\ at \in DOMAIN Migrations
    BY <1>1, <1>9 DEF ApplyFile
  <2>2. CASE Step(m, "failed") /\ UNCHANGED tables
    <3>1. run' = [run EXCEPT ![m].pc = "failed"]
      BY <2>2 DEF Step
    <3>2. Placed(Placing("failed", at, known))'
      BY <1>1, <1>2, <2>1, <2>2 DEF Placed
    <3>. QED
      BY <1>3, <1>4, <2>1, <2>2, <3>1, <3>2, OneRunMoves
  <2>3. CASE Step(m, "record") /\ tables' = tables \cup {Migrations[at]}
    <3>1. run' = [run EXCEPT ![m].pc = "record"]
      BY <2>3 DEF Step
    <3>2. Placed(Placing("record", at, known))'
      BY <1>1, <1>2, <2>1, <2>3 DEF Placed
    <3>3. \A i \in DOMAIN Migrations : i < at => Migrations[i] \in tables
      BY <1>1, <1>5, <2>1 DEF MigrationsInOrder
    <3>4. \A j \in DOMAIN Migrations : Migrations[j] = Migrations[at] => j = at
      BY <2>1, RegistryAssumption DEF IsInjective
    <3>5. MigrationsInOrder'
      BY <1>1, <1>5, <2>1, <2>3, <3>3, <3>4 DEF MigrationsInOrder
    <3>6. tables \subseteq tables'
      BY <2>3
    <3>. QED
      BY <1>3, <2>1, <3>1, <3>2, <3>5, <3>6, OneRunMoves
  <2>. QED
    BY <1>0, <1>9, <2>2, <2>3 DEF ApplyFile, FileOf
<1>10. CASE RecordFile(m)
  <2>1. tables' = tables /\ run[m].pc = "record" /\ at \in DOMAIN Migrations
    BY <1>1, <1>10 DEF RecordFile
  <2>2. CASE Migrations[at] \in recorded
    <3>1. run' = [run EXCEPT ![m].pc = "failed"] /\ recorded' = recorded
      BY <1>0, <1>10, <2>2 DEF RecordFile, Step, FileOf
    <3>2. Placed(Placing("failed", at, known))'
      BY <1>1, <1>2, <2>1, <3>1 DEF Placed
    <3>. QED
      BY <1>3, <1>4, <2>1, <3>1, <3>2, OneRunMoves
  <2>3. CASE Migrations[at] \notin recorded
    <3>1. /\ recorded' = recorded \cup {Migrations[at]}
          /\ run' = [run EXCEPT ![m].pc = "next", ![m].at = at + 1]
      BY <1>0, <1>10, <2>3 DEF RecordFile, FileOf
    <3>2. Placed(Placing("next", at + 1, known))'
      BY <1>1, <1>2, <2>1, <3>1 DEF Placed
    <3>3. \A j \in DOMAIN Migrations : Migrations[j] = Migrations[at] => j = at
      BY <2>1, RegistryAssumption DEF IsInjective
    <3>4. MigrationsInOrder'
      BY <1>1, <1>5, <2>1, <3>1, <3>3 DEF MigrationsInOrder
    <3>5. run' = [run EXCEPT ![m] = Placing("next", at + 1, known)]
      <4>1. run[m] = [pc |-> "record", at |-> at, known |-> known]
        BY <1>1, <2>1 DEF Placing
      <4>2. DOMAIN run'[m] = {"pc", "at", "known"} /\ run'[m].pc = "next"
        BY <1>1, <3>1, <4>1
      <4>3. run'[m].at = at + 1
        BY <1>1, <3>1, <4>1
      <4>4. run'[m].known = known
        BY <1>1, <3>1, <4>1
      <4>5. run'[m] = [field \in DOMAIN run'[m] |-> run'[m][field]]
        BY <1>1, <3>1, <4>1
      <4>6. run'[m] = Placing("next", at + 1, known)
        BY <4>2, <4>3, <4>4, <4>5 DEF Placing
      <4>7. run' = [run EXCEPT ![m] = run'[m]]
        BY <1>1, <3>1
      <4>. QED
        BY <4>6, <4>7
    <3>6. tables \subseteq tables' /\ recorded \subseteq recorded'
      BY <2>1, <3>1
    <3>. QED
      BY <3>2, <3>4, <3>5, <3>6, OneRunMoves
  <2>. QED
    BY <2>2, <2>3
<1>11. CASE EndRun(m)
  <2>1. run' = [run EXCEPT ![m] = NotRunning] /\ UNCHANGED <<tables, recorded>>
    BY <1>11 DEF EndRun
  <2>2. MigrationsInOrder'
    BY <1>4, <2>1
  <2>. QED
    BY <2>1, <2>2, NotRunningIsPlaced, OneRunMoves
<1>. QED
  BY <1>6, <1>7, <1>8, <1>9, <1>10, <1>11

\* Only the runner moves its runs.
LEMMA MigrationStep == MigratingInv /\ [Next]_vars => MigratingInv'
<1>. SUFFICES ASSUME MigratingInv, [Next]_vars PROVE MigratingInv'
  OBVIOUS
<1>1. CASE RunMigration
  BY <1>1, MigrationKeeps DEF RunMigration
<1>2. CASE Curate
  BY <1>2, MigrationsStay DEF Curate, Deploy, Reprobe, Seed
<1>3. CASE UNCHANGED registryVars
  BY <1>3, MigrationsStay DEF registryVars
<1>4. CASE UsePage
  BY <1>3, <1>4 DEF UsePage, Visit, Leave, Edit, Evaluate, EvaluationRefused, EvaluationAnswered,
     EvaluationLost, FileReport, InspectionAnswered, ReportOpened, InspectionFailed, EvaluateVault,
     Inspect
<1>5. CASE Promote \/ UNCHANGED vars
  BY <1>3, <1>5 DEF Promote, vars
<1>. QED
  BY <1>1, <1>2, <1>4, <1>5 DEF Next

\* For any files, any runs beside each other, and wherever each of them dies: a file is
\* recorded only when its tables are there, and no file gets ahead of the ones before it.
THEOREM MigrationsStayInOrder == Spec => []MigrationsInOrder
<1>1. MigratingInv => MigrationsInOrder
  BY DEF MigratingInv
<1>. QED
  BY <1>1, MigrationsStart, MigrationStep, PTL DEF Spec

-----------------------------------------------------------------------------
(* The page                                                                 *)

\* The value that stands for an absent one is no record.  TLC cannot evaluate that, hence
\* it is a hypothesis and not an assumption.
NullIsApart == Null # [field \in DOMAIN Null |-> Null[field]]

IsRecord(r, fields) == r = [field \in fields |-> r[field]]

LEMMA RecordsAreApart ==
  ASSUME NullIsApart, NEW r, NEW fields, IsRecord(r, fields)
  PROVE  r # Null /\ DOMAIN r = fields
BY DEF NullIsApart, IsRecord

\* An evaluation, under way or shown.
IsEvaluation(e) == IsRecord(e, {"ask", "draft", "answers"})

LEMMA AnswersArrive ==
  ASSUME NullIsApart, NEW e, IsEvaluation(e), NEW answers
  PROVE  /\ IsEvaluation([e EXCEPT !.answers = answers])
         /\ [e EXCEPT !.answers = answers].ask = e.ask
         /\ [e EXCEPT !.answers = answers].draft = e.draft
         /\ [e EXCEPT !.answers = answers].answers = answers
BY RecordsAreApart DEF IsEvaluation, IsRecord

\* An inspection, under way or followed.
IsInspection(i) == IsRecord(i, {"vault", "draft", "answer", "row"})

LEMMA AnswerArrives ==
  ASSUME NullIsApart, NEW i, IsInspection(i), NEW answer
  PROVE  /\ IsInspection([i EXCEPT !.answer = answer])
         /\ [i EXCEPT !.answer = answer].vault = i.vault
         /\ [i EXCEPT !.answer = answer].draft = i.draft
         /\ [i EXCEPT !.answer = answer].row = i.row
         /\ [i EXCEPT !.answer = answer].answer = answer
BY RecordsAreApart DEF IsInspection, IsRecord

\* The evaluation under way is the last one asked for, and its answer is the table's
\* unless something was said.
AskedInv ==
  /\ used \in [visits : Int, edits : Int, asks : Int, moves : Int,
               migrations : Int, releases : Int, probings : Int]
  /\ evaluating # Null => IsEvaluation(evaluating) /\ evaluating.ask = used.asks
  /\ inspecting # Null => IsInspection(inspecting)
  /\ StaleVerdictsAreAnnounced

\* Only asking counts.
LEMMA SpendKeepsAsks ==
  ASSUME AskedInv, NEW what \in {"visits", "edits", "moves", "migrations", "releases", "probings"},
         Spend(what)
  PROVE  /\ used' \in [visits : Int, edits : Int, asks : Int, moves : Int,
                       migrations : Int, releases : Int, probings : Int]
         /\ used'.asks = used.asks
BY DEF AskedInv, Spend

\* Where no request moves.
LEMMA AskedStays ==
  ASSUME AskedInv, used'.asks = used.asks, UNCHANGED tableVars,
         used' \in [visits : Int, edits : Int, asks : Int, moves : Int,
                    migrations : Int, releases : Int, probings : Int]
  PROVE  AskedInv'
BY DEF AskedInv, StaleVerdictsAreAnnounced, tableVars

LEMMA AskedStep == NullIsApart /\ AskedInv /\ [Next]_vars => AskedInv'
<1>. SUFFICES ASSUME NullIsApart, AskedInv, [Next]_vars PROVE AskedInv'
  OBVIOUS
<1>0. /\ used \in [visits : Int, edits : Int, asks : Int, moves : Int,
                   migrations : Int, releases : Int, probings : Int]
      /\ Null \notin {"evaluation", "inspection"}
  BY SearchAssumption DEF AskedInv
<1>1. CASE Evaluate
  <2>. DEFINE e == [ask |-> used.asks + 1, draft |-> draft, answers |-> <<>>]
  <2>1. evaluating' = e /\ used' = [used EXCEPT !.asks = @ + 1]
    BY <1>1 DEF Evaluate, Spend
  <2>2. IsEvaluation(e) /\ e # Null /\ e.ask = used.asks + 1
    BY RecordsAreApart DEF IsEvaluation, IsRecord
  <2>3. /\ used' \in [visits : Int, edits : Int, asks : Int, moves : Int,
                      migrations : Int, releases : Int, probings : Int]
        /\ used'.asks = used.asks + 1
    BY <1>0, <2>1
  <2>. HIDE DEF e
  <2>. QED
    BY <1>1, <2>1, <2>2, <2>3 DEF Evaluate, AskedInv, StaleVerdictsAreAnnounced
<1>2. ASSUME NEW v \in Vaults, EvaluateVault(v) PROVE AskedInv'
  <2>1. PICK answers : evaluating' = [evaluating EXCEPT !.answers = answers]
    BY <1>2 DEF EvaluateVault
  <2>2. evaluating # Null /\ IsEvaluation(evaluating) /\ evaluating.ask = used.asks
    BY <1>2 DEF EvaluateVault, AskedInv
  <2>3. IsEvaluation(evaluating') /\ evaluating' # Null /\ evaluating'.ask = evaluating.ask
    BY <2>1, <2>2, AnswersArrive, RecordsAreApart DEF IsEvaluation
  <2>. QED
    BY <1>0, <1>2, <2>2, <2>3 DEF EvaluateVault, AskedInv, StaleVerdictsAreAnnounced, boundVars
<1>3. CASE EvaluationAnswered
  BY <1>0, <1>3 DEF EvaluationAnswered, AskedInv, StaleVerdictsAreAnnounced, boundVars
<1>4. CASE EvaluationLost \/ EvaluationRefused \/ InspectionFailed
  <2>1. /\ evaluating' \in {Null, evaluating} /\ inspecting' \in {Null, inspecting}
        /\ failure' \in {"evaluation", "inspection"} /\ used' = used
    BY <1>4 DEF EvaluationLost, EvaluationRefused, InspectionFailed, boundVars
  <2>2. failure' # Null
    BY <1>0, <2>1
  <2>. QED
    BY <1>0, <2>1, <2>2 DEF AskedInv, StaleVerdictsAreAnnounced
<1>5. CASE Leave \/ ReportOpened
  BY <1>0, <1>5 DEF Leave, ReportOpened, EmptyTable, AskedInv, StaleVerdictsAreAnnounced, boundVars
<1>6. CASE Visit
  BY <1>6, SpendKeepsAsks DEF Visit, EmptyTable, AskedInv, StaleVerdictsAreAnnounced
<1>7. CASE Edit \/ Promote
  BY <1>7, SpendKeepsAsks, AskedStays DEF Edit, Promote, pageVars
<1>8. CASE RunMigration \/ Curate
  BY <1>0, <1>8, SpendKeepsAsks, AskedStays DEF RunMigration, Curate, pageVars
<1>9. ASSUME NEW v \in Vaults, Inspect(v) PROVE AskedInv'
  <2>. DEFINE i == [vault |-> v, draft |-> draft, answer |-> Null,
                    row |-> [draft |-> outcomes.draft, outcome |-> outcomes.answers[v]]]
  <2>1. i # Null /\ IsInspection(i)
    BY RecordsAreApart DEF IsInspection, IsRecord
  <2>2. inspecting' = i
    BY <1>9 DEF Inspect
  <2>. HIDE DEF i
  <2>. QED
    BY <1>0, <1>9, <2>1, <2>2 DEF Inspect, AskedInv, StaleVerdictsAreAnnounced, boundVars
<1>10. CASE FileReport
  <2>1. PICK answer : inspecting' = [inspecting EXCEPT !.answer = answer]
    BY <1>10 DEF FileReport
  <2>2. inspecting # Null /\ IsInspection(inspecting)
    BY <1>10 DEF FileReport, AskedInv
  <2>3. IsInspection(inspecting') /\ inspecting' # Null
    BY <2>1, <2>2, AnswerArrives, RecordsAreApart DEF IsInspection
  <2>. QED
    BY <1>0, <1>10, <2>3 DEF FileReport, AskedInv, StaleVerdictsAreAnnounced, boundVars
<1>11. CASE InspectionAnswered
  BY <1>0, <1>11 DEF InspectionAnswered, AskedInv, StaleVerdictsAreAnnounced, boundVars
<1>12. CASE UNCHANGED vars
  BY <1>0, <1>12, AskedStays DEF vars, pageVars, boundVars
<1>. QED
  BY <1>1, <1>2, <1>3, <1>4, <1>5, <1>6, <1>7, <1>8, <1>9, <1>10, <1>11, <1>12 DEF Next, UsePage

\* Whatever the page, the connection and the API do, verdicts of an evaluation that is not
\* the last one asked for never stand without a word.
THEOREM StaleIsAnnounced == NullIsApart => (Spec => []StaleVerdictsAreAnnounced)
<1>. SUFFICES ASSUME NullIsApart PROVE Spec => []StaleVerdictsAreAnnounced
  OBVIOUS
<1>1. Init => AskedInv
  <2>. SUFFICES ASSUME Init PROVE AskedInv
    OBVIOUS
  <2>1. bounds \in [visits : Nat, edits : Nat, asks : Nat, moves : Nat,
                    migrations : Nat, releases : Nat, probings : Nat]
    BY SearchAssumption DEF Init
  <2>2. used \in [visits : Int, edits : Int, asks : Int, moves : Int,
                  migrations : Int, releases : Int, probings : Int]
    BY <2>1 DEF Init
  <2>. QED
    BY <2>2 DEF Init, AskedInv, StaleVerdictsAreAnnounced
<1>2. AskedInv => StaleVerdictsAreAnnounced
  BY DEF AskedInv
<1>3. AskedInv /\ [Next]_vars => AskedInv'
  BY AskedStep
<1>. QED
  BY <1>1, <1>2, <1>3, PTL DEF Spec

-----------------------------------------------------------------------------
(* Verdicts                                                                 *)

\* What the identity of evidence covers is all that its figures come from.
LEMMA IdentityDecides ==
  ASSUME NullIsApart, NEW start1, NEW end1, NEW flows1, NEW start2, NEW end2, NEW flows2, NEW days,
         BuildEvidence(start1, end1, flows1, days).id = BuildEvidence(start2, end2, flows2, days).id
  PROVE  BuildEvidence(start1, end1, flows1, days) = BuildEvidence(start2, end2, flows2, days)
<1>1. /\ SerialiseSnapshot(start1) = SerialiseSnapshot(start2)
      /\ SerialiseSnapshot(end1) = SerialiseSnapshot(end2)
      /\ flows1 = flows2
  BY DEF BuildEvidence
<1>2. ASSUME NEW s, NEW t, SerialiseSnapshot(s) = SerialiseSnapshot(t)
      PROVE  \/ s = Null /\ t = Null
             \/ /\ s # Null /\ t # Null
                /\ s.at = t.at /\ s.gen = t.gen /\ s.time = t.time /\ s.assets = t.assets
                /\ s.units = t.units /\ s.value = t.value /\ s.schema = t.schema
  <2>. DEFINE Image(r) ==
                [at |-> r.at, gen |-> r.gen, time |-> r.time, assets |-> r.assets,
                 supply |-> r.supply, units |-> r.units, value |-> r.value, schema |-> r.schema]
  <2>1. \A r : Image(r) # Null
    BY DEF NullIsApart
  <2>2. \A r : SerialiseSnapshot(r) = IF r = Null THEN Null ELSE Image(r)
    BY DEF SerialiseSnapshot
  <2>3. ASSUME Image(s) = Image(t)
        PROVE  /\ s.at = t.at /\ s.gen = t.gen /\ s.time = t.time /\ s.assets = t.assets
               /\ s.units = t.units /\ s.value = t.value /\ s.schema = t.schema
    BY <2>3
  <2>. HIDE DEF Image
  <2>. QED
    BY <1>2, <2>1, <2>2, <2>3
<1>3. end1.time = end2.time /\ end1.assets = end2.assets /\ end1.value = end2.value
      /\ end1.units = end2.units /\ end1.schema = end2.schema
  BY <1>1, <1>2
<1>4. CheckCompatibility(start1, end1) = CheckCompatibility(start2, end2)
  BY <1>1, <1>2, <1>3 DEF CheckCompatibility
<1>5. (IF start1 = Null THEN Null ELSE start1.value) = (IF start2 = Null THEN Null ELSE start2.value)
  BY <1>1, <1>2
<1>6. ElapsedSeconds(start1, end1) = ElapsedSeconds(start2, end2)
  BY <1>1, <1>2, <1>3 DEF ElapsedSeconds
<1>7. Provenance(start1, end1) = Provenance(start2, end2)
  <2>1. ASSUME NEW s1, NEW e1, NEW s2, NEW e2, NEW b,
               SerialiseSnapshot(s1) = SerialiseSnapshot(s2),
               SerialiseSnapshot(e1) = SerialiseSnapshot(e2), b \in Provenance(s1, e1)
        PROVE  b \in Provenance(s2, e2)
    <3>1. PICK s \in {s1, e1} \ {Null} : b = <<s.at, s.gen>>
      BY <2>1 DEF Provenance
    <3>2. \E t \in {s2, e2} \ {Null} : t.at = s.at /\ t.gen = s.gen
      BY <1>2, <2>1, <3>1
    <3>. QED
      BY <3>1, <3>2 DEF Provenance
  <2>. QED
    BY <1>1, <2>1
<1>. QED
  BY <1>1, <1>3, <1>4, <1>5, <1>6, <1>7 DEF BuildEvidence

\* The evidence of a vault in one of the worlds, and the verdict it gets.
EvidenceIn(v, w) ==
  BuildEvidence(Worlds[v][w].start, Worlds[v][w].end, Worlds[v][w].flows, WindowDays)

VerdictIn(policy, v, w, time) ==
  EvaluatePolicy(policy, EvidenceIn(v, w), AssetKey[v], time, Null)

LEMMA OneVerdict ==
  ASSUME NullIsApart, NEW v, NEW w, NEW x, EvidenceIn(v, w).id = EvidenceIn(v, x).id,
         NEW policy, NEW time
  PROVE  VerdictIn(policy, v, w, time) = VerdictIn(policy, v, x, time)
BY IdentityDecides DEF EvidenceIn, VerdictIn

\* A row that has a verdict has the one of the evidence it names.
Truthful(outcome, d, v) ==
  outcome.by # Null =>
    \E w, time :
      /\ outcome.by = [id |-> EvidenceIn(v, w).id, deployed |-> time]
      /\ outcome.status = VerdictIn(PolicyOf(DraftToPolicy(d)), v, w, time).status
      /\ outcome.rules = VerdictIn(PolicyOf(DraftToPolicy(d)), v, w, time).rules

\* And so has a report, whoever filed it.
Filed(report) ==
  \E w, time :
    /\ report.id = EvidenceIn(report.vault, w).id
    /\ report.deployed = time
    /\ report.evaluation = VerdictIn(report.policy, report.vault, w, time)

Answered(e) ==
  e # Null => IsEvaluation(e) /\ \A v \in DOMAIN e.answers : Truthful(e.answers[v], e.draft, v)

\* An inspection remembers its row, and a report of its vault that answers it.
Inspected(i) ==
  i # Null =>
    /\ IsInspection(i)
    /\ Truthful(i.row.outcome, i.row.draft, i.vault)
    /\ i.answer # Null =>
         /\ Filed(i.answer.report)
         /\ i.answer.report.vault = i.vault
         /\ i.answer.created => i.answer.report.policy = PolicyOf(DraftToPolicy(i.draft))

RowsInv ==
  /\ Answered(evaluating) /\ Answered(outcomes)
  /\ Inspected(inspecting) /\ Inspected(opening) /\ Inspected(opened)
  /\ opening # Null => opening.answer # Null
  /\ opened # Null => opened.answer # Null
  /\ \A report \in reports : Filed(report)

LEMMA RowsRepeat == NullIsApart /\ RowsInv => InspectionRepeatsTheRow
<1>. SUFFICES ASSUME NullIsApart, RowsInv, opened # Null,
                     opened.draft = opened.row.draft, opened.row.outcome.by # Null,
                     opened.row.outcome.by.id = opened.answer.report.id,
                     opened.row.outcome.by.deployed = opened.answer.report.deployed,
                     \/ opened.answer.created
                     \/ opened.answer.report.policy = PolicyOf(DraftToPolicy(opened.draft))
              PROVE  /\ opened.answer.report.evaluation.status = opened.row.outcome.status
                     /\ opened.answer.report.evaluation.rules = opened.row.outcome.rules
  BY DEF InspectionRepeatsTheRow
<1>. DEFINE policy == PolicyOf(DraftToPolicy(opened.draft))
            report == opened.answer.report
            outcome == opened.row.outcome
<1>1. /\ Truthful(outcome, opened.draft, opened.vault) /\ Filed(report)
      /\ report.vault = opened.vault /\ report.policy = policy
  BY DEF RowsInv, Inspected
<1>2. PICK w, time : /\ outcome.by = [id |-> EvidenceIn(opened.vault, w).id, deployed |-> time]
                     /\ outcome.status = VerdictIn(policy, opened.vault, w, time).status
                     /\ outcome.rules = VerdictIn(policy, opened.vault, w, time).rules
  BY <1>1 DEF Truthful
<1>3. PICK x, at : /\ report.id = EvidenceIn(opened.vault, x).id /\ report.deployed = at
                   /\ report.evaluation = VerdictIn(policy, opened.vault, x, at)
  BY <1>1 DEF Filed
<1>4. time = at /\ EvidenceIn(opened.vault, w).id = EvidenceIn(opened.vault, x).id
  BY <1>2, <1>3
<1>. QED
  BY <1>2, <1>3, <1>4, OneVerdict

LEMMA EvidenceIsOfAWorld ==
  ASSUME NEW v, EvidenceOf(v) # Null
  PROVE  EvidenceOf(v) = EvidenceIn(v, world)
BY DEF EvidenceOf, EvidenceIn

\* Every answer of the evaluation route.
LEMMA AnswersAreTruthful ==
  ASSUME NEW d, NEW v, NEW outcome \in ApiEvaluate(DraftToPolicy(d), v) \cup {Unavailable}
  PROVE  Truthful(outcome, d, v)
<1>. DEFINE candidate == DraftToPolicy(d)
            verdict(time) == Judge(candidate, v, time)
            answer(time) ==
              [NoVerdict EXCEPT !.status = verdict(time).status, !.rules = verdict(time).rules,
                                !.by = [id |-> EvidenceOf(v).id, deployed |-> time]]
<1>1. NoVerdict.by = Null /\ Unavailable.by = Null
  BY DEF NoVerdict, Unavailable
<1>2. [NoVerdict EXCEPT !.issues = Issues(candidate)].by = Null
  BY DEF NoVerdict
<1>3. \A time : /\ answer(time).by = [id |-> EvidenceOf(v).id, deployed |-> time]
                /\ answer(time).status = verdict(time).status
                /\ answer(time).rules = verdict(time).rules
  BY DEF NoVerdict
<1>4. CASE outcome.by = Null
  BY <1>4 DEF Truthful
<1>5. CASE outcome.by # Null
  <2>1. PICK time : outcome = answer(time) /\ EvidenceOf(v) # Null
    BY <1>1, <1>2, <1>5 DEF ApiEvaluate
  <2>2. verdict(time) = VerdictIn(PolicyOf(candidate), v, world, time)
    BY <2>1, EvidenceIsOfAWorld DEF Judge, VerdictIn
  <2>3. EvidenceOf(v).id = EvidenceIn(v, world).id
    BY <2>1, EvidenceIsOfAWorld
  <2>. HIDE DEF answer, verdict, candidate
  <2>4. /\ outcome.by = [id |-> EvidenceIn(v, world).id, deployed |-> time]
        /\ outcome.status = VerdictIn(PolicyOf(candidate), v, world, time).status
        /\ outcome.rules = VerdictIn(PolicyOf(candidate), v, world, time).rules
    BY <1>3, <2>1, <2>2, <2>3
  <2>. QED
    BY <2>4 DEF Truthful, candidate
<1>. QED
  BY <1>4, <1>5

\* Every report the reports route answers with.
LEMMA ReportsAreFiled ==
  ASSUME RowsInv, NEW d, NEW v, NEW report \in ReportsFor(DraftToPolicy(d), v)
  PROVE  /\ Filed(report) /\ report.vault = v
         /\ report \notin reports => report.policy = PolicyOf(DraftToPolicy(d))
<1>1. Reportable(DraftToPolicy(d), v)
  BY DEF ReportsFor
<1>2. EvidenceOf(v) = EvidenceIn(v, world)
  BY <1>1, EvidenceIsOfAWorld DEF Reportable
<1>3. CASE report \in reports /\ report.vault = v
  BY <1>3 DEF RowsInv
<1>4. CASE report \in NewReports(DraftToPolicy(d), v)
  <2>1. PICK time : report = [vault |-> v, id |-> EvidenceOf(v).id, deployed |-> time,
                              policy |-> PolicyOf(DraftToPolicy(d)),
                              evaluation |-> Judge(DraftToPolicy(d), v, time)]
    BY <1>4 DEF NewReports
  <2>2. Judge(DraftToPolicy(d), v, time) = VerdictIn(PolicyOf(DraftToPolicy(d)), v, world, time)
    BY <1>2 DEF Judge, VerdictIn
  <2>3. Filed(report)
    BY <1>2, <2>1, <2>2 DEF Filed
  <2>. QED
    BY <2>1, <2>3
<1>. QED
  BY <1>1, <1>3, <1>4 DEF ReportsFor

\* Where the page forgets, or nothing happens to it.
LEMMA RowsStay ==
  ASSUME RowsInv, evaluating' \in {Null, evaluating}, outcomes' \in {Null, outcomes, evaluating},
         inspecting' \in {Null, inspecting}, opening' \in {Null, opening}, opened' = opened,
         \A report \in reports' : Filed(report)
  PROVE  RowsInv'
<1>1. Answered(Null) /\ Inspected(Null)
  BY DEF Answered, Inspected
<1>2. /\ Answered(evaluating') /\ Answered(outcomes')
      /\ Inspected(inspecting') /\ Inspected(opening') /\ Inspected(opened')
  BY <1>1 DEF RowsInv
<1>. QED
  BY <1>2 DEF RowsInv

LEMMA RowsStep == NullIsApart /\ RowsInv /\ [Next]_vars => RowsInv'
<1>. SUFFICES ASSUME NullIsApart, RowsInv, [Next]_vars PROVE RowsInv'
  OBVIOUS
<1>0. \A report \in reports : Filed(report)
  BY DEF RowsInv
<1>1. CASE Evaluate
  <2>. DEFINE e == [ask |-> used.asks + 1, draft |-> draft, answers |-> <<>>]
  <2>1. Answered(e)
    BY DEF Answered, IsEvaluation, IsRecord
  <2>. HIDE DEF e
  <2>2. evaluating' = e
    BY <1>1 DEF Evaluate, e
  <2>3. Answered(evaluating')
    BY <2>1, <2>2
  <2>. QED
    BY <1>1, <2>3 DEF Evaluate, RowsInv
<1>2. ASSUME NEW v \in Vaults, EvaluateVault(v) PROVE RowsInv'
  <2>. DEFINE known == evaluating.answers
  <2>1. PICK outcome \in ApiEvaluate(DraftToPolicy(evaluating.draft), v) \cup {Unavailable} :
          evaluating' = [evaluating EXCEPT
                           !.answers = [u \in DOMAIN known \cup {v} |->
                                          IF u = v THEN outcome ELSE known[u]]]
    BY <1>2 DEF EvaluateVault
  <2>. DEFINE answers == [u \in DOMAIN known \cup {v} |-> IF u = v THEN outcome ELSE known[u]]
  <2>2. /\ evaluating # Null /\ IsEvaluation(evaluating)
        /\ \A u \in DOMAIN known : Truthful(known[u], evaluating.draft, u)
    BY <1>2 DEF EvaluateVault, RowsInv, Answered
  <2>3. Truthful(outcome, evaluating.draft, v)
    BY AnswersAreTruthful
  <2>4. \A u \in DOMAIN answers : Truthful(answers[u], evaluating.draft, u)
    BY <2>2, <2>3
  <2>5. evaluating' = [evaluating EXCEPT !.answers = answers]
    BY <2>1
  <2>. HIDE DEF answers
  <2>6. /\ IsEvaluation(evaluating') /\ evaluating'.draft = evaluating.draft
        /\ evaluating'.answers = answers
    BY <2>2, <2>5, AnswersArrive
  <2>7. Answered(evaluating')
    BY <2>4, <2>6 DEF Answered
  <2>. QED
    BY <1>2, <2>7 DEF EvaluateVault, RowsInv
<1>3. CASE EvaluationAnswered \/ EvaluationRefused \/ EvaluationLost
  BY <1>0, <1>3, RowsStay DEF EvaluationAnswered, EvaluationRefused, EvaluationLost
<1>4. CASE Visit \/ Leave
  BY <1>0, <1>4, RowsStay DEF Visit, Leave, EmptyTable
<1>5. CASE Edit \/ Promote
  BY <1>0, <1>5, RowsStay DEF Edit, Promote, pageVars, tableVars
<1>6. ASSUME NEW v \in Vaults, Inspect(v) PROVE RowsInv'
  <2>. DEFINE i == [vault |-> v, draft |-> draft, answer |-> Null,
                    row |-> [draft |-> outcomes.draft, outcome |-> outcomes.answers[v]]]
  <2>1. Truthful(outcomes.answers[v], outcomes.draft, v)
    BY <1>6 DEF Inspect, RowsInv, Answered
  <2>2. IsInspection(i)
    BY DEF IsInspection, IsRecord
  <2>3. /\ i.row.outcome = outcomes.answers[v] /\ i.row.draft = outcomes.draft
        /\ i.vault = v /\ i.answer = Null
    OBVIOUS
  <2>4. inspecting' = i
    BY <1>6 DEF Inspect
  <2>. HIDE DEF i
  <2>5. Inspected(inspecting')
    BY <2>1, <2>2, <2>3, <2>4 DEF Inspected
  <2>. QED
    BY <1>6, <2>5 DEF Inspect, RowsInv
<1>7. CASE FileReport
  <2>1. PICK report \in ReportsFor(DraftToPolicy(inspecting.draft), inspecting.vault) :
          /\ inspecting' = [inspecting EXCEPT !.answer = [report |-> report,
                                                          created |-> report \notin reports]]
          /\ reports' = reports \cup {report}
    BY <1>7 DEF FileReport
  <2>. DEFINE answer == [report |-> report, created |-> report \notin reports]
  <2>2. inspecting # Null /\ IsInspection(inspecting)
        /\ Truthful(inspecting.row.outcome, inspecting.row.draft, inspecting.vault)
    BY <1>7 DEF FileReport, RowsInv, Inspected
  <2>3. /\ Filed(report) /\ report.vault = inspecting.vault
        /\ report \notin reports => report.policy = PolicyOf(DraftToPolicy(inspecting.draft))
    BY ReportsAreFiled
  <2>4. answer.report = report /\ (answer.created <=> report \notin reports)
    OBVIOUS
  <2>. HIDE DEF answer
  <2>5. /\ IsInspection(inspecting') /\ inspecting'.vault = inspecting.vault
        /\ inspecting'.draft = inspecting.draft /\ inspecting'.row = inspecting.row
        /\ inspecting'.answer = answer
    BY <2>1, <2>2, AnswerArrives DEF answer
  <2>6. Inspected(inspecting')
    BY <2>2, <2>3, <2>4, <2>5 DEF Inspected
  <2>7. \A r \in reports' : Filed(r)
    BY <1>0, <2>1, <2>3
  <2>. QED
    BY <1>7, <2>6, <2>7 DEF FileReport, RowsInv
<1>8. CASE ReportOpened
  <2>1. Answered(Null) /\ Inspected(Null)
    BY DEF Answered, Inspected
  <2>. QED
    BY <1>8, <2>1 DEF ReportOpened, EmptyTable, RowsInv
<1>9. CASE InspectionFailed
  <2>1. \A report \in reports' : Filed(report)
    BY <1>0, <1>9, ReportsAreFiled DEF InspectionFailed
  <2>. QED
    BY <1>9, <2>1, RowsStay DEF InspectionFailed
<1>10. CASE RunMigration \/ Curate
  <2>1. reports' \subseteq reports
    BY <1>10 DEF RunMigration, Curate, ReadRecorded, SkipFile, GuardFile, ApplyFile, RecordFile,
       EndRun, Deploy, Reprobe, Seed
  <2>. QED
    BY <1>0, <1>10, <2>1, RowsStay DEF RunMigration, Curate, pageVars, tableVars
<1>11. CASE InspectionAnswered
  <2>1. Inspected(Null) /\ Inspected(opening')
    BY <1>11 DEF Inspected, InspectionAnswered, RowsInv
  <2>. QED
    BY <1>11, <2>1 DEF InspectionAnswered, RowsInv
<1>12. CASE UNCHANGED vars
  BY <1>0, <1>12, RowsStay DEF vars, pageVars, tableVars
<1>. QED
  BY <1>1, <1>2, <1>3, <1>4, <1>5, <1>6, <1>7, <1>8, <1>9, <1>10, <1>11, <1>12 DEF Next, UsePage

\* For any vaults, drafts and observations: the report an inspection opens repeats the
\* verdict of the row that was clicked, but for what the property names.
THEOREM RowIsRepeated == NullIsApart => (Spec => []InspectionRepeatsTheRow)
<1>. SUFFICES ASSUME NullIsApart PROVE Spec => []InspectionRepeatsTheRow
  OBVIOUS
<1>1. Init => RowsInv
  BY DEF Init, RowsInv, Answered, Inspected, Installed, RegistryInit
<1>2. RowsInv => InspectionRepeatsTheRow
  BY RowsRepeat
<1>3. RowsInv /\ [Next]_vars => RowsInv'
  BY RowsStep
<1>. QED
  BY <1>1, <1>2, <1>3, PTL DEF Spec

-----------------------------------------------------------------------------
(* Sorting                                                                  *)

\* A strict order on a set, as a set of pairs.
Orders(before, S) ==
  /\ \A u \in S : <<u, u>> \notin before
  /\ \A u, v, w \in S : <<u, v>> \in before /\ <<v, w>> \in before => <<u, w>> \in before

\* Before a member that it is not in order with, none of the set comes.
Foremost(before, T) == {u \in T : \A v \in T : <<v, u>> \notin before}

\* The members of a set, one after the other, none below one it comes before.
SortedRows(before, T) ==
  {rows \in Bijection(1..Cardinality(T), T) :
     \A i, j \in DOMAIN rows : i < j => <<rows[j], rows[i]>> \notin before}

\* Something comes first.
LEMMA SomethingIsForemost ==
  ASSUME NEW S, IsFiniteSet(S), NEW before, Orders(before, S)
  PROVE  \A T \in SUBSET S : T # {} => Foremost(before, T) # {}
<1>. DEFINE bad == {T \in SUBSET S : T # {} /\ Foremost(before, T) = {}}
<1>1. ASSUME NEW T \in bad PROVE \E x \in T : T \ {x} \in bad
  <2>1. T \in SUBSET S /\ T # {} /\ Foremost(before, T) = {}
    OBVIOUS
  <2>2. PICK x \in T : x \in S
    BY <2>1
  <2>3. T \ {x} # {}
    <3>. SUFFICES ASSUME T = {x} PROVE FALSE
      OBVIOUS
    <3>. QED
      BY <2>1, <2>2 DEF Orders, Foremost
  <2>4. Foremost(before, T \ {x}) = {}
    <3>. SUFFICES ASSUME NEW m \in T \ {x}, \A v \in T \ {x} : <<v, m>> \notin before PROVE FALSE
      BY DEF Foremost
    <3>1. <<x, m>> \in before
      BY <2>1 DEF Foremost
    <3>2. PICK v \in T : <<v, x>> \in before
      BY <2>1, <2>2 DEF Foremost
    <3>3. v # x /\ <<v, m>> \in before
      BY <2>1, <2>2, <3>1, <3>2 DEF Orders
    <3>. QED
      BY <3>2, <3>3
  <2>. QED
    BY <2>1, <2>2, <2>3, <2>4
<1>2. bad \in SUBSET SUBSET S
  OBVIOUS
<1>. HIDE DEF bad
<1>3. bad = {}
  BY <1>1, <1>2, SubsetInduction
<1>. QED
  BY <1>3 DEF bad

\* What comes first, on top of the others sorted, is sorted.
LEMMA SortedUnderFirst ==
  ASSUME NEW T, IsFiniteSet(T), NEW before, NEW x \in Foremost(before, T),
         NEW rest \in SortedRows(before, T \ {x})
  PROVE  SortedRows(before, T) # {}
<1>. DEFINE n == Cardinality(T)
            rows == [i \in 1..n |-> IF i = 1 THEN x ELSE rest[i - 1]]
<1>1. /\ x \in T /\ n \in Nat /\ n >= 1 /\ Cardinality(T \ {x}) = n - 1
  BY FS_CardinalityType, FS_RemoveElement, FS_EmptySet DEF Foremost
<1>2. /\ rest \in [1..(n - 1) -> T \ {x}]
      /\ \A i, j \in 1..(n - 1) : rest[i] = rest[j] => i = j
      /\ \A y \in T \ {x} : \E i \in 1..(n - 1) : rest[i] = y
      /\ \A i, j \in 1..(n - 1) : i < j => <<rest[j], rest[i]>> \notin before
  BY <1>1 DEF SortedRows, Bijection, Injection, Surjection, IsInjective
<1>3. \A i \in 2..n : i - 1 \in 1..(n - 1) /\ rows[i] = rest[i - 1] /\ rows[i] \in T \ {x}
  BY <1>1, <1>2
<1>4. rows \in [1..n -> T] /\ rows[1] = x /\ DOMAIN rows = 1..n
  <2>1. 1 \in 1..n /\ rows[1] = x
    BY <1>1
  <2>2. ASSUME NEW i \in 1..n PROVE rows[i] \in T
    <3>1. i = 1 \/ i \in 2..n
      BY <1>1
    <3>. QED
      BY <1>1, <1>3, <2>1, <3>1
  <2>3. rows = [i \in 1..n |-> rows[i]]
    OBVIOUS
  <2>. HIDE DEF rows
  <2>. QED
    BY <2>1, <2>2, <2>3
<1>. HIDE DEF rows
<1>5. ASSUME NEW i \in 1..n, NEW j \in 1..n, rows[i] = rows[j] PROVE i = j
  <2>1. CASE i \in 2..n /\ j \in 2..n
    BY <1>1, <1>2, <1>3, <1>5, <2>1
  <2>2. CASE i = 1 \/ j = 1
    BY <1>3, <1>4, <1>5, <2>2
  <2>. QED
    BY <1>1, <2>1, <2>2
<1>6. ASSUME NEW y \in T PROVE \E i \in 1..n : rows[i] = y
  <2>1. CASE y = x
    BY <1>1, <1>4, <2>1
  <2>2. CASE y # x
    <3>1. PICK i \in 1..(n - 1) : rest[i] = y
      BY <1>2, <2>2
    <3>2. i + 1 \in 2..n /\ i + 1 \in 1..n /\ (i + 1) - 1 = i
      BY <1>1
    <3>3. rows[i + 1] = y
      BY <1>3, <3>1, <3>2
    <3>. QED
      BY <3>2, <3>3
  <2>. QED
    BY <2>1, <2>2
<1>7. ASSUME NEW i \in 1..n, NEW j \in 1..n, i < j PROVE <<rows[j], rows[i]>> \notin before
  <2>1. j \in 2..n
    BY <1>1, <1>7
  <2>2. CASE i = 1
    BY <1>3, <1>4, <2>1, <2>2 DEF Foremost
  <2>3. CASE i \in 2..n
    <3>1. i - 1 \in 1..(n - 1) /\ j - 1 \in 1..(n - 1) /\ i - 1 < j - 1
      BY <1>1, <1>7, <2>1, <2>3
    <3>. QED
      BY <1>2, <1>3, <2>1, <2>3, <3>1
  <2>. QED
    BY <1>1, <2>2, <2>3
<1>8. rows \in Bijection(1..n, T)
  BY <1>4, <1>5, <1>6 DEF Bijection, Injection, Surjection, IsInjective
<1>. QED
  BY <1>4, <1>7, <1>8 DEF SortedRows

\* Every finite set can be sorted.
LEMMA SetsAreSorted ==
  ASSUME NEW S, IsFiniteSet(S), NEW before, Orders(before, S)
  PROVE  SortedRows(before, S) # {}
<1>. DEFINE bad == {T \in SUBSET S : SortedRows(before, T) = {}}
<1>1. ASSUME NEW T \in bad PROVE \E x \in T : T \ {x} \in bad
  <2>1. T \in SUBSET S /\ IsFiniteSet(T) /\ SortedRows(before, T) = {}
    BY FS_Subset
  <2>2. T # {}
    <3>. SUFFICES ASSUME T = {} PROVE FALSE
      OBVIOUS
    <3>. DEFINE none == [i \in 1..0 |-> i]
    <3>1. Cardinality(T) = 0
      BY FS_EmptySet
    <3>2. none \in [1..0 -> {}] /\ DOMAIN none = {}
      OBVIOUS
    <3>. HIDE DEF none
    <3>3. none \in SortedRows(before, T)
      BY <3>1, <3>2 DEF SortedRows, Bijection, Injection, Surjection, IsInjective
    <3>. QED
      BY <2>1, <3>3
  <2>3. PICK x : x \in Foremost(before, T)
    BY <2>1, <2>2, SomethingIsForemost
  <2>4. x \in T /\ SortedRows(before, T \ {x}) = {}
    BY <2>1, <2>3, SortedUnderFirst DEF Foremost
  <2>. QED
    BY <2>1, <2>4
<1>2. bad \in SUBSET SUBSET S
  OBVIOUS
<1>. HIDE DEF bad
<1>3. bad = {}
  BY <1>1, <1>2, SubsetInduction
<1>. QED
  BY <1>3 DEF bad

-----------------------------------------------------------------------------
(* The table                                                                *)

\* The figures of a return: absent, or an integer of its observations' sign.
SignedReturn(figures) ==
  figures.bps # Null =>
    /\ figures.id.start # Null
    /\ figures.bps \in Int
    /\ figures.bps < 0 <=> figures.id.end.value < figures.id.start.value

\* What was promoted of a vault, in one of the worlds.
Observed(v) == {w \in DOMAIN Worlds[v] : Worlds[v][w] # Null}

\* The verdict of a draft over one of them.
Verdict(d, v, w, time) ==
  LET evaluation == VerdictIn(PolicyOf(DraftToPolicy(d)), v, w, time)
  IN  [NoVerdict EXCEPT !.status = evaluation.status, !.rules = evaluation.rules,
                        !.by = [id |-> EvidenceIn(v, w).id, deployed |-> time]]

\* What the API, or the route for it, may say of a draft and a vault.
Replies(d, v) ==
  {Unavailable}
    \cup IF Issues(DraftToPolicy(d)) # {}
         THEN {[NoVerdict EXCEPT !.issues = Issues(DraftToPolicy(d))]}
         ELSE {Verdict(d, v, w, time) : w \in Observed(v), time \in DeploymentTimes(v)}

\* An evaluation asks about the vaults of the page, for a draft a visitor can make.
Asked(e) ==
  /\ IsEvaluation(e)
  /\ e.draft \in Drafts
  /\ IsFiniteSet(DOMAIN e.answers)
  /\ DOMAIN e.answers \subseteq Vaults \cap listed
  /\ \A v \in DOMAIN e.answers : e.answers[v] \in Replies(e.draft, v)

\* The worlds come in their order, one for every move.
MovesInv ==
  /\ bounds \in Scenarios
  /\ used \in [visits : Int, edits : Int, asks : Int, moves : Nat,
               migrations : Int, releases : Int, probings : Int]
  /\ used.moves <= bounds.moves
  /\ world = used.moves + 1

TableInv ==
  /\ MovesInv
  /\ draft \in Drafts
  /\ evaluating # Null => Asked(evaluating)
  /\ outcomes # Null => Asked(outcomes) /\ DOMAIN outcomes.answers = listed

LEMMA WorldIsThere ==
  ASSUME MovesInv, NEW v \in Vaults
  PROVE  world \in DOMAIN Worlds[v]
<1>1. 1..(bounds.moves + 1) \subseteq DOMAIN Worlds[v]
  BY WorldAssumption DEF MovesInv
<1>2. bounds.moves \in Nat /\ used.moves \in Nat
  BY SearchAssumption DEF MovesInv
<1>. QED
  BY <1>1, <1>2 DEF MovesInv

\* Whatever the API answers, and whether it answers, is one of the replies.
LEMMA AnswersAreReplies ==
  ASSUME MovesInv, NEW v \in Vaults, NEW d,
         NEW outcome \in ApiEvaluate(DraftToPolicy(d), v) \cup {Unavailable}
  PROVE  outcome \in Replies(d, v)
<1>. DEFINE candidate == DraftToPolicy(d)
<1>1. CASE outcome = Unavailable
  BY <1>1 DEF Replies
<1>2. CASE Issues(candidate) # {} /\ outcome \in ApiEvaluate(candidate, v)
  <2>1. outcome = [NoVerdict EXCEPT !.issues = Issues(candidate)]
    BY <1>2 DEF ApiEvaluate
  <2>. QED
    BY <1>2, <2>1 DEF Replies
<1>3. CASE /\ Issues(candidate) = {} /\ outcome # Unavailable
           /\ outcome \in ApiEvaluate(candidate, v)
  <2>1. EvidenceOf(v) # Null
    BY <1>3 DEF ApiEvaluate
  <2>2. PICK time \in DeploymentTimes(v) :
          outcome = LET evaluation == Judge(candidate, v, time)
                    IN  [NoVerdict EXCEPT !.status = evaluation.status, !.rules = evaluation.rules,
                                          !.by = [id |-> EvidenceOf(v).id, deployed |-> time]]
    BY <1>3, <2>1 DEF ApiEvaluate
  <2>3. EvidenceOf(v) = EvidenceIn(v, world)
    BY <2>1, EvidenceIsOfAWorld
  <2>4. Judge(candidate, v, time) = VerdictIn(PolicyOf(candidate), v, world, time)
    BY <2>3 DEF Judge, VerdictIn
  <2>5. world \in Observed(v)
    BY <2>1, WorldIsThere DEF EvidenceOf, Observed
  <2>6. outcome = Verdict(d, v, world, time)
    BY <2>2, <2>3, <2>4 DEF Verdict
  <2>. QED
    BY <1>3, <2>5, <2>6 DEF Replies
<1>. QED
  BY <1>1, <1>2, <1>3

LEMMA ReplyIs ==
  ASSUME NEW d, NEW v, NEW outcome \in Replies(d, v)
  PROVE  \/ outcome = Unavailable
         \/ /\ Issues(DraftToPolicy(d)) # {}
            /\ outcome = [NoVerdict EXCEPT !.issues = Issues(DraftToPolicy(d))]
         \/ /\ Issues(DraftToPolicy(d)) = {}
            /\ \E w \in Observed(v) : \E time : outcome = Verdict(d, v, w, time)
<1>1. CASE Issues(DraftToPolicy(d)) # {}
  BY <1>1 DEF Replies
<1>2. CASE Issues(DraftToPolicy(d)) = {}
  BY <1>2 DEF Replies
<1>. QED
  BY <1>1, <1>2

LEMMA ReplyFields ==
  /\ Unavailable.status = Null /\ Unavailable.rules = Null /\ Unavailable.issues = {}
  /\ Unavailable.by = Null /\ Unavailable.unavailable
  /\ \A issues : LET refused == [NoVerdict EXCEPT !.issues = issues]
                 IN  /\ refused.status = Null /\ refused.rules = Null /\ refused.by = Null
                     /\ refused.issues = issues /\ ~refused.unavailable
  /\ \A d, v, w, time :
       LET outcome == Verdict(d, v, w, time)
           evaluation == VerdictIn(PolicyOf(DraftToPolicy(d)), v, w, time)
       IN  /\ outcome.status = evaluation.status /\ outcome.rules = evaluation.rules
           /\ outcome.by = [id |-> EvidenceIn(v, w).id, deployed |-> time]
           /\ outcome.issues = {} /\ ~outcome.unavailable
BY DEF Unavailable, NoVerdict, Verdict

LEMMA VerdictIs ==
  ASSUME NEW policy, NEW v, NEW w, NEW time
  PROVE  LET verdict == VerdictIn(policy, v, w, time)
         IN  /\ verdict.status \in {"PASS", "FAIL", "UNKNOWN"}
             /\ DOMAIN verdict.rules = RuleKeys
             /\ verdict.rules["minimumObservedReturn"]
                  = MinimumObservedReturn(policy, EvidenceIn(v, w))
<1>1. \A rules : OverallStatus(rules) \in {"PASS", "FAIL", "UNKNOWN"}
  BY DEF OverallStatus
<1>. QED
  BY <1>1 DEF VerdictIn, EvaluatePolicy, RuleKeys

\* What there is for a row to show.
LEMMA RepliesShow ==
  ASSUME NEW d, NEW v, NEW outcome \in Replies(d, v)
  PROVE  /\ outcome.status \in {"PASS", "FAIL", "UNKNOWN", Null}
         /\ Rank(outcome) \in 0..3
         /\ Completeness(outcome) \in Nat
<1>1. CASE outcome.rules = Null /\ outcome.status = Null
  BY <1>1, VerdictAssumption DEF Rank, Completeness
<1>2. CASE outcome.status \in {"PASS", "FAIL", "UNKNOWN"} /\ DOMAIN outcome.rules = RuleKeys
  <2>. DEFINE reached == {k \in DOMAIN outcome.rules : outcome.rules[k].status # "UNKNOWN"}
  <2>1. RuleKeys = {"underlyingAsset"} \cup {"minimumHistory"} \cup {"minimumTvl"}
                     \cup {"minimumObservedReturn"} \cup {"minimumWithdrawableAssets"}
    BY DEF RuleKeys
  <2>2. IsFiniteSet(RuleKeys)
    BY <2>1, FS_Singleton, FS_Union
  <2>3. Cardinality(reached) \in Nat
    BY <1>2, <2>2, FS_Subset, FS_CardinalityType
  <2>4. Completeness(outcome) \in Nat
    BY <2>3 DEF Completeness
  <2>. QED
    BY <1>2, <2>4 DEF Rank
<1>3. \/ outcome.rules = Null /\ outcome.status = Null
      \/ outcome.status \in {"PASS", "FAIL", "UNKNOWN"} /\ DOMAIN outcome.rules = RuleKeys
  <2>1. CASE outcome = Unavailable
    BY <2>1, ReplyFields
  <2>2. CASE outcome = [NoVerdict EXCEPT !.issues = Issues(DraftToPolicy(d))]
    BY <2>2, ReplyFields
  <2>3. ASSUME NEW w, NEW time, outcome = Verdict(d, v, w, time)
        PROVE  outcome.status \in {"PASS", "FAIL", "UNKNOWN"} /\ DOMAIN outcome.rules = RuleKeys
    BY <2>3, ReplyFields, VerdictIs
  <2>. QED
    BY <2>1, <2>2, <2>3, ReplyIs
<1>. QED
  BY <1>1, <1>2, <1>3

\* The rows are the vaults that were asked about, and no row stands below one it comes
\* before.
LEMMA RowsAreSorted ==
  ASSUME NEW e, Asked(e)
  PROVE  LET rows == CompareOutcomes(e.answers)
             vaults == DOMAIN e.answers
         IN  /\ rows \in [1..Cardinality(vaults) -> vaults]
             /\ \A v \in vaults : \E i \in DOMAIN rows : rows[i] = v
             /\ \A i, j \in DOMAIN rows : i < j => ~ComesBefore(e.answers, rows[j], rows[i])
<1>. DEFINE answers == e.answers
            vaults == DOMAIN answers
            before == {p \in vaults \X vaults : ComesBefore(answers, p[1], p[2])}
<1>1. IsFiniteSet(vaults) /\ \A v \in vaults : answers[v] \in Replies(e.draft, v) /\ v \in Vaults
  BY DEF Asked
<1>2. \A v \in vaults : /\ Rank(answers[v]) \in Int /\ Completeness(answers[v]) \in Int
                        /\ NameRank[v] \in Int
  BY <1>1, RepliesShow, WorldAssumption
<1>3. \A u, v \in vaults : <<u, v>> \in before <=> ComesBefore(answers, u, v)
  OBVIOUS
<1>4. Orders(before, vaults)
  <2>1. \A u \in vaults : ~ComesBefore(answers, u, u)
    BY <1>2 DEF ComesBefore
  <2>2. \A u, v, w \in vaults :
          ComesBefore(answers, u, v) /\ ComesBefore(answers, v, w) => ComesBefore(answers, u, w)
    BY <1>2 DEF ComesBefore
  <2>. HIDE DEF before
  <2>. QED
    BY <1>3, <2>1, <2>2 DEF Orders
<1>. HIDE DEF before, answers
<1>5. PICK sorted : sorted \in SortedRows(before, vaults)
  BY <1>1, <1>4, SetsAreSorted
<1>6. ASSUME NEW rows \in Bijection(1..Cardinality(vaults), vaults)
      PROVE  /\ DOMAIN rows = 1..Cardinality(vaults)
             /\ \A i \in DOMAIN rows : rows[i] \in vaults
             /\ rows \in [1..Cardinality(vaults) -> vaults]
             /\ \A v \in vaults : \E i \in DOMAIN rows : rows[i] = v
  BY DEF Bijection, Injection, Surjection
<1>7. /\ sorted \in Bijection(1..Cardinality(vaults), vaults)
      /\ \A i, j \in DOMAIN sorted : i < j => ~ComesBefore(answers, sorted[j], sorted[i])
  BY <1>3, <1>5, <1>6 DEF SortedRows
<1>8. /\ CompareOutcomes(answers) \in Bijection(1..Cardinality(vaults), vaults)
      /\ \A i, j \in DOMAIN CompareOutcomes(answers) :
           i < j => ~ComesBefore(answers, CompareOutcomes(answers)[j], CompareOutcomes(answers)[i])
  BY <1>7 DEF CompareOutcomes
<1>. QED
  BY <1>6, <1>8 DEF answers

\* A field has an issue, at the path the panel looks for it, when the contract refuses it.
LEMMA IssuesAreOfFields ==
  ASSUME NEW d \in Drafts, NEW field \in DOMAIN d
  PROVE  PathFor(field) \in Issues(DraftToPolicy(d)) <=> field \in Malformed(d)
<1>. DEFINE candidate == DraftToPolicy(d)
<1>1. /\ field \in {"minHistoryDays", "minTvlAssets", "returnWindowDays", "minObservedReturnBps",
                    "owner", "minWithdrawableAssets"}
      /\ field # "owner" => d[field] \in [value : Int \cup {Null}, plain : BOOLEAN]
  BY DraftAssumption
<1>2. ASSUME NEW text \in [value : Int \cup {Null}, plain : BOOLEAN]
      PROVE  /\ BaseUnits(Text(text)) <=> text.plain
             /\ SafeInteger(NumberOrRaw(text))
                  <=> text.value # Null /\ Magnitude(text.value) <= MaxSafeInteger
             /\ PositiveInteger(NumberOrRaw(text))
                  <=> text.value # Null /\ text.value \in 1..MaxSafeInteger
  <2>1. BaseUnits(Text(text)) <=> text.plain
    BY DEF BaseUnits, Text
  <2>2. CASE text.value = Null
    BY <2>1, <2>2 DEF SafeInteger, PositiveInteger, NumberOrRaw, Text
  <2>3. CASE text.value # Null
    <3>1. text.value \in Int /\ MaxSafeInteger \in Nat
      BY <2>3, SafeAssumption
    <3>. QED
      BY <2>1, <2>3, <3>1 DEF SafeInteger, PositiveInteger, NumberOrRaw, Magnitude, Sign
  <2>. QED
    BY <2>1, <2>2, <2>3
<1>3. CASE field = "minHistoryDays"
  <2>1. PathFor(field) \in Issues(candidate) <=> ~PositiveInteger(NumberOrRaw(d.minHistoryDays))
    BY <1>3 DEF PathFor, Issues, DraftToPolicy
  <2>2. field \in Malformed(d) <=> ~(d[field].value # Null /\ d[field].value \in 1..MaxSafeInteger)
    BY <1>3 DEF Malformed
  <2>. QED
    BY <1>1, <1>2, <1>3, <2>1, <2>2
<1>4. CASE field = "returnWindowDays"
  <2>1. PathFor(field) \in Issues(candidate) <=> ~PositiveInteger(NumberOrRaw(d.returnWindowDays))
    BY <1>4 DEF PathFor, Issues, DraftToPolicy
  <2>2. field \in Malformed(d) <=> ~(d[field].value # Null /\ d[field].value \in 1..MaxSafeInteger)
    BY <1>4 DEF Malformed
  <2>. QED
    BY <1>1, <1>2, <1>4, <2>1, <2>2
<1>5. CASE field = "minObservedReturnBps"
  <2>1. PathFor(field) \in Issues(candidate) <=> ~SafeInteger(NumberOrRaw(d.minObservedReturnBps))
    BY <1>5 DEF PathFor, Issues, DraftToPolicy
  <2>2. field \in Malformed(d) <=> d[field].value = Null \/ Magnitude(d[field].value) > MaxSafeInteger
    BY <1>5 DEF Malformed
  <2>3. d[field].value # Null => Magnitude(d[field].value) \in Int
    BY <1>1, <1>5 DEF Magnitude, Sign
  <2>. QED
    BY <1>1, <1>2, <1>5, <2>1, <2>2, <2>3, SafeAssumption
<1>6. CASE field = "minTvlAssets"
  <2>1. PathFor(field) \in Issues(candidate) <=> ~BaseUnits(Text(d.minTvlAssets))
    BY <1>6 DEF PathFor, Issues, DraftToPolicy
  <2>2. field \in Malformed(d) <=> ~d[field].plain
    BY <1>6 DEF Malformed
  <2>. QED
    BY <1>1, <1>2, <1>6, <2>1, <2>2
<1>7. CASE field = "minWithdrawableAssets"
  <2>1. PathFor(field) \in Issues(candidate) <=> ~BaseUnits(Text(d.minWithdrawableAssets))
    BY <1>7 DEF PathFor, Issues, DraftToPolicy
  <2>2. field \in Malformed(d) <=> ~d[field].plain
    BY <1>7 DEF Malformed
  <2>. QED
    BY <1>1, <1>2, <1>7, <2>1, <2>2
<1>8. CASE field = "owner"
  <2>1. PathFor(field) \in Issues(candidate) <=> d.owner = Null
    BY <1>8 DEF PathFor, Issues, DraftToPolicy
  <2>2. field \in Malformed(d) <=> d.owner = Null
    BY <1>8 DEF Malformed
  <2>. QED
    BY <2>1, <2>2
<1>. QED
  BY <1>1, <1>3, <1>4, <1>5, <1>6, <1>7, <1>8

\* Every issue has its field, so that a draft with nothing wrong has none.
LEMMA IssuesAreMalformed ==
  ASSUME NEW d \in Drafts
  PROVE  /\ \A c \in Drafts : Marked(c, Issues(DraftToPolicy(d))) = Malformed(d)
         /\ \A c \in Drafts : Marked(c, {}) = {}
         /\ Issues(DraftToPolicy(d)) = {} <=> Malformed(d) = {}
<1>. DEFINE fields == {"minHistoryDays", "minTvlAssets", "returnWindowDays",
                       "minObservedReturnBps", "owner", "minWithdrawableAssets"}
<1>1. \A c \in Drafts : DOMAIN c = fields
  BY DraftAssumption
<1>2. \A field \in fields : PathFor(field) \in Issues(DraftToPolicy(d)) <=> field \in Malformed(d)
  BY <1>1, IssuesAreOfFields
<1>3. Malformed(d) \subseteq fields
  BY DEF Malformed
<1>4. \A path \in Issues(DraftToPolicy(d)) : \E field \in fields : path = PathFor(field)
  <2>1. /\ PathFor("minHistoryDays") = "minHistoryDays"
        /\ PathFor("minTvlAssets") = "minTvlAssets"
        /\ PathFor("returnWindowDays") = "minObservedReturnBps.windowDays"
        /\ PathFor("minObservedReturnBps") = "minObservedReturnBps.value"
        /\ PathFor("owner") = "minWithdrawableAssets.owner"
        /\ PathFor("minWithdrawableAssets") = "minWithdrawableAssets.value"
    BY DEF PathFor
  <2>2. \A path \in Issues(DraftToPolicy(d)) :
          path \in {"minHistoryDays", "minTvlAssets", "minObservedReturnBps.windowDays",
                    "minObservedReturnBps.value", "minWithdrawableAssets.owner",
                    "minWithdrawableAssets.value"}
    BY DEF Issues
  <2>. QED
    BY <2>1, <2>2
<1>. HIDE DEF fields
<1>5. ASSUME NEW c \in Drafts PROVE Marked(c, Issues(DraftToPolicy(d))) = Malformed(d)
  BY <1>1, <1>2, <1>3 DEF Marked
<1>6. \A c \in Drafts : Marked(c, {}) = {}
  BY DEF Marked
<1>7. Issues(DraftToPolicy(d)) = {} <=> Malformed(d) = {}
  BY <1>2, <1>3, <1>4
<1>. QED
  BY <1>5, <1>6, <1>7

\* A return that was observed is an integer of the sign of what it was observed of.
LEMMA ReturnsAreSigned ==
  ASSUME NullIsApart, NEW v \in Vaults, NEW w \in Observed(v)
  PROVE  SignedReturn(EvidenceIn(v, w))
<1>. DEFINE start == Worlds[v][w].start
            end == Worlds[v][w].end
            draft0 == EvidenceIn(v, w)
            incompatible == CheckCompatibility(start, end)
            from == IF start = Null THEN Null ELSE start.value
<1>. SUFFICES ASSUME draft0.bps # Null
              PROVE  /\ draft0.id.start # Null /\ draft0.bps \in Int
                     /\ draft0.bps < 0 <=> draft0.id.end.value < draft0.id.start.value
  BY DEF SignedReturn
<1>1. /\ draft0.bps = IF incompatible = {} THEN ObserveShareValue(from, end.value).bps ELSE Null
      /\ draft0.id.start = SerialiseSnapshot(start)
      /\ draft0.id.end = SerialiseSnapshot(end)
  BY DEF EvidenceIn, BuildEvidence
<1>2. draft0.bps = ObserveShareValue(from, end.value).bps
  BY <1>1
<1>3. end.value # Null /\ from # Null /\ from # 0
  BY <1>2 DEF ObserveShareValue
<1>4. start # Null /\ from = start.value
  BY <1>3
<1>5. start.value \in Nat \ {0} /\ end.value \in Nat /\ end # Null
  BY <1>3, <1>4, WorldAssumption DEF Observed
<1>6. /\ draft0.bps \in Int
      /\ draft0.bps >= 0 <=> BasisPointsScale * (end.value - start.value) >= 0 * start.value
  <2>1. \A first \in Nat \ {0}, last \in Nat :
          /\ ObserveShareValue(first, last).bps \in Int
          /\ ObserveShareValue(first, last).bps >= 0
               <=> BasisPointsScale * (last - first) >= 0 * first
    BY BasisPointsAreExact
  <2>. HIDE DEF draft0, start, end, from
  <2>. QED
    BY <1>2, <1>4, <1>5, <2>1
<1>7. draft0.bps < 0 <=> end.value < start.value
  <2>1. BasisPointsScale * (end.value - start.value) >= 0 <=> end.value - start.value >= 0
    <3>. DEFINE gain == end.value - start.value
    <3>1. gain \in Int /\ BasisPointsScale \in Nat \ {0}
      BY <1>5, ScaleAssumption
    <3>. HIDE DEF gain
    <3>2. gain >= 0 => BasisPointsScale * gain >= 0
      BY <3>1
    <3>3. gain < 0 => BasisPointsScale * gain < 0
      BY <3>1
    <3>4. BasisPointsScale * gain \in Int
      BY <3>1
    <3>5. BasisPointsScale * gain >= 0 <=> gain >= 0
      BY <3>1, <3>2, <3>3, <3>4
    <3>. QED
      BY <3>5 DEF gain
  <2>. HIDE DEF draft0, start, end
  <2>. QED
    BY <1>5, <1>6, <2>1
<1>8. /\ SerialiseSnapshot(start) # Null /\ SerialiseSnapshot(start).value = start.value
      /\ SerialiseSnapshot(end).value = end.value
  BY <1>4, <1>5 DEF NullIsApart, SerialiseSnapshot
<1>. QED
  BY <1>1, <1>6, <1>7, <1>8

\* A row that names its evidence shows the return of it, with its sign, or none.
LEMMA CellsAreSigned ==
  ASSUME NullIsApart, NEW v \in Vaults, NEW d, NEW outcome \in Replies(d, v),
         outcome.by # Null, ReturnCell(outcome) # Null
  PROVE  /\ outcome.by.id.start # Null
         /\ ReturnCell(outcome).negative = (outcome.by.id.end.value < outcome.by.id.start.value)
<1>0. outcome # Unavailable /\ outcome # [NoVerdict EXCEPT !.issues = Issues(DraftToPolicy(d))]
  <2>1. /\ Unavailable.by = Null
        /\ [NoVerdict EXCEPT !.issues = Issues(DraftToPolicy(d))].by = Null
    BY ReplyFields
  <2>. QED
    BY <2>1
<1>w. PICK w \in Observed(v) : \E time : outcome = Verdict(d, v, w, time)
  BY <1>0, ReplyIs
<1>1. PICK time : outcome = Verdict(d, v, w, time)
  BY <1>w
<1>. DEFINE policy == PolicyOf(DraftToPolicy(d))
            evidence0 == EvidenceIn(v, w)
            rule == MinimumObservedReturn(policy, evidence0)
<1>2. /\ outcome.by.id = evidence0.id
      /\ outcome.rules["minimumObservedReturn"] = rule
  <2>1. /\ Verdict(d, v, w, time).by = [id |-> evidence0.id, deployed |-> time]
        /\ Verdict(d, v, w, time).rules = VerdictIn(policy, v, w, time).rules
    BY ReplyFields
  <2>2. VerdictIn(policy, v, w, time).rules["minimumObservedReturn"] = rule
    BY VerdictIs
  <2>. HIDE DEF evidence0, rule, policy
  <2>. QED
    BY <1>1, <2>1, <2>2
<1>3. ReturnCell(outcome) = FormatBasisPoints(rule.observed) /\ rule.observed # Null
  BY <1>2 DEF ReturnCell
<1>4. rule.observed = evidence0.bps
  <2>1. \A x, reasons : Pass(x).observed = x /\ Fail(x, reasons).observed = x
                        /\ Unknown(x, reasons).observed = x
    BY DEF Pass, Fail, Unknown
  <2>2. \A x, threshold : AtLeast(x, threshold).observed = x
    BY <2>1 DEF AtLeast
  <2>. HIDE DEF evidence0, policy
  <2>. QED
    BY <2>1, <2>2 DEF MinimumObservedReturn, rule
<1>5. SignedReturn(evidence0)
  BY ReturnsAreSigned
<1>. HIDE DEF evidence0, rule
<1>6. FormatBasisPoints(rule.observed).negative = (rule.observed < 0)
  BY DEF FormatBasisPoints
<1>7. /\ evidence0.id.start # Null
      /\ evidence0.bps < 0 <=> evidence0.id.end.value < evidence0.id.start.value
  BY <1>3, <1>4, <1>5 DEF SignedReturn
<1>8. (rule.observed < 0) = (outcome.by.id.end.value < outcome.by.id.start.value)
  BY <1>2, <1>4, <1>7
<1>. QED
  BY <1>2, <1>3, <1>6, <1>7, <1>8

\* The four parts, of any table that answers a question of the page.
LEMMA TablesAreFaithful ==
  ASSUME NullIsApart, TableInv, outcomes # Null
  PROVE  OneRowPerVault /\ IssuesAreMarked /\ VerdictsRankFirst /\ LossesAreShown
<1>. DEFINE answers == outcomes.answers
            rows == CompareOutcomes(answers)
            d == outcomes.draft
<1>1. /\ Asked(outcomes) /\ DOMAIN answers = listed /\ d \in Drafts /\ draft \in Drafts
      /\ IsFiniteSet(listed)
      /\ \A v \in listed : v \in Vaults /\ answers[v] \in Replies(d, v)
  BY DEF TableInv, Asked
<1>2. /\ Cardinality(listed) \in Nat
      /\ rows \in [1..Cardinality(listed) -> listed]
      /\ \A v \in listed : \E i \in DOMAIN rows : rows[i] = v
      /\ \A i, j \in DOMAIN rows : i < j => ~ComesBefore(answers, rows[j], rows[i])
  BY <1>1, RowsAreSorted, FS_CardinalityType
<1>. HIDE DEF rows, answers, d
<1>3. OneRowPerVault
  <2>1. rows \in Seq(listed)
    BY <1>2, SeqDef
  <2>2. Len(rows) = Cardinality(listed)
    <3>1. Len(rows) \in Nat /\ DOMAIN rows = 1..Len(rows)
      BY <2>1, LenProperties
    <3>2. 1..Len(rows) = 1..Cardinality(listed)
      BY <1>2, <3>1
    <3>. QED
      BY <1>2, <3>1, <3>2
  <2>3. ToSet(rows) = listed
    BY <1>2 DEF ToSet
  <2>. QED
    BY <2>2, <2>3 DEF OneRowPerVault, rows, answers
<1>4. IssuesAreMarked
  <2>. DEFINE issues == Issues(DraftToPolicy(d))
              wrong == Malformed(d)
  <2>1. /\ Marked(draft, issues) = wrong /\ Marked(draft, {}) = {}
        /\ issues = {} <=> wrong = {}
    BY <1>1, IssuesAreMalformed
  <2>. HIDE DEF issues, wrong
  <2>2. ASSUME NEW v \in listed
        PROVE  /\ answers[v].issues \subseteq issues
               /\ ~answers[v].unavailable => /\ answers[v].issues = issues
                                             /\ (answers[v].status # Null) = (wrong = {})
    <3>1. CASE answers[v] = Unavailable
      BY <3>1, ReplyFields
    <3>2. CASE issues # {} /\ answers[v] = [NoVerdict EXCEPT !.issues = issues]
      BY <2>1, <3>2, ReplyFields
    <3>3. ASSUME NEW w, NEW time, issues = {}, answers[v] = Verdict(d, v, w, time)
          PROVE  /\ answers[v].issues = issues /\ answers[v].status # Null /\ wrong = {}
      BY <2>1, <3>3, ReplyFields, VerdictIs, VerdictAssumption
    <3>. QED
      BY <1>1, <3>1, <3>2, <3>3, ReplyIs DEF issues
  <2>3. ASSUME NEW v \in listed, ~answers[v].unavailable
        PROVE  UNION {answers[u].issues : u \in DOMAIN answers} = issues
    BY <1>1, <2>2, <2>3
  <2>4. ASSUME NEW v \in listed, ~answers[v].unavailable PROVE Marked(draft, PanelIssues) = wrong
    BY <2>1, <2>3, <2>4 DEF PanelIssues, answers
  <2>. QED
    BY <2>2, <2>4 DEF IssuesAreMarked, answers, d, wrong
<1>5. VerdictsRankFirst
  <2>. DEFINE order == <<"PASS", "FAIL", "UNKNOWN", Null>>
              Place(v) == CHOOSE i \in 1..4 : order[i] = answers[v].status
  <2>1. ASSUME NEW v \in listed PROVE Place(v) = Rank(answers[v]) + 1
    <3>1. answers[v].status \in {"PASS", "FAIL", "UNKNOWN", Null}
      BY <1>1, RepliesShow
    <3>2. /\ \A i \in 1..4 : i = 1 \/ i = 2 \/ i = 3 \/ i = 4
          /\ order[1] = "PASS" /\ order[2] = "FAIL" /\ order[3] = "UNKNOWN" /\ order[4] = Null
      OBVIOUS
    <3>. QED
      BY <3>1, <3>2, VerdictAssumption DEF Rank
  <2>2. ASSUME NEW i \in DOMAIN rows, NEW j \in DOMAIN rows, i < j
        PROVE  Rank(answers[rows[i]]) <= Rank(answers[rows[j]])
    <3>1. rows[i] \in listed /\ rows[j] \in listed
      BY <1>2
    <3>2. Rank(answers[rows[i]]) \in Int /\ Rank(answers[rows[j]]) \in Int
      BY <1>1, <3>1, RepliesShow
    <3>3. ~ComesBefore(answers, rows[j], rows[i])
      BY <1>2, <2>2
    <3>. QED
      BY <3>2, <3>3 DEF ComesBefore
  <2>3. ASSUME NEW i \in DOMAIN rows, NEW j \in DOMAIN rows, i < j
        PROVE  Place(rows[i]) <= Place(rows[j])
    <3>1. rows[i] \in listed /\ rows[j] \in listed
      BY <1>2
    <3>2. Rank(answers[rows[i]]) \in Int /\ Rank(answers[rows[j]]) \in Int
      BY <1>1, <3>1, RepliesShow
    <3>. HIDE DEF Place
    <3>. QED
      BY <2>1, <2>2, <2>3, <3>1, <3>2
  <2>. QED
    BY <2>3 DEF VerdictsRankFirst, rows, answers
<1>6. LossesAreShown
  BY <1>1, CellsAreSigned DEF LossesAreShown, answers
<1>. QED
  BY <1>3, <1>4, <1>5, <1>6

LEMMA TableStays ==
  ASSUME TableInv, MovesInv', draft' \in Drafts, listed' = listed,
         evaluating' \in {Null, evaluating}, outcomes' \in {Null, outcomes}
  PROVE  TableInv'
BY DEF TableInv, Asked

\* Only promoting moves the world.
LEMMA SpendKeepsMoves ==
  ASSUME MovesInv, NEW what \in {"visits", "edits", "asks", "migrations", "releases", "probings"},
         Spend(what), world' = world, bounds' = bounds
  PROVE  MovesInv'
BY DEF MovesInv, Spend

LEMMA TableStep == NullIsApart /\ TableInv /\ [Next]_vars => TableInv'
<1>. SUFFICES ASSUME NullIsApart, TableInv, [Next]_vars PROVE TableInv'
  OBVIOUS
<1>0. MovesInv /\ draft \in Drafts /\ Balanced \in Drafts
  BY SearchAssumption DEF TableInv
<1>1. ASSUME UNCHANGED <<bounds, used, world>> PROVE MovesInv'
  BY <1>0, <1>1 DEF MovesInv
<1>2. CASE Evaluate
  <2>. DEFINE e == [ask |-> used.asks + 1, draft |-> draft, answers |-> <<>>]
  <2>1. MovesInv'
    BY <1>0, <1>2, SpendKeepsMoves DEF Evaluate
  <2>2. IsEvaluation(e) /\ e.draft = draft /\ DOMAIN e.answers = {}
    BY DEF IsEvaluation, IsRecord
  <2>. HIDE DEF e
  <2>3. evaluating' = e /\ UNCHANGED <<draft, listed, outcomes>>
    BY <1>2 DEF Evaluate, e
  <2>4. Asked(evaluating)'
    BY <1>0, <2>2, <2>3, FS_EmptySet DEF Asked
  <2>5. outcomes # Null => Asked(outcomes)'
    BY <2>3 DEF TableInv, Asked
  <2>. QED
    BY <1>0, <2>1, <2>3, <2>4, <2>5 DEF TableInv
<1>3. ASSUME NEW v \in Vaults, EvaluateVault(v) PROVE TableInv'
  <2>. DEFINE known == evaluating.answers
  <2>1. PICK outcome \in ApiEvaluate(DraftToPolicy(evaluating.draft), v) \cup {Unavailable} :
          evaluating' = [evaluating EXCEPT
                           !.answers = [u \in DOMAIN known \cup {v} |->
                                          IF u = v THEN outcome ELSE known[u]]]
    BY <1>3 DEF EvaluateVault
  <2>. DEFINE answers == [u \in DOMAIN known \cup {v} |-> IF u = v THEN outcome ELSE known[u]]
  <2>2. Asked(evaluating) /\ v \in listed
    BY <1>3 DEF EvaluateVault, TableInv
  <2>3. outcome \in Replies(evaluating.draft, v)
    BY <1>0, AnswersAreReplies
  <2>4. /\ DOMAIN answers = DOMAIN known \cup {v}
        /\ \A u \in DOMAIN answers : answers[u] \in Replies(evaluating.draft, u)
    BY <2>2, <2>3 DEF Asked
  <2>5. evaluating' = [evaluating EXCEPT !.answers = answers]
    BY <2>1
  <2>. HIDE DEF answers
  <2>6. /\ IsEvaluation(evaluating') /\ evaluating'.draft = evaluating.draft
        /\ evaluating'.answers = answers
    BY <2>2, <2>5, AnswersArrive DEF Asked
  <2>7. IsFiniteSet(DOMAIN answers)
    BY <2>2, <2>4, FS_AddElement DEF Asked
  <2>8. UNCHANGED <<draft, listed, outcomes, bounds, used, world>>
    BY <1>3 DEF EvaluateVault, boundVars
  <2>9. Asked(evaluating)'
    BY <2>2, <2>4, <2>6, <2>7, <2>8 DEF Asked
  <2>10. outcomes # Null => Asked(outcomes)'
    BY <2>8 DEF TableInv, Asked
  <2>. QED
    BY <1>1, <2>8, <2>9, <2>10 DEF TableInv
<1>4. CASE EvaluationAnswered
  <2>1. /\ outcomes' = evaluating /\ evaluating' = Null /\ DOMAIN evaluating.answers = listed
        /\ Asked(evaluating) /\ UNCHANGED <<draft, listed, bounds, used, world>>
    BY <1>4 DEF EvaluationAnswered, boundVars, TableInv
  <2>2. Asked(outcomes)'
    BY <2>1 DEF Asked
  <2>. QED
    BY <1>1, <2>1, <2>2 DEF TableInv
<1>5. CASE EvaluationRefused \/ EvaluationLost
  BY <1>0, <1>1, <1>5, TableStays DEF EvaluationRefused, EvaluationLost, boundVars
<1>6. CASE Visit
  <2>1. MovesInv'
    BY <1>0, <1>6, SpendKeepsMoves DEF Visit
  <2>. QED
    BY <1>0, <1>6, <2>1 DEF Visit, EmptyTable, TableInv
<1>7. CASE Leave \/ ReportOpened
  BY <1>0, <1>1, <1>7 DEF Leave, ReportOpened, EmptyTable, TableInv, boundVars
<1>8. CASE Edit
  <2>1. MovesInv'
    BY <1>0, <1>8, SpendKeepsMoves DEF Edit
  <2>. QED
    BY <1>8, <2>1, TableStays DEF Edit, tableVars
<1>9. CASE FileReport \/ InspectionAnswered \/ InspectionFailed \/ \E v \in Vaults : Inspect(v)
  BY <1>0, <1>1, <1>9, TableStays
     DEF FileReport, InspectionAnswered, InspectionFailed, Inspect, boundVars
<1>10. CASE Promote
  <2>1. MovesInv'
    <3>1. bounds.moves \in Nat
      BY <1>0, SearchAssumption DEF MovesInv
    <3>. QED
      BY <1>0, <1>10, <3>1 DEF Promote, Spend, MovesInv
  <2>. QED
    BY <1>0, <1>10, <2>1, TableStays DEF Promote, pageVars, tableVars
<1>11. CASE RunMigration \/ Curate
  <2>1. MovesInv'
    BY <1>0, <1>1, <1>11, SpendKeepsMoves DEF RunMigration, Curate
  <2>. QED
    BY <1>0, <1>11, <2>1, TableStays DEF RunMigration, Curate, pageVars, tableVars
<1>12. CASE UNCHANGED vars
  BY <1>0, <1>1, <1>12, TableStays DEF vars, pageVars, tableVars, boundVars
<1>. QED
  BY <1>2, <1>3, <1>4, <1>5, <1>6, <1>7, <1>8, <1>9, <1>10, <1>11, <1>12 DEF Next, UsePage

\* For any drafts, vaults and observations, and whatever of the fan-out failed: the table has
\* a row for every vault of the page, sorted by verdict; the panel marks what is wrong with
\* the draft that was asked about; and no loss is shown as anything else.
THEOREM TablesStayFaithful == NullIsApart => (Spec => []TableIsFaithful)
<1>. SUFFICES ASSUME NullIsApart PROVE Spec => []TableIsFaithful
  OBVIOUS
<1>1. Init => TableInv
  <2>. SUFFICES ASSUME Init PROVE TableInv
    OBVIOUS
  <2>1. bounds \in Scenarios /\ bounds \in [visits : Nat, edits : Nat, asks : Nat, moves : Nat,
                                            migrations : Nat, releases : Nat, probings : Nat]
    BY SearchAssumption DEF Init
  <2>2. MovesInv
    BY <2>1 DEF Init, MovesInv
  <2>. QED
    BY <2>2, SearchAssumption DEF Init, TableInv
<1>2. TableInv => TableIsFaithful
  BY TablesAreFaithful DEF TableIsFaithful
<1>3. TableInv /\ [Next]_vars => TableInv'
  BY TableStep
<1>. QED
  BY <1>1, <1>2, <1>3, PTL DEF Spec

=============================================================================
