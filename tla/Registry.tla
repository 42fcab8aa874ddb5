------------------------------ MODULE Registry ------------------------------
(****************************************************************************)
(* The curated registry: the runner that applies the migrations, the        *)
(* manifest, the gate that fills it and the tool that probes it again, the  *)
(* seeding of every run of the worker, and what the API reads of it.        *)
(* packages/db migrate and vaults, packages/test-vaults, apps/api           *)
(* registry-service.                                                        *)
(*                                                                          *)
(* Migrators are runs of the migration runner, each cut at its statements;  *)
(* a migration is one of its transactions.  A release is a manifest with    *)
(* the seeds compiled beside it; a deployed release seeds on every start.   *)
(****************************************************************************)
EXTENDS CapabilityProbes, Sequences, SequencesExt

CONSTANTS
  Migrators,  \* runs of the migration runner
  Migrations, \* the migration files, in order
  Rewriting,  \* those that drop and create the report tables: 0002 in the code
  Referring,  \* those whose tables have a key into them: 0004 in the code
  Releases,   \* the manifests, as they are released one after the other
  NetworkId,  \* the chain of the network seed
  Chain,      \* for each vault and probed block, the vault then
  Throttled,  \* bound: the sets of batches a probing may reach
  Served      \* bound: for each release, the sets of calls the public endpoint may answer the gate

\* A file has a name of its own; a vault is a token, whose balances answer: what a probe may
\* miss of them is the call.
ASSUME RegistryAssumption ==
  /\ Len(Migrations) \in Nat \ {0}
  /\ DOMAIN Migrations = 1..Len(Migrations)
  /\ IsInjective(Migrations)
  /\ Len(Releases) \in Nat \ {0}
  /\ "totalAssets" \in PlainMethods
  /\ PlainMethods \cap CapacityMethods = {}
  /\ Reverts \notin Int
  /\ \A i \in 1..Len(Releases) : DOMAIN Releases[i].vaults \subseteq DOMAIN Chain
  /\ \A v \in DOMAIN Chain, b \in ProbeBlocks : Chain[v][b].shares \in Nat

VARIABLES
  tables,    \* the migrations whose tables exist
  recorded,  \* schema_migration
  run,       \* where each run of the migration runner stands
  reports,   \* the rows of evidence_report
  release,   \* the release that is deployed, 0 before the first
  evidence,  \* the onboarding evidence in the manifest, by vault
  vaultRows, \* vault: its columns, and the release that refreshed them
  profiles   \* vault_capability

migrationVars == <<tables, recorded, run>>
curatedVars == <<release, evidence, vaultRows, profiles>>

Manifest == Releases[release]
Curated == DOMAIN Manifest.vaults

NotRunning == [pc |-> "idle", at |-> 1, known |-> {}]

RegistryInit ==
  /\ tables = {}
  /\ recorded = {}
  /\ run = [m \in Migrators |-> NotRunning]
  /\ reports = {}
  /\ release = 0
  /\ evidence = <<>>
  /\ vaultRows = <<>>
  /\ profiles = {}

------------------------------------------------------------------------------
(* Migrations                                                               *)

Step(m, place) == run' = [run EXCEPT ![m].pc = place]

\* The records are read once; the files are taken in order.
ReadRecorded(m) ==
  /\ run[m].pc = "idle"
  /\ run' = [run EXCEPT ![m] = [pc |-> "next", at |-> 1, known |-> recorded]]
  /\ UNCHANGED <<tables, recorded, reports, curatedVars>>

FileOf(m) == Migrations[run[m].at]

\* Past the last file the run ends; a file that was recorded is skipped.
SkipFile(m) ==
  /\ run[m].pc = "next"
  /\ run[m].at > Len(Migrations) \/ (run[m].at <= Len(Migrations) /\ FileOf(m) \in run[m].known)
  /\ run' = IF run[m].at > Len(Migrations) THEN [run EXCEPT ![m] = NotRunning]
            ELSE [run EXCEPT ![m].at = @ + 1]
  /\ UNCHANGED <<tables, recorded, reports, curatedVars>>

\* Mutant: a file that fails is logged, and the next one taken.
GuardFileLeniently(m) ==
  /\ run[m].pc = "next"
  /\ run[m].at <= Len(Migrations)
  /\ FileOf(m) \notin run[m].known
  /\ IF FileOf(m) \in Rewriting /\ reports # {} THEN run' = [run EXCEPT ![m].at = @ + 1]
     ELSE Step(m, "apply")
  /\ UNCHANGED <<tables, recorded, reports, curatedVars>>

\* The statements before the tables are touched: a file that rewrites the report
\* tables looks for rows in them first.
GuardFile(m) ==
  /\ run[m].pc = "next"
  /\ run[m].at <= Len(Migrations)
  /\ FileOf(m) \notin run[m].known
  /\ Step(m, IF FileOf(m) \in Rewriting /\ reports # {} THEN "failed" ELSE "apply")
  /\ UNCHANGED <<tables, recorded, reports, curatedVars>>

\* Everything else IF NOT EXISTS: applying a file again changes nothing more.  The drop
\* waits for the inserts under way, and fails once another table refers to the reports.
ApplyFile(m) ==
  /\ run[m].pc = "apply"
  /\ IF FileOf(m) \in Rewriting /\ tables \cap Referring # {}
     THEN /\ Step(m, "failed")
          /\ UNCHANGED <<tables, reports>>
     ELSE /\ tables' = tables \cup {FileOf(m)}
          /\ reports' = IF FileOf(m) \in Rewriting THEN {} ELSE reports
          /\ Step(m, "record")
  /\ UNCHANGED <<recorded, curatedVars>>

\* The name is a primary key: a second record fails, and the run.
RecordFile(m) ==
  /\ run[m].pc = "record"
  /\ IF FileOf(m) \in recorded
     THEN /\ Step(m, "failed")
          /\ UNCHANGED recorded
     ELSE /\ recorded' = recorded \cup {FileOf(m)}
          /\ run' = [run EXCEPT ![m].pc = "next", ![m].at = @ + 1]
  /\ UNCHANGED <<tables, reports, curatedVars>>

\* A run that failed or died is started again by hand.
EndRun(m) ==
  /\ run[m].pc # "idle"
  /\ run' = [run EXCEPT ![m] = NotRunning]
  /\ UNCHANGED <<tables, recorded, reports, curatedVars>>

\* The tables a migration creates are there for the API and the worker.
Exists(file) == file \in tables

------------------------------------------------------------------------------
(* The manifest                                                             *)

\* verify-vault refuses a vault whose total cannot be read at the historical block.
Covered(v) == Chain[v]["historical"].plain["totalAssets"] # Reverts

\* Its probes: each method and the balance is a call of its own at the public endpoint, and
\* whatever fails is a method that reverted, or a balance of nothing.
GateEvidence(i, v, answered) ==
  [verified |-> <<i, 0>>, provider |-> "public", probes |-> ProbeVault(Chain[v], answered)]

\* A vault that is new in a release went through the gate, as one whose window, adapter or
\* implementation is another than before did again.
Gated(i) ==
  LET now == Releases[i].vaults
  IN  {v \in DOMAIN now :
         \/ v \notin DOMAIN evidence
         \/ \E column \in {"from", "adapter", "implementation"} :
              now[v][column] # Manifest.vaults[v][column]}

\* vaultManifestSchema: a release without a vault does not parse.
Deploy ==
  /\ release < Len(Releases)
  /\ DOMAIN Releases[release + 1].vaults # {}
  /\ \A v \in Gated(release + 1) : Covered(v)
  /\ release' = release + 1
  /\ \E answered \in [Gated(release + 1) -> [ProbeBlocks -> Served[release + 1]]] :
       evidence' = [v \in DOMAIN Releases[release + 1].vaults |->
                     IF v \in Gated(release + 1) THEN GateEvidence(release + 1, v, answered[v])
                     ELSE evidence[v]]
  /\ UNCHANGED <<migrationVars, reports, vaultRows, profiles>>

\* The tool stamps what it replaces, with its own provider.
ReprobedEvidence(v, reached) ==
  [verified |-> <<release, evidence[v].verified[2] + 1>>, provider |-> "keyed",
   probes |-> ProbeVault(Chain[v], [b \in ProbeBlocks |-> AnsweredBy(reached[b])])]

\* reprobe-manifest --write, and a build of it.  Every method it knows is probed again
\* at the recorded blocks; a vault whose probe owner is not recovered is left alone.
Reprobe ==
  /\ release > 0
  /\ \E found \in SUBSET Curated : \E reached \in [found -> [ProbeBlocks -> Throttled]] :
       evidence' = [v \in Curated |-> IF v \in found THEN ReprobedEvidence(v, reached[v])
                                      ELSE evidence[v]]
  /\ UNCHANGED <<migrationVars, reports, release, vaultRows, profiles>>

------------------------------------------------------------------------------
(* Seeding                                                                  *)

\* vaultCapabilityId: what a profile's id is derived from.
ProfileId(p) == <<p.vault, p.adapter, p.from>>

\* The profile a manifest's entry opens.
ProfileOf(v) ==
  LET entry == Manifest.vaults[v]
  IN  [vault |-> v, adapter |-> entry.adapter, from |-> entry.from, to |-> "open",
       implementation |-> entry.implementation, evidence |-> evidence[v]]

Seeded == {ProfileId(p) : p \in profiles}
Opened == {p \in {ProfileOf(v) : v \in Curated} : ProfileId(p) \notin Seeded}

\* Another chain, a protocol without a seed, an asset that is not canonical.
MisdescribedBy(manifest) ==
  \/ manifest.chainId # NetworkId
  \/ \E v \in DOMAIN manifest.vaults :
       \/ manifest.vaults[v].protocol \notin manifest.protocols
       \/ manifest.vaults[v].asset \notin manifest.assets

\* vault_capability_open_key: a second open profile of a vault.
OpensTwo == \E p \in Opened, q \in profiles : q.vault = p.vault /\ q.to = "open"

\* A vault as it is inserted.
VaultRow(v) ==
  LET entry == Manifest.vaults[v]
  IN  [release |-> release, protocol |-> entry.protocol, asset |-> entry.asset,
       status |-> entry.status, verified |-> evidence[v].verified]

\* A vault that is there keeps its protocol and its asset, and gets the rest; one that
\* left the manifest stays as it was.
UpsertVaults ==
  vaultRows' = [v \in Curated \cup DOMAIN vaultRows |->
                 IF v \notin Curated THEN vaultRows[v]
                 ELSE IF v \in DOMAIN vaultRows
                 THEN [VaultRow(v) EXCEPT !.protocol = vaultRows[v].protocol,
                                          !.asset = vaultRows[v].asset]
                 ELSE VaultRow(v)]

\* Mutant: the rows of the vaults are committed before the profiles fail.
SeedPiecemeal ==
  /\ release > 0
  /\ Exists(Migrations[1])
  /\ ~MisdescribedBy(Manifest)
  /\ UpsertVaults
  /\ profiles' = IF OpensTwo THEN profiles ELSE profiles \cup Opened
  /\ UNCHANGED <<migrationVars, reports, release, evidence>>

\* seedRegistry, in the transaction of the worker's start: a profile that is there is
\* not touched, and whatever fails leaves nothing.
Seed ==
  /\ release > 0
  /\ Exists(Migrations[1])
  /\ ~MisdescribedBy(Manifest)
  /\ ~OpensTwo
  /\ UpsertVaults
  /\ profiles' = profiles \cup Opened
  /\ UNCHANGED <<migrationVars, reports, release, evidence>>

------------------------------------------------------------------------------
(* Reading                                                                  *)

OpenProfiles(v) == {p \in profiles : p.vault = v /\ p.to = "open"}

\* listVaultDetails: a left join with the open profiles.
ListVaultDetails ==
  UNION {{[vault |-> v, status |-> vaultRows[v].status, adapter |-> adapter] :
            adapter \in IF OpenProfiles(v) = {} THEN {"unresolved"}
                        ELSE {p.adapter : p \in OpenProfiles(v)}} : v \in DOMAIN vaultRows}

\* requireVault: listed or not, whatever its status.
FindVaultDetail(v) == {row \in ListVaultDetails : row.vault = v}

ResolveCapabilityAt(v, block) ==
  {p \in profiles : /\ p.vault = v
                    /\ p.from <= block
                    /\ p.to = "open" \/ block < p.to}

=============================================================================
