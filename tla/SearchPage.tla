----------------------------- MODULE SearchPage -----------------------------
(****************************************************************************)
(* The comparison page over the registry: one visitor who lists the vaults, *)
(* evaluates a draft over all of them and inspects a row, which files a     *)
(* report.  apps/web SearchSurface, app/api/evaluate and app/api/reports,   *)
(* src/api/client, and the routes of apps/api behind them.                  *)
(*                                                                          *)
(* Filing is one step here: ReportFiling takes it apart.  What was promoted *)
(* is one of a few worlds, each with the window of every vault.             *)
(****************************************************************************)
EXTENDS PolicyDraft, Registry

CONSTANTS
  Vaults,     \* bound: the vaults a manifest may list
  WindowDays, \* WINDOW_DAYS
  MaxBatch,   \* the most vaults one evaluation takes: 20 in the code
  Drafts,     \* bound: the drafts a visitor makes
  Balanced,   \* the preset a page starts with
  Worlds,     \* for each vault and world, [start, end, flows], or Null
  DeployedAt, \* for each vault its deployment time
  AssetKey,   \* for each vault the registry's key of its asset
  NameRank,   \* for each vault its place by name
  Scenarios   \* bounds: how much of what happens in one behaviour

ASSUME SearchAssumption ==
  /\ MaxBatch \in Nat \ {0}
  /\ WindowDays \in Nat \ {0}
  /\ Balanced \in Drafts
  /\ Null \notin {"evaluation", "inspection"}
  /\ Scenarios \subseteq [visits : Nat, edits : Nat, asks : Nat, moves : Nat,
                           migrations : Nat, releases : Nat, probings : Nat]

\* Six texts, of which the owner's is an address.
ASSUME DraftAssumption ==
  \A d \in Drafts :
    /\ DOMAIN d = {"minHistoryDays", "minTvlAssets", "returnWindowDays", "minObservedReturnBps",
                   "owner", "minWithdrawableAssets"}
    /\ \A f \in DOMAIN d \ {"owner"} : d[f] \in [value : Int \cup {Null}, plain : BOOLEAN]

\* A world for every move, in which a share's value is unsigned.
ASSUME WorldAssumption ==
  \A v \in Vaults :
    /\ NameRank[v] \in Int
    /\ \A bound \in Scenarios : 1..(bound.moves + 1) \subseteq DOMAIN Worlds[v]
    /\ \A w \in DOMAIN Worlds[v] :
         LET window == Worlds[v][w]
         IN  window # Null =>
               /\ window.end # Null
               /\ \A s \in {window.start, window.end} \ {Null} : s.value \in Nat \cup {Null}

VARIABLES
  bounds,     \* the scenario
  used,       \* what of it has been used up
  world,      \* what is promoted
  listed,     \* the vaults the page got, or Null when there is no page
  draft,      \* the draft in the panel
  outcomes,   \* the table: the answers with the draft they were asked with, or Null
  evaluating, \* the evaluation under way, or Null
  inspecting, \* the inspection under way, or Null
  opening,    \* the inspection whose report the page is on its way to, or Null
  failure,    \* which request's failure the page shows, or Null
  opened      \* the inspection whose report was opened last, or Null

boundVars == <<bounds, used>>
tableVars == <<outcomes, evaluating, inspecting, opening, failure>>
pageVars == <<listed, draft, tableVars>>
registryVars == <<migrationVars, curatedVars>>
vars == <<boundVars, world, pageVars, opened, reports, registryVars>>

Spend(what) == used[what] < bounds[what] /\ used' = [used EXCEPT ![what] = @ + 1]

\* A database that was migrated and seeded before, of a manifest the gate filled.
Installed ==
  /\ tables = ToSet(Migrations)
  /\ recorded = ToSet(Migrations)
  /\ run = [m \in Migrators |-> NotRunning]
  /\ reports = {}
  /\ release = 1
  /\ \A v \in Curated : Covered(v)
  /\ \E answered \in [ProbeBlocks -> Served[1]] :
       evidence = [v \in Curated |-> GateEvidence(1, v, answered)]
  /\ vaultRows = [v \in Curated |-> VaultRow(v)]
  /\ profiles = {ProfileOf(v) : v \in Curated}

Init ==
  /\ bounds \in Scenarios
  /\ used = [what \in DOMAIN bounds |-> 0]
  /\ IF bounds.migrations = 0 THEN Installed ELSE RegistryInit
  /\ world = 1
  /\ listed = Null
  /\ draft = Balanced
  /\ outcomes = Null
  /\ evaluating = Null
  /\ inspecting = Null
  /\ opening = Null
  /\ failure = Null
  /\ opened = Null

------------------------------------------------------------------------------
(* What the API answers                                                     *)

EvidenceOf(v) ==
  LET window == Worlds[v][world]
  IN  IF window = Null THEN Null
      ELSE BuildEvidence(window.start, window.end, window.flows, WindowDays)

\* The provider resolves the deployment block, or cannot.
DeploymentTimes(v) == {DeployedAt[v], Null}

\* `by` is what the properties compare: the evidence, and what the provider said.
NoVerdict == [status |-> Null, rules |-> Null, issues |-> {}, unavailable |-> FALSE, by |-> Null]
Unavailable == [NoVerdict EXCEPT !.unavailable = TRUE]

Judge(candidate, v, time) ==
  EvaluatePolicy(PolicyOf(candidate), EvidenceOf(v), AssetKey[v], time, Null)

\* POST /v1/policies/evaluate: issues first, then the vault, then its evidence.
ApiEvaluate(candidate, v) ==
  CASE Issues(candidate) # {} -> {[NoVerdict EXCEPT !.issues = Issues(candidate)]}
    [] Issues(candidate) = {} /\ (FindVaultDetail(v) = {} \/ EvidenceOf(v) = Null) ->
         {Unavailable}
    [] OTHER ->
         {LET evaluation == Judge(candidate, v, time)
          IN  [NoVerdict EXCEPT !.status = evaluation.status, !.rules = evaluation.rules,
                                !.by = [id |-> EvidenceOf(v).id, deployed |-> time]] :
            time \in DeploymentTimes(v)}

\* POST /v1/reports makes what it is not refused: of a complete draft, once the tables
\* of reports are there.
Reportable(candidate, v) ==
  /\ Issues(candidate) = {}
  /\ FindVaultDetail(v) # {}
  /\ EvidenceOf(v) # Null
  /\ IsComplete(EvidenceOf(v))
  /\ \A file \in Rewriting : Exists(file)

\* Mutant: the report is judged for the owner of the policy, which the row was not.
NewReportsForOwner(candidate, v) ==
  {[vault |-> v, id |-> EvidenceOf(v).id, deployed |-> time, policy |-> PolicyOf(candidate),
    evaluation |-> EvaluatePolicy(PolicyOf(candidate), EvidenceOf(v), AssetKey[v], time,
                                  PolicyOf(candidate).owner)] : time \in DeploymentTimes(v)}

NewReports(candidate, v) ==
  {[vault |-> v, id |-> EvidenceOf(v).id, deployed |-> time, policy |-> PolicyOf(candidate),
    evaluation |-> Judge(candidate, v, time)] : time \in DeploymentTimes(v)}

\* The report stored under this evidence, or a new one, or none.
ReportsFor(candidate, v) ==
  IF ~Reportable(candidate, v) THEN {}
  ELSE LET stored == {report \in reports : report.vault = v /\ report.id = EvidenceOf(v).id}
       IN  IF stored # {} THEN stored ELSE NewReports(candidate, v)

------------------------------------------------------------------------------
(* The page                                                                 *)

EmptyTable ==
  /\ outcomes' = Null
  /\ evaluating' = Null
  /\ inspecting' = Null
  /\ opening' = Null
  /\ failure' = Null

\* SearchPage reads the registry; what it cannot read is no vaults and a banner.
Visit ==
  /\ listed = Null
  /\ Spend("visits")
  /\ \/ Exists(Migrations[1]) /\ listed' = {row.vault : row \in ListVaultDetails}
     \/ listed' = {}
  /\ draft' = Balanced
  /\ EmptyTable
  /\ UNCHANGED <<bounds, world, opened, reports, registryVars>>

\* A reload or a closed tab.  (A link inside the site, as the opened report, would leave the
\* requests running, and an inspection under way would still open its report.)
Leave ==
  /\ listed # Null
  /\ listed' = Null
  /\ draft' = Balanced
  /\ EmptyTable
  /\ UNCHANGED <<boundVars, world, opened, reports, registryVars>>

\* A preset or a field.
Edit ==
  /\ listed # Null
  /\ Spend("edits")
  /\ draft' \in Drafts \ {draft}
  /\ UNCHANGED <<bounds, world, listed, tableVars, opened, reports, registryVars>>

\* The button is disabled while an evaluation is under way.
Evaluate ==
  /\ listed # Null
  /\ evaluating = Null
  /\ Spend("asks")
  /\ evaluating' = [ask |-> used.asks + 1, draft |-> draft, answers |-> <<>>]
  /\ failure' = Null
  /\ UNCHANGED <<bounds, world, listed, draft, outcomes, inspecting, opening, opened, reports,
                 registryVars>>

\* The route takes between one and MaxBatch vaults.
Fits == Cardinality(listed) \in 1..MaxBatch

EvaluationRefused ==
  /\ evaluating # Null
  /\ ~Fits
  /\ evaluating' = Null
  /\ outcomes' = Null
  /\ failure' = "evaluation"
  /\ UNCHANGED <<boundVars, world, listed, draft, inspecting, opening, opened, reports,
                 registryVars>>

\* One call of the fan-out; the API may not be there for it.
EvaluateVault(v) ==
  /\ evaluating # Null
  /\ Fits
  /\ v \in listed \ DOMAIN evaluating.answers
  /\ \E answer \in ApiEvaluate(DraftToPolicy(evaluating.draft), v) \cup {Unavailable} :
       evaluating' = [evaluating EXCEPT
                        !.answers = [u \in DOMAIN @ \cup {v} |-> IF u = v THEN answer ELSE @[u]]]
  /\ UNCHANGED <<boundVars, world, listed, draft, outcomes, inspecting, opening, failure,
                 opened, reports, registryVars>>

EvaluationAnswered ==
  /\ evaluating # Null
  /\ Fits
  /\ DOMAIN evaluating.answers = listed
  /\ outcomes' = evaluating
  /\ evaluating' = Null
  /\ UNCHANGED <<boundVars, world, listed, draft, inspecting, opening, failure, opened, reports,
                 registryVars>>

\* Mutant: the catch says nothing.
EvaluationLostSilently ==
  /\ evaluating # Null
  /\ evaluating' = Null
  /\ UNCHANGED <<boundVars, world, listed, draft, outcomes, inspecting, opening, failure,
                 opened, reports, registryVars>>

\* The catch: no connection, or an answer of the route or of the API that is not what
\* it should be, of which one fails the whole batch.  The table stays.
EvaluationLost ==
  /\ evaluating # Null
  /\ evaluating' = Null
  /\ failure' = "evaluation"
  /\ UNCHANGED <<boundVars, world, listed, draft, outcomes, inspecting, opening, opened, reports,
                 registryVars>>

\* A row's button, disabled only while another row is inspected.  The draft that is
\* posted is the one in the panel.
Inspect(v) ==
  /\ outcomes # Null
  /\ v \in DOMAIN outcomes.answers
  /\ inspecting = Null
  /\ inspecting' = [vault |-> v, draft |-> draft, answer |-> Null,
                    row |-> [draft |-> outcomes.draft, outcome |-> outcomes.answers[v]]]
  /\ failure' = Null
  /\ UNCHANGED <<boundVars, world, listed, draft, outcomes, evaluating, opening, opened, reports,
                 registryVars>>

\* The API files the report of an inspection, and its answer is under way.
FileReport ==
  /\ inspecting # Null
  /\ inspecting.answer = Null
  /\ \E report \in ReportsFor(DraftToPolicy(inspecting.draft), inspecting.vault) :
       /\ inspecting' = [inspecting EXCEPT !.answer = [report |-> report,
                                                       created |-> report \notin reports]]
       /\ reports' = reports \cup {report}
  /\ UNCHANGED <<boundVars, world, listed, draft, outcomes, evaluating, opening, failure, opened,
                 registryVars>>

\* router.push starts a navigation, over one that is not done, and the page can be used
\* until it is.
InspectionAnswered ==
  /\ inspecting # Null
  /\ inspecting.answer # Null
  /\ opening' = inspecting
  /\ inspecting' = Null
  /\ UNCHANGED <<boundVars, world, listed, draft, outcomes, evaluating, failure, opened, reports,
                 registryVars>>

\* The report's page has loaded: this one goes, whatever else it was waiting for.
ReportOpened ==
  /\ opening # Null
  /\ opened' = opening
  /\ listed' = Null
  /\ draft' = Balanced
  /\ EmptyTable
  /\ UNCHANGED <<boundVars, world, reports, registryVars>>

\* A refusal, or no answer, whether or not the API files the report all the same.
InspectionFailed ==
  /\ inspecting # Null
  /\ inspecting' = Null
  /\ failure' = "inspection"
  /\ \/ UNCHANGED reports
     \/ /\ inspecting.answer = Null
        /\ \E report \in ReportsFor(DraftToPolicy(inspecting.draft), inspecting.vault) :
             reports' = reports \cup {report}
  /\ UNCHANGED <<boundVars, world, listed, draft, outcomes, evaluating, opening, opened,
                 registryVars>>

------------------------------------------------------------------------------
(* The table                                                                *)

\* How many rules reached an observation.
Completeness(outcome) ==
  IF outcome.rules = Null THEN 0
  ELSE Cardinality({k \in DOMAIN outcome.rules : outcome.rules[k].status # "UNKNOWN"})

Rank(outcome) ==
  CASE outcome.status = "PASS" -> 0
    [] outcome.status = "FAIL" -> 1
    [] outcome.status = "UNKNOWN" -> 2
    [] OTHER -> 3

\* Mutant: the fuller evidence comes first.
ComesBeforeByEvidence(answers, u, v) ==
  \/ Completeness(answers[u]) > Completeness(answers[v])
  \/ /\ Completeness(answers[u]) = Completeness(answers[v])
     /\ Rank(answers[u]) < Rank(answers[v])

\* By verdict, then by completeness, then by name.
ComesBefore(answers, u, v) ==
  LET r == Rank(answers[u]) - Rank(answers[v])
      c == Completeness(answers[v]) - Completeness(answers[u])
  IN  \/ r < 0
      \/ r = 0 /\ c < 0
      \/ r = 0 /\ c = 0 /\ NameRank[u] < NameRank[v]

\* The rows, sorted: none stands below one it comes before.
CompareOutcomes(answers) ==
  LET shown == DOMAIN answers
  IN  CHOOSE rows \in Bijection(1..Cardinality(shown), shown) :
        \A i, j \in DOMAIN rows : i < j => ~ComesBefore(answers, rows[j], rows[i])

\* The return a row shows: its figure, or that there is none.
ReturnCell(outcome) ==
  IF outcome.rules = Null \/ (outcome.rules # Null
                              /\ outcome.rules["minimumObservedReturn"].observed = Null)
  THEN Null
  ELSE FormatBasisPoints(outcome.rules["minimumObservedReturn"].observed)

\* The issues beside the fields of the panel.
PanelIssues == UNION {outcomes.answers[v].issues : v \in DOMAIN outcomes.answers}

------------------------------------------------------------------------------

Promote ==
  /\ Spend("moves")
  /\ world' = world + 1
  /\ UNCHANGED <<bounds, pageVars, opened, reports, registryVars>>

RunMigration ==
  /\ \/ /\ Spend("migrations")
        /\ \E m \in Migrators : ReadRecorded(m)
     \/ /\ \E m \in Migrators :
             SkipFile(m) \/ GuardFile(m) \/ ApplyFile(m) \/ RecordFile(m) \/ EndRun(m)
        /\ UNCHANGED used
  /\ UNCHANGED <<bounds, world, pageVars, opened>>

Curate ==
  /\ \/ Spend("releases") /\ Deploy
     \/ Spend("probings") /\ Reprobe
     \/ Seed /\ UNCHANGED used
  /\ UNCHANGED <<bounds, world, pageVars, opened>>

UsePage ==
  \/ Visit \/ Leave \/ Edit
  \/ Evaluate \/ EvaluationRefused \/ EvaluationAnswered \/ EvaluationLost
  \/ FileReport \/ InspectionAnswered \/ ReportOpened \/ InspectionFailed
  \/ \E v \in Vaults : EvaluateVault(v) \/ Inspect(v)

Next == UsePage \/ Promote \/ RunMigration \/ Curate

Spec == Init /\ [][Next]_vars

------------------------------------------------------------------------------
(* Properties                                                               *)

\* The registry is seeded by whole releases, although a seeding may fail at any vault: a
\* vault that was refreshed by an older release than another had left the manifest by then;
\* the columns that are refreshed and the identity of the one open profile are those of that
\* release's entry; so a block has one interpretation at most.
\* vaults.ts:72-77, 0001_registry_observations.sql:106-108.
RegistryIsSeededWhole ==
  \A v \in DOMAIN vaultRows :
    LET row == vaultRows[v]
        entry == Releases[row.release].vaults[v]
    IN  /\ \A u \in DOMAIN vaultRows :
             row.release < vaultRows[u].release
               => v \notin DOMAIN Releases[vaultRows[u].release].vaults
        /\ row.status = entry.status
        /\ {ProfileId(p) : p \in OpenProfiles(v)} = {<<v, entry.adapter, entry.from>>}
        /\ \A p \in profiles : Cardinality(ResolveCapabilityAt(v, p.from)) <= 1
        /\ Cardinality(FindVaultDetail(v)) = 1

\* A zero capacity is taken for what it is at its own block: nonstandard, and never usable,
\* when the owner held shares, and an honest zero when not.
ZeroIsExplained(v, probes) ==
  \A b \in ProbeBlocks, m \in CapacityMethods :
    LET probe == probes[b][m]
        held == Chain[v][b].shares > 0
    IN  probe.raw = 0 => /\ IsUsable(probes[b], m) = ~held
                         /\ (probe.status = "nonstandard_zero") = held

\* Whatever failed when a vault was probed again, its zeros are explained, in the manifest
\* and in the profiles seeded of it: the balance and the capacities come in one multicall.
\* capabilities.ts:14-16, reprobe-manifest.mjs:11-16.
ReprobedZerosAreExplained ==
  /\ \A v \in DOMAIN evidence :
       evidence[v].provider = "keyed" => ZeroIsExplained(v, evidence[v].probes)
  /\ \A p \in profiles :
       p.evidence.provider = "keyed" => ZeroIsExplained(p.vault, p.evidence.probes)

\* A claim the code does not keep.  What the gate says of its own zeros: "a zero returned for an owner that demonstrably
\* holds shares is a documented non-standard zero, not a verified zero capacity".
\* verify-vault.sh:57-59.
ZerosAreExplained == \A p \in profiles : ZeroIsExplained(p.vault, p.evidence.probes)

\* A claim the code does not keep.  What a seeding says of a profile that is there: "Only the audit timestamp and the probe
\* evidence move", as those of the vault's row do.  vaults.ts:272-273.
ReseedMovesEvidence ==
  \A v \in DOMAIN vaultRows : \A p \in OpenProfiles(v) :
    p.evidence.verified = vaultRows[v].verified

\* A claim the code does not keep.  What the schema says of a vault that was upgraded: "A changed implementation closes the
\* open row by setting effective_to_block and inserts a new one", which the open rows must
\* not stand in the way of.  0001_registry_observations.sql:108-110.
ChangedImplementationOpensAProfile ==
  release > 0 /\ ~MisdescribedBy(Manifest) =>
    \A v \in Curated : \A p \in OpenProfiles(v) :
      p.implementation # Manifest.vaults[v].implementation => ~OpensTwo

\* Whatever runs overlap, die and are started again: a file is recorded only when its
\* tables are there, and is neither applied nor recorded before the files ahead of it.
\* migrate.ts:45-49, 62-64.
MigrationsInOrder ==
  /\ recorded \subseteq tables
  /\ \A j \in DOMAIN Migrations : \A i \in 1..j :
       /\ Migrations[j] \in tables => Migrations[i] \in tables
       /\ Migrations[j] \in recorded => Migrations[i] \in recorded

\* A claim the code does not keep.  What the file that rewrites the report tables says: "A migration that
\* silently destroys evidence would contradict the entire product, so it fails loudly
\* instead".  0002_reports_and_policies.sql:17-19.
NoEvidenceIsDropped == [][reports \subseteq reports']_vars

\* What a field wants, in the contract's words.
Malformed(d) ==
  {f \in {"minHistoryDays", "returnWindowDays"} :
     d[f].value = Null \/ (d[f].value # Null /\ ~(d[f].value \in 1..MaxSafeInteger))}
  \cup {f \in {"minTvlAssets", "minWithdrawableAssets"} : ~d[f].plain}
  \cup {f \in {"minObservedReturnBps"} :
          d[f].value = Null \/ (d[f].value # Null /\ Magnitude(d[f].value) > MaxSafeInteger)}
  \cup {f \in {"owner"} : d[f] = Null}

OneRowPerVault ==
  LET rows == CompareOutcomes(outcomes.answers)
  IN  Len(rows) = Cardinality(listed) /\ ToSet(rows) = listed

IssuesAreMarked ==
  LET answered == {v \in listed : ~outcomes.answers[v].unavailable}
      wrong == Malformed(outcomes.draft)
  IN  /\ answered # {} => Marked(draft, PanelIssues) = wrong
      /\ \A v \in answered : (outcomes.answers[v].status # Null) = (wrong = {})

VerdictsRankFirst ==
  LET rows == CompareOutcomes(outcomes.answers)
      order == <<"PASS", "FAIL", "UNKNOWN", Null>>
      Place(v) == CHOOSE i \in 1..4 : order[i] = outcomes.answers[v].status
  IN  \A i, j \in DOMAIN rows : i < j => Place(rows[i]) <= Place(rows[j])

LossesAreShown ==
  \A v \in listed :
    LET outcome == outcomes.answers[v]
        shown == ReturnCell(outcome)
    IN  outcome.by # Null =>
          LET from == outcome.by.id.start
              to == outcome.by.id.end
          IN  shown # Null =>
                from # Null /\ shown.negative = (to.value < from.value)

\* Whatever of the fan-out failed, the table has a row for every vault of the page, by
\* verdict; the panel marks the fields the asked draft got wrong and no other, and a
\* draft with nothing wrong has a verdict of every vault that could be read; and a loss,
\* however small, shows as one and never as no change, nor does a return that was not
\* observed.  evaluate/route.ts:46-52, policy-draft.ts:72-79, compare-outcomes.ts:4-14,
\* SearchSurface.tsx:295-298.
TableIsFaithful ==
  outcomes # Null =>
    OneRowPerVault /\ IssuesAreMarked /\ VerdictsRankFirst /\ LossesAreShown

\* Verdicts of an evaluation that is not the last one asked for stand under a message, or
\* beside an inspection that replaced the message or a page being left for its report:
\* SearchSurface.tsx:71-73, 79-80, 89-91, 109-114.
StaleVerdictsAreAnnounced ==
  outcomes # Null /\ evaluating = Null /\ outcomes.ask # used.asks
    => failure # Null \/ inspecting # Null \/ opening # Null

\* The report an inspection opens repeats the verdict of the row that was clicked,
\* unless one of four things happened since: the draft was edited, the observations
\* moved, the provider resolved the deployment for one of them only, or somebody had
\* filed these observations under another policy or another resolution before.
\* SearchSurface.tsx:17-25, 89-104.
InspectionRepeatsTheRow ==
  opened # Null =>
    LET report == opened.answer.report
        row == opened.row
    IN  \/ report.evaluation.status = row.outcome.status
           /\ report.evaluation.rules = row.outcome.rules
        \/ opened.draft # row.draft
        \/ row.outcome.by = Null
        \/ row.outcome.by # Null /\ row.outcome.by.id # report.id
        \/ row.outcome.by # Null /\ row.outcome.by.deployed # report.deployed
        \/ ~opened.answer.created /\ report.policy # PolicyOf(DraftToPolicy(opened.draft))

=============================================================================
