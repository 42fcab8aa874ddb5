# TR4CE in TLA+

TLA+ models of TR4CE, the vault-evidence application of this repository, with the
TLC configurations that check them and the theorems TLAPS proves about them.
`PROJECT.json` lists the runs, the mutants, the theorems, the hazards, the findings,
and for every definition the lines it stands for.

    tlc -workers 2 -config promotion_deep.cfg MCPromotion   # one run
    tlapm Promotion_proofs.tla                              # the proofs of a module

## The system

TR4CE reads ERC-4626 vaults on Base. A Substreams package writes raw events into
PostgreSQL; a worker copies confirmed rows into the application schema; an API files
evidence reports over them, evaluates a policy, and prepares unsigned transactions
that the user's own wallet signs. No server process holds a key, and nothing polls.

| component | state it keeps | operations | hard behaviour |
|---|---|---|---|
| sink and Substreams package (`substreams/erc4626`, `substreams-sink-sql`) | raw tables, sink cursor | write a block, undo orphaned blocks | lags behind the chain, on a clock of its own |
| promotion worker (`apps/worker/src/promote-confirmed.ts`) | `vault_flow`, `vault_snapshot`, `indexer_cursor` | one run: read the head, then batch after batch | awaits between head, ceiling, cursor, hash and commit; crash; rejected batch |
| deep-reorg reconciliation (`reconcile-deep-reorg.ts`, `observations.ts`) | `canonical` flags, `reorg_invalidation`, the cursor | list, check block by block, repair | the chain moves during the check; reports are filed during the repair |
| evidence reports (`evidence-service.ts`, `reports.ts`, `evidence-window.ts`, `policies.ts`) | `evidence_report`, `report_observation`, `rule_result`, `policy`, `policy_version` | read a window, evaluate, store the version, insert report and verdicts or serve the stored report | the window is four statements without a transaction; insert races a repair; two equal inserts; two versions at once; policy outside the identity |
| evidence engine (`packages/evidence`) | none | a window to figures, reasons and limitations | exact rationals, rounding of losses, missing calls |
| policy engine (`packages/policy`) | none | five rules over the figures to PASS, FAIL or UNKNOWN | missing evidence must not pass, nor fail |
| prepared actions (`action-service.ts`, `actions.ts`, `packages/chain`) | `prepared_action`, `simulation`, `transaction_receipt` | read the account, choose the calls, prepare, simulate, report a hash, observe, judge signability | concurrent requests, READ COMMITTED, retries, crash between record and observe; the account and the vault move under a prepared plan |
| registry (`vaults.ts`, `test-vaults`, `registry-service.ts`) | `vault`, `vault_capability`, `network`, the manifest's probes | pass the gate, seed on every worker start, list, look up, probe again | a release that cannot be seeded; what a seeding keeps and what it refreshes; probes over a failing provider; the profile that covers a block |
| migration runner (`migrate.ts`, `migrations/`) | `schema_migration`, the tables themselves | apply what is not recorded, record it | crash before the record, two runs at once, a file that drops tables with rows in them |
| comparison page (`SearchSurface.tsx`, `app/api/evaluate`, `policy-draft.ts`, `compare-outcomes.ts`) | the draft, the table, one evaluation and one inspection under way | edit, evaluate all vaults, inspect a row (files a report) | the draft is edited under its verdicts; one of many answers fails; answers of a world that moved on |
| web console (`apps/web/components/actions`) | phase, last status, calldata in session storage | sign, report, resimulate, check the receipt | stale status, a hash that is lost when its report fails |
| HTTP shell, MCP server, other pages, schemas | none | route, validate, render | none of their own |

They interact through PostgreSQL and nothing else: sink and worker share the raw
tables, worker and API the observation tables and the registry, API requests the action
tables. The console, the comparison page and the MCP server call the API.

What makes each correct, in one line: promotion never shows a reader a row that may
still vanish, and leaves no hole; reconciliation finds every orphan, explains it and
withdraws all that rests on it; a report rests on one history, says of it what exact
arithmetic says, and one id stands for one document; a policy's versions count its
changes; an action's status never claims more than its receipts, its calls can be
executed in their order and leave no allowance behind, and no wallet is invited to sign
twice or early; the registry is what whole releases left; and a table shows the verdicts of
the draft it was asked for, or says that it does not.
The hazards in `PROJECT.json` say where each of these could fail.

## Modules

| module | what it is |
|---|---|
| `Promotion` | the network, the sink, the worker's two jobs and the report requests, as one interleaved system |
| `ConfirmedHistory` | the abstract specification of what promotion promises a reader |
| `MCPromotion` | small networks for TLC: branches, forks, which blocks carry rows, calm conditions |
| `Promotion_proofs` | theorems about `Promotion`, for all constants |
| `EvidenceEngine`, `PolicyEngine` | the two engines as operators: rationals, figures, limitations, rules, decision |
| `VaultStream` | the Substreams package as operators: parameters, events, snapshot plan, graded reads, the rows of a block |
| `ReportFiling` | `POST /v1/reports` and `/v1/policies/evaluate` as concurrent requests; extends the engines, composes `VaultStream` |
| `MCReportFiling` | block contents, policies and symmetry for its instances |
| `ReportFiling_proofs` | theorems about what `ReportFiling` stores and serves, for all constants |
| `EvidenceEngine_proofs` | theorems about the arithmetic of the engine, for all integers, and lemmas about sums |
| `ReportWindows_proofs` | theorems about the windows `ReportFiling` reads and what is made of them; extends the two above |
| `PreparedAction` | the action tables and the API requests that read and write them |
| `CallLog` | the abstract specification of what the action tables promise whoever reports a transaction |
| `MCPreparedAction` | plans and symmetry for its instances |
| `PreparedAction_proofs` | theorems about `PreparedAction`, for all constants |
| `VaultCalls` | the reads of a preparation, the calls they lead to, what executing them does, and the decoding of receipts, as operators |
| `ActionPlans` | `PreparedAction` over one owner's account and one vault; extends `PreparedAction` and `VaultCalls` |
| `MCActionPlans` | asks, vaults and an account for its instance |
| `ActionPlans_proofs` | theorems about `ActionPlans`, for all constants; extends `PreparedAction_proofs` |
| `ActionConsole` | one browser tab, its wallet, and its requests at the API; extends `PreparedAction` |
| `MCActionConsole` | symmetry for its instances |
| `ActionConsole_proofs` | theorems about `ActionConsole`, for all constants; extends `PreparedAction_proofs` |
| `CapabilityProbes` | reading a vault at a block, classifying what it answered, and what a probe may back, as operators |
| `Registry` | the migration runner, the manifest, its seeding and its readers; extends `CapabilityProbes` |
| `PolicyDraft` | from the texts of a draft to a policy, its issues and where the panel marks them; extends `PolicyEngine` |
| `SearchPage` | one visitor of the comparison page over the API and the registry; extends `PolicyDraft` and `Registry` |
| `MCSearchPage` | drafts, worlds, releases and scenarios for its instance |
| `SearchPage_proofs` | theorems about `Registry` and `SearchPage`, for all constants; extends `EvidenceEngine_proofs` |

A definition marked *Mutant* is not part of the model. It changes the definition after
it the way a plausible bug would, and shows that the property paired with it in
`PROJECT.json` fails when the code is wrong.

### Promotion

A block is its hash. `BlockHash[b][h]` is the hash at height `h` of branch `b`, a hash
commits to all its ancestors (`HashAssumption`), and a row's payload is reduced to
whether its block carries rows and whether this release accepts them (`RowKind`).
`rows[x]` says of block `x` that its rows are absent, canonical or orphaned.

An action is what runs between two awaits another party can get between; a database
transaction is one action. One promotion is `PromoteStart`, then per batch
`PromoteCeiling`, `PromoteCursor`, `PromoteHash` and `PromoteCommit`, and ends in
`PromoteDone`, `PromoteNoCeiling`, `PromoteReject` or `WorkerFault`. One reconciliation
is `ReconcileList`, a `ReconcileCheck` per block in height order, and `ReconcileRepair`
or `ReconcileClean`. A report is `ReadWindow`, then `InsertReport` and `CommitReport`:
two steps, because what a repair commits in between is the question.

Simplifications, and why they are safe to make:

- `docs/technical/ARCHITECTURE.md:297` runs one worker, so the jobs share one program
  counter. Nothing in the code enforces it (two npm scripts); overlapping jobs are a
  hazard without a property yet.
- `promoteRange`'s four selects of raw tables are one read, and so are the reads of a
  report's window and its attested block. A row that changes between two of the
  latter is caught by the insert's trigger like one that changes after them.
- A head never shrinks. A reorg puts blocks of another branch under the same head.
- The sink writes one block at a time and undoes to the last common block.
- Capability lookups, schema versions and vault lookups are one question, `Accepted`.

Conditions of the environment are constants. `MaxReorgDepth <= ConfirmationDepth` with
`SinkKeepsUp` is what the documents assume of ordinary operation. Without them
promotion can copy orphaned rows (set `SinkKeepsUp = FALSE` in `promotion_shallow.cfg`
and TLC shows how), although `promote-confirmed.ts:28-31` says of the ceiling alone
that nothing the sink might still undo is ever promoted: the ceiling bounds heights and
cannot see forks.

### PreparedAction

A digest names the calls of an action in their order, so the plan, the sequence of calls,
stands for it, and actions with one plan compete for one place in the live-binding index.
A request is a process: `Prepare`, `Simulate`, `Report` and `Status` are its handlers,
cut at their awaits. PostgreSQL runs at READ COMMITTED, so the transaction of
`recordSubmission` is three steps (insert, count, update), with the insert waiting for a
contending insert. The other transactions are one step: no write that another request
can make between their statements changes their effect, other than by an error that
rolls them back.

The newest attempt of an action is the one with the latest `created_at`, which is the start of
its transaction (`0004_prepared_actions.sql:133`): an attempt that is committed last need not be
the newest. `begun` holds the requests whose transaction may have been open when the newest row
was committed, and `RecordSimulation` leaves the newest as it was for those of them that started
before.

Left out: the time budget (it can only turn a signable answer into an unsignable one) and
`invalidateAction` (it has no caller). The chain of this model does not reorganise: a stored
receipt is never read again, which is a hazard without a property. Blocks do not pass in this module's own
`Next`: the age of a simulation decides only what `StatusJudge` answers, which no table
keeps. They do in `ActionPlans` and `ActionConsole`, which keep it.

`CallLog` says what all this amounts to for whoever reports a transaction: each action has a
log of receipts to which a report adds the next call, under a hash that stands for no other
call of any action; an entry is never replaced, but told its outcome once; and no call
beyond the next is tried. It knows no request, count or status. `KeepsCallLog` says that the
tables are such a log, where the receipts of an action in the order of its calls
(`ReceiptLog`) are its entries.

### VaultCalls and ActionPlans

Which plan is prepared depends on what five reads answer (`Seen`), each of which may fail;
`DepositRefused`, `RedeemRefused` and `DepositCalls` are the service's refusals and its
choice between one call and two. The asset and the vault are contracts outside the
repository, so `Executes`, `After` and `Events` say what ERC-20 and ERC-4626 say, including
a vault whose limit is not what it answers and one that emits another vault's event first.

`ActionPlans` lets one owner prepare deposits and redemptions (`AskPrepare`), a wallet sign
whatever was once called signable (`WalletSigns`, once each: `ActionConsole` has the caller
who signs again), transactions be mined in the order the nonces force (`MineSigned`), the
vault change (`MoveVault`) and the owner deposit elsewhere (`DepositApart`). `offers`,
`given` and `apart` are what the properties compare with; no table holds them.

Simplifications: the reads of a preparation, which the code sends to `latest` one by one,
see one state; a simulation succeeds only of a call that executes, and fails for any
reason, as `simulateCall` catches a provider's failure and a revert alike; a wallet does
not replace a transaction by another of the same nonce.

### ActionConsole

A tab remembers two things: the last answer it received (`view`) and whether the wallet
is asked (`asking`). Every button is a function of the two and of the requests under way:
`SigningGate` is the Sign button, `Busy` the flag the two other buttons share. The
requests are those of `PreparedAction`, interleaved with the tab: `Serve` lets the API
take one step of a request, `Receive` shows an answer, whenever it comes. Failure is
`Lose` (the server dies), `GiveUp` (the connection breaks, and the API works on unheard),
`WalletRejects`, and `Leave` (the page is left or reloaded; `Load` opens it again). A
hash whose report never arrives is `WalletSigns` followed by `Lose` or `Leave`.

Simplifications: the wallet is the owner's, on the right chain, and the tab has stored
the calldata (each of these only shuts the gate); the `rejected` phase behaves like
`idle`; the live statuses are shown as one; a request that ends in an error changes
nothing the tab acts on. One tab is open, nobody else reports for its action, and
`PrepareElsewhere` is bounded by the ids there are.

### VaultStream, EvidenceEngine, PolicyEngine and ReportFiling

Evidence is followed from the chain to the verdict. `PromoteBlock` picks what the next
block of the chain holds (`BlockContents`: its logs, and what each call would answer after
it) and the parameters of the release that streams it, and appends the rows that
`BlockBatch` makes of them: which logs are of a curated vault, which vaults are read at
this height, what a reverted call or an unreachable provider leaves absent and how it is
explained. The properties compare a report with the chain's block (`content` in the
ledger, which no action reads), so a flow or a value lost in the package, in promotion or
in the window is a violation, and so is a limitation that a reader is not told of.

A request of `ReportFiling` goes through `Ask`, `ReadEnd`, `ReadStart` and `ReadFlows`,
then either `Preview` (the evaluation is returned and forgotten)
or `Evaluate`, `StorePolicy`, `InsertVersion`, `ServeStored` or `InsertReport`, and
`Commit`. Each is one statement, or the statements between two at which another
transaction can be met; `RequestLost` may end a request at any of them. The statements
that wait for a contending insert are guarded by `PolicyRowContends`,
`VersionContends` and `ReportContends`. The engines compute from what the request
read: `BuildEvidence` the draft, whose `id` is everything the report hash covers, and
`EvaluatePolicy` the verdicts, which `Commit` stores twice: in the document, and as rows of
`results`. What a request does not read again is dropped at once:
`Evaluate` keeps the id, the document and the citations.

Simplifications:

- The worker is an environment: it appends blocks to `ledger` and withdraws the newest
  ones. `Promotion` is where the worker is modelled. No repair commits between a
  report's insert and its commit, because `promotion_report_race` is about exactly that.
- The report hash is taken to be injective, and a document is what it is computed from.
- `storePolicyVersion` reads its rows and the highest number in one step. A row that
  another request commits between those statements makes a number or a content taken,
  which the insert meets in either case.
- The provider that resolves the deployment block shares nothing with anybody, so it is
  asked in the step that reads the flows. `orderBy(blockNumber)` leaves the rows of one
  block in any order, and `ReadFlows` picks one.
- A flow is its kind and its assets, with the kind of a share transfer: the accounts and
  shares of a flow are copied from table to table and read by nobody.
- Reports are of one vault with a constant calculation version. No account is
  read through the API (`observedOwner` is never passed), so the withdrawal rule is always
  `UNKNOWN` and no report passes; `VerdictsAreExact` says so.
- A day has two seconds in the instance, so that three blocks span a window of two days.
- Limitations are tags, one for each sentence of the report that applies.
- Left out: wording, the triggers stored with a snapshot, the account's limits, and the
  compiler of sentences into drafts.

### CapabilityProbes and Registry

A vault at a block is what its methods return. Two programs read it, and they lose different
things. The onboarding gate (`verify-vault.sh`) sends each method and the balance as a call of its
own and swallows what fails; the probing tool sends two multicalls, each of which fails as a
whole (`Batches`, `AnsweredBy`). `ReadCalls` is what came back, `ClassifyCapabilities` tells an
honest zero from one that contradicts the shares its owner holds, and `ProbeVault` does so at both
blocks of the manifest, each with the balance of that block.

`Registry` runs the migration runner at its statements (`ReadRecorded`, `GuardFile`,
`ApplyFile`, `RecordFile`, and `EndRun` for a run that failed or died), releases manifests
one after the other (`Deploy`: what is new or moved went through the gate, whose calls may each
fail), probes them again (`Reprobe`, whose probe owner may not be recovered and whose provider may
not answer), and seeds them (`Seed`, one transaction of every worker start). A seeding keeps a
vault's protocol and asset, refreshes its other columns, and never touches a profile that is
there; evidence carries its timestamp and its provider, so that what is kept can be told from
what moved. What the API and the worker read of it are operators: `ListVaultDetails`,
`FindVaultDetail`, `ResolveCapabilityAt`.

Simplifications: an answer can be decoded (one of the gate's that cannot is recorded as
supported, without a value); of the four migrations, the instance has three: one that creates the registry, 0002, which drops and creates the report
tables, and 0004, whose foreign key makes a later drop fail. Left out: columns that are only
displayed, and the parameters rendered for the Substreams package (`VaultStream` takes them as
they are).

### PolicyDraft and SearchPage

A text of the panel is the integer it spells, or none, and whether it spells it as the
contract writes amounts. `DraftToPolicy`, `Issues`, `PathFor` and `Marked` follow a wrong
field from the panel through the API's refusal back to the field.

`SearchPage` is one visitor: `Visit`, `Edit`, `Evaluate` and one `EvaluateVault` per vault in
any order, `EvaluationAnswered`, `EvaluationRefused` or `EvaluationLost`, `Inspect`, `FileReport`,
then `InspectionFailed`, or `InspectionAnswered` and some time after it `ReportOpened`, `Leave`.
Between the last two the router is on its way to the report (`opening`) and the page can be used:
another evaluation may be asked for, and another row inspected. The API behind it answers from `Registry`, which
migrates, releases, probes and seeds meanwhile, and from `world`, what is promoted.
The operators under *The table* are what the page shows: the order of the rows, the return
of a row, the marked fields.

Simplifications: filing a report is one step (`ReportFiling` takes it apart); what is
promoted is one of a few worlds; `Leave` is a reload or a closed tab, whose requests nobody
hears any more; the owner's text is its address or none.

## Runs

| run | question | bounds |
|---|---|---|
| `promotion_shallow` | Under the documented conditions, is the history final, whole, attested, and a refinement of `ConfirmedHistory`? | seven blocks, two forks, reorgs and depth of two, batches of two, one unknown block, one fault |
| `promotion_deep` | Whatever the reorgs and the sink do, is a repair complete, explained and irrevocable, and are orphans found and confirmed blocks reached in the end? | four blocks, a reorg of three at any moment, batches of two, a release that must be deployed, one report request, one fault |
| `promotion_return` | Does a history torn by deep reorgs become whole again, when the chain returns to a branch it left (violated)? | four blocks, there and back |
| `promotion_report_race` | Does a repair reach every dependent report (violated)? | four blocks, one request |
| `action_plans` | Can what is prepared be executed, is every allowance accounted for, do receipts say what happened, when is an action stranded, and does a reported action settle? | one action, two hashes, one request at a time, an owner with three assets and one share, a vault that moves between two states, one deposit elsewhere |
| `action_concurrent` | What can no race between requests break, and do the tables behave as the log of `CallLog`? | two actions of two calls, two hashes, two requests at once, up to symmetry |
| `action_terminal` | Are terminal states terminal (violated)? | one call, one hash, one request |
| `console_tab` | Whatever order answers arrive in, does a tab ask in order, report each hash for its own call, and claim no more than happened? | one action of two calls, two hashes, two requests, one block, up to symmetry |
| `console_resigns` | Is a signature asked for only if it can settle (violated)? | one call, two hashes, two requests |
| `report_filing` | Does a report say what the chain did: windows whole, with a start, missing no flow; absence explained, verdicts exact, ids unambiguous, verdict rows the document's, versions counted, with two requests and a repair? | three blocks of one or two contents, two vaults, one repair, two policies and one stored before, two requests up to symmetry |
| `report_question` | Is a request judged by its own policy (violated)? | the same without a repair |
| `search_page` | Does the table show what was asked, does it say when it is old, does an inspection repeat its row, is the registry what whole releases left, are the zeros of the probing tool explained, and do migrations keep their order? | three vaults of which two are listed at first, three drafts, two worlds, four releases, a gate and a tool whose calls fail, three files and two runs of the migrations; six scenarios |

The promotion bounds hold more than one batch per run, more than one run, forks above,
at and below the cursor, and a report over blocks on both sides of a fork. In
`promotion_deep` the block the release does not know is the second, so that it lies below the
confirmed head when the reorg comes. The bounds of `action_concurrent` hold every pair of
handlers at once, a report repeated before and after mining, and a second action after the
first was sent; those of `action_plans` deposits with and without an approval, an
approval nobody needs any more, a redemption, a receiver who is not the owner, an ambiguous
limit and a price that moves between preparation and mining. The filing bounds hold a
window with and without a start, one that is exactly half a day off the one asked for, a
call that reverts, a provider that does not answer, a block without a snapshot, a quiet
anchor block, events of another vault and of no vault, shares minted and burnt in a window
and before it, a loss that is no whole number of basis points, a manifest with other
decimals, blocks that are withdrawn and replaced between two reads of one window, and two
requests for one id, one policy or one version number.

All that a page, its registry and its database can do at once is more than TLC can follow, so
`Scenarios` says how often each thing happens in one behaviour (visits, edits, evaluations, moves
of the world, migration runs, releases, probings). The six are
a visitor who evaluates twice and edits; one whose observations move; one over a registry that is
released anew; a registry that is set up, or was set up before, released anew and probed; and a
database that is migrated, twice or by two runs at once, while a visitor files reports. The gate
loses balances from the second release on. With two basis points to one, a loss smaller than a
basis point occurs. The largest runs are `console_tab` (3.2 million distinct states),
`action_concurrent` (1.0 million) and `search_page` (0.5 million), one to three minutes each with
two workers.

Deadlock is not checked: chains and tables are bounded, so the models do stop, and
every process may rest.

### Fairness

`Promotion`: the sink streams on and the needed release is deployed some day (weak);
the operator runs each job again and again (strong for `PromoteStart` and
`ReconcileList`, which compete for the one worker); a started job runs on (weak).
`MaxFaults` bounds faults, so a job is not interrupted for ever. The network need not
grow and nobody need ask for a report. `CalmSpec` adds, for `promotion_return`, that a
reorg finds no job running and is settled at the sink before one starts: even then the
hole stays. (With reorgs to new branches only, the same property holds.)

`ActionPlans`: TR4CE does not poll, so settlement rests on the caller. `PlansFairness` says
that a caller repeats the report of the operation's hash, and that no step of that
report is killed every single time (strong); other requests end (weak). Nobody need
sign, simulate, prepare or ask, and nothing need be mined: `ReportedSettles` is about a
hash that was mined.

`PreparedAction` by itself, `ActionConsole`, `ReportFiling` and `SearchPage` state no
fairness: a request that ends, ends at its caller.

### Findings

Five runs show a claim of the repository that its code does not keep.

- `promotion_return`: re-promoted rows meet their orphaned selves and stay orphaned, so
  a chain that returns to a branch leaves a hole for good, against `cursors.ts:82`.
- `promotion_report_race`: a report that commits while a repair is looking for
  dependents stays canonical over orphaned rows, against `docs/BUILD-PLAN.md:142`.
- `action_terminal`: reporting a confirmed action's hash again makes it `submitted` for
  good, against `action-service.ts:373` and `actions.ts:206`.
- `console_resigns`: the Sign button is offered again for a call the wallet has just
  signed, while its report is under way or its answer is lost, against
  `action-state.test.ts:14-16`.
- `report_question`: a report's id covers what was observed and not the policy, so a
  request with another policy is served the first one's decision, against
  `reports.ts:118-119`.

Six more claims are stated in the modules, beside the properties that hold. TLC finds each of
them violated, within two minutes, when its name is added to the cfg of a run (`SYMMETRY` has to
go for an action property).

- `LiveAwaitsSignature` in `action_concurrent.cfg`: an attempt that is recorded after the report of
  its call makes a sent action live again, and whoever prepares the same calls is served the action
  that has nothing left to sign, against `0004_prepared_actions.sql:95-100`. The console allows it,
  because Sign is not disabled while Resimulate runs. It takes two requests.
- `SuccessHasItsAmount` in `action_plans.cfg`: the `Deposit` event names the receiver as owner, and
  the decoder looks for the wallet (`receipts.ts:127`). A deposit for somebody else, which the API
  takes (`contract.ts:110`), is confirmed without its shares, against
  `docs/technical/SMART-CONTRACT.md:151-152`.
- `ZerosAreExplained` in `search_page.cfg`: the gate reads the balance in a call of its own
  (`verify-vault.sh:184`), whose failure counts as "holds nothing". A holder's zero is recorded as
  supported and may back a claim, against `verify-vault.sh:57-59`. `reprobe-manifest.mjs:6-9` tells
  that calls of the gate were in fact throttled; probing again explains the zero
  (`ReprobedZerosAreExplained`), though not in a profile that was seeded before.
- `ReseedMovesEvidence` in `search_page.cfg`: nothing of a profile that is there moves
  (`onConflictDoNothing`), against `vaults.ts:272-273`.
- `ChangedImplementationOpensAProfile` in `search_page.cfg`: no seeding closes an open profile,
  against `0001_registry_observations.sql:108-110`. A release that moves a vault's window or adapter
  version fails on `vault_capability_open_key` at every start of the worker, and seeding comes before
  promotion (`promote-confirmed.ts:168`).
- `NoEvidenceIsDropped` in `search_page.cfg`: 0002 looks for reports before its drop locks the
  table, so that a report which commits in between is dropped, against
  `0002_reports_and_policies.sql:17-19`. It takes a second application of the file, by a run that
  died before its record or by a run beside another, and 0004 not applied yet.

Others have no run of their own. Of promotion and the schema:

- The ceiling does not protect from a sink that lags (above).
- No job compares the cursor's hash with the chain, although
  `0001_registry_observations.sql:231-232` says a mismatch is how a deep reorg is detected: a
  reorg of blocks without rows goes unseen (`SparseTrunk` with `ToB` in
  `promotion_return.cfg`).
- Vaults with unequal `windowStartBlock`, which only `manifest.test.ts:124-130` excludes, would
  leave blocks of the stream without a profile, and promotion rejects such a batch.
- `migrate.ts:64-65` says every file is `IF NOT EXISTS` or `CREATE OR REPLACE`, "so that is a
  no-op"; 0002 drops the report tables behind a guard, and a replay of it after reports were filed
  fails for ever.
- A vault keeps the protocol and the asset it was first seeded with, whatever a later manifest says
  (`vaults.ts:199-211`). `registry-service.ts:121` expects the probes as an array and
  `seedCapability` stores an object: the API's `probes` are always empty.

Of actions:

- With two requests at once `sentCount` need not be the number of receipts: a re-report that
  counts before another report commits and updates after it stores the lower count, against
  `actions.ts:245-249`. The call that is offered then was reported already, which
  `OfferedIsNext` excludes for one request at a time; `OffersAreEarned` holds all the same.
- No reorg reaches an action: `docs/technical/ARCHITECTURE.md:310` asks that "A synthetic reorg
  invalidates every dependent report and action", and `invalidateAction` (`actions.ts:345`) has no
  caller.
- The digest names calls and not the allowance they need (`action-service.ts:157-177`,
  `actions.ts:68-76`). An action whose approval reverted, or whose allowance was spent
  elsewhere, stays live and is served to whoever prepares the same calls. `StrandedOnlyThus`
  lists the ways, and `FewAreStranded` proves, for any number of requests at once, that there are
  no others: every call was sent and a late attempt made the action live again, a call that was not
  mined or reverted, a call signed and not reported, another action's calls in between, or an
  allowance spent apart from TR4CE.
- `AllowanceHasADeposit` rests on the order of nonces and on one signature for a call.
- `simulateCall` counts a provider's failure as a failed simulation, and an action that is
  served again shows the preview of its first preparation.

Of evidence:

- The time of a vault's deployment is asked of a provider and is not part of the id: a
  report filed while the provider does not answer keeps its `UNKNOWN` for good.
- A vault whose decimals change on chain gets snapshots of status `partial`, since "an
  implementation change" is "not a value to be silently trusted" (`snapshots.rs:62-64`); but the
  engine compares `oneShareUnits`, which comes from the manifest, and never reads the status, so
  a return is computed across the change.
- The flows of a window are ordered by block alone (`evidence-window.ts:136`), while the id
  covers their order: rows of one block in another order give the same evidence another
  id, against `canonical.ts:29-31`.
- A request that read its window before a repair and stores after it is served the withdrawn
  report: neither the conflict path of `insertReport` nor `fetchReport` looks at `canonical`
  (`evidence-service.ts:247-255`).
- A missing end value gets the reason of a missing start (`share-value.ts:71`) and its sentence
  ("No start observation covers the requested window", `report.ts:443`). Such drafts are
  refused before they are served.

Of the page:

- `evaluate/route.ts:46-52` says that one vault's failure does not sink the others; an answer
  of the API that is off its contract, or lost, rejects the whole batch (`EvaluationLost`).
- An inspection clears the message of a failed evaluation and leaves the older rows
  (`StaleVerdictsAreAnnounced` makes the exception), which stay, without a word, until the
  report's page has loaded. A draft edited after its evaluation leaves
  rows and marks as they were, and an inspection files under the edited draft.
- Issues of a draft are repeated once per vault, and a registry of no vault or of more than
  twenty cannot be evaluated (`evaluation.ts:14`). Vaults that leave the manifest stay listed,
  whatever their status.

## Proofs

Every safety invariant, action property and refinement that a passing run checks is a
theorem, `OfferedIsNext` apart. A run shows it on a small instance, the theorem for every value of the
constants that the ASSUMEs of the module allow. TLC evaluates the ASSUMEs on every
run. Where a theorem needs more than them, it says so as a hypothesis (`... => (Spec =>
...)`): the calm conditions of `Promotion` below, and these.

- `NullIsApart` of `SearchPage_proofs` and `NullIsNoRecord` of `ReportWindows_proofs`: the
  value that stands for an absent one is no record. The model values of the instances satisfy
  it; TLC cannot evaluate it, since a model value has no domain to look at, and therefore it
  is no ASSUME.
- `AnchorIsAgreed`: all releases open the window at one anchor block. `manifest.test.ts:124-130`
  says so of the listed vaults' starts, of which the anchor is the earliest. If a release moved
  the anchor to a block that another release had promoted, no window would have a start there.

Recursion is written with recursive functions and folds, and there is no rule of induction
to use for them. Two arguments stand in. Of the inputs for which a claim is wrong one is
least (a non-empty set of naturals has a minimum, which the library proves), yet a smaller
one is wrong too: so for Euclid's loop, sums over sets and what the prefixes of a block's
logs give. And a plan has at most two calls, so that a fold over it is unfolded.

### Promotion

`Promotion_proofs` assumes of the constants what `Promotion` states in its ASSUMEs:
naturals are naturals, hashes commit to heights and ancestors.

For all constants:

- `TypeCorrect`: `TypeOK` is inductive by itself.
- `HistoryOnlyAppends`, `DependentsFall`, `RepairRewinds`: action properties. Only
  `ReconcileRepair` revises anything (`OnlyRepairRevises`), and what it does follows
  from the lowest orphan, which exists by well-founded induction (`LowestOf`).
- `InvalidationsExplained`: needs `ExplainedInv`, that every orphan a reconciliation
  holds names the *other* block of its height; without it a repair could audit a block
  as replaced by itself.

With `SinkKeepsUp` and `MaxReorgDepth <= ConfirmationDepth` in addition:

- `ShallowSafety`: the inductive invariant `ShallowInv`. `PromotedRowsAreFinal`,
  `NoHoles` and `CursorAttestsChain` are not inductive: a commit preserves them only if
  the range starts just above the cursor, the hash is still the chain's, and the sink's
  blocks in the range are the chain's. `JobSettled` and `SinkSettled` say so at every
  await. The heart of it is that a shallow reorg agrees with the old branch at and
  below the confirmed head (`ReorgIsShallow`), and a block is confirmed only once the
  sink agrees with it (`GrowthIsSettled`).
- `PromotedIsFinal`, `CursorLeavesNoHole`, `CursorAttests` follow from it.
- `KeepsTheLedger`: `Promotion` implements `ConfirmedHistory` with the ledger
  `[h \in WindowStart..cursor |-> BlockHash[branch][h]]`. A commit is an `Attest` step
  (`CursorOnlyAdvances`, `RowsAreTheLedgers`) and every other step stutters: a reorg
  too, because it changes nothing at or below the cursor.

`ShallowInv` is proved and not a run's property: its parts that a reader would miss,
`PromotedRowsAreFinal`, `NoHoles` and `CursorAttestsChain`, are.

### PreparedAction

`PreparedAction_proofs` assumes `ActionAssumption`: there is a plan, every plan has a call,
and "no action" and "no hash" are neither. It proves, for any number of actions, calls in a
plan, hashes and requests at once, all that `action_concurrent` checks: `ActionTypeCorrect`,
`ReportsInOrder`, `SimulationsInOrder`, `OutcomesAreOfOperations`, `OffersEarned` and
`KeepsTheCallLog`;
and `ReceiptsStay`, that no reported hash is replaced and no outcome taken back, which the
log says as well and no run checks again.

None of the four safety properties is inductive: a request acts on what it read steps ago.
`ActionInv` adds three things.

- `Ordered`, `OutcomesAreMined`: of each action, calls are reported and simulated in order,
  the count is no higher than the calls reported, and an outcome is what became of the
  receipt's own hash. The last is why a second confirmation writes what is there.
- `Knows`: for each request and each await, what it read that is still true. Reports only
  add up, so a call that was next has its predecessors reported for good, and a count may
  be too low when it is written but never too high. A transaction that inserted a row knows
  that no row was there, and one that did not knows that the row is its own.
- `InsertsDiffer`: two open transactions do not insert the same call's row. It is the primary
  key that makes the second wait (`Contends`), and it is what keeps a commit from replacing
  the other's hash.

Most steps move one request and leave the tables (`Local`, `Move`); four change a table, and for
those `OthersKnow` says which changes no other request can notice. That a prefix of the calls
is as long as it has members (`PrefixSize`) turns the count of rows into their order.
`ActionInv` is proved and not a run's property: the parts a reader would miss are.

`KeepsTheCallLog` is the refinement of `CallLog`. Four steps of the code are steps of the
log (`LogChanges`): a creation opens an action, a recorded simulation tries a call, the
commit of a report enters a receipt or finds it there, and a confirmation tells an outcome
or repeats it; every other step stutters. That the receipt entered is the *next* is `Knows`
and `PrefixSize` (the call has its predecessors reported and is not reported itself, so its
number is the length of the log). That its hash is spent on no other call is not in
`ActionInv`: it needs `InsertsAreNew`, that a row which an open transaction inserted has a
hash that neither a committed row nor another open insert has. The unique index checks the
former when the row is inserted, steps before the commit, and what keeps it true until then
is that an insert waits for the others.

`OffersEarned` needs the newest attempt to be one that was recorded (`NewestIsStored`), which an
attempt that commits late leaves so; and that a call was recorded only after every call before it
was reported is `Ordered`.

### ActionPlans

`ActionPlans_proofs` extends those proofs by the account, the vault and the wallet. It assumes
`PlansAssumption`: amounts are naturals, prices positive, no allowance at the start, an absent
answer is no number and no account, and the plans are those the asks lead to.

- `AllowancesAreAccountedFor` and `AmountsAreWhatHappened` hold with any number of requests at
  once. The tables know neither who signed nor what was mined, and
  `PlansInv` ties them to both: a call is offered only after the calls before it were
  reported (`OffersAreInOrder`), the wallet signs each call once and in that order
  (`SignedInOrder`), the chain mines in the order of the signatures (`MinedInOrder`), a
  hash on record or on its way is of the call it is reported for (`ReceiptsAreSigned`,
  `ReportsAreSigned`). So an approval cannot be mined after its deposit, and what the vault may
  take is a deposit's that is to come. `ActualIsRecorded` names the amount by the
  receipts alone, and only a confirmation changes it (`ConfirmationRecords`).
- `PreparedPlansExecute`: a preparation is refused exactly when its calls
  would not execute. It is about one state, and about folds over the calls.
- `FewAreStranded`, likewise: `LastApprovalStands` is the part of
  `PlansInv` it needs, that the newest successful approval is what the vault may take if
  nothing succeeded after it and nothing was deposited apart.

### ActionConsole

`ActionConsole_proofs` assumes in addition that the tab's action is one and that plans have
finitely many calls in all (`ConsoleAssumption`; the code's have one or two). It proves, for
any number of requests: `ConsoleTypeCorrect`, `AskedInOrder`, `HashesAreOfTheirCalls`,
`ScreenClaimsNoMore`. An answer may be shown long after it was given, so what an answer says
must stay true: `Said` is that of the answer on the screen, of the answers under way, and of
what a request has judged (`Judges`), and `TablesAreGrown` that no step of the API goes back
behind it. A count of signed calls at least as high as the next call shown is `PrefixSize`
again.

### ReportFiling

`ReportFiling_proofs` proves `ServedReportsAreStored` and `VersionsAreCounted`, for any number of
requests, policies, blocks and repairs, and without use of the module's ASSUMEs. Both are about
transactions that cannot see each other, and neither is inductive: a document and a version
number are chosen before the statement that stores them, and the commit is later still.
`FilingInv` says what an open transaction knows.

- `Serves`: a request that found its report stored has the document that is stored, and one that
  inserts it holds an id that nobody else holds (`InsertsDiffer`) and that no report has yet.
  The unique key makes a second insert wait (`ReportContends`); when it goes on, it serves the first
  one's document. A repair withdraws a report and leaves its document and verdicts, so what a
  request knows survives it.
- `Counts`: the number of a version about to be inserted is one more than the versions there
  are, although it was chosen a statement ago. The numbers stored have no gap (`Counted`), so a
  number that is not taken when the insert goes through (`VersionTaken`), and was next when it was
  chosen, still is next. `VersionsDiffer` says that no two open inserts hold the same number, or
  the same content, of one policy.

A commit is the step that makes a row visible, and `CommitServes` and `CommitCounts` are where
the other requests' knowledge is shown to survive it.

`EvidenceEngine_proofs` is about the arithmetic, for all integers: `ReducesToLowestTerms`, that
Euclid's loop finds the greatest common divisor and the fraction keeps its value, and
`BasisPointsAreExact`, that a return rounded down to basis points reaches a threshold exactly when
the return itself does, losses included.

`ReportWindows_proofs` rests on both and proves the rest of `ReportFiling`: `FilingTypeCorrect`,
`CanonicalWindowsAreWhole`, `AbsenceIsAlwaysExplained`, `VerdictsAreAlwaysExact`,
`NoFlowIsMissed` and `WindowsHaveAStart`. Beside the engine's and the bounds' ASSUMEs it uses
three: the releases read the vault (`StreamAssumption`), logs are decoded and answers are
unsigned (`ChainAssumption`), and a policy asks for at least a day (`PolicyAssumption`,
the contract's minimum).

A window is read in three statements, and between any two of them the worker may withdraw blocks
and promote others. No property of a report alone survives that. `WindowInv` rests on one fact:
a repair cuts the ledger from the top, and what is promoted again has a higher generation
(`LedgerInv`, `WorkerStep`). So *as long as the block a window ends at is canonical*, so is every
block below it, the start found a statement later is a canonical start, and the flows found
after that are those between them (`Window`, `Stands`). When the end is withdrawn, it is
withdrawn for good, its generation being past, and the insert is refused, since every report
cites it (`Assembles`, `Keeps`). The lemmas before it follow one block from its logs and calls to
the rows: `Streams` says that a snapshot of a row answers for the calls of its block, and an
absent value for a call without an answer.

### Registry and SearchPage

`SearchPage_proofs` proves about `Registry`, for any manifests, releases, vaults and migration
runs:

- `RegistrySeededWhole`, from `SeededInv`: every row is of a release that was seeded, no row of
  the seeded manifest is behind it, and a vault's one open profile carries the adapter and the
  window of the entry the row was last refreshed from. An upgraded vault cannot be seeded
  (`OpensTwo`), which is why the identity of the profile still agrees with the row; its evidence
  need not, as `ReseedMovesEvidence` shows.
- `ReprobedZerosExplained`, from `ProbedInv`: evidence of the keyed provider comes from a probing in
  which the balance was answered whenever a capacity was (`AccountAnswers`), since they share a
  multicall, and such probes explain their zeros (`ProbesExplain`). The gate's evidence is of
  the public provider (`GateIsPublic`), of which nothing is claimed.
- `MigrationsStayInOrder`, from `MigratingInv`: what a run read as recorded stays so, every file it
  went past is recorded, and a file it is about to record has its tables. Overlapping runs share
  no more than that, and a run that failed claims nothing.

`RegistryAssumption` is that the files are one or more and have names of their own, that a balance
is a natural and that a revert is no number.

About the page, with `NullIsApart`: `StaleIsAnnounced` from `AskedInv`, that the evaluation under way
is the last one asked for, and that a table it failed to replace has a message, an inspection or a
navigation beside it; and `RowIsRepeated` from `RowsInv`: every verdict that anybody holds, in
an answer under way, a row, a remembered row or a stored report, is that of the evidence it
names (`Truthful`, `Filed`). The rest is that the identity of evidence decides its verdict
(`IdentityDecides`), whatever the world has become.

`TablesStayFaithful` rests on `TableInv`: whatever answer is under way has a reply of every
vault, which is a verdict on the draft that was asked about, that draft's issues or the word
that the vault could not be read, and the table has the vaults of the page, one reply each.
Its four parts are then about what the page makes of replies. A sorted table exists for any
number of vaults, because every finite set that is strictly ordered has a sorted listing
(`SetsAreSorted`: of a set without one, the members but the foremost would have none either,
and so down to the empty set), and rows are strictly ordered by verdict, completeness and
name (`RowsAreSorted`). The panel marks an issue at the field it is of and at no other
(`IssuesAreOfFields`, `IssuesAreMalformed`). And a loss shows a sign because the engine's
basis points are exact (`BasisPointsAreExact` of `EvidenceEngine_proofs`): a return below
zero has a numerator below zero, however the quotient is rounded for display
(`ReturnsAreSigned`, `CellsAreSigned`). The ASSUMEs it needs of the instance say that drafts
have the six fields of the form (`DraftAssumption`) and that there is a world for every move
of a scenario, with a window that ends (`WorldAssumption`).

### What is only model-checked

- All liveness: `OrphansAreFound`, `ConfirmedBlocksArePromoted` and `ReportedSettles` rest on
  fairness and ENABLED, which are out of the prover's reach.
- `OfferedIsNext`, that nothing reported is offered, which holds for one request at a time only.
- The eleven violated claims (five runs, six by hand), which are shown by their counterexamples.
- What the remaining operators compute for every input, other than through the theorems that
  use them: the parts of `VaultStream` that only choose triggers, and the wording of a draft's
  issues.

## Not modelled, and the plan

What is left is two overlapping workers, as a variant of `Promotion` with a counter per
job. The documents run one worker at a time and the model follows them; the hazard at
`promote-confirmed.ts:102` has no property until then.

Two more hazards have none. A receipt is stored from a block that a reorg may drop
(`action-service.ts:487`), and no code reads it again, although
`docs/technical/ARCHITECTURE.md:310` asks that a reorg invalidate actions too (see Findings): a model
of it would have no action of the code in it. The order of
rows within a block (`evidence-window.ts:136`) is the database's: the model reads them in
any, and no claim of the code about one id survives that.

Not planned: routing and OpenAPI output, the MCP tools (each calls one route), rendering, zod
schemas other than a policy's, row-level security, calldata encoding and RPC clients. They
keep no state, or their behaviour is one library call. The compiler of sentences into
drafts (`compile.ts`) has no caller.
