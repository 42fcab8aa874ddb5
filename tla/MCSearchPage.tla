---------------------------- MODULE MCSearchPage ----------------------------
(* Small instances of SearchPage for TLC.                                   *)
EXTENDS SearchPage

Spells(n) == [value |-> n, plain |-> n >= 0]
Spaced(n) == [value |-> n, plain |-> FALSE]
Prose == [value |-> Null, plain |-> FALSE]

MCBalanced ==
  [minHistoryDays |-> Spells(4), minTvlAssets |-> Spells(4), returnWindowDays |-> Spells(2),
   minObservedReturnBps |-> Spells(0), owner |-> "owner", minWithdrawableAssets |-> Spells(1)]

\* A draft only some vaults fail, and one whose amount is spaced and whose window is prose.
MCDrafts ==
  {MCBalanced,
   [MCBalanced EXCEPT !.minTvlAssets = Spells(6), !.minHistoryDays = Spells(1)],
   [MCBalanced EXCEPT !.minTvlAssets = Spaced(4), !.returnWindowDays = Prose]}

Snapshot(h, assets, value) ==
  [at |-> h, gen |-> 0, time |-> 4 * h, assets |-> assets, supply |-> 5, units |-> 1,
   value |-> value, schema |-> 1]

Window(start, end) == [start |-> start, end |-> end, flows |-> <<>>]

\* One vault gains and is then only seen once; one loses and then does not; one is not seen.
MCWorlds ==
  [v1 |-> <<Window(Snapshot(1, 5, 3), Snapshot(2, 5, 4)), Window(Null, Snapshot(3, 5, 2))>>,
   v2 |-> <<Window(Snapshot(1, 7, 3), Snapshot(2, 7, 2)),
            Window(Snapshot(2, 7, 2), Snapshot(3, 7, 2))>>,
   v3 |-> <<Null, Null>>]

\* The provider resolves the deployment of one when it answers, and of another never.
MCDeployedAt == [v1 |-> 3, v2 |-> Null, v3 |-> 3]
MCAssetKey == [v \in Vaults |-> "USDC"]
MCNameRank == [v1 |-> 2, v2 |-> 1, v3 |-> 3]

Answering(capacity, shares) ==
  [plain |-> [m \in PlainMethods |-> 5], capacity |-> [m \in CapacityMethods |-> capacity],
   shares |-> shares]

\* The owner comes after the first block, or answers zero, holds nothing, or reverts.
MCChain ==
  [v1 |-> [historical |-> Answering(0, 0), latest |-> Answering(3, 1)],
   v2 |-> [historical |-> Answering(0, 1), latest |-> Answering(0, 0)],
   v3 |-> [historical |-> Answering(Reverts, 1), latest |-> Answering(0, 1)]]

\* The file that rewrites the report tables, and the one whose tables refer to them.
MCMigrations == <<"0001", "0002", "0004">>

\* A keyed endpoint that fails for one batch or for both, and a public one that loses nothing
\* of the first release, and of a later one nothing or the balance.
MCThrottled == {{}, {"plain"}, {"plain", "account"}}
MCServed ==
  LET lossy == {ProbedCalls, ProbedCalls \ {"balanceOf"}}
  IN  <<{ProbedCalls}, lossy, lossy, lossy>>

Entry(status, adapter, from, implementation, protocol) ==
  [status |-> status, adapter |-> adapter, from |-> from, implementation |-> implementation,
   protocol |-> protocol, asset |-> "usdc"]
Plain == Entry("listed", "a1", 1, "i1", "p1")
Degraded == Entry("degraded", "a1", 1, "i1", "p1")
Upgraded == Entry("listed", "a1", 2, "i2", "p1")

Release(vaults) ==
  [chainId |-> 1, protocols |-> {"p1"}, assets |-> {"usdc"}, vaults |-> vaults]

\* Two vaults; then one upgraded, in a window of its own, beside one degraded; then a third
\* of a protocol nobody described; then that one described, and one vault gone.
MCReleases ==
  <<Release([v1 |-> Plain, v2 |-> Plain]),
    Release([v1 |-> Upgraded, v2 |-> Degraded]),
    Release([v1 |-> Plain, v2 |-> Plain, v3 |-> Entry("listed", "a1", 1, "i1", "p2")]),
    Release([v1 |-> Degraded, v3 |-> Plain])>>

Scenario(visits, edits, asks, moves, migrations, releases, probings) ==
  [visits |-> visits, edits |-> edits, asks |-> asks, moves |-> moves,
   migrations |-> migrations, releases |-> releases, probings |-> probings]

\* A visitor who asks twice and edits; one who asks once, edits and whose observations
\* move; one over a registry that is released anew; a registry that is set up, or was set up
\* before, released anew and probed; and a database that is migrated, twice or by two runs
\* at once, while reports are filed.
MCScenarios ==
  {Scenario(1, 1, 2, 0, 0, 0, 0), Scenario(1, 1, 1, 1, 0, 0, 0), Scenario(1, 0, 1, 0, 0, 3, 0),
   Scenario(0, 0, 0, 0, 1, 4, 1), Scenario(0, 0, 0, 0, 0, 3, 1), Scenario(1, 0, 1, 0, 2, 1, 0)}

\* The runs of the migration runner are alike.
Symmetry == Permutations(Migrators)

=============================================================================
