--------------------------- MODULE MCReportFiling ---------------------------
(* Small instances of ReportFiling for TLC.                                 *)
EXTENDS ReportFiling, TLC

Log(address, kind, from, to, assets) ==
  [address |-> address, kind |-> kind, from |-> from, to |-> to, assets |-> assets]

Deposit(n) == Log("vault", "deposit", Null, Null, n)
Withdraw(n) == Log("vault", "withdraw", Null, Null, n)
Mint == Log("vault", "share_transfer", ZeroAddress, "holder", Null)
Burn == Log("vault", "share_transfer", "holder", ZeroAddress, Null)
Move == Log("vault", "share_transfer", "holder", "other", Null)

\* Events of another curated vault, and of a contract nobody asked about.
Elsewhere == Log("vault2", "deposit", Null, Null, 7)
Foreign == Log("token", "share_transfer", ZeroAddress, "holder", Null)

Answers(assets, value) ==
  [assets |-> assets, supply |-> 5, decimals |-> 1, value |-> value]

Block(logs, answers) ==
  [logs |-> logs, calls |-> [v \in {"vault", "vault2"} |-> answers]]

Release(decimals) ==
  [anchor |-> 1, interval |-> 3, schema |-> 1, vaults |-> [v \in {"vault", "vault2"} |-> decimals]]

Streamed(params, block) == [params |-> params, block |-> block]

\* A quiet first block whose assets reverted, streamed by an older manifest, or a
\* deposit; a withdrawal while the provider is unreachable, or a block without a
\* snapshot; and a loss that is no whole number of basis points.
MCBlockContents ==
  <<<<Streamed(Release(2), Block(<<Foreign>>, Answers(Null, 3))),
     Streamed(Release(1), Block(<<Mint, Deposit(2)>>, Answers(5, 3)))>>,
    <<Streamed(Release(1), Block(<<Burn, Withdraw(1)>>, Null)),
     Streamed(Release(1), Block(<<Move, Elsewhere>>, Answers(6, 4)))>>,
    <<Streamed(Release(1), Block(<<Withdraw(1)>>, Answers(4, 2)))>>>>

Policy(name, tvl, bps, days) ==
  [name |-> name, assets |-> {"USDC"}, historyDays |-> 2, minTvl |-> tvl, minBps |-> bps,
   bpsDays |-> days, owner |-> "owner", minWithdraw |-> 0]

\* The loss from 3 to 2, floored, is just below the first policy's.
MCPolicies == {Policy("lax", 4, -3333, 2), Policy("strict", 5, -5000, 1)}
MCKnown == {Policy("first", 1, 0, 1)}
MCPolicyRow == [p \in MCPolicies \cup MCKnown |-> "row"]

\* The only window of two days that is complete takes exactly half a day more.
MCBlockTime == <<3, 7, 8>>

Symmetry == Permutations(Requests)

=============================================================================
