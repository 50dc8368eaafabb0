------------------------------ MODULE MCShard ------------------------------
(***************************************************************************)
(* What one repository's shards hold, find and show.  A behaviour searches *)
(* a shard (ShardSearch, and RepoSelect over a pair of shards), goes        *)
(* through the cases of the algorithms without state (MCAlgorithms), or     *)
(* indexes a git repository that changes (GitIndex).                       *)
(***************************************************************************)
EXTENDS MCShardSearch, MCAlgorithms, GitIndex, TLC

-----------------------------------------------------------------------------
\* GitIndex: two branches, a file, a second one that an ignore file may match or
\* that is too large, and a submodule at one of two commits, of which one has the
\* other as a submodule.
MCBranches == <<"m", "x">>
MCPaths == {"p", "q", "ignore", "modules", "s"}
MCIgnores == 1 :> {"q"}
MCModules == (1 :> {"s"}) @@ (2 :> {"t"})
MCSubTree == (1 :> ("f" :> FileEntry(5))) @@
             (2 :> (("f" :> FileEntry(5)) @@ ("modules" :> FileEntry(2)) @@ ("t" :> SubEntry(1))))
MCFirstTree == ("p" :> FileEntry(1)) @@ ("q" :> NoEntry) @@ ("ignore" :> NoEntry) @@
               ("modules" :> FileEntry(1)) @@ ("s" :> SubEntry(1))
MCEdits == {[path |-> "p", entry |-> FileEntry(2)], [path |-> "p", entry |-> NoEntry],
            [path |-> "q", entry |-> FileEntry(9)], [path |-> "q", entry |-> NoEntry],
            [path |-> "ignore", entry |-> FileEntry(1)],
            [path |-> "modules", entry |-> NoEntry],
            [path |-> "s", entry |-> SubEntry(2)], [path |-> "s", entry |-> FileEntry(1)]}
Opts(bs, subs, miss, thr) ==
  [branches |-> bs, submodules |-> subs, allowMissing |-> miss, incremental |-> TRUE, threshold |-> thr]
MCGitOptions == {Opts(<<"*">>, FALSE, FALSE, 0), Opts(<<"x", "m">>, TRUE, TRUE, 0), Opts(<<"m", "x">>, FALSE, TRUE, 1)}
-----------------------------------------------------------------------------
NoSearch == /\ shard = [docs |-> <<>>, repos |-> <<>>, cache |-> 0]
            /\ pc = "off" /\ q = Nil /\ mt = NoTree /\ lastDoc = -1
            /\ lim = <<0, 0>> /\ repoCount = <<0, 0>> /\ files = <<>>
            /\ total = 0 /\ cut = FALSE /\ cache = <<>> /\ stale = -1

NoGit == /\ gitOpts = [branches |-> <<>>] /\ commits = <<>> /\ refs = <<>>
         /\ shards = <<>> /\ builds = 0

ShardInit == \/ Init /\ case = Off /\ NoGit
             \/ NoSearch /\ CaseInit /\ NoGit
             \/ NoSearch /\ case = Off /\ GitInit

ShardNext == \/ pc # "off" /\ Next /\ UNCHANGED <<case, gitVars>>
             \/ case # Off /\ CaseNext /\ UNCHANGED <<vars, gitVars>>
             \/ commits # <<>> /\ GitNext /\ UNCHANGED <<vars, case>>

ShardSpec == ShardInit /\ [][ShardNext]_<<vars, case, gitVars>>
=============================================================================
