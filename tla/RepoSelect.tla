----------------------------- MODULE RepoSelect -----------------------------
(***************************************************************************)
(* What the sharded searcher does with a query before a shard sees it      *)
(* (search/shards.go selectRepoSet and List, search/eval.go): a repository *)
(* filter at the top selects the shards to search and is then replaced by  *)
(* a constant where every repository of every selected shard satisfies it; *)
(* a type:repo expression is replaced by the repositories it lists.        *)
(*                                                                         *)
(* A ranked shard is [sh, known]: the shard, and whether mkRankedShard     *)
(* could list its repositories.                                            *)
(***************************************************************************)
EXTENDS ShardSearch

CONSTANTS Others,     \* the shards that may be loaded beside the one searched
          RepoQueries \* the queries asked of both

Alive(sh) == {r \in DOMAIN sh.repos : ~sh.repos[r].tomb}

\* mkRankedShard lists the shard with the query TRUE: its live repositories.
mkRankedShard(sh, listed) ==
  [sh |-> sh, known |-> listed, repos |-> IF listed THEN Alive(sh) ELSE {}]

SetQueries == {"reposet", "repoids", "repo", "branchesrepos", "meta"}

\* hasReposForPredicate, for the five kinds of set queries.
hasRepo(sh, c, r) ==
  IF c.k = "branchesrepos"
  THEN \E i \in DOMAIN c.list : sh.repos[r].id \in c.list[i][2]
  ELSE RepoWant(sh, c, r)

\* The child that replaces a set query all selected repositories satisfy.
\* BranchesRepos asks for a branch as well; only a single one can be kept.
\* Mutation: the branch is forgotten.
ReplacementNoBranch(c) == Const(TRUE)

Replacement(c) ==
  CASE c.k # "branchesrepos" -> Const(TRUE)
    [] c.k = "branchesrepos" /\ Len(c.list) = 1 -> Branch(c.list[1][1], TRUE)
    [] OTHER -> c

\* doSelectRepoSet looks at the first set query only.  A shard whose
\* repositories are not known is always searched, and forbids rewriting.
doSelectRepoSet(shards, and) ==
  LET i == MinOf({j \in DOMAIN and.kids : and.kids[j].k \in SetQueries})
      c == and.kids[i]
      Some(s) == ~s.known \/ \E r \in s.repos : hasRepo(s.sh, c, r)
      All(s) == s.known /\ \A r \in s.repos : hasRepo(s.sh, c, r)
      filtered == SelectSeq(shards, Some)
      new == [and EXCEPT !.kids[i] = Replacement(c)]
  IN CASE i = Infinity -> [shards |-> shards, q |-> and]
       [] i # Infinity /\ (filtered = <<>> \/ \E j \in DOMAIN filtered : ~All(filtered[j])) ->
            [shards |-> filtered, q |-> and]
       [] OTHER -> [shards |-> filtered,
                    q |-> IF Replacement(c) = c THEN and ELSE Simplify(new)]

\* selectRepoSet wraps a query that is no conjunction.
selectRepoSet(shards, x) ==
  IF x.k = "and" THEN doSelectRepoSet(shards, x)
  ELSE LET s == doSelectRepoSet(shards, And(<<x>>)) IN [s EXCEPT !.q = Simplify(@)]

\* indexData.List: a query that is TRUE for the shard lists every live
\* repository, whether it has documents or not.
listOneShard(sh, x) ==
  LET s == simplify(sh, x)
  IN {sh.repos[r].name :
        r \in CASE s = Const(TRUE)  -> Alive(sh)
                [] s = Const(FALSE) -> {}
                [] OTHER            -> {RepoOf(sh, d) : d \in Matching(sh, s)}}

\* shardedSearcher.List: the repositories of the selected shards, each once.
List(shards, x) ==
  LET sel == selectRepoSet(shards, Simplify(x))
  IN UNION {listOneShard(sel.shards[i].sh, sel.q) : i \in DOMAIN sel.shards}

\* typeRepoSearcher.eval: Map works from the leaves up, so a type:repo inside
\* another one is replaced first.
RECURSIVE evalTypeRepo(_, _)
evalTypeRepo(shards, x) ==
  CASE x.k \in Many -> [x EXCEPT !.kids = [i \in DOMAIN x.kids |-> evalTypeRepo(shards, x.kids[i])]]
    [] x.k \in One ->
         LET kid == evalTypeRepo(shards, x.kid)
         IN IF x.k = "type" /\ x.t = TypeRepo THEN RepoSet(List(shards, kid))
            ELSE [x EXCEPT !.kid = kid]
    [] OTHER -> x

\* The shards a search visits and the query it takes to them.
Plan(shards, x) == selectRepoSet(shards, Simplify(evalTypeRepo(shards, x)))

-----------------------------------------------------------------------------
(* Reference: the documents of a loaded set of shards that a query is true  *)
(* of, a type:repo expression being true of every document of a repository *)
(* that has a document, in any shard, its child is true of.                *)

RECURSIVE TypeRepoMeans(_, _)
TypeRepoMeans(shards, x) ==
  CASE x.k \in Many -> [x EXCEPT !.kids = [i \in DOMAIN x.kids |-> TypeRepoMeans(shards, x.kids[i])]]
    [] x.k = "type" /\ x.t = TypeRepo ->
         LET kid == TypeRepoMeans(shards, x.kid)
         IN RepoSet(UNION {{shards[i].sh.repos[RepoOf(shards[i].sh, d)].name :
                              d \in Matching(shards[i].sh, kid)} : i \in DOMAIN shards})
    [] x.k \in One /\ ~(x.k = "type" /\ x.t = TypeRepo) ->
         [x EXCEPT !.kid = TypeRepoMeans(shards, x.kid)]
    [] OTHER -> x

Answer(shards, x) ==
  UNION {{<<shards[i].sh, d>> : d \in Matching(shards[i].sh, x)} : i \in DOMAIN shards}

\* Exception: a repository filter by one branch that the rewriting takes for
\* another.  The filter wants a branch of that very name (read.go:350-357,
\* matchtree.go:1185); the branch query put in its place takes HEAD for the
\* first branch of every repository (matchtree.go:1093-1096) and an empty name
\* for any branch (query.go:662).
HeadFirst(shards) == \A i \in DOMAIN shards : \A r \in Alive(shards[i].sh) : shards[i].sh.repos[r].brs[1] = HEAD

Loose(shards, a) ==
  /\ a.k = "branchesrepos" /\ Len(a.list) = 1
  /\ a.list[1][1] = <<>> \/ (a.list[1][1] = HEAD /\ ~HeadFirst(shards))

\* The query read as if every such filter were the branch query and the set of
\* repositories.
RECURSIVE LooseReading(_, _)
LooseReading(shards, x) ==
  CASE x.k \in Many -> [x EXCEPT !.kids = [i \in DOMAIN x.kids |-> LooseReading(shards, x.kids[i])]]
    [] x.k \in One -> [x EXCEPT !.kid = LooseReading(shards, x.kid)]
    [] x.k = "branchesrepos" /\ Loose(shards, x) ->
         And(<<RepoIDs(x.list[1][2]), evalAtom(Branch(x.list[1][1], TRUE))>>)
    [] OTHER -> x

\* Selecting shards by a repository filter, rewriting the filter away and
\* evaluating type:repo first does not change the documents a query finds over
\* all loaded shards, also beside a shard whose repositories could not be
\* listed and with tombstoned repositories.  A query with a filter by HEAD,
\* where HEAD is not the first branch, or by an empty branch name finds either
\* what the filter says or what the branch query in its place says, depending
\* on what else is loaded.
SelectExact ==
  pc = "idle" =>
    \A other \in Others, x \in RepoQueries, listed \in BOOLEAN :
      LET shards == <<mkRankedShard(shard, TRUE), mkRankedShard(other, listed)>>
          Means(y) == Answer(shards, TypeRepoMeans(shards, y))
      IN \A p \in {Plan(shards, x)} :
           Answer(p.shards, p.q) \in {Means(x), Means(LooseReading(shards, x))}
=============================================================================
