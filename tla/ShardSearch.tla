---------------------------- MODULE ShardSearch ----------------------------
(***************************************************************************)
(* Search and List on one shard (indexData, index/eval.go), one document   *)
(* per step.  A search simplifies the query for the shard's repositories,  *)
(* expands its atoms, builds and prunes the match tree, and then asks the  *)
(* tree for one document after the other.                                  *)
(*                                                                         *)
(* The per-document limits are ShardMaxMatchCount and                      *)
(* ShardRepoMaxMatchCount (0 is no limit); List searches with one match    *)
(* per repository.  The context may be cancelled between two documents.    *)
(***************************************************************************)
EXTENDS MatchTree

CONSTANTS Shards,      \* the shards a search may meet
          Queries,     \* the queries asked
          Limits       \* pairs of shard and repository match limits

ASSUME SearchAssumption == /\ NgramSize \in Nat \ {0}
                           /\ \A s \in Shards : s.cache \in Nat
                           /\ \A l \in Limits : l \in Nat \X Nat

VARIABLES shard,       \* the shard being searched
          pc,          \* "idle", "search", "done", "crash"
          q,           \* the query, as it came
          mt,          \* the match tree
          lastDoc,     \* the last document looked at
          lim,         \* [shard, repo]: the limits of this search
          repoCount,   \* matches found in the current repository, and which it is
          files,       \* the file matches: document, its matches, its branches
          total,       \* Stats.MatchCount
          cut,         \* the search stopped or skipped documents at a limit
          cache,       \* docMatchTreeCache: where the cached tree of a Meta atom stands
          stale        \* where the furthest tree this search took from the cache stood

vars == <<shard, pc, q, mt, lastDoc, lim, repoCount, files, total, cut, cache, stale>>

-----------------------------------------------------------------------------
(* Simplification for a shard.                                             *)

\* simplifyMultiRepo: TRUE when every live repository satisfies the
\* predicate, FALSE when none does.
simplifyMultiRepo(sh, a) ==
  LET alive == {r \in DOMAIN sh.repos : ~sh.repos[r].tomb}
      want == {r \in alive : RepoWant(sh, a, r)}
  IN CASE want = alive -> Const(TRUE)
       [] want # alive /\ want = {} -> Const(FALSE)
       [] OTHER -> a

\* simplify on one atom: repository filters, and languages the shard lacks.
simplifyAtom(sh, a) ==
  CASE a.k \in {"repo", "reposet", "repoids", "rawconfig", "meta"} -> simplifyMultiRepo(sh, a)
    [] a.k = "branchesrepos" ->
         IF \E r \in DOMAIN sh.repos, i \in DOMAIN a.list : sh.repos[r].id \in a.list[i][2]
         THEN a ELSE Const(FALSE)
    [] a.k = "lang" -> IF \E d \in DOMAIN sh.docs : sh.docs[d].lang = a.lang THEN a ELSE Const(FALSE)
    [] OTHER -> a

RECURSIVE mapAtoms(_, _)
mapAtoms(sh, x) ==
  CASE x.k \in Many -> [x EXCEPT !.kids = [i \in DOMAIN x.kids |-> mapAtoms(sh, x.kids[i])]]
    [] x.k \in One -> [x EXCEPT !.kid = mapAtoms(sh, x.kid)]
    [] OTHER -> simplifyAtom(sh, x)

simplify(sh, x) == Simplify(mapAtoms(sh, x))

-----------------------------------------------------------------------------
(* The search.                                                             *)

Init ==
  /\ shard \in Shards
  /\ pc = "idle" /\ q = Nil /\ mt = NoTree /\ lastDoc = -1
  /\ lim = <<0, 0>> /\ repoCount = <<0, 0>> /\ files = <<>> /\ total = 0 /\ cut = FALSE
  /\ cache = <<>> /\ stale = -1

\* docMatchTreeCache holds the trees of Meta atoms by field and value, and a
\* tree keeps the position of its last use.  A search takes a tree that is
\* there; of new ones that do not all fit, any may be thrown out.  One search
\* uses a shard at a time here: in the code several share such a tree.
RECURSIVE WithCache(_, _)
WithCache(t, c) ==
  CASE t.t \in {"and", "or", "line"} ->
         [t EXCEPT !.kids = [i \in DOMAIN t.kids |-> WithCache(t.kids[i], c)]]
    [] t.t \in {"not", "name", "boost", "novisit"} -> [t EXCEPT !.kid = WithCache(t.kid, c)]
    [] t.t = "doc" /\ t.why \in DOMAIN c -> [t EXCEPT !.done = c[t.why].done, !.doc = c[t.why].doc]
    [] OTHER -> t

RECURSIVE MetaTrees(_)
MetaTrees(t) ==
  CASE t.t \in {"and", "or", "line"} -> UNION {MetaTrees(t.kids[i]) : i \in DOMAIN t.kids}
    [] t.t \in {"not", "name", "boost", "novisit"} -> MetaTrees(t.kid)
    [] t.t = "doc" /\ t.why.k = "meta" -> {[why |-> t.why, done |-> t.done, doc |-> t.doc]}
    [] OTHER -> {}

\* The entries of the cache whose trees are in t move with them.
Advanced(t, c) ==
  [a \in DOMAIN c |-> LET used == {m \in MetaTrees(t) : m.why = a}
                      IN IF used = {} THEN c[a] ELSE CHOOSE m \in used : TRUE]

\* Add, for the Meta trees of t that are not cached yet.
Cached(t) ==
  LET fresh == [a \in {m.why : m \in MetaTrees(t)} \ DOMAIN cache |->
                  CHOOSE m \in MetaTrees(t) : m.why = a]
      all == DOMAIN cache \cup DOMAIN fresh
      room == Min2(shard.cache, Cardinality(all))
  IN {[a \in S |-> IF a \in DOMAIN cache THEN cache[a] ELSE fresh[a]] :
        S \in {S \in SUBSET all : Cardinality(S) = room}}

Position(t) == Max({-1} \cup {m.doc : m \in {n \in MetaTrees(t) : n.done}})

\* Search up to the loop: an empty shard, a query that simplifies to FALSE
\* and a tree that cannot match end it here.
Start ==
  /\ pc = "idle"
  /\ \E x \in Queries, l \in Limits :
       \E s \in {simplify(shard, x)} :
       \E t \in {WithCache(newMatchTree(shard, ExpandFileContent(s), FALSE), cache)} :
       LET p == prune(t)
           none == shard.docs = <<>> \/ s = Const(FALSE)
       IN /\ q' = x /\ lim' = l
          /\ mt' = IF none THEN NoTree ELSE p
          /\ pc' = CASE none -> "done"
                     [] ~none /\ t \in {CrashTree, ErrTree} -> "crash"
                     [] ~none /\ t \notin {CrashTree, ErrTree} /\ p = Impossible -> "done"
                     [] OTHER -> "search"
          /\ stale' = IF none THEN -1 ELSE Position(t)
          /\ IF none THEN cache' = cache ELSE cache' \in Cached(t)
  /\ lastDoc' = -1 /\ repoCount' = <<0, 0>> /\ files' = <<>> /\ total' = 0 /\ cut' = FALSE
  /\ UNCHANGED shard

\* The documents a search steps over: of a tombstoned repository, tombstoned
\* themselves, or of a repository that reached its limit.
Dead(d) == LET r == shard.repos[RepoOf(shard, d)]
           IN r.tomb \/ shard.docs[d + 1].name \in r.ftombs
Full(d) == lim[2] > 0 /\ repoCount[2] >= lim[2] /\ RepoOf(shard, d) = repoCount[1]

\* Where the tree wants to look next, never at or before the last document.
From(t) == Max2(nextDoc(shard, t), lastDoc + 1)
Target == MinOf({d \in From(mt)..(NumDocs(shard) - 1) : ~Dead(d) /\ ~Full(d)})
Skipped == {d \in From(mt)..(Min2(Target, NumDocs(shard)) - 1) : ~Dead(d) /\ Full(d)}

\* The document the loop has reached is evaluated at every cost, and gathered
\* when no cost says no.  The matches of a document count one by one.
NextFile ==
  /\ pc = "search"
  /\ Target < NumDocs(shard)
  /\ ~(lim[1] > 0 /\ total >= lim[1])
  /\ \E d \in {Target} : \E r \in {evalAll(shard, prepare(shard, mt, d), d, 0)} :
     LET cands == gatherMatches(shard, d, r.mt)
         before == IF repoCount[1] = RepoOf(shard, d) THEN repoCount[2] ELSE 0
         n == IF r.st = "no" THEN 0 ELSE Len(cands)
     IN /\ lastDoc' = d
        /\ mt' = r.mt
        /\ pc' = IF r.st = "more" THEN "crash" ELSE "search"
        /\ files' = IF r.st = "no" THEN files
                    ELSE Append(files, [doc |-> d, cands |-> cands,
                                        branches |-> gatherBranches(shard, d, r.mt)])
        /\ repoCount' = <<RepoOf(shard, d), before + n>>
        /\ total' = total + n
        /\ cache' = Advanced(r.mt, cache)
        /\ cut' = (cut \/ Skipped # {})
  /\ UNCHANGED <<shard, q, lim, stale>>

\* No document is left, the limit of the shard is reached, or the context is
\* cancelled while documents are left.
Finish ==
  /\ pc = "search"
  /\ pc' = "done"
  /\ \/ Target >= NumDocs(shard) /\ cut' = (cut \/ Skipped # {})
     \/ Target < NumDocs(shard) /\ cut' = TRUE
  /\ UNCHANGED <<shard, q, mt, lastDoc, lim, repoCount, files, total, cache, stale>>

\* The next search on the same shard.
Reset ==
  /\ pc \in {"done", "crash"}
  /\ pc' = "idle" /\ q' = Nil /\ mt' = NoTree /\ lastDoc' = -1 /\ files' = <<>>
  /\ lim' = <<0, 0>> /\ repoCount' = <<0, 0>> /\ total' = 0 /\ cut' = FALSE
  /\ stale' = -1
  /\ UNCHANGED <<shard, cache>>

Next == Start \/ NextFile \/ Finish \/ Reset

Spec == Init /\ [][Next]_vars

-----------------------------------------------------------------------------
(* Reference: what a query means for one document, without an index.       *)

AtomTrue(sh, d, a) ==
  LET doc == sh.docs[d + 1]
      s == Data(sh, d, a.file)
  IN CASE a.k = "substr" -> \E i \in 0..Len(s) : LitAt(a.p, s, i, a.cs)
       [] a.k = "re" -> FindAll(a.re, s, a.cs, 0, -1) # <<>>
       [] a.k = "symbol" ->
            \E i \in DOMAIN doc.syms :
              LET sym == SubSeq(doc.text, doc.syms[i][1] + 1, doc.syms[i][2])
              IN IF a.kid.k = "substr" THEN \E j \in 0..Len(sym) : LitAt(a.kid.p, sym, j, a.kid.cs)
                 ELSE FindAll(a.kid.re, sym, a.kid.cs, 0, -1) # <<>>
       [] a.k = "branch" -> doc.branches \cap BranchWant(sh, a, doc.repo) # {}
       [] a.k = "branchesrepos" -> doc.branches \cap BranchesWant(sh, a, doc.repo) # {}
       [] a.k = "lang" -> doc.lang = a.lang
       [] a.k = "filenames" -> doc.name \in a.files
       [] OTHER -> RepoWant(sh, a, doc.repo)

Matching(sh, x) ==
  LET e == ExpandFileContent(x)
  IN {d \in 0..(NumDocs(sh) - 1) :
        /\ ~sh.repos[RepoOf(sh, d)].tomb
        /\ sh.docs[d + 1].name \notin sh.repos[RepoOf(sh, d)].ftombs
        /\ Holds(e, {a \in Atoms(e) : a.k # "const" /\ AtomTrue(sh, d, a)})}

FoundDocs == {files[i].doc : i \in DOMAIN files}

-----------------------------------------------------------------------------
(* Properties.                                                             *)

\* Exception: a word that holds a character that is no word character.
\* wordMatchTree asks for no word character on either side, which is not what
\* \b means there, and passes over an occurrence that overlaps the one before
\* (matchtree.go:822-859).
OddWord(a) == a.k = "re" /\ IsWord(a, FALSE) /\ \E c \in ToSet(a.re.sub[2].r) : ~WordChar(c)
Odd(x) == \E a \in Atoms(ExpandFileContent(x)) : OddWord(a)

\* Exception: documents up to the place where a Meta tree from the cache
\* stood when the search began; it never looks back (matchtree.go:1061).
Beyond(docs) == {d \in docs : d > stale}

\* A search without an odd word finds only live documents the query is true
\* of, and one that met no limit finds all of them that lie beyond the
\* position of the Meta trees it took from the cache, which are all documents
\* where there was none: the n-gram index, the skipping of documents, the
\* order of evaluation by cost, the pruning and the simplification otherwise
\* lose and add no document.  What an odd word alone finds holds its literal.
FoundExact ==
  /\ pc = "crash" => q.k = "symbol"
  /\ (pc = "done" /\ ~Odd(q)) =>
       /\ FoundDocs \subseteq Matching(shard, q)
       /\ ~cut => Beyond(Matching(shard, q)) \subseteq FoundDocs
  /\ (pc = "done" /\ q.k = "re" /\ OddWord(q)) =>
       FoundDocs \subseteq Matching(shard, Substring(q.re.sub[2].r, FALSE, TRUE, TRUE))

\* With one match per repository, which is how List searches, every
\* repository that has a matching document is still found, with the same
\* exceptions.
ListFindsAll ==
  (pc = "done" /\ lim = <<0, 1>> /\ lastDoc < NumDocs(shard) /\ Target >= NumDocs(shard) /\ ~Odd(q)) =>
    {RepoOf(shard, d) : d \in Beyond(Matching(shard, q))} \subseteq {RepoOf(shard, d) : d \in FoundDocs}

\* What Search and List of a shard find.
SearchExact == FoundExact /\ ListFindsAll

\* The matches of a file are in document order and do not overlap, file name
\* matches first, and each lies inside the text it is a match of.
MatchesInOrder ==
  \A i \in DOMAIN files :
    LET f == files[i]
        Size(c) == Len(Data(shard, f.doc, c.file))
    IN /\ \A j \in DOMAIN f.cands : f.cands[j].off + f.cands[j].sz <= Size(f.cands[j])
       /\ \A j \in 1..(Len(f.cands) - 1) :
            LET a == f.cands[j]  b == f.cands[j + 1]
            IN (a.file /\ ~b.file) \/ (a.file = b.file /\ a.off + a.sz <= b.off)
       /\ f.branches \subseteq shard.docs[f.doc + 1].branches /\ f.branches # {}
=============================================================================
