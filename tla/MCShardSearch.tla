--------------------------- MODULE MCShardSearch ---------------------------
(* Instances of ShardSearch for TLC: n-grams of two runes, so that texts of *)
(* four to six runes already hold overlapping and distant n-grams.         *)
EXTENDS RepoSelect

MCHEAD == <<9, 9>>
Main == <<3>>
Dev == <<3, 4>>

Doc(text, name, repo, branches, lang, syms) ==
  [text |-> text, name |-> name, repo |-> repo, branches |-> branches, lang |-> lang, syms |-> syms]
RepoRec(name, id, tomb, ftombs, meta, flags) ==
  [name |-> name, id |-> id, tomb |-> tomb, ftombs |-> ftombs, meta |-> meta, flags |-> flags,
   brs |-> <<Main, Dev>>]

Texts == {<<>>, <<1, 2, 1, 2>>, <<1, 12, 3>>, <<2, 1, 0, 1, 2>>, <<3, 1, 2, 3, 1, 2>>,
          <<1, 20, 1, 20, 1>>, <<1, 2, 0, 2, 3, 0, 1, 2, 2, 3>>}

MkShard(t, u, r, tb) ==
  [docs |-> <<Doc(t, <<1, 2>>, 1, {Main}, 1, <<<<0, Min2(2, Len(t))>>>>),
              Doc(u, <<2>>, r, {Main, Dev}, 2, IF Len(u) < 3 THEN <<>> ELSE <<<<0, 1>>, <<1, 3>>>>),
              Doc(<<1, 2, 3>>, <<3, 1>>, 2, {Dev}, 1, <<<<0, 2>>, <<2, 3>>>>)>>,
   repos |-> <<RepoRec(1, 1, FALSE, IF tb = 1 THEN {<<1, 2>>} ELSE {}, <<7>>, {1, 8}),
               RepoRec(2, 2, tb = 2, {}, <<8>>, {2, 8})>>,
   cache |-> 0]

\* The first branch of every repository is called HEAD.
Headed(sh) ==
  LET Name(b) == IF b = Main THEN MCHEAD ELSE b
  IN [sh EXCEPT !.docs = [i \in DOMAIN @ |-> [@[i] EXCEPT !.branches = {Name(b) : b \in @}]],
                !.repos = [r \in DOMAIN @ |-> [@[r] EXCEPT !.brs = [i \in DOMAIN @ |-> Name(@[i])]]]]

\* Every pair of texts with all repositories alive, each text beside a fixed
\* one with a tombstoned document or a tombstoned repository, a cache with
\* room for one tree and for two, branches called HEAD, and an empty shard.
MCShards ==
  {MkShard(t, u, 1, 0) : t \in Texts, u \in Texts}
  \cup {MkShard(t, <<1, 2, 3>>, r, tb) : t \in Texts, r \in 1..2, tb \in 1..2}
  \cup {[MkShard(<<1, 2, 1, 2>>, <<2, 1, 0, 1, 2>>, r, 0) EXCEPT !.cache = r] : r \in 1..2}
  \cup {Headed(MkShard(<<1, 2, 1, 2>>, <<1, 2, 3>>, r, 0)) : r \in 1..2}
  \cup {[docs |-> <<>>, repos |-> <<RepoRec(1, 1, FALSE, {}, <<7>>, {})>>, cache |-> 0]}

S(p, cs) == Substring(p, FALSE, FALSE, cs)
C(p, cs) == Substring(p, FALSE, TRUE, cs)
F(p) == Substring(p, TRUE, FALSE, FALSE)
X(re, cs) == Regexp(re, FALSE, TRUE, cs)

MCQueries ==
  {S(<<1, 2>>, FALSE), C(<<1, 2, 3>>, TRUE), C(<<1, 2, 1, 2>>, FALSE), C(<<2, 3, 1, 2>>, TRUE),
   C(<<12>>, TRUE), C(<<12, 3>>, FALSE), C(<<2, 20, 1>>, FALSE), C(<<9, 9>>, FALSE),
   F(<<1, 2>>), F(<<1>>),
   Not(C(<<1, 2, 3>>, FALSE)), Not(C(<<9, 9>>, TRUE)),
   And(<<C(<<1, 2>>, FALSE), Not(F(<<1, 2>>))>>),
   And(<<C(<<2, 3>>, FALSE), C(<<3, 1>>, FALSE), Not(C(<<9, 9>>, FALSE))>>),
   Or(<<C(<<9, 9>>, FALSE), C(<<1, 2>>, TRUE), F(<<3, 1>>)>>),
   And(<<Or(<<C(<<2, 3>>, FALSE), F(<<2>>)>>), C(<<1, 2, 3>>, FALSE)>>),
   X(ConcatRe(<<Lit(<<1, 2>>), StarRe(AnyRe), Lit(<<2, 3>>)>>), TRUE),
   X(ConcatRe(<<Lit(<<1, 2>>), StarRe(Re("anynl", <<>>, <<>>)), Lit(<<2, 3>>)>>), TRUE),
   X(AltRe(<<Lit(<<1, 2, 3>>), Lit(<<2, 1>>)>>), FALSE),
   X(AltRe(<<Lit(<<3>>), Lit(<<1, 2>>)>>), FALSE),
   X(Re("plus", <<>>, <<Lit(<<1, 2>>)>>), FALSE),
   X(ConcatRe(<<Lit(<<2, 3>>), Re("plus", <<>>, <<Lit(<<1, 2>>)>>)>>), TRUE),
   X(ConcatRe(<<WordRe, Lit(<<1, 2>>), WordRe>>), TRUE),
   X(ConcatRe(<<WordRe, Lit(<<1, 2>>), WordRe>>), FALSE),
   X(ConcatRe(<<WordRe, Lit(<<20, 1>>), WordRe>>), TRUE),
   X(ConcatRe(<<WordRe, Lit(<<1, 20, 1>>), WordRe>>), TRUE),
   X(StarRe(Lit(<<1>>)), FALSE),
   Symbol(S(<<1, 2>>, FALSE)), Symbol(S(<<2>>, FALSE)), Symbol(S(<<2, 3>>, FALSE)),
   Symbol(Regexp(StarRe(AnyRe), FALSE, FALSE, FALSE)),
   Symbol(Regexp(ConcatRe(<<Lit(<<1, 2>>), StarRe(AnyRe), Lit(<<3>>)>>), FALSE, FALSE, FALSE)),
   Symbol(Regexp(AltRe(<<Lit(<<1, 2>>), Lit(<<2, 3>>)>>), FALSE, FALSE, FALSE)),
   And(<<Branch(Dev, FALSE), C(<<1, 2>>, FALSE)>>), Branch(<<9, 9>>, FALSE), Branch(<<4>>, FALSE),
   Not(Branch(Main, TRUE)),
   And(<<Language(2), C(<<1>>, FALSE)>>), Language(3),
   And(<<Repo({1}), S(<<1, 2>>, FALSE)>>), Not(RepoSet({2})), RepoIDs({1, 2}), RawConfig({8}),
   And(<<RawConfig({2}), C(<<1, 2>>, FALSE)>>),
   And(<<Meta(1, {7}), S(<<1, 2>>, FALSE)>>), Or(<<Meta(1, {8}), C(<<2, 1>>, FALSE)>>),
   BranchesRepos(<<<<Dev, {1}>>, <<Main, {2}>>>>),
   And(<<BranchesRepos(<<<<Dev, {1, 2}>>>>), C(<<1, 2>>, FALSE)>>), BranchesRepos(<<<<MCHEAD, {1}>>>>),
   FileNameSet({<<2>>}), Type(TypeFileName, C(<<1, 2>>, FALSE)),
   Boost(2, Or(<<C(<<1, 2>>, FALSE), C(<<2, 3>>, FALSE)>>))}

\* A shard beside the one searched: the second repository alone, the first
\* alone, each of them with HEAD, and an empty shard.
OtherShard(r) ==
  [docs |-> <<Doc(<<1, 2>>, <<4>>, 1, {Main}, 1, <<>>)>>,
   repos |-> <<RepoRec(r, r, FALSE, {}, <<6 + r>>, {r})>>, cache |-> 0]

MCOthers ==
  {OtherShard(r) : r \in 1..2} \cup {Headed(OtherShard(r)) : r \in 1..2}
  \cup {[docs |-> <<>>, repos |-> <<RepoRec(3, 3, FALSE, {}, <<7>>, {})>>, cache |-> 0]}

MCRepoQueries ==
  {C(<<1, 2>>, FALSE), Const(TRUE),
   And(<<Repo({1}), S(<<1, 2>>, FALSE)>>), RepoSet({2}), Not(RepoSet({2})), RepoIDs({1, 2}),
   And(<<RepoIDs({2}), RepoSet({1, 2})>>), And(<<S(<<1, 2>>, FALSE), RepoSet({1, 3})>>),
   And(<<Meta(1, {7}), S(<<1, 2>>, FALSE)>>), Or(<<RepoSet({1}), Repo({2})>>),
   BranchesRepos(<<<<Dev, {1}>>, <<Main, {2}>>>>), BranchesRepos(<<<<Main, {1, 2}>>>>),
   And(<<BranchesRepos(<<<<Dev, {1, 2}>>>>), C(<<1, 2>>, FALSE)>>),
   BranchesRepos(<<<<MCHEAD, {1, 2}>>>>), And(<<BranchesRepos(<<<<MCHEAD, {2}>>>>), C(<<1, 2>>, FALSE)>>),
   BranchesRepos(<<<<<<>>, {1, 2}>>>>), Type(TypeRepo, BranchesRepos(<<<<MCHEAD, {2}>>>>)),
   Type(TypeRepo, C(<<1, 2, 3>>, FALSE)),
   And(<<Type(TypeRepo, C(<<2, 1>>, FALSE)), Not(Type(TypeRepo, RepoSet({2})))>>),
   Type(TypeRepo, And(<<F(<<4>>), Type(TypeRepo, S(<<2, 3>>, FALSE))>>))}

MCLimits == {<<0, 0>>, <<0, 1>>, <<1, 0>>}
=============================================================================
