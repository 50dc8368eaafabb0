---------------------------- MODULE MCAlgorithms ----------------------------
(***************************************************************************)
(* The algorithms without state of their own, checked case by case against *)
(* what they promise: a behaviour picks a case and lets go of it.          *)
(***************************************************************************)
EXTENDS QueryParse, ResultWire, RepoMeta, Display, IndexRead

VARIABLE case

None == [k |-> "none"]   \* no case at the moment
Off == [k |-> "off"]     \* a behaviour without cases

-----------------------------------------------------------------------------
(* Queries: trees as a user means them, and the text of each.              *)

QueryWords == {<<1>>, <<2, 13>>}
WordAtoms == {Substring(w, FALSE, FALSE, w # toLower(w)) : w \in QueryWords}
FieldAtoms == {Substring(<<1>>, TRUE, FALSE, FALSE), Branch(<<1>>, FALSE)}
Trees1 == WordAtoms \cup FieldAtoms
Trees2 == Trees1 \cup {Not(a) : a \in Trees1}
          \cup {And(<<a, b>>) : a, b \in Trees1} \cup {Or(<<a, b>>) : a, b \in Trees1}
Trees3 == Trees2 \cup {Not(a) : a \in Trees2}
          \cup {And(<<a, b>>) : a \in Trees2, b \in Trees1} \cup {Or(<<a, b>>) : a \in Trees1, b \in Trees2}
Consts == {Const(TRUE), Const(FALSE), Substring(<<>>, FALSE, FALSE, FALSE), RepoIDs({}), And(<<>>), Or(<<>>)}
Mixed == {[k |-> o, kids |-> <<x, y, z>>] : o \in Many, x \in Consts, y \in Trees1, z \in Trees2 \cup Consts}
         \cup {Type(TypeFileName, Not(And(<<x, y>>))) : x \in Consts, y \in Consts \cup Trees1}

\* The text: a conjunction by juxtaposition, everything compound in parentheses.
RECURSIVE Text(_)
Text(q) ==
  LET Sub(x) == IF x.k \in Many THEN <<LP, Space>> \o Text(x) \o <<RP>> ELSE Text(x)
  IN CASE q.k = "and" -> Sub(q.kids[1]) \o <<Space>> \o Sub(q.kids[2])
       [] q.k = "or" -> Sub(q.kids[1]) \o <<Space, OrWord, Space>> \o Sub(q.kids[2])
       [] q.k = "not" -> <<Dash>> \o Sub(q.kid)
       [] q.k = "branch" -> <<PBranch>> \o q.p
       [] OTHER -> (IF q.file THEN <<PFile>> ELSE <<>>) \o q.p

\* Texts that are no query.
BadTexts == {<<LP, Space, 1>>, <<1, Space, RP>>, <<1, Space, OrWord>>, <<OrWord, Space, 1>>, <<Dash>>,
             <<Quote, 1>>, <<1, BackSl>>, <<LP, Space, 1, Space, OrWord, Space, RP>>, <<PCase, 1>>,
             <<PType, 1>>, <<PSym>>, <<1, RP, Space, 2>>, <<PMeta, 1>>, <<PFork, 1>>}

Envs(q) == SUBSET UNION {Atoms(ExpandFileContent(a)) : a \in Atoms(q)}
SameMeaning(p, q) == \A env \in Envs(q) : Holds(p, env) = Holds(q, env)

-----------------------------------------------------------------------------
(* Queries on the wire.                                                    *)

WireAtoms == {Const(TRUE), Regexp(ConcatRe(<<Lit(<<1>>), StarRe(AnyRe)>>), FALSE, TRUE, TRUE), Symbol(Substring(<<1>>, FALSE, FALSE, FALSE)),
              Language("go"), Repo({"a"}), RepoSet({"a", "b"}), RepoIDs({3, 7}), RawConfig(5), RawConfig(32),
              FileNameSet({"f", "g"}), FileNameSet({}), Branch(<<1, 2>>, TRUE),
              BranchesRepos(<<<<"m", {1, 2}>>, <<"x", {}>>>>)}
WireTrees == WireAtoms \cup {Not(a) : a \in WireAtoms} \cup {Type(t, a) : t \in 0..2, a \in WireAtoms}
             \cup {Boost(2, a) : a \in WireAtoms}
             \cup {And(<<a, Not(b)>>) : a, b \in WireAtoms} \cup {Or(<<Boost(3, a), b>>) : a, b \in WireAtoms}
BranchLists == {<<>>} \cup {<<<<b, ids>>>> : b \in {<<>>, <<1, 2, 3, 1, 2>>}, ids \in SUBSET {1, 2, 3}}
               \cup {<<<<<<1>>, i>>, <<<<2, 2>>, j>>>> : i, j \in SUBSET {1, 3}}
NameSets == SUBSET {<<>>, <<1>>, <<1, 2, 3, 1, 2>>}

-----------------------------------------------------------------------------
(* Results on the wire: every field has a value of its own.                *)

Named(fields) == [f \in fields |-> f]
Loc(n) == [ByteOffset |-> n, LineNumber |-> n + 100, Column |-> n + 200]
Sym == Named(SymbolFields)
WireFragments == {Named(FragmentFields) @@ [SymbolInfo |-> s] : s \in {NilPtr, Sym}}
WireLines == {Named(LineFields) @@ [LineFragments |-> fs] : fs \in SeqOf(WireFragments, 2)}
WireChunks == {Named(ChunkFields) @@ [ContentStart |-> Loc(1), Ranges |-> [i \in DOMAIN ss |-> [Start |-> Loc(i), End |-> Loc(i + 10)]],
                                      SymbolInfo |-> ss] : ss \in SeqOf({NilPtr, Sym}, 2)}
WireFiles == {Named(FileFields) @@ [LineMatches |-> l, ChunkMatches |-> c] :
                l \in SeqOf(WireLines, 1), c \in SeqOf(WireChunks, 1)}
WireResults == {[Stats |-> Named(Counters \cup {"Duration"}) @@ [FlushReason |-> r], Progress |-> Named(ProgressFields),
                 Files |-> fs, RepoURLs |-> "urls", LineFragments |-> "fragments"] :
                  r \in {0, 1, 2, 4}, fs \in SeqOf({f \in WireFiles : f.ChunkMatches # <<>>}, 1)} \cup {NilPtr}
SomeBranch == Named(BranchFields)
PlainRepo(rank, brs, tombs) ==
  Named(RepositoryFields) @@ [Branches |-> brs, SubRepoMap |-> [n \in {} |-> NilPtr], Rank |-> rank, FileTombstones |-> tombs]
WireRepos == {[PlainRepo(rank, brs, tombs) EXCEPT !.SubRepoMap = [n \in subs |-> PlainRepo(1, <<>>, {n})]] :
                rank \in {0, 65535}, brs \in SeqOf({SomeBranch}, 2), tombs \in SUBSET {"f", "g"}, subs \in SUBSET {"p", "q"}}
MinimalEntries == {[HasSymbols |-> h, IndexTimeUnix |-> t, Branches |-> b] :
                     h \in BOOLEAN, t \in {0, 17}, b \in SeqOf({[Name |-> <<1>>, Version |-> <<2, 3, 1, 2, 3>>]}, 2)}
ReposMaps == UNION {[ids -> MinimalEntries] : ids \in {{}, {3}, {1, 20}}}
WireLists == {[Repos |-> IF r = NilPtr THEN <<NilPtr>> ELSE
                 <<[Repository |-> r, IndexMetadata |-> Named(IndexMetadataFields) @@ [LanguageMap |-> [l \in {"go", "c"} |-> IF l = "go" THEN 65535 ELSE 0]],
                    Stats |-> Named(RepoStatsFields)]>>,
               ReposMap |-> m, Crashes |-> 3, Stats |-> Named(RepoStatsFields)] :
                r \in WireRepos \cup {NilPtr}, m \in {[n \in {} |-> NilPtr], [n \in {7} |-> CHOOSE e \in MinimalEntries : e.HasSymbols]}}
WireOptions == {NilPtr, Named(SearchOptionsFields)}

\* The events of a search, a file with the number of its event and its size.
EventKinds == {<<sizes, n, reason, prio>> : sizes \in {<<>>, <<1>>, <<5>>, <<2, 2, 1>>, <<5, 1>>},
                                           n \in {0, 2}, reason \in {0, 1}, prio \in {<<3, 1>>, <<1, 3>>}}
ShortKinds == {e \in EventKinds : e[1] \in {<<>>, <<2, 2, 1>>} /\ (e[3] = 1 => e[2] = 0)}
Events(kinds) ==
  [i \in DOMAIN kinds |->
     [files |-> [j \in DOMAIN kinds[i][1] |-> [ev |-> i, j |-> j, size |-> kinds[i][1][j]]],
      stats |-> [n |-> kinds[i][2], reason |-> kinds[i][3]],
      progress |-> [prio |-> kinds[i][4][1], pending |-> kinds[i][4][2]]]]

-----------------------------------------------------------------------------
(* Descriptions of repositories.                                           *)

Described(id, brs, url, config, date, rank) ==
  [ID |-> id, TenantID |-> 0, Name |-> "n", Branches |-> brs, URL |-> url, CommitURLTemplate |-> 0, FileURLTemplate |-> 0,
   LineFragmentTemplate |-> 0, RawConfig |-> config, noConfig |-> DOMAIN config = {}, priority |-> 0,
   LatestCommitDate |-> date, Rank |-> rank]
Configs(keys, vals) == UNION {[ks -> vals] : ks \in SUBSET keys}
Merged == {Described(1, b, u, c, 0, 0) : b \in {"m", "x"}, u \in {0, 1}, c \in Configs({"name", "public", "fork"}, {0, 1})}
RankedRepos == {Described(1, "m", 0, c, d, r) : c \in Configs({"latestCommitDate", "priority"}, {0, 4000}),
                                               d \in {-5, 0, 600, 65600}, r \in {0, 9}}

-----------------------------------------------------------------------------
(* Documents and matches.                                                  *)

Shown(off, sz) ==
  [file |-> FALSE, off |-> off, sz |-> sz, sym |-> FALSE, idx |-> 0, wt |-> 1, term |-> 1]
ShownTexts == {<<>>, <<1, 2>>, <<1, 0, 2, 0>>, <<30, 31, 1, 0, 0, 1, 30, 31>>, <<0, 0, 1, 2, 0, 3, 0>>,
               <<1, 0, 1, 0, 1, 0, 1>>}
ShownDoc(t) == [text |-> t, name |-> <<1, 21, 2>>, secs |-> <<>>, lang |-> "go"]
Spans(t) == {s \in (0..Len(t)) \X (1..3) :
               /\ s[1] + s[2] <= Len(t)
               /\ t[s[1] + 1] # Cont
               /\ s[1] + s[2] < Len(t) => t[s[1] + s[2] + 1] # Cont}
CandLists(t) ==
  {<<Shown(s[1], s[2])>> : s \in Spans(t)} \cup
  {<<Shown(p[1][1], p[1][2]), Shown(p[2][1], p[2][2])>> :
     p \in {x \in Spans(t) \X Spans(t) : x[1][1] + x[1][2] <= x[2][1]}}

\* Files with one, two or five ranges in their chunks, or as many fragments; the
\* text ends with a newline or without one.
LongTexts == {<<1, 2, 0, 1, 2, 0, 1, 2, 0>>, <<1, 2, 0, 1, 2, 0, 1, 2>>}
Hits(n) == [i \in 1..n |-> Shown(i - 1 + (i - 1) \div 2, 1)]
File(text, name, ext, n, score, chunks) ==
  [name |-> name, ext |-> ext, score |-> <<score, 0>>,
   chunks |-> IF chunks THEN fillContentChunkMatches(ShownDoc(text), Hits(n), 1, FALSE) ELSE <<>>,
   lines |-> IF chunks THEN <<>> ELSE fillMatches(ShownDoc(text), Hits(n), 0, FALSE)]
FilesOf(text, chunks) == [n \in {1, 2, 5} |-> File(text, n, "go", n, 1, chunks)]
Batches(chunks) ==
  UNION {[1..3 -> {<<>>, <<f[1]>>, <<f[5]>>, <<f[2], f[5]>>}] : f \in {FilesOf(t, chunks) : t \in LongTexts}}
ScoredFiles == {[i \in 1..4 |-> File(<<1>>, i, p[i][1], 1, p[i][2], FALSE)] :
                  p \in [1..4 -> {"go", "md"} \X {50, 95, 100}]}
Ranked == {1, 9, 400} \X {1, 2} \X {0, 1, MaxRank} \X {0, 1, 2}

-----------------------------------------------------------------------------
(* Shards.                                                                 *)

RepoA == [name |-> "a", id |-> 1, brs |-> <<"m", "x", "y">>, tomb |-> FALSE]
RepoB == [name |-> "b", id |-> 2, brs |-> <<"m">>, tomb |-> FALSE]
RepoC == [RepoB EXCEPT !.name = "c", !.id = 3]
RepoD == [RepoB EXCEPT !.name = "d", !.id = 4]
StoredDoc(n, c, s, b, r) == [name |-> n, content |-> c, syms |-> s, branches |-> b, lang |-> "go", repo |-> r]
Two == <<30, 31>>
Four == <<30, 31, 31, 31>>
ShardTexts == {<<>>, <<1, 2, 3, 0, 1, 2>>, <<1>> \o Two \o <<2>> \o Four \o <<3, 3, 1, 2>>,
               Four \o Four \o Four \o Four \o Four \o <<1, 2>>, <<1, 2, NUL, 3>>}
DocsA == {StoredDoc(<<1, 2>>, t, <<>>, b, "a") : t \in ShardTexts, b \in {<<"m">>, <<"x", "m">>}} \cup
         {[StoredDoc(<<2>> \o Four \o <<1>>, <<1, 2, 3, 0, 4, 5>>, <<<<4, 6, "f">>, <<0, 2, "t">>>>, <<b>>, "a")
             EXCEPT !.lang = "c"] : b \in {"x", "y"}}
DocsB == {StoredDoc(<<1>>, t, <<>>, <<"m">>, "b") : t \in {<<1, 2, 3>>, Two \o Two \o Two}}
ListsA == {<<x>> : x \in DocsA} \cup {<<x, y>> : x, y \in DocsA}

\* What a merge reads: two repositories, dead or alive when the result is
\* exploded, or three or four with a document each.
SourceOf(repo, docs, dead) == [repo |-> repo, docs |-> docs, dead |-> dead]
Pairs == {<<SourceOf(RepoA, a, x), SourceOf(RepoB, <<b>>, y)>> : a \in ListsA, b \in DocsB, x, y \in BOOLEAN}
MorePairs == {<<SourceOf(RepoA, <<a>>, FALSE), SourceOf(RepoB, <<b>>, FALSE),
             SourceOf(RepoC, <<StoredDoc(<<3>>, <<1, 2>>, <<>>, <<"m">>, "c")>>, FALSE)>> \o d :
             a \in DocsA, b \in DocsB,
             d \in {<<>>, <<SourceOf(RepoD, <<StoredDoc(<<4>>, <<>>, <<>>, <<"m">>, "d")>>, FALSE)>>}}

-----------------------------------------------------------------------------
CaseSets == <<
  {[k |-> "parse", q |-> q] : q \in Trees3},
  {[k |-> "bad", in |-> t] : t \in BadTexts},
  {[k |-> "simplify", q |-> q] : q \in Mixed},
  {[k |-> "wire", q |-> q] : q \in WireTrees},
  {[k |-> "branches", list |-> l] : l \in BranchLists},
  {[k |-> "names", set |-> s] : s \in NameSets},
  {[k |-> "result", r |-> r] : r \in WireResults},
  {[k |-> "list", l |-> l] : l \in WireLists},
  {[k |-> "repos", m |-> m] : m \in ReposMaps},
  {[k |-> "options", o |-> o] : o \in WireOptions},
  {[k |-> "field", f |-> f] : f \in 0..3},
  {[k |-> "stream", es |-> Events(es), err |-> e, fail |-> f] :
     es \in SeqOf(EventKinds, 2) \cup [1..3 -> ShortKinds], e \in BOOLEAN, f \in {1, 2, 99}},
  {[k |-> "describe", r |-> r, x |-> x] : r, x \in Merged},
  {[k |-> "rankof", r |-> r, x |-> x] : r, x \in RankedRepos},
  UNION {{[k |-> "present", t |-> t, ms |-> ms, ctx |-> c] : ms \in CandLists(t), c \in 0..2} : t \in ShownTexts},
  UNION {{[k |-> "limit", bs |-> bs, doc |-> d, match |-> m, chunks |-> c] :
            bs \in Batches(c), d \in 0..3, m \in {0, 1, 3, 6}} : c \in BOOLEAN},
  {[k |-> "sort", files |-> fs] : fs \in ScoredFiles},
  {[k |-> "rank", a |-> a, b |-> b] : a, b \in Ranked},
  {[k |-> "shard", docs |-> ds] : ds \in ListsA},
  {[k |-> "merge", sources |-> s] : s \in Pairs \cup MorePairs}>>

CaseInit == case = None

Pick == case = None /\ \E cases \in {CaseSets} : \E i \in DOMAIN cases : case' \in cases[i]
Drop1 == case \notin {None, Off} /\ case' = None

CaseNext == Pick \/ Drop1

-----------------------------------------------------------------------------
\* Parse (query/parse.go) and Simplify (query/query.go): a query that is
\* written down means what its author meant, for every document; a text that
\* is no query is refused; simplification keeps the meaning and leaves no
\* constant and no needless node.
QueriesMean ==
  CASE case.k = "parse" -> \A p \in {Parse(Text(case.q))} :
                             ~p.err /\ SameMeaning(p.q, case.q)
                              /\ (p.q.k # "const" => NormalForm(p.q))
    [] case.k = "bad" -> Parse(case.in).err
    [] case.k = "simplify" -> \A s \in {Simplify(case.q)} :
                                SameMeaning(s, case.q) /\ NormalForm(s)
    [] OTHER -> TRUE

\* QToProto and QFromProto (query/query_proto.go) and the encodings of
\* query/marshal.go: what is sent is what arrives, and a list of branches
\* that is cut short is refused, unless only its version is left (no branches).
\* The messages of api_proto.go and the list of repositories of marshal.go
\* arrive as they were sent, in both versions of the encoding; and the
\* stream of a search gives a client every file once and in order, and
\* counts every statistic once (server.go, sampling.go, chunker.go).
WireExact ==
  CASE case.k = "wire" -> QFromProto(QToProto(case.q)) = case.q
    [] case.k = "branches" ->
         \A b \in {branchesReposEncode(case.list)} :
           /\ branchesReposDecode(b) = Reader(<<>>, FALSE, case.list)
           /\ \A n \in 0..(Len(b) - 1) : n = 1 \/ branchesReposDecode(SubSeq(b, 1, n)).err
    [] case.k = "names" -> \A r \in {stringSetDecode(stringSetEncode(case.set))} :
                             ~r.err /\ r.val = case.set
    [] case.k = "result" -> SearchResultFromProto(SearchResultToProto(case.r), "urls", "fragments") = case.r
    [] case.k = "list" -> RepoListFromProto(RepoListToProto(case.l)) = case.l
    [] case.k = "repos" ->
         \A x \in {<<reposMapEncode(case.m), case.m>>, <<EncodeRepos(case.m, 1), WithoutTime(case.m)>>} :
           reposMapDecode(x[1]) = Reader(<<>>, FALSE, x[2])
    [] case.k = "options" -> SearchOptionsFromProto(SearchOptionsToProto(case.o)) = case.o
    [] case.k = "field" -> LET o == [Field |-> case.f]
                           IN ~GetField(o).err => ListOptionsFromProto(ListOptionsToProto(o)) = o
    [] case.k = "stream" -> StreamTrue(case.es, case.err, case.fail)
    [] OTHER -> TRUE

\* fillContentChunkMatches and fillContentMatches (index/contentprovider.go):
\* every match is shown once, at its byte, line and column, in whole lines.
PresentExact ==
  case.k = "present" => /\ ChunksTrue(ShownDoc(case.t), case.ms, case.ctx)
                        /\ LinesTrue(ShownDoc(case.t), case.ms, case.ctx)

\* The display limits over a stream (index/limit.go), the order of the files
\* and the novel extension (contentprovider.go), and scoreFile (score.go).
DisplayExact ==
  CASE case.k = "limit" -> TruncateTrue(case.bs, case.doc, case.match, case.chunks)
    [] case.k = "sort" -> SortTrue(case.files)
    [] case.k = "rank" -> RankTrue(case.a, case.b)
    [] OTHER -> TRUE


\* ShardBuilder.Write and NewSearcher (index/write.go, read.go): a shard
\* gives back the documents it was built from, and the posting lists, the
\* B+-tree and the rune offsets find every n-gram at its bytes, but for those
\* behind a run of long runes (Far).  merge and explode (index/merge.go): a
\* compound shard holds the documents of every shard it was made of, and
\* exploding it gives one shard for each live repository with documents, with
\* exactly those; but a merge fails on a branch past the IdBits-th, and takes
\* the repository after the Mod16-th for the first (MergeTrue).  The description of a
\* repository (api.go) can be updated without a new index: what MergeMutable
\* accepts arrives, once, and the rank read from it is stable and ordered.
FormatExact ==
  CASE case.k = "shard" -> ShardTrue(RepoA, case.docs)
    [] case.k = "merge" -> MergeTrue(case.sources)
    [] case.k = "describe" -> MergeMutableTrue(case.r, case.x)
    [] case.k = "rankof" -> RankOfTrue(case.r, case.x)
    [] OTHER -> TRUE
=============================================================================
