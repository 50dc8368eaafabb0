----------------------------- MODULE MatchTree -----------------------------
(***************************************************************************)
(* The match tree of a shard (index/matchtree.go, hititer.go, matchiter.go *)
(* and the query side of indexdata.go): built from a query, asked for the  *)
(* next document of interest, prepared for that document, and evaluated at *)
(* rising costs until it says yes or no.                                   *)
(*                                                                         *)
(* A shard is a record: docs, a sequence of documents [text, name, repo,   *)
(* branches, lang, syms] in repository order, repos, a sequence of [name,  *)
(* id, tomb, ftombs, meta, flags, brs], and cache, the number of entries   *)
(* docMatchTreeCache has room for.  Documents are numbered from 0 and      *)
(* every rune is one byte long.  A tree is a nested record that carries    *)
(* the state of its iterators and, in kn, what evalMatchTree already knows *)
(* of the node for the document at hand.                                   *)
(***************************************************************************)
EXTENDS Query

CONSTANTS NgramSize,   \* 3 in the code: runes of an n-gram
          HEAD         \* the branch name HEAD

Infinity == 9999    \* math.MaxUint32
Min2(a, b) == IF a < b THEN a ELSE b
Max2(a, b) == IF a > b THEN a ELSE b
MinOf(S) == IF S = {} THEN Infinity ELSE CHOOSE x \in S : \A y \in S : x <= y

WordChar(c) == c \in 1..19

-----------------------------------------------------------------------------
(* External: the regexp engine.  Ends lists where a match that starts at    *)
(* offset i (from 0) can end, the preferred one first.                     *)

Boundary(s, i) == (i > 0 /\ WordChar(s[i])) # (i < Len(s) /\ WordChar(s[i + 1]))
SameChar(a, b, cs) == IF cs THEN a = b ELSE Lower(a) = Lower(b)

LitAt(p, s, i, cs) ==
  i + Len(p) <= Len(s) /\ \A j \in 1..Len(p) : SameChar(p[j], s[i + j], cs)

RECURSIVE Ends(_, _, _, _), EndsFrom(_, _, _, _), EndsSeq(_, _, _, _)
EndsFrom(re, s, at, cs) ==
  IF at = <<>> THEN <<>> ELSE Ends(re, s, Head(at), cs) \o EndsFrom(re, s, Tail(at), cs)
EndsSeq(subs, s, at, cs) ==
  IF subs = <<>> THEN at ELSE EndsSeq(Tail(subs), s, EndsFrom(Head(subs), s, at, cs), cs)
Ends(re, s, i, cs) ==
  CASE re.op = "lit"     -> IF LitAt(re.r, s, i, cs) THEN <<i + Len(re.r)>> ELSE <<>>
    [] re.op = "empty"   -> <<i>>
    [] re.op = "any"     -> IF i < Len(s) /\ s[i + 1] # 0 THEN <<i + 1>> ELSE <<>>
    [] re.op = "anynl"   -> IF i < Len(s) THEN <<i + 1>> ELSE <<>>
    [] re.op = "wordb"   -> IF Boundary(s, i) THEN <<i>> ELSE <<>>
    [] re.op \in {"concat", "capture"} -> EndsSeq(re.sub, s, <<i>>, cs)
    [] re.op = "alt"     -> FlattenSeq([j \in DOMAIN re.sub |-> Ends(re.sub[j], s, i, cs)])
    [] re.op = "star"    ->
         EndsFrom(re, s, SelectSeq(Ends(re.sub[1], s, i, cs), LAMBDA e : e > i), cs) \o <<i>>
    [] re.op = "plus"    -> EndsSeq(<<re.sub[1], StarRe(re.sub[1])>>, s, <<i>>, cs)

\* FindAllIndex from pos: no match starts inside an earlier one, and an empty
\* match does not follow one directly.
RECURSIVE FindAll(_, _, _, _, _)
FindAll(re, s, cs, pos, prev) ==
  LET start == MinOf({i \in pos..Len(s) : Ends(re, s, i, cs) # <<>>})
      Match(i, e) == (IF e = i /\ i = prev THEN <<>> ELSE <<<<i, e>>>>)
                       \o FindAll(re, s, cs, IF e = pos THEN pos + 1 ELSE e, e)
      From(i) == IF i = Infinity THEN <<>> ELSE Match(i, Ends(re, s, i, cs)[1])
  IN From(start)

-----------------------------------------------------------------------------
(* The shard's index, as far as a search reads it.                         *)

NumDocs(sh) == Len(sh.docs)
Data(sh, d, file) == IF file THEN sh.docs[d + 1].name ELSE sh.docs[d + 1].text
RepoOf(sh, d) == sh.docs[d + 1].repo

\* fileEndRunes and fileNameEndRunes: where document d ends in the
\* concatenation of all documents.
RECURSIVE EndOf(_, _, _)
EndOf(sh, file, d) == IF d < 0 THEN 0 ELSE EndOf(sh, file, d - 1) + Len(Data(sh, d, file))

\* The posting list of an n-gram, with its case variants when case does not
\* matter: the merged hits of trigramHitIterator.
Postings(sh, ng, cs, file) ==
  UNION {{EndOf(sh, file, d - 1) + i :
            i \in {j \in 0..(Len(Data(sh, d, file)) - NgramSize) : LitAt(ng, Data(sh, d, file), j, cs)}}
         : d \in 0..(NumDocs(sh) - 1)}

-----------------------------------------------------------------------------
(* Hit iterators: the positions still to come.  A distanceHitIterator has  *)
(* two of them, dist apart; dist = 0 is a plain iterator.                  *)

\* findNext moves whichever side lags until the two are dist apart, and
\* empties the first when either has run out.
RECURSIVE findNext(_)
findNext(h) ==
  LET p1 == MinOf(h.r1)  p2 == MinOf(h.r2)
      After(r, limit) == {p \in r : p > limit}
  IN CASE h.dist = 0 -> h
       [] h.dist # 0 /\ (p1 = Infinity \/ p2 = Infinity) -> [h EXCEPT !.r1 = {}]
       [] h.dist # 0 /\ p2 # Infinity /\ p1 + h.dist < p2 ->
            findNext([h EXCEPT !.r1 = After(h.r1, p2 - h.dist - 1)])
       [] h.dist # 0 /\ p1 # Infinity /\ p1 + h.dist > p2 ->
            findNext([h EXCEPT !.r2 = After(h.r2, p1 + h.dist - 1)])
       [] OTHER -> h

\* next(limit): skip what is at or before limit, the second side at or
\* before limit + dist.
hitNext(h, limit) ==
  findNext([h EXCEPT !.r1 = {p \in h.r1 : p > limit},
                     !.r2 = {p \in h.r2 : p > limit + h.dist}])

hitFirst(h) == MinOf(h.r1)

-----------------------------------------------------------------------------
(* Which n-grams of a pattern to look up.                                  *)

NgramAt(p, i) == SubSeq(p, i + 1, i + NgramSize)
Offsets(p) == 0..(Len(p) - NgramSize)
Freq(sh, q, i) == Cardinality(Postings(sh, NgramAt(q.p, i), q.cs, q.file))

\* The two rarest n-grams of minFrequencyNgramOffsets: the offsets are visited
\* in the order of their n-grams, the later of two equals wins.
minFrequencyNgramOffsets(order, freq) ==
  LET Step(acc, i) ==
        CASE freq[i] <= acc.m0 -> [i0 |-> i, i1 |-> acc.i0, m0 |-> freq[i], m1 |-> acc.m0]
          [] freq[i] > acc.m0 /\ freq[i] <= acc.m1 -> [acc EXCEPT !.i1 = i, !.m1 = freq[i]]
          [] OTHER -> acc
      r == FoldLeft(Step, [i0 |-> order[1], i1 |-> order[1], m0 |-> Infinity, m1 |-> Infinity], order)
  IN <<Min2(r.i0, r.i1), Max2(r.i0, r.i1)>>

\* findSelectiveNgrams: two that overlap are pulled apart as far as the
\* pattern allows.
findSelectiveNgrams(order, freq) ==
  LET m == minFrequencyNgramOffsets(order, freq)
      first == Max2(m[2] - NgramSize, 0)
      last == Min2(first + NgramSize, Len(order) - 1)
  IN IF m[2] - m[1] < NgramSize THEN <<first, last>> ELSE m

\* runeNgramOff.Compare: by n-gram, then by offset; which order the n-grams
\* have does not matter, so they are compared rune by rune.
RECURSIVE SeqLess(_, _)
SeqLess(a, b) == IF a = <<>> \/ b = <<>> THEN FALSE
                 ELSE Head(a) < Head(b) \/ (Head(a) = Head(b) /\ SeqLess(Tail(a), Tail(b)))

\* iterateNgrams: no iterator when some n-gram occurs nowhere; otherwise an
\* ngramDocIterator on the one or two n-grams chosen.
iterateNgrams(sh, q) ==
  LET freq == [i \in Offsets(q.p) |-> Freq(sh, q, i)]
      order == SortBy(Offsets(q.p), LAMBDA i, j :
                 \/ SeqLess(NgramAt(q.p, i), NgramAt(q.p, j))
                 \/ NgramAt(q.p, i) = NgramAt(q.p, j) /\ i < j)
      fl == findSelectiveNgrams(order, freq)
      Post(i) == Postings(sh, NgramAt(q.p, i), q.cs, q.file)
  IN IF \E i \in Offsets(q.p) : freq[i] = 0 THEN [no |-> TRUE]
     ELSE [no |-> FALSE, left |-> fl[1], right |-> Len(q.p) - fl[1], idx |-> 0,
           hits |-> findNext([r1 |-> Post(fl[1]), r2 |-> Post(fl[2]), dist |-> fl[2] - fl[1]])]

\* nextFileIndex gallops: it doubles its step while the document a step ahead
\* ends at or before the offset, and falls back otherwise.
RECURSIVE Gallop(_, _, _, _, _)
Gallop(sh, file, offset, f, d) ==
  LET n == NumDocs(sh)
      E(j) == EndOf(sh, file, j)
  IN CASE f >= n -> f
       [] f < n /\ E(f) > offset -> f
       [] f + d < n /\ E(f + d) <= offset -> Gallop(sh, file, offset, f + d, d * 2)
       [] d > 1 -> Gallop(sh, file, offset, f, d \div 4 + 1)
       [] OTHER -> Gallop(sh, file, offset, f + 1, d)

nextFileIndex(sh, file, offset, f) == Gallop(sh, file, offset, f, 1)

\* ngramDocIterator.prepare: drop the hits before the document.
iterPrepare(sh, file, it, d) ==
  LET start == EndOf(sh, file, d - 1)
  IN [it EXCEPT !.idx = d,
                !.hits = IF start > 0 THEN hitNext(it.hits, start + it.left - 1) ELSE it.hits]

\* candidates: the hits of this document, taken one by one from the iterator;
\* those whose pattern fits inside the document, as offsets in it.
RECURSIVE Collect(_, _)
Collect(h, end) == LET p == hitFirst(h)
                   IN IF p >= end THEN {} ELSE {p} \cup Collect(hitNext(h, p), end)

candidates(sh, file, it) ==
  LET start == EndOf(sh, file, it.idx - 1)
      end == EndOf(sh, file, it.idx)
      fits == {p \in Collect(it.hits, end) : p >= it.left + start /\ p + it.right <= end}
  IN {p - start - it.left : p \in fits}

-----------------------------------------------------------------------------
(* Building the tree.                                                      *)

Unknown == "?"
Leaf(t) == [t |-> t, kn |-> Unknown]
NoTree == Leaf("no")
ErrTree == Leaf("err")       \* newMatchTree returns an error
CrashTree == Leaf("crash")   \* newMatchTree panics
Brute == [t |-> "brute", kn |-> Unknown, done |-> FALSE, doc |-> 0]
DocTree(want, why) == [t |-> "doc", kn |-> Unknown, done |-> FALSE, doc |-> 0, want |-> want, why |-> why]
ReTree(re, cs, file) ==
  [t |-> "re", kn |-> Unknown, done |-> FALSE, doc |-> 0, re |-> re, cs |-> cs, file |-> file,
   ev |-> FALSE, found |-> <<>>]
Kids(t, kids) == [t |-> t, kn |-> Unknown, kids |-> kids]
Kid(t, kid) == [t |-> t, kn |-> Unknown, kid |-> kid]

\* newSubstringMatchTree: a pattern shorter than an n-gram is a regexp.
newSubstringMatchTree(sh, q) ==
  IF Len(q.p) < NgramSize THEN ReTree(Lit(q.p), q.cs, q.file)
  ELSE [t |-> "substr", kn |-> Unknown, q |-> q, it |-> iterateNgrams(sh, q),
        cur |-> <<>>, ev |-> FALSE, sym |-> FALSE]

\* regexpToMatchTreeRecursive: a tree that holds of every document the
\* expression matches; eq when it is equivalent, line when its children only
\* match on one line.
Distilled(mt, eq, line) == [mt |-> mt, eq |-> eq, line |-> line]

ConcatTree(subs) ==
  LET kids == SelectSeq([i \in DOMAIN subs |-> subs[i].mt], LAMBDA m : m.t # "brute")
      line == \A i \in DOMAIN subs : subs[i].line
      eq == Len(subs) <= 1 /\ \A i \in DOMAIN subs : subs[i].eq
  IN Distilled(CASE Len(kids) = 0 -> Brute
                 [] Len(kids) = 1 -> kids[1]
                 [] OTHER         -> Kids(IF line THEN "line" ELSE "and", kids), eq, line)

AltTree(subs) ==
  LET kids == [i \in DOMAIN subs |-> subs[i].mt]
      eq == \A i \in DOMAIN subs : subs[i].eq
  IN Distilled(CASE \E i \in DOMAIN kids : kids[i].t = "brute" -> Brute
                 [] kids = <<>> -> NoTree
                 [] OTHER -> Kids("or", kids), eq, FALSE)

RECURSIVE regexpToMatchTreeRecursive(_, _, _, _)
regexpToMatchTreeRecursive(sh, re, file, cs) ==
  LET Sub(i) == regexpToMatchTreeRecursive(sh, re.sub[i], file, cs)
  IN CASE re.op = "lit" /\ Len(re.r) >= NgramSize ->
            Distilled(newSubstringMatchTree(sh, Substring(re.r, file, FALSE, cs)),
                      TRUE, 0 \notin ToSet(re.r))
       [] re.op \in {"capture", "plus"} -> Sub(1)
       [] re.op = "concat" -> ConcatTree([i \in DOMAIN re.sub |-> Sub(i)])
       [] re.op = "alt" -> AltTree([i \in DOMAIN re.sub |-> Sub(i)])
       [] re.op = "star" /\ re.sub[1].op = "any" -> Distilled(Brute, FALSE, TRUE)
       [] OTHER -> Distilled(Brute, FALSE, FALSE)

\* regexpToWordMatchTree: \bLITERAL\b, case sensitive, not inside a symbol.
IsWord(q, inSym) ==
  /\ ~inSym /\ q.cs /\ q.re.op = "concat" /\ Len(q.re.sub) = 3
  /\ q.re.sub[1].op = "wordb" /\ q.re.sub[2].op = "lit" /\ q.re.sub[3].op = "wordb"

RegexpTree(sh, q, inSym) ==
  LET tr == IF IsWord(q, inSym)
            THEN [ReTree(q.re.sub[2], TRUE, q.file) EXCEPT !.t = "word"]
            ELSE ReTree(q.re, q.cs, q.file)
      Filtered(sub) == IF sub.eq THEN sub.mt ELSE Kids("and", <<tr, Kid("novisit", sub.mt)>>)
  IN Filtered(regexpToMatchTreeRecursive(sh, q.re, q.file, q.cs))

\* isRegexpAll: .* under any number of groups.
RECURSIVE isRegexpAll(_)
isRegexpAll(re) ==
  CASE re.op = "star" -> re.sub[1].op \in {"any", "anynl"}
    [] re.op \in {"capture", "concat"} /\ Len(re.sub) = 1 -> isRegexpAll(re.sub[1])
    [] OTHER -> FALSE

\* visitMatchTree for regular expressions: the last one in the tree.
RECURSIVE Regexps(_)
Regexps(mt) ==
  CASE mt.t \in {"and", "or", "line"} -> FlattenSeq([i \in DOMAIN mt.kids |-> Regexps(mt.kids[i])])
    [] mt.t \in {"not", "name", "boost", "novisit", "symre"} -> Regexps(mt.kid)
    [] mt.t = "re" -> <<mt>>
    [] OTHER -> <<>>

SymbolTree(sub) ==
  LET res == Regexps(sub)
  IN CASE sub.t = "substr" -> [sub EXCEPT !.sym = TRUE]
       [] sub.t # "substr" /\ res = <<>> -> ErrTree
       [] OTHER -> [t |-> "symre", kn |-> Unknown, kid |-> sub, re |-> Last(res).re,
                    cs |-> Last(res).cs, all |-> isRegexpAll(Last(res).re),
                    ev |-> FALSE, found |-> <<>>]

\* The predicates of newMatchTree on a document's repository.
RepoWant(sh, q, r) ==
  LET rp == sh.repos[r]
  IN CASE q.k \in {"repo", "reposet"} -> rp.name \in q.names
       [] q.k = "repoids"   -> rp.id \in q.ids
       [] q.k = "rawconfig" -> q.flags \subseteq rp.flags
       [] q.k = "meta"      -> q.field \in DOMAIN rp.meta /\ rp.meta[q.field] \in q.vals

\* Branch: HEAD is the first branch of every repository; otherwise the names
\* that equal, or contain, the pattern.
BranchWant(sh, q, r) ==
  LET brs == sh.repos[r].brs
      In(p, s) == \E i \in 0..(Len(s) - Len(p)) : SubSeq(s, i + 1, i + Len(p)) = p
  IN IF q.p = HEAD THEN {brs[1]}
     ELSE {b \in ToSet(brs) : IF q.exact THEN b = q.p ELSE In(q.p, b)}

BranchesWant(sh, q, r) ==
  {q.list[i][1] : i \in {j \in DOMAIN q.list : sh.repos[r].id \in q.list[j][2]}}
    \cap ToSet(sh.repos[r].brs)

DocsWhere(sh, P(_)) == {d \in 0..(NumDocs(sh) - 1) : P(d)}

\* Errors and panics of a child are those of the whole.
Whole(kids, mt) == CASE CrashTree \in ToSet(kids) -> CrashTree
                     [] ErrTree \in ToSet(kids)   -> ErrTree
                     [] OTHER                     -> mt

RECURSIVE newMatchTree(_, _, _)
newMatchTree(sh, q, inSym) ==
  CASE q.k = "re" -> RegexpTree(sh, q, inSym)
    [] q.k \in Many ->
         LET kids == [i \in DOMAIN q.kids |-> newMatchTree(sh, q.kids[i], inSym)]
         IN Whole(kids, Kids(q.k, kids))
    [] q.k = "type" /\ q.t # TypeFileName -> CrashTree
    [] q.k \in {"not", "boost"} \/ (q.k = "type" /\ q.t = TypeFileName) ->
         LET kid == newMatchTree(sh, q.kid, inSym)
         IN Whole(<<kid>>, Kid(IF q.k = "type" THEN "name" ELSE q.k, kid))
    [] q.k = "symbol" -> LET kid == newMatchTree(sh, q.kid, TRUE)
                         IN Whole(<<kid>>, SymbolTree(kid))
    [] q.k = "substr" -> newSubstringMatchTree(sh, q)
    [] q.k = "const" -> IF q.v THEN Brute ELSE NoTree
    [] q.k = "branch" ->
         [t |-> "branch", kn |-> Unknown, done |-> FALSE, doc |-> 0,
          masks |-> [r \in DOMAIN sh.repos |-> BranchWant(sh, q, r)]]
    [] q.k = "lang" -> DocTree(DocsWhere(sh, LAMBDA d : sh.docs[d + 1].lang = q.lang), q)
    [] q.k = "filenames" -> DocTree(DocsWhere(sh, LAMBDA d : sh.docs[d + 1].name \in q.files), q)
    [] q.k = "branchesrepos" ->
         DocTree(DocsWhere(sh, LAMBDA d : sh.docs[d + 1].branches
                                          \cap BranchesWant(sh, q, RepoOf(sh, d)) # {}), q)
    [] q.k \in {"repo", "reposet", "repoids", "rawconfig", "meta"} ->
         DocTree(DocsWhere(sh, LAMBDA d : RepoWant(sh, q, RepoOf(sh, d))), q)
    [] OTHER -> CrashTree

\* pruneMatchTree: Impossible when an n-gram that is needed occurs nowhere.
Impossible == Leaf("impossible")

RECURSIVE prune(_)
prune(mt) ==
  CASE mt.t = "substr" /\ ~mt.sym -> IF mt.it.no THEN Impossible ELSE mt
    [] mt.t \in {"and", "line"} ->
         LET kids == [i \in DOMAIN mt.kids |-> prune(mt.kids[i])]
         IN IF Impossible \in ToSet(kids) THEN Impossible ELSE [mt EXCEPT !.kids = kids]
    [] mt.t = "or" ->
         LET kids == SelectSeq([i \in DOMAIN mt.kids |-> prune(mt.kids[i])],
                               LAMBDA c : c # Impossible)
         IN CASE kids = <<>> -> Impossible
              [] Len(kids) = 1 -> kids[1]
              [] OTHER -> [mt EXCEPT !.kids = kids]
    [] mt.t \in {"novisit", "name", "boost"} ->
         LET kid == prune(mt.kid)
         IN IF kid = Impossible THEN Impossible ELSE [mt EXCEPT !.kid = kid]
    [] mt.t = "not" ->
         LET kid == prune(mt.kid)
         IN IF kid = Impossible THEN Brute ELSE [mt EXCEPT !.kid = kid]
    [] OTHER -> mt

-----------------------------------------------------------------------------
(* Iterating.                                                              *)

\* nextDoc: a conjunction waits for its furthest child, a disjunction for its
\* nearest, a negation for none.
RECURSIVE nextDoc(_, _)
nextDoc(sh, mt) ==
  LET Next(S) == MinOf({d \in S : mt.done => d > mt.doc})
      kids == {nextDoc(sh, mt.kids[i]) : i \in DOMAIN mt.kids}
  IN CASE mt.t \in {"and", "line"} -> IF kids = {} THEN 0
                                      ELSE CHOOSE x \in kids : \A y \in kids : y <= x
       [] mt.t = "or"     -> MinOf(kids)
       [] mt.t = "not"    -> 0
       [] mt.t \in {"name", "boost", "novisit", "symre"} -> nextDoc(sh, mt.kid)
       [] mt.t \in {"brute", "re", "word"} -> IF mt.done THEN mt.doc + 1 ELSE 0
       [] mt.t = "doc"    -> Next(mt.want)
       [] mt.t = "branch" -> Next({d \in 0..(NumDocs(sh) - 1) :
                                     sh.docs[d + 1].branches \cap mt.masks[RepoOf(sh, d)] # {}})
       [] mt.t = "substr" ->
            IF mt.it.no THEN Infinity
            ELSE LET j == nextFileIndex(sh, mt.q.file, hitFirst(mt.it.hits), mt.it.idx)
                 IN IF j >= NumDocs(sh) THEN Infinity ELSE j
       [] OTHER -> Infinity

\* symbolSubstrMatchTree.prepare keeps the candidates that lie inside one of
\* the document's symbol sections: both lists are walked once, in order.
RECURSIVE Trim(_, _, _)
Trim(cur, secs, size) ==
  CASE cur = <<>> \/ secs = <<>> -> <<>>
    [] cur # <<>> /\ secs # <<>> /\ cur[1].off >= secs[1][2] -> Trim(cur, Tail(secs), size)
    [] cur # <<>> /\ secs # <<>> /\ cur[1].off < secs[1][1] -> Trim(Tail(cur), secs, size)
    [] OTHER -> (IF cur[1].off + size <= secs[1][2] THEN <<cur[1]>> ELSE <<>>)
                  \o Trim(Tail(cur), secs, size)

Cand(file, off, sz) == [file |-> file, off |-> off, sz |-> sz]

PrepareSubstr(sh, mt, d) ==
  LET it == IF mt.it.no THEN mt.it ELSE iterPrepare(sh, mt.q.file, mt.it, d)
      offs == IF it.no THEN {} ELSE candidates(sh, mt.q.file, it)
      sorted == SortBy(offs, <)
      cands == [i \in DOMAIN sorted |->
                  Cand(mt.q.file, sorted[i], Len(mt.q.p))]
  IN [mt EXCEPT !.it = IF it.no THEN it
                       ELSE [it EXCEPT !.hits = hitNext(@, EndOf(sh, mt.q.file, d) - 1)],
                !.cur = IF mt.sym THEN Trim(cands, sh.docs[d + 1].syms, Len(mt.q.p)) ELSE cands,
                !.ev = FALSE]

\* prepare: every node forgets the last document.
RECURSIVE prepare(_, _, _)
prepare(sh, mt, d) ==
  LET m == [mt EXCEPT !.kn = Unknown]
  IN CASE m.t \in {"and", "or", "line"} ->
            [m EXCEPT !.kids = [i \in DOMAIN m.kids |-> prepare(sh, m.kids[i], d)]]
       [] m.t \in {"not", "name", "boost", "novisit"} -> [m EXCEPT !.kid = prepare(sh, m.kid, d)]
       [] m.t = "symre" -> [m EXCEPT !.kid = prepare(sh, m.kid, d), !.ev = FALSE, !.found = <<>>]
       [] m.t \in {"brute", "doc", "branch"} -> [m EXCEPT !.done = TRUE, !.doc = d]
       [] m.t \in {"re", "word"} ->
            [m EXCEPT !.done = TRUE, !.doc = d, !.ev = FALSE, !.found = <<>>]
       [] m.t = "substr" -> PrepareSubstr(sh, m, d)
       [] OTHER -> m

-----------------------------------------------------------------------------
(* Evaluating, at the costs 0 (constant), 1 (memory), 2 (content) and 3     *)
(* (regexp).  The state of a node is "more", "yes" or "no".                *)

Pred(b) == IF b THEN "yes" ELSE "no"

Found(pairs, file) == [i \in DOMAIN pairs |-> Cand(file, pairs[i][1], pairs[i][2] - pairs[i][1])]

\* wordMatchTree: bytes.Index from the end of the last occurrence, and no
\* word character on either side.
RECURSIVE Words(_, _, _)
Words(w, s, from) ==
  LET i == MinOf({j \in from..Len(s) : LitAt(w, s, j, TRUE)})
      e == i + Len(w)
      alone == /\ i < Len(s) /\ (i = 0 \/ ~WordChar(s[i]))
               /\ e > 0 /\ (e = Len(s) \/ ~WordChar(s[e + 1]))
  IN IF i = Infinity THEN <<>>
     ELSE (IF alone THEN <<<<i, e>>>> ELSE <<>>) \o Words(w, s, e)

\* symbolRegexpMatchTree: the first match in each symbol, or the whole symbol.
SymFound(sh, mt, d) ==
  LET doc == sh.docs[d + 1]
      In(s) == SubSeq(doc.text, s[1] + 1, s[2])
      Hit(s) == IF mt.all THEN <<<<s[1], s[2]>>>>
                ELSE LET f == FindAll(mt.re, In(s), mt.cs, 0, -1)
                     IN IF f = <<>> THEN <<>> ELSE <<<<s[1] + f[1][1], s[1] + f[1][2]>>>>
  IN Found(FlattenSeq([i \in DOMAIN doc.syms |-> Hit(doc.syms[i])]), FALSE)

\* The start of the line of an offset, and of the line after it.
LineOf(s, off) ==
  LET nls == {i \in 1..Len(s) : s[i] = 0}
      before == {i \in nls : i <= off}
  IN <<IF before = {} THEN 0 ELSE CHOOSE x \in before : \A y \in before : y <= x,
       Min2(MinOf(nls \ before), Len(s))>>

\* andLineMatchTree walks the lines that hold a candidate of the child with
\* the fewest: offsets before the line are dropped, an offset beyond it moves
\* the walk to the first line that ends after it.
\* Mutation: the walk resumes after the line it moved to.
NextLinePast(lines, i, bo) == MinOf({k \in i..Len(lines) : bo < lines[k][2]}) + 1

NextLine(lines, i, bo) == MinOf({k \in i..Len(lines) : bo < lines[k][2]})

RECURSIVE LineScan(_, _, _)
LineScan(lines, i, others) ==
  LET rest == [j \in DOMAIN others |-> SelectSeq(others[j], LAMBDA o : o >= lines[i][1])]
      far == {j \in DOMAIN rest : rest[j] # <<>> /\ rest[j][1] >= lines[i][2]}
  IN CASE i > Len(lines) -> FALSE
       [] i <= Len(lines) /\ far # {} ->
            LineScan(lines, NextLine(lines, i, rest[MinOf(far)][1]), rest)
       [] i <= Len(lines) /\ far = {} /\ \A j \in DOMAIN rest : rest[j] # <<>> -> TRUE
       [] OTHER -> LineScan(lines, i + 1, rest)

\* Whether one line holds a candidate of every child; children that are no
\* content substrings say nothing.
OneLine(sh, kids, d) ==
  LET s == sh.docs[d + 1].text
      Offs(i) == [j \in DOMAIN kids[i].cur |-> kids[i].cur[j].off]
      fewest == CHOOSE i \in DOMAIN kids : \A j \in DOMAIN kids :
                  \/ Len(kids[i].cur) < Len(kids[j].cur)
                  \/ Len(kids[i].cur) = Len(kids[j].cur) /\ i <= j
      Line(acc, o) == IF acc # <<>> /\ Last(acc) = LineOf(s, o) THEN acc
                      ELSE Append(acc, LineOf(s, o))
  IN \/ \E i \in DOMAIN kids : kids[i].t # "substr"
     \/ \E i \in DOMAIN kids : kids[i].q.file
     \/ LineScan(FoldLeft(Line, <<>>, Offs(fewest)), 1,
                 [j \in 1..(Len(kids) - 1) |-> Offs(IF j < fewest THEN j ELSE j + 1)])

\* The state of a conjunction from those of the children it looked at.
AndState(seen) == CASE "no" \in seen   -> "no"
                    [] "no" \notin seen /\ "more" \in seen -> "more"
                    [] OTHER           -> "yes"
OrState(seen) == CASE "more" \in seen -> "more"
                   [] "more" \notin seen /\ "yes" \in seen -> "yes"
                   [] OTHER           -> "no"

\* evalMatchTree: the node as it is left, and its state.
RECURSIVE eval(_, _, _, _), matches(_, _, _, _)
R(mt, st) == [mt |-> mt, st |-> st]

eval(sh, mt, d, cost) ==
  LET Keep(r) == IF r.st = "more" THEN r ELSE R([r.mt EXCEPT !.kn = r.st], r.st)
  IN IF mt.kn # Unknown THEN R(mt, mt.kn) ELSE Keep(matches(sh, mt, d, cost))

\* and stops at the first child that says no; or asks every child.
AllKids(sh, mt, d, cost) ==
  LET Seen(acc, i, r) == [kids |-> [acc.kids EXCEPT ![i] = r.mt], seen |-> acc.seen \cup {r.st}]
      Step(acc, i) == IF mt.t # "or" /\ "no" \in acc.seen THEN acc
                      ELSE Seen(acc, i, eval(sh, mt.kids[i], d, cost))
  IN FoldLeft(Step, [kids |-> mt.kids, seen |-> {}], [i \in DOMAIN mt.kids |-> i])

\* A leaf that has to read the content: its matches once the cost allows.
AtRegexp(mt, cost, found) ==
  CASE mt.ev -> R(mt, Pred(mt.found # <<>>))
    [] ~mt.ev /\ cost < 3 -> R(mt, "more")
    [] OTHER -> R([mt EXCEPT !.ev = TRUE, !.found = found], Pred(found # <<>>))

SubstrAt(sh, mt, d, cost) ==
  LET s == Data(sh, d, mt.q.file)
      kept == SelectSeq(mt.cur, LAMBDA c : LitAt(mt.q.p, s, c.off, mt.q.cs))
  IN CASE mt.ev -> R(mt, Pred(mt.cur # <<>>))
       [] ~mt.ev /\ mt.cur = <<>> -> R(mt, "no")
       [] ~mt.ev /\ mt.cur # <<>> /\ cost < (IF mt.q.file THEN 1 ELSE 2) -> R(mt, "more")
       [] OTHER -> R([mt EXCEPT !.ev = TRUE, !.cur = kept], Pred(kept # <<>>))

\* The state of a node over others, from what they said.
OfKids(sh, mt, d, all) ==
  LET st == IF mt.t = "or" THEN OrState(all.seen) ELSE AndState(all.seen)
  IN R([mt EXCEPT !.kids = all.kids],
       IF mt.t = "line" /\ st = "yes" THEN Pred(OneLine(sh, all.kids, d)) ELSE st)

OfKid(mt, one) ==
  R([mt EXCEPT !.kid = one.mt],
    IF mt.t = "not" /\ one.st # "more" THEN Pred(one.st = "no") ELSE one.st)

matches(sh, mt, d, cost) ==
  LET s == Data(sh, d, mt.file)
  IN CASE mt.t \in {"and", "or", "line"} -> OfKids(sh, mt, d, AllKids(sh, mt, d, cost))
       [] mt.t \in {"not", "name", "boost", "novisit"} -> OfKid(mt, eval(sh, mt.kid, d, cost))
       [] mt.t = "brute"  -> R(mt, "yes")
       [] mt.t = "doc"    -> R(mt, Pred(d \in mt.want))
       [] mt.t = "branch" ->
            R(mt, Pred(sh.docs[mt.doc + 1].branches \cap mt.masks[RepoOf(sh, mt.doc)] # {}))
       [] mt.t = "re"     -> AtRegexp(mt, cost, Found(FindAll(mt.re, s, mt.cs, 0, -1), mt.file))
       [] mt.t = "word"   -> AtRegexp(mt, cost, Found(Words(mt.re.r, s, 0), mt.file))
       [] mt.t = "symre"  -> AtRegexp(mt, cost, SymFound(sh, mt, d))
       [] mt.t = "substr" -> SubstrAt(sh, mt, d, cost)
       [] OTHER -> R(mt, "no")

\* The loop of Search over the costs: "no" at any cost drops the document.
RECURSIVE evalAll(_, _, _, _)
evalAll(sh, mt, d, cost) ==
  LET Go(r) == IF r.st = "no" \/ cost = 3 THEN r ELSE evalAll(sh, r.mt, d, cost + 1)
  IN Go(eval(sh, mt, d, cost))

-----------------------------------------------------------------------------
(* Gathering.                                                              *)

\* visitMatches: the leaves that can contribute matches to this document.
RECURSIVE visitMatches(_)
visitMatches(mt) ==
  CASE mt.t \in {"and", "or", "line"} ->
         FlattenSeq([i \in DOMAIN mt.kids |->
                       IF mt.kids[i].kn = "yes" THEN visitMatches(mt.kids[i]) ELSE <<>>])
    [] mt.t = "boost" -> visitMatches(mt.kid)
    [] mt.t \in {"not", "novisit", "name"} -> <<>>
    [] OTHER -> <<mt>>

CandLess(a, b) ==
  CASE a.file # b.file -> a.file
    [] a.file = b.file /\ a.off = b.off -> a.sz > b.sz
    [] OTHER -> a.off < b.off

\* gatherMatches: file name matches first, by offset, the longer of two at one
\* offset; a match that overlaps the one before it is dropped.  With no
\* match at all the whole file name stands for the document.
\* Mutation: overlapping matches are kept.
gatherMatchesOverlap(sh, d, mt) ==
  LET leaves == visitMatches(mt)
      CandsOf(m) == CASE m.t = "substr" -> m.cur
                      [] m.t \in {"re", "word", "symre"} -> m.found
                      [] OTHER -> <<>>
      all == ToSet(FlattenSeq([i \in DOMAIN leaves |-> CandsOf(leaves[i])]))
  IN IF all = {} THEN <<Cand(TRUE, 0, Len(sh.docs[d + 1].name))>>
     ELSE SortBy(all, CandLess)

gatherMatches(sh, d, mt) ==
  LET leaves == visitMatches(mt)
      CandsOf(m) == CASE m.t = "substr" -> m.cur
                      [] m.t \in {"re", "word", "symre"} -> m.found
                      [] OTHER -> <<>>
      all == ToSet(FlattenSeq([i \in DOMAIN leaves |-> CandsOf(leaves[i])]))
      Step(acc, c) == IF acc # <<>> /\ Last(acc).file = c.file
                         /\ Last(acc).off + Last(acc).sz > c.off
                      THEN acc ELSE Append(acc, c)
  IN IF all = {} THEN <<Cand(TRUE, 0, Len(sh.docs[d + 1].name))>>
     ELSE FoldLeft(Step, <<>>, SortBy(all, CandLess))

\* gatherBranches: the branches the branch filters selected, or all of them.
gatherBranches(sh, d, mt) ==
  LET leaves == SelectSeq(visitMatches(mt), LAMBDA m : m.t = "branch")
      doc == sh.docs[d + 1]
      mask == UNION {doc.branches \cap leaves[i].masks[doc.repo] : i \in DOMAIN leaves}
  IN IF mask = {} THEN doc.branches ELSE mask
=============================================================================
