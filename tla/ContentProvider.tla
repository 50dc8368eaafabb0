-------------------------- MODULE ContentProvider --------------------------
(***************************************************************************)
(* From the candidate matches of one document to what a client sees        *)
(* (index/contentprovider.go, score.go, limit.go): line matches or chunk   *)
(* matches with their positions and context, their scores, the order of    *)
(* the files and the display limits.                                       *)
(*                                                                         *)
(* Texts are sequences of bytes in the numbering of Query; byte 30 begins a *)
(* rune of two bytes and 31 ends it.  A document is [text, name, secs,     *)
(* lang]: secs are its symbols <<start, end, kind>>, sorted and apart.  A  *)
(* candidate is [file, off, sz, sym, idx, wt, term]: whether it is in the  *)
(* name, where, whether it came from a symbol tree and of which symbol,    *)
(* its boost and its lowered pattern.                                      *)
(***************************************************************************)
EXTENDS Query

Slash == 21
Cont == 31
RuneCount(s) == Cardinality({i \in DOMAIN s : s[i] # Cont})
Bytes(s, from, to) == SubSeq(s, from + 1, to)     \* s[from:to] of Go
End(m) == m.off + m.sz
Least(a, b) == IF a < b THEN a ELSE b
Most(a, b) == IF a > b THEN a ELSE b
Num(S) == Cardinality(S)

-----------------------------------------------------------------------------
(* Lines.                                                                  *)

newlines(text) ==
  [locs |-> SortBy({i - 1 : i \in {j \in DOMAIN text : text[j] = 0}}, LAMBDA a, b : a < b),
   fileSize |-> Len(text)]


atOffset(nls, offset) == 1 + Num({i \in DOMAIN nls.locs : nls.locs[i] < offset})

lineStart(nls, line) ==
  CASE line - 2 < 0 -> 0
    [] line - 2 >= Len(nls.locs) -> nls.fileSize
    [] OTHER -> nls.locs[line - 1] + 1

offsetRangeToLineRange(nls, start, end) ==
  <<atOffset(nls, start), atOffset(nls, Most(start, Most(end, 1) - 1))>>

getLines(nls, data, low, high) ==
  IF low >= high THEN <<>> ELSE Bytes(data, lineStart(nls, low), lineStart(nls, high))

-----------------------------------------------------------------------------
(* Symbols and scores.                                                     *)

\* findMaxOverlappingSection: 0 when no symbol overlaps; otherwise the first
\* one that does, or the second when a larger part of it is covered.
findMaxOverlappingSection(secs, off, sz) ==
  LET Size(i) == secs[i][2] - secs[i][1]
      Over(i) == IF Size(i) = 0 THEN 0
                 ELSE Least(secs[i][2], off + sz) - Most(secs[i][1], off)
      ends == {i \in DOMAIN secs : secs[i][2] > off}
      j == CHOOSE i \in ends : \A k \in ends : i <= k
      If(i) == IF Over(i) > 0 THEN i ELSE 0
  IN CASE ends = {} -> 0
       [] ends # {} /\ secs[j][1] >= off + sz -> 0
       [] ends # {} /\ secs[j][1] < off + sz ->
            IF \/ Over(j) = Size(j) /\ Size(j) > 0
               \/ j = Len(secs)
               \/ secs[j + 1][1] >= off + sz
            THEN If(j)
            ELSE IF Over(j + 1) * Most(Size(j), 1) > Over(j) * Most(Size(j + 1), 1)
                 THEN If(j + 1) ELSE If(j)

\* findSymbol: the symbol the tree found, or the one the match overlaps most.
findSymbol(doc, m) ==
  CASE m.file -> 0
    [] ~m.file /\ m.sym -> m.idx
    [] OTHER -> findMaxOverlappingSection(doc.secs, m.off, m.sz)

\* byteClass: lower case, upper case, space, punctuation, other.
byteClass(c) == CASE c \in 1..9   -> 1
                  [] c \in 11..19 -> 2
                  [] c = 0        -> 3
                  [] c = 20       -> 4
                  [] OTHER        -> 5

scoreWordMatch == 500
scorePartialWordMatch == 50
scoreBase == 7000
scorePartialBase == 4000
scoreSymbol == 7000
scorePartialSymbol == 4000
scoreFactorAtomMatch == 400

\* scoreSymbolKind, of the kinds and languages its branches tell apart: the
\* generic table, and Go's with its bonus for an exported name.
GenericKind == [class |-> 1000, struct |-> 950, function |-> 700, variable |-> 400]
GoKind == [struct |-> 900, function |-> 800, variable |-> 500]

scoreSymbolKind(lang, kind, sym) ==
  LET base == IF lang = "go" /\ kind \in DOMAIN GoKind THEN GoKind[kind]
              ELSE IF kind \in DOMAIN GenericKind THEN GenericKind[kind] ELSE 100
      exported == sym # <<>> /\ byteClass(sym[1]) = 2
  IN base + (IF lang = "go" /\ exported THEN 50 ELSE 0)

\* How much of a base name, or of a symbol, a match covers.
Edges(start, end, full, part) ==
  CASE start /\ end -> full
    [] start # end  -> (full + part) \div 2
    [] OTHER        -> part

WordScore(data, m) ==
  LET start == m.off < Len(data)
               /\ (m.off = 0 \/ byteClass(data[m.off]) # byteClass(data[m.off + 1]))
      end == End(m) > 0
             /\ (End(m) = Len(data) \/ byteClass(data[End(m)]) # byteClass(data[End(m) + 1]))
  IN CASE start /\ end -> scoreWordMatch
       [] start # end  -> scorePartialWordMatch
       [] OTHER        -> 0

\* The part of scoreLine about where the match lies.
PlaceScore(doc, m) ==
  LET sep == CHOOSE i \in 0..Len(doc.name) :
               /\ i = 0 \/ doc.name[i] = Slash
               /\ \A j \in (i + 1)..Len(doc.name) : doc.name[j] # Slash
      start == m.off = sep
      end == End(m) = Len(doc.name)
      s == findSymbol(doc, m)
      sec == doc.secs[s]
  IN CASE m.file /\ ~start /\ ~end /\ ~(sep <= m.off) -> 0
       [] m.file /\ (start \/ end \/ sep <= m.off) -> Edges(start, end, scoreBase, scorePartialBase)
       [] ~m.file /\ s = 0 -> 0
       [] OTHER -> Edges(sec[1] = m.off, sec[2] = End(m), scoreSymbol, scorePartialSymbol)
                   + scoreSymbolKind(doc.lang, sec[3],
                       Bytes(doc.text, sec[1], Least(sec[2], Len(doc.text))))

MatchScore(doc, m) ==
  (WordScore(IF m.file THEN doc.name ELSE doc.text, m) + PlaceScore(doc, m)) * m.wt

MaxScore(doc, ms) ==
  FoldLeft(LAMBDA best, m : Most(best, MatchScore(doc, m)), 0, ms)

\* scoreLine: the best of its matches, and the symbols of those that came
\* from a symbol tree, one entry per match as soon as there is one.
scoreLine(doc, ms) ==
  [score |-> MaxScore(doc, ms),
   syms  |-> IF \A i \in DOMAIN ms : ~ms[i].sym THEN <<>>
             ELSE [i \in DOMAIN ms |-> IF ms[i].sym THEN ms[i].idx ELSE 0]]

\* calculateTermFrequency: matches in names and in symbols count five times,
\* and a fifth is left of everything in a file of low priority.
calculateTermFrequency(doc, ms, lowPriority) ==
  LET Weight(m) == IF m.file \/ findSymbol(doc, m) # 0 THEN 5 ELSE 1
      Total(t) == FoldLeft(LAMBDA n, m : IF m.term = t THEN n + Weight(m) ELSE n, 0, ms)
  IN [t \in {ms[i].term : i \in DOMAIN ms} |->
        IF lowPriority THEN Total(t) \div 5 ELSE Total(t)]

\* tfScore in thousandths, with k = 1.2, b = 0.75 and a length ratio of
\* len / avg; boostScore takes the largest boost.
tfScore(len, avg, f) == (22000 * f * avg) \div (3 * avg + 9 * len + 10 * f * avg)

boostScore(score, ms) == score * FoldLeft(LAMBDA w, m : Most(w, m.wt), 1, ms)

BM25(doc, ms, low, len, avg) ==
  LET tf == calculateTermFrequency(doc, ms, low)
      S == SortBy(DOMAIN tf, LAMBDA a, b : a < b)
  IN boostScore(FoldLeft(LAMBDA n, t : n + tfScore(len, avg, tf[t]), 0, S), ms)

\* scoreLineBM25: a file name has no score, and only the matches of symbol
\* trees leave an entry among the symbols.
scoreLineBM25(doc, ms) ==
  LET nls == newlines(doc.text)
      line == atOffset(nls, ms[1].off)
      syms == SelectSeq(ms, LAMBDA m : m.sym)
  IN IF ms[1].file THEN [score |-> 0, syms |-> <<>>]
     ELSE [score |-> BM25(doc, ms, FALSE, lineStart(nls, line + 1) - lineStart(nls, line), 100),
           syms |-> [i \in DOMAIN syms |-> syms[i].idx]]

LineScore(doc, ms, bm25) ==
  IF bm25 THEN scoreLineBM25(doc, ms) ELSE scoreLine(doc, ms)

\* The matches of one line, line by line.
ByLine(doc, ms) ==
  LET nls == newlines(doc.text)
      Line(m) == IF m.file THEN 0 ELSE atOffset(nls, m.off)
      Add(groups, m) ==
        IF groups # <<>> /\ Line(Last(Last(groups))) = Line(m)
        THEN Append(Front(groups), Append(Last(groups), m)) ELSE Append(groups, <<m>>)
  IN FoldLeft(Add, <<>>, ms)

\* scoreChunk: the first line with the best score, and the symbols of all
\* lines one after the other.
scoreChunk(doc, ms, bm25) ==
  LET Best(acc, line, s) ==
        [score |-> Most(acc.score, s.score),
         best  |-> IF s.score > acc.score
                   THEN atOffset(newlines(doc.text), line[1].off) ELSE acc.best,
         syms  |-> acc.syms \o s.syms]
      Step(acc, line) == Best(acc, line, LineScore(doc, line, bm25))
  IN FoldLeft(Step, [score |-> 0, best |-> 0, syms |-> <<>>], ByLine(doc, ms))

-----------------------------------------------------------------------------
(* Line matches.                                                           *)

\* breakOnNewlines: the parts of a match between newlines, without empty ones.
RECURSIVE breakOnNewlines(_, _)
breakOnNewlines(m, text) ==
  LET nl == {i \in m.off..(End(m) - 1) : text[i + 1] = 0}
      at == CHOOSE i \in nl : \A j \in nl : i <= j
      If(c) == IF c.sz = 0 THEN <<>> ELSE <<c>>
  IN IF nl = {} THEN If(m)
     ELSE If([m EXCEPT !.sz = at - m.off])
          \o breakOnNewlines([m EXCEPT !.off = at + 1, !.sz = End(m) - at - 1], text)

breakMatchesOnNewlines(ms, text) == FlattenSeq([i \in DOMAIN ms |-> breakOnNewlines(ms[i], text)])

\* fillContentMatches, one line per round.
RECURSIVE fillContentMatches(_, _, _, _)
fillContentMatches(doc, ms, ctx, bm25) ==
  LET nls == newlines(doc.text)
      num == atOffset(nls, ms[1].off)
      start == lineStart(nls, num)
      next == lineStart(nls, num + 1)
      n == Num({i \in DOMAIN ms : \A j \in 1..i : ms[j].off < next})
      cands == SubSeq(ms, 1, n)
      stop == IF End(Last(cands)) <= next THEN next
              ELSE lineStart(nls, atOffset(nls, End(Last(cands)) - 1) + 1)
      s == LineScore(doc, cands, bm25)
      line == [num |-> num, start |-> start, end |-> stop, score |-> s.score, file |-> FALSE,
               before |-> getLines(nls, doc.text, num - ctx, num),
               after |-> getLines(nls, doc.text, num + 1, num + 1 + ctx),
               frags |-> [i \in 1..n |-> [off |-> cands[i].off, lineOff |-> cands[i].off - start,
                                          len |-> cands[i].sz,
                                          sym |-> IF i <= Len(s.syms) THEN s.syms[i] ELSE 0]]]
  IN IF ms = <<>> THEN <<>>
     ELSE <<line>> \o fillContentMatches(doc, SubSeq(ms, n + 1, Len(ms)), ctx, bm25)

InText(ms) == SelectSeq(ms, LAMBDA m : ~m.file)

\* fillMatches: matches in the text, or else one line with the name.
fillMatches(doc, ms, ctx, bm25) ==
  IF InText(ms) # <<>>
  THEN fillContentMatches(doc, breakMatchesOnNewlines(InText(ms), doc.text), ctx, bm25)
  ELSE <<[num |-> 0, start |-> 0, end |-> 0, file |-> TRUE,
          score |-> LineScore(doc, ms, bm25).score, before |-> <<>>, after |-> <<>>,
          frags |-> [i \in DOMAIN ms |-> [off |-> ms[i].off, lineOff |-> ms[i].off,
                                          len |-> ms[i].sz, sym |-> 0]]]>>

-----------------------------------------------------------------------------
(* Chunk matches.                                                          *)

\* chunkCandidates: a match joins the last chunk when their lines, with the
\* context around them, would overlap.
chunkCandidates(ms, nls, ctx) ==
  LET Add(chunks, m) ==
        LET lines == offsetRangeToLineRange(nls, m.off, End(m))
            last == Last(chunks)
        IN IF chunks # <<>> /\ last.last + ctx >= lines[1] - ctx
           THEN Append(Front(chunks),
                  IF last.max < End(m)
                  THEN [last EXCEPT !.ms = Append(@, m), !.last = lines[2], !.max = End(m)]
                  ELSE [last EXCEPT !.ms = Append(@, m)])
           ELSE Append(chunks, [ms |-> <<m>>, first |-> lines[1], last |-> lines[2], max |-> End(m)])
  IN FoldLeft(Add, <<>>, ms)

\* columnHelper.get: the runes of the line up to the offset, counted on from
\* the last answer when that was on the same line and not behind.
column(h, data, line, off) ==
  LET runes == IF line = h.line /\ off >= h.off
               THEN h.runes + RuneCount(Bytes(data, h.off, off))
               ELSE RuneCount(Bytes(data, line, off))
  IN [line |-> line, off |-> off, runes |-> runes]

Location(off, line, h) == [off |-> off, line |-> line, col |-> h.runes + 1]

\* The ranges of a chunk; the column helper goes on to the next chunk.
RECURSIVE Ranges(_, _, _, _, _)
Ranges(doc, nls, ms, h, acc) ==
  LET m == Head(ms)
      lines == offsetRangeToLineRange(nls, m.off, End(m))
      h1 == column(h, doc.text, lineStart(nls, lines[1]), m.off)
      h2 == column(h1, doc.text, lineStart(nls, lines[2]), End(m))
      r == [s |-> Location(m.off, lines[1], h1), e |-> Location(End(m), lines[2], h2)]
  IN IF ms = <<>> THEN [ranges |-> acc, h |-> h]
     ELSE Ranges(doc, nls, Tail(ms), h2, Append(acc, r))

RECURSIVE FillChunks(_, _, _, _, _, _)
FillChunks(doc, nls, chunks, ctx, bm25, h) ==
  LET Chunk(c, first, r, s) ==
        [content |-> getLines(nls, doc.text, first, c.last + ctx + 1),
         start |-> [off |-> lineStart(nls, first), line |-> first, col |-> 1],
         ranges |-> r.ranges, syms |-> s.syms, best |-> s.best, score |-> s.score, file |-> FALSE]
      Fill(c, r) == <<Chunk(c, Most(c.first - ctx, 1), r, scoreChunk(doc, c.ms, bm25))>>
                      \o FillChunks(doc, nls, Tail(chunks), ctx, bm25, r.h)
  IN IF chunks = <<>> THEN <<>>
     ELSE Fill(Head(chunks), Ranges(doc, nls, Head(chunks).ms, h, <<>>))

fillContentChunkMatches(doc, ms, ctx, bm25) ==
  LET nls == newlines(doc.text)
  IN FillChunks(doc, nls, chunkCandidates(ms, nls, ctx), ctx, bm25, [line |-> 0, off |-> 0, runes |-> 0])

fillChunkMatches(doc, ms, ctx, bm25) ==
  LET At(off) == [off |-> off, line |-> 1, col |-> RuneCount(Bytes(doc.name, 0, off)) + 1]
  IN IF InText(ms) # <<>> THEN fillContentChunkMatches(doc, InText(ms), ctx, bm25)
     ELSE <<[content |-> doc.name, start |-> At(0), file |-> TRUE, syms |-> <<>>, best |-> 0,
             score |-> LineScore(doc, ms, bm25).score,
             ranges |-> [i \in DOMAIN ms |-> [s |-> At(ms[i].off), e |-> At(End(ms[i]))]]]>>
=============================================================================
