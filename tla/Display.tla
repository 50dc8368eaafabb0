------------------------------ MODULE Display ------------------------------
(***************************************************************************)
(* The order and the number of the files a client sees: scoreFile and the  *)
(* sorting of index/score.go and contentprovider.go, and the display       *)
(* limits of index/limit.go, which a stream applies to one batch of files  *)
(* after the other.                                                        *)
(*                                                                         *)
(* A file is [name, ext, score, lines, chunks]: its matches are either     *)
(* line matches or chunk matches.  A score is a pair: the truncated score  *)
(* of the query, and the tie breakers below ScoreOffset.                   *)
(***************************************************************************)
EXTENDS ContentProvider

ScoreOffset == 10000000
scoreRepoRankFactor == 100
scoreFileOrderFactor == 10
MaxRank == 65535

\* scoreFile: the best match and a share of scoreFactorAtomMatch for the atoms
\* that matched, then the repository's rank and the document's place.
scoreFile(best, atoms, rank, doc, docs) ==
  LET query == best + (IF atoms > 0 THEN (scoreFactorAtomMatch * (atoms - 1)) \div atoms ELSE 0)
      tie == scoreRepoRankFactor * rank + (scoreFileOrderFactor * (docs + 1 - doc)) \div (docs + 1)
  IN <<query + tie \div ScoreOffset, tie % ScoreOffset>>

Higher(a, b) == a[1] > b[1] \/ (a[1] = b[1] /\ a[2] > b[2])

\* sort.Sort: by falling score; among equal scores the places in the input
\* stand for the order the library happens to choose.
SortFilesByScore(files) ==
  LET Before(i, j) == \/ Higher(files[i].score, files[j].score)
                      \/ files[i].score = files[j].score /\ i < j
      order == SortBy(DOMAIN files, Before)
  IN [k \in DOMAIN files |-> files[order[k]]]

\* boostNovelExtension: the first candidate after boostOffset whose extension
\* is not among the top ones, and whose score is close, moves up.
boostOffset == 2

Move(s, i, j) ==       \* the element at i to place j <= i
  SubSeq(s, 1, j - 1) \o <<s[i]>> \o SubSeq(s, j, i - 1) \o SubSeq(s, i + 1, Len(s))

boostNovelExtension(files) ==
  LET exts == {files[i].ext : i \in 1..boostOffset}
      Close(i) == 10 * files[i].score[1] >= 9 * files[boostOffset + 1].score[1]
      novel == {i \in (boostOffset + 1)..Len(files) : Close(i) /\ files[i].ext \notin exts}
  IN IF Len(files) <= boostOffset + 1 \/ novel = {} THEN files
     ELSE Move(files, CHOOSE i \in novel : \A j \in novel : i <= j, boostOffset + 1)

SortFiles(files) == boostNovelExtension(SortFilesByScore(files))

-----------------------------------------------------------------------------
(* Display limits.                                                         *)

\* The chunk's content without the lines of the ranges cut off: as many
\* newlines from the end as lines lie between the last range and the last
\* range that stays.
CutContent(chunk, limit) ==
  LET n == Last(chunk.ranges).e.line - chunk.ranges[limit].e.line
      nls == {i \in DOMAIN chunk.content : chunk.content[i] = 0}
      at == CHOOSE i \in nls : Num({j \in nls : j >= i}) = n
  IN IF n = 0 THEN chunk.content ELSE SubSeq(chunk.content, 1, at - 1)

\* One chunk at the limit; SymbolInfo is cut to the same length.
CutChunk(chunk, limit) ==
  IF Len(chunk.ranges) <= limit THEN chunk
  ELSE [chunk EXCEPT !.content = CutContent(chunk, limit),
                     !.ranges = SubSeq(@, 1, limit),
                     !.syms = IF @ = <<>> THEN @ ELSE SubSeq(@, 1, limit)]

CutLine(line, limit) ==
  IF Len(line.frags) <= limit THEN line ELSE [line EXCEPT !.frags = SubSeq(@, 1, limit)]

\* limitChunkMatches and limitLineMatches: matches until the limit is used up.
limitList(list, limit, Size(_), Cut(_, _)) ==
  LET Used(i) == FoldLeft(LAMBDA n, m : n + Size(m), 0, SubSeq(list, 1, i))
      full == {i \in DOMAIN list : Used(i) >= limit}
      i == CHOOSE j \in full : \A k \in full : j <= k
  IN IF full = {} THEN [list |-> list, limit |-> limit - Used(Len(list))]
     ELSE [list |-> Append(SubSeq(list, 1, i - 1), Cut(list[i], limit - Used(i - 1))),
           limit |-> 0]

Ranged(c) == Len(c.ranges)
Fragments(l) == Len(l.frags)

LimitFile(f, limit, chunks) ==
  IF chunks
  THEN LET r == limitList(f.chunks, limit, Ranged, CutChunk)
       IN [file |-> [f EXCEPT !.chunks = r.list], limit |-> r.limit]
  ELSE LET r == limitList(f.lines, limit, Fragments, CutLine)
       IN [file |-> [f EXCEPT !.lines = r.list], limit |-> r.limit]

\* limitMatches: the files up to the one that uses the limit up.
RECURSIVE limitMatches(_, _, _)
limitMatches(files, limit, chunks) ==
  LET Before(file, rest) == [rest EXCEPT !.files = <<file>> \o @]
      On(one) == IF one.limit <= 0 THEN [files |-> <<one.file>>, limit |-> 0]
                 ELSE Before(one.file, limitMatches(Tail(files), one.limit, chunks))
  IN IF files = <<>> THEN [files |-> <<>>, limit |-> limit] ELSE On(LimitFile(Head(files), limit, chunks))

\* NewDisplayTruncator: what is left of the two limits (0: none was set at
\* the start, see docs and matches), and whether they are used up.
NewDisplayTruncator(docLimit, matchLimit) ==
  [doc |-> docLimit, match |-> matchLimit, docs |-> docLimit > 0, matches |-> matchLimit > 0,
   done |-> FALSE]

\* One call of the truncator: its new state, the files, and hasMore.
Truncate(t, files, chunks) ==
  LET atDoc == t.docs /\ Len(files) >= t.doc
      fm == IF atDoc THEN SubSeq(files, 1, t.doc) ELSE files
      Limited(lm, done) ==
        [t |-> [t EXCEPT !.doc = IF t.docs THEN @ - Len(fm) ELSE @, !.match = lm.limit, !.done = done],
         files |-> lm.files, more |-> ~done]
      Cut(lm) == Limited(lm, atDoc \/ (t.matches /\ lm.limit <= 0))
  IN CASE ~t.docs /\ ~t.matches -> [t |-> t, files |-> files, more |-> TRUE]
       [] (t.docs \/ t.matches) /\ t.done -> [t |-> t, files |-> <<>>, more |-> FALSE]
       [] OTHER -> Cut(IF t.matches THEN limitMatches(fm, t.match, chunks)
                                    ELSE [files |-> fm, limit |-> t.match])

SortAndTruncateFiles(files, docLimit, matchLimit, chunks) ==
  Truncate(NewDisplayTruncator(docLimit, matchLimit), SortFiles(files), chunks).files

\* A stream: one truncator for all batches.
RECURSIVE TruncateAll(_, _, _)
TruncateAll(t, batches, chunks) ==
  LET On(r) == r.files \o TruncateAll(r.t, Tail(batches), chunks)
  IN IF batches = <<>> THEN <<>> ELSE On(Truncate(t, Head(batches), chunks))

-----------------------------------------------------------------------------
(* What a client may rely on.                                              *)

Inside(c, r) == /\ c.start.off <= r.s.off /\ r.e.off <= c.start.off + Len(c.content)

LineNo(text, off) == 1 + Num({i \in 1..off : text[i] = 0})

\* A location names the byte, the line and the column of the document.  The
\* end of a range that ends with a newline is still on that newline's line.
LocationTrue(text, l, isEnd) ==
  LET before == IF isEnd /\ l.off > 0 THEN l.off - 1 ELSE l.off
      start == IF l.line = 1 THEN 0
               ELSE CHOOSE i \in DOMAIN text :
                      text[i] = 0 /\ Num({j \in 1..i : text[j] = 0}) = l.line - 1
  IN /\ l.line = LineNo(text, IF isEnd /\ before < l.off THEN before ELSE l.off)
     /\ l.col = 1 + RuneCount(SubSeq(text, start + 1, l.off))

\* Chunk matches show every match of the text once, in order; a chunk's
\* content is the whole lines it says it is and holds its ranges; two chunks
\* have no line in common; and every location is that of its byte.
ChunksTrue(doc, ms, ctx) ==
  \A chunks \in {fillContentChunkMatches(doc, ms, ctx, FALSE)} :
  LET all == FlattenSeq([i \in DOMAIN chunks |-> chunks[i].ranges])
      Stop(c) == c.start.off + Len(c.content)
  IN /\ [i \in DOMAIN all |-> <<all[i].s.off, all[i].e.off>>]
          = [i \in DOMAIN ms |-> <<ms[i].off, End(ms[i])>>]
     /\ \A i \in DOMAIN all : ms[i].sz > 0 =>
          LocationTrue(doc.text, all[i].s, FALSE) /\ LocationTrue(doc.text, all[i].e, TRUE)
     /\ \A i \in DOMAIN chunks :
          LET c == chunks[i]
          IN /\ c.content = SubSeq(doc.text, c.start.off + 1, Stop(c))
             /\ c.start.off = 0 \/ doc.text[c.start.off] = 0
             /\ Stop(c) = Len(doc.text) \/ doc.text[Stop(c)] = 0
             /\ \A j \in DOMAIN c.ranges : Inside(c, c.ranges[j])
             /\ i > 1 => Stop(chunks[i - 1]) <= c.start.off

\* Line matches show every byte of a match except newlines exactly once, each
\* under the line it is on; and no line is shown twice.
LinesTrue(doc, ms, ctx) ==
  \A lines \in {fillMatches(doc, ms, ctx, FALSE)} :
  LET Shown(l) == UNION {l.frags[i].off..(l.frags[i].off + l.frags[i].len - 1) : i \in DOMAIN l.frags}
  IN /\ UNION {Shown(lines[i]) : i \in DOMAIN lines}
          = {b \in UNION {ms[i].off..(End(ms[i]) - 1) : i \in DOMAIN ms} : doc.text[b + 1] # 0}
     /\ \A i \in DOMAIN lines :
          /\ \A b \in Shown(lines[i]) : LineNo(doc.text, b) = lines[i].num
          /\ lines[i].start..(lines[i].end - 1)
               = {b \in 0..(Len(doc.text) - 1) : LineNo(doc.text, b) = lines[i].num}
          /\ i > 1 => lines[i - 1].num < lines[i].num

Total(files) ==
  FoldLeft(LAMBDA n, f : n + FoldLeft(LAMBDA k, c : k + Len(c.ranges), 0, f.chunks)
                           + FoldLeft(LAMBDA k, l : k + Len(l.frags), 0, f.lines), 0, files)

NumLines(s) == Num({i \in DOMAIN s : s[i] = 0}) + (IF s # <<>> /\ Last(s) # 0 THEN 1 ELSE 0)

\* The first n lines of a text, with their newlines.
FirstLines(s, n) == SubSeq(s, 1, Max({i \in 0..Len(s) : NumLines(SubSeq(s, 1, i)) <= n}))

\* A chunk c of which ranges were cut off keeps the first ranges of the chunk
\* it was, which still lie in its content.  The lines after its last range go
\* with the ranges they had, as many as lie between the two last ranges, but
\* two things are not as api.go:159 promises whole lines.  The newline of
\* the last line that stays is lost.  And as limit.go:92 takes a content to
\* have no newline at its end, of one that has it one line fewer goes.
CutTrue(full, c) ==
  LET n == Last(full.ranges).e.line - Last(c.ranges).e.line
      spared == IF Last(full.content) = 0 THEN 1 ELSE 0
  IN /\ c.ranges = SubSeq(full.ranges, 1, Len(c.ranges))
     /\ \A j \in DOMAIN c.ranges : Inside(c, c.ranges[j])
     /\ IF n = 0 THEN c.content = full.content
        ELSE Append(c.content, 0) = FirstLines(full.content, NumLines(full.content) - n + spared)

\* Truncating a stream batch by batch shows what truncating everything at
\* once shows; never more than the limits allow, and less only when there
\* is no more.
TruncateTrue(batches, docLimit, matchLimit, chunks) ==
  LET t == NewDisplayTruncator(docLimit, matchLimit)
      all == FlattenSeq(batches)
  IN \A shown \in {TruncateAll(t, batches, chunks)} :
     /\ shown = Truncate(t, all, chunks).files
     /\ docLimit > 0 => Len(shown) <= docLimit
     /\ matchLimit > 0 => Total(shown) <= matchLimit
     /\ \/ shown = all
        \/ docLimit > 0 /\ Len(shown) = docLimit
        \/ matchLimit > 0 /\ Total(shown) = matchLimit
     /\ \A i \in DOMAIN shown : \A k \in DOMAIN shown[i].chunks :
          CutTrue(all[i].chunks[k], shown[i].chunks[k])

\* Sorting keeps every file, the two best stay on top, a file moves up at most
\* to the third place, and only past files whose score is close to its own.
\* The score orders files by their matches first, whatever the tie breakers.
SortTrue(files) ==
  LET s == SortFiles(files)
      plain == SortFilesByScore(files)
      moved == {i \in DOMAIN s : s[i] # plain[i]}
  IN /\ \A f \in ToSet(files) :
          Num({i \in DOMAIN s : s[i] = f}) = Num({i \in DOMAIN files : files[i] = f})
     /\ \A i \in moved : i > boostOffset
     /\ \A i, j \in (DOMAIN s) \ {boostOffset + 1} : i < j => ~Higher(s[j].score, s[i].score)

RankTrue(a, b) ==
  LET x == scoreFile(a[1], a[2], a[3], a[4], 3)
      y == scoreFile(b[1], b[2], b[3], b[4], 3)
      Q(t) == t[1] + (400 * (t[2] - 1)) \div t[2]
  IN /\ Q(a) > Q(b) => Higher(x, y)
     /\ (Q(a) = Q(b) /\ a[3] > b[3]) => Higher(x, y)
     /\ (Q(a) = Q(b) /\ a[3] = b[3] /\ a[4] < b[4]) => Higher(x, y)
=============================================================================
