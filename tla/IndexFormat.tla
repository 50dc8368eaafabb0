---------------------------- MODULE IndexFormat ----------------------------
(***************************************************************************)
(* The shard on disk: ShardBuilder (index/shard_builder.go, bits.go), its  *)
(* Write (write.go, section.go, toc.go), the reader (read.go, the          *)
(* accessors of indexdata.go), merge and explode (merge.go).               *)
(*                                                                         *)
(* A file is a sequence of cells.  A byte, a U32, a U64, an n-gram and a   *)
(* JSON blob are one cell each, and offsets count cells.  Text bytes are    *)
(* numbered as in ContentProvider; byte 29 is NUL.  A document is [name,   *)
(* content, syms, branches, lang, repo]: syms is a sequence of <<start,    *)
(* end, kind>>, branches a sequence of names, repo the repository.  A      *)
(* repository is [name, id, brs, tomb].                                    *)
(***************************************************************************)
EXTENDS ContentProvider, Varint, BTree

CONSTANTS RuneFreq,    \* runeOffsetFrequency: 100 in the code
          Gram,        \* ngramSize: 3 in the code
          Mod32,       \* 2^32: arithmetic on uint32 wraps here
          Mod16,       \* 2^16: the numbers of repositories wrap here
          MaxBranches, \* 64: the bits of a branch mask
          IdBits       \* 32: the bits of the loop variable in addDocument

ASSUME FormatAssumption == /\ RuneFreq \in Nat \ {0} /\ Gram \in Nat \ {0}
                           /\ Mod32 \in Nat \ {0} /\ Mod16 \in Nat \ {0}
                           /\ MaxBranches \in Nat /\ IdBits \in Nat

NUL == 29
NotIndexed == <<9, 9, 9, 8>>     \* notIndexedMarker and the reason
Flat(s) == FlattenSeq(s)

-----------------------------------------------------------------------------
(* Coding of lists of numbers.                                             *)

Deltas(offs) == [i \in DOMAIN offs |-> (offs[i] - (IF i = 1 THEN 0 ELSE offs[i - 1])) % Mod32]

\* toSizedDeltas: the length, then the differences; uint32 wraps.
toSizedDeltas(offs) ==
  PutUvarint(Len(offs)) \o Flat([i \in DOMAIN offs |-> PutUvarint(Deltas(offs)[i])])

RECURSIVE FromDeltas(_, _, _, _)
FromDeltas(data, last, mod, acc) ==
  LET Next(rest, off) == FromDeltas(rest, off, mod, Append(acc, off))
      Read(u) == Next(Drop(data, u.n), (last + u.x) % mod)
  IN IF data = <<>> THEN acc ELSE Read(Uvarint(data))

fromSizedDeltas(data) == FromDeltas(Drop(data, Uvarint(data).n), 0, Mod32, <<>>)

\* The 16 bit variants, used for the repository of each document.
toSizedDeltas16(offs) ==
  PutUvarint(Len(offs)) \o
  Flat([i \in DOMAIN offs |-> PutUvarint((offs[i] - (IF i = 1 THEN 0 ELSE offs[i - 1])) % Mod16)])

fromSizedDeltas16(data) == FromDeltas(Drop(data, Uvarint(data).n), 0, Mod16, <<>>)

marshalDocSections(secs) == toSizedDeltas(Flat([i \in DOMAIN secs |-> <<secs[i][1], secs[i][2]>>]))

unmarshalDocSections(data) ==
  LET ints == fromSizedDeltas(data)
  IN [i \in 1..(Len(ints) \div 2) |-> <<ints[2 * i - 1], ints[2 * i]>>]

-----------------------------------------------------------------------------
(* Postings.                                                               *)

Pad(v, n) == [i \in 1..n |-> v]
RuneStarts(data) == SortBy({i - 1 : i \in {j \in DOMAIN data : data[j] # Cont}}, LAMBDA a, b : a < b)
Runes(data) == SelectSeq(data, LAMBDA c : c # Cont)

\* runesToNGram: the runes of an n-gram as the digits of one number.
runesToNGram(rs) == FoldLeft(LAMBDA n, r : n * 32 + r, 0, rs)

newPostingsBuilder ==
  [lists |-> <<>>, ids |-> <<>>, runeOffsets |-> <<>>, runeCount |-> 0, ascii |-> TRUE,
   endRunes |-> <<>>, endByte |-> 0]

\* One occurrence: a new n-gram gets the next list, and the list grows by
\* the distance to its last offset.
AddPosting(pb, ng, off) ==
  LET known == {i \in DOMAIN pb.ids : pb.ids[i] = ng}
      i == IF known = {} THEN Len(pb.ids) + 1 ELSE CHOOSE j \in known : TRUE
      old == IF known = {} THEN [data |-> <<>>, last |-> 0] ELSE pb.lists[i]
      new == [data |-> old.data \o PutUvarint((off - old.last) % Mod32), last |-> off]
  IN IF known = {} THEN [pb EXCEPT !.ids = Append(@, ng), !.lists = Append(@, new)]
     ELSE [pb EXCEPT !.lists[i] = new]

\* newSearchableString: the n-grams of the text at their rune offsets in the
\* corpus, every RuneFreq-th rune's byte offset, and the symbol boundaries
\* as rune offsets.  A boundary inside a rune is an error.
newSearchableString(pb, data, secs) ==
  LET starts == RuneStarts(data)
      rs == Runes(data)
      n == Len(rs)
      RuneOf(b) == Num({i \in DOMAIN starts : starts[i] < b})
      grams == [i \in 1..Most(n - Gram + 1, 0) |-> <<runesToNGram(SubSeq(rs, i, i + Gram - 1)), i - 1>>]
      sampled == SelectSeq([i \in 1..n |-> i], LAMBDA i : (pb.runeCount + i - 1) % RuneFreq = 0)
      bad == \E i \in DOMAIN secs, k \in 1..2 :
               secs[i][k] # Len(data) /\ secs[i][k] \notin ToSet(starts)
      Counted(posted) ==
        [posted EXCEPT !.runeOffsets = @ \o [k \in DOMAIN sampled |-> pb.endByte + starts[sampled[k]]],
                       !.ascii = @ /\ n = Len(data),
                       !.runeCount = @ + n,
                       !.endRunes = IF bad THEN @ ELSE Append(@, pb.runeCount + n),
                       !.endByte = IF bad THEN @ ELSE @ + Len(data)]
  IN [err |-> bad,
      secs |-> [i \in DOMAIN secs |-> <<pb.runeCount + RuneOf(secs[i][1]), pb.runeCount + RuneOf(secs[i][2])>>],
      pb |-> Counted(FoldLeft(LAMBDA p, g : AddPosting(p, g[1], pb.runeCount + g[2]), pb, grams))]

-----------------------------------------------------------------------------
(* ShardBuilder.                                                           *)

newShardBuilder(next) ==
  [next |-> next, repos |-> <<>>, content |-> newPostingsBuilder, names |-> newPostingsBuilder,
   docs |-> <<>>, nameStrs |-> <<>>, docRepo |-> <<>>, secs |-> <<>>, runeSecs |-> <<>>,
   kinds |-> <<>>, symMeta |-> <<>>, endSym |-> <<0>>, masks |-> <<>>, langs |-> <<>>, docLang |-> <<>>]

Result(err, b) == [err |-> err, b |-> b]

setRepository(b, repo) ==
  IF Len(repo.brs) > MaxBranches THEN Result(TRUE, b)
  ELSE Result(FALSE, [b EXCEPT !.repos = Append(@, repo)])

\* The number of a name in a list of names, from 0, and the list with it.
Place(list, x) == (CHOOSE i \in DOMAIN list : list[i] = x) - 1
With(list, x) == IF x \in ToSet(list) THEN list ELSE Append(list, x)

branchMask(b, br) ==
  LET brs == Last(b.repos).brs
      at == {i \in DOMAIN brs : brs[i] = br}
  IN IF at = {} THEN 0 ELSE 2 ^ ((CHOOSE i \in at : \A j \in at : i <= j) - 1)

RECURSIVE BitOr(_, _)
BitOr(x, y) == IF x = 0 THEN y
               ELSE (IF x % 2 = 1 \/ y % 2 = 1 THEN 1 ELSE 0) + 2 * BitOr(x \div 2, y \div 2)

\* A document with a NUL after its first byte is binary: its content is
\* replaced and its symbols are dropped.
Indexable(doc) ==
  IF \E i \in 2..Len(doc.content) : doc.content[i] = NUL
  THEN [doc EXCEPT !.content = NotIndexed, !.syms = <<>>] ELSE doc

SortSyms(syms) ==
  LET order == SortBy(DOMAIN syms, LAMBDA i, j : syms[i][1] < syms[j][1]
                                                 \/ (syms[i][1] = syms[j][1] /\ i < j))
  IN [i \in DOMAIN syms |-> syms[order[i]]]

\* The symbols a document brings, and the document itself.
addSymbols(b, syms, kinds) ==
  [b EXCEPT !.kinds = kinds,
            !.symMeta = @ \o Flat([i \in DOMAIN syms |-> <<0, Place(kinds, syms[i][3]), 0, 0>>])]

addDoc(b, doc, syms, runeSecs, masks, langs) ==
  [b EXCEPT !.docs = Append(@, doc.content), !.nameStrs = Append(@, doc.name),
            !.docRepo = Append(@, (Len(b.repos) - 1) % Mod16),
            !.secs = Append(@, [i \in DOMAIN syms |-> <<syms[i][1], syms[i][2]>>]),
            !.runeSecs = @ \o runeSecs,
            !.endSym = Append(@, Len(b.runeSecs) + Len(syms)),
            !.masks = Append(@, FoldLeft(BitOr, 0, masks)),
            !.langs = langs, !.docLang = Append(@, Place(langs, doc.lang))]

addSorted(b, doc, syms) ==
  LET overlap == \E i \in 2..Len(syms) : syms[i - 1][2] > syms[i][1]
      past == syms # <<>> /\ Last(syms)[2] > Len(doc.content)
      kinds == FoldLeft(With, b.kinds, [i \in DOMAIN syms |-> syms[i][3]])
      Named(c, secs, masks) ==
        IF 0 \in ToSet(masks) \/ Len(b.repos) - 1 > Mod16 THEN Result(TRUE, addSymbols(c, syms, kinds))
        ELSE Result(FALSE, addDoc(addSymbols(c, syms, kinds), doc, syms, secs, masks, With(b.langs, doc.lang)))
      Posted(text, names) ==
        IF text.err THEN Result(TRUE, [b EXCEPT !.content = text.pb])
        ELSE Named([b EXCEPT !.content = text.pb, !.names = names],
                   text.secs, [i \in DOMAIN doc.branches |-> branchMask(b, doc.branches[i])])
  IN IF overlap \/ past THEN Result(TRUE, b)
     ELSE Posted(newSearchableString(b.content, doc.content, syms),
                 newSearchableString(b.names, doc.name, <<>>).pb)

\* Add: checks that need no state come first, then the postings of content
\* and name, then the branches and the number of repositories; an error after
\* that leaves the postings of a document that the builder does not have.
Add(b, document) == addSorted(b, Indexable(document), SortSyms(Indexable(document).syms))

-----------------------------------------------------------------------------
(* Write.  A section is its tag, its kind and its items; w is the file so   *)
(* far and its table of contents.                                          *)

Simple(tag, cells) == [tag |-> tag, kind |-> 0, items |-> <<cells>>]
Compound(tag, items) == [tag |-> tag, kind |-> 1, items |-> items]

\* The items, and behind those of a compound section the offset of each in the
\* file.
writeSection(w, s) ==
  LET at == Len(w.file)
      Before(i) == FoldLeft(LAMBDA n, x : n + Len(x), 0, SubSeq(s.items, 1, i - 1))
      Put(data, index) ==
        [file |-> w.file \o data \o index,
         toc |-> Append(w.toc, <<s.tag, s.kind, at, Len(data)>>
                                 \o (IF s.kind = 0 THEN <<>> ELSE <<at + Len(data), Len(index)>>))]
  IN Put(Flat(s.items), IF s.kind = 0 THEN <<>> ELSE [i \in DOMAIN s.items |-> at + Before(i)])

ContentTags == [grams |-> "ngramText", lists |-> "postings", offs |-> "runeOffsets", ends |-> "fileEndRunes"]
NameTags == [grams |-> "nameNgramText", lists |-> "namePostings", offs |-> "nameRuneOffsets",
             ends |-> "nameEndRunes"]

\* writePostings: the n-grams in order, their lists, the sampled offsets and
\* the rune count at the end of each document.
writePostings(pb, t) ==
  LET order == SortBy(DOMAIN pb.ids, LAMBDA i, j : pb.ids[i] < pb.ids[j])
  IN <<Simple(t.grams, [i \in DOMAIN order |-> pb.ids[order[i]]]),
       Compound(t.lists, [i \in DOMAIN order |-> pb.lists[order[i]].data]),
       Simple(t.offs, toSizedDeltas(pb.runeOffsets)),
       Simple(t.ends, toSizedDeltas(pb.endRunes))>>

newLinesIndices(text) == newlines(text).locs

\* Write: the sections in the code's order, the table of contents behind its
\* marker 0, and where that table is.  An old format holds one repository.
Write(b) ==
  LET ids == {b.repos[i].id : i \in DOMAIN b.repos}
      If(c, section) == IF c THEN <<section>> ELSE <<>>
      sections ==
        <<Compound("fileContents", b.docs),
          Compound("newlines", [i \in DOMAIN b.docs |-> toSizedDeltas(newLinesIndices(b.docs[i]))]),
          Simple("fileEndSymbol", b.endSym),
          Compound("symbolKindMap", [i \in DOMAIN b.kinds |-> <<b.kinds[i]>>]),
          Simple("symbolMetaData", b.symMeta),
          Simple("branchMasks", b.masks),
          Compound("fileSections", [i \in DOMAIN b.secs |-> marshalDocSections(b.secs[i])])>>
        \o writePostings(b.content, ContentTags)
        \o <<Compound("fileNames", b.nameStrs)>>
        \o writePostings(b.names, NameTags)
        \o <<Simple("languages", b.docLang),
             Simple("runeDocSections", marshalDocSections(b.runeSecs))>>
        \o If(b.next, Simple("repos", toSizedDeltas16(b.docRepo)))
        \o If(b.next /\ ids # {} /\ 0 \notin ids, Simple("reposIDsBitmap", <<ids>>))
        \o <<Simple("metaData", <<[next |-> b.next, langs |-> b.langs,
                                   ascii |-> b.content.ascii /\ b.names.ascii]>>),
             Simple("repoMetaData", <<b.repos>>)>>
      Closed(file, toc) == file \o toc \o <<Len(file), Len(toc)>>
      Finish(w) == Closed(w.file, <<0>> \o Flat(w.toc))
  IN [err |-> ~b.next /\ Len(b.repos) # 1,
      file |-> Finish(FoldLeft(writeSection, [file |-> <<>>, toc |-> <<>>], sections))]
=============================================================================
