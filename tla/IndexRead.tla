----------------------------- MODULE IndexRead -----------------------------
(***************************************************************************)
(* Reading a shard (index/read.go, the accessors of indexdata.go, findOff- *)
(* set of contentprovider.go) and the two programs that read shards to     *)
(* write others: merge and explode (index/merge.go).  meta is the content  *)
(* of the .meta file beside the shard, <<>> when there is none.            *)
(***************************************************************************)
EXTENDS IndexFormat

NoSection == <<0, 0>>
Blob(file, sec) == SubSeq(file, sec[1] + 1, sec[1] + sec[2])   \* Read(off, sz)

\* readHeader: the table of contents is named by the last two numbers.
readHeader(file) == LET n == Len(file) IN [off |-> file[n - 1], sz |-> file[n]]

\* The sections behind the marker: tag, kind, and one or two ranges.
RECURSIVE Sections(_)
Sections(cells) ==
  IF cells = <<>> THEN {}
  ELSE LET n == IF cells[2] = 0 THEN 4 ELSE 6
       IN {[tag |-> cells[1], data |-> <<cells[3], cells[4]>>,
            index |-> IF n = 6 THEN <<cells[5], cells[6]>> ELSE NoSection]}
          \cup Sections(Drop(cells, n))

\* readTOCSections: a section that the file does not have stays empty.
readTOCSections(file) ==
  LET h == readHeader(file)
      secs == Sections(Drop(Blob(file, <<h.off, h.sz>>), 1))
  IN [t \in {s.tag : s \in secs} |-> CHOOSE s \in secs : s.tag = t]

Section(toc, tag) ==
  IF tag \in DOMAIN toc THEN toc[tag] ELSE [tag |-> tag, data |-> NoSection, index |-> NoSection]

\* relativeIndex: where the items begin within the data, and where it ends.
relativeIndex(file, sec) ==
  LET offs == Blob(file, sec.index)
  IN IF offs = <<>> THEN <<>> ELSE [i \in DOMAIN offs |-> offs[i] - offs[1]] \o <<sec.data[2]>>

\* parseMetadata: a .meta file replaces the repositories of the shard.
parseMetadata(file, toc, meta) ==
  [md |-> Blob(file, Section(toc, "metaData").data)[1],
   repos |-> IF meta # <<>> THEN meta ELSE Blob(file, Section(toc, "repoMetaData").data)[1]]

\* makeRuneOffsetMap: the samples that are not RuneFreq after the one before.
makeRuneOffsetMap(offs) ==
  LET Expected(i) == IF i = 1 THEN 0 ELSE offs[i - 1] + RuneFreq
      odd == SelectSeq([i \in DOMAIN offs |-> i], LAMBDA i : offs[i] # Expected(i))
  IN [k \in DOMAIN odd |-> <<(odd[k] - 1) * RuneFreq, offs[odd[k]]>>]

\* lookup: the byte offset of the sample before the rune, and how many runes
\* are left to walk over.
\* Mutation: the first correction after the rune is applied, not the last before it.
lookupAfter(m, r) ==
  LET left == r % RuneFreq
      x == r - left
      below == {i \in DOMAIN m : m[i][1] <= x}
      i == IF below = {} THEN 1 ELSE CHOOSE j \in below : \A k \in below : j <= k
  IN [byte |-> IF m = <<>> THEN x ELSE m[i][2] + x - m[i][1], left |-> left]

lookup(m, r) ==
  LET left == r % RuneFreq
      x == r - left
      below == {i \in DOMAIN m : m[i][1] <= x}
      i == CHOOSE j \in below : \A k \in below : k <= j
  IN [byte |-> IF below = {} THEN x ELSE m[i][2] + x - m[i][1], left |-> left]

\* verify: every per-document table has as many entries as there are names.
verify(d) ==
  d.nameIndex = <<>>
    \/ \A n \in {Len(d.boundaries), Len(d.docSections), Len(d.newlinesIndex), Len(d.masks) + 1} :
         n = Len(d.nameIndex)

\* readIndexData: the sections as tables, then verify.
readSections(file, toc, meta) ==
  LET info == parseMetadata(file, toc, meta)
      Data(tag) == Blob(file, Section(toc, tag).data)
      Index(tag) == relativeIndex(file, Section(toc, tag))
      masks == Data("branchMasks")
  IN [file |-> file, toc |-> toc, md |-> info.md, repos |-> info.repos, masks |-> masks,
      boundaries |-> Index("fileContents"), newlinesIndex |-> Index("newlines"),
      docSections |-> Index("fileSections"), nameIndex |-> Index("fileNames"),
      names |-> Data("fileNames"), kindIndex |-> Index("symbolKindMap"),
      kindText |-> Data("symbolKindMap"), symMeta |-> Data("symbolMetaData"),
      endSym |-> Data("fileEndSymbol"), languages |-> Data("languages"),
      contentBt |-> newBtree(Data("ngramText")),
      nameBt |-> newBtree(Data("nameNgramText")),
      runeSecs |-> unmarshalDocSections(Data("runeDocSections")),
      runes |-> makeRuneOffsetMap(fromSizedDeltas(Data("runeOffsets"))),
      nameRunes |-> makeRuneOffsetMap(fromSizedDeltas(Data("nameRuneOffsets"))),
      endRunes |-> fromSizedDeltas(Data("fileEndRunes")),
      nameEndRunes |-> fromSizedDeltas(Data("nameEndRunes")),
      docRepo |-> IF info.md.next THEN fromSizedDeltas16(Data("repos"))
                  ELSE [i \in DOMAIN masks |-> 0]]

readIndexData(file, meta) ==
  LET Verified(d) == [err |-> ~verify(d), d |-> d]
  IN Verified(readSections(file, readTOCSections(file), meta))

-----------------------------------------------------------------------------
(* Accessors; documents are numbered from 1.                               *)

numDocs(d) == Len(d.masks)
Item(d, tag, index, i) ==
  Blob(d.file, <<Section(d.toc, tag).data[1] + index[i], index[i + 1] - index[i]>>)

fileName(d, i) == Bytes(d.names, d.nameIndex[i], d.nameIndex[i + 1])
readContents(d, i) == Item(d, "fileContents", d.boundaries, i)
readNewlines(d, i) == fromSizedDeltas(Item(d, "newlines", d.newlinesIndex, i))
readDocSections(d, i) == unmarshalDocSections(Item(d, "fileSections", d.docSections, i))
getLanguage(d, i) == d.md.langs[d.languages[i] + 1]

\* symbolData.data: four numbers a symbol, the second is its kind.
symbolKind(d, k) ==
  LET kind == d.symMeta[4 * k + 2]
  IN Bytes(d.kindText, d.kindIndex[kind + 1], d.kindIndex[kind + 2])[1]

\* branchNames: the name of each bit; no entry reads as the empty name.
branchName(repo, id) ==
  LET at == {j \in DOMAIN repo.brs : 2 ^ (j - 1) = id}
  IN IF at = {} THEN "" ELSE repo.brs[CHOOSE j \in at : TRUE]

\* getPostingList: from one offset to the next, the last to the index.
getPostingList(d, sec, n) ==
  LET offs == Blob(d.file, sec.index)
  IN <<offs[n + 1], (IF n + 2 <= Len(offs) THEN offs[n + 2] ELSE sec.index[1]) - offs[n + 1]>>

\* The posting list of an n-gram as rune offsets in the corpus.
postings(d, t, ng) ==
  LET List(n) == IF n = -1 THEN <<>>
                 ELSE FromDeltas(Blob(d.file, getPostingList(d, Section(d.toc, t.lists), n)), 0, Mod32, <<>>)
  IN List(Get(IF t = NameTags THEN d.nameBt ELSE d.contentBt, Blob(d.file, Section(d.toc, t.grams).data), ng))

\* utf8.DecodeRune at the front of data, which may be cut: 0 bytes of no
\* data, 1 byte of a rune whose end is missing.
DecodeRune(data, whole) ==
  LET n == Num({k \in DOMAIN whole : \A j \in 2..k : whole[j] = Cont})
  IN IF data = <<>> THEN 0 ELSE IF n > Len(data) THEN 1 ELSE n

RECURSIVE WalkRunes(_, _, _, _)
WalkRunes(data, whole, left, off) ==
  IF left = 0 THEN off
  ELSE LET sz == DecodeRune(data, whole)
       IN WalkRunes(Drop(data, sz), Drop(whole, sz), left - 1, off + sz)

\* findOffset: the byte offset in document i of its r-th rune, from 0.  At
\* most 3 * RuneFreq bytes of the contents are read to walk over the rest.
findOffset(d, i, name, r) ==
  LET abs == r + (IF i = 1 THEN 0 ELSE IF name THEN d.nameEndRunes[i - 1] ELSE d.endRunes[i - 1])
      at == lookup(IF name THEN d.nameRunes ELSE d.runes, abs)
      start == IF name THEN d.nameIndex[i] ELSE d.boundaries[i]
      all == IF name THEN d.names ELSE Blob(d.file, Section(d.toc, "fileContents").data)
      rest == Drop(all, at.byte)
      data == IF name THEN rest ELSE SubSeq(rest, 1, Least(3 * RuneFreq, Len(rest)))
  IN IF d.md.ascii THEN r ELSE WalkRunes(data, rest, at.left, at.byte) - start

\* maybeContainsRepo and containsRepo: the bitmap first, then the metadata.
maybeContainsRepo(toc, file, id) ==
  LET bits == Section(toc, "reposIDsBitmap").data
  IN bits[2] = 0 \/ id \in Blob(file, bits)[1]

containsRepo(file, meta, id) ==
  LET toc == readTOCSections(file)
      repos == parseMetadata(file, toc, meta).repos
  IN maybeContainsRepo(toc, file, id) /\ \E i \in DOMAIN repos : ~repos[i].tomb /\ repos[i].id = id

-----------------------------------------------------------------------------
(* Merge and explode.                                                      *)

\* The branches of a mask; id, the value of the bit looked at, has that many
\* bits and wraps to 0.
RECURSIVE MaskBranches(_, _, _, _)
MaskBranches(repo, mask, id, bits) ==
  IF mask = 0 THEN <<>>
  ELSE (IF mask % 2 = 1 THEN <<branchName(repo, id)>> ELSE <<>>)
       \o MaskBranches(repo, mask \div 2, (2 * id) % (2 ^ bits), bits)

\* gatherBranches of eval.go, which a search uses, counts with 64 bits.
searchBranches(d, i) == MaskBranches(d.repos[d.docRepo[i] + 1], d.masks[i], 1, MaxBranches)

\* addDocument: document i of d again, as Add takes it.
readDocument(d, i) ==
  LET repo == d.repos[d.docRepo[i] + 1]
      Kinds(secs) == [k \in DOMAIN secs |-> <<secs[k][1], secs[k][2], symbolKind(d, d.endSym[i] + k - 1)>>]
  IN [name |-> fileName(d, i), content |-> readContents(d, i),
      syms |-> Kinds(readDocSections(d, i)),
      branches |-> MaskBranches(repo, d.masks[i], 1, IdBits), lang |-> getLanguage(d, i), repo |-> repo.name]

addDocument(d, b, i) == Add(b, readDocument(d, i))

MergeFail == [err |-> TRUE, out |-> <<>>]

\* The live documents of d in order, each step a builder for its repository.
\* start says what a new repository does to the builder: merge adds it to
\* the one builder, explode writes the old builder and begins another.
CopyDocs(d, acc0, start(_, _)) ==
  LET Added(acc, r, added) == [acc EXCEPT !.b = added.b, !.err = added.err, !.last = r]
      Into(acc, r, i) == IF acc.err THEN acc ELSE Added(acc, r, addDocument(d, acc.b, i))
      At(acc, r, i) ==
        CASE acc.err \/ d.repos[r + 1].tomb -> acc
          [] ~(acc.err \/ d.repos[r + 1].tomb) /\ r < acc.last -> [acc EXCEPT !.err = TRUE]
          [] OTHER -> Into(IF r = acc.last THEN acc ELSE start(acc, d.repos[r + 1]), r, i)
  IN FoldLeft(LAMBDA acc, i : At(acc, d.docRepo[i], i), acc0, [i \in 1..numDocs(d) |-> i])

\* merge: the builder of all live documents.  The shards are sorted by the
\* priority of their first repository before.
StartMerge(acc, repo) ==
  LET s == setRepository(acc.b, repo) IN [acc EXCEPT !.b = s.b, !.err = s.err]

merge(ds) ==
  FoldLeft(LAMBDA acc, d : IF acc.err THEN acc ELSE CopyDocs(d, [acc EXCEPT !.last = -1], StartMerge),
           [b |-> newShardBuilder(TRUE), err |-> ds = <<>>, last |-> -1, out |-> <<>>], ds)

\* Merge: the shard written of the builder.
Merge(ds) ==
  LET Written(err, w) == IF err \/ w.err THEN MergeFail ELSE [err |-> FALSE, out |-> <<w.file>>]
      Built(m) == Written(m.err, Write(m.b))
  IN Built(merge(ds))

\* writeShard: a builder holds exactly one repository.
writeShard(acc) ==
  LET Written(w) == IF Len(acc.b.repos) # 1 \/ w.err THEN [acc EXCEPT !.err = TRUE]
                    ELSE [acc EXCEPT !.out = Append(@, w.file)]
  IN Written(Write(acc.b))

StartExplode(acc, repo) ==
  LET s == setRepository(newShardBuilder(FALSE), repo)
  IN [(IF acc.last = -1 THEN acc ELSE writeShard(acc)) EXCEPT !.b = s.b, !.err = @ \/ s.err]

explode(d) ==
  LET Out(acc) == IF acc.err THEN MergeFail ELSE [err |-> FALSE, out |-> acc.out]
      Copied(acc) == Out(IF acc.err \/ acc.last = -1 THEN acc ELSE writeShard(acc))
  IN Copied(CopyDocs(d, [b |-> newShardBuilder(FALSE), err |-> FALSE, last |-> -1, out |-> <<>>],
                     StartExplode))

-----------------------------------------------------------------------------
(* What the format promises.                                               *)

\* Building a shard: its repository, then its documents.
BuildShard(repo, docs) ==
  FoldLeft(LAMBDA acc, doc : IF acc.err THEN acc ELSE Add(acc.b, doc),
           setRepository(newShardBuilder(FALSE), repo), docs)

Shard(repo, docs) == readIndexData(Write(BuildShard(repo, docs).b).file, <<>>).d

ReadBack(d) == {readDocument(d, i) : i \in 1..numDocs(d)}

\* What a document reads as: binary content replaced, symbols by position,
\* branches in the order of the repository.
Canonical(repo, doc) ==
  LET x == Indexable(doc)
  IN [x EXCEPT !.syms = SortSyms(x.syms),
               !.branches = SelectSeq(repo.brs, LAMBDA br : br \in ToSet(doc.branches))]

\* The n-grams of a text with the byte offset of each occurrence.
Occurrences(text) ==
  LET starts == RuneStarts(text)
  IN {<<runesToNGram(SubSeq(Runes(text), i, i + Gram - 1)), starts[i]>> :
        i \in 1..Most(Len(starts) - Gram + 1, 0)}

\* The same from the posting lists: runes of the corpus, cut at the ends of
\* the documents, each turned into a byte offset by findOffset.
Posted(d, i, name) ==
  LET t == IF name THEN NameTags ELSE ContentTags
      ends == IF name THEN d.nameEndRunes ELSE d.endRunes
      lo == IF i = 1 THEN 0 ELSE ends[i - 1]
      grams == ToSet(Blob(d.file, Section(d.toc, t.grams).data))
  IN UNION {{<<ng, findOffset(d, i, name, o - lo)>> :
               o \in {x \in ToSet(postings(d, t, ng)) : lo <= x /\ x < ends[i]}} : ng \in grams}

\* Exception: between a place in the contents and the sampled rune before it
\* lie more bytes than findOffset reads (contentprovider.go:123 reads three a
\* rune, and a rune may have four).
Far(d, i, off) ==
  LET all == Blob(d.file, Section(d.toc, "fileContents").data)
      starts == RuneStarts(all)
      at == d.boundaries[i] + off
      r == Num({k \in DOMAIN starts : starts[k] < at})
  IN at - starts[r - (r % RuneFreq) + 1] > 3 * RuneFreq

\* What the posting lists say of the content of document i: every n-gram that
\* is not Far at its byte offset, and of one that is, an offset too small.
PostedTrue(d, i, text) ==
  \A posted \in {Posted(d, i, FALSE)}, true \in {Occurrences(text)} :
    LET far == {p \in true : Far(d, i, p[2])}
    IN /\ true \ far \subseteq posted
       /\ \A p \in posted \ true : \E f \in far : f[1] = p[1] /\ p[2] < f[2]

\* A shard gives back its documents, in their order, with lines and symbols,
\* and an n-gram of a document is found at exactly its byte offsets, unless
\* the runes before it are too long.
ShardTrue(repo, docs) ==
  \A d \in {Shard(repo, docs)} :
     /\ ~readIndexData(d.file, <<>>).err
     /\ numDocs(d) = Len(docs)
     /\ \A i \in DOMAIN docs :
          LET x == Canonical(repo, docs[i])
          IN /\ [readDocument(d, i) EXCEPT !.branches = searchBranches(d, i)] = x
             /\ readNewlines(d, i) = newlines(x.content).locs
             /\ PostedTrue(d, i, x.content)
             /\ Posted(d, i, TRUE) = Occurrences(x.name)
     /\ containsRepo(d.file, <<>>, repo.id)
     /\ ~containsRepo(d.file, <<[repo EXCEPT !.tomb = TRUE]>>, repo.id)

\* Merging shards and exploding the result, whatever repositories were
\* tombstoned, gives the documents of the live repositories that have any, and
\* no other.  sources: a sequence of [repo, docs, dead].  Exceptions: a
\* document on a branch past the IdBits-th cannot be merged (merge.go:294
\* counts 64 bits of a mask with 32), so the merge fails; and of Mod16 + 1
\* repositories the last is taken for the first (shard_builder.go:504 lets it
\* pass), only more are refused.
MergeTrue(sources) ==
  LET n == Len(sources)
      live == {i \in 1..n : ~sources[i].dead /\ sources[i].docs # <<>>}
      DocsOf(i) == {Canonical(sources[i].repo, sources[i].docs[j]) : j \in DOMAIN sources[i].docs}
      dead == {sources[i].repo.name : i \in {k \in 1..n : sources[k].dead}}
      wide == \E i \in 1..n : \E b \in UNION {ToSet(x.branches) : x \in DocsOf(i)} :
                b \notin ToSet(SubSeq(sources[i].repo.brs, 1, Least(IdBits, Len(sources[i].repo.brs))))
      Tombed(repos) == [i \in DOMAIN repos |-> [repos[i] EXCEPT !.tomb = repos[i].name \in dead]]
  IN \A merged \in {Merge([i \in 1..n |-> Shard(sources[i].repo, sources[i].docs)])} :
     /\ merged.err <=> wide \/ n > Mod16 + 1
     /\ ~merged.err => \A d \in {readIndexData(merged.out[1], <<>>).d} :
          /\ UNION {DocsOf(i) : i \in 1..Least(n, Mod16)} \subseteq ReadBack(d)
          /\ n <= Mod16 => ReadBack(d) = UNION {DocsOf(i) : i \in 1..n}
          /\ n <= Mod16 => \A exploded \in {explode(readIndexData(merged.out[1], Tombed(d.repos)).d)} :
               /\ ~exploded.err
               /\ \A parts \in {[i \in DOMAIN exploded.out |-> readIndexData(exploded.out[i], <<>>).d]} :
                    /\ {ReadBack(parts[i]) : i \in DOMAIN parts} = {DocsOf(i) : i \in live}
                    /\ \A i \in DOMAIN parts : Len(parts[i].repos) = 1
=============================================================================
