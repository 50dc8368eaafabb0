----------------------------- MODULE ResultWire -----------------------------
(***************************************************************************)
(* How results travel: the messages of api_proto.go, the binary encoding   *)
(* of the list of repositories (marshal.go), and the stream of a search    *)
(* through the sampling sender and the chunker of the gRPC server.         *)
(* A message is a record with the fields of the struct it is made from;    *)
(* a field without a conversion is carried, the others name theirs.  A map *)
(* is a function, a set a sequence without order.                          *)
(***************************************************************************)
EXTENDS QueryWire

CONSTANTS maxMessageSize,  \* chunker.go: the size a message stays below
          SampleEvery      \* sampling.go: events without files per message (100)

ASSUME ResultWireAssumption == maxMessageSize \in Nat \ {0} /\ SampleEvery \in Nat \ {0}

NilPtr == [nil |-> TRUE]

Carry(m, fields) == [f \in fields |-> m[f]]
Each(Conv(_), s) == [i \in DOMAIN s |-> Conv(s[i])]

\* Narrowing to uint16, the width of a rank and of a language.
Uint16(n) == n % 65536

-----------------------------------------------------------------------------
(* Search results.                                                         *)

LocationFields == {"ByteOffset", "LineNumber", "Column"}
LocationToProto(l) == Carry(l, LocationFields)
LocationFromProto(p) == Carry(p, LocationFields)

RangeToProto(r) == [Start |-> LocationToProto(r.Start), End |-> LocationToProto(r.End)]
RangeFromProto(p) == [Start |-> LocationFromProto(p.Start), End |-> LocationFromProto(p.End)]

\* A symbol is a pointer: a range without a symbol keeps its place in the list.
SymbolFields == {"Sym", "Kind", "Parent", "ParentKind"}
SymbolToProto(s) == IF s = NilPtr THEN NilPtr ELSE Carry(s, SymbolFields)
SymbolFromProto(p) == IF p = NilPtr THEN NilPtr ELSE Carry(p, SymbolFields)

FragmentFields == {"LineOffset", "Offset", "MatchLength"}
LineFragmentMatchToProto(f) == Carry(f, FragmentFields) @@ [SymbolInfo |-> SymbolToProto(f.SymbolInfo)]
LineFragmentMatchFromProto(p) == Carry(p, FragmentFields) @@ [SymbolInfo |-> SymbolFromProto(p.SymbolInfo)]

LineFields == {"Line", "LineStart", "LineEnd", "LineNumber", "Before", "After", "FileName", "Score", "DebugScore"}
LineMatchToProto(m) == Carry(m, LineFields) @@ [LineFragments |-> Each(LineFragmentMatchToProto, m.LineFragments)]
LineMatchFromProto(p) == Carry(p, LineFields) @@ [LineFragments |-> Each(LineFragmentMatchFromProto, p.LineFragments)]

ChunkFields == {"Content", "FileName", "Score", "BestLineMatch", "DebugScore"}
ChunkMatchToProto(m) ==
  Carry(m, ChunkFields) @@ [ContentStart |-> LocationToProto(m.ContentStart),
                            Ranges |-> Each(RangeToProto, m.Ranges),
                            SymbolInfo |-> Each(SymbolToProto, m.SymbolInfo)]
ChunkMatchFromProto(p) ==
  Carry(p, ChunkFields) @@ [ContentStart |-> LocationFromProto(p.ContentStart),
                            Ranges |-> Each(RangeFromProto, p.Ranges),
                            SymbolInfo |-> Each(SymbolFromProto, p.SymbolInfo)]

FileFields == {"Score", "Debug", "FileName", "Repository", "Branches", "RepositoryID", "RepositoryPriority",
               "Content", "Checksum", "Language", "SubRepositoryName", "SubRepositoryPath", "Version"}
FileMatchToProto(m) ==
  Carry(m, FileFields) @@ [LineMatches |-> Each(LineMatchToProto, m.LineMatches),
                           ChunkMatches |-> Each(ChunkMatchToProto, m.ChunkMatches)]
FileMatchFromProto(p) ==
  Carry(p, FileFields) @@ [LineMatches |-> Each(LineMatchFromProto, p.LineMatches),
                           ChunkMatches |-> Each(ChunkMatchFromProto, p.ChunkMatches)]

\* The reasons are bits in the struct and numbers in the message.
Reasons == [TimerExpired |-> <<1, 1>>, FinalFlush |-> <<2, 2>>, MaxSize |-> <<4, 3>>]
Convert(table, from, to, x) ==
  LET rows == {r \in DOMAIN table : table[r][from] = x}
  IN IF rows = {} THEN 0 ELSE table[CHOOSE r \in rows : TRUE][to]
FlushReasonToProto(r) == Convert(Reasons, 1, 2, r)
FlushReasonFromProto(p) == Convert(Reasons, 2, 1, p)

Counters == {"ContentBytesLoaded", "IndexBytesLoaded", "Crashes", "FileCount", "ShardFilesConsidered", "FilesConsidered",
             "FilesLoaded", "FilesSkipped", "ShardsScanned", "ShardsSkipped", "ShardsSkippedFilter", "MatchCount",
             "NgramMatches", "NgramLookups", "Wait", "MatchTreeConstruction", "MatchTreeSearch", "RegexpsConsidered"}
StatsToProto(s) == Carry(s, Counters \cup {"Duration"}) @@ [FlushReason |-> FlushReasonToProto(s.FlushReason)]
StatsFromProto(p) == Carry(p, Counters \cup {"Duration"}) @@ [FlushReason |-> FlushReasonFromProto(p.FlushReason)]

ProgressFields == {"Priority", "MaxPendingPriority"}
ProgressToProto(p) == Carry(p, ProgressFields)
ProgressFromProto(p) == Carry(p, ProgressFields)

\* The URLs and fragments of the repositories do not travel: the caller of
\* SearchResultFromProto gives them.
SearchResultToProto(r) ==
  IF r = NilPtr THEN NilPtr
  ELSE [Stats |-> StatsToProto(r.Stats), Progress |-> ProgressToProto(r.Progress), Files |-> Each(FileMatchToProto, r.Files)]
SearchResultFromProto(p, repoURLs, lineFragments) ==
  IF p = NilPtr THEN NilPtr
  ELSE [Stats |-> StatsFromProto(p.Stats), Progress |-> ProgressFromProto(p.Progress), Files |-> Each(FileMatchFromProto, p.Files),
        RepoURLs |-> repoURLs, LineFragments |-> lineFragments]

-----------------------------------------------------------------------------
(* Lists of repositories, and the options of a request.                    *)

BranchFields == {"Name", "Version"}
RepositoryBranchToProto(b) == Carry(b, BranchFields)
RepositoryBranchFromProto(p) == Carry(p, BranchFields)

RepositoryFields == {"TenantID", "ID", "Name", "URL", "Source", "CommitURLTemplate", "FileURLTemplate",
                     "LineFragmentTemplate", "priority", "RawConfig", "IndexOptions", "HasSymbols", "Tombstone",
                     "LatestCommitDate", "Metadata"}

\* SubRepoMap nests repositories, one level as gitindex and repo-index build it.
RECURSIVE RepositoryToProto(_)
RepositoryToProto(r) ==
  IF r = NilPtr THEN NilPtr
  ELSE Carry(r, RepositoryFields) @@
       [Branches |-> Each(RepositoryBranchToProto, r.Branches),
        SubRepoMap |-> [n \in DOMAIN r.SubRepoMap |-> RepositoryToProto(r.SubRepoMap[n])],
        Rank |-> r.Rank, FileTombstones |-> SetToSeq(r.FileTombstones)]

RECURSIVE RepositoryFromProto(_)
RepositoryFromProto(p) ==
  Carry(p, RepositoryFields) @@
  [Branches |-> Each(RepositoryBranchFromProto, p.Branches),
   SubRepoMap |-> [n \in DOMAIN p.SubRepoMap |-> RepositoryFromProto(p.SubRepoMap[n])],
   Rank |-> Uint16(p.Rank), FileTombstones |-> ToSet(p.FileTombstones)]

IndexMetadataFields == {"IndexFormatVersion", "IndexFeatureVersion", "IndexMinReaderVersion", "IndexTime", "PlainASCII",
                        "ZoektVersion", "ID"}
IndexMetadataToProto(m) == Carry(m, IndexMetadataFields) @@ [LanguageMap |-> m.LanguageMap]
IndexMetadataFromProto(p) == Carry(p, IndexMetadataFields) @@ [LanguageMap |-> Each(Uint16, p.LanguageMap)]

RepoStatsFields == {"Repos", "Shards", "Documents", "IndexBytes", "ContentBytes", "NewLinesCount",
                    "DefaultBranchNewLinesCount", "OtherBranchesNewLinesCount"}
RepoStatsToProto(s) == Carry(s, RepoStatsFields)
RepoStatsFromProto(p) == Carry(p, RepoStatsFields)

RepoListEntryToProto(e) ==
  IF e = NilPtr THEN NilPtr
  ELSE [Repository |-> RepositoryToProto(e.Repository), IndexMetadata |-> IndexMetadataToProto(e.IndexMetadata),
        Stats |-> RepoStatsToProto(e.Stats)]
RepoListEntryFromProto(p) ==
  IF p = NilPtr THEN NilPtr
  ELSE [Repository |-> RepositoryFromProto(p.Repository), IndexMetadata |-> IndexMetadataFromProto(p.IndexMetadata),
        Stats |-> RepoStatsFromProto(p.Stats)]

MinimalFields == {"HasSymbols", "IndexTimeUnix"}
MinimalRepoListEntryToProto(e) == Carry(e, MinimalFields) @@ [Branches |-> Each(RepositoryBranchToProto, e.Branches)]
MinimalRepoListEntryFromProto(p) == Carry(p, MinimalFields) @@ [Branches |-> Each(RepositoryBranchFromProto, p.Branches)]

RepoListToProto(l) ==
  [Repos |-> Each(RepoListEntryToProto, l.Repos), ReposMap |-> Each(MinimalRepoListEntryToProto, l.ReposMap),
   Crashes |-> l.Crashes, Stats |-> RepoStatsToProto(l.Stats)]
RepoListFromProto(p) ==
  [Repos |-> Each(RepoListEntryFromProto, p.Repos), ReposMap |-> Each(MinimalRepoListEntryFromProto, p.ReposMap),
   Crashes |-> p.Crashes, Stats |-> RepoStatsFromProto(p.Stats)]

\* GetField refuses what is neither Repos nor ReposMap; the message cannot
\* say it, so an unknown field arrives as Repos.
ListFields == [Repos |-> <<0, 1>>, ReposMap |-> <<2, 3>>]
ListOptionsToProto(o) == IF o = NilPtr THEN NilPtr ELSE [Field |-> Convert(ListFields, 1, 2, o.Field)]
ListOptionsFromProto(p) == IF p = NilPtr THEN NilPtr ELSE [Field |-> Convert(ListFields, 2, 1, p.Field)]
GetField(o) ==
  CASE o = NilPtr -> [err |-> FALSE, field |-> 0]
    [] o # NilPtr /\ o.Field \in {0, 2} -> [err |-> FALSE, field |-> o.Field]
    [] OTHER -> [err |-> TRUE, field |-> 0]

SearchOptionsFields == {"EstimateDocCount", "Whole", "ShardMaxMatchCount", "TotalMaxMatchCount", "ShardRepoMaxMatchCount",
                        "MaxWallTime", "FlushWallTime", "MaxDocDisplayCount", "MaxMatchDisplayCount", "NumContextLines",
                        "ChunkMatches", "Trace", "DebugScore", "UseBM25Scoring"}
SearchOptionsToProto(o) == IF o = NilPtr THEN NilPtr ELSE Carry(o, SearchOptionsFields)
SearchOptionsFromProto(p) == IF p = NilPtr THEN NilPtr ELSE Carry(p, SearchOptionsFields)

-----------------------------------------------------------------------------
(* The binary encoding of ReposMap.                                        *)

\* Version 1 had no IndexTimeUnix; no writer is left, decoding still reads it.
EncodeRepos(minimal, version) ==
  LET Brs(id) == minimal[id].Branches
      Strs(b) == EncodeStr(b.Name) \o EncodeStr(b.Version)
      Entry(id) == PutUvarint(id) \o <<IF minimal[id].HasSymbols THEN 1 ELSE 0>>
                   \o (IF version = 2 THEN PutUvarint(minimal[id].IndexTimeUnix) ELSE <<>>)
                   \o PutUvarint(Len(Brs(id)))
                   \o FlattenSeq(Each(Strs, Brs(id)))
      ids == SetToSeq(DOMAIN minimal)
      all == FoldLeft(LAMBDA n, id : n + Len(Brs(id)), 0, ids)
  IN <<version>> \o PutUvarint(Len(ids)) \o PutUvarint(all) \o FlattenSeq(Each(Entry, ids))

reposMapEncode(minimal) == EncodeRepos(minimal, 2)

\* byt: a buffer that has ended is an error.
ReadByte(r) == IF r.b = <<>> THEN Reader(<<>>, TRUE, 0) ELSE Reader(Tail(r.b), r.err, Head(r.b))

RECURSIVE ReadBranches(_, _, _)
ReadBranches(r, n, list) ==
  IF n = 0 THEN Reader(r.b, r.err, list)
  ELSE LET Pair(name, version) ==
             ReadBranches(version, n - 1, Append(list, [Name |-> name.val, Version |-> version.val]))
           Of(name) == Pair(name, ReadStr(name))
       IN Of(ReadStr(r))

RECURSIVE ReadRepos(_, _, _, _)
ReadRepos(r, n, readIndexTime, m) ==
  IF n = 0 THEN Reader(r.b, r.err, m)
  ELSE LET Entry(id, syms, time, brs) ==
             ReadRepos(brs, n - 1, readIndexTime,
               (id.val :> [HasSymbols |-> syms.val = 1, Branches |-> brs.val, IndexTimeUnix |-> time.val]) @@ m)
           Counted(id, syms, time, count) == Entry(id, syms, time, ReadBranches(count, count.val, <<>>))
           Timed(id, syms, time) == Counted(id, syms, time, ReadUvarint(time))
           Flagged(id, syms) ==
             Timed(id, syms, IF readIndexTime THEN ReadUvarint(syms) ELSE Reader(syms.b, syms.err, 0))
           Of(id) == Flagged(id, ReadByte(id))
       IN Of(ReadUvarint(r))

reposMapDecode(b) ==
  LET v == ReadByte(Reader(b, FALSE, 0))
      l == ReadUvarint(v)
      all == ReadUvarint(l)
      none == [id \in {} |-> NilPtr]
  IN IF b = <<>> THEN Reader(<<>>, FALSE, none)
     ELSE IF v.val \notin {1, 2} THEN Reader(b, TRUE, none)
     ELSE ReadRepos(all, l.val, v.val = 2, none)

\* What a version 1 writer left out.
WithoutTime(m) == [id \in DOMAIN m |-> [m[id] EXCEPT !.IndexTimeUnix = 0]]

-----------------------------------------------------------------------------
(* The stream of a search.  An event or message has files, statistics (one *)
(* counter stands for all, and the reason for the flush) and progress.     *)

NegInf == -1   \* below every priority
NoStats == [n |-> 0, reason |-> 0]
NoProgress == [prio |-> 0, pending |-> 0]

StatsAdd(s, o) == [n |-> s.n + o.n, reason |-> IF s.reason = 0 THEN o.reason ELSE s.reason]
StatsZero(s) == s.n = 0

\* The stream's Send: at most fail messages get through; later ones fail.
Push(sent, fail, m) == IF Len(sent) < fail THEN [sent |-> Append(sent, m), err |-> FALSE]
                       ELSE [sent |-> sent, err |-> TRUE]

\* sendFunc: the first chunk has the statistics, and a chunk before the last
\* has a pending priority no lower than its own.
ChunkMessage(event, chunk, first, numFilesSent) ==
  [files |-> chunk, stats |-> IF first THEN event.stats ELSE NoStats,
   progress |-> IF numFilesSent < Len(event.files)
                THEN [prio |-> event.progress.prio, pending |-> Max({event.progress.prio, event.progress.pending})]
                ELSE event.progress]

\* Chunker: c has the buffer and its size, how many chunks and files went out,
\* the messages of the stream and the error that ended it.
sendResponseMsg(event, fail, c) ==
  LET n == c.files + Len(c.buffer)
      Sent(p) == [c EXCEPT !.size = 0, !.chunks = @ + 1, !.files = n, !.sent = p.sent, !.err = p.err,
                           !.buffer = IF p.err THEN @ ELSE <<>>]
  IN Sent(Push(c.sent, fail, ChunkMessage(event, c.buffer, c.chunks = 0, n)))

sendOne(event, fail, c, file) ==
  LET Buffered(d) == IF d.err THEN d ELSE [d EXCEPT !.buffer = Append(@, file), !.size = @ + file.size]
  IN Buffered(IF file.size + c.size >= maxMessageSize THEN sendResponseMsg(event, fail, c) ELSE c)

SendAll(event, fail, sent) ==
  LET start == [buffer |-> <<>>, size |-> 0, chunks |-> 0, files |-> 0, sent |-> sent, err |-> FALSE]
      Flushed(c) == IF c.err \/ c.buffer = <<>> THEN c.sent ELSE sendResponseMsg(event, fail, c).sent
  IN Flushed(FoldLeft(LAMBDA acc, f : IF acc.err THEN acc ELSE sendOne(event, fail, acc, f), start, event.files))

\* gRPCChunkSender drops the error of the stream.
gRPCSend(event, fail, sent) ==
  IF event.files = <<>> THEN Push(sent, fail, event).sent ELSE SendAll(event, fail, sent)

\* samplingSender: agg has the statistics and the progress held back.
SamplingSend(s, event, fail) ==
  LET agg == [files |-> <<>>, stats |-> StatsAdd(s.agg.stats, event.stats), progress |-> event.progress]
      none == [files |-> <<>>, stats |-> NoStats, progress |-> NoProgress]
      due == (s.count + 1) % SampleEvery = 0 /\ ~StatsZero(agg.stats)
  IN IF event.files = <<>>
     THEN [count |-> s.count + 1, agg |-> IF due THEN none ELSE agg,
           sent |-> IF due THEN gRPCSend(agg, fail, s.sent) ELSE s.sent]
     ELSE IF StatsZero(s.agg.stats) THEN [s EXCEPT !.sent = gRPCSend(event, fail, @)]
     ELSE [s EXCEPT !.agg = none,
                    !.sent = gRPCSend([event EXCEPT !.stats = StatsAdd(@, s.agg.stats)], fail, @)]

SamplingFlush(s, fail) ==
  IF StatsZero(s.agg.stats) THEN s.sent
  ELSE gRPCSend([files |-> <<>>, stats |-> s.agg.stats, progress |-> [prio |-> NegInf, pending |-> NegInf]], fail, s.sent)

\* Server.StreamSearch: the messages of a search with these events that ends
\* with an error or without.
StreamSearchMessages(events, searchErr, fail) ==
  LET none == [files |-> <<>>, stats |-> NoStats, progress |-> NoProgress]
      Ended(s) == IF searchErr THEN s.sent ELSE SamplingFlush(s, fail)
  IN Ended(FoldLeft(LAMBDA acc, e : SamplingSend(acc, e, fail),
                    [count |-> 0, agg |-> none, sent |-> <<>>], events))

\* What a client may rely on: the files once and in order, all of them when
\* the stream holds; every counter counted once, when the search succeeds; no
\* message over the limit that could be split; and no message that looks
\* final (its priority above all that is pending) while files of the same
\* event are still to come.
StreamTrue(events, searchErr, fail) ==
  \A ms \in {StreamSearchMessages(events, searchErr, fail)} :
  LET FilesOf(list) == FlattenSeq([i \in DOMAIN list |-> list[i].files])
      Total(list) == FoldLeft(LAMBDA n, x : n + x.stats.n, 0, list)
      Size(m) == FoldLeft(LAMBDA n, f : n + f.size, 0, m.files)
      \* The event a file belongs to, and whether a later message has more of it.
      EventOf(f) == CHOOSE i \in DOMAIN events : f \in ToSet(events[i].files)
      More(i) == \E f \in ToSet(ms[i].files), j \in (i + 1)..Len(ms) :
                   \E g \in ToSet(ms[j].files) : EventOf(f) = EventOf(g)
  IN /\ IsPrefix(FilesOf(ms), FilesOf(events))
     /\ Len(ms) < fail => FilesOf(ms) = FilesOf(events)
     /\ Total(ms) <= Total(events)
     /\ (Len(ms) < fail /\ ~searchErr) => Total(ms) = Total(events)
     /\ \A i \in DOMAIN ms : Size(ms[i]) < maxMessageSize \/ Len(ms[i].files) = 1
     /\ \A i \in DOMAIN ms : More(i) => ms[i].progress.pending >= ms[i].progress.prio
     /\ \A i \in DOMAIN ms : ms[i].stats.reason # 0 => \E e \in ToSet(events) : e.stats.reason = ms[i].stats.reason
=============================================================================
