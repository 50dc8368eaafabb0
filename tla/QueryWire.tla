----------------------------- MODULE QueryWire -----------------------------
(***************************************************************************)
(* How a query travels: QToProto and QFromProto of query_proto.go, and the *)
(* binary encoding of BranchesRepos and FileNameSet in marshal.go.         *)
(* A regular expression travels as its text, a bitmap as its sorted ids, a *)
(* set of names as a list, the RawConfig mask as a list of flags.          *)
(***************************************************************************)
EXTENDS Query, Varint

Panic == [k |-> "panic"]

Sorted(S) == SortBy(S, LAMBDA x, y : x < y)

-----------------------------------------------------------------------------
(* Protobuf.                                                               *)

\* The flags of a mask, in the order of flagNames.
RawFlags == <<1, 2, 4, 8, 16, 32>>

MaskToFlags(mask) == SelectSeq(RawFlags, LAMBDA f : (mask \div f) % 2 = 1)

FlagsToMask(flags) == FoldLeft(LAMBDA m, f : IF (m \div f) % 2 = 1 THEN m ELSE m + f,
                               0, flags)

Msg(k, m) == [k |-> k, msg |-> m]

\* Atoms whose message has the fields of the node.
CopyToProto(q) == Msg(q.k, q)

\* A regular expression travels as text and is parsed again on arrival.
RegexpToProto(q) == Msg("re", [q EXCEPT !.re = Reparse(q.re)])

\* Sets of ids and of files travel as lists, a branch with its list of ids.
RepoIDsToProto(ids) == Sorted(ids)
RepoIDsFromProto(list) == ToSet(list)
BranchReposToProto(br) == <<br[1], Sorted(br[2])>>
BranchReposFromProto(m) == <<m[1], ToSet(m[2])>>
BranchesReposToProto(list) == [i \in DOMAIN list |-> BranchReposToProto(list[i])]
BranchesReposFromProto(ms) == [i \in DOMAIN ms |-> BranchReposFromProto(ms[i])]
FileNameSetToProto(files) == SetToSeq(files)
FileNameSetFromProto(list) == ToSet(list)

\* Nodes with one child, whose message is made last.
OneToProto(q, kid) ==
  CASE kid = Panic                   -> Panic
    [] kid # Panic /\ q.k = "type"  -> Msg(q.k, <<q.t, kid>>)
    [] kid # Panic /\ q.k = "boost" -> Msg(q.k, <<q.b, kid>>)
    [] OTHER                         -> Msg(q.k, kid)

ManyToProto(k, kids) == IF Panic \in ToSet(kids) THEN Panic ELSE Msg(k, kids)

\* QToProto panics on a node it has no arm for: meta and case.
RECURSIVE QToProto(_)
QToProto(q) ==
  CASE q.k \in Many -> ManyToProto(q.k, [i \in DOMAIN q.kids |-> QToProto(q.kids[i])])
    [] q.k \in One \cup {"symbol"} -> OneToProto(q, QToProto(q.kid))
    [] q.k = "re" -> RegexpToProto(q)
    [] q.k = "rawconfig" -> Msg(q.k, MaskToFlags(q.flags))
    [] q.k = "repoids" -> Msg(q.k, RepoIDsToProto(q.ids))
    [] q.k = "filenames" -> Msg(q.k, FileNameSetToProto(q.files))
    [] q.k = "branchesrepos" -> Msg(q.k, BranchesReposToProto(q.list))
    [] q.k \in {"const", "substr", "lang", "repo", "reposet", "branch"} -> CopyToProto(q)
    [] OTHER -> Panic

RECURSIVE QFromProto(_)
QFromProto(m) ==
  CASE m.k \in Many -> [k |-> m.k, kids |-> [i \in DOMAIN m.msg |-> QFromProto(m.msg[i])]]
    [] m.k = "not" -> Not(QFromProto(m.msg))
    [] m.k = "symbol" -> Symbol(QFromProto(m.msg))
    [] m.k = "type" -> Type(m.msg[1], QFromProto(m.msg[2]))
    [] m.k = "boost" -> Boost(m.msg[1], QFromProto(m.msg[2]))
    [] m.k = "rawconfig" -> RawConfig(FlagsToMask(m.msg))
    [] m.k = "repoids" -> RepoIDs(RepoIDsFromProto(m.msg))
    [] m.k = "filenames" -> FileNameSet(FileNameSetFromProto(m.msg))
    [] m.k = "branchesrepos" -> BranchesRepos(BranchesReposFromProto(m.msg))
    [] OTHER -> m.msg

-----------------------------------------------------------------------------
(* Binary encoding.                                                        *)

\* binaryReader: the bytes left, the error, and the value just read.
Reader(b, err, val) == [b |-> b, err |-> err, val |-> val]

\* uvarint returns 0 and consumes nothing when the buffer ends too early.
ReadUvarint(r) ==
  LET Read(u) == Reader(Drop(r.b, u.n), r.err, u.x) IN Read(Uvarint(r.b))

ReadStr(r) ==
  LET Str(l) == IF l.val > Len(l.b) THEN Reader(<<>>, TRUE, <<>>)
                ELSE Reader(Drop(l.b, l.val), l.err, SubSeq(l.b, 1, l.val))
  IN Str(ReadUvarint(r))

\* A roaring bitmap: the number of ids, then the ids; nothing is no bitmap.
BitmapBytes(ids) == <<Cardinality(ids)>> \o Sorted(ids)

IsBitmap(buf) == buf # <<>> /\ Len(buf) = buf[1] + 1

\* bitmap sets the error to what FromBuffer returns, also when there was one.
\* Mutation: bytes that are no bitmap are read as an empty one.
ReadBitmapLax(r) ==
  LET Ids(buf) == IF IsBitmap(buf) THEN ToSet(Tail(buf)) ELSE {}
      Bitmap(l) == Reader(Drop(l.b, l.val), FALSE, Ids(SubSeq(l.b, 1, l.val)))
  IN Bitmap(ReadUvarint(r))

ReadBitmap(r) ==
  LET Buffer(rest, buf) == Reader(rest, ~IsBitmap(buf), IF IsBitmap(buf) THEN ToSet(Tail(buf)) ELSE {})
      Bitmap(l) == IF l.val > Len(l.b) THEN Reader(<<>>, TRUE, {})
                   ELSE Buffer(Drop(l.b, l.val), SubSeq(l.b, 1, l.val))
  IN Bitmap(ReadUvarint(r))

EncodeStr(s) == PutUvarint(Len(s)) \o s

branchesReposEncode(list) ==
  LET Bitmap(i) == BitmapBytes(list[i][2])
      Entry(i) == EncodeStr(list[i][1]) \o PutUvarint(Len(Bitmap(i))) \o Bitmap(i)
  IN <<1>> \o PutUvarint(Len(list)) \o FlattenSeq([i \in DOMAIN list |-> Entry(i)])

RECURSIVE ReadEntries(_, _, _)
ReadEntries(r, n, list) ==
  IF n = 0 THEN Reader(r.b, r.err, list)
  ELSE LET Entry(s, m) == ReadEntries(m, n - 1, Append(list, <<s.val, m.val>>))
           Branched(s) == Entry(s, ReadBitmap(s))
       IN Branched(ReadStr(r))

\* branchesReposDecode: the version, the length, the entries; the error of
\* the reader is looked at only at the end.
branchesReposDecode(b) ==
  LET l == ReadUvarint(Reader(Tail(b), FALSE, 0))
  IN IF b = <<>> \/ Head(b) # 1 THEN Reader(<<>>, TRUE, <<>>)
     ELSE ReadEntries(l, l.val, <<>>)

stringSetEncode(set) ==
  <<1>> \o PutUvarint(Cardinality(set))
        \o FlattenSeq([i \in 1..Cardinality(set) |-> EncodeStr(SetToSeq(set)[i])])

RECURSIVE ReadStrs(_, _, _)
ReadStrs(r, n, set) ==
  IF n = 0 THEN Reader(r.b, r.err, set)
  ELSE LET Member(s) == ReadStrs(s, n - 1, set \cup {s.val}) IN Member(ReadStr(r))

stringSetDecode(b) ==
  LET l == ReadUvarint(Reader(Tail(b), FALSE, 0))
  IN IF b = <<>> \/ Head(b) # 1 THEN Reader(<<>>, TRUE, {})
     ELSE ReadStrs(l, l.val, {})
=============================================================================
