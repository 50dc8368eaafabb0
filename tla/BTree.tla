------------------------------- MODULE BTree -------------------------------
(***************************************************************************)
(* The B+-tree over the n-grams of a shard (index/btree.go).  N-grams are   *)
(* inserted in order, so a leaf keeps only the size of its bucket and the  *)
(* key it would split at; freeze gives each leaf the number of its bucket  *)
(* and the index of its first posting list.  The buckets are parts of the  *)
(* sorted list of n-grams in the file.                                     *)
(***************************************************************************)
EXTENDS Integers, Sequences, SequencesExt

CONSTANTS BucketSize,  \* btreeBucketSize: 1024 in the code
          V            \* inner nodes have V to 2V children: 50 in the code

ASSUME BTreeAssumption == BucketSize \in Nat /\ V \in Nat /\ BucketSize >= 2 /\ V >= 2
                          /\ BucketSize % 2 = 0

LeafNode(size) == [leaf |-> TRUE, size |-> size, split |-> 0, bucket |-> 0, posting |-> 0]
Inner(keys, kids) == [leaf |-> FALSE, keys |-> keys, kids |-> kids]

FullNode(n) == IF n.leaf THEN n.size >= BucketSize ELSE Len(n.kids) >= 2 * V

\* maybeSplit of a full node: left, right and the key between them.
maybeSplit(n) ==
  IF n.leaf
  THEN [l |-> LeafNode(BucketSize \div 2), r |-> LeafNode(BucketSize \div 2), key |-> n.split]
  ELSE [l |-> Inner(SubSeq(n.keys, 1, V - 1), SubSeq(n.kids, 1, V)),
        r |-> Inner(SubSeq(n.keys, V + 1, Len(n.keys)), SubSeq(n.kids, V + 1, Len(n.kids))),
        key |-> n.keys[V]]

\* The child for a key: before the first larger key, else the last.
ChildFor(n, ng) ==
  LET larger == {i \in DOMAIN n.keys : ng < n.keys[i]}
  IN IF larger = {} THEN Len(n.kids) ELSE CHOOSE i \in larger : \A j \in larger : i <= j

RECURSIVE nodeInsert(_, _)
nodeInsert(n, ng) ==
  IF n.leaf
  THEN [n EXCEPT !.size = @ + 1,
                 !.split = IF n.size + 1 = BucketSize \div 2 + 1 THEN ng ELSE @]
  ELSE LET i == ChildFor(n, ng)
           Into(m, t) == [m EXCEPT !.kids[t] = nodeInsert(@, ng)]
           \* a split may shift the target by one
           Split(s) ==
             Into(Inner(SubSeq(n.keys, 1, i - 1) \o <<s.key>> \o SubSeq(n.keys, i, Len(n.keys)),
                        SubSeq(n.kids, 1, i - 1) \o <<s.l, s.r>> \o SubSeq(n.kids, i + 1, Len(n.kids))),
                  IF ng >= s.key THEN i + 1 ELSE i)
       IN IF FullNode(n.kids[i]) THEN Split(maybeSplit(n.kids[i])) ELSE Into(n, i)

\* insert splits a full root first.
insert(root, ng) ==
  LET Grown(s) == Inner(<<s.key>>, <<s.l, s.r>>)
  IN nodeInsert(IF FullNode(root) THEN Grown(maybeSplit(root)) ELSE root, ng)

\* freeze: from left to right; the result also carries the next bucket and
\* the next posting list.
RECURSIVE freeze(_, _, _)
freeze(n, bucket, posting) ==
  IF n.leaf THEN [n |-> [n EXCEPT !.bucket = bucket, !.posting = posting],
                  bucket |-> bucket + 1, posting |-> posting + n.size]
  ELSE LET Next(acc, f) == [n |-> [acc.n EXCEPT !.kids = Append(@, f.n)], bucket |-> f.bucket, posting |-> f.posting]
           Step(acc, kid) == Next(acc, freeze(kid, acc.bucket, acc.posting))
       IN FoldLeft(Step, [n |-> [n EXCEPT !.kids = <<>>], bucket |-> bucket, posting |-> posting], n.kids)

\* newBtreeIndex: the n-grams of the file one after the other.
newBtree(ngrams) ==
  LET Frozen(f) == [root |-> f.n, lastBucket |-> f.bucket - 1]
  IN Frozen(freeze(FoldLeft(insert, LeafNode(0), ngrams), 0, 0))

RECURSIVE find(_, _)
find(n, ng) == IF n.leaf THEN <<n.bucket, n.posting>> ELSE find(n.kids[ChildFor(n, ng)], ng)

\* getBucket: all but the last bucket hold half of BucketSize; offsets are
\* relative to the n-gram section of len n-grams.
getBucket(bt, bucket, len) ==
  LET half == BucketSize \div 2
  IN [off |-> bucket * half, sz |-> IF bucket = bt.lastBucket THEN len - bucket * half ELSE half]

\* Get: the number, from 0, of the posting list of an n-gram, or -1.
Get(bt, ngrams, ng) ==
  LET at == find(bt.root, ng)
      b == getBucket(bt, at[1], Len(ngrams))
      bucket == SubSeq(ngrams, b.off + 1, b.off + b.sz)
      x == {i \in DOMAIN bucket : ng <= bucket[i]}
      first == CHOOSE i \in x : \A j \in x : i <= j
  IN IF x = {} THEN -1
     ELSE IF bucket[first] # ng THEN -1 ELSE at[2] + first - 1
=============================================================================
