------------------------- MODULE StreamSearchProofs -------------------------
(***************************************************************************)
(* StreamSearch for any number of shards, documents and workers, whatever  *)
(* limits the search is given.                                             *)
(***************************************************************************)
EXTENDS StreamSearch, FiniteSetTheorems, SequenceTheorems, TLAPS

-----------------------------------------------------------------------------
(* Orders on finite sets.                                                  *)

\* In a finite set some element has nothing above it: the one with the fewest above it.
LEMMA Extremal ==
  ASSUME NEW F, IsFiniteSet(F), F # {}, NEW R,
         \A x \in F : <<x, x>> \notin R,
         \A x, y, z \in F : <<x, y>> \in R /\ <<y, z>> \in R => <<x, z>> \in R
  PROVE  \E x \in F : \A y \in F : <<y, x>> \notin R
<1> DEFINE up(x) == {y \in F : <<y, x>> \in R}
           T == {up(x) : x \in F}
<1>1. \A x \in F : up(x) \in FiniteSubsetsOf(F)
  <2> SUFFICES ASSUME NEW x \in F PROVE up(x) \in FiniteSubsetsOf(F)
    OBVIOUS
  <2>1. up(x) \in SUBSET F
    OBVIOUS
  <2> QED
    BY <2>1, FS_Subset DEF FiniteSubsetsOf
<1>2. T \subseteq FiniteSubsetsOf(F)
  BY <1>1
<1>3. T # {}
  <2>1. PICK x \in F : TRUE
    OBVIOUS
  <2>2. up(x) \in T
    BY <2>1
  <2> QED
    BY <2>2
<1>4. PICK u \in T : \A v \in T : <<v, u>> \notin StrictSubsetOrdering(F)
  <2> HIDE DEF T
  <2> QED
    BY <1>2, <1>3, FS_StrictSubsetOrderingWellFounded, WFMin
<1>5. PICK x \in F : u = up(x)
  OBVIOUS
<1>6. ASSUME NEW y \in F, <<y, x>> \in R PROVE FALSE
  <2>1. up(y) \subseteq up(x) /\ y \in up(x) /\ y \notin up(y)
    BY <1>6
  <2>2. up(y) \in T /\ up(x) \in SUBSET F /\ up(y) \in SUBSET F
    OBVIOUS
  <2>3. <<up(y), up(x)>> \notin StrictSubsetOrdering(F)
    BY <1>4, <1>5, <2>2
  <2> HIDE DEF up
  <2> QED
    BY <2>1, <2>2, <2>3 DEF StrictSubsetOrdering
<1> QED
  BY <1>6

\* prioritySlice.max: a sequence of priorities that is not empty has a largest.
LEMMA LargestExists ==
  ASSUME NEW p \in Seq(Nat), p # <<>>
  PROVE  \E x \in Range(p) : \A y \in Range(p) : y <= x
<1> DEFINE F == Range(p)
           R == {q \in Nat \X Nat : q[1] > q[2]}
<1>1. F \subseteq Nat /\ p[1] \in F
  BY EmptySeq DEF Range
<1>2. IsFiniteSet(F)
  <2>1. p \in Surjection(1..Len(p), F)
    BY DEF Surjection, Range
  <2> QED
    BY <2>1, FS_Interval, FS_Surjection
<1>3. \E x \in F : \A y \in F : <<y, x>> \notin R
  <2>1. \A x \in F : <<x, x>> \notin R
    BY <1>1
  <2>2. \A x, y, z \in F : <<x, y>> \in R /\ <<y, z>> \in R => <<x, z>> \in R
    BY <1>1
  <2> HIDE DEF F, R
  <2> QED
    BY <1>1, <1>2, <2>1, <2>2, Extremal
<1>4. PICK x \in F : \A y \in F : <<y, x>> \notin R
  BY <1>3
<1>5. x \in Nat /\ \A y \in F : y \in Nat /\ ~(y > x)
  BY <1>1, <1>4
<1> QED
  BY <1>5

\* mkRankedShard: no repository ranks above its shard.
LEMMA LargestType ==
  ASSUME NEW p \in Seq(Nat)
  PROVE  Largest(p) \in Nat /\ \A q \in Range(p) : q <= Largest(p)
<1>1. \A q \in Range(p) : q \in Nat
  BY DEF Range
<1>2. \E x \in {0} \cup Range(p) : \A q \in Range(p) : q <= x
  <2>1. CASE p = <<>>
    <3>1. Range(p) = {}
      BY <2>1, EmptySeq, LenProperties DEF Range
    <3> QED
      BY <3>1
  <2>2. CASE p # <<>>
    BY <2>2, LargestExists
  <2> QED
    BY <2>1, <2>2
<1>3. Largest(p) \in {0} \cup Range(p) /\ \A q \in Range(p) : q <= Largest(p)
  BY <1>2 DEF Largest
<1> QED
  BY <1>1, <1>3

\* Scores order documents strictly and totally.
Better == {q \in (Nat \X Nat) \X (Nat \X Nat) : Above(q[1], q[2])}
Worse == {q \in (Nat \X Nat) \X (Nat \X Nat) : Above(q[2], q[1])}

LEMMA AboveOrders ==
  \A d, e, f \in Nat \X Nat :
    /\ ~Above(d, d)
    /\ Above(d, e) /\ Above(e, f) => Above(d, f)
    /\ d # e => Above(d, e) \/ Above(e, d)
<1> SUFFICES ASSUME NEW d \in Nat \X Nat, NEW e \in Nat \X Nat, NEW f \in Nat \X Nat
             PROVE /\ ~Above(d, d)
                   /\ Above(d, e) /\ Above(e, f) => Above(d, f)
                   /\ d # e => Above(d, e) \/ Above(e, d)
  OBVIOUS
<1> QED
  BY DEF Above

\* The limiting senders keep the n best of a set of documents: no more than n, all of them
\* when there are no more, and otherwise exactly n.
LEMMA TopKeeps ==
  ASSUME NEW F \in SUBSET (Nat \X Nat), IsFiniteSet(F), NEW n \in Nat
  PROVE  /\ Top(F, n) \subseteq F /\ IsFiniteSet(Top(F, n)) /\ Cardinality(Top(F, n)) <= n
         /\ Cardinality(F) <= n => Top(F, n) = F
         /\ Cardinality(F) >= n => Cardinality(Top(F, n)) = n
<1> DEFINE up(d) == {e \in F : Above(e, d)}
           T == Top(F, n)
<1>1. \A d \in F : up(d) \subseteq F /\ IsFiniteSet(up(d)) /\ Cardinality(up(d)) \in Nat /\ d \notin up(d)
  BY FS_Subset, FS_CardinalityType, AboveOrders
<1>2. T = {d \in F : Cardinality(up(d)) < n}
  BY DEF Top
<1>3. T \subseteq F /\ IsFiniteSet(T) /\ Cardinality(T) \in Nat /\ Cardinality(F) \in Nat
  BY <1>2, FS_Subset, FS_CardinalityType
<1> HIDE DEF up, T
<1>4. Cardinality(T) <= n
  <2>1. CASE T = {}
    BY <2>1, FS_EmptySet
  <2>2. CASE T # {}
    <3>1. PICK d \in T : \A e \in T : <<e, d>> \notin Worse
      <4>1. /\ \A x \in T : <<x, x>> \notin Worse
            /\ \A x, y, z \in T : <<x, y>> \in Worse /\ <<y, z>> \in Worse => <<x, z>> \in Worse
        BY <1>3, AboveOrders DEF Worse
      <4> QED
        BY <1>3, <2>2, <4>1, Extremal
    <3>2. T \ {d} \subseteq up(d)
      BY <1>3, <3>1, AboveOrders DEF Worse, up
    <3>3. Cardinality(T \ {d}) <= Cardinality(up(d)) /\ Cardinality(T \ {d}) = Cardinality(T) - 1
      BY <1>1, <1>3, <3>1, <3>2, FS_Subset, FS_RemoveElement
    <3> QED
      BY <1>1, <1>2, <1>3, <3>1, <3>3
  <2> QED
    BY <2>1, <2>2
<1>5. ASSUME Cardinality(F) <= n PROVE T = F
  <2>1. ASSUME NEW d \in F PROVE Cardinality(up(d)) < n
    <3>1. up(d) \subseteq F \ {d} /\ IsFiniteSet(F \ {d}) /\ Cardinality(F \ {d}) = Cardinality(F) - 1
      BY <1>1, FS_RemoveElement
    <3>2. Cardinality(up(d)) <= Cardinality(F \ {d})
      BY <3>1, FS_Subset
    <3> QED
      BY <1>1, <1>3, <1>5, <3>1, <3>2
  <2> QED
    BY <1>2, <2>1
<1>6. ASSUME Cardinality(F) >= n PROVE Cardinality(T) = n
  <2> SUFFICES ASSUME Cardinality(T) < n PROVE FALSE
    BY <1>3, <1>4
  <2> DEFINE U == F \ T
  <2>1. U # {} /\ IsFiniteSet(U) /\ U \subseteq Nat \X Nat
    BY <1>3, <1>6, FS_Subset
  <2>2. /\ \A x \in U : <<x, x>> \notin Better
        /\ \A x, y, z \in U : <<x, y>> \in Better /\ <<y, z>> \in Better => <<x, z>> \in Better
    BY <2>1, AboveOrders DEF Better
  <2>3. PICK d \in U : \A e \in U : <<e, d>> \notin Better
    <3> HIDE DEF U
    <3> QED
      BY <2>1, <2>2, Extremal
  <2>4. up(d) \subseteq T
    BY <2>3 DEF Better, up
  <2>5. Cardinality(up(d)) <= Cardinality(T)
    BY <1>3, <2>4, FS_Subset
  <2>6. d \in T
    BY <1>1, <1>2, <1>3, <2>3, <2>5
  <2> QED
    BY <2>3, <2>6
<1> QED
  BY <1>3, <1>4, <1>5, <1>6 DEF T

-----------------------------------------------------------------------------
(* The senders.                                                            *)

Events == [priority : Int, max : Int, files : SUBSET (Nat \X Nat), crash : Nat]
Sinks == [collecting : BOOLEAN, agg : {NoAgg} \cup Events, left : Nat, out : Seq(Events)]

AggFiles(k) == IF k.agg = NoAgg THEN {} ELSE k.agg.files
SentBy(k) == FilesOf(k.out) \cup AggFiles(k)

\* What the senders hold and delivered: each document once, no more than the display limit,
\* and nothing delivered while they collect.
SinkOK(k) ==
  /\ k \in Sinks
  /\ IsFiniteSet(SentBy(k))
  /\ \A i, j \in DOMAIN k.out : i # j => k.out[i].files \cap k.out[j].files = {}
  /\ k.collecting => FilesOf(k.out) = {}
  /\ ~k.collecting => k.agg = NoAgg
  /\ DisplayLimit > 0 => Cardinality(SentBy(k)) <= DisplayLimit

\* limitSender counts down from the display limit.
LeftOK(k) == DisplayLimit > 0 => k.left = DisplayLimit - Cardinality(FilesOf(k.out))

\* The display limit is used up: what is left out now may be left out.
Full(k) == DisplayLimit > 0 /\ Cardinality(SentBy(k)) = DisplayLimit

\* An event is not the absence of an aggregate.
LEMMA EventIsNotNoAgg == \A e \in Events : e # NoAgg
<1> SUFFICES ASSUME NEW e \in Events, e = NoAgg PROVE FALSE
  OBVIOUS
<1>1. DOMAIN e = {"priority", "max", "files", "crash"}
  BY DEF Events
<1>2. DOMAIN NoAgg = 1..0
  BY EmptySeq, LenProperties DEF NoAgg
<1> QED
  BY <1>1, <1>2

\* An event more delivers its documents as well.
LEMMA FilesAppend ==
  ASSUME NEW out \in Seq(Events), NEW e \in Events
  PROVE  /\ Append(out, e) \in Seq(Events)
         /\ FilesOf(Append(out, e)) = FilesOf(out) \cup e.files
         /\ (\A i \in DOMAIN out : out[i].files \cap e.files = {})
              => \A i, j \in DOMAIN Append(out, e) :
                   i # j => \/ Append(out, e)[i].files \cap Append(out, e)[j].files = {}
                            \/ i \in DOMAIN out /\ j \in DOMAIN out /\ out[i].files \cap out[j].files # {}
<1> DEFINE app == Append(out, e)
<1>1. /\ app \in Seq(Events) /\ Len(app) = Len(out) + 1 /\ Len(out) \in Nat
      /\ DOMAIN app = 1..Len(out) + 1 /\ DOMAIN out = 1..Len(out)
      /\ \A i \in 1..Len(out) : app[i] = out[i]
      /\ app[Len(out) + 1] = e
  BY AppendProperties, LenProperties
<1> HIDE DEF app
<1>2. FilesOf(app) = FilesOf(out) \cup e.files
  <2>1. ASSUME NEW d \in FilesOf(app) PROVE d \in FilesOf(out) \cup e.files
    <3>1. PICK i \in DOMAIN app : d \in app[i].files
      BY DEF FilesOf
    <3> QED
      BY <1>1, <3>1 DEF FilesOf
  <2>2. ASSUME NEW d \in FilesOf(out) PROVE d \in FilesOf(app)
    <3>1. PICK i \in DOMAIN out : d \in out[i].files
      BY DEF FilesOf
    <3>2. i \in DOMAIN app /\ d \in app[i].files
      BY <1>1, <3>1
    <3> QED
      BY <3>2 DEF FilesOf
  <2>3. ASSUME NEW d \in e.files PROVE d \in FilesOf(app)
    <3>1. Len(out) + 1 \in DOMAIN app /\ d \in app[Len(out) + 1].files
      BY <1>1
    <3> QED
      BY <3>1 DEF FilesOf
  <2> QED
    BY <2>1, <2>2, <2>3
<1>3. ASSUME \A i \in DOMAIN out : out[i].files \cap e.files = {},
             NEW i \in DOMAIN app, NEW j \in DOMAIN app, i # j
      PROVE  \/ app[i].files \cap app[j].files = {}
             \/ i \in DOMAIN out /\ j \in DOMAIN out /\ out[i].files \cap out[j].files # {}
  <2>1. CASE i \in DOMAIN out /\ j \in DOMAIN out
    BY <1>1, <2>1
  <2>2. CASE i \notin DOMAIN out
    <3>1. app[i] = e /\ j \in DOMAIN out /\ app[j] = out[j]
      BY <1>1, <1>3, <2>2
    <3> QED
      BY <1>3, <3>1
  <2>3. CASE j \notin DOMAIN out
    <3>1. app[j] = e /\ i \in DOMAIN out /\ app[i] = out[i]
      BY <1>1, <1>3, <2>3
    <3> QED
      BY <1>3, <3>1
  <2> QED
    BY <2>1, <2>2, <2>3
<1> QED
  BY <1>1, <1>2, <1>3 DEF app

-----------------------------------------------------------------------------
(* The inductive invariant.                                                *)

Stages == {"idle", "gone", "open", "scan", "reserve", "found"}
Result == [st : Stages, s : Nat, n : Nat, found : SUBSET Nat, matches : Nat,
           seen : Nat, crash : Nat, err : BOOLEAN]
Flags == {"Known", "Timeout", "Cancelled", "ShardError", "MatchLimit", "ResponseLimit", "IndexNotReady"}

Typed ==
  /\ opts \in Options
  /\ pc \in {"acquire", "yield", "select", "send", "return", "flush", "done"}
  /\ shard \in 0..N /\ stopped \in BOOLEAN
  /\ search \in Seq(Nat) /\ results \in Seq(Result) /\ closed \in BOOLEAN
  /\ wk \in [Workers -> Result]
  /\ pending \in Seq(Nat) /\ total \in Nat /\ err \in BOOLEAN
  /\ todo \in [r : Result, max : Int, rest : SUBSET Nat]
  /\ flags \subseteq Flags /\ used \in Nat /\ looked \in SUBSET (Nat \X Nat)
  /\ outer \in {"live", "canceled"} /\ ctx \in {"live", "canceled", "deadline"}

TypeOK == Typed /\ sink \in Sinks

\* The shards the workers have taken from the channel; those behind them wait in it, in order.
Taken == shard - Len(search)
Queued == Taken >= 0 /\ \A i \in DOMAIN search : search[i] = Taken + i

\* What is known of a shard's result, finished or not.
ResultOK(r) == r.s \in 1..Taken /\ r.found \subseteq Matching(r.s)

\* How far a worker is in its shard.
At(r) ==
  /\ r.st = "open" => r.found = {}
  /\ r.st \in {"scan", "reserve"} => r.n \in 1..Len(Docs[r.s]) + 1 /\ \A i \in r.found : i < r.n
  /\ r.st = "reserve" => r.n \in Matching(r.s)

WorkerOK(w) ==
  /\ w > NumWorkers => wk[w].st = "gone"
  /\ wk[w].st = "gone" /\ w <= NumWorkers => stopped /\ search = <<>>
  /\ w \in Busy => ResultOK(wk[w])
  /\ At(wk[w])

\* What the search's own place in its code says of the rest.
Phases ==
  /\ pc \in {"yield", "select", "send"} => N > 0 /\ (stopped \/ shard < N)
  /\ pc = "acquire" => shard = 0
  /\ pc \in {"acquire", "return", "flush", "done"} => search = <<>> /\ results = <<>> /\ Busy = {}
  /\ pc \in {"return", "flush", "done"} => stopped \/ N = 0 \/ err
  /\ IF pc = "send" THEN ResultOK(todo.r) /\ todo.rest \subseteq todo.r.found
                    ELSE todo = NothingToSend
  /\ closed => \A w \in Workers : wk[w].st = "gone"

Control ==
  /\ Typed /\ Queued /\ Phases
  /\ \A w \in Workers : WorkerOK(w)
  /\ \A j \in DOMAIN results : ResultOK(results[j])

\* A shard that was taken is in one place: with a worker, in the channel of results, or being sent.
OnePlace ==
  /\ \A v, w \in Busy : wk[v].s = wk[w].s => v = w
  /\ \A i, j \in DOMAIN results : results[i].s = results[j].s => i = j
  /\ \A w \in Busy, j \in DOMAIN results : wk[w].s # results[j].s
  /\ pc = "send" => /\ \A w \in Busy : wk[w].s # todo.r.s
                    /\ \A j \in DOMAIN results : results[j].s # todo.r.s

\* A document that was sent is not on its way a second time.
SentOnce ==
  \A d \in Sent :
    /\ d \in AllDocs /\ d[1] <= Taken
    /\ \A w \in Busy : wk[w].s # d[1]
    /\ \A j \in DOMAIN results : results[j].s # d[1]
    /\ d[1] = todo.r.s => d[2] \notin todo.rest

\* The senders, and when they collect.
Senders ==
  /\ SinkOK(sink)
  /\ Streaming \/ pc # "done" => LeftOK(sink)
  /\ pc = "acquire" => ~sink.collecting /\ sink.out = <<>>
  /\ pc = "done" /\ sink.collecting => ~Streaming /\ err
  /\ ~Streaming /\ pc # "done" => sink.out = <<>> /\ (pc = "acquire" \/ sink.collecting)

\* Budget.Reserve counts every document that is kept.
Reserved == IsFiniteSet(Retained) /\ Cardinality(Retained) <= used /\ used <= Budget

\* No event that the senders hold or sent reports a crash.
QuietSink(k) ==
  /\ k.agg # NoAgg => k.agg.crash = 0
  /\ \A i \in DOMAIN k.out : k.out[i].crash = 0

\* Nothing has been said so far that makes the search partial.
NoCrash ==
  /\ \A w \in Busy : wk[w].crash = 0
  /\ \A j \in DOMAIN results : results[j].crash = 0
  /\ todo.r.crash = 0
  /\ QuietSink(sink)
Clean == ~err /\ flags \subseteq {"Known"} /\ NoCrash

\* Nothing that matches was passed over in a shard.
Whole(r) ==
  /\ r.st = "found" => r.found = Matching(r.s)
  /\ r.st \in {"scan", "reserve"} => \A i \in Matching(r.s) : i < r.n => i \in r.found

\* Then every document is sent or will be, or the display limit is reached.
Covered(d) ==
  \/ d[1] > Taken
  \/ \E w \in Busy : wk[w].s = d[1]
  \/ \E j \in DOMAIN results : results[j].s = d[1]
  \/ pc = "send" /\ todo.r.s = d[1] /\ d[2] \in todo.rest
  \/ d \in Sent
  \/ Full(sink)
Cover ==
  Clean => /\ stopped => shard = N
           /\ \A w \in Busy : Whole(wk[w])
           /\ \A j \in DOMAIN results : results[j].found = Matching(results[j].s)
           /\ \A d \in AllDocs : Covered(d)

\* A document that may still be sent, or was.
Possible(d) ==
  \/ d[1] > shard /\ ~stopped
  \/ d[1] > Taken /\ d[1] <= shard
  \/ \E w \in Busy : wk[w].s = d[1] /\ (wk[w].st = "found" => d[2] \in wk[w].found)
  \/ \E j \in DOMAIN results : results[j].s = d[1] /\ d[2] \in results[j].found
  \/ pc = "send" /\ todo.r.s = d[1] /\ d[2] \in todo.rest
  \/ d \in Sent

\* A budget that was too small has cut off some document for good.
Missed == "ResponseLimit" \in flags => \E d \in AllDocs : ~Possible(d)

\* A candidate that may still be looked at.
Coming(r, i) == r.st = "open" \/ (r.st = "scan" /\ i >= r.n) \/ (r.st = "reserve" /\ i > r.n)
Ahead(d) == d[1] > Taken \/ \E w \in Workers : wk[w].s = d[1] /\ Coming(wk[w], d[2])

\* Each is looked at once, and a match limit that is reported has left out a candidate or a shard.
Looking ==
  /\ looked \subseteq Candidates /\ \A d \in looked : ~Ahead(d)
  /\ "MatchLimit" \in flags => (stopped /\ shard < N) \/ \E d \in Candidates \ looked : ~Ahead(d)

\* The limits of a shard, while it is scanned.
InRepo(s, repo) == {i \in DOMAIN Docs[s] : Docs[s][i].repo = repo}
Counted(w) ==
  LET r == wk[w] IN
  /\ r.st \in {"open", "scan"} => r.matches = Cardinality(r.found)
  /\ r.st = "reserve" =>
       /\ ShardMax > 0 => Cardinality(r.found) < ShardMax
       /\ ShardRepoMax > 0 => Cardinality(r.found \cap InRepo(r.s, Docs[r.s][r.n].repo)) < ShardRepoMax
       /\ r.matches = Cardinality(r.found) + 1
Limited == ShardLimitsKept /\ \A w \in Busy : Counted(w)

\* limitSender has cancelled the context.
LimitReached == Streaming /\ DisplayLimit > 0 /\ sink.left = 0

Reasons ==
  /\ ctx = "canceled" => outer = "canceled" \/ LimitReached \/ pc \in {"flush", "done"}
  /\ "Cancelled" \in flags => outer = "canceled" \/ LimitReached
  /\ "IndexNotReady" \in flags => ~opts.ready

IInv == Control /\ OnePlace /\ Senders /\ SentOnce /\ Reserved /\ Limited /\ Cover /\ Missed /\ Looking /\ Reasons

-----------------------------------------------------------------------------
(* What the search is given.                                               *)

\* The shards, their documents and their priorities, and how many workers there are.
LEMMA Given ==
  ASSUME opts \in Options
  PROVE  /\ N \in Nat /\ Shards = 1..N /\ NumWorkers \in Nat /\ NumWorkers <= MaxProcs /\ NumWorkers <= N
         /\ N > 0 => 1 \in Workers /\ NumWorkers >= 1
         /\ Budget \in Nat /\ DisplayLimit \in Nat /\ TotalMax \in Nat /\ ShardMax \in Nat
         /\ ShardRepoMax \in Nat
         /\ Streaming \in BOOLEAN /\ opts.collecting \in BOOLEAN /\ opts.ready \in BOOLEAN
         /\ \A s \in 1..N : /\ Len(Docs[s]) \in Nat /\ DOMAIN Docs[s] = 1..Len(Docs[s])
                            /\ Priority(s) \in Nat
                            /\ Matching(s) \subseteq 1..Len(Docs[s])
                            /\ \A i \in 1..Len(Docs[s]) :
                                 /\ Docs[s][i].match \in BOOLEAN /\ Docs[s][i].repo \in DOMAIN Repos[s]
                                 /\ Repos[s][Docs[s][i].repo] \in Nat
                                 /\ Repos[s][Docs[s][i].repo] <= Priority(s)
<1>1. opts \in Option
  BY SearchAssumption
<1>2. /\ opts.shards \in Seq(LoadedShard) /\ Budget \in Nat /\ DisplayLimit \in Nat
      /\ TotalMax \in Nat /\ ShardMax \in Nat /\ ShardRepoMax \in Nat
      /\ Streaming \in BOOLEAN /\ opts.collecting \in BOOLEAN /\ opts.ready \in BOOLEAN
  BY <1>1 DEF Option, Budget, DisplayLimit, TotalMax, ShardMax, ShardRepoMax, Streaming
<1>3. N \in Nat /\ Shards = 1..N /\ \A s \in 1..N : opts.shards[s] \in LoadedShard
  BY <1>2, LenProperties DEF N, Shards
<1>4. ASSUME NEW s \in 1..N
      PROVE  /\ Len(Docs[s]) \in Nat /\ DOMAIN Docs[s] = 1..Len(Docs[s])
             /\ Priority(s) \in Nat
             /\ Matching(s) \subseteq 1..Len(Docs[s])
             /\ \A i \in 1..Len(Docs[s]) :
                  /\ Docs[s][i].match \in BOOLEAN /\ Docs[s][i].repo \in DOMAIN Repos[s]
                  /\ Repos[s][Docs[s][i].repo] \in Nat
                  /\ Repos[s][Docs[s][i].repo] <= Priority(s)
  <2> DEFINE q == Docs[s]
             m == Repos[s]
  <2>1. q = opts.shards[s].docs /\ m = opts.shards[s].repos /\ opts.shards[s] \in LoadedShard /\ s \in DOMAIN opts.shards
    BY <1>3 DEF Docs, Repos, Shards
  <2>2. q \in Seq(Doc) /\ m \in Seq(Nat)
    BY <2>1 DEF LoadedShard
  <2>3. \A i \in DOMAIN q : q[i].repo \in DOMAIN m
    BY <2>1, SearchAssumption
  <2>4. Priority(s) = Largest(m)
    BY DEF Priority
  <2>5. Matching(s) = {i \in DOMAIN q : q[i].match}
    BY DEF Matching
  <2> HIDE DEF q, m
  <2>6. Len(q) \in Nat /\ DOMAIN q = 1..Len(q) /\ \A i \in 1..Len(q) : q[i] \in Doc
    BY <2>2, LenProperties
  <2>7. Largest(m) \in Nat /\ \A x \in Range(m) : x <= Largest(m)
    BY <2>2, LargestType
  <2>8. \A k \in DOMAIN m : m[k] \in Nat /\ m[k] \in Range(m)
    BY <2>2 DEF Range
  <2>9. \A i \in 1..Len(q) : q[i].match \in BOOLEAN
    BY <2>6 DEF Doc
  <2> QED
    BY <2>3, <2>4, <2>5, <2>6, <2>7, <2>8, <2>9 DEF q, m
<1>5. /\ NumWorkers \in Nat /\ NumWorkers <= MaxProcs /\ NumWorkers <= N
      /\ N > 0 => 1 \in Workers /\ NumWorkers >= 1
  BY <1>3, SearchAssumption DEF NumWorkers, Workers
<1> QED
  BY <1>2, <1>3, <1>4, <1>5

\* The documents of the loaded shards are finitely many.
LEMMA DocsFinite ==
  ASSUME opts \in Options
  PROVE  /\ IsFiniteSet(AllDocs)
         /\ AllDocs \subseteq Nat \X Nat
         /\ \A s, i : <<s, i>> \in AllDocs <=> s \in 1..N /\ i \in Matching(s)
         /\ \A d \in AllDocs : d = <<d[1], d[2]>> /\ d[1] \in 1..N /\ d[2] \in Matching(d[1])
         /\ \A s, i : <<s, i>> \in Candidates <=> s \in 1..N /\ i \in 1..Len(Docs[s])
         /\ \A s \in 1..N : IsFiniteSet(Matching(s))
<1> DEFINE of(s) == {<<s, i>> : i \in Matching(s)}
           all == {of(s) : s \in 1..N}
<1>0. N \in Int /\ \A s \in 1..N : Len(Docs[s]) \in Int /\ Matching(s) \subseteq 1..Len(Docs[s])
  BY Given
<1>1. AllDocs = UNION all
  BY Given DEF AllDocs
<1>2. \A s, i : <<s, i>> \in AllDocs <=> s \in 1..N /\ i \in Matching(s)
  <2>1. ASSUME NEW s, NEW i, <<s, i>> \in AllDocs PROVE s \in 1..N /\ i \in Matching(s)
    BY <1>1, <2>1
  <2>2. ASSUME NEW s, NEW i, s \in 1..N, i \in Matching(s) PROVE <<s, i>> \in AllDocs
    BY <1>1, <2>2
  <2> QED
    BY <2>1, <2>2
<1>3. \A d \in AllDocs : d = <<d[1], d[2]>> /\ d[1] \in 1..N /\ d[2] \in Matching(d[1])
  BY <1>1
<1>4. AllDocs \subseteq Nat \X Nat
  <2> SUFFICES ASSUME NEW d \in AllDocs PROVE d \in Nat \X Nat
    OBVIOUS
  <2>1. d = <<d[1], d[2]>> /\ d[1] \in Nat /\ d[2] \in Nat
    BY <1>3, <1>0
  <2> QED
    BY <2>1
<1>5. \A s \in 1..N : IsFiniteSet(Matching(s))
  <2> SUFFICES ASSUME NEW s \in 1..N PROVE IsFiniteSet(Matching(s))
    OBVIOUS
  <2>1. IsFiniteSet(1..Len(Docs[s])) /\ Matching(s) \subseteq 1..Len(Docs[s])
    BY <1>0, FS_Interval
  <2> QED
    BY <2>1, FS_Subset
<1>6. IsFiniteSet(AllDocs)
  <2>1. \A s \in 1..N : IsFiniteSet(of(s))
    <3> SUFFICES ASSUME NEW s \in 1..N PROVE IsFiniteSet(of(s))
      OBVIOUS
    <3>1. [i \in Matching(s) |-> <<s, i>>] \in Surjection(Matching(s), of(s))
      BY DEF Surjection
    <3> HIDE DEF of
    <3> QED
      BY <1>5, <3>1, FS_Surjection
  <2>2. [s \in 1..N |-> of(s)] \in Surjection(1..N, all)
    BY DEF Surjection
  <2>3. IsFiniteSet(1..N)
    BY <1>0, FS_Interval
  <2>4. IsFiniteSet(all)
    <3> HIDE DEF all
    <3> QED
      BY <2>2, <2>3, FS_Surjection
  <2> QED
    BY <1>1, <2>1, <2>4, FS_UNION
<1>7. \A s, i : <<s, i>> \in Candidates <=> s \in 1..N /\ i \in 1..Len(Docs[s])
  <2> DEFINE cand == {{<<s, i>> : i \in 1..Len(Docs[s])} : s \in 1..N}
  <2>1. Candidates = UNION cand
    BY Given DEF Candidates
  <2>2. ASSUME NEW s, NEW i, <<s, i>> \in Candidates PROVE s \in 1..N /\ i \in 1..Len(Docs[s])
    BY <2>1, <2>2
  <2>3. ASSUME NEW s, NEW i, s \in 1..N, i \in 1..Len(Docs[s]) PROVE <<s, i>> \in Candidates
    BY <2>1, <2>3
  <2> QED
    BY <2>2, <2>3
<1> QED
  BY <1>2, <1>3, <1>4, <1>5, <1>6, <1>7

\* Where a candidate is.
LEMMA CandidateOf ==
  ASSUME opts \in Options, NEW d \in Candidates
  PROVE  d = <<d[1], d[2]>> /\ d[1] \in 1..N /\ d[2] \in 1..Len(Docs[d[1]])
<1>1. PICK s \in Shards : d \in {<<s, i>> : i \in DOMAIN Docs[s]}
  BY DEF Candidates
<1>2. PICK i \in DOMAIN Docs[s] : d = <<s, i>>
  BY <1>1
<1> QED
  BY <1>1, <1>2, Given

-----------------------------------------------------------------------------
(* Control: who does what, and where a shard is.                           *)

\* prioritySlice holds priorities, whatever is removed, and its maximum is a number.
LEMMA PendingType ==
  ASSUME NEW p \in Seq(Nat), NEW pri
  PROVE  RemovePri(p, pri) \in Seq(Nat) /\ MaxPending(p) \in Int
<1>1. MaxPending(p) \in Int
  <2>1. CASE p = <<>>
    BY <2>1 DEF MaxPending, Minus
  <2>2. CASE p # <<>>
    <3>1. MaxPending(p) \in Range(p)
      BY <2>2, LargestExists DEF MaxPending
    <3> QED
      BY <3>1 DEF Range
  <2> QED
    BY <2>1, <2>2
<1>2. RemovePri(p, pri) \in Seq(Nat)
  <2> DEFINE at == {i \in DOMAIN p : p[i] = pri}
             i == CHOOSE j \in at : \A k \in at : j <= k
             q == [p EXCEPT ![i] = p[Len(p)]]
  <2>1. CASE at = {}
    BY <2>1 DEF RemovePri
  <2>2. CASE at # {}
    <3>1. Len(p) \in Nat \ {0} /\ DOMAIN p = 1..Len(p) /\ p[Len(p)] \in Nat
      BY <2>2, LenProperties
    <3>2. q \in Seq(Nat) /\ Len(q) = Len(p)
      <4> HIDE DEF i
      <4>1. q \in [1..Len(p) -> Nat]
        BY <3>1, LenProperties
      <4>2. q \in Seq(Nat)
        BY <3>1, <4>1, SeqDef
      <4> QED
        BY <3>1, <4>1, <4>2, LenProperties
    <3> HIDE DEF q
    <3>3. SubSeq(q, 1, Len(p) - 1) \in Seq(Nat)
      BY <3>1, <3>2, SubSeqProperties
    <3> QED
      BY <2>2, <3>3 DEF RemovePri, q
  <2> QED
    BY <2>1, <2>2
<1> QED
  BY <1>1, <1>2

\* What a worker does between taking a shard and handing over its result.
Local(w) == Open(w) \/ Fail(w) \/ Panic(w) \/ Scan(w) \/ Reserve(w)

\* The worker's result x after such a step, and what it tells of documents left out.
LocalTo(w, x) ==
  /\ x \in Result /\ wk' = [wk EXCEPT ![w] = x]
  /\ wk[w].st \in {"open", "scan", "reserve"} /\ x.st \in {"scan", "reserve", "found"}
  /\ x.s = wk[w].s /\ ResultOK(x) /\ At(x)
  /\ \/ x.found \subseteq wk[w].found /\ used' = used
     \/ x.found = wk[w].found \cup {wk[w].n} /\ wk[w].st = "reserve" /\ used' = used + 1 /\ used < Budget
  /\ flags \subseteq flags' /\ flags' \subseteq Flags /\ looked' \in SUBSET (Nat \X Nat)
  /\ x.crash = 0 /\ flags' \subseteq {"Known"} => wk[w].crash = 0 /\ (Whole(wk[w]) => Whole(x))
  /\ "ResponseLimit" \in flags' =>
       "ResponseLimit" \in flags \/ (x.st = "found" /\ ~ (Matching(x.s) \subseteq x.found))
  /\ "Cancelled" \in flags' => "Cancelled" \in flags \/ ctx = "canceled"
  /\ "IndexNotReady" \in flags' => "IndexNotReady" \in flags
  /\ UNCHANGED <<main, chans, outer, ctx, opts, sink>>

\* What indexData.Search does with a shard, step by step, Budget.Reserve included.
LEMMA LocalStep ==
  ASSUME Control, NEW w \in Workers, Local(w)
  PROVE  \E x \in Result : LocalTo(w, x)
<1> DEFINE r == wk[w]
           all == Matching(r.s)
           len == Len(Docs[r.s])
<1>1. /\ r \in Result /\ r.st \in Stages /\ r.s \in Nat /\ r.n \in Nat /\ r.found \in SUBSET Nat
      /\ r.matches \in Nat /\ r.seen \in Nat /\ r.crash \in Nat /\ r.err \in BOOLEAN
  BY DEF Control, Typed, Result
<1>2. r.st \notin {"idle", "gone"} => ResultOK(r)
  BY DEF Control, WorkerOK, Busy
<1>3. At(r)
  BY DEF Control, WorkerOK
<1>4. /\ used \in Nat /\ Budget \in Nat /\ flags \subseteq Flags /\ ctx \in {"live", "canceled", "deadline"}
      /\ looked \in SUBSET (Nat \X Nat)
      /\ Taken \in Int
      /\ r.st \notin {"idle", "gone"} =>
           len \in Nat /\ all \subseteq 1..len /\ (\A i \in 1..len : i \in all <=> Docs[r.s][i].match)
  <2>1. N \in Nat /\ Len(search) \in Nat /\ shard \in 0..N
    BY Given, LenProperties DEF Control, Typed
  <2>2. Taken \in Int /\ Taken <= N
    BY <2>1 DEF Taken
  <2>3. r.st \notin {"idle", "gone"} => r.s \in 1..N
    BY <1>2, <2>1, <2>2 DEF ResultOK
  <2>4. opts \in Options
    BY DEF Control, Typed
  <2> HIDE DEF r
  <2>5. r.st \notin {"idle", "gone"} => len \in Nat /\ all \subseteq 1..len /\ DOMAIN Docs[r.s] = 1..len
    BY <2>3, <2>4, Given
  <2>6. \A i \in DOMAIN Docs[r.s] : i \in all <=> Docs[r.s][i].match
    BY DEF Matching
  <2> QED
    BY <2>2, <2>5, <2>6, Given DEF Control, Typed
<1> HIDE DEF r, all, len
<1>5. ASSUME NEW x \in Result, wk' = [wk EXCEPT ![w] = x],
             r.st \in {"open", "scan", "reserve"}, x.st \in {"scan", "reserve"},
             x.s = r.s, x.crash = r.crash, x.found \subseteq all, At(x),
             \/ x.found = r.found /\ used' = used
             \/ x.found = r.found \cup {r.n} /\ r.st = "reserve" /\ used' = used + 1 /\ used < Budget,
             NEW more \in SUBSET {"MatchLimit"}, flags' = flags \cup more,
             more = {} /\ Whole(r) => Whole(x),
             looked' \in SUBSET (Nat \X Nat),
             UNCHANGED <<main, chans, outer, ctx, opts, sink>>
      PROVE  \E y \in Result : LocalTo(w, y)
  <2>1. ResultOK(x)
    BY <1>2, <1>5 DEF ResultOK, all
  <2>2. (x.found \subseteq r.found /\ used' = used)
          \/ (x.found = r.found \cup {r.n} /\ r.st = "reserve" /\ used' = used + 1 /\ used < Budget)
    BY <1>5
  <2>3. /\ flags \subseteq flags' /\ flags' \subseteq Flags /\ x.st # "found"
        /\ "ResponseLimit" \in flags' => "ResponseLimit" \in flags
        /\ "Cancelled" \in flags' => "Cancelled" \in flags
        /\ "IndexNotReady" \in flags' => "IndexNotReady" \in flags
        /\ flags' \subseteq {"Known"} => more = {}
    BY <1>4, <1>5 DEF Flags
  <2>4. LocalTo(w, x)
    BY <1>5, <2>1, <2>2, <2>3 DEF LocalTo, r
  <2> QED
    BY <2>4
<1>6. ASSUME NEW q \in Result, NEW more \in SUBSET {"MatchLimit", "ResponseLimit"}, Done(w, q, more),
             r.st \in {"open", "scan", "reserve"}, q.s = r.s, q.found \subseteq r.found,
             q.crash = 0 =>
               \/ r.crash = 0 /\ (Whole(r) => q.found = all)
               \/ ctx # "live" \/ q.err \/ more # {} \/ ~ (flags \subseteq {"Known"}),
             "ResponseLimit" \in more => ~ (all \subseteq q.found)
      PROVE  \E x \in Result : LocalTo(w, x)
  <2> DEFINE x == [q EXCEPT !.st = "found"]
  <2>1. x \in Result /\ x.st = "found" /\ x.s = q.s /\ x.found = q.found /\ x.crash = q.crash
    BY DEF Result, Stages
  <2>2. flags' = flags \cup more \cup BudgetFinish(ctx, q.err)
    BY <1>6 DEF Done
  <2>3. /\ BudgetFinish(ctx, q.err) \subseteq {"Known", "Timeout", "Cancelled", "ShardError"}
        /\ "Cancelled" \in BudgetFinish(ctx, q.err) => ctx = "canceled"
        /\ ctx # "live" \/ q.err => ~ (BudgetFinish(ctx, q.err) \subseteq {"Known"})
    BY <1>4, <1>6 DEF BudgetFinish, MarkContext, Result
  <2>4. wk' = [wk EXCEPT ![w] = x] /\ used' = used /\ looked' = looked /\ UNCHANGED <<main, chans, outer, ctx, opts, sink>>
    BY <1>6 DEF Done
  <2> HIDE DEF x
  <2>5. ResultOK(x)
    BY <1>2, <1>6, <2>1 DEF ResultOK
  <2>6. At(x) /\ (Whole(x) <=> q.found = all)
    BY <1>6, <2>1 DEF At, Whole, all
  <2>7. /\ flags \subseteq flags' /\ flags' \subseteq Flags
        /\ x.crash = 0 /\ flags' \subseteq {"Known"} => r.crash = 0 /\ (Whole(r) => Whole(x))
        /\ "ResponseLimit" \in flags' => "ResponseLimit" \in flags \/ ~ (all \subseteq x.found)
        /\ "Cancelled" \in flags' => "Cancelled" \in flags \/ ctx = "canceled"
        /\ "IndexNotReady" \in flags' => "IndexNotReady" \in flags
    BY <1>4, <1>6, <2>1, <2>2, <2>3, <2>6 DEF Flags
  <2>8. LocalTo(w, x)
    BY <1>4, <1>6, <2>1, <2>4, <2>5, <2>6, <2>7 DEF LocalTo, r, all
  <2> QED
    BY <2>1, <2>8
<1>7. Lost(r) \in Result /\ Lost(r).s = r.s /\ Lost(r).found = {} /\ Lost(r).crash = 0 /\ Lost(r).err = FALSE
  BY <1>1 DEF Lost, IdleWorker, Result, Stages
<1>8. CASE Open(w)
  <2>1. CASE ctx # "live" /\ Done(w, r, {})
    <3>1. r.st = "open"
      BY <1>8 DEF Open, r
    <3> QED
      BY <1>1, <1>6, <2>1, <3>1
  <2>2. CASE ctx = "live" /\ wk' = [wk EXCEPT ![w].st = "scan", ![w].n = 1]
             /\ UNCHANGED <<main, chans, flags, used, looked, outer, ctx, opts, sink>>
    <3> DEFINE x == [r EXCEPT !.st = "scan", !.n = 1]
               no == {}
    <3>1. wk' = [wk EXCEPT ![w] = x]
      BY <2>2 DEF r
    <3>2. x \in Result /\ x.st = "scan" /\ x.s = r.s /\ x.n = 1 /\ x.found = r.found /\ x.crash = r.crash
      BY <1>1 DEF Result, Stages
    <3>3. r.st = "open" /\ r.found = {} /\ len \in Nat /\ all \subseteq 1..len
      BY <1>3, <1>4, <1>8 DEF Open, At, r
    <3> HIDE DEF x
    <3>4. At(x) /\ Whole(x) /\ x.found \subseteq all
      BY <3>2, <3>3 DEF At, Whole, all, len
    <3>5. no \in SUBSET {"MatchLimit"} /\ flags' = flags \cup no /\ used' = used /\ looked' \in SUBSET (Nat \X Nat)
          /\ UNCHANGED <<main, chans, outer, ctx, opts, sink>>
      BY <1>4, <2>2
    <3> HIDE DEF no
    <3> QED
      BY <1>5, <3>1, <3>2, <3>3, <3>4, <3>5
  <2> QED
    BY <1>8, <2>1, <2>2 DEF Open, r
<1>9. CASE Fail(w)
  <2> DEFINE q == [Lost(r) EXCEPT !.err = TRUE]
  <2>1. q \in Result /\ q.s = r.s /\ q.found = {} /\ q.crash = 0 /\ q.err = TRUE
    BY <1>1, <1>7 DEF Result
  <2>2. Done(w, q, {}) /\ r.st = "open"
    BY <1>9 DEF Fail, r
  <2> HIDE DEF q
  <2> QED
    BY <1>1, <1>6, <2>1, <2>2
<1>10. CASE Panic(w)
  <2> DEFINE q == [Lost(r) EXCEPT !.crash = 1]
  <2>1. q \in Result /\ q.s = r.s /\ q.found = {} /\ q.crash = 1
    BY <1>1, <1>7 DEF Result
  <2>2. Done(w, q, {}) /\ r.st = "scan"
    BY <1>10 DEF Panic, r
  <2> HIDE DEF q
  <2> QED
    BY <1>1, <1>6, <2>1, <2>2
<1>11. CASE Scan(w)
  <2>1. r.st = "scan"
    BY <1>11 DEF Scan, r
  <2>2. /\ len \in Nat /\ all \subseteq 1..len /\ (\A i \in 1..len : i \in all <=> Docs[r.s][i].match)
        /\ r.n \in 1..len + 1 /\ (\A i \in r.found : i < r.n) /\ r.found \subseteq all
    BY <1>2, <1>3, <1>4, <2>1 DEF At, ResultOK, all, len
  <2>3. PICK i \in 1..len + 1 :
          /\ NextDoc(r, i)
          /\ \/ i > len /\ Done(w, r, SkipMark(r, i))
             \/ /\ i <= len /\ Halted(r)
                /\ Done(w, r, SkipMark(r, i) \cup (IF ctx = "live" /\ ~Exhausted THEN {"MatchLimit"} ELSE {}))
             \/ i <= len /\ ~Halted(r) /\ LookAt(w, i)
    BY <1>11 DEF Scan, r, len
  <2>4. r.n <= i /\ i \in Nat /\ SkipMark(r, i) \in SUBSET {"MatchLimit"} /\ (SkipMark(r, i) = {} => i = r.n)
    BY <1>1, <2>2, <2>3 DEF NextDoc, SkipMark, len
  <2>5. CASE i > len /\ Done(w, r, SkipMark(r, i))
    <3> DEFINE m == SkipMark(r, i)
    <3>1. m = {} => (Whole(r) => r.found = all)
      <4> SUFFICES ASSUME m = {}, Whole(r) PROVE all \subseteq r.found
        BY <2>2
      <4>1. r.n = len + 1
        BY <2>2, <2>4, <2>5
      <4> QED
        BY <2>1, <2>2, <4>1 DEF Whole, all
    <3>2. m \in SUBSET {"MatchLimit", "ResponseLimit"} /\ "ResponseLimit" \notin m /\ Done(w, r, m)
      BY <2>4, <2>5
    <3> HIDE DEF m
    <3>3. r.crash = 0 \/ r.crash # 0
      OBVIOUS
    <3> QED
      BY <1>1, <1>6, <2>1, <3>1, <3>2, <3>3
  <2>6. CASE Halted(r) /\ Done(w, r, SkipMark(r, i) \cup (IF ctx = "live" /\ ~Exhausted THEN {"MatchLimit"} ELSE {}))
    <3> DEFINE m == SkipMark(r, i) \cup (IF ctx = "live" /\ ~Exhausted THEN {"MatchLimit"} ELSE {})
    <3>1. m \in SUBSET {"MatchLimit", "ResponseLimit"} /\ "ResponseLimit" \notin m /\ Done(w, r, m)
      BY <2>4, <2>6
    <3>2. m # {} \/ ctx # "live" \/ ~ (flags \subseteq {"Known"})
      BY DEF Exhausted
    <3> HIDE DEF m
    <3> QED
      BY <1>1, <1>6, <2>1, <3>1, <3>2
  <2>7. CASE i <= len /\ LookAt(w, i)
    <3> DEFINE m == SkipMark(r, i)
               x == IF Docs[r.s][i].match
                    THEN [r EXCEPT !.st = "reserve", !.n = i, !.matches = @ + 1, !.seen = used]
                    ELSE [r EXCEPT !.n = i + 1]
    <3>1. wk' = [wk EXCEPT ![w] = x] /\ flags' = flags \cup m /\ looked' = looked \cup {<<r.s, i>>}
          /\ UNCHANGED <<main, chans, used, outer, ctx, opts, sink>>
      BY <2>7 DEF LookAt, r
    <3>2. /\ x \in Result /\ x.s = r.s /\ x.crash = r.crash /\ x.found = r.found
          /\ i \in all => x.st = "reserve" /\ x.n = i
          /\ i \notin all => x.st = "scan" /\ x.n = i + 1
      <4>1. i \in 1..len /\ r.matches + 1 \in Nat /\ i + 1 \in Nat /\ "reserve" \in Stages
        BY <1>1, <2>2, <2>4, <2>7, <2>3 DEF Stages
      <4>2. i \in all <=> Docs[r.s][i].match
        BY <2>2, <4>1
      <4> QED
        BY <1>1, <1>4, <2>1, <2>4, <4>1, <4>2 DEF Result
    <3> HIDE DEF x, m
    <3>3. looked' \in SUBSET (Nat \X Nat)
      BY <1>1, <1>4, <2>4, <3>1
    <3>4. At(x)
      BY <2>2, <2>3, <2>4, <2>7, <3>2 DEF At, all, len
    <3>5. m = {} /\ Whole(r) => Whole(x)
      <4> SUFFICES ASSUME m = {}, Whole(r) PROVE Whole(x)
        OBVIOUS
      <4>1. i = r.n /\ \A j \in all : j < r.n => j \in r.found
        BY <2>1, <2>4 DEF m, Whole, all
      <4>2. \A j \in all : j \in Nat
        BY <2>2
      <4>3. \A j \in all : j < x.n => j \in r.found
        BY <1>1, <2>4, <3>2, <4>1, <4>2
      <4> QED
        BY <3>2, <4>3 DEF Whole, all
    <3>6. m \in SUBSET {"MatchLimit"} /\ UNCHANGED <<main, chans, outer, ctx, opts, sink>> /\ used' = used
          /\ x.st \in {"scan", "reserve"} /\ x.found \subseteq all
      BY <2>2, <2>4, <3>1, <3>2 DEF m
    <3> QED
      BY <1>5, <2>1, <3>1, <3>2, <3>3, <3>4, <3>5, <3>6
  <2> QED
    BY <2>3, <2>5, <2>6, <2>7
<1>12. CASE Reserve(w)
  <2>1. r.st = "reserve" /\ r.n \in all /\ (\A i \in r.found : i < r.n) /\ all \subseteq 1..len /\ len \in Nat
        /\ r.found \subseteq all
    BY <1>2, <1>3, <1>4, <1>12 DEF Reserve, At, ResultOK, r, all
  <2>2. r.n \notin r.found
    BY <1>1, <2>1
  <2>3. CASE Done(w, r, {"ResponseLimit"})
    <3> DEFINE m == {"ResponseLimit"}
    <3>1. m \in SUBSET {"MatchLimit", "ResponseLimit"} /\ m # {} /\ Done(w, r, m) /\ ~ (all \subseteq r.found)
      BY <2>1, <2>2, <2>3
    <3> HIDE DEF m
    <3> QED
      BY <1>1, <1>6, <2>1, <3>1
  <2>4. CASE /\ r.seen + 1 <= Budget /\ used = r.seen /\ used' = used + 1
             /\ wk' = [wk EXCEPT ![w].st = "scan", ![w].n = @ + 1, ![w].found = @ \cup {r.n}]
             /\ UNCHANGED <<main, chans, flags, looked, outer, ctx, opts, sink>>
    <3> DEFINE x == [r EXCEPT !.st = "scan", !.n = @ + 1, !.found = @ \cup {r.n}]
               no == {}
    <3>1. wk' = [wk EXCEPT ![w] = x]
      BY <2>4 DEF r
    <3>2. x \in Result /\ x.st = "scan" /\ x.s = r.s /\ x.n = r.n + 1 /\ x.found = r.found \cup {r.n} /\ x.crash = r.crash
      <4>1. "scan" \in Stages /\ r.n + 1 \in Nat /\ r.found \cup {r.n} \in SUBSET Nat
        BY <1>1 DEF Stages
      <4> QED
        BY <1>1, <4>1 DEF Result
    <3> HIDE DEF x
    <3>3. At(x) /\ x.found \subseteq all
      BY <1>1, <2>1, <3>2 DEF At, len, all
    <3>4. Whole(r) => Whole(x)
      <4> SUFFICES ASSUME Whole(r) PROVE Whole(x)
        OBVIOUS
      <4>1. \A j \in all : j \in Nat /\ (j < r.n => j \in r.found)
        BY <2>1 DEF Whole, all
      <4>2. \A j \in all : j < x.n => j \in x.found
        BY <1>1, <3>2, <4>1
      <4> QED
        BY <3>2, <4>2 DEF Whole, all
    <3>5. used < Budget
      BY <1>1, <1>4, <2>4
    <3>6. no \in SUBSET {"MatchLimit"} /\ flags' = flags \cup no /\ looked' \in SUBSET (Nat \X Nat)
          /\ UNCHANGED <<main, chans, outer, ctx, opts, sink>>
      BY <1>4, <2>4
    <3> HIDE DEF no
    <3> QED
      BY <1>5, <2>1, <2>4, <3>1, <3>2, <3>3, <3>4, <3>5, <3>6
  <2>5. CASE /\ wk' = [wk EXCEPT ![w].seen = used]
             /\ UNCHANGED <<main, chans, flags, used, looked, outer, ctx, opts, sink>>
    <3> DEFINE x == [r EXCEPT !.seen = used]
               no == {}
    <3>1. wk' = [wk EXCEPT ![w] = x]
      BY <2>5 DEF r
    <3>2. x \in Result /\ x.st = "reserve" /\ x.s = r.s /\ x.n = r.n /\ x.found = r.found /\ x.crash = r.crash
      BY <1>1, <1>4, <2>1 DEF Result
    <3> HIDE DEF x
    <3>3. At(x) /\ (Whole(r) => Whole(x))
      BY <1>3, <2>1, <3>2 DEF At, Whole
    <3>4. no \in SUBSET {"MatchLimit"} /\ flags' = flags \cup no /\ looked' \in SUBSET (Nat \X Nat)
          /\ used' = used /\ UNCHANGED <<main, chans, outer, ctx, opts, sink>>
      BY <1>4, <2>5
    <3> HIDE DEF no
    <3> QED
      BY <1>5, <2>1, <3>1, <3>2, <3>3, <3>4
  <2> QED
    BY <1>12, <2>3, <2>4, <2>5 DEF Reserve, r
<1> QED
  BY <1>8, <1>9, <1>10, <1>11, <1>12 DEF Local

\* What a search is given stays, and with it everything that is made of it.
LEMMA Same ==
  ASSUME opts' = opts
  PROVE  /\ N' = N /\ Shards' = Shards /\ Docs' = Docs /\ Repos' = Repos /\ NumWorkers' = NumWorkers
         /\ AllDocs' = AllDocs /\ Candidates' = Candidates
         /\ \A s : Matching(s)' = Matching(s) /\ Priority(s)' = Priority(s)
         /\ \A r : (At(r)' <=> At(r)) /\ (Whole(r)' <=> Whole(r))
<1>1. N' = N /\ Shards' = Shards /\ NumWorkers' = NumWorkers
  BY DEF N, Shards, NumWorkers
<1>2. Docs' = Docs /\ Repos' = Repos
  BY <1>1 DEF Docs, Repos
<1>3. \A s : Matching(s)' = Matching(s) /\ Priority(s)' = Priority(s)
  BY <1>2 DEF Matching, Priority
<1>4. AllDocs' = AllDocs /\ Candidates' = Candidates
  BY <1>1, <1>2, <1>3 DEF AllDocs, Candidates
<1>5. \A r : (At(r)' <=> At(r)) /\ (Whole(r)' <=> Whole(r))
  BY <1>2, <1>3 DEF At, Whole
<1> QED
  BY <1>1, <1>2, <1>3, <1>4, <1>5

\* A step that moves no shard and no worker leaves what is known of them.
LEMMA StillStep ==
  ASSUME Control, UNCHANGED <<opts, search, results, wk, shard>>, stopped => stopped'
  PROVE  /\ Queued' /\ Taken' = Taken /\ Busy' = Busy /\ N' = N /\ Docs' = Docs /\ NumWorkers' = NumWorkers
         /\ \A w \in Workers : WorkerOK(w)'
         /\ (\A j \in DOMAIN results : ResultOK(results[j]))'
<1>1. /\ Taken' = Taken /\ Busy' = Busy /\ N' = N /\ Docs' = Docs /\ NumWorkers' = NumWorkers
  BY Same DEF Taken, Busy
<1>2. Queued'
  BY <1>1 DEF Queued, Control
<1>3. \A w \in Workers : WorkerOK(w)'
  BY <1>1, Same DEF Control, WorkerOK, ResultOK
<1>4. (\A j \in DOMAIN results : ResultOK(results[j]))'
  BY <1>1, Same DEF Control, ResultOK
<1> QED
  BY <1>1, <1>2, <1>3, <1>4

\* The records the search starts from are results.
LEMMA IdleType ==
  /\ IdleWorker \in Result /\ [IdleWorker EXCEPT !.st = "gone"] \in Result
  /\ NothingToSend \in [r : Result, max : Int, rest : SUBSET Nat]
<1>1. IdleWorker \in Result /\ [IdleWorker EXCEPT !.st = "gone"] \in Result
  BY DEF IdleWorker, Result, Stages
<1>2. NothingToSend \in [r : Result, max : Int, rest : SUBSET Nat]
  BY <1>1 DEF NothingToSend, Minus
<1> QED
  BY <1>1, <1>2

\* A search begins with every worker idle and every shard to come.
LEMMA ControlInit == Init => Control
<1> SUFFICES ASSUME Init PROVE Control
  OBVIOUS
<1>1. opts \in Options /\ N \in Nat /\ Len(search) = 0 /\ Len(results) = 0
  BY Given DEF Init
<1>2. wk \in [Workers -> Result] /\ Busy = {} /\ \A w \in Workers : WorkerOK(w)
  <2>1. wk = [w \in Workers |-> IF w <= NumWorkers THEN IdleWorker ELSE [IdleWorker EXCEPT !.st = "gone"]]
    BY DEF Init
  <2>2. \A w \in Workers : wk[w] \in Result /\ wk[w].st = (IF w <= NumWorkers THEN "idle" ELSE "gone")
    BY <2>1, IdleType DEF IdleWorker
  <2>3. wk \in [Workers -> Result] /\ Busy = {}
    BY <2>1, <2>2 DEF Busy
  <2>4. \A w \in Workers : w > NumWorkers <=> ~ (w <= NumWorkers)
    BY <1>1, Given DEF Workers
  <2>5. \A w \in Workers : WorkerOK(w)
    BY <2>2, <2>3, <2>4 DEF WorkerOK, At
  <2> QED
    BY <2>3, <2>5
<1>3. Typed
  <2>1. /\ pc = "acquire" /\ shard = 0 /\ stopped = FALSE /\ pending = <<>> /\ total = 0 /\ err = FALSE
        /\ todo = NothingToSend /\ search = <<>> /\ results = <<>> /\ closed = FALSE
        /\ flags = {} /\ used = 0 /\ looked = {} /\ outer = "live" /\ ctx = "live"
    BY DEF Init
  <2>2. shard \in 0..N /\ search \in Seq(Nat) /\ pending \in Seq(Nat) /\ results \in Seq(Result)
        /\ looked \in SUBSET (Nat \X Nat)
    BY <1>1, <2>1
  <2> QED
    BY <1>1, <1>2, <2>1, <2>2, IdleType DEF Typed
<1>4. Queued /\ Phases
  BY <1>1, <1>2 DEF Queued, Phases, Taken, Init
<1>5. \A j \in DOMAIN results : ResultOK(results[j])
  BY <1>1 DEF Init
<1> QED
  BY <1>2, <1>3, <1>4, <1>5 DEF Control

\* The search's own steps that move no shard.
LEMMA ControlStill ==
  ASSUME Control,
         \/ Acquire \/ Yield \/ SendNext \/ Finished \/ Return \/ FlushStream \/ ReturnAggregate
         \/ CloseResults \/ FlushTimer \/ ClientCancel \/ Deadline \/ UNCHANGED vars
  PROVE  Control'
<1>1. UNCHANGED <<opts, search, results, wk, shard, stopped, used, looked>>
  BY DEF Acquire, Yield, SendNext, Finished, Return, FlushStream, ReturnAggregate, CloseResults,
         FlushTimer, ClientCancel, Deadline, vars, main, chans
<1>2. /\ Queued' /\ Taken' = Taken /\ Busy' = Busy /\ N' = N /\ Docs' = Docs
      /\ \A w \in Workers : WorkerOK(w)'
      /\ (\A j \in DOMAIN results : ResultOK(results[j]))'
  BY <1>1, StillStep
<1>3. N \in Nat /\ Typed /\ Phases /\ shard \in Nat
  BY Given DEF Control, Typed
<1>4. MarkContext(ctx) \subseteq Flags /\ \A c, f : BudgetFinish(c, f) \subseteq Flags
  BY DEF MarkContext, BudgetFinish, Flags
<1>5. Typed'
  <2>1. flags' \subseteq Flags
    BY <1>3, <1>4 DEF Typed, Flags, Acquire, Yield, SendNext, Finished, Return, FlushStream, ReturnAggregate,
         CloseResults, FlushTimer, ClientCancel, Deadline, vars, main, chans
  <2>2. todo' \in [r : Result, max : Int, rest : SUBSET Nat] /\ total' = total /\ pending' = pending
    <3>1. CASE SendNext
      BY <1>3, <3>1, IdleType DEF Typed, SendNext
    <3>2. CASE ~SendNext
      BY <1>3, <3>2 DEF Typed, Acquire, Yield, Finished, Return, FlushStream, ReturnAggregate,
         CloseResults, FlushTimer, ClientCancel, Deadline, vars, main, chans
    <3> QED
      BY <3>1, <3>2 DEF SendNext
  <2>3. outer' \in {"live", "canceled"} /\ ctx' \in {"live", "canceled", "deadline"}
    BY <1>3 DEF Typed, Acquire, Yield, SendNext, Finished, Return, FlushStream, ReturnAggregate,
         CloseResults, FlushTimer, ClientCancel, Deadline, vars, main, chans, CancelOnLimit
  <2>4. /\ pc' \in {"acquire", "yield", "select", "send", "return", "flush", "done"}
        /\ err' \in BOOLEAN /\ closed' \in BOOLEAN
    BY <1>3 DEF Typed, Acquire, Yield, SendNext, Finished, Return, FlushStream, ReturnAggregate,
         CloseResults, FlushTimer, ClientCancel, Deadline, vars, main, chans
  <2> QED
    BY <1>1, <1>2, <1>3, <2>1, <2>2, <2>3, <2>4 DEF Typed
<1>6. Phases'
  <2>1. \A r : ResultOK(r)' <=> ResultOK(r)
    BY <1>1, <1>2, Same DEF ResultOK
  <2>2. CASE Acquire
    <3>1. /\ shard' = 0 /\ search = <<>> /\ results = <<>> /\ Busy = {} /\ todo' = NothingToSend
          /\ closed' = closed /\ wk' = wk
      BY <1>1, <1>3, <2>2 DEF Acquire, Phases, chans
    <3>2. \/ pc' = "flush" /\ N = 0
          \/ pc' = "yield" /\ N > 0
          \/ pc' = "done" /\ err' = TRUE
      <4>1. CASE outer = "live"
        <5>1. pc' = IF N = 0 THEN "flush" ELSE "yield"
          BY <2>2, <4>1 DEF Acquire
        <5> QED
          BY <1>3, <5>1
      <4>2. CASE outer # "live"
        BY <2>2, <4>2 DEF Acquire
      <4> QED
        BY <4>1, <4>2
    <3> QED
      BY <1>1, <1>2, <1>3, <2>1, <3>1, <3>2 DEF Phases
  <2>3. CASE Yield
    BY <1>1, <1>2, <1>3, <2>1, <2>3 DEF Yield, Phases, chans
  <2>4. CASE SendNext
    <3>1. CASE Run = todo.rest
      BY <1>1, <1>2, <1>3, <2>1, <2>4, <3>1 DEF SendNext, Phases, chans
    <3>2. CASE Run # todo.rest
      <4>1. todo' = [todo EXCEPT !.rest = @ \ Run] /\ pc' = "send"
        BY <2>4, <3>2 DEF SendNext
      <4>2. todo'.r = todo.r /\ todo'.rest \subseteq todo.rest
        BY <1>3, <4>1 DEF Typed
      <4> HIDE DEF NextEvent
      <4> QED
        BY <1>1, <1>2, <1>3, <2>1, <2>4, <4>1, <4>2 DEF SendNext, Phases, chans
    <3> QED
      BY <3>1, <3>2
  <2>5. CASE Finished
    <3>1. stopped /\ search = <<>> /\ results = <<>> /\ Busy = {}
      <4>1. N > 0 /\ results = <<>> /\ \A w \in Workers : wk[w].st = "gone"
        BY <1>3, <2>5 DEF Finished, Phases
      <4>2. 1 \in Workers /\ 1 <= NumWorkers
        BY <1>3, <4>1, Given DEF Typed
      <4>3. WorkerOK(1)
        BY <4>2 DEF Control
      <4> QED
        BY <4>1, <4>2, <4>3 DEF WorkerOK, Busy
    <3> QED
      BY <1>1, <1>2, <1>3, <2>1, <2>5, <3>1 DEF Finished, Phases, chans
  <2>6. CASE Return
    BY <1>1, <1>2, <1>3, <2>1, <2>6 DEF Return, Phases, chans
  <2>7. CASE FlushStream \/ ReturnAggregate
    <3>1. /\ pc = "flush" /\ pc' = "done" /\ UNCHANGED <<stopped, err, todo, search, results, wk, closed>>
      BY <2>7 DEF FlushStream, ReturnAggregate, chans
    <3> QED
      BY <1>1, <1>2, <1>3, <2>1, <3>1 DEF Phases
  <2>8. CASE CloseResults
    BY <1>1, <1>2, <1>3, <2>1, <2>8 DEF CloseResults, Phases, main
  <2>9. CASE FlushTimer \/ ClientCancel \/ Deadline \/ UNCHANGED vars
    <3>1. UNCHANGED <<main, chans, wk>>
      BY <2>9 DEF FlushTimer, ClientCancel, Deadline, vars, main, chans
    <3> QED
      BY <1>1, <1>2, <1>3, <2>1, <3>1 DEF Phases, main, chans
  <2> QED
    BY <2>2, <2>3, <2>4, <2>5, <2>6, <2>7, <2>8, <2>9
<1> QED
  BY <1>2, <1>5, <1>6 DEF Control

\* Dispatch puts the next shard at the end of the channel.
LEMMA ControlDispatch == Control /\ Dispatch => Control'
<1> SUFFICES ASSUME Control, Dispatch PROVE Control'
  OBVIOUS
<1>1. /\ opts \in Options /\ N \in Nat /\ shard \in 0..N /\ Len(search) \in Nat
      /\ search \in Seq(Nat) /\ N > 0 /\ shard < N /\ ~stopped
  BY Given, LenProperties DEF Control, Typed, Phases, Dispatch
<1>2. /\ N' = N /\ Docs' = Docs /\ NumWorkers' = NumWorkers /\ Busy' = Busy
      /\ UNCHANGED <<opts, results, closed, wk, total, err, todo, flags, used, looked, outer, ctx>>
  BY Same DEF Dispatch, Busy
<1>3. /\ shard' = shard + 1 /\ search' = Append(search, shard + 1) /\ pc = "select" /\ pc' = "yield"
      /\ stopped' = (shard' = N) /\ pending' = Append(pending, Priority(shard + 1))
  BY DEF Dispatch
<1>4. /\ search' \in Seq(Nat) /\ Len(search') = Len(search) + 1
      /\ \A i \in 1..Len(search) : search'[i] = search[i]
      /\ search'[Len(search) + 1] = shard + 1
  BY <1>1, <1>3, AppendProperties
<1>5. Taken' = Taken /\ Taken \in Int
  BY <1>1, <1>3, <1>4 DEF Taken
<1>6. \A r : ResultOK(r)' <=> ResultOK(r)
  BY <1>2, <1>5, Same DEF ResultOK
<1>7. Queued'
  <2>1. Taken >= 0 /\ \A i \in 1..Len(search) : search[i] = Taken + i
    BY <1>1, LenProperties DEF Control, Queued
  <2>2. DOMAIN search' = 1..Len(search) + 1
    BY <1>4, LenProperties
  <2>3. ASSUME NEW i \in 1..Len(search) + 1 PROVE search'[i] = Taken + i
    <3>1. CASE i = Len(search) + 1
      BY <1>1, <1>4, <3>1 DEF Taken
    <3>2. CASE i \in 1..Len(search)
      BY <1>4, <2>1, <3>2
    <3> QED
      BY <1>1, <3>1, <3>2
  <2> QED
    BY <1>5, <2>1, <2>2, <2>3 DEF Queued
<1>8. Typed'
  <2>1. Priority(shard + 1) \in Nat
    <3>1. shard + 1 \in 1..N
      BY <1>1
    <3> QED
      BY <1>1, <3>1, Given
  <2>2. pending' \in Seq(Nat)
    BY <1>3, <2>1, AppendProperties DEF Control, Typed
  <2>3. shard' \in 0..N /\ stopped' \in BOOLEAN
    BY <1>1, <1>3
  <2> QED
    BY <1>2, <1>3, <1>4, <2>2, <2>3 DEF Control, Typed
<1>9. Phases'
  <2>1. todo' = NothingToSend /\ (closed' => \A w \in Workers : wk'[w].st = "gone")
    BY <1>2, <1>3 DEF Control, Phases
  <2>2. stopped' \/ shard' < N
    <3>1. CASE shard' = N
      BY <1>3, <3>1
    <3>2. CASE shard' # N
      BY <1>1, <1>3, <3>2
    <3> QED
      BY <3>1, <3>2
  <2> QED
    BY <1>1, <1>2, <1>3, <2>1, <2>2 DEF Phases
<1>10. \A w \in Workers : WorkerOK(w)'
  BY <1>1, <1>2, <1>6, Same DEF Control, WorkerOK
<1>11. (\A j \in DOMAIN results : ResultOK(results[j]))'
  BY <1>2, <1>6 DEF Control
<1> QED
  BY <1>7, <1>8, <1>9, <1>10, <1>11 DEF Control

\* Consume takes the first result from the channel.
LEMMA ControlConsume == Control /\ Consume => Control'
<1> SUFFICES ASSUME Control, Consume PROVE Control'
  OBVIOUS
<1> DEFINE r == Head(results)
<1>1. /\ opts \in Options /\ N \in Nat /\ shard \in 0..N /\ results \in Seq(Result) /\ results # <<>>
      /\ pc = "select" /\ results' = Tail(results)
      /\ UNCHANGED <<shard, search, closed, wk, used, looked, outer, ctx, opts>>
  BY Given DEF Control, Typed, Consume
<1>2. /\ r = results[1] /\ 1 \in DOMAIN results /\ r \in Result
      /\ results' \in Seq(Result) /\ DOMAIN results' = 1..Len(results) - 1
      /\ \A i \in 1..Len(results) - 1 : results'[i] = results[i + 1] /\ i + 1 \in DOMAIN results
  BY <1>1, HeadTailProperties, LenProperties, EmptySeq
<1>3. /\ N' = N /\ Docs' = Docs /\ NumWorkers' = NumWorkers /\ Busy' = Busy /\ Taken' = Taken
  BY <1>1, Same DEF Busy, Taken
<1>4. \A x : ResultOK(x)' <=> ResultOK(x)
  BY <1>1, <1>3, Same DEF ResultOK
<1>5. pending' \in Seq(Nat) /\ MaxPending(pending') \in Int
  <2>1. pending' = RemovePri(pending, Priority(r.s)) /\ pending \in Seq(Nat)
    BY DEF Consume, Control, Typed
  <2> QED
    BY <2>1, PendingType
<1> HIDE DEF r
<1>6. \/ stopped' = TRUE /\ err' = TRUE /\ pc' = "yield" /\ UNCHANGED <<total, flags, todo>>
      \/ /\ total' = total + r.matches /\ flags' \subseteq flags \cup {"MatchLimit"}
         /\ stopped' \in BOOLEAN /\ (stopped => stopped') /\ err' = err /\ pc' = "send"
         /\ todo' = Split(r, MaxPending(pending'))
  BY DEF Consume, r, Control, Typed
<1>7. Typed'
  <2>1. r.matches \in Nat /\ r.found \in SUBSET Nat
    BY <1>2 DEF Result
  <2>2. Split(r, MaxPending(pending')) \in [r : Result, max : Int, rest : SUBSET Nat]
    BY <1>2, <1>5, <2>1 DEF Split
  <2>3. todo' \in [r : Result, max : Int, rest : SUBSET Nat]
    BY <1>6, <2>2 DEF Control, Typed
  <2>4. /\ stopped' \in BOOLEAN /\ err' \in BOOLEAN /\ flags' \subseteq Flags
        /\ pc' \in {"acquire", "yield", "select", "send", "return", "flush", "done"}
    BY <1>6 DEF Control, Typed, Flags
  <2>5. total' \in Nat
    BY <1>6, <2>1 DEF Control, Typed
  <2> QED
    BY <1>1, <1>2, <1>3, <1>5, <2>3, <2>4, <2>5 DEF Control, Typed
<1>8. Phases'
  <2>1. ResultOK(r)
    BY <1>2 DEF Control
  <2>2. pc' = "send" => todo'.r = r /\ todo'.rest = r.found
    BY <1>6 DEF Split
  <2>3. pc' # "send" => todo' = NothingToSend
    BY <1>1, <1>6 DEF Control, Phases
  <2>4. pc' \in {"yield", "send"} /\ N > 0 /\ (stopped' \/ shard < N)
    BY <1>1, <1>6 DEF Control, Phases
  <2> QED
    BY <1>1, <1>3, <1>4, <2>1, <2>2, <2>3, <2>4 DEF Control, Phases
<1>9. Queued'
  BY <1>1, <1>3 DEF Control, Queued
<1>10. stopped => stopped'
  BY <1>6
<1>11. \A w \in Workers : WorkerOK(w)'
  BY <1>1, <1>3, <1>4, <1>10, Same DEF Control, WorkerOK
<1>12. (\A j \in DOMAIN results : ResultOK(results[j]))'
  BY <1>2, <1>4 DEF Control
<1> QED
  BY <1>7, <1>8, <1>9, <1>11, <1>12 DEF Control

\* A worker takes the first shard from the channel.
LEMMA ControlReceive == \A w \in Workers : Control /\ Receive(w) => Control'
<1> SUFFICES ASSUME NEW w \in Workers, Control, Receive(w) PROVE Control'
  OBVIOUS
<1>1. /\ opts \in Options /\ N \in Nat /\ shard \in 0..N /\ search \in Seq(Nat) /\ search # <<>>
      /\ search' = Tail(search) /\ wk[w].st = "idle"
      /\ UNCHANGED <<main, results, closed, flags, used, looked, outer, ctx, opts>>
  BY Given DEF Control, Typed, Receive
<1>2. /\ Head(search) = search[1] /\ search' \in Seq(Nat) /\ Len(search') = Len(search) - 1
      /\ Len(search) \in Nat /\ Len(search) > 0
      /\ \A i \in 1..Len(search) - 1 : search'[i] = search[i + 1]
      /\ DOMAIN search = 1..Len(search) /\ DOMAIN search' = 1..Len(search) - 1
  BY <1>1, HeadTailProperties, LenProperties, EmptySeq
<1>3. N' = N /\ Docs' = Docs /\ NumWorkers' = NumWorkers /\ (\A s : Matching(s)' = Matching(s))
      /\ (\A r : At(r)' <=> At(r))
  BY <1>1, Same
<1>4. Taken' = Taken + 1 /\ Taken \in Nat /\ Taken + 1 <= N /\ search[1] = Taken + 1
  BY <1>1, <1>2 DEF Taken, Control, Queued, main
<1>5. PICK x \in Result : wk' = [wk EXCEPT ![w] = x] /\ x.st = "open" /\ x.s = Taken + 1 /\ x.found = {}
  <2> DEFINE y == [IdleWorker EXCEPT !.st = "open", !.s = Head(search)]
  <2>1. Head(search) \in Nat /\ Head(search) = Taken + 1 /\ "open" \in Stages
    BY <1>2, <1>4 DEF Stages
  <2>2. y \in Result
    BY <2>1, IdleType DEF Result
  <2>3. y.st = "open" /\ y.s = Taken + 1 /\ y.found = {}
    BY <2>1 DEF IdleWorker
  <2>4. wk' = [wk EXCEPT ![w] = y]
    BY DEF Receive
  <2> HIDE DEF y
  <2> QED
    BY <2>2, <2>3, <2>4
<1>6. \A r \in Result : ResultOK(r) => ResultOK(r)'
  BY <1>3, <1>4 DEF ResultOK
<1>7. ResultOK(x)'
  <2>1. x.s \in 1..Taken' /\ x.s \in 1..N
    BY <1>4, <1>5, Given, <1>1
  <2> QED
    BY <1>3, <1>5, <2>1 DEF ResultOK
<1>8. Queued'
  <2>1. ASSUME NEW i \in DOMAIN search' PROVE search'[i] = Taken' + i
    <3>1. i \in 1..Len(search) - 1 /\ i + 1 \in DOMAIN search
      BY <1>2
    <3>2. search'[i] = search[i + 1] /\ search[i + 1] = Taken + (i + 1)
      BY <1>2, <3>1 DEF Control, Queued
    <3> QED
      BY <1>4, <3>1, <3>2
  <2> QED
    BY <1>4, <2>1 DEF Queued
<1>9. wk' \in [Workers -> Result] /\ wk'[w] = x /\ \A v \in Workers \ {w} : wk'[v] = wk[v]
  BY <1>5 DEF Control, Typed
<1>10. Typed'
  BY <1>1, <1>2, <1>3, <1>9 DEF Control, Typed, main
<1>11. pc \notin {"acquire", "return", "flush", "done"} /\ (closed => wk[w].st = "gone")
  BY <1>1 DEF Control, Phases
<1>12. pc = "send" => ResultOK(todo.r)'
  <2>1. todo' = todo /\ todo.r \in Result
    BY <1>1 DEF Control, Typed, main
  <2>2. pc = "send" => ResultOK(todo.r)
    BY DEF Control, Phases
  <2> QED
    BY <1>3, <1>4, <2>1, <2>2 DEF ResultOK
<1>13. Phases'
  BY <1>1, <1>3, <1>11, <1>12 DEF Control, Phases, main
<1>14. ASSUME NEW v \in Workers PROVE WorkerOK(v)'
  <2>1. CASE v = w
    <3>1. w \in Nat /\ NumWorkers \in Nat /\ ~ (w > NumWorkers)
      BY <1>1, Given DEF Control, WorkerOK, Workers
    <3>2. wk'[w] = x
      BY <1>9
    <3> QED
      BY <1>3, <1>5, <1>7, <2>1, <3>1, <3>2 DEF WorkerOK, At
  <2>2. CASE v # w
    <3>1. wk'[v] = wk[v] /\ wk[v] \in Result /\ (v \in Busy' <=> v \in Busy)
      BY <1>9, <2>2 DEF Busy, Control, Typed
    <3>2. wk[v].st = "gone" /\ v <= NumWorkers => FALSE
      BY <1>1 DEF Control, WorkerOK
    <3> QED
      BY <1>3, <1>6, <3>1, <3>2 DEF Control, WorkerOK
  <2> QED
    BY <2>1, <2>2
<1>15. (\A j \in DOMAIN results : ResultOK(results[j]))'
  <2> SUFFICES ASSUME NEW j \in DOMAIN results PROVE ResultOK(results[j])'
    BY <1>1
  <2>1. results[j] \in Result /\ ResultOK(results[j])
    BY LenProperties DEF Control, Typed
  <2> QED
    BY <1>1, <1>3, <1>4, <2>1 DEF ResultOK
<1> QED
  BY <1>8, <1>10, <1>13, <1>14, <1>15 DEF Control

\* A worker that goes on with its shard, hands its result over or goes away disturbs no other.
LEMMA ControlWorker ==
  ASSUME Control, NEW w \in Workers, NEW x \in Result, wk' = [wk EXCEPT ![w] = x],
         wk[w].st # "gone", UNCHANGED <<main, search, closed, outer, ctx, opts>>, looked' \in SUBSET (Nat \X Nat),
         x.st \notin {"idle", "gone"} => w \in Busy /\ x.s = wk[w].s /\ ResultOK(x),
         x.st = "gone" => stopped /\ search = <<>>,
         At(x),
         results' \in Seq(Result), flags' \subseteq Flags, used' \in Nat,
         \A j \in DOMAIN results' : ResultOK(results'[j]),
         pc \in {"acquire", "return", "flush", "done"} => results' = <<>>
  PROVE  Control' /\ Taken' = Taken /\ N' = N /\ Docs' = Docs /\ Busy' \subseteq Busy
<1>1. wk' \in [Workers -> Result] /\ wk'[w] = x /\ \A v \in Workers \ {w} : wk'[v] = wk[v]
  BY DEF Control, Typed
<1>2. /\ N' = N /\ Docs' = Docs /\ NumWorkers' = NumWorkers /\ Taken' = Taken
  BY Same DEF Taken, main
<1>3. Busy' \subseteq Busy
  <2> SUFFICES ASSUME NEW v \in Busy' PROVE v \in Busy
    OBVIOUS
  <2>1. CASE v = w
    BY <1>1, <2>1 DEF Busy
  <2>2. CASE v # w
    BY <1>1, <2>2 DEF Busy
  <2> QED
    BY <2>1, <2>2
<1>4. \A r : (ResultOK(r)' <=> ResultOK(r)) /\ (At(r)' <=> At(r))
  BY <1>2, Same DEF ResultOK
<1>5. Typed'
  BY <1>1, <1>2 DEF Control, Typed, main
<1>6. Queued'
  BY <1>2 DEF Control, Queued
<1>7. Phases'
  <2>1. ~closed
    BY DEF Control, Phases
  <2> QED
    BY <1>2, <1>3, <1>4, <2>1 DEF Control, Phases, main
<1>8. ASSUME NEW v \in Workers PROVE WorkerOK(v)'
  <2>1. CASE v = w
    <3>1. ~ (w > NumWorkers)
      BY DEF Control, WorkerOK
    <3>2. w \in Busy' => ResultOK(x)
      BY <1>1 DEF Busy
    <3>3. stopped' = stopped /\ search' = search
      BY DEF main
    <3> QED
      BY <1>1, <1>2, <1>4, <2>1, <3>1, <3>2, <3>3 DEF WorkerOK
  <2>2. CASE v # w
    <3>1. wk'[v] = wk[v] /\ (v \in Busy' => v \in Busy)
      BY <1>1, <1>3, <2>2
    <3> QED
      BY <1>2, <1>4, <3>1 DEF Control, WorkerOK, main
  <2> QED
    BY <2>1, <2>2
<1>9. (\A j \in DOMAIN results : ResultOK(results[j]))'
  BY <1>4
<1> QED
  BY <1>2, <1>3, <1>5, <1>6, <1>7, <1>8, <1>9 DEF Control

\* The workers' other steps.
LEMMA ControlLocal ==
  \A w \in Workers : Control /\ (Local(w) \/ Exit(w) \/ Deliver(w)) =>
    Control' /\ Taken' = Taken /\ N' = N /\ Docs' = Docs /\ Busy' \subseteq Busy
<1> SUFFICES ASSUME NEW w \in Workers, Control, Local(w) \/ Exit(w) \/ Deliver(w)
             PROVE  Control' /\ Taken' = Taken /\ N' = N /\ Docs' = Docs /\ Busy' \subseteq Busy
  OBVIOUS
<1>1. /\ wk[w] \in Result /\ results \in Seq(Result) /\ used \in Nat /\ flags \subseteq Flags
      /\ looked \in SUBSET (Nat \X Nat)
      /\ \A j \in DOMAIN results : ResultOK(results[j])
      /\ pc \in {"acquire", "return", "flush", "done"} => results = <<>> /\ Busy = {}
  BY DEF Control, Typed, Phases
<1>2. CASE Local(w)
  <2>1. PICK x \in Result : LocalTo(w, x)
    BY <1>2, LocalStep
  <2>2. w \in Busy /\ x.st \notin {"idle", "gone", "open"}
    BY <2>1 DEF LocalTo, Busy
  <2>3. used' \in Nat /\ results' = results /\ UNCHANGED <<main, search, closed, outer, ctx, opts>>
        /\ looked' \in SUBSET (Nat \X Nat)
    BY <1>1, <2>1 DEF LocalTo, chans
  <2>4. /\ wk' = [wk EXCEPT ![w] = x] /\ wk[w].st # "gone" /\ flags' \subseteq Flags
        /\ x.s = wk[w].s /\ ResultOK(x) /\ At(x)
    BY <2>1 DEF LocalTo
  <2> QED
    BY <1>1, <2>2, <2>3, <2>4, ControlWorker
<1>3. CASE Exit(w)
  <2>1. PICK x \in Result : wk' = [wk EXCEPT ![w] = x] /\ x.st = "gone"
    <3> DEFINE y == [wk[w] EXCEPT !.st = "gone"]
    <3>1. y \in Result /\ y.st = "gone" /\ wk' = [wk EXCEPT ![w] = y]
      BY <1>1, <1>3 DEF Exit, Result, Stages
    <3> HIDE DEF y
    <3> QED
      BY <3>1
  <2>2. /\ stopped /\ search = <<>> /\ wk[w].st = "idle"
        /\ UNCHANGED <<main, search, closed, outer, ctx, opts, results, used, looked, flags>>
    BY <1>3 DEF Exit, chans
  <2>3. At(x)
    BY <2>1 DEF At
  <2> QED
    BY <1>1, <2>1, <2>2, <2>3, ControlWorker
<1>4. CASE Deliver(w)
  <2>1. /\ wk' = [wk EXCEPT ![w] = IdleWorker] /\ IdleWorker \in Result /\ IdleWorker.st = "idle"
        /\ wk[w].st = "found" /\ results' = Append(results, wk[w])
        /\ UNCHANGED <<main, search, closed, outer, ctx, opts, flags, used, looked>> /\ At(IdleWorker)
    BY <1>4, IdleType DEF Deliver, IdleWorker, At
  <2>2. w \in Busy /\ ResultOK(wk[w])
    BY <2>1 DEF Busy, Control, WorkerOK
  <2>3. results' \in Seq(Result) /\ \A j \in DOMAIN results' : ResultOK(results'[j])
    <3>1. /\ results' \in Seq(Result) /\ Len(results') = Len(results) + 1 /\ Len(results) \in Nat
          /\ DOMAIN results' = 1..Len(results) + 1 /\ DOMAIN results = 1..Len(results)
          /\ results'[Len(results) + 1] = wk[w] /\ \A i \in 1..Len(results) : results'[i] = results[i]
      BY <1>1, <2>1, AppendProperties, LenProperties
    <3>2. \A j \in 1..Len(results) + 1 : j = Len(results) + 1 \/ j \in 1..Len(results)
      BY <3>1
    <3> QED
      BY <1>1, <2>2, <3>1, <3>2
  <2>4. pc \notin {"acquire", "return", "flush", "done"}
    BY <1>1, <2>2
  <2> HIDE DEF IdleWorker
  <2> QED
    BY <1>1, <2>1, <2>3, <2>4, ControlWorker
<1> QED
  BY <1>2, <1>3, <1>4

\* Every step keeps control.
LEMMA ControlStep == Control /\ [Next]_vars => Control'
<1> SUFFICES ASSUME Control, [Next]_vars PROVE Control'
  OBVIOUS
<1>1. ASSUME NEW w \in Workers, Worker(w) PROVE Control'
  BY <1>1, ControlReceive, ControlLocal DEF Worker, Local
<1>2. CASE Search
  BY <1>2, ControlStill, ControlDispatch, ControlConsume DEF Search
<1>3. CASE CloseResults \/ FlushTimer \/ ClientCancel \/ Deadline \/ Terminated \/ UNCHANGED vars
  BY <1>3, ControlStill DEF Terminated
<1> QED
  BY <1>1, <1>2, <1>3 DEF Next

-----------------------------------------------------------------------------
(* Every shard is in one place.                                            *)

\* What a worker's receive does: it holds the next shard and nothing else.
LEMMA ReceiveTakes ==
  ASSUME Control, NEW w \in Workers, Receive(w)
  PROVE  \E x \in Result :
           /\ wk[w].st = "idle" /\ wk' = [wk EXCEPT ![w] = x] /\ wk'[w] = x
           /\ \A v \in Workers \ {w} : wk'[v] = wk[v]
           /\ Busy' = Busy \cup {w} /\ w \notin Busy
           /\ x.st = "open" /\ x.s = Taken + 1 /\ x.found = {} /\ x.crash = 0 /\ x.matches = 0
           /\ Taken \in Nat /\ Taken' = Taken + 1 /\ Taken' <= shard /\ N' = N /\ Docs' = Docs
           /\ UNCHANGED <<main, results, closed, flags, used, looked, outer, ctx, opts, sink>>
<1>1. /\ opts \in Options /\ N \in Nat /\ shard \in 0..N /\ search \in Seq(Nat) /\ search # <<>>
      /\ search' = Tail(search) /\ wk[w].st = "idle" /\ wk \in [Workers -> Result]
      /\ UNCHANGED <<main, results, closed, flags, used, looked, outer, ctx, opts, sink>>
  BY Given DEF Control, Typed, Receive
<1>2. /\ Head(search) = search[1] /\ Len(search') = Len(search) - 1 /\ 1 \in DOMAIN search
      /\ Len(search) \in Nat /\ Len(search) > 0
  BY <1>1, HeadTailProperties, LenProperties, EmptySeq
<1>3. N' = N /\ Docs' = Docs
  BY <1>1, Same
<1>4. Taken' = Taken + 1 /\ Taken \in Nat /\ Taken' <= shard /\ search[1] = Taken + 1
  BY <1>1, <1>2 DEF Taken, Control, Queued, main
<1> DEFINE y == [IdleWorker EXCEPT !.st = "open", !.s = Head(search)]
<1>5. y \in Result /\ y.st = "open" /\ y.s = Taken + 1 /\ y.found = {} /\ y.crash = 0 /\ y.matches = 0
  <2>1. Head(search) \in Nat /\ Head(search) = Taken + 1 /\ "open" \in Stages
    BY <1>2, <1>4 DEF Stages
  <2>2. y \in Result
    BY <2>1, IdleType DEF Result
  <2>3. y.st = "open" /\ y.s = Taken + 1 /\ y.found = {} /\ y.crash = 0 /\ y.matches = 0
    BY <2>1 DEF IdleWorker
  <2> QED
    BY <2>2, <2>3
<1>6. wk' = [wk EXCEPT ![w] = y]
  BY DEF Receive
<1> HIDE DEF y
<1>7. wk'[w] = y /\ \A v \in Workers \ {w} : wk'[v] = wk[v]
  BY <1>1, <1>6
<1>8. w \notin Busy
  BY <1>1 DEF Busy
<1>9. Busy' = Busy \cup {w}
  BY <1>5, <1>7 DEF Busy
<1> QED
  BY <1>1, <1>3, <1>4, <1>5, <1>6, <1>7, <1>8, <1>9

\* What a worker's delivery does: its result is the last in the channel.
LEMMA DeliverMoves ==
  ASSUME Control, NEW w \in Workers, Deliver(w)
  PROVE  /\ wk[w].st = "found" /\ wk[w] \in Result /\ w \in Busy /\ Busy' = Busy \ {w}
         /\ \A v \in Workers \ {w} : wk'[v] = wk[v]
         /\ DOMAIN results = 1..Len(results) /\ Len(results) \in Nat
         /\ DOMAIN results' = 1..Len(results) + 1 /\ results'[Len(results) + 1] = wk[w]
         /\ \A j \in 1..Len(results) : results'[j] = results[j]
         /\ \A j \in DOMAIN results' : j = Len(results) + 1 \/ j \in DOMAIN results
         /\ Taken' = Taken /\ N' = N /\ Docs' = Docs
         /\ UNCHANGED <<main, search, closed, flags, used, looked, outer, ctx, opts, sink>>
<1>1. /\ wk' = [wk EXCEPT ![w] = IdleWorker] /\ IdleWorker \in Result /\ IdleWorker.st = "idle"
      /\ wk[w].st = "found" /\ results' = Append(results, wk[w]) /\ wk \in [Workers -> Result]
      /\ results \in Seq(Result)
      /\ UNCHANGED <<main, search, closed, flags, used, looked, outer, ctx, opts, sink>>
  BY IdleType DEF Deliver, IdleWorker, Control, Typed
<1>2. /\ results' \in Seq(Result) /\ Len(results') = Len(results) + 1 /\ Len(results) \in Nat
      /\ DOMAIN results' = 1..Len(results) + 1 /\ DOMAIN results = 1..Len(results)
      /\ results'[Len(results) + 1] = wk[w] /\ \A i \in 1..Len(results) : results'[i] = results[i]
  BY <1>1, AppendProperties, LenProperties
<1>3. \A j \in DOMAIN results' : j = Len(results) + 1 \/ j \in DOMAIN results
  BY <1>2
<1>4. Taken' = Taken /\ N' = N /\ Docs' = Docs
  BY <1>1, Same DEF Taken, main
<1> HIDE DEF IdleWorker
<1>5. wk'[w] = IdleWorker /\ \A v \in Workers \ {w} : wk'[v] = wk[v]
  BY <1>1
<1>6. w \in Busy /\ Busy' = Busy \ {w}
  BY <1>1, <1>5 DEF Busy
<1> QED
  BY <1>1, <1>2, <1>3, <1>4, <1>5, <1>6

\* What the search does with the first result in the channel: give up or send it.
LEMMA ConsumeTakes ==
  ASSUME Control, Consume
  PROVE  \E r \in Result :
           /\ r = results[1] /\ 1 \in DOMAIN results /\ ResultOK(r) /\ results' = Tail(results)
           /\ DOMAIN results = 1..Len(results) /\ Len(results) \in Nat /\ DOMAIN results' = 1..Len(results) - 1
           /\ \A j \in DOMAIN results' : results'[j] = results[j + 1] /\ j + 1 \in DOMAIN results
           /\ \/ r.err /\ stopped' = TRUE /\ err' = TRUE /\ pc' = "yield" /\ UNCHANGED <<total, flags, todo>>
              \/ /\ ~r.err /\ err' = err /\ pc' = "send"
                 /\ todo'.r = r /\ todo'.rest = r.found
                 /\ flags' = flags \/ (flags' = flags \cup {"MatchLimit"} /\ shard < N)
                 /\ stopped' => \/ stopped \/ "ResponseLimit" \in flags' \/ shard >= N
                                \/ "MatchLimit" \in flags'
                 /\ stopped => stopped'
                 /\ flags' # flags => stopped'
           /\ Taken' = Taken /\ N' = N /\ Docs' = Docs /\ Busy' = Busy /\ pc = "select" /\ todo = NothingToSend
           /\ UNCHANGED <<shard, search, closed, wk, used, looked, outer, ctx, opts, sink>>
<1> DEFINE r == Head(results)
           over == TotalMax > 0 /\ total + r.matches > TotalMax
<1>1. /\ N \in Nat /\ shard \in 0..N /\ results \in Seq(Result) /\ results # <<>>
      /\ pc = "select" /\ results' = Tail(results) /\ todo = NothingToSend
      /\ UNCHANGED <<shard, search, closed, wk, used, looked, outer, ctx, opts, sink>>
  BY Given DEF Control, Typed, Phases, Consume
<1>2. /\ r = results[1] /\ 1 \in DOMAIN results /\ r \in Result
      /\ DOMAIN results = 1..Len(results) /\ Len(results) \in Nat /\ DOMAIN results' = 1..Len(results) - 1
      /\ \A i \in 1..Len(results) - 1 : results'[i] = results[i + 1] /\ i + 1 \in DOMAIN results
  BY <1>1, HeadTailProperties, LenProperties, EmptySeq
<1>3. Taken' = Taken /\ N' = N /\ Docs' = Docs /\ Busy' = Busy
  BY <1>1, Same DEF Busy, Taken
<1>4. ResultOK(r)
  BY <1>2 DEF Control
<1>5. \/ r.err /\ stopped' = TRUE /\ err' = TRUE /\ pc' = "yield" /\ UNCHANGED <<total, flags, todo>>
      \/ /\ ~r.err /\ err' = err /\ pc' = "send" /\ todo' = Split(r, MaxPending(pending'))
         /\ flags' = IF over /\ shard < N THEN flags \cup {"MatchLimit"} ELSE flags
         /\ stopped' = (stopped \/ over \/ "ResponseLimit" \in flags')
  BY DEF Consume
<1>6. ASSUME todo' = Split(r, MaxPending(pending')) PROVE todo'.r = r /\ todo'.rest = r.found
  BY <1>6 DEF Split
<1> HIDE DEF r, over
<1>7. ASSUME flags' = IF over /\ shard < N THEN flags \cup {"MatchLimit"} ELSE flags,
             stopped' = (stopped \/ over \/ "ResponseLimit" \in flags')
      PROVE  /\ flags' = flags \/ (flags' = flags \cup {"MatchLimit"} /\ shard < N)
             /\ stopped' => stopped \/ "ResponseLimit" \in flags' \/ shard >= N \/ "MatchLimit" \in flags'
             /\ stopped => stopped'
             /\ flags' # flags => stopped'
  <2>1. CASE over /\ shard < N
    BY <1>7, <2>1
  <2>2. CASE ~ (over /\ shard < N)
    <3>1. shard < N \/ shard >= N
      BY <1>1
    <3>2. flags' = flags
      BY <1>7, <2>2
    <3> QED
      BY <1>7, <2>2, <3>1, <3>2, Zenon
  <2> QED
    BY <2>1, <2>2
<1> QED
  BY <1>1, <1>2, <1>3, <1>4, <1>5, <1>6, <1>7

\* The search's own steps keep the workers and the results, and what is to be sent shrinks.
LEMMA StepsOfSearch ==
  ASSUME Control,
         \/ Acquire \/ Yield \/ SendNext \/ Finished \/ Return \/ FlushStream \/ ReturnAggregate \/ Dispatch
         \/ CloseResults \/ FlushTimer \/ ClientCancel \/ Deadline \/ UNCHANGED vars
  PROVE  /\ UNCHANGED <<opts, results, wk, used, looked>> /\ Taken' = Taken /\ N' = N /\ Docs' = Docs /\ Busy' = Busy
         /\ pc' = "send" => pc = "send" /\ todo'.r = todo.r
         /\ todo'.rest \subseteq todo.rest /\ (todo'.r = todo.r \/ todo' = NothingToSend)
<1>1. UNCHANGED <<opts, results, wk, used, looked>>
  BY DEF Acquire, Yield, SendNext, Finished, Return, FlushStream, ReturnAggregate, CloseResults, Dispatch,
         FlushTimer, ClientCancel, Deadline, vars, main, chans
<1>2. N' = N /\ Docs' = Docs /\ Busy' = Busy
  BY <1>1, Same DEF Busy
<1>3. Taken' = Taken
  <2>1. CASE Dispatch
    <3>1. /\ shard' = shard + 1 /\ search' = Append(search, shard + 1) /\ search \in Seq(Nat) /\ shard \in Nat
      BY <2>1, Given DEF Dispatch, Control, Typed
    <3>2. Len(search') = Len(search) + 1 /\ Len(search) \in Nat
      BY <3>1, AppendProperties, LenProperties
    <3> QED
      BY <3>1, <3>2 DEF Taken
  <2>2. CASE ~Dispatch
    BY <2>2 DEF Acquire, Yield, SendNext, Finished, Return, FlushStream, ReturnAggregate, CloseResults,
         FlushTimer, ClientCancel, Deadline, vars, main, chans, Taken
  <2> QED
    BY <2>1, <2>2
<1>4. CASE SendNext
  <2>1. todo \in [r : Result, max : Int, rest : SUBSET Nat] /\ pc = "send"
    BY <1>4 DEF Control, Typed, SendNext
  <2>2. CASE Run = todo.rest
    <3>1. todo' = NothingToSend /\ pc' = "yield" /\ todo'.rest = {}
      BY <1>4, <2>2 DEF SendNext, NothingToSend
    <3> QED
      BY <1>1, <1>2, <1>3, <3>1
  <2>3. CASE Run # todo.rest
    <3>1. todo' = [todo EXCEPT !.rest = @ \ Run]
      BY <1>4, <2>3 DEF SendNext
    <3>2. todo'.r = todo.r /\ todo'.rest \subseteq todo.rest
      BY <2>1, <3>1
    <3> QED
      BY <1>1, <1>2, <1>3, <2>1, <3>2
  <2> QED
    BY <2>2, <2>3
<1>5. CASE ~SendNext
  <2>1. todo' = todo /\ (pc' = "send" => pc = "send")
    BY <1>5 DEF Acquire, Yield, Dispatch, Finished, Return, FlushStream, ReturnAggregate, CloseResults,
         FlushTimer, ClientCancel, Deadline, vars, main, chans
  <2> QED
    BY <1>1, <1>2, <1>3, <2>1
<1> QED
  BY <1>4, <1>5

\* A worker that goes on with its shard, or goes away, moves no shard.
LEMMA LocalStays ==
  ASSUME Control, NEW w \in Workers, Local(w) \/ Exit(w)
  PROVE  /\ UNCHANGED <<pc, todo, results, shard, stopped, err, search, ctx, outer, opts, sink>>
         /\ Busy' = Busy /\ \A v \in Busy : v \in Workers /\ wk'[v].s = wk[v].s
         /\ Taken' = Taken /\ N' = N /\ Docs' = Docs
         /\ \A v \in Workers \ {w} : wk'[v] = wk[v]
<1>1. Busy' \subseteq Busy /\ Busy \subseteq Workers /\ Taken' = Taken /\ N' = N /\ Docs' = Docs
  BY ControlLocal DEF Busy
<1>2. CASE Local(w)
  <2>1. PICK x \in Result : LocalTo(w, x)
    BY <1>2, LocalStep
  <2>2. wk' = [wk EXCEPT ![w] = x] /\ x.s = wk[w].s /\ wk \in [Workers -> Result]
    BY <2>1 DEF LocalTo, Control, Typed
  <2>3. UNCHANGED <<pc, todo, results, shard, stopped, err, search, ctx, outer, opts, sink>>
    BY <2>1 DEF LocalTo, main, chans
  <2>4. (\A v \in Workers : wk'[v].s = wk[v].s) /\ \A v \in Workers \ {w} : wk'[v] = wk[v]
    BY <2>2
  <2>5. x.st \notin {"idle", "gone"} /\ wk'[w] = x
    BY <2>1, <2>2 DEF LocalTo
  <2>6. Busy \subseteq Busy'
    BY <2>4, <2>5 DEF Busy
  <2> QED
    BY <1>1, <2>3, <2>4, <2>6
<1>3. CASE Exit(w)
  <2>1. wk' = [wk EXCEPT ![w].st = "gone"] /\ wk \in [Workers -> Result]
    BY <1>3 DEF Exit, Control, Typed
  <2>2. UNCHANGED <<pc, todo, results, shard, stopped, err, search, ctx, outer, opts, sink>>
    BY <1>3 DEF Exit, main, chans
  <2>3. (\A v \in Workers : wk'[v].s = wk[v].s) /\ \A v \in Workers \ {w} : wk'[v] = wk[v]
    BY <2>1 DEF Result
  <2>4. w \notin Busy
    BY <1>3 DEF Exit, Busy
  <2>5. Busy \subseteq Busy'
    BY <2>3, <2>4 DEF Busy
  <2> QED
    BY <1>1, <2>2, <2>3, <2>5
<1> QED
  BY <1>2, <1>3

\* A taken shard is in one place initially, since none is taken.
LEMMA OnePlaceInit == Init => OnePlace
<1> SUFFICES ASSUME Init PROVE OnePlace
  OBVIOUS
<1>1. Busy = {} /\ results = <<>> /\ pc = "acquire"
  BY ControlInit DEF Control, Phases, Init
<1> QED
  BY <1>1 DEF OnePlace

\* No step puts a shard in a second place: the next shard is a new one, and a result leaves
\* the worker for the channel and the channel for the senders.
LEMMA OnePlaceStep == Control /\ OnePlace /\ [Next]_vars => OnePlace'
<1> SUFFICES ASSUME Control, OnePlace, [Next]_vars PROVE OnePlace'
  OBVIOUS
<1>1. ASSUME NEW w \in Workers, Receive(w) PROVE OnePlace'
  <2>1. PICK x \in Result :
           /\ wk'[w] = x /\ \A v \in Workers \ {w} : wk'[v] = wk[v]
           /\ Busy' = Busy \cup {w} /\ w \notin Busy /\ x.s = Taken + 1 /\ Taken \in Nat
           /\ UNCHANGED <<main, results>>
    BY <1>1, ReceiveTakes
  <2>2. /\ \A v \in Busy : v \in Workers /\ v # w /\ wk'[v] = wk[v] /\ wk[v].s # x.s
        /\ \A j \in DOMAIN results : results[j].s # x.s
        /\ pc = "send" => todo.r.s # x.s
    BY <2>1 DEF Control, Phases, WorkerOK, ResultOK, Busy
  <2>3. UNCHANGED <<pc, todo, results>>
    BY <2>1 DEF main
  <2> QED
    BY <2>1, <2>2, <2>3 DEF OnePlace
<1>2. ASSUME NEW w \in Workers, Deliver(w) PROVE OnePlace'
  <2>1. /\ w \in Busy /\ Busy' = Busy \ {w} /\ \A v \in Workers \ {w} : wk'[v] = wk[v]
        /\ results'[Len(results) + 1] = wk[w] /\ \A j \in 1..Len(results) : results'[j] = results[j]
        /\ \A j \in DOMAIN results' : j = Len(results) + 1 \/ j \in DOMAIN results
        /\ DOMAIN results = 1..Len(results) /\ UNCHANGED <<main, search>>
    BY <1>2, DeliverMoves
  <2>2. \A v \in Busy' : v \in Busy /\ wk'[v] = wk[v] /\ wk[v].s # wk[w].s
    BY <2>1 DEF OnePlace, Busy
  <2>3. \A j \in DOMAIN results : results[j].s # wk[w].s /\ results'[j] = results[j]
    BY <2>1 DEF OnePlace
  <2>4. UNCHANGED <<pc, todo>> /\ (pc = "send" => todo.r.s # wk[w].s)
    BY <2>1 DEF OnePlace, main
  <2>5. \A i, j \in DOMAIN results' : results'[i].s = results'[j].s => i = j
    BY <2>1, <2>3 DEF OnePlace
  <2>6. \A v \in Busy', j \in DOMAIN results' : wk'[v].s # results'[j].s
    BY <2>1, <2>2, <2>3 DEF OnePlace
  <2>7. pc' = "send" => \A j \in DOMAIN results' : results'[j].s # todo'.r.s
    BY <2>1, <2>3, <2>4 DEF OnePlace
  <2> QED
    BY <2>2, <2>4, <2>5, <2>6, <2>7 DEF OnePlace
<1>3. ASSUME NEW w \in Workers, Local(w) \/ Exit(w) PROVE OnePlace'
  <2>1. UNCHANGED <<pc, todo, results>> /\ \A v \in Busy' : v \in Busy /\ wk'[v].s = wk[v].s
    BY <1>3, LocalStays
  <2> QED
    BY <2>1 DEF OnePlace
<1>4. CASE Consume
  <2>1. PICK r \in Result :
           /\ r = results[1] /\ 1 \in DOMAIN results
           /\ DOMAIN results = 1..Len(results) /\ Len(results) \in Nat /\ DOMAIN results' = 1..Len(results) - 1
           /\ \A j \in DOMAIN results' : results'[j] = results[j + 1] /\ j + 1 \in DOMAIN results
           /\ pc' = "send" => todo'.r = r
           /\ Busy' = Busy /\ wk' = wk
    BY <1>4, ConsumeTakes
  <2>2. \A j \in DOMAIN results' : j + 1 # 1 /\ j \in Nat
    BY <2>1
  <2>3. \A i, j \in DOMAIN results' : i + 1 = j + 1 => i = j
    BY <2>1
  <2>4. \A i, j \in DOMAIN results' : results'[i].s = results'[j].s => i = j
    BY <2>1, <2>3 DEF OnePlace
  <2>5. \A j \in DOMAIN results' : results'[j].s # r.s
    BY <2>1, <2>2 DEF OnePlace
  <2>6. \A v \in Busy' : wk'[v].s # r.s
    BY <2>1 DEF OnePlace
  <2>7. \A v \in Busy', j \in DOMAIN results' : wk'[v].s # results'[j].s
    BY <2>1 DEF OnePlace
  <2>8. \A v, u \in Busy' : wk'[v].s = wk'[u].s => v = u
    BY <2>1 DEF OnePlace
  <2> QED
    BY <2>1, <2>4, <2>5, <2>6, <2>7, <2>8 DEF OnePlace
<1>5. CASE \/ Acquire \/ Yield \/ SendNext \/ Finished \/ Return \/ FlushStream \/ ReturnAggregate \/ Dispatch
           \/ CloseResults \/ FlushTimer \/ ClientCancel \/ Deadline \/ UNCHANGED vars
  <2>1. /\ UNCHANGED <<results, wk>> /\ Busy' = Busy
        /\ pc' = "send" => pc = "send" /\ todo'.r = todo.r
    BY <1>5, StepsOfSearch
  <2> QED
    BY <2>1 DEF OnePlace
<1> QED
  BY <1>1, <1>2, <1>3, <1>4, <1>5 DEF Next, Search, Worker, Local, Terminated

-----------------------------------------------------------------------------
(* What the senders do with an event.                                      *)

\* limitSender delivers an event, cut to what is left of the display limit.
LEMMA EmitKeeps ==
  ASSUME opts \in Options, NEW k \in Sinks, LeftOK(k), NEW e \in Events,
         IsFiniteSet(e.files), IsFiniteSet(FilesOf(k.out)), e.files \cap FilesOf(k.out) = {},
         \A i, j \in DOMAIN k.out : i # j => k.out[i].files \cap k.out[j].files = {},
         DisplayLimit > 0 => Cardinality(FilesOf(k.out)) <= DisplayLimit
  PROVE  /\ Emit(k, e) \in Sinks /\ Emit(k, e).collecting = k.collecting /\ Emit(k, e).agg = k.agg
         /\ IsFiniteSet(FilesOf(Emit(k, e).out)) /\ LeftOK(Emit(k, e)) /\ Emit(k, e).left <= k.left
         /\ \A i, j \in DOMAIN Emit(k, e).out :
              i # j => Emit(k, e).out[i].files \cap Emit(k, e).out[j].files = {}
         /\ DisplayLimit > 0 => Cardinality(FilesOf(Emit(k, e).out)) <= DisplayLimit
         /\ FilesOf(k.out) \subseteq FilesOf(Emit(k, e).out)
         /\ FilesOf(Emit(k, e).out) \subseteq FilesOf(k.out) \cup e.files
         /\ \/ FilesOf(Emit(k, e).out) = FilesOf(k.out) \cup e.files
            \/ DisplayLimit > 0 /\ Cardinality(FilesOf(Emit(k, e).out)) = DisplayLimit
         /\ DisplayLimit > 0 /\ Cardinality(e.files) <= k.left
              => FilesOf(Emit(k, e).out) = FilesOf(k.out) \cup e.files
         /\ (\A i \in DOMAIN Emit(k, e).out : Emit(k, e).out[i].crash = 0)
              => e.crash = 0 /\ \A i \in DOMAIN k.out : k.out[i].crash = 0
<1> DEFINE kept == IF DisplayLimit > 0 THEN Top(e.files, k.left) ELSE e.files
           f == [e EXCEPT !.files = kept]
           m == Emit(k, e)
           left == IF DisplayLimit = 0 THEN 0 ELSE k.left - Cardinality(kept)
<1>1. /\ DisplayLimit \in Nat /\ k.left \in Nat /\ k.out \in Seq(Events) /\ e.files \in SUBSET (Nat \X Nat)
      /\ k.collecting \in BOOLEAN /\ k.agg \in {NoAgg} \cup Events /\ e.crash \in Nat
  BY Given DEF Sinks, Events
<1>2. /\ kept \subseteq e.files /\ IsFiniteSet(kept)
      /\ DisplayLimit > 0 => Cardinality(kept) <= k.left
      /\ DisplayLimit > 0 /\ Cardinality(e.files) <= k.left => kept = e.files
      /\ DisplayLimit > 0 /\ Cardinality(e.files) >= k.left => Cardinality(kept) = k.left
      /\ ~ (DisplayLimit > 0) => kept = e.files
  BY <1>1, TopKeeps
<1> HIDE DEF kept
<1>3. f \in Events /\ f.files = kept /\ f.crash = e.crash
  BY <1>1, <1>2 DEF Events
<1>4. m = [k EXCEPT !.left = left, !.out = Append(k.out, f)]
  BY DEF Emit, kept
<1> HIDE DEF f
<1>5. /\ Cardinality(kept) \in Nat /\ Cardinality(e.files) \in Nat /\ Cardinality(FilesOf(k.out)) \in Nat
  BY <1>2, FS_CardinalityType
<1>6. left \in Nat /\ left <= k.left
  BY <1>1, <1>2, <1>5
<1> HIDE DEF left
<1>7. /\ Append(k.out, f) \in Seq(Events)
      /\ FilesOf(Append(k.out, f)) = FilesOf(k.out) \cup kept
      /\ \A i, j \in DOMAIN Append(k.out, f) :
           i # j => Append(k.out, f)[i].files \cap Append(k.out, f)[j].files = {}
  <2>1. \A i \in DOMAIN k.out : k.out[i].files \cap f.files = {}
    BY <1>2, <1>3 DEF FilesOf
  <2> QED
    BY <1>1, <1>3, <2>1, FilesAppend
<1>8. /\ m \in Sinks /\ m.collecting = k.collecting /\ m.agg = k.agg /\ m.left = left
      /\ m.out = Append(k.out, f)
  BY <1>1, <1>4, <1>6, <1>7 DEF Sinks
<1> HIDE DEF m
<1>9. FilesOf(m.out) = FilesOf(k.out) \cup kept
  BY <1>7, <1>8
<1>10. /\ IsFiniteSet(FilesOf(m.out))
       /\ Cardinality(FilesOf(m.out)) = Cardinality(FilesOf(k.out)) + Cardinality(kept)
  <2>1. FilesOf(k.out) \cap kept = {}
    BY <1>2
  <2>2. Cardinality(FilesOf(k.out) \cap kept) = 0
    BY <2>1, FS_EmptySet
  <2>3. /\ IsFiniteSet(FilesOf(k.out) \cup kept)
        /\ Cardinality(FilesOf(k.out) \cup kept)
             = Cardinality(FilesOf(k.out)) + Cardinality(kept) - Cardinality(FilesOf(k.out) \cap kept)
    BY <1>2, FS_Union
  <2> QED
    BY <1>5, <1>9, <2>2, <2>3
<1>11. LeftOK(m)
  BY <1>1, <1>2, <1>5, <1>8, <1>10 DEF LeftOK, left
<1>12. DisplayLimit > 0 => Cardinality(FilesOf(m.out)) <= DisplayLimit
  BY <1>1, <1>6, <1>8, <1>10, <1>11, <1>5 DEF LeftOK
<1>13. \/ FilesOf(m.out) = FilesOf(k.out) \cup e.files
       \/ DisplayLimit > 0 /\ Cardinality(FilesOf(m.out)) = DisplayLimit
  <2>1. CASE kept = e.files
    BY <1>9, <2>1
  <2>2. CASE kept # e.files
    <3>1. DisplayLimit > 0 /\ Cardinality(kept) = k.left
      BY <1>1, <1>2, <1>5, <2>2
    <3> QED
      BY <1>1, <1>5, <1>10, <3>1 DEF LeftOK
  <2> QED
    BY <2>1, <2>2
<1>14. ASSUME \A i \in DOMAIN m.out : m.out[i].crash = 0
       PROVE  e.crash = 0 /\ \A i \in DOMAIN k.out : k.out[i].crash = 0
  <2>1. /\ Len(k.out) \in Nat /\ DOMAIN k.out = 1..Len(k.out) /\ DOMAIN m.out = 1..Len(k.out) + 1
        /\ \A i \in 1..Len(k.out) : m.out[i] = k.out[i]
        /\ m.out[Len(k.out) + 1] = f
    BY <1>1, <1>3, <1>7, <1>8, AppendProperties, LenProperties
  <2>2. Len(k.out) + 1 \in DOMAIN m.out /\ DOMAIN k.out \subseteq DOMAIN m.out
    BY <2>1
  <2> QED
    BY <1>3, <1>14, <2>1, <2>2
<1>15. /\ FilesOf(k.out) \subseteq FilesOf(m.out) /\ FilesOf(m.out) \subseteq FilesOf(k.out) \cup e.files
       /\ DisplayLimit > 0 /\ Cardinality(e.files) <= k.left => FilesOf(m.out) = FilesOf(k.out) \cup e.files
  BY <1>2, <1>9
<1>16. \A i, j \in DOMAIN m.out : i # j => m.out[i].files \cap m.out[j].files = {}
  BY <1>7, <1>8
<1> QED
  BY <1>6, <1>8, <1>10, <1>11, <1>12, <1>13, <1>14, <1>15, <1>16 DEF m

\* collectSender keeps one event with the best documents of all.
LEMMA CollectKeeps ==
  ASSUME opts \in Options, NEW agg \in {NoAgg} \cup Events, NEW e \in Events,
         IsFiniteSet(e.files), agg # NoAgg => IsFiniteSet(agg.files)
  PROVE  LET all == (IF agg = NoAgg THEN {} ELSE agg.files) \cup e.files
             c == Collect(agg, e)
         IN  /\ c \in Events /\ c.files \subseteq all /\ IsFiniteSet(c.files)
             /\ DisplayLimit > 0 => Cardinality(c.files) <= DisplayLimit
             /\ c.files = all \/ (DisplayLimit > 0 /\ Cardinality(c.files) = DisplayLimit)
             /\ DisplayLimit > 0 /\ Cardinality(all) >= DisplayLimit => Cardinality(c.files) = DisplayLimit
             /\ c.crash = 0 => e.crash = 0 /\ (agg # NoAgg => agg.crash = 0)
<1> DEFINE all == (IF agg = NoAgg THEN {} ELSE agg.files) \cup e.files
           c == Collect(agg, e)
<1>1. /\ DisplayLimit \in Nat /\ e.files \in SUBSET (Nat \X Nat) /\ e.crash \in Nat
      /\ e.priority \in Int /\ e.max \in Int
      /\ agg # NoAgg => agg.files \in SUBSET (Nat \X Nat) /\ agg.crash \in Nat /\ agg.priority \in Int
  BY Given DEF Events
<1>2. IsFiniteSet(all) /\ all \in SUBSET (Nat \X Nat)
  <2>1. CASE agg = NoAgg
    BY <1>1, <2>1
  <2>2. CASE agg # NoAgg
    BY <1>1, <2>2, FS_Union
  <2> QED
    BY <2>1, <2>2
<1>3. c.files = Truncated(all) /\ (c.crash = 0 => e.crash = 0 /\ (agg # NoAgg => agg.crash = 0))
      /\ (Truncated(all) \in SUBSET (Nat \X Nat) => c \in Events)
  <2>1. CASE agg = NoAgg
    <3>1. c = [e EXCEPT !.files = Truncated(@)] /\ all = e.files
      BY <2>1 DEF Collect
    <3> HIDE DEF c, all
    <3> QED
      BY <2>1, <3>1 DEF Events
  <2>2. CASE agg # NoAgg
    <3>1. c = Event(IF agg.priority < e.priority THEN e.priority ELSE agg.priority,
                    e.max, Truncated(all), agg.crash + e.crash)
      BY <2>2 DEF Collect
    <3>2. /\ (IF agg.priority < e.priority THEN e.priority ELSE agg.priority) \in Int
          /\ agg.crash + e.crash \in Nat /\ (agg.crash + e.crash = 0 => agg.crash = 0 /\ e.crash = 0)
      BY <1>1, <2>2
    <3> HIDE DEF c, all
    <3> QED
      BY <1>1, <3>1, <3>2 DEF Event, Events
  <2> QED
    BY <2>1, <2>2
<1> HIDE DEF c, all
<1>4. Cardinality(all) \in Nat
  BY <1>2, FS_CardinalityType
<1>5. /\ c \in Events /\ c.files \subseteq all /\ IsFiniteSet(c.files)
      /\ DisplayLimit > 0 => Cardinality(c.files) <= DisplayLimit
      /\ c.files = all \/ (DisplayLimit > 0 /\ Cardinality(c.files) = DisplayLimit)
      /\ DisplayLimit > 0 /\ Cardinality(all) >= DisplayLimit => Cardinality(c.files) = DisplayLimit
  <2>1. CASE DisplayLimit = 0
    BY <1>1, <1>2, <1>3, <2>1 DEF Truncated
  <2>2. CASE DisplayLimit > 0
    <3>1. c.files = Top(all, DisplayLimit)
      BY <1>1, <1>3, <2>2 DEF Truncated
    <3>2. /\ Top(all, DisplayLimit) \subseteq all /\ IsFiniteSet(Top(all, DisplayLimit))
          /\ Cardinality(Top(all, DisplayLimit)) <= DisplayLimit
          /\ Cardinality(all) <= DisplayLimit => Top(all, DisplayLimit) = all
          /\ Cardinality(all) >= DisplayLimit => Cardinality(Top(all, DisplayLimit)) = DisplayLimit
      BY <1>1, <1>2, TopKeeps
    <3>3. c \in Events
      BY <1>2, <1>3, <3>1, <3>2
    <3>4. c.files = all \/ Cardinality(c.files) = DisplayLimit
      BY <1>1, <1>4, <3>1, <3>2
    <3> QED
      BY <2>2, <3>1, <3>2, <3>3, <3>4
  <2> QED
    BY <1>1, <2>1, <2>2
<1> QED
  BY <1>3, <1>5 DEF c, all

\* Sending an event delivers or keeps its documents, each once and never beyond the display limit.
LEMMA SendKeeps ==
  ASSUME opts \in Options, NEW k, SinkOK(k), LeftOK(k), NEW e \in Events,
         IsFiniteSet(e.files), e.files \cap SentBy(k) = {}
  PROVE  /\ SinkOK(Send(k, e)) /\ LeftOK(Send(k, e)) /\ Send(k, e).left <= k.left
         /\ Send(k, e).collecting = k.collecting /\ (k.collecting => Send(k, e).out = k.out)
         /\ SentBy(Send(k, e)) \subseteq SentBy(k) \cup e.files
         /\ SentBy(Send(k, e)) = SentBy(k) \cup e.files \/ Full(Send(k, e))
         /\ Full(k) => Full(Send(k, e))
         /\ QuietSink(Send(k, e)) => QuietSink(k) /\ e.crash = 0
<1> DEFINE j == Send(k, e)
<1>1. /\ k \in Sinks /\ k.collecting \in BOOLEAN /\ k.agg \in {NoAgg} \cup Events /\ k.left \in Nat
      /\ k.out \in Seq(Events) /\ IsFiniteSet(SentBy(k)) /\ DisplayLimit \in Nat
      /\ Cardinality(SentBy(k)) \in Nat
  BY Given, FS_CardinalityType DEF SinkOK, Sinks
<1>2. CASE k.collecting
  <2> DEFINE c == Collect(k.agg, e)
             all == (IF k.agg = NoAgg THEN {} ELSE k.agg.files) \cup e.files
  <2>1. /\ FilesOf(k.out) = {} /\ SentBy(k) = AggFiles(k) /\ all = SentBy(k) \cup e.files
    BY <1>2 DEF SinkOK, SentBy, AggFiles
  <2>2. k.agg # NoAgg => IsFiniteSet(k.agg.files)
    BY <1>1, <2>1 DEF AggFiles
  <2>3. /\ c \in Events /\ c.files \subseteq all /\ IsFiniteSet(c.files)
        /\ DisplayLimit > 0 => Cardinality(c.files) <= DisplayLimit
        /\ c.files = all \/ (DisplayLimit > 0 /\ Cardinality(c.files) = DisplayLimit)
        /\ DisplayLimit > 0 /\ Cardinality(all) >= DisplayLimit => Cardinality(c.files) = DisplayLimit
        /\ c.crash = 0 => e.crash = 0 /\ (k.agg # NoAgg => k.agg.crash = 0)
    BY <1>1, <2>2, CollectKeeps
  <2>4. j = [k EXCEPT !.agg = c]
    BY <1>2 DEF Send
  <2> HIDE DEF c, all, j
  <2>5. /\ j \in Sinks /\ j.collecting = k.collecting /\ j.agg = c /\ j.left = k.left /\ j.out = k.out
    BY <1>1, <2>3, <2>4 DEF Sinks
  <2>6. c # NoAgg
    BY <2>3, EventIsNotNoAgg
  <2>7. SentBy(j) = c.files /\ AggFiles(j) = c.files
    BY <2>1, <2>5, <2>6 DEF SentBy, AggFiles
  <2>8. SinkOK(j) /\ LeftOK(j)
    BY <1>2, <2>1, <2>3, <2>5, <2>7 DEF SinkOK, LeftOK
  <2>9. Full(k) => Full(j)
    <3> SUFFICES ASSUME Full(k) PROVE Full(j)
      OBVIOUS
    <3>1. IsFiniteSet(e.files) /\ IsFiniteSet(all)
      BY <1>1, <2>1, FS_Union
    <3>2. Cardinality(SentBy(k)) <= Cardinality(all) /\ Cardinality(all) \in Nat
      BY <2>1, <3>1, FS_Subset, FS_CardinalityType
    <3>3. DisplayLimit > 0 /\ Cardinality(all) >= DisplayLimit
      BY <1>1, <3>2 DEF Full
    <3> QED
      BY <2>3, <2>7, <3>3 DEF Full
  <2>10. QuietSink(j) => QuietSink(k) /\ e.crash = 0
    BY <2>3, <2>5, <2>6 DEF QuietSink
  <2>11. j.left <= k.left
    BY <1>1, <2>5
  <2>12. SentBy(j) \subseteq SentBy(k) \cup e.files /\ (SentBy(j) = SentBy(k) \cup e.files \/ Full(j))
    BY <2>1, <2>3, <2>7 DEF Full
  <2> QED
    BY <2>5, <2>8, <2>9, <2>10, <2>11, <2>12 DEF j
<1>3. CASE ~k.collecting
  <2>1. j = Emit(k, e) /\ k.agg = NoAgg /\ SentBy(k) = FilesOf(k.out)
    BY <1>3 DEF Send, SinkOK, SentBy, AggFiles
  <2> HIDE DEF j
  <2>2. /\ \A i, l \in DOMAIN k.out : i # l => k.out[i].files \cap k.out[l].files = {}
        /\ DisplayLimit > 0 => Cardinality(FilesOf(k.out)) <= DisplayLimit
        /\ IsFiniteSet(FilesOf(k.out)) /\ e.files \cap FilesOf(k.out) = {}
    BY <1>1, <2>1 DEF SinkOK
  <2>3. /\ j \in Sinks /\ j.collecting = k.collecting /\ j.agg = k.agg
        /\ IsFiniteSet(FilesOf(j.out)) /\ LeftOK(j) /\ j.left <= k.left
        /\ \A i, l \in DOMAIN j.out : i # l => j.out[i].files \cap j.out[l].files = {}
        /\ DisplayLimit > 0 => Cardinality(FilesOf(j.out)) <= DisplayLimit
        /\ FilesOf(k.out) \subseteq FilesOf(j.out)
        /\ FilesOf(j.out) \subseteq FilesOf(k.out) \cup e.files
        /\ \/ FilesOf(j.out) = FilesOf(k.out) \cup e.files
           \/ DisplayLimit > 0 /\ Cardinality(FilesOf(j.out)) = DisplayLimit
        /\ (\A i \in DOMAIN j.out : j.out[i].crash = 0)
             => e.crash = 0 /\ \A i \in DOMAIN k.out : k.out[i].crash = 0
    BY <1>1, <2>1, <2>2, EmitKeeps
  <2>4. SentBy(j) = FilesOf(j.out) /\ AggFiles(j) = {}
    BY <2>1, <2>3 DEF SentBy, AggFiles
  <2>5. SinkOK(j)
    BY <1>3, <2>1, <2>3, <2>4 DEF SinkOK
  <2>6. Full(k) => Full(j)
    <3>1. Cardinality(FilesOf(k.out)) <= Cardinality(FilesOf(j.out)) /\ Cardinality(FilesOf(j.out)) \in Nat
      BY <2>3, FS_Subset, FS_CardinalityType
    <3> QED
      BY <1>1, <2>1, <2>3, <2>4, <3>1 DEF Full
  <2>7. QuietSink(j) => QuietSink(k) /\ e.crash = 0
    BY <2>1, <2>3 DEF QuietSink
  <2>8. SentBy(j) \subseteq SentBy(k) \cup e.files /\ (SentBy(j) = SentBy(k) \cup e.files \/ Full(j))
    BY <2>1, <2>3, <2>4 DEF Full
  <2> QED
    BY <1>3, <2>3, <2>5, <2>6, <2>7, <2>8 DEF j
<1> QED
  BY <1>2, <1>3

\* Flushing delivers everything that was kept: the aggregate is no larger than the display limit,
\* and nothing of the limit was used while it was kept.
LEMMA StopKeeps ==
  ASSUME opts \in Options, NEW k, SinkOK(k), LeftOK(k)
  PROVE  /\ SinkOK(StopCollecting(k)) /\ LeftOK(StopCollecting(k)) /\ StopCollecting(k).left <= k.left
         /\ ~StopCollecting(k).collecting
         /\ SentBy(StopCollecting(k)) = SentBy(k)
         /\ QuietSink(StopCollecting(k)) => QuietSink(k)
<1> DEFINE j == StopCollecting(k)
<1>1. /\ k \in Sinks /\ k.collecting \in BOOLEAN /\ k.agg \in {NoAgg} \cup Events /\ k.left \in Nat
      /\ k.out \in Seq(Events) /\ IsFiniteSet(SentBy(k)) /\ DisplayLimit \in Nat
      /\ Cardinality(SentBy(k)) \in Nat
  BY Given, FS_CardinalityType DEF SinkOK, Sinks
<1>2. CASE ~k.collecting
  <2>1. j = k /\ j.left <= k.left
    BY <1>1, <1>2 DEF StopCollecting
  <2> QED
    BY <1>2, <2>1
<1>3. CASE k.collecting
  <2> DEFINE m == [k EXCEPT !.collecting = FALSE, !.agg = NoAgg]
  <2>1. m \in Sinks /\ ~m.collecting /\ m.agg = NoAgg /\ m.left = k.left /\ m.out = k.out
    BY <1>1 DEF Sinks
  <2>2. j = IF k.agg = NoAgg THEN m ELSE Emit(m, k.agg)
    BY <1>3 DEF StopCollecting
  <2> HIDE DEF m, j
  <2>3. /\ FilesOf(k.out) = {} /\ SentBy(k) = AggFiles(k) /\ SentBy(m) = {} /\ AggFiles(m) = {}
    BY <1>3, <2>1 DEF SinkOK, SentBy, AggFiles
  <2>4. CASE k.agg = NoAgg
    <3>1. j = m /\ SentBy(j) = SentBy(k) /\ ~j.collecting /\ j.left <= k.left
      BY <1>1, <2>1, <2>2, <2>3, <2>4 DEF AggFiles
    <3>2. SinkOK(j) /\ LeftOK(j)
      BY <1>1, <2>1, <2>3, <3>1 DEF SinkOK, LeftOK
    <3>3. QuietSink(j) => QuietSink(k)
      BY <2>1, <2>4, <3>1 DEF QuietSink
    <3> QED
      BY <3>1, <3>2, <3>3 DEF j
  <2>5. CASE k.agg # NoAgg
    <3> DEFINE e == k.agg
    <3>1. e \in Events /\ e.files = SentBy(k) /\ j = Emit(m, e)
      BY <1>1, <2>2, <2>3, <2>5 DEF AggFiles
    <3> HIDE DEF e
    <3>2. /\ \A i, l \in DOMAIN m.out : i # l => m.out[i].files \cap m.out[l].files = {}
          /\ DisplayLimit > 0 => Cardinality(FilesOf(m.out)) <= DisplayLimit
          /\ IsFiniteSet(FilesOf(m.out)) /\ e.files \cap FilesOf(m.out) = {} /\ LeftOK(m)
      BY <1>1, <2>1, <2>3, FS_EmptySet DEF SinkOK, LeftOK
    <3>3. DisplayLimit > 0 => Cardinality(e.files) <= m.left
      <4>1. Cardinality(FilesOf(m.out)) = 0
        BY <2>1, <2>3, FS_EmptySet
      <4>2. DisplayLimit > 0 => m.left = DisplayLimit /\ Cardinality(SentBy(k)) <= DisplayLimit
        BY <1>1, <3>2, <4>1 DEF LeftOK, SinkOK
      <4> QED
        BY <3>1, <4>2
    <3>4. /\ j \in Sinks /\ j.collecting = m.collecting /\ j.agg = m.agg
          /\ IsFiniteSet(FilesOf(j.out)) /\ LeftOK(j) /\ j.left <= m.left
          /\ \A i, l \in DOMAIN j.out : i # l => j.out[i].files \cap j.out[l].files = {}
          /\ DisplayLimit > 0 => Cardinality(FilesOf(j.out)) <= DisplayLimit
          /\ \/ FilesOf(j.out) = FilesOf(m.out) \cup e.files
             \/ DisplayLimit > 0 /\ Cardinality(FilesOf(j.out)) = DisplayLimit
          /\ DisplayLimit > 0 /\ Cardinality(e.files) <= m.left => FilesOf(j.out) = FilesOf(m.out) \cup e.files
          /\ (\A i \in DOMAIN j.out : j.out[i].crash = 0)
               => e.crash = 0 /\ \A i \in DOMAIN m.out : m.out[i].crash = 0
      BY <1>1, <2>1, <3>1, <3>2, EmitKeeps
    <3>5. FilesOf(j.out) = SentBy(k) /\ SentBy(j) = SentBy(k)
      <4>1. FilesOf(j.out) = FilesOf(m.out) \cup e.files
        BY <3>3, <3>4
      <4> QED
        BY <2>1, <2>3, <3>1, <3>4, <4>1 DEF SentBy, AggFiles
    <3>6. SinkOK(j)
      BY <1>1, <2>1, <3>4, <3>5 DEF SinkOK
    <3>7. QuietSink(j) => QuietSink(k)
      BY <2>1, <3>4 DEF QuietSink, e
    <3> QED
      BY <2>1, <3>4, <3>5, <3>6, <3>7 DEF j
  <2> QED
    BY <2>4, <2>5
<1> QED
  BY <1>2, <1>3

-----------------------------------------------------------------------------
(* What was sent.                                                          *)

\* What counts as sent is what the senders hold and delivered.
LEMMA SentIsSentBy == Sent = SentBy(sink)
BY DEF Sent, Delivered, SentBy, AggFiles

\* The event sendByRepository builds next is one of documents of the result it splits.
LEMMA NextEventOK ==
  ASSUME Control, pc = "send"
  PROVE  /\ NextEvent \in Events /\ IsFiniteSet(NextEvent.files)
         /\ NextEvent.files = {<<todo.r.s, i>> : i \in Run} /\ Run \subseteq todo.rest
         /\ {<<todo.r.s, i>> : i \in todo.rest} \subseteq AllDocs
         /\ todo.r.s \in 1..N /\ todo.rest \subseteq Matching(todo.r.s)
         /\ NextEvent.max = todo.max /\ NextEvent.priority <= Priority(todo.r.s)
         /\ Run = todo.rest => NextEvent.crash = todo.r.crash
<1> DEFINE s == todo.r.s
<1>1. /\ opts \in Options /\ todo \in [r : Result, max : Int, rest : SUBSET Nat] /\ todo.r \in Result
      /\ ResultOK(todo.r) /\ todo.rest \subseteq todo.r.found /\ shard \in 0..N /\ Queued
      /\ todo.r.crash \in Nat /\ todo.r.found \in SUBSET Nat /\ s \in Nat
  BY DEF Control, Typed, Phases, Result
<1>2. N \in Nat /\ Len(search) \in Nat
  BY <1>1, Given, LenProperties DEF Control, Typed
<1>3. s \in 1..N /\ Taken \in Int
  BY <1>1, <1>2 DEF ResultOK, Taken
<1>4. /\ Priority(s) \in Nat /\ Matching(s) \subseteq 1..Len(Docs[s])
      /\ \A i \in 1..Len(Docs[s]) : Repos[s][Docs[s][i].repo] \in Nat /\ Repos[s][Docs[s][i].repo] <= Priority(s)
  BY <1>1, <1>3, Given
<1>5. todo.rest \subseteq Matching(s)
  BY <1>1 DEF ResultOK
<1>6. Run \subseteq todo.rest
  BY DEF Run
<1>7. {<<s, i>> : i \in todo.rest} \subseteq AllDocs
  BY <1>1, <1>3, <1>5, DocsFinite
<1>8. ASSUME NEW F \in SUBSET AllDocs PROVE IsFiniteSet(F) /\ F \in SUBSET (Nat \X Nat)
  BY <1>1, <1>8, DocsFinite, FS_Subset
<1>9. {<<s, i>> : i \in Run} \in SUBSET AllDocs
  BY <1>6, <1>7
<1> DEFINE p == IF Compound /\ Run # {} THEN Repos[s][RepoOf(CHOOSE i \in Run : TRUE)] ELSE Priority(s)
           c == IF Run = todo.rest THEN todo.r.crash ELSE 0
           F == {<<s, i>> : i \in Run}
<1>10. p \in Int /\ p <= Priority(s)
  <2>1. CASE ~ (Compound /\ Run # {})
    BY <1>4, <2>1
  <2>2. CASE Compound /\ Run # {}
    <3>1. (CHOOSE i \in Run : TRUE) \in Run
      BY <2>2
    <3>2. PICK i \in 1..Len(Docs[s]) : i = CHOOSE j \in Run : TRUE
      BY <1>4, <1>5, <1>6, <3>1
    <3>3. p = Repos[s][Docs[s][i].repo]
      BY <2>2, <3>2 DEF RepoOf
    <3>4. Repos[s][Docs[s][i].repo] \in Nat /\ Repos[s][Docs[s][i].repo] <= Priority(s)
      BY <1>4, <3>2
    <3> HIDE DEF p
    <3> QED
      BY <3>3, <3>4
  <2> QED
    BY <2>1, <2>2
<1>11. c \in Nat /\ todo.max \in Int
  BY <1>1
<1>12. NextEvent = [priority |-> p, max |-> todo.max, files |-> F, crash |-> c]
  BY DEF NextEvent, Event
<1>13. F \in SUBSET (Nat \X Nat) /\ IsFiniteSet(F)
  BY <1>8, <1>9
<1> HIDE DEF p, F
<1>14. NextEvent \in Events /\ NextEvent.files = F /\ NextEvent.crash = c /\ NextEvent.max = todo.max /\ NextEvent.priority = p
  BY <1>10, <1>11, <1>12, <1>13 DEF Events
<1> QED
  BY <1>3, <1>5, <1>6, <1>7, <1>10, <1>13, <1>14 DEF F

\* The senders start empty.
LEMMA SendersInit == Init => Senders /\ SentOnce
<1> SUFFICES ASSUME Init PROVE Senders /\ SentOnce
  OBVIOUS
<1>1. /\ opts \in Options /\ pc = "acquire" /\ sink.collecting = FALSE /\ sink.agg = NoAgg
      /\ sink.left = DisplayLimit /\ sink.out = <<>> /\ DisplayLimit \in Nat
  BY Given DEF Init
<1>2. SentBy(sink) = {} /\ FilesOf(sink.out) = {} /\ DOMAIN sink.out = {}
  BY <1>1 DEF SentBy, AggFiles, FilesOf
<1>3. sink \in Sinks
  BY <1>1 DEF Init, Sinks
<1>4. IsFiniteSet(SentBy(sink)) /\ Cardinality(SentBy(sink)) = 0 /\ Cardinality(FilesOf(sink.out)) = 0
  BY <1>2, FS_EmptySet
<1>5. SinkOK(sink) /\ LeftOK(sink)
  BY <1>1, <1>2, <1>3, <1>4 DEF SinkOK, LeftOK
<1> QED
  BY <1>1, <1>2, <1>5, SentIsSentBy DEF Senders, SentOnce

\* How a step changes what was sent: only the next event adds to it.
LEMMA SinkMoves ==
  ASSUME Control, Senders, SentOnce, [Next]_vars
  PROVE  /\ Senders'
         /\ \/ SendNext /\ Sent' \subseteq Sent \cup NextEvent.files
                        /\ (Sent' = Sent \cup NextEvent.files \/ Full(sink'))
            \/ ~SendNext /\ Sent' = Sent
         /\ QuietSink(sink') => QuietSink(sink) /\ (SendNext => NextEvent.crash = 0)
         /\ Full(sink) => Full(sink')
         /\ sink'.left <= sink.left
         /\ DisplayLimit' = DisplayLimit /\ Streaming' = Streaming
<1>1. /\ opts \in Options /\ opts' = opts /\ Streaming \in BOOLEAN /\ DisplayLimit \in Nat
  BY Given DEF Control, Typed, Next, Search, Worker, Acquire, Yield, Dispatch, Consume, SendNext, Finished,
     Return, FlushStream, ReturnAggregate, CloseResults, Receive, Exit, Open, Fail, Panic, Scan, LookAt, Reserve,
     Deliver, Done, FlushTimer, ClientCancel, Deadline, Terminated, vars
<1>2. DisplayLimit' = DisplayLimit /\ Streaming' = Streaming
  BY <1>1 DEF DisplayLimit, Streaming
<1>3. /\ SinkOK(sink) /\ sink \in Sinks /\ sink.left \in Nat /\ sink.out \in Seq(Events)
      /\ sink.agg \in {NoAgg} \cup Events /\ sink.collecting \in BOOLEAN
      /\ Streaming \/ pc # "done" => LeftOK(sink)
      /\ pc = "acquire" => ~sink.collecting /\ sink.out = <<>>
      /\ pc = "done" /\ sink.collecting => ~Streaming /\ err
      /\ ~Streaming /\ pc # "done" => sink.out = <<>> /\ (pc = "acquire" \/ sink.collecting)
  BY DEF Senders, SinkOK, Sinks
<1>4. (SinkOK(sink)' <=> SinkOK(sink')) /\ (LeftOK(sink)' <=> LeftOK(sink')) /\ Sent' = SentBy(sink')
  BY <1>2, SentIsSentBy DEF SinkOK, LeftOK, Sent, Delivered, SentBy, AggFiles
<1>5. CASE SendNext
  <2>1. /\ pc = "send" /\ sink' = Send(sink, NextEvent) /\ pc' \in {"send", "yield"}
    BY <1>5 DEF SendNext
  <2>2. NextEvent.files \cap SentBy(sink) = {}
    BY <2>1, NextEventOK, SentIsSentBy DEF SentOnce
  <2>3. /\ SinkOK(sink') /\ LeftOK(sink') /\ sink'.left <= sink.left
        /\ sink'.collecting = sink.collecting /\ (sink.collecting => sink'.out = sink.out)
        /\ SentBy(sink') \subseteq SentBy(sink) \cup NextEvent.files
        /\ SentBy(sink') = SentBy(sink) \cup NextEvent.files \/ Full(sink')
        /\ Full(sink) => Full(sink')
        /\ QuietSink(sink') => QuietSink(sink) /\ NextEvent.crash = 0
    BY <1>1, <1>3, <2>1, <2>2, NextEventOK, SendKeeps
  <2>4. Senders'
    BY <1>2, <1>3, <1>4, <2>1, <2>3 DEF Senders
  <2> QED
    BY <1>2, <1>4, <1>5, <2>3, <2>4, SentIsSentBy
<1>6. CASE (FlushTimer \/ FlushStream) /\ ~SendNext
  <2>1. /\ Streaming /\ sink' = StopCollecting(sink) /\ ~SendNext
        /\ (pc' = pc /\ sink.collecting) \/ (pc = "flush" /\ pc' = "done")
    BY <1>6 DEF FlushTimer, FlushStream, SendNext, main
  <2>2. /\ SinkOK(sink') /\ LeftOK(sink') /\ sink'.left <= sink.left
        /\ ~sink'.collecting /\ SentBy(sink') = SentBy(sink)
        /\ QuietSink(sink') => QuietSink(sink)
    BY <1>1, <1>3, <2>1, StopKeeps
  <2>3. Senders'
    BY <1>2, <1>3, <1>4, <2>1, <2>2 DEF Senders
  <2>4. Full(sink) => Full(sink')
    BY <2>2 DEF Full
  <2> QED
    BY <1>2, <1>4, <2>1, <2>2, <2>3, <2>4, SentIsSentBy
<1>7. CASE Acquire /\ outer = "live"
  <2>1. /\ pc = "acquire" /\ pc' \in {"flush", "yield"} /\ ~SendNext
        /\ sink' = [sink EXCEPT !.collecting = opts.collecting \/ ~Streaming,
                                !.out = IF Streaming THEN <<FirstEvent>> ELSE <<>>]
    BY <1>7 DEF Acquire, SendNext
  <2>2. FirstEvent \in Events /\ FirstEvent.files = {}
    <3>1. N \in Nat /\ (N # 0 => Priority(1) \in Nat)
      BY <1>1, Given
    <3>2. (IF N = 0 THEN Minus ELSE Priority(1)) \in Int
      BY <3>1 DEF Minus
    <3> HIDE DEF Priority, N
    <3> QED
      BY <3>2 DEF FirstEvent, Event, Events
  <2>3. /\ sink'.agg = sink.agg /\ sink'.left = sink.left
        /\ sink'.collecting = (opts.collecting \/ ~Streaming)
        /\ sink'.out = (IF Streaming THEN <<FirstEvent>> ELSE <<>>)
        /\ opts.collecting \in BOOLEAN
    BY <1>1, <1>3, <2>1, Given DEF Sinks
  <2>4. sink' \in Sinks
    <3> DEFINE b == opts.collecting \/ ~Streaming
               o == IF Streaming THEN <<FirstEvent>> ELSE <<>>
    <3>1. b \in BOOLEAN /\ o \in Seq(Events)
      BY <2>2
    <3>2. sink' = [sink EXCEPT !.collecting = b, !.out = o]
      BY <2>1
    <3> HIDE DEF b, o
    <3> QED
      BY <1>3, <3>1, <3>2 DEF Sinks
  <2>5. FilesOf(sink'.out) = {} /\ FilesOf(sink.out) = {} /\ sink.agg = NoAgg
    BY <1>3, <2>1, <2>2, <2>3 DEF FilesOf, SinkOK
  <2>6. SentBy(sink') = {} /\ SentBy(sink) = {} /\ AggFiles(sink') = {}
    BY <2>3, <2>5 DEF SentBy, AggFiles
  <2>7. SinkOK(sink')
    <3>1. \A i, j \in DOMAIN sink'.out : i # j => sink'.out[i].files \cap sink'.out[j].files = {}
      BY <2>5 DEF FilesOf
    <3>2. sink'.agg = NoAgg /\ IsFiniteSet(SentBy(sink')) /\ Cardinality(SentBy(sink')) = 0
      BY <2>3, <2>5, <2>6, FS_EmptySet
    <3> QED
      BY <1>1, <2>4, <2>5, <3>1, <3>2 DEF SinkOK
  <2>8. LeftOK(sink')
    BY <1>3, <2>1, <2>3, <2>5 DEF LeftOK
  <2>9. Senders'
    BY <1>2, <1>4, <2>1, <2>3, <2>7, <2>8 DEF Senders
  <2>10. QuietSink(sink)
    BY <1>3, <2>1, <2>5 DEF QuietSink
  <2>11. Full(sink) => Full(sink')
    BY <2>6 DEF Full
  <2> QED
    BY <1>2, <1>3, <1>4, <2>1, <2>3, <2>6, <2>9, <2>10, <2>11, SentIsSentBy
<1>8. CASE ReturnAggregate /\ ~err
  <2> DEFINE agg == IF sink.agg = NoAgg THEN Event(0, 0, {}, 0) ELSE sink.agg
             f == [agg EXCEPT !.crash = @ + (IF opts.ready THEN 0 ELSE 1)]
  <2>1. /\ pc = "flush" /\ pc' = "done" /\ ~Streaming /\ ~SendNext /\ sink.collecting /\ sink.out = <<>>
        /\ sink' = [sink EXCEPT !.collecting = FALSE, !.agg = NoAgg, !.out = <<f>>]
    BY <1>3, <1>8 DEF ReturnAggregate, SendNext
  <2>2. agg \in Events /\ agg.files = AggFiles(sink) /\ agg.crash \in Nat
    BY <1>3 DEF Event, Events, AggFiles
  <2> HIDE DEF agg
  <2>3. f \in Events /\ f.files = AggFiles(sink) /\ (f.crash = 0 => agg.crash = 0)
    BY <2>2 DEF Events
  <2> HIDE DEF f
  <2>4. /\ sink' \in Sinks /\ ~sink'.collecting /\ sink'.agg = NoAgg /\ sink'.left = sink.left
        /\ sink'.out = <<f>>
    <3> DEFINE o == <<f>>
    <3>1. o \in Seq(Events)
      BY <2>3
    <3>2. sink' = [sink EXCEPT !.collecting = FALSE, !.agg = NoAgg, !.out = o]
      BY <2>1
    <3> HIDE DEF o
    <3>3. /\ sink' \in Sinks /\ ~sink'.collecting /\ sink'.agg = NoAgg /\ sink'.left = sink.left
          /\ sink'.out = o
      BY <1>3, <3>1, <3>2 DEF Sinks
    <3> QED
      BY <3>3 DEF o
  <2>5. /\ DOMAIN sink'.out = {1} /\ sink'.out[1] = f /\ FilesOf(sink'.out) = f.files
    BY <2>4 DEF FilesOf
  <2>6. SentBy(sink) = AggFiles(sink) /\ SentBy(sink') = AggFiles(sink)
    BY <2>1, <2>3, <2>4, <2>5 DEF SentBy, AggFiles, FilesOf
  <2>7. SinkOK(sink')
    BY <1>3, <2>4, <2>5, <2>6 DEF SinkOK
  <2>8. Senders'
    BY <1>2, <1>4, <2>1, <2>4, <2>7 DEF Senders
  <2>9. QuietSink(sink') => QuietSink(sink)
    BY <2>1, <2>3, <2>5 DEF QuietSink, agg
  <2>10. Full(sink) => Full(sink')
    BY <2>6 DEF Full
  <2> QED
    BY <1>2, <1>3, <1>4, <2>1, <2>4, <2>6, <2>8, <2>9, <2>10, SentIsSentBy
<1>9. ASSUME ~SendNext, ~ (FlushTimer \/ FlushStream), ~ (Acquire /\ outer = "live"), ~ (ReturnAggregate /\ ~err)
      PROVE  /\ sink' = sink
             /\ \/ pc' = pc /\ err' = err
                \/ pc \notin {"done", "acquire"} /\ pc' \notin {"done", "acquire"}
                \/ pc = "acquire" /\ pc' = "done"
                \/ pc = "flush" /\ pc' = "done" /\ ~Streaming /\ err' = err /\ err
  <2>1. CASE Search
    <3>1. CASE Acquire
      BY <1>9, <3>1 DEF Acquire
    <3>2. CASE Consume
      BY <3>2 DEF Consume
    <3>3. CASE Yield \/ Dispatch
      BY <3>3 DEF Yield, Dispatch
    <3>4. CASE Finished \/ Return
      BY <3>4 DEF Finished, Return
    <3>5. CASE ReturnAggregate
      BY <1>9, <3>5 DEF ReturnAggregate
    <3> QED
      BY <1>9, <2>1, <3>1, <3>2, <3>3, <3>4, <3>5 DEF Search
  <2>2. CASE ~Search
    BY <1>9, <2>2 DEF Next, Worker, CloseResults, Receive, Exit, Open, Fail, Panic, Scan, LookAt, Reserve,
       Deliver, Done, ClientCancel, Deadline, Terminated, vars, main
  <2> QED
    BY <2>1, <2>2
<1>10. CASE /\ ~SendNext /\ ~ (FlushTimer \/ FlushStream) /\ ~ (Acquire /\ outer = "live")
            /\ ~ (ReturnAggregate /\ ~err)
  <2>1. Senders'
    BY <1>2, <1>3, <1>4, <1>9, <1>10 DEF Senders
  <2> QED
    BY <1>2, <1>3, <1>4, <1>9, <1>10, <2>1, SentIsSentBy
<1> QED
  BY <1>5, <1>6, <1>7, <1>8, <1>10

\* No document that was sent is on its way again: its shard is in no other place, and of the
\* result being split only the documents not yet sent are left.
LEMMA SentOnceStep == Control /\ OnePlace /\ Senders /\ SentOnce /\ [Next]_vars => SentOnce'
<1> SUFFICES ASSUME Control, OnePlace, Senders, SentOnce, [Next]_vars PROVE SentOnce'
  OBVIOUS
<1>1. /\ \/ SendNext /\ Sent' \subseteq Sent \cup NextEvent.files
         \/ ~SendNext /\ Sent' = Sent
  BY SinkMoves
<1>2. /\ opts \in Options /\ todo \in [r : Result, max : Int, rest : SUBSET Nat]
      /\ \A d \in Sent : d \in AllDocs /\ d[1] \in Nat
  BY DocsFinite DEF Control, Typed, SentOnce
<1>3. opts' = opts
  BY Given DEF Next, Search, Worker, Acquire, Yield, Dispatch, Consume, SendNext, Finished,
     Return, FlushStream, ReturnAggregate, CloseResults, Receive, Exit, Open, Fail, Panic, Scan, LookAt, Reserve,
     Deliver, Done, FlushTimer, ClientCancel, Deadline, Terminated, vars
<1>4. AllDocs' = AllDocs
  BY <1>3, Same
<1>5. ASSUME NEW w \in Workers, Receive(w), ~SendNext PROVE SentOnce'
  <2>1. PICK x \in Result :
           /\ wk'[w] = x /\ \A v \in Workers \ {w} : wk'[v] = wk[v]
           /\ Busy' = Busy \cup {w} /\ w \notin Busy /\ x.s = Taken + 1 /\ Taken \in Nat /\ Taken' = Taken + 1
           /\ UNCHANGED <<main, results>>
    BY <1>5, ReceiveTakes
  <2>2. UNCHANGED <<todo, results>> /\ \A v \in Busy : v \in Workers
    BY <2>1 DEF main, Busy
  <2> SUFFICES ASSUME NEW d \in Sent
               PROVE  /\ d \in AllDocs /\ d[1] <= Taken'
                      /\ \A v \in Busy' : wk'[v].s # d[1]
                      /\ \A j \in DOMAIN results' : results'[j].s # d[1]
                      /\ d[1] = todo'.r.s => d[2] \notin todo'.rest
    BY <1>1, <1>4, <1>5 DEF SentOnce
  <2>3. /\ d \in AllDocs /\ d[1] <= Taken /\ d[1] \in Nat
        /\ \A v \in Busy : wk[v].s # d[1]
        /\ \A j \in DOMAIN results : results[j].s # d[1]
        /\ d[1] = todo.r.s => d[2] \notin todo.rest
    BY <1>2 DEF SentOnce
  <2>4. \A v \in Busy' : wk'[v].s # d[1]
    BY <2>1, <2>2, <2>3
  <2> QED
    BY <2>1, <2>2, <2>3, <2>4
<1>6. ASSUME NEW w \in Workers, Deliver(w), ~SendNext PROVE SentOnce'
  <2>1. /\ w \in Busy /\ Busy' = Busy \ {w} /\ \A v \in Workers \ {w} : wk'[v] = wk[v]
        /\ results'[Len(results) + 1] = wk[w] /\ \A j \in 1..Len(results) : results'[j] = results[j]
        /\ \A j \in DOMAIN results' : j = Len(results) + 1 \/ j \in DOMAIN results
        /\ DOMAIN results = 1..Len(results) /\ UNCHANGED <<main, search>> /\ Taken' = Taken
    BY <1>6, DeliverMoves
  <2>2. todo' = todo /\ \A v \in Busy' : v \in Workers \ {w} /\ v \in Busy
    BY <2>1 DEF main, Busy
  <2>3. \A d \in Sent : \A j \in DOMAIN results' : results'[j].s # d[1]
    BY <2>1 DEF SentOnce
  <2>4. \A d \in Sent : \A v \in Busy' : wk'[v].s # d[1]
    BY <2>1, <2>2 DEF SentOnce
  <2> QED
    BY <1>1, <1>4, <1>6, <2>1, <2>2, <2>3, <2>4 DEF SentOnce
<1>7. ASSUME NEW w \in Workers, Local(w) \/ Exit(w), ~SendNext PROVE SentOnce'
  <2>1. /\ UNCHANGED <<todo, results>> /\ Taken' = Taken /\ \A v \in Busy' : v \in Busy /\ wk'[v].s = wk[v].s
    BY <1>7, LocalStays
  <2> QED
    BY <1>1, <1>4, <1>7, <2>1 DEF SentOnce
<1>8. CASE Consume /\ ~SendNext
  <2>1. PICK r \in Result :
           /\ r = results[1] /\ 1 \in DOMAIN results
           /\ \A j \in DOMAIN results' : results'[j] = results[j + 1] /\ j + 1 \in DOMAIN results
           /\ todo' = todo \/ todo'.r = r
           /\ Busy' = Busy /\ wk' = wk /\ Taken' = Taken
    BY <1>8, ConsumeTakes
  <2>2. \A d \in Sent : \A j \in DOMAIN results' : results'[j].s # d[1]
    BY <2>1 DEF SentOnce
  <2>3. \A d \in Sent : d[1] # r.s
    BY <2>1 DEF SentOnce
  <2>4. \A d \in Sent : d[1] = todo'.r.s => d[2] \notin todo'.rest
    BY <2>1, <2>3 DEF SentOnce
  <2> QED
    BY <1>1, <1>4, <1>8, <2>1, <2>2, <2>4 DEF SentOnce
<1>9. CASE SendNext
  <2>1. /\ UNCHANGED <<results, wk>> /\ Busy' = Busy /\ Taken' = Taken /\ pc = "send"
        /\ todo'.rest \subseteq todo.rest /\ (todo'.r = todo.r \/ todo' = NothingToSend)
    BY <1>9, StepsOfSearch DEF SendNext
  <2>2. /\ NextEvent.files = {<<todo.r.s, i>> : i \in Run} /\ Run \subseteq todo.rest
        /\ {<<todo.r.s, i>> : i \in todo.rest} \subseteq AllDocs
        /\ ResultOK(todo.r)
    BY <2>1, NextEventOK DEF Control, Phases
  <2>3. NothingToSend.rest = {}
    BY DEF NothingToSend
  <2>4. \A i \in Run : i \notin todo'.rest
    <3>1. CASE Run = todo.rest
      BY <1>9, <2>3, <3>1 DEF SendNext
    <3>2. CASE Run # todo.rest
      <4>1. todo' = [todo EXCEPT !.rest = @ \ Run]
        BY <1>9, <3>2 DEF SendNext
      <4>2. todo'.rest = todo.rest \ Run
        BY <1>2, <4>1
      <4> QED
        BY <4>2
    <3> QED
      BY <3>1, <3>2
  <2> SUFFICES ASSUME NEW d \in Sent'
               PROVE  /\ d \in AllDocs /\ d[1] <= Taken
                      /\ \A v \in Busy : wk[v].s # d[1]
                      /\ \A j \in DOMAIN results : results[j].s # d[1]
                      /\ d[1] = todo'.r.s => d[2] \notin todo'.rest
    BY <1>4, <2>1 DEF SentOnce
  <2>5. CASE d \in Sent
    <3>1. d[1] = todo'.r.s => d[2] \notin todo'.rest
      <4> HIDE DEF NothingToSend
      <4> QED
        BY <2>1, <2>3, <2>5 DEF SentOnce
    <3> QED
      BY <2>5, <3>1 DEF SentOnce
  <2>6. CASE d \in NextEvent.files
    <3>1. PICK i \in Run : d = <<todo.r.s, i>>
      BY <2>2, <2>6
    <3>2. d[1] = todo.r.s /\ d[2] = i /\ d \in AllDocs
      BY <2>2, <3>1
    <3>3. d[1] <= Taken
      BY <1>2, <2>2, <3>2, DocsFinite DEF ResultOK
    <3> QED
      BY <2>1, <2>4, <3>2, <3>3 DEF OnePlace
  <2> QED
    BY <1>1, <1>9, <2>5, <2>6
<1>10. CASE /\ ~SendNext
            /\ \/ Acquire \/ Yield \/ Finished \/ Return \/ FlushStream \/ ReturnAggregate \/ Dispatch
               \/ CloseResults \/ FlushTimer \/ ClientCancel \/ Deadline \/ UNCHANGED vars
  <2>1. /\ UNCHANGED <<results, wk>> /\ Busy' = Busy /\ Taken' = Taken
        /\ todo'.rest \subseteq todo.rest /\ (todo'.r = todo.r \/ todo' = NothingToSend)
    BY <1>10, StepsOfSearch
  <2>2. NothingToSend.rest = {}
    BY DEF NothingToSend
  <2> HIDE DEF NothingToSend
  <2>3. \A d \in Sent : d[1] = todo'.r.s => d[2] \notin todo'.rest
    BY <2>1, <2>2 DEF SentOnce
  <2> QED
    BY <1>1, <1>4, <1>10, <2>1, <2>3 DEF SentOnce
<1> QED
  BY <1>5, <1>6, <1>7, <1>8, <1>9, <1>10 DEF Next, Search, Worker, Local, Terminated

-----------------------------------------------------------------------------
(* The budget.                                                             *)

\* Where a document that is kept is.
KeptBy(d) ==
  \/ \E w \in Busy : \E i \in wk[w].found : d = <<wk[w].s, i>>
  \/ \E j \in DOMAIN results : \E i \in results[j].found : d = <<results[j].s, i>>
  \/ \E i \in todo.rest : d = <<todo.r.s, i>>
  \/ d \in Sent

\* The documents found in several results.
LEMMA FoundIn ==
  \A I, r, d :
    d \in UNION {{<<r[w].s, i>> : i \in r[w].found} : w \in I}
      <=> \E w \in I : \E i \in r[w].found : d = <<r[w].s, i>>
<1> SUFFICES ASSUME NEW I, NEW r, NEW d
             PROVE  d \in UNION {{<<r[w].s, i>> : i \in r[w].found} : w \in I}
                      <=> \E w \in I : \E i \in r[w].found : d = <<r[w].s, i>>
  OBVIOUS
<1> DEFINE of(w) == {<<r[w].s, i>> : i \in r[w].found}
<1>1. \A w \in I : d \in of(w) <=> \E i \in r[w].found : d = <<r[w].s, i>>
  OBVIOUS
<1>2. d \in UNION {of(w) : w \in I} <=> \E w \in I : d \in of(w)
  <2> HIDE DEF of
  <2> QED
    OBVIOUS
<1> QED
  BY <1>1, <1>2

\* Nothing is kept before anything is reserved.
LEMMA ReservedInit == Init => Reserved
<1> SUFFICES ASSUME Init PROVE Reserved
  OBVIOUS
<1>1. /\ Busy = {} /\ results = <<>> /\ used = 0 /\ Budget \in Nat
      /\ todo.rest = {} /\ Sent = {}
  <2>1. Control /\ opts \in Options /\ pc = "acquire" /\ todo = NothingToSend /\ used = 0
    BY ControlInit DEF Init
  <2>2. sink.out = <<>> /\ sink.agg = NoAgg
    BY DEF Init
  <2> QED
    BY <2>1, <2>2, Given DEF Control, Phases, NothingToSend, Sent, Delivered, FilesOf
<1>2. Retained = {}
  BY <1>1 DEF Retained
<1> QED
  BY <1>1, <1>2, FS_EmptySet DEF Reserved

\* What a search is given does not change.
LEMMA OptsStay == [Next]_vars => opts' = opts
<1> QED
  BY DEF Next, Search, Worker, Acquire, Yield, Dispatch, Consume, SendNext, Finished,
     Return, FlushStream, ReturnAggregate, CloseResults, Receive, Exit, Open, Fail, Panic, Scan, LookAt, Reserve,
     Deliver, Done, FlushTimer, ClientCancel, Deadline, Terminated, vars

\* Only a reservation that succeeds keeps a document that was not kept, and it counts it.
LEMMA RetainedStep ==
  ASSUME Control, Senders, SentOnce, [Next]_vars
  PROVE  \/ Retained' \subseteq Retained /\ used' = used
         \/ \E w \in Busy : /\ wk[w].st = "reserve" /\ used' = used + 1 /\ used < Budget
                            /\ Retained' \subseteq Retained \cup {<<wk[w].s, wk[w].n>>}
<1> DEFINE Goal == \/ Retained' \subseteq Retained /\ used' = used
                   \/ \E w \in Busy : /\ wk[w].st = "reserve" /\ used' = used + 1 /\ used < Budget
                                      /\ Retained' \subseteq Retained \cup {<<wk[w].s, wk[w].n>>}
<1>1. /\ \/ SendNext /\ Sent' \subseteq Sent \cup NextEvent.files
         \/ ~SendNext /\ Sent' = Sent
  BY SinkMoves
<1>2. /\ opts \in Options /\ todo \in [r : Result, max : Int, rest : SUBSET Nat] /\ wk \in [Workers -> Result]
      /\ used \in Nat /\ Budget \in Nat /\ opts' = opts
  BY Given DEF Control, Typed, Next, Search, Worker, Acquire, Yield, Dispatch, Consume, SendNext, Finished,
     Return, FlushStream, ReturnAggregate, CloseResults, Receive, Exit, Open, Fail, Panic, Scan, LookAt, Reserve,
     Deliver, Done, FlushTimer, ClientCancel, Deadline, Terminated, vars
<1>3. \A d : d \in Retained <=> KeptBy(d)
  <2> SUFFICES ASSUME NEW d PROVE d \in Retained <=> KeptBy(d)
    OBVIOUS
  <2> DEFINE A == UNION {{<<wk[w].s, i>> : i \in wk[w].found} : w \in Busy}
             B == UNION {{<<results[j].s, i>> : i \in results[j].found} : j \in DOMAIN results}
             C == {<<todo.r.s, i>> : i \in todo.rest}
  <2>1. d \in A <=> \E w \in Busy : \E i \in wk[w].found : d = <<wk[w].s, i>>
    BY FoundIn
  <2>2. d \in B <=> \E j \in DOMAIN results : \E i \in results[j].found : d = <<results[j].s, i>>
    BY FoundIn
  <2>3. d \in C <=> \E i \in todo.rest : d = <<todo.r.s, i>>
    OBVIOUS
  <2>4. Retained = A \cup B \cup C \cup Sent
    BY DEF Retained
  <2> HIDE DEF A, B, C
  <2> QED
    BY <2>1, <2>2, <2>3, <2>4 DEF KeptBy
<1>4. \A d : d \in Retained' <=> KeptBy(d)'
  <2> SUFFICES ASSUME NEW d PROVE d \in Retained' <=> KeptBy(d)'
    OBVIOUS
  <2> DEFINE A == UNION {{<<wk'[w].s, i>> : i \in wk'[w].found} : w \in Busy'}
             B == UNION {{<<results'[j].s, i>> : i \in results'[j].found} : j \in DOMAIN results'}
             C == {<<todo'.r.s, i>> : i \in todo'.rest}
  <2>1. d \in A <=> \E w \in Busy' : \E i \in wk'[w].found : d = <<wk'[w].s, i>>
    BY FoundIn
  <2>2. d \in B <=> \E j \in DOMAIN results' : \E i \in results'[j].found : d = <<results'[j].s, i>>
    BY FoundIn
  <2>3. d \in C <=> \E i \in todo'.rest : d = <<todo'.r.s, i>>
    OBVIOUS
  <2>4. Retained' = A \cup B \cup C \cup Sent'
    BY DEF Retained
  <2> HIDE DEF A, B, C
  <2> QED
    BY <2>1, <2>2, <2>3, <2>4 DEF KeptBy
<1>6. ASSUME \A d : KeptBy(d)' => KeptBy(d), used' = used PROVE Goal
  BY <1>3, <1>4, <1>6
<1> HIDE DEF Goal
<1>7. ASSUME NEW w \in Workers, Receive(w), ~SendNext PROVE Goal
  <2>1. PICK x \in Result :
           /\ wk'[w] = x /\ \A v \in Workers \ {w} : wk'[v] = wk[v]
           /\ Busy' = Busy \cup {w} /\ w \notin Busy /\ x.found = {}
           /\ UNCHANGED <<main, results, used>>
    BY <1>7, ReceiveTakes
  <2>2. /\ UNCHANGED <<todo, results>> /\ x.found = {}
        /\ \A v \in Busy' : v = w \/ (v \in Busy /\ wk'[v] = wk[v])
    BY <2>1 DEF main, Busy
  <2>3. \A d : KeptBy(d)' => KeptBy(d)
    BY <1>1, <1>7, <2>1, <2>2 DEF KeptBy
  <2> QED
    BY <1>6, <2>1, <2>3
<1>8. ASSUME NEW w \in Workers, Deliver(w), ~SendNext PROVE Goal
  <2>1. /\ w \in Busy /\ Busy' = Busy \ {w} /\ \A v \in Workers \ {w} : wk'[v] = wk[v]
        /\ results'[Len(results) + 1] = wk[w] /\ \A j \in 1..Len(results) : results'[j] = results[j]
        /\ \A j \in DOMAIN results' : j = Len(results) + 1 \/ j \in DOMAIN results
        /\ DOMAIN results = 1..Len(results) /\ UNCHANGED <<main, used>>
    BY <1>8, DeliverMoves
  <2>2. todo' = todo /\ \A v \in Busy' : v \in Busy /\ wk'[v] = wk[v]
    BY <2>1 DEF main, Busy
  <2>3. ASSUME NEW d, KeptBy(d)' PROVE KeptBy(d)
    <3>1. CASE \E v \in Busy' : \E i \in wk'[v].found : d = <<wk'[v].s, i>>
      BY <2>2, <3>1 DEF KeptBy
    <3>2. CASE \E j \in DOMAIN results' : \E i \in results'[j].found : d = <<results'[j].s, i>>
      <4>1. PICK j \in DOMAIN results' : \E i \in results'[j].found : d = <<results'[j].s, i>>
        BY <3>2
      <4>2. CASE j = Len(results) + 1
        BY <2>1, <4>1, <4>2 DEF KeptBy
      <4>3. CASE j \in DOMAIN results
        BY <2>1, <4>1, <4>3 DEF KeptBy
      <4> QED
        BY <2>1, <4>2, <4>3
    <3>3. CASE (\E i \in todo'.rest : d = <<todo'.r.s, i>>) \/ d \in Sent'
      BY <1>1, <1>8, <2>2, <3>3 DEF KeptBy
    <3> QED
      BY <2>3, <3>1, <3>2, <3>3 DEF KeptBy
  <2> QED
    BY <1>6, <2>1, <2>3
<1>9. ASSUME NEW w \in Workers, Exit(w), ~SendNext PROVE Goal
  <2>1. /\ UNCHANGED <<todo, results>> /\ \A v \in Workers \ {w} : wk'[v] = wk[v]
        /\ \A v \in Busy' : v \in Busy /\ v \in Workers
    BY <1>9, LocalStays
  <2>2. w \notin Busy /\ used' = used
    BY <1>9 DEF Exit, Busy
  <2>3. \A v \in Busy' : v \in Busy /\ wk'[v] = wk[v]
    BY <2>1, <2>2
  <2>4. \A d : KeptBy(d)' => KeptBy(d)
    BY <1>1, <1>9, <2>1, <2>3 DEF KeptBy
  <2> QED
    BY <1>6, <2>2, <2>4
<1>10. ASSUME NEW w \in Workers, Local(w), ~SendNext PROVE Goal
  <2>1. /\ UNCHANGED <<todo, results>> /\ \A v \in Workers \ {w} : wk'[v] = wk[v]
        /\ \A v \in Busy' : v \in Busy /\ v \in Workers
    BY <1>10, LocalStays
  <2>2. PICK x \in Result : LocalTo(w, x)
    BY <1>10, LocalStep
  <2>3. wk'[w] = x /\ x.s = wk[w].s /\ x.found \in SUBSET Nat /\ wk[w].found \in SUBSET Nat /\ w \in Busy
    BY <1>2, <2>2 DEF LocalTo, Result, Busy
  <2>4. ASSUME NEW d, KeptBy(d)', \A i \in x.found : d = <<wk[w].s, i>> => KeptBy(d) PROVE KeptBy(d)
    <3>1. ASSUME NEW v \in Busy', NEW i \in wk'[v].found, d = <<wk'[v].s, i>> PROVE KeptBy(d)
      <4>1. CASE v = w
        BY <2>3, <2>4, <3>1, <4>1
      <4>2. CASE v # w
        <5>1. v \in Busy /\ wk'[v] = wk[v]
          BY <2>1, <4>2
        <5> QED
          BY <3>1, <5>1 DEF KeptBy
      <4> QED
        BY <4>1, <4>2
    <3>2. CASE \/ \E j \in DOMAIN results' : \E i \in results'[j].found : d = <<results'[j].s, i>>
               \/ \E i \in todo'.rest : d = <<todo'.r.s, i>>
               \/ d \in Sent'
      BY <1>1, <1>10, <2>1, <3>2 DEF KeptBy
    <3> QED
      BY <2>4, <3>1, <3>2 DEF KeptBy
  <2>5. CASE x.found \subseteq wk[w].found /\ used' = used
    <3>1. \A d : KeptBy(d)' => KeptBy(d)
      BY <2>3, <2>4, <2>5 DEF KeptBy
    <3> QED
      BY <1>6, <2>5, <3>1
  <2>6. CASE x.found = wk[w].found \cup {wk[w].n} /\ wk[w].st = "reserve" /\ used' = used + 1 /\ used < Budget
    <3> DEFINE e == <<wk[w].s, wk[w].n>>
    <3>1. \A i \in x.found : i = wk[w].n \/ i \in wk[w].found
      BY <2>6
    <3>2. \A d : KeptBy(d)' => KeptBy(d) \/ d = e
      BY <2>3, <2>4, <3>1 DEF KeptBy
    <3>3. Retained' \subseteq Retained \cup {e}
      BY <1>3, <1>4, <3>2
    <3> QED
      BY <2>3, <2>6, <3>3 DEF Goal
  <2> QED
    BY <2>2, <2>5, <2>6 DEF LocalTo
<1>11. ASSUME Consume, ~SendNext PROVE Goal
  <2>1. PICK r \in Result :
           /\ r = results[1] /\ 1 \in DOMAIN results
           /\ \A j \in DOMAIN results' : results'[j] = results[j + 1] /\ j + 1 \in DOMAIN results
           /\ todo' = todo \/ (todo'.r = r /\ todo'.rest = r.found)
           /\ Busy' = Busy /\ wk' = wk /\ used' = used
    BY <1>11, ConsumeTakes
  <2>2. ASSUME NEW d, KeptBy(d)' PROVE KeptBy(d)
    <3>1. CASE (\E w \in Busy' : \E i \in wk'[w].found : d = <<wk'[w].s, i>>) \/ d \in Sent'
      BY <1>1, <1>11, <2>1, <3>1 DEF KeptBy
    <3>2. CASE \E j \in DOMAIN results' : \E i \in results'[j].found : d = <<results'[j].s, i>>
      BY <2>1, <3>2 DEF KeptBy
    <3>3. CASE \E i \in todo'.rest : d = <<todo'.r.s, i>>
      BY <2>1, <3>3 DEF KeptBy
    <3> QED
      BY <2>2, <3>1, <3>2, <3>3 DEF KeptBy
  <2>3. used' = used
    BY <2>1
  <2> QED
    BY <1>6, <2>2, <2>3
<1>12. ASSUME \/ Acquire \/ Yield \/ SendNext \/ Finished \/ Return \/ FlushStream \/ ReturnAggregate \/ Dispatch
              \/ CloseResults \/ FlushTimer \/ ClientCancel \/ Deadline \/ UNCHANGED vars
       PROVE  Goal
  <2>1. /\ UNCHANGED <<results, wk, used>> /\ Busy' = Busy
        /\ todo'.rest \subseteq todo.rest /\ (todo'.r = todo.r \/ todo' = NothingToSend)
    BY <1>12, StepsOfSearch
  <2>2. NothingToSend.rest = {}
    BY DEF NothingToSend
  <2> HIDE DEF NothingToSend
  <2>3. SendNext => /\ NextEvent.files = {<<todo.r.s, i>> : i \in Run} /\ Run \subseteq todo.rest
    BY NextEventOK DEF SendNext
  <2>4. \A d : d \in Sent' => KeptBy(d)
    BY <1>1, <2>3 DEF KeptBy
  <2>5. \A d : (\E i \in todo'.rest : d = <<todo'.r.s, i>>) => \E i \in todo.rest : d = <<todo.r.s, i>>
    BY <2>1, <2>2
  <2>6. \A d : KeptBy(d)' => KeptBy(d)
    BY <2>1, <2>4, <2>5 DEF KeptBy
  <2>7. used' = used
    BY <2>1
  <2> QED
    BY <1>6, <2>6, <2>7
<1> QED
  BY <1>7, <1>8, <1>9, <1>10, <1>11, <1>12 DEF Goal, Next, Search, Worker, Local, Terminated

\* The budget is never exceeded.
LEMMA ReservedStep == Control /\ Senders /\ SentOnce /\ Reserved /\ [Next]_vars => Reserved'
<1> SUFFICES ASSUME Control, Senders, SentOnce, Reserved, [Next]_vars PROVE Reserved'
  OBVIOUS
<1>1. /\ used \in Nat /\ Budget \in Nat /\ Budget' = Budget
  <2>1. opts' = opts /\ opts \in Options /\ used \in Nat
    BY OptsStay DEF Control, Typed
  <2> QED
    BY <2>1, Given DEF Budget
<1>2. IsFiniteSet(Retained) /\ Cardinality(Retained) \in Nat /\ Cardinality(Retained) <= used /\ used <= Budget
  BY FS_CardinalityType DEF Reserved
<1>3. CASE Retained' \subseteq Retained /\ used' = used
  <2>1. IsFiniteSet(Retained') /\ Cardinality(Retained') <= Cardinality(Retained)
    BY <1>2, <1>3, FS_Subset
  <2>2. Cardinality(Retained') \in Nat
    BY <2>1, FS_CardinalityType
  <2> QED
    BY <1>1, <1>2, <1>3, <2>1, <2>2 DEF Reserved
<1>4. ASSUME NEW e, Retained' \subseteq Retained \cup {e}, used' = used + 1, used < Budget PROVE Reserved'
  <2>1. /\ IsFiniteSet(Retained \cup {e})
        /\ Cardinality(Retained \cup {e}) = Cardinality(Retained)
           \/ Cardinality(Retained \cup {e}) = Cardinality(Retained) + 1
    BY <1>2, FS_AddElement
  <2>2. IsFiniteSet(Retained') /\ Cardinality(Retained') <= Cardinality(Retained \cup {e})
    BY <1>4, <2>1, FS_Subset
  <2>3. Cardinality(Retained') \in Nat
    BY <2>2, FS_CardinalityType
  <2> QED
    BY <1>1, <1>2, <1>4, <2>1, <2>2, <2>3 DEF Reserved
<1> QED
  BY <1>3, <1>4, RetainedStep

\* The limits hold of a search that has kept nothing.
LEMMA LimitedInit == Init => Limited
<1> SUFFICES ASSUME Init PROVE Limited
  OBVIOUS
<1>1. opts \in Options /\ Busy = {} /\ results = <<>> /\ todo.rest = {} /\ Sent = {}
  <2>1. Control /\ opts \in Options /\ pc = "acquire" /\ todo = NothingToSend
    BY ControlInit DEF Init
  <2>2. sink.out = <<>> /\ sink.agg = NoAgg
    BY DEF Init
  <2> QED
    BY <2>1, <2>2 DEF Control, Phases, NothingToSend, Sent, Delivered, FilesOf
<1>2. Retained = {}
  BY <1>1 DEF Retained
<1>3. ShardMax \in Nat /\ ShardRepoMax \in Nat
  BY <1>1, Given
<1>4. ShardLimitsKept
  BY <1>2, <1>3, FS_EmptySet DEF ShardLimitsKept, KeptOf
<1> QED
  BY <1>1, <1>4 DEF Limited

\* A worker keeps count of the documents it found in its shard, and stops at the limits.
LEMMA CountStep ==
  ASSUME Control, NEW w \in Workers, Local(w), Counted(w)
  PROVE  Counted(w)'
<1> DEFINE r == wk[w]
           q == wk'[w]
           len == Len(Docs[r.s])
           Goal == Counted(w)'
<1>1. /\ r \in Result /\ r.n \in Nat /\ r.found \in SUBSET Nat /\ r.matches \in Nat /\ wk \in [Workers -> Result] /\ At(r)
      /\ used \in Nat /\ ShardMax \in Nat /\ ShardRepoMax \in Nat /\ opts' = opts
  BY OptsStay, Given DEF Control, Typed, Result, WorkerOK, Next, Worker, Local
<1>2. /\ ShardMax' = ShardMax /\ ShardRepoMax' = ShardRepoMax /\ Docs' = Docs
      /\ \A s, repo : InRepo(s, repo)' = InRepo(s, repo)
  BY <1>1, Same DEF ShardMax, ShardRepoMax, InRepo
<1>3. r.st \notin {"idle", "gone"} =>
        /\ len \in Nat /\ DOMAIN Docs[r.s] = 1..len /\ r.found \subseteq 1..len
        /\ IsFiniteSet(r.found) /\ Cardinality(r.found) \in Nat
  <2>1. opts \in Options /\ N \in Nat /\ Len(search) \in Nat /\ shard \in 0..N
    BY Given, LenProperties DEF Control, Typed
  <2>2. r.st \notin {"idle", "gone"} => r.s \in 1..N /\ r.found \subseteq Matching(r.s)
    BY <2>1 DEF Control, WorkerOK, Busy, ResultOK, Taken
  <2> HIDE DEF r
  <2>3. ASSUME r.st \notin {"idle", "gone"} PROVE len \in Nat /\ DOMAIN Docs[r.s] = 1..len /\ Matching(r.s) \subseteq 1..len
    BY <2>1, <2>2, <2>3, Given
  <2>4. ASSUME r.st \notin {"idle", "gone"} PROVE IsFiniteSet(r.found)
    <3>1. len \in Int
      BY <2>3, <2>4
    <3>2. r.found \subseteq 1..len
      BY <2>2, <2>3, <2>4
    <3> HIDE DEF len
    <3>3. IsFiniteSet(1..len)
      BY <3>1, FS_Interval
    <3> QED
      BY <3>2, <3>3, FS_Subset
  <2> QED
    BY <2>2, <2>3, <2>4, FS_CardinalityType
<1>4. /\ r.st \in {"open", "scan"} => r.matches = Cardinality(r.found)
      /\ r.st = "reserve" =>
           /\ ShardMax > 0 => Cardinality(r.found) < ShardMax
           /\ ShardRepoMax > 0 => Cardinality(r.found \cap InRepo(r.s, Docs[r.s][r.n].repo)) < ShardRepoMax
           /\ r.matches = Cardinality(r.found) + 1
  BY DEF Counted
<1>5. ASSUME /\ q.st \in {"open", "scan"} => q.matches = Cardinality(q.found)
             /\ q.st = "reserve" =>
                  /\ ShardMax > 0 => Cardinality(q.found) < ShardMax
                  /\ ShardRepoMax > 0 => Cardinality(q.found \cap InRepo(q.s, Docs[q.s][q.n].repo)) < ShardRepoMax
                  /\ q.matches = Cardinality(q.found) + 1
      PROVE  Goal
  BY <1>2, <1>5 DEF Counted
<1> HIDE DEF r, q, len, Goal
<1>6. ASSUME NEW x \in Result, NEW more, Done(w, x, more) PROVE Goal
  <2>1. q.st = "found"
    BY <1>1, <1>6 DEF Done, q, Result
  <2> QED
    BY <1>5, <2>1
<1>7. ASSUME NEW x \in Result, wk' = [wk EXCEPT ![w] = x] PROVE q = x
  BY <1>1, <1>7 DEF q
<1>8. ASSUME Open(w) PROVE Goal
  <2>1. ASSUME Done(w, r, {}) PROVE Goal
    BY <1>1, <1>6, <2>1
  <2>2. ASSUME wk' = [wk EXCEPT ![w].st = "scan", ![w].n = 1] PROVE Goal
    <3>1. q.st = "scan" /\ q.found = r.found /\ q.matches = r.matches
      BY <1>1, <2>2 DEF q, r, Result
    <3>2. r.st = "open"
      BY <1>8 DEF Open, r
    <3> QED
      BY <1>4, <1>5, <3>1, <3>2
  <2> QED
    BY <1>8, <2>1, <2>2 DEF Open, r
<1>9. ASSUME Fail(w) \/ Panic(w) PROVE Goal
  <2>1. [Lost(r) EXCEPT !.err = TRUE] \in Result /\ [Lost(r) EXCEPT !.crash = 1] \in Result
    BY <1>1, IdleType DEF Lost, Result
  <2> QED
    BY <1>6, <1>9, <2>1 DEF Fail, Panic, r
<1>10. ASSUME Scan(w) PROVE Goal
  <2>1. r.st = "scan" /\ r.matches = Cardinality(r.found) /\ Cardinality(r.found) \in Nat
    BY <1>3, <1>4, <1>10 DEF Scan, r
  <2>2. PICK i \in 1..len + 1 :
          /\ NextDoc(r, i)
          /\ (\E more : Done(w, r, more)) \/ (i <= len /\ ~Halted(r) /\ LookAt(w, i))
    BY <1>10 DEF Scan, r, len
  <2>3. ASSUME i <= len, ~Halted(r), LookAt(w, i) PROVE Goal
    <3> DEFINE x == IF Docs[r.s][i].match
                    THEN [r EXCEPT !.st = "reserve", !.n = i, !.matches = @ + 1, !.seen = used]
                    ELSE [r EXCEPT !.n = i + 1]
               Same_ == r.found \cap InRepo(r.s, Docs[r.s][i].repo)
    <3>1. wk' = [wk EXCEPT ![w] = x]
      BY <2>3 DEF LookAt, r
    <3>2. /\ (x.st = "reserve" /\ x.n = i /\ x.matches = r.matches + 1) \/ (x.st = "scan" /\ x.matches = r.matches)
          /\ x.found = r.found /\ x.s = r.s
      BY <1>1, <2>1 DEF Result
    <3>3. q = x
      BY <1>1, <3>1 DEF q
    <3>4. ShardMax > 0 => Cardinality(r.found) < ShardMax
      BY <1>1, <2>1, <2>3 DEF Halted
    <3>5. ShardRepoMax > 0 => Cardinality(Same_) < ShardRepoMax
      <4>1. Same_ = {j \in r.found : Docs[r.s][j].repo = Docs[r.s][i].repo}
        BY <1>3, <2>1 DEF InRepo
      <4>2. IsFiniteSet(Same_) /\ Cardinality(Same_) \in Nat
        BY <1>3, <2>1, FS_Subset, FS_CardinalityType
      <4>3. ShardRepoMax > 0 => ~ (Cardinality(Same_) >= ShardRepoMax)
        BY <2>2, <2>3, <4>1 DEF NextDoc, RepoDone, len
      <4> HIDE DEF Same_
      <4> QED
        BY <1>1, <4>2, <4>3
    <3> HIDE DEF x
    <3> QED
      BY <1>5, <2>1, <3>2, <3>3, <3>4, <3>5
  <2> QED
    BY <1>1, <1>6, <2>2, <2>3
<1>11. ASSUME Reserve(w) PROVE Goal
  <2>1. r.st = "reserve" /\ (\A i \in r.found : i < r.n)
    BY <1>1, <1>11 DEF Reserve, r, At
  <2>2. ASSUME Done(w, r, {"ResponseLimit"}) PROVE Goal
    BY <1>1, <1>6, <2>2
  <2>3. ASSUME wk' = [wk EXCEPT ![w].st = "scan", ![w].n = @ + 1, ![w].found = @ \cup {r.n}] PROVE Goal
    <3>1. q.st = "scan" /\ q.found = r.found \cup {r.n} /\ q.matches = r.matches
      BY <1>1, <2>3 DEF q, r, Result
    <3>2. r.n \notin r.found
      BY <1>1, <2>1
    <3>3. Cardinality(r.found \cup {r.n}) = Cardinality(r.found) + 1
      BY <1>3, <2>1, <3>2, FS_AddElement
    <3> QED
      BY <1>4, <1>5, <2>1, <3>1, <3>3
  <2>4. ASSUME wk' = [wk EXCEPT ![w].seen = used] PROVE Goal
    <3>1. q.st = r.st /\ q.n = r.n /\ q.s = r.s /\ q.found = r.found /\ q.matches = r.matches
      BY <1>1, <2>4 DEF q, r, Result
    <3> QED
      BY <1>4, <1>5, <3>1
  <2> QED
    BY <1>11, <2>2, <2>3, <2>4 DEF Reserve, r
<1> QED
  BY <1>8, <1>9, <1>10, <1>11 DEF Local, Goal

\* What is kept of a shard that a worker scans is what the worker has found in it.
LEMMA KeptByWorker ==
  ASSUME Control, OnePlace, SentOnce, NEW w \in Busy
  PROVE  KeptOf(wk[w].s) \subseteq wk[w].found
<1> DEFINE t == wk[w].s
<1>1. ASSUME NEW i, <<t, i>> \in Retained PROVE i \in wk[w].found
  <2> DEFINE d == <<t, i>>
             A == UNION {{<<wk[v].s, k>> : k \in wk[v].found} : v \in Busy}
             B == UNION {{<<results[j].s, k>> : k \in results[j].found} : j \in DOMAIN results}
             C == {<<todo.r.s, k>> : k \in todo.rest}
  <2>1. d \in A \cup B \cup C \cup Sent
    BY <1>1 DEF Retained
  <2>2. CASE d \in A
    <3>1. PICK v \in Busy : \E k \in wk[v].found : d = <<wk[v].s, k>>
      BY <2>2, FoundIn
    <3>2. v = w
      BY <3>1 DEF OnePlace
    <3> QED
      BY <3>1, <3>2
  <2>3. CASE d \in B
    <3>1. PICK j \in DOMAIN results : \E k \in results[j].found : d = <<results[j].s, k>>
      BY <2>3, FoundIn
    <3> QED
      BY <3>1 DEF OnePlace
  <2>4. CASE d \in C
    <3>1. todo.r.s = t /\ todo.rest # {}
      BY <2>4
    <3>2. pc = "send"
      BY <3>1 DEF Control, Phases, NothingToSend
    <3> QED
      BY <3>1, <3>2 DEF OnePlace
  <2>5. CASE d \in Sent
    BY <2>5 DEF SentOnce
  <2> QED
    BY <2>1, <2>2, <2>3, <2>4, <2>5
<1> QED
  BY <1>1 DEF KeptOf

\* The limits on a shard and on a repository of it hold of whatever the workers, the channel and
\* the senders keep.
LEMMA ShardLimitsStep ==
  ASSUME Control, OnePlace, Senders, SentOnce, Limited, [Next]_vars
  PROVE  ShardLimitsKept'
<1>1. /\ opts' = opts /\ opts \in Options /\ N' = N /\ Docs' = Docs /\ Repos' = Repos /\ Shards' = Shards
      /\ ShardMax' = ShardMax /\ ShardRepoMax' = ShardRepoMax
      /\ ShardMax \in Nat /\ ShardRepoMax \in Nat /\ Shards = 1..N
  BY OptsStay, Same, Given DEF Control, Typed, ShardMax, ShardRepoMax
<1>2. ASSUME NEW s \in Shards
      PROVE  /\ ShardMax > 0 => Cardinality(KeptOf(s)') <= ShardMax
             /\ ShardRepoMax > 0 => \A repo \in DOMAIN Repos[s] :
                  Cardinality({i \in KeptOf(s)' : Docs[s][i].repo = repo}) <= ShardRepoMax
  <2> DEFINE K == KeptOf(s)
             L == KeptOf(s)'
             Of(F, repo) == {i \in F : Docs[s][i].repo = repo}
  <2>1. /\ IsFiniteSet(K) /\ IsFiniteSet(L) /\ K \subseteq DOMAIN Docs[s] /\ L \subseteq DOMAIN Docs[s]
        /\ IsFiniteSet(DOMAIN Docs[s])
    <3>1. IsFiniteSet(DOMAIN Docs[s])
      <4>1. Len(Docs[s]) \in Nat /\ DOMAIN Docs[s] = 1..Len(Docs[s])
        BY <1>1, Given
      <4>2. IsFiniteSet(1..Len(Docs[s]))
        BY <4>1, FS_Interval
      <4> QED
        BY <4>1, <4>2
    <3>2. K \subseteq DOMAIN Docs[s] /\ L \subseteq DOMAIN Docs[s]
      BY <1>1 DEF KeptOf
    <3> QED
      BY <3>1, <3>2, FS_Subset
  <2>2. /\ ShardMax > 0 => Cardinality(K) <= ShardMax
        /\ ShardRepoMax > 0 => \A repo \in DOMAIN Repos[s] : Cardinality(Of(K, repo)) <= ShardRepoMax
    BY DEF Limited, ShardLimitsKept
  <2>3. \A i : i \in K => <<s, i>> \in Retained
    BY DEF KeptOf
  <2>4. \A i : i \in L <=> i \in DOMAIN Docs[s] /\ <<s, i>> \in Retained'
    BY <1>1 DEF KeptOf
  <2>5. \A i : i \in K <=> i \in DOMAIN Docs[s] /\ <<s, i>> \in Retained
    BY DEF KeptOf
  <2> HIDE DEF K, L
  <2>6. \A F, G, repo : F \subseteq G => Of(F, repo) \subseteq Of(G, repo)
    OBVIOUS
  <2>7. \A repo : IsFiniteSet(Of(K, repo)) /\ IsFiniteSet(Of(L, repo))
    BY <2>1, FS_Subset
  <2> HIDE DEF Of
  <2>8. ASSUME NEW F, NEW G, IsFiniteSet(G), F \subseteq G, NEW n \in Nat, Cardinality(G) <= n PROVE Cardinality(F) <= n
    BY <2>8, FS_Subset, FS_CardinalityType
  <2>9. ASSUME L \subseteq K
        PROVE  /\ ShardMax > 0 => Cardinality(L) <= ShardMax
               /\ ShardRepoMax > 0 => \A repo \in DOMAIN Repos[s] : Cardinality(Of(L, repo)) <= ShardRepoMax
    <3>1. ASSUME ShardMax > 0 PROVE Cardinality(L) <= ShardMax
      BY <1>1, <2>1, <2>2, <2>8, <2>9, <3>1
    <3>2. ASSUME ShardRepoMax > 0, NEW repo \in DOMAIN Repos[s] PROVE Cardinality(Of(L, repo)) <= ShardRepoMax
      <4>1. Of(L, repo) \subseteq Of(K, repo) /\ IsFiniteSet(Of(K, repo)) /\ Cardinality(Of(K, repo)) <= ShardRepoMax
        BY <2>2, <2>6, <2>7, <2>9, <3>2
      <4> QED
        BY <1>1, <2>8, <4>1
    <3> QED
      BY <3>1, <3>2
  <2>10. ASSUME NEW w \in Busy, wk[w].st = "reserve", wk[w].s = s, L \subseteq K \cup {wk[w].n}
         PROVE  /\ ShardMax > 0 => Cardinality(L) <= ShardMax
                /\ ShardRepoMax > 0 => \A repo \in DOMAIN Repos[s] : Cardinality(Of(L, repo)) <= ShardRepoMax
    <3> DEFINE F == wk[w].found
    <3>1. PICK n : n = wk[w].n
      OBVIOUS
    <3>2. K \subseteq F
      BY <2>10, KeptByWorker DEF K
    <3>3. F \subseteq DOMAIN Docs[s]
      <4>1. ResultOK(wk[w])
        BY DEF Control, WorkerOK, Busy
      <4> QED
        BY <2>10, <4>1 DEF ResultOK, Matching
    <3>4. IsFiniteSet(F)
      BY <2>1, <3>3, FS_Subset
    <3>5. /\ ShardMax > 0 => Cardinality(F) < ShardMax
          /\ ShardRepoMax > 0 => Cardinality(F \cap InRepo(s, Docs[s][n].repo)) < ShardRepoMax
      BY <2>10, <3>1 DEF Limited, Counted
    <3>6. F \cap InRepo(s, Docs[s][n].repo) = Of(F, Docs[s][n].repo)
      BY <3>3 DEF InRepo, Of
    <3> HIDE DEF F
    <3>7. ASSUME NEW G, IsFiniteSet(G), NEW m \in Nat, Cardinality(G) < m
          PROVE  IsFiniteSet(G \cup {n}) /\ Cardinality(G \cup {n}) <= m
      <4>1. IsFiniteSet(G \cup {n}) /\ Cardinality(G) \in Nat
        BY <3>7, FS_AddElement, FS_CardinalityType
      <4>2. Cardinality(G \cup {n}) = Cardinality(G) \/ Cardinality(G \cup {n}) = Cardinality(G) + 1
        BY <3>7, FS_AddElement
      <4> QED
        BY <3>7, <4>1, <4>2
    <3>8. ASSUME ShardMax > 0 PROVE Cardinality(L) <= ShardMax
      <4>1. IsFiniteSet(F \cup {n}) /\ Cardinality(F \cup {n}) <= ShardMax
        BY <1>1, <3>4, <3>5, <3>7, <3>8
      <4>2. L \subseteq F \cup {n}
        BY <2>10, <3>1, <3>2
      <4> QED
        BY <1>1, <2>8, <4>1, <4>2
    <3>9. ASSUME ShardRepoMax > 0, NEW repo \in DOMAIN Repos[s] PROVE Cardinality(Of(L, repo)) <= ShardRepoMax
      <4>1. CASE repo = Docs[s][n].repo
        <5>1. IsFiniteSet(Of(F, repo)) /\ Cardinality(Of(F, repo)) < ShardRepoMax
          BY <3>4, <3>5, <3>6, <3>9, <4>1, FS_Subset DEF Of
        <5>2. IsFiniteSet(Of(F, repo) \cup {n}) /\ Cardinality(Of(F, repo) \cup {n}) <= ShardRepoMax
          BY <1>1, <3>7, <5>1
        <5>3. Of(L, repo) \subseteq Of(F, repo) \cup {n}
          BY <2>10, <3>1, <3>2 DEF Of
        <5> QED
          BY <1>1, <2>8, <5>2, <5>3
      <4>2. CASE repo # Docs[s][n].repo
        <5>1. Of(L, repo) \subseteq Of(K, repo)
          BY <2>10, <3>1, <4>2 DEF Of
        <5> QED
          BY <1>1, <2>2, <2>7, <2>8, <3>9, <5>1
      <4> QED
        BY <4>1, <4>2
    <3> QED
      BY <3>8, <3>9
  <2>11. CASE Retained' \subseteq Retained
    BY <2>4, <2>5, <2>9, <2>11 DEF L, Of
  <2>12. ASSUME NEW w \in Busy, wk[w].st = "reserve", Retained' \subseteq Retained \cup {<<wk[w].s, wk[w].n>>}
         PROVE  /\ ShardMax > 0 => Cardinality(L) <= ShardMax
                /\ ShardRepoMax > 0 => \A repo \in DOMAIN Repos[s] : Cardinality(Of(L, repo)) <= ShardRepoMax
    <3>1. CASE wk[w].s = s
      <4>1. L \subseteq K \cup {wk[w].n}
        <5>1. PICK n : n = wk[w].n
          OBVIOUS
        <5>2. \A i : <<s, i>> = <<s, n>> => i = n
          OBVIOUS
        <5>3. \A i : <<s, i>> \in Retained' => <<s, i>> \in Retained \/ i = n
          BY <2>12, <3>1, <5>1, <5>2
        <5> QED
          BY <2>4, <2>5, <5>1, <5>3
      <4> QED
        BY <2>10, <2>12, <3>1, <4>1
    <3>2. CASE wk[w].s # s
      <4>1. L \subseteq K
        <5>1. \A i : <<s, i>> # <<wk[w].s, wk[w].n>>
          BY <3>2
        <5>2. \A i : <<s, i>> \in Retained' => <<s, i>> \in Retained
          BY <2>12, <5>1
        <5> QED
          BY <2>4, <2>5, <5>2
      <4> QED
        BY <2>9, <4>1
    <3> QED
      BY <3>1, <3>2
  <2> QED
    BY <2>11, <2>12, RetainedStep DEF L, Of
<1> QED
  BY <1>1, <1>2 DEF ShardLimitsKept

\* Every step keeps the limits.
LEMMA LimitedStep ==
  Control /\ OnePlace /\ Senders /\ SentOnce /\ Limited /\ [Next]_vars => Limited'
<1> SUFFICES ASSUME Control, OnePlace, Senders, SentOnce, Limited, [Next]_vars PROVE Limited'
  OBVIOUS
<1>1. /\ opts' = opts /\ wk \in [Workers -> Result] /\ \A w \in Busy : Counted(w)
      /\ ShardMax' = ShardMax /\ ShardRepoMax' = ShardRepoMax /\ Docs' = Docs
  BY OptsStay, Same DEF Control, Typed, Limited, ShardMax, ShardRepoMax
<1>2. ASSUME NEW v \in Workers, wk'[v] = wk[v], Counted(v) PROVE Counted(v)'
  BY <1>1, <1>2 DEF Counted, InRepo
<1>3. ASSUME NEW w \in Workers, Worker(w) PROVE \A v \in Busy' : Counted(v)'
  <2>1. CASE Receive(w)
    <3>1. PICK x \in Result :
             /\ wk'[w] = x /\ \A v \in Workers \ {w} : wk'[v] = wk[v]
             /\ Busy' = Busy \cup {w} /\ x.st = "open" /\ x.found = {} /\ x.matches = 0
      BY <2>1, ReceiveTakes
    <3>2. Counted(w)'
      BY <3>1, FS_EmptySet DEF Counted
    <3> QED
      BY <1>1, <1>2, <3>1, <3>2 DEF Busy
  <2>2. CASE Deliver(w)
    BY <1>1, <1>2, <2>2, DeliverMoves DEF Busy
  <2>3. CASE Exit(w)
    <3>1. Busy' = Busy /\ (\A v \in Workers \ {w} : wk'[v] = wk[v]) /\ w \notin Busy
      BY <2>3, LocalStays DEF Exit, Busy
    <3> QED
      BY <1>1, <1>2, <3>1 DEF Busy
  <2>4. CASE Local(w)
    <3>1. Busy' = Busy /\ (\A v \in Workers \ {w} : wk'[v] = wk[v])
      BY <2>4, LocalStays
    <3>2. w \in Busy => Counted(w)'
      BY <1>1, <2>4, CountStep
    <3> QED
      BY <1>1, <1>2, <3>1, <3>2 DEF Busy
  <2> QED
    BY <1>3, <2>1, <2>2, <2>3, <2>4 DEF Worker, Local
<1>4. ASSUME ~ \E w \in Workers : Worker(w) PROVE \A v \in Busy' : Counted(v)'
  <2>1. wk' = wk /\ Busy' = Busy
    <3>1. CASE Consume
      BY <3>1, ConsumeTakes
    <3>2. CASE \/ Acquire \/ Yield \/ SendNext \/ Finished \/ Return \/ FlushStream \/ ReturnAggregate \/ Dispatch
               \/ CloseResults \/ FlushTimer \/ ClientCancel \/ Deadline \/ UNCHANGED vars
      BY <3>2, StepsOfSearch
    <3> QED
      BY <1>4, <3>1, <3>2 DEF Next, Search, Terminated
  <2> SUFFICES ASSUME NEW v \in Busy' PROVE Counted(v)'
    OBVIOUS
  <2>2. v \in Workers /\ v \in Busy /\ wk'[v] = wk[v]
    BY <2>1 DEF Busy
  <2> QED
    BY <1>1, <1>2, <2>2
<1>5. \A v \in Busy' : Counted(v)'
  BY <1>3, <1>4
<1> QED
  BY <1>5, ShardLimitsStep DEF Limited

-----------------------------------------------------------------------------
(* What is said of what is missing.                                        *)

\* Errors, flags and crashes are never taken back: a search that may still call itself complete
\* could do so before.
LEMMA CleanBefore ==
  ASSUME Control, Senders, SentOnce, [Next]_vars, Clean'
  PROVE  Clean
<1>1. QuietSink(sink) /\ (SendNext => NextEvent.crash = 0)
  <2>1. QuietSink(sink')
    BY DEF Clean, NoCrash, QuietSink
  <2> QED
    BY <2>1, SinkMoves
<1>2. /\ ~err' /\ flags' \subseteq {"Known"} /\ todo'.r.crash = 0
      /\ \A w \in Busy' : wk'[w].crash = 0
      /\ \A j \in DOMAIN results' : results'[j].crash = 0
  BY DEF Clean, NoCrash
<1>3. err \in BOOLEAN /\ wk \in [Workers -> Result]
  BY DEF Control, Typed
<1> SUFFICES /\ ~err /\ flags \subseteq {"Known"} /\ todo.r.crash = 0
             /\ \A w \in Busy : wk[w].crash = 0
             /\ \A j \in DOMAIN results : results[j].crash = 0
  BY <1>1 DEF Clean, NoCrash
<1>4. ASSUME NEW w \in Workers, Receive(w)
      PROVE  /\ ~err /\ flags \subseteq {"Known"} /\ todo.r.crash = 0
             /\ \A v \in Busy : wk[v].crash = 0
             /\ \A j \in DOMAIN results : results[j].crash = 0
  <2>1. /\ \A v \in Workers \ {w} : wk'[v] = wk[v]
        /\ Busy' = Busy \cup {w} /\ w \notin Busy
        /\ UNCHANGED <<main, results, flags>>
    BY <1>4, ReceiveTakes
  <2>2. UNCHANGED <<err, todo>> /\ \A v \in Busy : v \in Busy' /\ wk'[v] = wk[v]
    BY <2>1 DEF main, Busy
  <2> QED
    BY <1>2, <2>1, <2>2
<1>5. ASSUME NEW w \in Workers, Deliver(w)
      PROVE  /\ ~err /\ flags \subseteq {"Known"} /\ todo.r.crash = 0
             /\ \A v \in Busy : wk[v].crash = 0
             /\ \A j \in DOMAIN results : results[j].crash = 0
  <2>1. /\ Busy' = Busy \ {w} /\ \A v \in Workers \ {w} : wk'[v] = wk[v]
        /\ DOMAIN results = 1..Len(results) /\ Len(results) \in Nat
        /\ DOMAIN results' = 1..Len(results) + 1 /\ results'[Len(results) + 1] = wk[w]
        /\ \A j \in 1..Len(results) : results'[j] = results[j]
        /\ UNCHANGED <<main, flags>>
    BY <1>5, DeliverMoves
  <2>2. UNCHANGED <<err, todo>> /\ \A v \in Busy \ {w} : v \in Busy' /\ wk'[v] = wk[v]
    BY <2>1 DEF main, Busy
  <2>3. Len(results) + 1 \in DOMAIN results' /\ \A j \in DOMAIN results : j \in DOMAIN results'
    BY <2>1
  <2>4. wk[w].crash = 0 /\ \A j \in DOMAIN results : results[j].crash = 0
    BY <1>2, <2>1, <2>3
  <2> QED
    BY <1>2, <2>1, <2>2, <2>4
<1>6. ASSUME NEW w \in Workers, Local(w)
      PROVE  /\ ~err /\ flags \subseteq {"Known"} /\ todo.r.crash = 0
             /\ \A v \in Busy : wk[v].crash = 0
             /\ \A j \in DOMAIN results : results[j].crash = 0
  <2>1. PICK x \in Result : LocalTo(w, x)
    BY <1>6, LocalStep
  <2>2. /\ UNCHANGED <<todo, results, err>> /\ Busy' = Busy /\ \A v \in Workers \ {w} : wk'[v] = wk[v]
        /\ \A v \in Busy : v \in Workers
    BY <1>6, LocalStays
  <2>3. /\ wk'[w] = x /\ flags \subseteq flags'
        /\ x.crash = 0 /\ flags' \subseteq {"Known"} => wk[w].crash = 0
    BY <1>3, <2>1 DEF LocalTo
  <2>4. ASSUME NEW v \in Busy PROVE wk[v].crash = 0
    BY <1>2, <2>2, <2>3
  <2> QED
    BY <1>2, <2>2, <2>3, <2>4
<1>7. ASSUME NEW w \in Workers, Exit(w)
      PROVE  /\ ~err /\ flags \subseteq {"Known"} /\ todo.r.crash = 0
             /\ \A v \in Busy : wk[v].crash = 0
             /\ \A j \in DOMAIN results : results[j].crash = 0
  <2>1. /\ UNCHANGED <<todo, results, err>> /\ Busy' = Busy /\ \A v \in Workers \ {w} : wk'[v] = wk[v]
        /\ \A v \in Busy : v \in Workers
    BY <1>7, LocalStays
  <2>2. w \notin Busy /\ flags' = flags
    BY <1>7 DEF Exit, Busy
  <2> QED
    BY <1>2, <2>1, <2>2
<1>8. CASE Consume
  <2>1. PICK r \in Result :
           /\ r = results[1] /\ DOMAIN results = 1..Len(results) /\ Len(results) \in Nat
           /\ DOMAIN results' = 1..Len(results) - 1
           /\ \A j \in DOMAIN results' : results'[j] = results[j + 1]
           /\ err' = TRUE \/ (err' = err /\ todo'.r = r)
           /\ flags \subseteq flags' /\ todo = NothingToSend
           /\ Busy' = Busy /\ wk' = wk
    BY <1>8, ConsumeTakes
  <2>2. err' = err /\ todo'.r = r
    BY <1>2, <2>1
  <2>3. ASSUME NEW j \in DOMAIN results PROVE results[j].crash = 0
    <3>1. CASE j = 1
      BY <1>2, <2>1, <2>2, <3>1
    <3>2. CASE j # 1
      <4>1. j - 1 \in DOMAIN results' /\ (j - 1) + 1 = j
        BY <2>1, <3>2
      <4> QED
        BY <1>2, <2>1, <4>1
    <3> QED
      BY <3>1, <3>2
  <2>4. todo.r.crash = 0
    BY <2>1 DEF NothingToSend, IdleWorker
  <2> QED
    BY <1>2, <2>1, <2>2, <2>3, <2>4
<1>9. CASE \/ Acquire \/ Yield \/ SendNext \/ Finished \/ Return \/ FlushStream \/ ReturnAggregate \/ Dispatch
           \/ CloseResults \/ FlushTimer \/ ClientCancel \/ Deadline \/ UNCHANGED vars
  <2>1. UNCHANGED <<results, wk>> /\ Busy' = Busy
    BY <1>9, StepsOfSearch
  <2>2. ~err
    BY <1>2, <1>3, <1>9 DEF Acquire, Yield, SendNext, Finished, Return, FlushStream, ReturnAggregate, Dispatch,
       CloseResults, FlushTimer, ClientCancel, Deadline, vars, main
  <2>3. flags \subseteq flags'
    BY <1>9 DEF Acquire, Yield, SendNext, Finished, Return, FlushStream, ReturnAggregate, Dispatch,
       CloseResults, FlushTimer, ClientCancel, Deadline, vars, main
  <2>4. todo.r.crash = 0
    <3>1. CASE SendNext /\ Run = todo.rest
      BY <1>1, <3>1, NextEventOK DEF SendNext
    <3>2. CASE SendNext /\ Run # todo.rest
      <4>1. todo' = [todo EXCEPT !.rest = @ \ Run] /\ todo \in [r : Result, max : Int, rest : SUBSET Nat]
        BY <3>2 DEF SendNext, Control, Typed
      <4>2. todo'.r = todo.r
        BY <4>1
      <4> QED
        BY <1>2, <4>2
    <3>3. CASE ~SendNext
      <4>1. todo' = todo
        BY <1>9, <3>3 DEF Acquire, Yield, Finished, Return, FlushStream, ReturnAggregate, Dispatch,
           CloseResults, FlushTimer, ClientCancel, Deadline, vars, main
      <4> QED
        BY <1>2, <4>1
    <3> QED
      BY <3>1, <3>2, <3>3
  <2> QED
    BY <1>2, <2>1, <2>2, <2>3, <2>4
<1> QED
  BY <1>4, <1>5, <1>6, <1>7, <1>8, <1>9 DEF Next, Search, Worker, Local, Terminated

\* Everything is still to come when a search begins.
LEMMA CoverInit == Init => Cover
<1> SUFFICES ASSUME Init PROVE Cover
  OBVIOUS
<1>1. /\ opts \in Options /\ stopped = FALSE /\ results = <<>> /\ shard = 0 /\ search = <<>> /\ Busy = {}
  BY ControlInit DEF Control, Phases, Init
<1>2. Taken = 0 /\ \A d \in AllDocs : d[1] \in 1..N
  <2>1. shard = 0 /\ Len(search) = 0
    BY <1>1
  <2>2. Taken = 0
    BY <2>1 DEF Taken
  <2>3. \A d \in AllDocs : d[1] \in 1..N
    BY <1>1, DocsFinite
  <2> QED
    BY <2>2, <2>3
<1>3. \A d \in AllDocs : Covered(d)
  BY <1>1, <1>2, Given DEF Covered
<1> QED
  BY <1>1, <1>3 DEF Cover

\* No step loses a document without saying so: what leaves a worker, the channel or the result
\* being split arrives at the next place, or the display limit is reached.
LEMMA CoverStep == Control /\ Senders /\ SentOnce /\ Cover /\ [Next]_vars => Cover'
<1> SUFFICES ASSUME Control, Senders, SentOnce, Cover, [Next]_vars, Clean' PROVE
               (/\ stopped => shard = N
                /\ \A w \in Busy : Whole(wk[w])
                /\ \A j \in DOMAIN results : results[j].found = Matching(results[j].s)
                /\ \A d \in AllDocs : Covered(d))'
  BY DEF Cover
<1>1. /\ stopped => shard = N
      /\ \A w \in Busy : Whole(wk[w])
      /\ \A j \in DOMAIN results : results[j].found = Matching(results[j].s)
      /\ \A d \in AllDocs : Covered(d)
  BY CleanBefore DEF Cover
<1>2. /\ ~err' /\ flags' \subseteq {"Known"} /\ \A w \in Busy' : wk'[w].crash = 0
  BY DEF Clean, NoCrash
<1>3. /\ \/ SendNext /\ (Sent' = Sent \cup NextEvent.files \/ Full(sink'))
         \/ ~SendNext /\ Sent' = Sent
      /\ Full(sink) => Full(sink')
      /\ Full(sink)' <=> Full(sink')
  BY SinkMoves DEF Full
<1>4. /\ opts \in Options /\ N \in Nat /\ shard \in 0..N /\ wk \in [Workers -> Result] /\ Taken \in Int
      /\ stopped \in BOOLEAN /\ opts' = opts
      /\ \A d \in AllDocs : d[1] \in 1..N /\ d[2] \in Matching(d[1])
  <2>1. opts \in Options /\ shard \in 0..N /\ wk \in [Workers -> Result] /\ stopped \in BOOLEAN /\ search \in Seq(Nat)
    BY DEF Control, Typed
  <2>2. N \in Nat /\ Len(search) \in Nat
    BY <2>1, Given, LenProperties
  <2>3. \A d \in AllDocs : d[1] \in 1..N /\ d[2] \in Matching(d[1])
    BY <2>1, DocsFinite
  <2>4. opts' = opts
    BY DEF Next, Search, Worker, Acquire, Yield, Dispatch, Consume, SendNext, Finished,
     Return, FlushStream, ReturnAggregate, CloseResults, Receive, Exit, Open, Fail, Panic, Scan, LookAt, Reserve,
     Deliver, Done, FlushTimer, ClientCancel, Deadline, Terminated, vars
  <2> QED
    BY <2>1, <2>2, <2>3, <2>4 DEF Taken
<1>5. /\ AllDocs' = AllDocs /\ N' = N /\ Docs' = Docs /\ (\A s : Matching(s)' = Matching(s))
      /\ (\A r : Whole(r)' <=> Whole(r))
  BY <1>4, Same
<1>6. ASSUME /\ stopped' => shard' = N
             /\ \A w \in Busy' : Whole(wk'[w])
             /\ \A j \in DOMAIN results' : results'[j].found = Matching(results'[j].s),
             \A d \in AllDocs : Covered(d)'
      PROVE  (/\ stopped => shard = N
              /\ \A w \in Busy : Whole(wk[w])
              /\ \A j \in DOMAIN results : results[j].found = Matching(results[j].s)
              /\ \A d \in AllDocs : Covered(d))'
  BY <1>5, <1>6
<1> DEFINE Goal == (/\ stopped => shard = N
                    /\ \A w \in Busy : Whole(wk[w])
                    /\ \A j \in DOMAIN results : results[j].found = Matching(results[j].s)
                    /\ \A d \in AllDocs : Covered(d))'
<1>7. ASSUME NEW w \in Workers, Receive(w), ~SendNext PROVE Goal
  <2>1. PICK x \in Result :
           /\ wk'[w] = x /\ \A v \in Workers \ {w} : wk'[v] = wk[v]
           /\ Busy' = Busy \cup {w} /\ w \notin Busy /\ x.s = Taken + 1 /\ Taken \in Nat /\ Taken' = Taken + 1
           /\ x.st = "open" /\ UNCHANGED <<main, results>>
    BY <1>7, ReceiveTakes
  <2>2. UNCHANGED <<pc, shard, stopped, todo, results>> /\ \A v \in Busy : v \in Busy' /\ wk'[v] = wk[v]
    BY <2>1 DEF main, Busy
  <2>3. \A v \in Busy' : Whole(wk'[v])
    <3>1. Whole(x)
      BY <2>1 DEF Whole
    <3> QED
      BY <1>1, <2>1, <2>2, <3>1
  <2>4. ASSUME NEW d \in AllDocs PROVE Covered(d)'
    <3>1. CASE d[1] > Taken
      <4>1. d[1] > Taken' \/ d[1] = x.s
        BY <1>4, <2>1, <3>1
      <4> QED
        BY <2>1, <4>1 DEF Covered
    <3>2. CASE ~ (d[1] > Taken)
      <4>1. \/ \E v \in Busy : wk[v].s = d[1]
            \/ \E j \in DOMAIN results : results[j].s = d[1]
            \/ pc = "send" /\ todo.r.s = d[1] /\ d[2] \in todo.rest
            \/ d \in Sent
            \/ Full(sink)
        BY <1>1, <3>2 DEF Covered
      <4> QED
        BY <1>3, <1>7, <2>2, <4>1 DEF Covered
    <3> QED
      BY <3>1, <3>2
  <2> QED
    BY <1>1, <1>6, <2>2, <2>3, <2>4
<1>8. ASSUME NEW w \in Workers, Deliver(w), ~SendNext PROVE Goal
  <2>1. /\ w \in Busy /\ Busy' = Busy \ {w} /\ \A v \in Workers \ {w} : wk'[v] = wk[v]
        /\ wk[w].st = "found" /\ Len(results) \in Nat
        /\ DOMAIN results = 1..Len(results) /\ DOMAIN results' = 1..Len(results) + 1
        /\ results'[Len(results) + 1] = wk[w] /\ \A j \in 1..Len(results) : results'[j] = results[j]
        /\ \A j \in DOMAIN results' : j = Len(results) + 1 \/ j \in DOMAIN results
        /\ UNCHANGED <<main, search>> /\ Taken' = Taken
    BY <1>8, DeliverMoves
  <2>2. UNCHANGED <<pc, shard, stopped, todo>> /\ \A v \in Busy' : v \in Busy /\ wk'[v] = wk[v]
    BY <2>1 DEF main, Busy
  <2>3. \A j \in DOMAIN results' : results'[j].found = Matching(results'[j].s)
    <3>1. wk[w].found = Matching(wk[w].s)
      BY <1>1, <2>1 DEF Whole
    <3> QED
      BY <1>1, <2>1, <3>1
  <2>4. ASSUME NEW d \in AllDocs PROVE Covered(d)'
    <3>1. CASE \E v \in Busy : wk[v].s = d[1]
      <4>1. PICK v \in Busy : wk[v].s = d[1]
        BY <3>1
      <4>2. CASE v = w
        <5>1. Len(results) + 1 \in DOMAIN results' /\ results'[Len(results) + 1].s = d[1]
          BY <2>1, <4>1, <4>2
        <5> QED
          BY <5>1 DEF Covered
      <4>3. CASE v # w
        <5>1. v \in Busy' /\ wk'[v].s = d[1]
          BY <2>1, <2>2, <4>1, <4>3
        <5> QED
          BY <5>1 DEF Covered
      <4> QED
        BY <4>2, <4>3
    <3>2. CASE \E j \in DOMAIN results : results[j].s = d[1]
      <4>1. PICK j \in DOMAIN results : results[j].s = d[1]
        BY <3>2
      <4>2. j \in DOMAIN results' /\ results'[j].s = d[1]
        BY <2>1, <4>1
      <4> QED
        BY <4>2 DEF Covered
    <3>3. CASE \/ d[1] > Taken
               \/ pc = "send" /\ todo.r.s = d[1] /\ d[2] \in todo.rest
               \/ d \in Sent
               \/ Full(sink)
      BY <1>3, <1>8, <2>1, <2>2, <3>3 DEF Covered
    <3> QED
      BY <1>1, <3>1, <3>2, <3>3 DEF Covered
  <2>5. \A v \in Busy' : Whole(wk'[v])
    BY <1>1, <2>2
  <2> QED
    BY <1>1, <1>6, <2>2, <2>3, <2>4, <2>5
<1>9. ASSUME NEW w \in Workers, Local(w) \/ Exit(w), ~SendNext PROVE Goal
  <2>1. /\ UNCHANGED <<pc, todo, results, shard, stopped>> /\ Busy' = Busy /\ Taken' = Taken
        /\ \A v \in Busy : v \in Workers /\ wk'[v].s = wk[v].s
        /\ \A v \in Workers \ {w} : wk'[v] = wk[v]
    BY <1>9, LocalStays
  <2>2. ASSUME NEW v \in Busy' PROVE Whole(wk'[v])
    <3>1. CASE v # w
      BY <1>1, <2>1, <2>2, <3>1
    <3>2. CASE v = w /\ Local(w)
      <4>1. PICK x \in Result : LocalTo(w, x)
        BY <3>2, LocalStep
      <4>2. wk'[w] = x
        BY <1>4, <4>1 DEF LocalTo
      <4> QED
        BY <1>1, <1>2, <2>1, <2>2, <3>2, <4>1, <4>2 DEF LocalTo
    <3>3. CASE v = w /\ Exit(w)
      BY <2>1, <3>3 DEF Exit, Busy
    <3> QED
      BY <1>9, <3>1, <3>2, <3>3
  <2>3. ASSUME NEW d \in AllDocs PROVE Covered(d)'
    BY <1>1, <1>3, <1>9, <2>1 DEF Covered
  <2> QED
    BY <1>1, <1>6, <2>1, <2>2, <2>3
<1>10. CASE Consume /\ ~SendNext
  <2>1. PICK r \in Result :
           /\ r = results[1] /\ 1 \in DOMAIN results /\ ResultOK(r)
           /\ DOMAIN results = 1..Len(results) /\ Len(results) \in Nat /\ DOMAIN results' = 1..Len(results) - 1
           /\ \A j \in DOMAIN results' : results'[j] = results[j + 1] /\ j + 1 \in DOMAIN results
           /\ \/ err' = TRUE
              \/ /\ pc' = "send" /\ todo'.r = r /\ todo'.rest = r.found
                 /\ stopped' => stopped \/ "ResponseLimit" \in flags' \/ shard >= N \/ "MatchLimit" \in flags'
           /\ Taken' = Taken /\ Busy' = Busy /\ pc = "select" /\ shard' = shard /\ wk' = wk
    BY <1>10, ConsumeTakes
  <2>2. /\ pc' = "send" /\ todo'.r = r /\ todo'.rest = r.found
        /\ stopped' => stopped \/ shard >= N
    BY <1>2, <2>1
  <2>3. stopped' => shard' = N
    BY <1>1, <1>4, <2>1, <2>2
  <2>4. \A v \in Busy' : Whole(wk'[v])
    BY <1>1, <2>1
  <2>5. \A j \in DOMAIN results' : results'[j].found = Matching(results'[j].s)
    BY <1>1, <2>1
  <2>6. ASSUME NEW d \in AllDocs PROVE Covered(d)'
    <3>1. CASE \E j \in DOMAIN results : results[j].s = d[1]
      <4>1. PICK j \in DOMAIN results : results[j].s = d[1]
        BY <3>1
      <4>2. CASE j = 1
        <5>1. r.s = d[1] /\ r.found = Matching(d[1])
          BY <1>1, <2>1, <4>1, <4>2
        <5>2. todo'.r.s = d[1] /\ d[2] \in todo'.rest
          BY <1>4, <2>2, <5>1
        <5> QED
          BY <2>2, <5>2 DEF Covered
      <4>3. CASE j # 1
        <5>1. j - 1 \in DOMAIN results' /\ (j - 1) + 1 = j
          BY <2>1, <4>3
        <5>2. results'[j - 1].s = d[1]
          BY <2>1, <4>1, <5>1
        <5> QED
          BY <5>1, <5>2 DEF Covered
      <4> QED
        BY <4>2, <4>3
    <3>2. CASE \/ d[1] > Taken
               \/ \E v \in Busy : wk[v].s = d[1]
               \/ d \in Sent
               \/ Full(sink)
      BY <1>3, <1>10, <2>1, <3>2 DEF Covered
    <3> QED
      BY <1>1, <2>1, <3>1, <3>2 DEF Covered
  <2> QED
    BY <1>6, <2>3, <2>4, <2>5, <2>6
<1>11. CASE SendNext
  <2>1. /\ UNCHANGED <<results, wk>> /\ Busy' = Busy /\ Taken' = Taken /\ pc = "send"
        /\ UNCHANGED <<stopped, shard>> /\ todo \in [r : Result, max : Int, rest : SUBSET Nat]
    BY <1>11, StepsOfSearch DEF SendNext, Control, Typed
  <2>2. NextEvent.files = {<<todo.r.s, i>> : i \in Run}
    BY <2>1, NextEventOK
  <2>3. ASSUME NEW d \in AllDocs PROVE Covered(d)'
    <3>1. CASE todo.r.s = d[1] /\ d[2] \in Run
      <4>1. d = <<d[1], d[2]>>
        BY <1>4, DocsFinite
      <4>2. d \in NextEvent.files
        BY <2>2, <3>1, <4>1
      <4>3. d \in Sent' \/ Full(sink')
        BY <1>3, <1>11, <4>2
      <4> QED
        BY <1>3, <4>3 DEF Covered
    <3>2. CASE todo.r.s = d[1] /\ d[2] \in todo.rest /\ d[2] \notin Run
      <4>1. Run # todo.rest
        BY <3>2
      <4>2. todo' = [todo EXCEPT !.rest = @ \ Run] /\ pc' = "send"
        BY <1>11, <4>1 DEF SendNext
      <4>3. todo'.r = todo.r /\ todo'.rest = todo.rest \ Run
        BY <2>1, <4>2
      <4> QED
        BY <3>2, <4>2, <4>3 DEF Covered
    <3>3. CASE d \in Sent
      <4>1. d \in Sent' \/ Full(sink')
        BY <1>3, <1>11, <3>3
      <4> QED
        BY <1>3, <4>1 DEF Covered
    <3>4. CASE \/ d[1] > Taken
               \/ \E v \in Busy : wk[v].s = d[1]
               \/ \E j \in DOMAIN results : results[j].s = d[1]
               \/ Full(sink)
      BY <1>3, <2>1, <3>4 DEF Covered
    <3> QED
      BY <1>1, <3>1, <3>2, <3>3, <3>4 DEF Covered
  <2> QED
    BY <1>1, <1>6, <2>1, <2>3
<1>12. CASE /\ ~SendNext
            /\ \/ Acquire \/ Yield \/ Finished \/ Return \/ FlushStream \/ ReturnAggregate \/ Dispatch
               \/ CloseResults \/ FlushTimer \/ ClientCancel \/ Deadline \/ UNCHANGED vars
  <2>1. /\ UNCHANGED <<results, wk>> /\ Busy' = Busy /\ Taken' = Taken
    BY <1>12, StepsOfSearch
  <2>2. stopped' => shard' = N
    <3>1. CASE Dispatch
      BY <3>1 DEF Dispatch
    <3>2. CASE ~Dispatch
      BY <1>1, <1>12, <3>2 DEF Acquire, Yield, Finished, Return, FlushStream, ReturnAggregate,
         CloseResults, FlushTimer, ClientCancel, Deadline, vars, main
    <3> QED
      BY <3>1, <3>2
  <2>3. todo' = todo /\ (pc = "send" => pc' = "send")
    BY <1>12 DEF Acquire, Yield, Finished, Return, FlushStream, ReturnAggregate, Dispatch,
       CloseResults, FlushTimer, ClientCancel, Deadline, vars, main
  <2>4. ASSUME NEW d \in AllDocs PROVE Covered(d)'
    BY <1>1, <1>3, <1>12, <2>1, <2>3 DEF Covered
  <2> QED
    BY <1>1, <1>6, <2>1, <2>2, <2>4
<1> QED
  BY <1>7, <1>8, <1>9, <1>10, <1>11, <1>12 DEF Next, Search, Worker, Local, Terminated

\* Where a document may still come from does not grow: no step finds a document again that a
\* limit cut off.
LEMMA PossibleBefore ==
  ASSUME Control, Senders, SentOnce, [Next]_vars, NEW d \in AllDocs, Possible(d)'
  PROVE  Possible(d)
<1>1. /\ \/ SendNext /\ Sent' \subseteq Sent \cup NextEvent.files
         \/ ~SendNext /\ Sent' = Sent
  BY SinkMoves
<1>2. /\ opts \in Options /\ N \in Nat /\ shard \in 0..N /\ Len(search) \in Nat /\ Taken \in Int
      /\ wk \in [Workers -> Result] /\ d[1] \in 1..N /\ d[2] \in Nat
  <2>1. opts \in Options /\ shard \in 0..N /\ wk \in [Workers -> Result] /\ search \in Seq(Nat)
    BY DEF Control, Typed
  <2>2. N \in Nat /\ Len(search) \in Nat /\ d[1] \in 1..N /\ d[2] \in Nat
    <3>1. d[1] \in 1..N /\ d[2] \in Matching(d[1]) /\ N \in Nat /\ Len(search) \in Nat
      BY <2>1, Given, LenProperties, DocsFinite
    <3>2. Matching(d[1]) \subseteq 1..Len(Docs[d[1]]) /\ Len(Docs[d[1]]) \in Nat
      BY <2>1, <3>1, Given
    <3> QED
      BY <3>1, <3>2
  <2> QED
    BY <2>1, <2>2 DEF Taken
<1>3. /\ \/ d[1] > shard' /\ ~stopped'
         \/ d[1] > Taken' /\ d[1] <= shard'
         \/ \E v \in Busy' : wk'[v].s = d[1] /\ (wk'[v].st = "found" => d[2] \in wk'[v].found)
         \/ \E j \in DOMAIN results' : results'[j].s = d[1] /\ d[2] \in results'[j].found
         \/ pc' = "send" /\ todo'.r.s = d[1] /\ d[2] \in todo'.rest
         \/ d \in Sent'
  BY DEF Possible
<1>4. ASSUME NEW w \in Workers, Receive(w), ~SendNext PROVE Possible(d)
  <2>1. PICK x \in Result :
           /\ wk'[w] = x /\ \A v \in Workers \ {w} : wk'[v] = wk[v]
           /\ Busy' = Busy \cup {w} /\ w \notin Busy /\ x.s = Taken + 1 /\ Taken' = Taken + 1 /\ Taken' <= shard
           /\ UNCHANGED <<main, results>>
    BY <1>4, ReceiveTakes
  <2>2. UNCHANGED <<pc, shard, stopped, todo, results>> /\ \A v \in Busy : wk'[v] = wk[v]
    BY <2>1 DEF main, Busy
  <2>3. CASE d[1] = x.s
    <3>1. d[1] > Taken /\ d[1] <= shard
      BY <1>2, <2>1, <2>3
    <3> QED
      BY <3>1 DEF Possible
  <2>4. CASE d[1] # x.s
    <3>1. d[1] > Taken' => d[1] > Taken
      BY <1>2, <2>1
    <3> QED
      BY <1>1, <1>3, <1>4, <2>1, <2>2, <2>4, <3>1 DEF Possible
  <2> QED
    BY <2>3, <2>4
<1>5. ASSUME NEW w \in Workers, Deliver(w), ~SendNext PROVE Possible(d)
  <2>1. /\ w \in Busy /\ Busy' = Busy \ {w} /\ \A v \in Workers \ {w} : wk'[v] = wk[v]
        /\ DOMAIN results = 1..Len(results) /\ results'[Len(results) + 1] = wk[w]
        /\ \A j \in 1..Len(results) : results'[j] = results[j]
        /\ \A j \in DOMAIN results' : j = Len(results) + 1 \/ j \in DOMAIN results
        /\ UNCHANGED <<main, search>> /\ Taken' = Taken
    BY <1>5, DeliverMoves
  <2>2. UNCHANGED <<pc, shard, stopped, todo>> /\ \A v \in Busy' : v \in Busy /\ wk'[v] = wk[v]
    BY <2>1 DEF main, Busy
  <2>3. CASE \E j \in DOMAIN results' : results'[j].s = d[1] /\ d[2] \in results'[j].found
    <3>1. PICK j \in DOMAIN results' : results'[j].s = d[1] /\ d[2] \in results'[j].found
      BY <2>3
    <3>2. CASE j = Len(results) + 1
      BY <2>1, <3>1, <3>2 DEF Possible
    <3>3. CASE j \in DOMAIN results
      BY <2>1, <3>1, <3>3 DEF Possible
    <3> QED
      BY <2>1, <3>2, <3>3
  <2> QED
    BY <1>1, <1>3, <1>5, <2>1, <2>2, <2>3 DEF Possible
<1>6. ASSUME NEW w \in Workers, Local(w) \/ Exit(w), ~SendNext PROVE Possible(d)
  <2>1. /\ UNCHANGED <<pc, todo, results, shard, stopped>> /\ Busy' = Busy /\ Taken' = Taken
        /\ \A v \in Busy : v \in Workers /\ wk'[v].s = wk[v].s
        /\ \A v \in Workers \ {w} : wk'[v] = wk[v]
    BY <1>6, LocalStays
  <2>2. w \in Busy => wk[w].st # "found"
    <3>1. CASE Local(w)
      <4>1. PICK x \in Result : LocalTo(w, x)
        BY <3>1, LocalStep
      <4> QED
        BY <4>1 DEF LocalTo
    <3>2. CASE Exit(w)
      BY <3>2 DEF Exit
    <3> QED
      BY <1>6, <3>1, <3>2
  <2>3. ASSUME NEW v \in Busy', wk'[v].s = d[1], wk'[v].st = "found" => d[2] \in wk'[v].found
        PROVE  Possible(d)
    <3>1. v \in Busy /\ wk[v].s = d[1]
      BY <2>1, <2>3
    <3>2. wk[v].st = "found" => d[2] \in wk[v].found
      BY <2>1, <2>2, <2>3
    <3> QED
      BY <3>1, <3>2 DEF Possible
  <2> QED
    BY <1>1, <1>3, <1>6, <2>1, <2>3 DEF Possible
<1>7. CASE Consume /\ ~SendNext
  <2>1. PICK r \in Result :
           /\ r = results[1] /\ 1 \in DOMAIN results
           /\ \A j \in DOMAIN results' : results'[j] = results[j + 1] /\ j + 1 \in DOMAIN results
           /\ \/ stopped' = TRUE /\ pc' = "yield"
              \/ pc' = "send" /\ todo'.r = r /\ todo'.rest = r.found /\ (stopped => stopped')
           /\ Taken' = Taken /\ Busy' = Busy /\ shard' = shard /\ wk' = wk
    BY <1>7, ConsumeTakes
  <2>2. CASE pc' = "send" /\ todo'.r.s = d[1] /\ d[2] \in todo'.rest
    <3>1. results[1].s = d[1] /\ d[2] \in results[1].found
      BY <1>2, <2>1, <2>2 DEF Result
    <3> QED
      BY <2>1, <3>1 DEF Possible
  <2>3. CASE \E j \in DOMAIN results' : results'[j].s = d[1] /\ d[2] \in results'[j].found
    BY <2>1, <2>3 DEF Possible
  <2>4. ~stopped' => ~stopped
    BY <2>1
  <2> QED
    BY <1>1, <1>3, <1>7, <2>1, <2>2, <2>3, <2>4 DEF Possible
<1>8. CASE Dispatch /\ ~SendNext
  <2>1. /\ UNCHANGED <<results, wk>> /\ Busy' = Busy /\ Taken' = Taken
    BY <1>8, StepsOfSearch
  <2>2. shard' = shard + 1 /\ ~stopped /\ pc' = "yield"
    BY <1>8 DEF Dispatch
  <2>3. CASE d[1] > shard' \/ (d[1] > Taken' /\ d[1] <= shard')
    <3>1. d[1] > shard \/ (d[1] > Taken /\ d[1] <= shard)
      BY <1>2, <2>1, <2>2, <2>3
    <3> QED
      BY <2>2, <3>1 DEF Possible
  <2> QED
    BY <1>1, <1>3, <1>8, <2>1, <2>2, <2>3 DEF Possible
<1>9. CASE SendNext
  <2>1. /\ UNCHANGED <<results, wk, shard, stopped>> /\ Busy' = Busy /\ Taken' = Taken /\ pc = "send"
        /\ pc' = "send" => todo'.r = todo.r
        /\ todo'.rest \subseteq todo.rest
    BY <1>9, StepsOfSearch DEF SendNext
  <2>2. CASE d \in Sent'
    <3>1. CASE d \in Sent
      BY <3>1 DEF Possible
    <3>2. CASE d \in NextEvent.files
      <4>1. NextEvent.files = {<<todo.r.s, i>> : i \in Run} /\ Run \subseteq todo.rest
        BY <2>1, NextEventOK
      <4>2. todo.r.s = d[1] /\ d[2] \in todo.rest
        BY <3>2, <4>1
      <4> QED
        BY <2>1, <4>2 DEF Possible
    <3> QED
      BY <1>1, <1>9, <2>2, <3>1, <3>2
  <2> QED
    BY <1>3, <2>1, <2>2 DEF Possible
<1>10. CASE /\ ~SendNext
            /\ \/ Acquire \/ Yield \/ Finished \/ Return \/ FlushStream \/ ReturnAggregate
               \/ CloseResults \/ FlushTimer \/ ClientCancel \/ Deadline \/ UNCHANGED vars
  <2>1. /\ UNCHANGED <<results, wk>> /\ Busy' = Busy /\ Taken' = Taken
        /\ pc' = "send" => pc = "send" /\ todo'.r = todo.r
        /\ todo'.rest \subseteq todo.rest
    BY <1>10, StepsOfSearch
  <2>2. UNCHANGED <<shard, stopped>>
    BY <1>10 DEF Acquire, Yield, Finished, Return, FlushStream, ReturnAggregate,
       CloseResults, FlushTimer, ClientCancel, Deadline, vars, main
  <2> QED
    BY <1>1, <1>3, <1>10, <2>1, <2>2 DEF Possible
<1> QED
  BY <1>4, <1>5, <1>6, <1>7, <1>8, <1>9, <1>10 DEF Next, Search, Worker, Local, Terminated

\* A search that reports a limit has left a document out for good.
LEMMA MissedStep == Control /\ OnePlace /\ Senders /\ SentOnce /\ Missed /\ [Next]_vars => Missed'
<1> SUFFICES ASSUME Control, OnePlace, Senders, SentOnce, Missed, [Next]_vars,
                    "ResponseLimit" \in flags'
             PROVE  (\E d \in AllDocs : ~Possible(d))'
  BY DEF Missed
<1>1. /\ opts \in Options /\ opts' = opts /\ N \in Nat /\ shard \in 0..N /\ Taken \in Int
      /\ wk \in [Workers -> Result] /\ Taken <= shard
  <2>1. opts \in Options /\ shard \in 0..N /\ wk \in [Workers -> Result] /\ search \in Seq(Nat)
    BY DEF Control, Typed
  <2>2. N \in Nat /\ Len(search) \in Nat
    BY <2>1, Given, LenProperties
  <2> QED
    BY <2>1, <2>2, OptsStay DEF Taken
<1>2. AllDocs' = AllDocs
  BY <1>1, Same
<1>3. CASE "ResponseLimit" \in flags
  <2>1. PICK d \in AllDocs : ~Possible(d)
    BY <1>3 DEF Missed
  <2>2. ~Possible(d)'
    BY <2>1, PossibleBefore
  <2> QED
    BY <1>2, <2>2
<1>4. ASSUME "ResponseLimit" \notin flags, NEW w \in Workers, Local(w) PROVE \E d \in AllDocs : ~Possible(d)'
  <2>1. PICK x \in Result : LocalTo(w, x)
    BY <1>4, LocalStep
  <2>2. /\ x.st = "found" /\ ~ (Matching(x.s) \subseteq x.found) /\ ResultOK(x) /\ wk'[w] = x /\ x.s = wk[w].s
        /\ x.s \in Nat /\ w \in Busy
    BY <1>1, <1>4, <2>1 DEF LocalTo, Result, Busy
  <2>3. /\ UNCHANGED <<pc, todo, results, shard, stopped, sink>> /\ Busy' = Busy /\ Taken' = Taken
        /\ \A v \in Busy : v \in Workers /\ wk'[v].s = wk[v].s
    BY <1>4, LocalStays
  <2>4. PICK i \in Matching(x.s) : i \notin x.found
    BY <2>2
  <2> DEFINE d == <<x.s, i>>
  <2>5. d \in AllDocs /\ d[1] = x.s /\ d[2] = i /\ x.s \in 1..N /\ x.s <= Taken
    BY <1>1, <2>2, <2>4, DocsFinite DEF ResultOK
  <2>6. d \notin Sent
    BY <2>2, <2>5 DEF SentOnce
  <2>7. Sent' = Sent
    BY <2>3 DEF Sent, Delivered
  <2> HIDE DEF d
  <2>8. ~ (d[1] > Taken) /\ ~ (d[1] > shard) /\ ~ (d[2] \in x.found)
    BY <1>1, <2>4, <2>5
  <2>9. \A v \in Busy' : wk'[v].s = d[1] => v = w
    BY <2>2, <2>3, <2>5 DEF OnePlace
  <2>10. \A j \in DOMAIN results' : results'[j].s # d[1]
    BY <2>2, <2>3, <2>5 DEF OnePlace
  <2>11. pc' = "send" => todo'.r.s # d[1]
    BY <2>2, <2>3, <2>5 DEF OnePlace
  <2>12. ~Possible(d)'
    BY <2>2, <2>3, <2>6, <2>7, <2>8, <2>9, <2>10, <2>11 DEF Possible
  <2> QED
    BY <2>5, <2>12
<1>5. ASSUME "ResponseLimit" \notin flags, \A w \in Workers : ~Local(w) PROVE FALSE
  <2>1. \A c, f : "ResponseLimit" \notin BudgetFinish(c, f) /\ "ResponseLimit" \notin MarkContext(c)
    BY DEF BudgetFinish, MarkContext
  <2>2. CASE Acquire \/ Return \/ ReturnAggregate
    <3>1. CASE Acquire
      BY <1>5, <2>1, <3>1 DEF Acquire
    <3>2. CASE Return
      BY <1>5, <2>1, <3>2 DEF Return
    <3>3. CASE ReturnAggregate
      BY <1>5, <2>1, <3>3 DEF ReturnAggregate
    <3> QED
      BY <2>2, <3>1, <3>2, <3>3
  <2>3. CASE Consume
    <3>1. flags' \subseteq flags \cup {"MatchLimit"}
      BY <2>3 DEF Consume
    <3> QED
      BY <1>5, <3>1
  <2>4. CASE Yield \/ Dispatch \/ SendNext \/ Finished \/ FlushStream
    BY <1>5, <2>4 DEF Yield, Dispatch, SendNext, Finished, FlushStream
  <2>5. CASE ~Search
    BY <1>5, <2>5 DEF Next, Worker, Local, CloseResults, Receive, Exit,
       Deliver, FlushTimer, ClientCancel, Deadline, Terminated, vars
  <2> QED
    BY <2>2, <2>3, <2>4, <2>5 DEF Search
<1> QED
  BY <1>2, <1>3, <1>4, <1>5

\* A worker looks at a candidate that was to come, and leaves those behind it; a match limit it
\* reports has left out a candidate that was to come.
LEMMA LookStep ==
  ASSUME Control, NEW w \in Workers, Local(w)
  PROVE  /\ \A i \in Nat : Coming(wk'[w], i) => Coming(wk[w], i)
         /\ \/ looked' = looked
            \/ \E i \in 1..Len(Docs[wk[w].s]) :
                              /\ looked' = looked \cup {<<wk[w].s, i>>}
                              /\ Coming(wk[w], i) /\ ~Coming(wk'[w], i)
         /\ "MatchLimit" \in flags' =>
              \/ "MatchLimit" \in flags
              \/ \E i \in 1..Len(Docs[wk[w].s]) :
                   Coming(wk[w], i) /\ ~Coming(wk'[w], i) /\ (looked' = looked \cup {<<wk[w].s, i>>} => looked' = looked)
<1> DEFINE r == wk[w]
           q == wk'[w]
           len == Len(Docs[r.s])
           Goal == /\ \A i \in Nat : Coming(q, i) => Coming(r, i)
                   /\ \/ looked' = looked
                      \/ \E i \in 1..len : looked' = looked \cup {<<r.s, i>>} /\ Coming(r, i) /\ ~Coming(q, i)
                   /\ "MatchLimit" \in flags' =>
                        \/ "MatchLimit" \in flags
                        \/ \E i \in 1..len : /\ Coming(r, i) /\ ~Coming(q, i)
                                             /\ looked' = looked \cup {<<r.s, i>>} => looked' = looked
<1>1. /\ r \in Result /\ r.n \in Nat /\ r.s \in Nat /\ wk \in [Workers -> Result] /\ At(r)
      /\ ctx \in {"live", "canceled", "deadline"}
  BY DEF Control, Typed, Result, WorkerOK
<1>2. r.st \notin {"idle", "gone"} => len \in Nat
  <2>1. opts \in Options /\ N \in Nat /\ Len(search) \in Nat /\ shard \in 0..N
    BY Given, LenProperties DEF Control, Typed
  <2>2. r.st \notin {"idle", "gone"} => r.s \in 1..N
    BY <2>1 DEF Control, WorkerOK, Busy, ResultOK, Taken
  <2> HIDE DEF r
  <2> QED
    BY <2>1, <2>2, Given
<1>3. ASSUME NEW x \in Result, NEW more, Done(w, x, more)
      PROVE  q.st = "found" /\ looked' = looked /\ ("MatchLimit" \in flags' => "MatchLimit" \in flags \cup more)
  <2>1. q = [x EXCEPT !.st = "found"] /\ looked' = looked /\ flags' = flags \cup more \cup BudgetFinish(ctx, x.err)
    BY <1>1, <1>3 DEF Done
  <2>2. "MatchLimit" \notin BudgetFinish(ctx, x.err)
    BY <1>1 DEF BudgetFinish, MarkContext
  <2> QED
    BY <2>1, <2>2 DEF Result
<1> HIDE DEF r, q, len
\* The shard is given up.
<1>4. ASSUME NEW x \in Result, NEW more, Done(w, x, more),
             "MatchLimit" \in more => \E i \in 1..len : Coming(r, i)
      PROVE  Goal
  BY <1>3, <1>4 DEF Coming
<1> HIDE DEF Goal
<1>5. ASSUME Open(w) PROVE Goal
  <2>1. ASSUME Done(w, r, {}) PROVE Goal
    BY <1>1, <1>4, <2>1
  <2>2. ASSUME wk' = [wk EXCEPT ![w].st = "scan", ![w].n = 1] /\ UNCHANGED <<flags, looked>> PROVE Goal
    <3>1. r.st = "open"
      BY <1>5 DEF Open, r
    <3>2. looked' = looked /\ flags' = flags
      BY <2>2
    <3> QED
      BY <3>1, <3>2 DEF Goal, Coming
  <2> QED
    BY <1>5, <2>1, <2>2 DEF Open, r
<1>6. ASSUME Fail(w) \/ Panic(w) PROVE Goal
  <2>1. [Lost(r) EXCEPT !.err = TRUE] \in Result /\ [Lost(r) EXCEPT !.crash = 1] \in Result
    BY <1>1, IdleType DEF Lost, Result
  <2> QED
    BY <1>4, <1>6, <2>1 DEF Fail, Panic, r
<1>7. ASSUME Scan(w) PROVE Goal
  <2>1. r.st = "scan" /\ len \in Nat /\ r.n \in 1..len + 1
    BY <1>1, <1>2, <1>7 DEF Scan, At, r, len
  <2>2. PICK i \in 1..len + 1 :
          /\ NextDoc(r, i)
          /\ \/ i > len /\ Done(w, r, SkipMark(r, i))
             \/ /\ i <= len /\ Halted(r)
                /\ Done(w, r, SkipMark(r, i) \cup (IF ctx = "live" /\ ~Exhausted THEN {"MatchLimit"} ELSE {}))
             \/ i <= len /\ ~Halted(r) /\ LookAt(w, i)
    BY <1>7 DEF Scan, r, len
  <2>3. i \in Nat /\ i >= r.n /\ ("MatchLimit" \in SkipMark(r, i) => i > r.n)
    BY <1>1, <2>1, <2>2 DEF NextDoc, SkipMark, len
  <2>4. ASSUME i > len /\ Done(w, r, SkipMark(r, i)) PROVE Goal
    <3>1. "MatchLimit" \in SkipMark(r, i) => r.n \in 1..len /\ Coming(r, r.n)
      BY <1>1, <2>1, <2>2, <2>3 DEF Coming
    <3> QED
      BY <1>1, <1>4, <2>4, <3>1
  <2>5. ASSUME i <= len /\ \E more : Done(w, r, more) PROVE Goal
    <3>1. i \in 1..len /\ Coming(r, i)
      BY <2>1, <2>2, <2>3, <2>5 DEF Coming
    <3> QED
      BY <1>1, <1>4, <2>5, <3>1
  <2>6. ASSUME i <= len /\ LookAt(w, i) PROVE Goal
    <3> DEFINE x == IF Docs[r.s][i].match
                    THEN [r EXCEPT !.st = "reserve", !.n = i, !.matches = @ + 1, !.seen = used]
                    ELSE [r EXCEPT !.n = i + 1]
    <3>0. /\ wk' = [wk EXCEPT ![w] = x]
          /\ flags' = flags \cup SkipMark(r, i) /\ looked' = looked \cup {<<r.s, i>>}
      BY <2>6 DEF LookAt, r
    <3>1. (x.st = "reserve" /\ x.n = i) \/ (x.st = "scan" /\ x.n = i + 1)
      BY <1>1, <2>1 DEF Result
    <3>9. q = x
      BY <1>1, <3>0 DEF q
    <3> HIDE DEF x
    <3>2. /\ \A j \in Nat : Coming(q, j) => j > i
          /\ \A j \in Nat : Coming(r, j) <=> j >= r.n
          /\ ~Coming(q, i) /\ (r.n < i => ~Coming(q, r.n))
      BY <1>1, <2>1, <2>3, <3>1, <3>9 DEF Coming
    <3>3. "MatchLimit" \in flags' => "MatchLimit" \in flags \/ i > r.n
      BY <2>3, <3>0
    <3>4. ASSUME i > r.n PROVE looked' = looked \cup {<<r.s, r.n>>} => looked' = looked
      <4>1. <<r.s, r.n>> # <<r.s, i>>
        BY <1>1, <2>3, <3>4
      <4> QED
        BY <3>0, <4>1
    <3>5. \A j \in Nat : Coming(q, j) => Coming(r, j)
      BY <1>1, <2>3, <3>2
    <3>6. i > r.n => r.n \in 1..len /\ Coming(r, r.n) /\ ~Coming(q, r.n)
      BY <1>1, <2>1, <2>2, <2>3, <2>6, <3>2
    <3>7. Coming(r, i) /\ i \in 1..len
      BY <2>1, <2>2, <2>3, <2>6, <3>2
    <3> QED
      BY <2>3, <3>0, <3>2, <3>3, <3>4, <3>5, <3>6, <3>7 DEF Goal
  <2> QED
    BY <2>2, <2>4, <2>5, <2>6
<1>8. ASSUME Reserve(w) PROVE Goal
  <2>1. r.st = "reserve"
    BY <1>8 DEF Reserve, r
  <2>2. ASSUME Done(w, r, {"ResponseLimit"}) PROVE Goal
    BY <1>1, <1>4, <2>2
  <2>3. ASSUME wk' = [wk EXCEPT ![w].st = "scan", ![w].n = @ + 1, ![w].found = @ \cup {wk[w].n}],
             UNCHANGED <<flags, looked>>
      PROVE  Goal
    <3>1. q.st = "scan" /\ q.n = r.n + 1
      BY <1>1, <2>3 DEF q, r, Result
    <3>2. \A j \in Nat : Coming(q, j) => Coming(r, j)
      BY <1>1, <2>1, <3>1 DEF Coming
    <3>3. looked' = looked /\ flags' = flags
      BY <2>3
    <3> QED
      BY <3>2, <3>3 DEF Goal
  <2>4. ASSUME wk' = [wk EXCEPT ![w].seen = used] /\ UNCHANGED <<flags, looked>> PROVE Goal
    <3>1. q.st = r.st /\ q.n = r.n
      BY <1>1, <2>4 DEF q, r, Result
    <3>2. \A j \in Nat : Coming(q, j) => Coming(r, j)
      BY <3>1 DEF Coming
    <3>3. looked' = looked /\ flags' = flags
      BY <2>4
    <3> QED
      BY <3>2, <3>3 DEF Goal
  <2> QED
    BY <1>8, <2>2, <2>3, <2>4 DEF Reserve, r
<1> QED
  BY <1>5, <1>6, <1>7, <1>8 DEF Local, Goal, r, q, len

\* A candidate that was looked at or left out does not come again.
LEMMA AheadBefore ==
  ASSUME Control, [Next]_vars, NEW d \in Candidates, Ahead(d)'
  PROVE  Ahead(d)
<1>1. /\ Taken \in Int /\ d[1] \in Int /\ d[2] \in Nat /\ wk \in [Workers -> Result]
  <2>1. opts \in Options /\ N \in Nat /\ Len(search) \in Nat /\ shard \in 0..N /\ wk \in [Workers -> Result]
    BY Given, LenProperties DEF Control, Typed
  <2>2. d[1] \in 1..N /\ d[2] \in 1..Len(Docs[d[1]])
    BY <2>1, CandidateOf
  <2>3. Len(Docs[d[1]]) \in Nat
    BY <2>1, <2>2, Given
  <2> QED
    BY <2>1, <2>2, <2>3 DEF Taken
<1>2. d[1] > Taken' \/ \E v \in Workers : wk'[v].s = d[1] /\ Coming(wk'[v], d[2])
  BY DEF Ahead, Coming
<1>3. ASSUME Taken' = Taken, \A v \in Workers : wk'[v].s = d[1] /\ Coming(wk'[v], d[2]) =>
                               wk[v].s = d[1] /\ Coming(wk[v], d[2])
      PROVE  Ahead(d)
  BY <1>2, <1>3 DEF Ahead
<1> SUFFICES ASSUME ~Ahead(d) PROVE FALSE
  OBVIOUS
<1>4. ASSUME NEW w \in Workers, Receive(w) PROVE FALSE
  <2>1. PICK x \in Result :
           /\ wk'[w] = x /\ \A v \in Workers \ {w} : wk'[v] = wk[v]
           /\ x.s = Taken + 1 /\ Taken' = Taken + 1
    BY <1>4, ReceiveTakes
  <2>2. CASE d[1] > Taken'
    BY <1>1, <2>1, <2>2 DEF Ahead
  <2>3. CASE \E v \in Workers : wk'[v].s = d[1] /\ Coming(wk'[v], d[2])
    <3>1. PICK v \in Workers : wk'[v].s = d[1] /\ Coming(wk'[v], d[2])
      BY <2>3
    <3>2. CASE v = w
      BY <1>1, <2>1, <3>1, <3>2 DEF Ahead
    <3>3. CASE v # w
      BY <2>1, <3>1, <3>3 DEF Ahead
    <3> QED
      BY <3>2, <3>3
  <2> QED
    BY <1>2, <2>2, <2>3
<1>5. ASSUME NEW w \in Workers, Deliver(w) \/ Exit(w) PROVE FALSE
  <2>1. Taken' = Taken
    BY <1>5, DeliverMoves, LocalStays
  <2>2. (\A v \in Workers \ {w} : wk'[v] = wk[v]) /\ wk'[w].st \in {"idle", "gone"}
    BY <1>1, <1>5 DEF Deliver, Exit, IdleWorker, Result
  <2>3. \A i : ~Coming(wk'[w], i)
    BY <2>2 DEF Coming
  <2> QED
    BY <1>3, <2>1, <2>2, <2>3
<1>6. ASSUME NEW w \in Workers, Local(w) PROVE FALSE
  <2>1. Taken' = Taken /\ (\A v \in Workers \ {w} : wk'[v] = wk[v]) /\ wk'[w].s = wk[w].s
    <3>1. PICK x \in Result : LocalTo(w, x)
      BY <1>6, LocalStep
    <3> QED
      BY <1>1, <1>6, <3>1, LocalStays DEF LocalTo
  <2>2. Coming(wk'[w], d[2]) => Coming(wk[w], d[2])
    BY <1>1, <1>6, LookStep
  <2> QED
    BY <1>3, <2>1, <2>2
<1>7. ASSUME \/ Acquire \/ Yield \/ SendNext \/ Finished \/ Return \/ FlushStream \/ ReturnAggregate \/ Dispatch
             \/ CloseResults \/ FlushTimer \/ ClientCancel \/ Deadline \/ UNCHANGED vars
      PROVE  FALSE
  <2>1. wk' = wk /\ Taken' = Taken
    BY <1>7, StepsOfSearch
  <2> QED
    BY <1>3, <2>1
<1>8. ASSUME Consume PROVE FALSE
  <2>1. wk' = wk /\ Taken' = Taken
    BY <1>8, ConsumeTakes
  <2> QED
    BY <1>3, <2>1
<1> QED
  BY <1>4, <1>5, <1>6, <1>7, <1>8 DEF Next, Search, Worker, Local, Terminated

\* A shard that was left out stays left out.
LEMMA StoppedStays ==
  ASSUME Control, [Next]_vars, stopped
  PROVE  stopped' /\ shard' = shard
<1>1. CASE Consume
  BY <1>1, ConsumeTakes
<1>2. CASE Dispatch
  BY <1>2 DEF Dispatch
<1>3. CASE Acquire \/ Yield \/ SendNext \/ Finished
  BY <1>3 DEF Acquire, Yield, SendNext, Finished
<1>4. CASE Return \/ FlushStream \/ ReturnAggregate
  BY <1>4 DEF Return, FlushStream, ReturnAggregate
<1>5. ASSUME NEW w \in Workers, Worker(w) PROVE stopped' /\ shard' = shard
  <2>1. CASE Receive(w)
    BY <2>1 DEF Receive, main
  <2>2. CASE Deliver(w)
    BY <2>2 DEF Deliver, main
  <2>3. CASE Local(w) \/ Exit(w)
    BY <2>3, LocalStays
  <2> QED
    BY <1>5, <2>1, <2>2, <2>3 DEF Worker, Local
<1>6. CASE CloseResults \/ FlushTimer \/ ClientCancel \/ Deadline \/ UNCHANGED vars
  BY <1>6 DEF CloseResults, FlushTimer, ClientCancel, Deadline, vars, main
<1> QED
  BY <1>1, <1>2, <1>3, <1>4, <1>5, <1>6 DEF Next, Search, Terminated

\* A candidate is looked at once, and a match limit that is reported has left something out.
LEMMA LookingStep == Control /\ OnePlace /\ Looking /\ [Next]_vars => Looking'
<1> SUFFICES ASSUME Control, OnePlace, Looking, [Next]_vars PROVE Looking'
  OBVIOUS
<1>1. /\ opts' = opts /\ opts \in Options /\ N \in Nat /\ shard \in 0..N /\ Taken \in Int /\ Taken <= shard
      /\ wk \in [Workers -> Result] /\ N' = N /\ Candidates' = Candidates
  <2>1. opts \in Options /\ N \in Nat /\ Len(search) \in Nat /\ shard \in 0..N /\ wk \in [Workers -> Result]
    BY Given, LenProperties DEF Control, Typed
  <2> QED
    BY <2>1, OptsStay, Same DEF Taken
<1>2. looked \subseteq Candidates /\ \A d \in looked : ~Ahead(d)
  BY DEF Looking
<1>3. "MatchLimit" \in flags => (stopped /\ shard < N) \/ \E d \in Candidates \ looked : ~Ahead(d)
  BY DEF Looking
<1>4. \A d \in Candidates : ~Ahead(d) => ~Ahead(d)'
  BY AheadBefore
<1>5. stopped => stopped' /\ shard' = shard
  BY StoppedStays
<1>6. ASSUME looked' = looked,
             "MatchLimit" \in flags' => \/ "MatchLimit" \in flags
                                        \/ stopped' /\ shard' < N
      PROVE  Looking'
  <2>1. looked' \subseteq Candidates' /\ \A d \in looked' : ~Ahead(d)'
    BY <1>1, <1>2, <1>4, <1>6
  <2>2. "MatchLimit" \in flags' => (stopped' /\ shard' < N') \/ \E d \in Candidates' \ looked' : ~Ahead(d)'
    BY <1>1, <1>3, <1>4, <1>5, <1>6
  <2> QED
    BY <2>1, <2>2 DEF Looking
<1>7. ASSUME NEW w \in Workers, Local(w) PROVE Looking'
  <2>1. /\ w \in Busy /\ Taken' = Taken /\ (\A v \in Workers \ {w} : wk'[v] = wk[v]) /\ wk'[w].s = wk[w].s
        /\ wk[w].s \in 1..Taken /\ wk[w].s \in 1..N
    <3>1. PICK x \in Result : LocalTo(w, x)
      BY <1>7, LocalStep
    <3>2. w \in Busy
      BY <3>1 DEF LocalTo, Busy
    <3>3. wk[w].s \in 1..Taken
      BY <3>2 DEF Control, WorkerOK, ResultOK
    <3> QED
      BY <1>1, <1>7, <3>1, <3>2, <3>3, LocalStays DEF LocalTo
  <2>2. PICK t \in 1..N : t = wk[w].s
    BY <2>1
  <2> DEFINE r == wk[w]
             q == wk'[w]
             Cand(i) == <<t, i>>
             len == Len(Docs[t])
  <2>3. /\ \/ looked' = looked
           \/ \E i \in 1..len : looked' = looked \cup {Cand(i)} /\ Coming(r, i) /\ ~Coming(q, i)
        /\ "MatchLimit" \in flags' =>
             \/ "MatchLimit" \in flags
             \/ \E i \in 1..len :
                  Coming(r, i) /\ ~Coming(q, i) /\ (looked' = looked \cup {Cand(i)} => looked' = looked)
    BY <1>7, <2>2, LookStep
  <2>4. \A i \in 1..len : Cand(i) \in Candidates /\ Cand(i)[1] = t /\ Cand(i)[2] = i
    BY <1>1, DocsFinite
  <2>5. ASSUME NEW d \in Candidates, d[1] = t, Coming(r, d[2]) PROVE Ahead(d)
    BY <2>2, <2>5 DEF Ahead
  <2>6. ASSUME NEW d \in Candidates, d[1] = t, ~Coming(q, d[2]) PROVE ~Ahead(d)'
    <3>1. ~ (t > Taken')
      BY <1>1, <2>1, <2>2
    <3>2. ASSUME NEW v \in Workers, wk'[v].s = t, Coming(wk'[v], d[2]) PROVE FALSE
      <4>1. v # w
        BY <2>6, <3>2
      <4>2. wk'[v] = wk[v] /\ wk[v].s = t /\ v \in Busy
        BY <2>1, <3>2, <4>1 DEF Busy, Coming
      <4> QED
        BY <2>1, <2>2, <4>1, <4>2 DEF OnePlace
    <3>3. \A v \in Workers : (Coming(wk[v], d[2]))' <=> Coming(wk'[v], d[2])
      BY DEF Coming
    <3>4. ~ (\E v \in Workers : wk'[v].s = d[1] /\ (Coming(wk[v], d[2]))')
      BY <2>6, <3>2, <3>3
    <3> QED
      BY <2>6, <3>1, <3>4 DEF Ahead
  <2>7. ASSUME NEW i \in 1..len, NEW j \in 1..len, i # j PROVE Cand(i) # Cand(j)
    BY <2>7
  <2> HIDE DEF r, q, Cand, len
  <2>8. ASSUME NEW d \in looked' PROVE d \in Candidates /\ ~Ahead(d)'
    <3>1. CASE d \in looked
      BY <1>2, <1>4, <3>1
    <3>2. CASE d \notin looked
      <4>1. PICK i \in 1..len : d = Cand(i) /\ ~Coming(q, i)
        BY <2>3, <3>2
      <4> QED
        BY <2>4, <2>6, <4>1
    <3> QED
      BY <3>1, <3>2
  <2>9. ASSUME "MatchLimit" \in flags' PROVE (stopped' /\ shard' < N) \/ \E d \in Candidates \ looked' : ~Ahead(d)'
    <3>1. CASE "MatchLimit" \in flags /\ stopped /\ shard < N
      BY <1>5, <3>1
    <3>2. CASE \E d \in Candidates \ looked : ~Ahead(d)
      <4>1. PICK d \in Candidates \ looked : ~Ahead(d)
        BY <3>2
      <4>2. d \notin looked'
        BY <2>3, <2>4, <2>5, <4>1
      <4> QED
        BY <1>4, <4>1, <4>2
    <3>3. CASE \E i \in 1..len : Coming(r, i) /\ ~Coming(q, i) /\ (looked' = looked \cup {Cand(i)} => looked' = looked)
      <4>1. PICK i \in 1..len : Coming(r, i) /\ ~Coming(q, i) /\ (looked' = looked \cup {Cand(i)} => looked' = looked)
        BY <3>3
      <4>2. Cand(i) \in Candidates /\ Ahead(Cand(i))
        BY <2>4, <2>5, <4>1
      <4>3. Cand(i) \notin looked
        BY <1>2, <4>2
      <4>4. Cand(i) \notin looked'
        BY <2>3, <2>7, <4>1, <4>3
      <4>5. PICK d \in Candidates : d = Cand(i)
        BY <4>2
      <4>6. ~Ahead(d)' /\ d \notin looked'
        BY <2>4, <2>6, <4>1, <4>4, <4>5
      <4> QED
        BY <4>6
    <3> QED
      BY <1>3, <2>3, <2>9, <3>1, <3>2, <3>3
  <2> QED
    BY <1>1, <2>8, <2>9 DEF Looking
<1>8. CASE Consume
  <2>1. /\ looked' = looked /\ (flags' = flags \/ (stopped' /\ shard < N)) /\ shard' = shard
    BY <1>8, ConsumeTakes
  <2> QED
    BY <1>6, <2>1
<1>9. CASE \/ Acquire \/ Yield \/ SendNext \/ Finished \/ Return \/ FlushStream \/ ReturnAggregate \/ Dispatch
           \/ CloseResults \/ FlushTimer \/ ClientCancel \/ Deadline \/ UNCHANGED vars
  <2>1. looked' = looked
    BY <1>9, StepsOfSearch
  <2>2. \A c, f : "MatchLimit" \notin BudgetFinish(c, f) /\ "MatchLimit" \notin MarkContext(c)
    BY DEF BudgetFinish, MarkContext
  <2>3. "MatchLimit" \in flags' => "MatchLimit" \in flags
    <3>1. CASE Acquire \/ Return \/ ReturnAggregate
      <4>1. CASE Acquire
        BY <2>2, <4>1 DEF Acquire
      <4>2. CASE Return
        BY <2>2, <4>2 DEF Return
      <4>3. CASE ReturnAggregate
        BY <2>2, <4>3 DEF ReturnAggregate
      <4> QED
        BY <3>1, <4>1, <4>2, <4>3
    <3>2. CASE \/ Yield \/ SendNext \/ Finished \/ FlushStream \/ Dispatch \/ CloseResults \/ FlushTimer \/ ClientCancel
               \/ Deadline \/ UNCHANGED vars
      BY <3>2 DEF Yield, SendNext, Finished, FlushStream, Dispatch, CloseResults, FlushTimer, ClientCancel,
         Deadline, vars
    <3> QED
      BY <1>9, <3>1, <3>2
  <2> QED
    BY <1>6, <2>1, <2>3
<1>10. ASSUME NEW w \in Workers, Receive(w) \/ Deliver(w) \/ Exit(w) PROVE Looking'
  <2>1. looked' = looked /\ flags' = flags
    BY <1>10 DEF Receive, Deliver, Exit
  <2> QED
    BY <1>6, <2>1
<1> QED
  BY <1>7, <1>8, <1>9, <1>10 DEF Next, Search, Worker, Local, Terminated

\* A search begins with nothing reported, and its contexts live.
LEMMA ReasonsInit == Init => Missed /\ Looking /\ Reasons
<1> SUFFICES ASSUME Init PROVE Missed /\ Looking /\ Reasons
  OBVIOUS
<1>1. flags = {} /\ looked = {} /\ ctx = "live"
  BY DEF Init
<1> QED
  BY <1>1 DEF Missed, Looking, Reasons

\* limitSender never gives back what it has counted down.
LEMMA LimitStays == Control /\ Senders /\ SentOnce /\ [Next]_vars /\ LimitReached => LimitReached'
<1> SUFFICES ASSUME Control, Senders, SentOnce, [Next]_vars, LimitReached PROVE LimitReached'
  OBVIOUS
<1>1. sink'.left <= sink.left /\ DisplayLimit' = DisplayLimit /\ Streaming' = Streaming /\ Senders'
  BY SinkMoves
<1>2. sink.left = 0 /\ sink.left \in Nat /\ (sink.left)' \in Nat
  BY <1>1 DEF LimitReached, Senders, SinkOK, Sinks
<1>3. (sink.left)' = 0
  BY <1>1, <1>2
<1> QED
  BY <1>1, <1>3 DEF LimitReached

\* A context is canceled by the caller, by limitSender, or by the search's own end; what the
\* flags say of it they say before that end.
LEMMA ReasonsStep == Control /\ Senders /\ SentOnce /\ Reasons /\ [Next]_vars => Reasons'
<1> SUFFICES ASSUME Control, Senders, SentOnce, Reasons, [Next]_vars PROVE Reasons'
  OBVIOUS
<1> DEFINE Why == outer = "canceled" \/ LimitReached
<1>1. /\ ctx = "canceled" => Why \/ pc \in {"flush", "done"}
      /\ "Cancelled" \in flags => Why
      /\ "IndexNotReady" \in flags => ~opts.ready
      /\ ctx \in {"live", "canceled", "deadline"} /\ outer \in {"live", "canceled"}
  BY DEF Reasons, Control, Typed
<1>2. LimitReached => LimitReached'
  BY LimitStays
<1>3. outer = "canceled" => outer' = "canceled"
  BY DEF Next, Search, Worker, Acquire, Yield, Dispatch, Consume, SendNext, Finished,
     Return, FlushStream, ReturnAggregate, CloseResults, Receive, Exit, Open, Fail, Panic, Scan, LookAt, Reserve,
     Deliver, Done, FlushTimer, ClientCancel, Deadline, Terminated, vars
<1>4. Why => Why'
  BY <1>2, <1>3
<1>5. opts' = opts
  BY DEF Next, Search, Worker, Acquire, Yield, Dispatch, Consume, SendNext, Finished,
     Return, FlushStream, ReturnAggregate, CloseResults, Receive, Exit, Open, Fail, Panic, Scan, LookAt, Reserve,
     Deliver, Done, FlushTimer, ClientCancel, Deadline, Terminated, vars
<1>6. CancelOnLimit /\ ctx' = "canceled" => ctx = "canceled" \/ LimitReached'
  BY <1>5 DEF CancelOnLimit, LimitReached, Streaming, DisplayLimit
<1>7. ASSUME "Cancelled" \in flags' => "Cancelled" \in flags \/ Why',
             "IndexNotReady" \in flags' => "IndexNotReady" \in flags \/ ~opts.ready,
             ctx' = "canceled" => \/ ctx = "canceled" /\ (pc \in {"flush", "done"} => pc' \in {"flush", "done"})
                                  \/ Why' \/ pc' \in {"flush", "done"}
      PROVE  Reasons'
  <2>1. "Cancelled" \in flags' => Why'
    BY <1>1, <1>4, <1>7
  <2>2. "IndexNotReady" \in flags' => ~opts'.ready
    BY <1>1, <1>5, <1>7
  <2>3. ctx' = "canceled" => Why' \/ pc' \in {"flush", "done"}
    BY <1>1, <1>4, <1>7
  <2> QED
    BY <2>1, <2>2, <2>3 DEF Reasons
<1> HIDE DEF Why
<1>8. ASSUME NEW w \in Workers, Local(w) PROVE Reasons'
  <2>1. PICK x \in Result : LocalTo(w, x)
    BY <1>8, LocalStep
  <2>2. /\ "Cancelled" \in flags' => "Cancelled" \in flags \/ ctx = "canceled"
        /\ "IndexNotReady" \in flags' => "IndexNotReady" \in flags
        /\ UNCHANGED <<pc, ctx, outer>>
    BY <2>1 DEF LocalTo, main
  <2>3. pc \notin {"flush", "done"}
    <3>1. w \in Busy
      BY <2>1 DEF LocalTo, Busy
    <3> QED
      BY <3>1 DEF Control, Phases
  <2>4. ctx = "canceled" => Why'
    BY <1>1, <1>4, <2>3
  <2> QED
    BY <1>7, <2>2, <2>4
<1>9. CASE Acquire \/ ReturnAggregate
  <2>1. \A f : /\ "Cancelled" \in BudgetFinish(outer, f) => outer = "canceled"
               /\ "IndexNotReady" \notin BudgetFinish(outer, f)
    BY <1>1 DEF BudgetFinish, MarkContext
  <2>2. \/ flags' = flags
        \/ flags' = flags \cup BudgetFinish(outer, TRUE)
        \/ flags' = flags \cup BudgetFinish(outer, err) \cup {"IndexNotReady"} /\ ~opts.ready
        \/ flags' = flags \cup BudgetFinish(outer, err)
    <3>1. CASE Acquire
      BY <3>1 DEF Acquire
    <3>2. CASE ReturnAggregate
      <4>1. CASE ~err /\ ~opts.ready
        BY <3>2, <4>1 DEF ReturnAggregate
      <4>2. CASE err \/ opts.ready
        BY <3>2, <4>2 DEF ReturnAggregate
      <4> QED
        BY <4>1, <4>2
    <3> QED
      BY <1>9, <3>1, <3>2
  <2>3. outer = "canceled" => Why'
    BY <1>4 DEF Why
  <2>4. ctx' = ctx /\ pc \notin {"done"} /\ (pc = "flush" => pc' = "done")
    BY <1>9 DEF Acquire, ReturnAggregate
  <2>5. "Cancelled" \in flags' => "Cancelled" \in flags \/ outer = "canceled"
    <3>1. CASE outer = "canceled"
      BY <3>1
    <3>2. CASE outer # "canceled"
      <4>1. \A f : "Cancelled" \notin BudgetFinish(outer, f)
        BY <2>1, <3>2
      <4>2. "Cancelled" \notin {"IndexNotReady"} \/ "Cancelled" = "IndexNotReady"
        OBVIOUS
      <4>3. "Cancelled" # "IndexNotReady"
        OBVIOUS
      <4> QED
        BY <2>2, <4>1, <4>2, <4>3, Zenon
    <3> QED
      BY <3>1, <3>2
  <2>6. "IndexNotReady" \in flags' => "IndexNotReady" \in flags \/ ~opts.ready
    BY <2>1, <2>2
  <2> QED
    BY <1>7, <2>3, <2>4, <2>5, <2>6
<1>10. CASE Return
  <2>1. MarkContext(ctx) \cap {"Cancelled", "IndexNotReady"} \subseteq (IF ctx = "canceled" THEN {"Cancelled"} ELSE {})
    BY <1>1 DEF MarkContext
  <2>2. flags' = flags \cup MarkContext(ctx) /\ pc' = "flush" /\ pc = "return"
    BY <1>10 DEF Return
  <2>3. ctx = "canceled" => Why'
    BY <1>1, <1>4, <2>2
  <2> QED
    BY <1>7, <2>1, <2>2, <2>3
<1>11. CASE ClientCancel
  <2>1. Why' /\ UNCHANGED flags
    BY <1>11 DEF ClientCancel, Why
  <2> QED
    BY <1>7, <2>1
<1>12. CASE SendNext \/ FlushStream \/ FlushTimer
  <2>1. CancelOnLimit /\ flags' = flags
    BY <1>12 DEF SendNext, FlushStream, FlushTimer
  <2>2. ctx' = "canceled" => ctx = "canceled" \/ Why'
    BY <1>6, <2>1 DEF Why
  <2>3. pc \in {"flush", "done"} => pc' \in {"flush", "done"}
    BY <1>12 DEF SendNext, FlushStream, FlushTimer, main
  <2> QED
    BY <1>7, <2>1, <2>2, <2>3
<1>13. ASSUME \/ Yield \/ Dispatch \/ Consume \/ Finished \/ CloseResults \/ Deadline \/ UNCHANGED vars
              \/ \E w \in Workers : Receive(w) \/ Exit(w) \/ Deliver(w)
       PROVE  Reasons'
  <2>1. flags' = flags \/ flags' = flags \cup {"MatchLimit"}
    BY <1>13 DEF Yield, Dispatch, Consume, Finished, CloseResults, Deadline, Receive, Exit, Deliver, vars
  <2>2. ctx' = "canceled" => ctx = "canceled"
    BY <1>13 DEF Yield, Dispatch, Consume, Finished, CloseResults, Deadline, Receive, Exit, Deliver, vars
  <2>3. pc \in {"flush", "done"} => pc' \in {"flush", "done"}
    BY <1>13 DEF Yield, Dispatch, Consume, Finished, CloseResults, Deadline, Receive, Exit, Deliver, vars, main
  <2> QED
    BY <1>7, <2>1, <2>2, <2>3
<1> QED
  BY <1>8, <1>9, <1>10, <1>11, <1>12, <1>13 DEF Next, Search, Worker, Local, Terminated

-----------------------------------------------------------------------------
(* Progress: what is called stable is final.                               *)

Rank == [s \in 1..N |-> Priority(s)]

\* The shards that have been handed out and whose results have not been looked at.
Underway(s) ==
  \/ s > Taken
  \/ \E w \in Busy : wk[w].s = s
  \/ \E j \in DOMAIN results : results[j].s = s
Going == {s \in 1..shard : Underway(s)}

\* Every element of G has a place of its own in p, where its priority is.
Fits(p, G, rank) ==
  \E m \in [G -> DOMAIN p] : /\ \A t \in G : p[m[t]] = rank[t]
                             /\ \A t, u \in G : m[t] = m[u] => t = u

\* Nothing above p can still be sent, but for the rest of a result that F has documents of.
Bound(p, F) ==
  /\ \A s \in Going : Rank[s] <= p
  /\ \A s \in 1..N : s > shard => Rank[s] <= p
  /\ pc = "send" => Rank[todo.r.s] <= p \/ (\E d \in F : d[1] = todo.r.s) \/ Full(sink)

\* An event that does not rank below the shards its documents are of.
Leads(e) == e.files # {} /\ \A d \in e.files : Priority(d[1]) <= e.priority

\* prioritySlice has a place for every shard that is going, and what it says is the most that
\* can follow.
PendingOK == Fits(pending, Going, Rank)

Order ==
  /\ StableFinal
  /\ pc = "send" => \A s \in Going : Rank[s] <= todo.max
  /\ sink.agg # NoAgg /\ Leads(sink.agg) /\ sink.agg.priority > sink.agg.max
       => Bound(sink.agg.priority, sink.agg.files)
  /\ \A i, j \in DOMAIN sink.out :
       i <= j /\ Leads(sink.out[i]) /\ sink.out[i].priority > sink.out[j].max
         => Bound(sink.out[i].priority, sink.out[j].files)

\* prioritySlice: a shard that is handed out gets the new place.
LEMMA FitsAppend ==
  ASSUME NEW p \in Seq(Nat), NEW G, NEW rank, NEW g, g \notin G, Fits(p, G, rank), rank[g] \in Nat
  PROVE  Fits(Append(p, rank[g]), G \cup {g}, rank)
<1>1. PICK m \in [G -> DOMAIN p] : /\ \A t \in G : p[m[t]] = rank[t]
                                   /\ \A t, u \in G : m[t] = m[u] => t = u
  BY DEF Fits
<1> DEFINE q == Append(p, rank[g])
<1>2. /\ Len(p) \in Nat /\ DOMAIN p = 1..Len(p) /\ DOMAIN q = 1..Len(p) + 1
      /\ \A i \in 1..Len(p) : q[i] = p[i]
      /\ q[Len(p) + 1] = rank[g]
  BY AppendProperties, LenProperties
<1> HIDE DEF q
<1> DEFINE n == [t \in G \cup {g} |-> IF t = g THEN Len(p) + 1 ELSE m[t]]
<1>3. n \in [G \cup {g} -> DOMAIN q]
  BY <1>1, <1>2
<1>4. n[g] = Len(p) + 1 /\ \A t \in G : n[t] = m[t] /\ m[t] \in 1..Len(p)
  BY <1>1, <1>2
<1> HIDE DEF n
<1>5. \A t \in G \cup {g} : q[n[t]] = rank[t]
  BY <1>1, <1>2, <1>4
<1>6. \A t, u \in G \cup {g} : n[t] = n[u] => t = u
  BY <1>1, <1>2, <1>4
<1>7. Fits(q, G \cup {g}, rank)
  BY <1>3, <1>5, <1>6 DEF Fits
<1> QED
  BY <1>7 DEF q

\* prioritySlice.remove takes one place away, that of a shard with the priority given; another
\* shard whose place it was takes the place that has become free.
LEMMA FitsRemove ==
  ASSUME NEW p \in Seq(Nat), NEW G, NEW rank, NEW g \in G, Fits(p, G, rank), rank[g] \in Nat
  PROVE  Fits(RemovePri(p, rank[g]), G \ {g}, rank)
<1>1. PICK m \in [G -> DOMAIN p] : /\ \A t \in G : p[m[t]] = rank[t]
                                   /\ \A t, u \in G : m[t] = m[u] => t = u
  BY DEF Fits
<1> DEFINE at == {i \in DOMAIN p : p[i] = rank[g]}
           i == CHOOSE j \in at : \A k \in at : j <= k
           q == [p EXCEPT ![i] = p[Len(p)]]
           r == SubSeq(q, 1, Len(p) - 1)
<1>2. Len(p) \in Nat /\ DOMAIN p = 1..Len(p) /\ m[g] \in at /\ at \subseteq 1..Len(p) /\ Len(p) > 0
  BY <1>1, LenProperties
<1>3. i \in at
  <2> DEFINE R == {e \in Nat \X Nat : e[1] < e[2]}
  <2> HIDE DEF at
  <2>1. at \subseteq Nat /\ at # {} /\ IsFiniteSet(at)
    <3>1. IsFiniteSet(1..Len(p))
      BY <1>2, FS_Interval
    <3>2. at \in SUBSET (1..Len(p)) /\ at # {}
      BY <1>2
    <3>3. IsFiniteSet(at)
      BY <3>1, <3>2, FS_Subset
    <3> QED
      BY <1>2, <3>2, <3>3
  <2>2. PICK j \in at : \A k \in at : <<k, j>> \notin R
    <3>1. \A k \in at : <<k, k>> \notin R
      BY <2>1
    <3>2. \A j, k, l \in at : <<j, k>> \in R /\ <<k, l>> \in R => <<j, l>> \in R
      BY <2>1
    <3> HIDE DEF R
    <3> QED
      BY <2>1, <3>1, <3>2, Extremal
  <2>3. j \in Nat /\ \A k \in at : k \in Nat /\ ~ (k < j)
    BY <2>1, <2>2
  <2>4. \A k \in at : j <= k
    BY <2>3
  <2> QED
    BY <2>4 DEF at
<1>4. RemovePri(p, rank[g]) = r
  BY <1>2 DEF RemovePri
<1> HIDE DEF i
<1>5. i \in 1..Len(p) /\ p[i] = rank[g]
  BY <1>2, <1>3
<1>6. q \in Seq(Nat) /\ Len(q) = Len(p) /\ \A j \in 1..Len(p) : q[j] = IF j = i THEN p[Len(p)] ELSE p[j]
  <2>1. q \in [1..Len(p) -> Nat] /\ \A j \in 1..Len(p) : q[j] = IF j = i THEN p[Len(p)] ELSE p[j]
    BY <1>2, <1>5, LenProperties
  <2>2. q \in Seq(Nat)
    BY <1>2, <2>1, SeqDef
  <2> QED
    BY <1>2, <2>1, <2>2, LenProperties
<1> HIDE DEF q
<1>7. /\ DOMAIN r = 1..Len(p) - 1
      /\ \A j \in 1..Len(p) - 1 : r[j] = q[j]
  <2>1. /\ Len(r) = Len(p) - 1 /\ r \in Seq(Nat)
        /\ \A j \in 1..Len(p) - 1 : r[j] = q[j]
    BY <1>2, <1>6, SubSeqProperties
  <2> QED
    BY <2>1, LenProperties
<1> HIDE DEF r, at
<1> DEFINE a == m[g]
           x(t) == IF m[t] = i THEN a ELSE m[t]
           n == [t \in G \ {g} |-> IF x(t) = Len(p) THEN i ELSE x(t)]
<1>8. /\ a \in 1..Len(p) /\ p[a] = rank[g]
      /\ \A t \in G \ {g} : m[t] \in 1..Len(p) /\ m[t] # a
  BY <1>1, <1>2
<1>9. \A t \in G \ {g} : x(t) \in 1..Len(p) /\ x(t) # i /\ p[x(t)] = rank[t]
  BY <1>1, <1>2, <1>5, <1>8
<1>10. \A t, u \in G \ {g} : x(t) = x(u) => t = u
  BY <1>1, <1>8
<1> HIDE DEF x, a
<1>11. \A t \in G \ {g} : n[t] \in 1..Len(p) - 1 /\ n[t] = IF x(t) = Len(p) THEN i ELSE x(t)
  BY <1>2, <1>5, <1>9
<1>12. n \in [G \ {g} -> DOMAIN r]
  BY <1>7, <1>11
<1> HIDE DEF n
<1>13. ASSUME NEW t \in G \ {g} PROVE r[n[t]] = rank[t]
  <2>1. n[t] \in 1..Len(p) - 1 /\ n[t] \in 1..Len(p) /\ r[n[t]] = q[n[t]]
    BY <1>2, <1>7, <1>11
  <2>2. x(t) \in 1..Len(p) /\ x(t) # i /\ p[x(t)] = rank[t] /\ n[t] = IF x(t) = Len(p) THEN i ELSE x(t)
    BY <1>9, <1>11
  <2>3. CASE x(t) = Len(p)
    BY <1>6, <2>1, <2>2, <2>3
  <2>4. CASE x(t) # Len(p)
    BY <1>6, <2>1, <2>2, <2>4
  <2> QED
    BY <2>3, <2>4
<1>14. \A t, u \in G \ {g} : n[t] = n[u] => t = u
  <2> SUFFICES ASSUME NEW t \in G \ {g}, NEW u \in G \ {g}, n[t] = n[u] PROVE x(t) = x(u)
    BY <1>10
  <2>1. /\ n[t] = IF x(t) = Len(p) THEN i ELSE x(t)
        /\ n[u] = IF x(u) = Len(p) THEN i ELSE x(u)
    BY <1>11
  <2>2. x(t) # i /\ x(u) # i
    BY <1>9
  <2> QED
    BY <2>1, <2>2
<1>15. Fits(r, G \ {g}, rank)
  BY <1>12, <1>13, <1>14 DEF Fits
<1> QED
  BY <1>4, <1>15

\* prioritySlice.max is not less than any priority in it.
LEMMA FitsMax ==
  ASSUME NEW p \in Seq(Nat), NEW G, NEW rank, Fits(p, G, rank)
  PROVE  \A g \in G : rank[g] <= MaxPending(p)
<1>1. PICK m \in [G -> DOMAIN p] : \A t \in G : p[m[t]] = rank[t]
  BY DEF Fits
<1>2. ASSUME NEW g \in G PROVE rank[g] <= MaxPending(p)
  <2>1. rank[g] \in Range(p) /\ p # <<>>
    BY <1>1 DEF Range
  <2>2. \E x \in Range(p) : \A y \in Range(p) : y <= x
    BY <2>1, LargestExists
  <2>3. \A y \in Range(p) : y <= MaxPending(p)
    BY <2>1, <2>2 DEF MaxPending
  <2> QED
    BY <2>1, <2>3
<1> QED
  BY <1>2

\* Shards rank in the order they are searched in.
LEMMA RankOrder ==
  ASSUME opts \in Options
  PROVE  \A s, t \in 1..N : Rank[s] \in Nat /\ Rank[s] = Priority(s) /\ (s <= t => Rank[t] <= Rank[s])
<1>1. \A s \in 1..N : Rank[s] = Priority(s) /\ Priority(s) \in Nat
  BY Given DEF Rank
<1>2. \A s, t \in 1..N : s <= t => Priority(t) <= Priority(s)
  <2>1. \A s, t \in DOMAIN opts.shards :
          s <= t => Largest(opts.shards[t].repos) <= Largest(opts.shards[s].repos)
    BY SearchAssumption
  <2>2. DOMAIN opts.shards = 1..N /\ Shards = 1..N
    BY Given DEF Shards
  <2>3. \A s \in 1..N : Priority(s) = Largest(opts.shards[s].repos)
    BY <2>2 DEF Priority, Repos
  <2> QED
    BY <2>1, <2>2, <2>3
<1> QED
  BY <1>1, <1>2

\* Only dispatch adds to the shards that are going, and only looking at a result takes one away.
LEMMA GoingMoves ==
  ASSUME Control, OnePlace, [Next]_vars
  PROVE  /\ \/ Dispatch /\ shard' = shard + 1 /\ shard + 1 \notin Going /\ Going' = Going \cup {shard + 1}
            \/ Consume /\ shard' = shard /\ results[1].s \in Going /\ Going' = Going \ {results[1].s}
            \/ ~Dispatch /\ ~Consume /\ shard' = shard /\ Going' = Going
         /\ Rank' = Rank /\ N' = N
<1>1. /\ opts \in Options /\ N \in Nat /\ shard \in 0..N /\ Len(search) \in Nat /\ Taken \in Int
      /\ wk \in [Workers -> Result] /\ opts' = opts /\ Taken <= shard
  <2>1. opts \in Options /\ shard \in 0..N /\ wk \in [Workers -> Result] /\ search \in Seq(Nat)
    BY DEF Control, Typed
  <2>2. N \in Nat /\ Len(search) \in Nat
    BY <2>1, Given, LenProperties
  <2>3. opts' = opts
    BY OptsStay
  <2> QED
    BY <2>1, <2>2, <2>3 DEF Control, Queued, Taken
<1>2. Rank' = Rank /\ N' = N
  BY <1>1, Same DEF Rank
<1>3. ASSUME shard' = shard, \A s \in 1..shard : Underway(s)' <=> Underway(s) PROVE Going' = Going
  BY <1>3 DEF Going
<1>4. ASSUME NEW w \in Workers, Receive(w), ~Dispatch, ~Consume PROVE shard' = shard /\ Going' = Going
  <2>1. PICK x \in Result :
           /\ wk'[w] = x /\ \A v \in Workers \ {w} : wk'[v] = wk[v]
           /\ Busy' = Busy \cup {w} /\ w \notin Busy /\ x.s = Taken + 1 /\ Taken' = Taken + 1 /\ Taken' <= shard
           /\ UNCHANGED <<main, results>>
    BY <1>4, ReceiveTakes
  <2>2. UNCHANGED <<shard, results>> /\ \A v \in Busy : v \in Workers /\ wk'[v] = wk[v]
    BY <2>1 DEF main, Busy
  <2>3. ASSUME NEW s \in 1..shard PROVE Underway(s)' <=> Underway(s)
    <3>1. s > Taken <=> s > Taken' \/ s = x.s
      BY <1>1, <2>1
    <3>2. (\E v \in Busy' : wk'[v].s = s) <=> s = x.s \/ \E v \in Busy : wk[v].s = s
      BY <2>1, <2>2
    <3> QED
      BY <2>2, <3>1, <3>2 DEF Underway
  <2> QED
    BY <1>3, <2>2, <2>3
<1>5. ASSUME NEW w \in Workers, Deliver(w), ~Dispatch, ~Consume PROVE shard' = shard /\ Going' = Going
  <2>1. /\ w \in Busy /\ Busy' = Busy \ {w} /\ \A v \in Workers \ {w} : wk'[v] = wk[v]
        /\ DOMAIN results = 1..Len(results) /\ Len(results) \in Nat /\ DOMAIN results' = 1..Len(results) + 1
        /\ results'[Len(results) + 1] = wk[w]
        /\ \A j \in 1..Len(results) : results'[j] = results[j]
        /\ \A j \in DOMAIN results' : j = Len(results) + 1 \/ j \in DOMAIN results
        /\ UNCHANGED <<main, search>> /\ Taken' = Taken
    BY <1>5, DeliverMoves
  <2>2. UNCHANGED shard /\ \A v \in Busy' : v \in Busy /\ wk'[v] = wk[v]
    BY <2>1 DEF main, Busy
  <2>3. ASSUME NEW s \in 1..shard PROVE Underway(s)' <=> Underway(s)
    <3>1. (\E v \in Busy : wk[v].s = s) <=> wk[w].s = s \/ \E v \in Busy' : wk'[v].s = s
      BY <2>1, <2>2
    <3>2. (\E j \in DOMAIN results' : results'[j].s = s) <=> wk[w].s = s \/ \E j \in DOMAIN results : results[j].s = s
      <4>1. Len(results) + 1 \in DOMAIN results' /\ DOMAIN results \subseteq DOMAIN results'
        BY <2>1
      <4> QED
        BY <2>1, <4>1
    <3> QED
      BY <2>1, <3>1, <3>2 DEF Underway
  <2> QED
    BY <1>3, <2>2, <2>3
<1>6. ASSUME NEW w \in Workers, Local(w) \/ Exit(w), ~Dispatch, ~Consume PROVE shard' = shard /\ Going' = Going
  <2>1. /\ UNCHANGED <<results, shard>> /\ Busy' = Busy /\ Taken' = Taken
        /\ \A v \in Busy : wk'[v].s = wk[v].s
    BY <1>6, LocalStays
  <2>2. ASSUME NEW s \in 1..shard PROVE Underway(s)' <=> Underway(s)
    BY <2>1 DEF Underway
  <2> QED
    BY <1>3, <2>1, <2>2
<1>7. CASE Consume
  <2>1. PICK r \in Result :
           /\ r = results[1] /\ 1 \in DOMAIN results /\ ResultOK(r)
           /\ DOMAIN results = 1..Len(results) /\ Len(results) \in Nat /\ DOMAIN results' = 1..Len(results) - 1
           /\ \A j \in DOMAIN results' : results'[j] = results[j + 1] /\ j + 1 \in DOMAIN results
           /\ Taken' = Taken /\ Busy' = Busy /\ shard' = shard /\ wk' = wk
    BY <1>7, ConsumeTakes
  <2>2. r.s \in 1..shard /\ r.s <= Taken
    BY <1>1, <2>1 DEF ResultOK
  <2>3. r.s \in Going
    BY <2>1, <2>2 DEF Going, Underway
  <2>4. ASSUME NEW s \in 1..shard PROVE Underway(s)' <=> Underway(s) /\ s # r.s
    <3>1. CASE s = r.s
      <4>1. ~ (s > Taken')
        BY <1>1, <2>1, <2>2, <3>1
      <4>2. \A v \in Busy' : wk'[v].s # s
        BY <2>1, <3>1 DEF OnePlace
      <4>3. \A j \in DOMAIN results' : results'[j].s # s
        <5>1. \A j \in DOMAIN results' : j + 1 # 1
          BY <2>1
        <5>2. \A j \in DOMAIN results : results[j].s = results[1].s => j = 1
          BY <2>1 DEF OnePlace
        <5> QED
          BY <2>1, <3>1, <5>1, <5>2
      <4> QED
        BY <3>1, <4>1, <4>2, <4>3 DEF Underway
    <3>2. CASE s # r.s
      <4>1. (\E j \in DOMAIN results' : results'[j].s = s) <=> \E j \in DOMAIN results : results[j].s = s
        <5>1. ASSUME NEW j \in DOMAIN results, results[j].s = s PROVE \E k \in DOMAIN results' : results'[k].s = s
          <6>1. j # 1 /\ j \in 1..Len(results)
            BY <2>1, <3>2, <5>1
          <6>2. j - 1 \in 1..Len(results) - 1 /\ (j - 1) + 1 = j
            BY <2>1, <6>1
          <6>3. j - 1 \in DOMAIN results' /\ (j - 1) + 1 = j
            BY <2>1, <6>2
          <6> QED
            BY <2>1, <5>1, <6>3
        <5> QED
          BY <2>1, <5>1
      <4> QED
        BY <2>1, <3>2, <4>1 DEF Underway
    <3> QED
      BY <3>1, <3>2
  <2>5. Going' = Going \ {r.s}
    BY <2>1, <2>4 DEF Going
  <2> QED
    BY <1>2, <1>7, <2>1, <2>3, <2>5
<1>8. CASE Dispatch
  <2>1. UNCHANGED <<results, wk>> /\ Taken' = Taken /\ Busy' = Busy /\ shard' = shard + 1
    BY <1>8, StepsOfSearch DEF Dispatch
  <2>2. ASSUME NEW s PROVE Underway(s)' <=> Underway(s)
    BY <2>1 DEF Underway
  <2>3. \A s : s = shard + 1 => Underway(s)'
    BY <1>1, <2>1 DEF Underway
  <2>4. \A s \in 1..shard + 1 : s \in 1..shard \/ s = shard + 1
    BY <1>1
  <2>5. 1..shard \subseteq 1..shard' /\ shard + 1 \in 1..shard' /\ shard + 1 \notin 1..shard
    BY <1>1, <2>1
  <2>6. Going' = Going \cup {shard + 1}
    BY <2>1, <2>2, <2>3, <2>4, <2>5 DEF Going
  <2> QED
    BY <1>2, <1>8, <2>1, <2>5, <2>6 DEF Going
<1>9. CASE /\ \/ Acquire \/ Yield \/ SendNext \/ Finished \/ Return \/ FlushStream \/ ReturnAggregate
              \/ CloseResults \/ FlushTimer \/ ClientCancel \/ Deadline \/ UNCHANGED vars
           /\ ~Dispatch /\ ~Consume
  <2>1. UNCHANGED <<results, wk>> /\ Taken' = Taken /\ Busy' = Busy
    BY <1>9, StepsOfSearch
  <2>2. shard' = shard
    BY <1>9 DEF Acquire, Yield, SendNext, Finished, Return, FlushStream, ReturnAggregate,
       CloseResults, FlushTimer, ClientCancel, Deadline, vars, main
  <2>3. ASSUME NEW s \in 1..shard PROVE Underway(s)' <=> Underway(s)
    BY <2>1 DEF Underway
  <2> QED
    BY <1>2, <1>3, <1>9, <2>2, <2>3
<1> QED
  BY <1>2, <1>4, <1>5, <1>6, <1>7, <1>8, <1>9 DEF Next, Search, Worker, Local, Terminated

\* Every shard that is going keeps its place among the pending priorities.
LEMMA PendingStep == Control /\ OnePlace /\ PendingOK /\ [Next]_vars => PendingOK'
<1> SUFFICES ASSUME Control, OnePlace, PendingOK, [Next]_vars PROVE PendingOK'
  OBVIOUS
<1>1. /\ pending \in Seq(Nat) /\ opts \in Options /\ N \in Nat /\ shard \in 0..N /\ Going \subseteq 1..N
      /\ \A s \in 1..N : Rank[s] \in Nat /\ Rank[s] = Priority(s)
  <2>1. pending \in Seq(Nat) /\ opts \in Options /\ shard \in 0..N
    BY DEF Control, Typed
  <2>2. N \in Nat /\ \A s \in 1..N : Rank[s] \in Nat /\ Rank[s] = Priority(s)
    BY <2>1, Given, RankOrder
  <2> QED
    BY <2>1, <2>2 DEF Going
<1>2. Fits(pending, Going, Rank) /\ Rank' = Rank
  BY GoingMoves DEF PendingOK
<1>3. CASE Dispatch
  <2>1. shard + 1 \notin Going /\ Going' = Going \cup {shard + 1}
    <3>1. shard' = shard + 1 /\ shard' # shard
      BY <1>1, <1>3 DEF Dispatch
    <3> QED
      BY <1>3, <3>1, GoingMoves
  <2>2. pending' = Append(pending, Rank[shard + 1]) /\ Rank[shard + 1] \in Nat
    <3>1. shard + 1 \in 1..N
      BY <1>1, <1>3 DEF Dispatch, Control, Phases
    <3> QED
      BY <1>1, <1>3, <3>1 DEF Dispatch
  <2> QED
    BY <1>1, <1>2, <2>1, <2>2, FitsAppend DEF PendingOK
<1>4. CASE Consume
  <2>1. results[1].s \in Going /\ Going' = Going \ {results[1].s}
    <3>1. shard' = shard /\ shard' # shard + 1
      BY <1>1, <1>4 DEF Consume
    <3> QED
      BY <1>4, <3>1, GoingMoves
  <2>2. Head(results) = results[1]
    BY <1>4 DEF Control, Typed, Consume
  <2>3. pending' = RemovePri(pending, Rank[results[1].s]) /\ Rank[results[1].s] \in Nat
    BY <1>1, <1>4, <2>1, <2>2 DEF Consume
  <2> QED
    BY <1>1, <1>2, <2>1, <2>3, FitsRemove DEF PendingOK
<1>5. CASE ~Dispatch /\ ~Consume
  <2>1. Going' = Going
    BY <1>5, GoingMoves
  <2>2. pending' = pending
    BY <1>5 DEF Next, Search, Worker, Acquire, Yield, SendNext, Finished,
     Return, FlushStream, ReturnAggregate, CloseResults, Receive, Exit, Open, Fail, Panic, Scan, LookAt, Reserve,
     Deliver, Done, FlushTimer, ClientCancel, Deadline, Terminated, vars, main
  <2> QED
    BY <1>2, <2>1, <2>2 DEF PendingOK
<1> QED
  BY <1>3, <1>4, <1>5

\* limitSender adds one event and changes nothing of its progress.
LEMMA EmitShape ==
  ASSUME NEW k \in Sinks, NEW e \in Events
  PROVE  /\ Emit(k, e).agg = k.agg
         /\ \E f \in Events : /\ Emit(k, e).out = Append(k.out, f)
                              /\ f.priority = e.priority /\ f.max = e.max /\ f.files \subseteq e.files
<1> DEFINE kept == IF DisplayLimit > 0 THEN Top(e.files, k.left) ELSE e.files
           f == [e EXCEPT !.files = kept]
           left == IF DisplayLimit = 0 THEN 0 ELSE k.left - Cardinality(kept)
<1>1. kept \subseteq e.files
  BY DEF Top
<1> HIDE DEF kept
<1>2. f \in Events /\ f.priority = e.priority /\ f.max = e.max /\ f.files \subseteq e.files
  BY <1>1 DEF Events
<1>3. Emit(k, e) = [k EXCEPT !.left = left, !.out = Append(k.out, f)]
  BY DEF Emit, kept
<1> HIDE DEF f, left
<1>4. Emit(k, e).agg = k.agg /\ Emit(k, e).out = Append(k.out, f)
  BY <1>3 DEF Sinks
<1> QED
  BY <1>2, <1>4

\* What a step does to the senders: nothing, nothing that has documents, one more event kept,
\* or one more event delivered, the next one or the aggregate.
LEMMA SinkShapes ==
  ASSUME Control, Senders, [Next]_vars
  PROVE  \/ ~SendNext /\ sink'.out = sink.out /\ sink'.agg = sink.agg
         \/ ~SendNext /\ sink'.agg = NoAgg /\ \A i \in DOMAIN sink'.out : sink'.out[i].files = {}
         \/ /\ SendNext /\ sink'.out = sink.out /\ sink'.agg = Collect(sink.agg, NextEvent)
            /\ FilesOf(sink.out) = {}
         \/ \E f \in Events :
              /\ sink'.out = Append(sink.out, f) /\ sink'.agg = NoAgg
              /\ \/ /\ SendNext /\ f.priority = NextEvent.priority /\ f.max = NextEvent.max
                    /\ f.files \subseteq NextEvent.files
                 \/ /\ ~SendNext /\ sink.agg # NoAgg /\ FilesOf(sink.out) = {}
                    /\ f.priority = sink.agg.priority /\ f.max = sink.agg.max
<1>1. /\ sink \in Sinks /\ sink.out \in Seq(Events) /\ sink.agg \in {NoAgg} \cup Events
      /\ sink.collecting \in BOOLEAN
      /\ sink.collecting => FilesOf(sink.out) = {}
      /\ ~sink.collecting => sink.agg = NoAgg
      /\ pc = "acquire" => ~sink.collecting /\ sink.out = <<>>
      /\ ~Streaming /\ pc # "done" => sink.out = <<>> /\ (pc = "acquire" \/ sink.collecting)
  BY DEF Senders, SinkOK, Sinks
<1>2. CASE SendNext
  <2>1. sink' = Send(sink, NextEvent) /\ NextEvent \in Events
    BY <1>2, NextEventOK DEF SendNext
  <2>2. CASE sink.collecting
    <3>1. sink' = [sink EXCEPT !.agg = Collect(@, NextEvent)]
      BY <2>1, <2>2 DEF Send
    <3>2. sink'.out = sink.out /\ sink'.agg = Collect(sink.agg, NextEvent)
      BY <1>1, <3>1 DEF Sinks
    <3> QED
      BY <1>1, <1>2, <2>2, <3>2
  <2>3. CASE ~sink.collecting
    <3>1. sink' = Emit(sink, NextEvent)
      BY <2>1, <2>3 DEF Send
    <3> QED
      BY <1>1, <1>2, <2>1, <2>3, <3>1, EmitShape
  <2> QED
    BY <2>2, <2>3
<1>3. CASE (FlushTimer \/ FlushStream) /\ ~SendNext
  <2>1. sink' = StopCollecting(sink)
    BY <1>3 DEF FlushTimer, FlushStream
  <2> DEFINE m == [sink EXCEPT !.collecting = FALSE, !.agg = NoAgg]
  <2>2. m \in Sinks /\ m.agg = NoAgg /\ m.out = sink.out
    BY <1>1 DEF Sinks
  <2>3. CASE ~sink.collecting
    BY <1>3, <2>1, <2>3 DEF StopCollecting
  <2>4. CASE sink.collecting /\ sink.agg = NoAgg
    <3>1. sink' = m
      BY <2>1, <2>4 DEF StopCollecting
    <3> HIDE DEF m
    <3> QED
      BY <1>3, <2>2, <2>4, <3>1
  <2>5. CASE sink.collecting /\ sink.agg # NoAgg
    <3>1. sink' = Emit(m, sink.agg) /\ sink.agg \in Events
      BY <1>1, <2>1, <2>5 DEF StopCollecting
    <3> HIDE DEF m
    <3>2. sink'.agg = NoAgg
      BY <2>2, <3>1, EmitShape
    <3>3. PICK f \in Events : /\ sink'.out = Append(sink.out, f)
                              /\ f.priority = sink.agg.priority /\ f.max = sink.agg.max
      BY <2>2, <3>1, EmitShape
    <3>4. FilesOf(sink.out) = {} /\ ~SendNext
      BY <1>1, <1>3, <2>5
    <3> QED
      BY <2>5, <3>2, <3>3, <3>4
  <2> QED
    BY <2>3, <2>4, <2>5
<1>4. CASE Acquire /\ outer = "live"
  <2>1. sink' = [sink EXCEPT !.collecting = opts.collecting \/ ~Streaming,
                             !.out = IF Streaming THEN <<FirstEvent>> ELSE <<>>]
        /\ pc = "acquire" /\ ~SendNext
    BY <1>4 DEF Acquire, SendNext
  <2>2. sink'.agg = NoAgg /\ sink'.out = IF Streaming THEN <<FirstEvent>> ELSE <<>>
    BY <1>1, <2>1 DEF Sinks
  <2>3. FirstEvent.files = {}
    BY DEF FirstEvent, Event
  <2>4. \A i \in DOMAIN sink'.out : sink'.out[i].files = {}
    BY <2>2, <2>3
  <2> QED
    BY <2>1, <2>2, <2>4
<1>5. CASE ReturnAggregate /\ ~err
  <2> DEFINE agg == IF sink.agg = NoAgg THEN Event(0, 0, {}, 0) ELSE sink.agg
             f == [agg EXCEPT !.crash = @ + (IF opts.ready THEN 0 ELSE 1)]
             o == <<f>>
  <2>1. /\ pc = "flush" /\ ~Streaming /\ ~SendNext /\ sink.collecting /\ sink.out = <<>>
        /\ sink' = [sink EXCEPT !.collecting = FALSE, !.agg = NoAgg, !.out = o]
    BY <1>1, <1>5 DEF ReturnAggregate, SendNext
  <2>2. agg \in Events /\ agg.crash \in Nat
    BY <1>1 DEF Event, Events
  <2> HIDE DEF agg
  <2>3. f \in Events /\ f.priority = agg.priority /\ f.max = agg.max /\ f.files = agg.files
    BY <2>2 DEF Events
  <2> HIDE DEF f, o
  <2>4. sink'.agg = NoAgg /\ sink'.out = o
    BY <1>1, <2>1 DEF Sinks
  <2>5. CASE sink.agg = NoAgg
    <3>1. f.files = {} /\ DOMAIN o = {1} /\ o[1] = f
      BY <2>3, <2>5 DEF agg, Event, o
    <3>2. \A i \in DOMAIN sink'.out : sink'.out[i].files = {}
      BY <2>4, <3>1
    <3> QED
      BY <2>1, <2>4, <3>2
  <2>6. CASE sink.agg # NoAgg
    <3>1. agg = sink.agg
      BY <2>6 DEF agg
    <3>2. o = Append(sink.out, f) /\ FilesOf(sink.out) = {}
      BY <1>1, <2>1, <2>3 DEF o
    <3> QED
      BY <2>1, <2>3, <2>4, <2>6, <3>1, <3>2
  <2> QED
    BY <2>5, <2>6
<1>6. CASE ~SendNext /\ ~ (FlushTimer \/ FlushStream) /\ ~ (Acquire /\ outer = "live") /\ ~ (ReturnAggregate /\ ~err)
  <2>1. sink' = sink
    <3>1. CASE Search
      <4>1. CASE Acquire \/ ReturnAggregate
        BY <1>6, <4>1 DEF Acquire, ReturnAggregate
      <4>2. CASE Yield \/ Dispatch \/ Consume \/ Finished \/ Return
        BY <4>2 DEF Yield, Dispatch, Consume, Finished, Return
      <4> QED
        BY <1>6, <3>1, <4>1, <4>2 DEF Search
    <3>2. CASE ~Search
      BY <1>6, <3>2 DEF Next, Worker, CloseResults, Receive, Exit, Open, Fail, Panic, Scan, LookAt, Reserve,
         Deliver, Done, ClientCancel, Deadline, Terminated, vars
    <3> QED
      BY <3>1, <3>2
  <2> QED
    BY <1>6, <2>1
<1> QED
  BY <1>2, <1>3, <1>4, <1>5, <1>6

\* What is still to come does not grow.
LEMMA BoundStays ==
  ASSUME Control, OnePlace, Senders, SentOnce, [Next]_vars
  PROVE  \A p \in Int : \A F : Bound(p, F) => Bound(p, F)'
<1>1. /\ \/ Dispatch /\ shard' = shard + 1 /\ Going' = Going \cup {shard + 1}
         \/ Consume /\ shard' = shard /\ results[1].s \in Going /\ Going' = Going \ {results[1].s}
         \/ ~Dispatch /\ ~Consume /\ shard' = shard /\ Going' = Going
      /\ Rank' = Rank /\ N' = N
  BY GoingMoves
<1>2. opts \in Options /\ N \in Nat /\ shard \in 0..N
  BY Given DEF Control, Typed
<1>3. Full(sink) => Full(sink)'
  BY SinkMoves DEF Full, SentBy, AggFiles
<1> SUFFICES ASSUME NEW p \in Int, NEW F, Bound(p, F) PROVE Bound(p, F)'
  OBVIOUS
<1>4. /\ \A s \in Going : Rank[s] <= p
      /\ \A s \in 1..N : s > shard => Rank[s] <= p
      /\ pc = "send" => Rank[todo.r.s] <= p \/ (\E d \in F : d[1] = todo.r.s) \/ Full(sink)
  BY DEF Bound
<1>5. CASE Dispatch
  <2>1. shard' = shard + 1 /\ Going' = Going \cup {shard + 1}
    <3>1. shard' = shard + 1 /\ shard' # shard
      BY <1>2, <1>5 DEF Dispatch
    <3> QED
      BY <1>1, <1>5, <3>1
  <2>2. shard + 1 \in 1..N /\ shard + 1 > shard /\ pc' = "yield"
    BY <1>2, <1>5 DEF Dispatch, Control, Phases
  <2>3. \A s \in Going' : Rank'[s] <= p
    BY <1>1, <1>4, <2>1, <2>2
  <2>4. \A s \in 1..N' : s > shard' => Rank'[s] <= p
    BY <1>1, <1>2, <1>4, <2>1
  <2> QED
    BY <2>2, <2>3, <2>4 DEF Bound
<1>6. CASE Consume
  <2>1. shard' = shard /\ results[1].s \in Going /\ Going' = Going \ {results[1].s}
    <3>1. UNCHANGED shard
      BY <1>6 DEF Consume
    <3>2. shard' # shard + 1
      BY <1>2, <3>1
    <3> QED
      BY <1>1, <1>6, <3>2
  <2>2. pc' = "send" => todo'.r = results[1]
    BY <1>6, ConsumeTakes
  <2> QED
    BY <1>1, <1>4, <2>1, <2>2 DEF Bound
<1>7. CASE ~Dispatch /\ ~Consume
  <2>1. pc' = "send" => pc = "send" /\ todo'.r = todo.r
    <3>1. CASE \E w \in Workers : Worker(w)
      <4>1. PICK w \in Workers : Receive(w) \/ Deliver(w) \/ Local(w) \/ Exit(w)
        BY <3>1 DEF Worker, Local
      <4>2. CASE Receive(w) \/ Deliver(w)
        BY <4>2 DEF Receive, Deliver, main
      <4>3. CASE Local(w) \/ Exit(w)
        BY <4>3, LocalStays
      <4> QED
        BY <4>1, <4>2, <4>3
    <3>2. CASE \/ Acquire \/ Yield \/ SendNext \/ Finished \/ Return \/ FlushStream \/ ReturnAggregate
               \/ CloseResults \/ FlushTimer \/ ClientCancel \/ Deadline \/ UNCHANGED vars
      BY <3>2, StepsOfSearch
    <3> QED
      BY <1>7, <3>1, <3>2 DEF Next, Search, Terminated
  <2>2. Going' = Going /\ shard' = shard
    BY <1>1, <1>7
  <2> QED
    BY <1>1, <1>3, <1>4, <2>1, <2>2 DEF Bound
<1> QED
  BY <1>5, <1>6, <1>7

\* Once an event is sent, nothing of a priority above its MaxPendingPriority follows, but for the
\* rest of its result: what is going is at most that, and what was not dispatched ranks no
\* higher than what was.
LEMMA AfterSend ==
  ASSUME Control, OnePlace, Order, SendNext, [Next]_vars, NEW p \in Int, NEW F, p > todo.max,
         \E t \in 1..shard : Rank[t] <= p,
         NextEvent.files \subseteq F \/ Full(sink)'
  PROVE  Bound(p, F)'
<1>1. /\ pc = "send" /\ opts \in Options /\ N \in Nat /\ shard \in 0..N /\ todo.max \in Int /\ Going \subseteq 1..N
      /\ todo \in [r : Result, max : Int, rest : SUBSET Nat]
  <2>1. pc = "send" /\ opts \in Options /\ shard \in 0..N /\ todo \in [r : Result, max : Int, rest : SUBSET Nat]
    BY DEF SendNext, Control, Typed
  <2>2. N \in Nat /\ todo.max \in Int
    BY <2>1, Given
  <2> QED
    BY <2>1, <2>2 DEF Going
<1>2. Going' = Going /\ shard' = shard /\ Rank' = Rank /\ N' = N
  <2>1. ~Dispatch /\ ~Consume
    BY <1>1 DEF Dispatch, Consume
  <2> QED
    BY <2>1, GoingMoves
<1>3. \A s \in Going : Rank[s] <= p
  <2>1. \A s \in Going : Rank[s] <= todo.max /\ Rank[s] \in Nat
    BY <1>1, RankOrder DEF Order
  <2> QED
    BY <1>1, <2>1
<1>4. \A s \in 1..N : s > shard => Rank[s] <= p
  <2>1. PICK t \in 1..shard : Rank[t] <= p
    OBVIOUS
  <2>2. t \in 1..N
    BY <1>1
  <2>3. ASSUME NEW s \in 1..N, s > shard PROVE Rank[s] <= p
    <3>1. t <= s
      BY <1>1, <2>3
    <3>2. Rank[s] <= Rank[t] /\ Rank[s] \in Nat /\ Rank[t] \in Nat
      BY <1>1, <2>2, <3>1, RankOrder
    <3> QED
      BY <2>1, <3>2
  <2> QED
    BY <2>3
<1>5. pc' = "send" => todo'.r = todo.r /\ \E d \in NextEvent.files : d[1] = todo.r.s
  <2> SUFFICES ASSUME pc' = "send" PROVE todo'.r = todo.r /\ \E d \in NextEvent.files : d[1] = todo.r.s
    OBVIOUS
  <2>1. Run # todo.rest
    BY DEF SendNext
  <2>2. Run # {}
    <3>1. PICK i \in todo.rest : \A j \in todo.rest : i <= j
      <4> DEFINE R == {e \in Nat \X Nat : e[1] < e[2]}
      <4>1. todo.rest \subseteq Nat /\ todo.rest # {}
        BY <1>1, <2>1 DEF Run
      <4>2. IsFiniteSet(todo.rest)
        <5>1. todo.rest \subseteq 1..Len(Docs[todo.r.s]) /\ Len(Docs[todo.r.s]) \in Nat
          BY <1>1, NextEventOK, Given
        <5>2. IsFiniteSet(1..Len(Docs[todo.r.s]))
          BY <5>1, FS_Interval
        <5> QED
          BY <5>1, <5>2, FS_Subset
      <4>3. \A x \in todo.rest : <<x, x>> \notin R
        BY <4>1
      <4>4. \A x, y, z \in todo.rest : <<x, y>> \in R /\ <<y, z>> \in R => <<x, z>> \in R
        BY <4>1
      <4>5. PICK i \in todo.rest : \A j \in todo.rest : <<j, i>> \notin R
        <5> HIDE DEF R
        <5> QED
          BY <4>1, <4>2, <4>3, <4>4, Extremal
      <4>6. \A j \in todo.rest : i \in Nat /\ j \in Nat /\ ~ (j < i)
        BY <4>1, <4>5
      <4> QED
        BY <4>6
    <3>2. ASSUME NEW j \in todo.rest, j <= i PROVE j = i
      <4>1. i \in Nat /\ j \in Nat /\ i <= j
        BY <1>1, <3>1
      <4> QED
        BY <3>2, <4>1
    <3>3. i \in Run
      BY <3>2 DEF Run
    <3> QED
      BY <3>3
  <2>3. PICK i \in Run : TRUE
    BY <2>2
  <2>4. <<todo.r.s, i>> \in NextEvent.files
    BY <1>1, <2>3, NextEventOK
  <2>5. todo'.r = todo.r
    BY <1>1, StepsOfSearch
  <2> QED
    BY <2>4, <2>5
<1>6. (pc = "send" => Rank[todo.r.s] <= p \/ (\E d \in F : d[1] = todo.r.s) \/ Full(sink))'
  BY <1>5
<1> QED
  BY <1>2, <1>3, <1>4, <1>6 DEF Bound

\* The search has said nothing when it begins.
LEMMA OrderInit == Init => PendingOK /\ Order
<1> SUFFICES ASSUME Init PROVE PendingOK /\ Order
  OBVIOUS
<1>1. /\ shard = 0 /\ sink.out = <<>> /\ sink.agg = NoAgg /\ pc = "acquire"
  BY DEF Init
<1>2. Going = {}
  BY <1>1 DEF Going
<1>3. DOMAIN sink.out = {}
  BY <1>1
<1>4. PendingOK
  <2> DEFINE m == [t \in {} |-> 0]
  <2>1. m \in [Going -> DOMAIN pending] /\ \A t \in Going : FALSE
    BY <1>2
  <2> QED
    BY <2>1 DEF PendingOK, Fits
<1>5. Order
  BY <1>1, <1>3 DEF Order, StableFinal
<1> QED
  BY <1>4, <1>5

\* What is called stable stays final: a new event ranks no higher than its shard, which was
\* going when the older events were sent, and tells the most that is going now.
LEMMA OrderStep ==
  Control /\ OnePlace /\ Senders /\ SentOnce /\ PendingOK /\ Order /\ [Next]_vars => Order'
<1> SUFFICES ASSUME Control, OnePlace, Senders, SentOnce, PendingOK, Order, [Next]_vars PROVE Order'
  OBVIOUS
<1>1. /\ sink.out \in Seq(Events) /\ Len(sink.out) \in Nat /\ DOMAIN sink.out = 1..Len(sink.out)
      /\ \A i \in DOMAIN sink.out : sink.out[i] \in Events /\ sink.out[i].priority \in Int /\ sink.out[i].max \in Int
      /\ sink.agg # NoAgg => sink.agg \in Events /\ sink.agg.priority \in Int /\ sink.agg.max \in Int
  <2>1. sink.out \in Seq(Events) /\ sink.agg \in {NoAgg} \cup Events
    BY DEF Senders, SinkOK, Sinks
  <2>2. \A e \in Events : e.priority \in Int /\ e.max \in Int
    BY DEF Events
  <2>3. Len(sink.out) \in Nat /\ DOMAIN sink.out = 1..Len(sink.out) /\ \A i \in 1..Len(sink.out) : sink.out[i] \in Events
    BY <2>1, LenProperties
  <2> QED
    BY <2>1, <2>2, <2>3
<1>2. /\ StableFinal
      /\ sink.agg # NoAgg /\ Leads(sink.agg) /\ sink.agg.priority > sink.agg.max
           => Bound(sink.agg.priority, sink.agg.files)
      /\ \A i, j \in DOMAIN sink.out :
           i <= j /\ Leads(sink.out[i]) /\ sink.out[i].priority > sink.out[j].max
             => Bound(sink.out[i].priority, sink.out[j].files)
  BY DEF Order
<1>3. \A p \in Int : \A F : Bound(p, F) => Bound(p, F)'
  BY BoundStays
<1>4. /\ opts' = opts /\ (\A s : Priority(s)' = Priority(s)) /\ (\A e : Leads(e)' <=> Leads(e))
      /\ opts \in Options /\ N \in Nat /\ shard \in 0..N /\ Rank' = Rank
  <2>1. opts' = opts /\ opts \in Options /\ shard \in 0..N
    BY OptsStay DEF Control, Typed
  <2>2. \A s : Priority(s)' = Priority(s)
    BY <2>1, Same
  <2> QED
    BY <2>1, <2>2, Given, GoingMoves DEF Leads
<1>5. /\ Senders' /\ SentOnce' /\ Control' /\ (Full(sink)' <=> Full(sink')) /\ Sent' = SentBy(sink') /\ Sent = SentBy(sink)
      /\ \/ SendNext /\ Sent' \subseteq Sent \cup NextEvent.files /\ (Sent' = Sent \cup NextEvent.files \/ Full(sink)')
         \/ ~SendNext /\ Sent' = Sent
  <2>1. DisplayLimit' = DisplayLimit
    BY SinkMoves
  <2>2. Full(sink)' <=> Full(sink')
    BY <2>1 DEF Full, SentBy, AggFiles
  <2>3. Sent' = SentBy(sink') /\ Sent = SentBy(sink)
    BY SentIsSentBy DEF Sent, Delivered, SentBy, AggFiles
  <2> QED
    BY <2>2, <2>3, SinkMoves, SentOnceStep, ControlStep
<1>6. ASSUME SendNext
      PROVE  /\ pc = "send" /\ NextEvent \in Events /\ NextEvent.max = todo.max /\ todo.max \in Int /\ shard' = shard
             /\ todo.r.s \in 1..N /\ NextEvent.priority \in Int /\ NextEvent.priority <= Rank[todo.r.s]
             /\ Rank[todo.r.s] \in Int
             /\ \A d \in NextEvent.files : d[1] = todo.r.s /\ d \notin Sent
  <2>1. pc = "send" /\ todo \in [r : Result, max : Int, rest : SUBSET Nat]
    BY <1>6 DEF SendNext, Control, Typed
  <2>2. /\ NextEvent \in Events /\ NextEvent.max = todo.max /\ todo.r.s \in 1..N
        /\ NextEvent.priority <= Priority(todo.r.s)
        /\ NextEvent.files = {<<todo.r.s, i>> : i \in Run} /\ Run \subseteq todo.rest
    BY <2>1, NextEventOK
  <2>3. Rank[todo.r.s] = Priority(todo.r.s) /\ Rank[todo.r.s] \in Nat
    BY <1>4, <2>2, RankOrder
  <2>4. \A d \in NextEvent.files : d[1] = todo.r.s /\ d[2] \in todo.rest
    BY <2>2
  <2>5. \A d \in NextEvent.files : d \notin Sent
    BY <2>4 DEF SentOnce
  <2>6. NextEvent.priority \in Int
    BY <2>2 DEF Events
  <2>7. shard' = shard
    BY <1>6 DEF SendNext
  <2> QED
    BY <2>1, <2>2, <2>3, <2>4, <2>5, <2>6, <2>7
<1>7. ASSUME NEW e, e.files \subseteq Sent', Leads(e) PROVE \E t \in 1..shard' : Rank'[t] <= e.priority
  <2>1. PICK d \in e.files : Priority(d[1]) <= e.priority
    BY <1>7 DEF Leads
  <2>2. d \in AllDocs' /\ d[1] <= Taken'
    BY <1>5, <1>7, <2>1 DEF SentOnce
  <2>3. opts' \in Options /\ N' \in Nat /\ shard' \in 0..N' /\ Len(search') \in Nat
    <3>1. opts' \in Options /\ shard' \in 0..N' /\ search' \in Seq(Nat)
      BY <1>5 DEF Control, Typed
    <3>2. N' = N
      BY <1>4, Same
    <3> QED
      BY <1>4, <3>1, <3>2, LenProperties
  <2>4. d[1] \in 1..N /\ N' = N
    <3>1. AllDocs' = AllDocs /\ N' = N
      BY <1>4, Same
    <3> QED
      BY <1>4, <2>2, <3>1, DocsFinite
  <2>5. d[1] \in 1..shard'
    <3>1. Taken' = shard' - Len(search')
      BY DEF Taken
    <3> QED
      BY <2>2, <2>3, <2>4, <3>1
  <2>6. Rank'[d[1]] = Priority(d[1])
    BY <1>4, <2>4, RankOrder
  <2> QED
    BY <2>1, <2>5, <2>6
<1>8. ASSUME SendNext, NEW e, e.files \subseteq Sent', Leads(e), e.priority \in Int, e.priority > todo.max,
             NEW F, NextEvent.files \subseteq F \/ Full(sink)'
      PROVE  Bound(e.priority, F)'
  <2>1. PICK p \in Int : p = e.priority
    BY <1>8
  <2>2. \E t \in 1..shard : Rank[t] <= p
    BY <1>4, <1>6, <1>7, <1>8, <2>1
  <2>3. Bound(p, F)'
    BY <1>8, <2>1, <2>2, AfterSend
  <2> QED
    BY <2>1, <2>3
<1>9. (pc = "send" => \A s \in Going : Rank[s] <= todo.max)'
  <2> SUFFICES ASSUME pc' = "send" PROVE \A s \in Going' : Rank'[s] <= todo'.max
    OBVIOUS
  <2>1. CASE Consume
    <3>1. PendingOK' /\ pending' \in Seq(Nat)
      BY PendingStep, ControlStep DEF Control, Typed
    <3>2. \A s \in Going' : Rank'[s] <= MaxPending(pending')
      BY <3>1, FitsMax DEF PendingOK
    <3>3. todo'.max = MaxPending(pending')
      <4>1. todo' = Split(Head(results), MaxPending(pending'))
        BY <2>1 DEF Consume
      <4> QED
        BY <4>1 DEF Split
    <3> QED
      BY <3>2, <3>3
  <2>2. CASE ~Consume
    <3>1. ~Dispatch
      BY DEF Dispatch
    <3>2. Going' = Going /\ Rank' = Rank
      BY <2>2, <3>1, GoingMoves
    <3>3. pc = "send" /\ todo'.max = todo.max
      <4>1. CASE SendNext
        <5>1. todo' = [todo EXCEPT !.rest = @ \ Run] /\ pc = "send"
          BY <4>1 DEF SendNext
        <5>2. todo \in [r : Result, max : Int, rest : SUBSET Nat]
          BY DEF Control, Typed
        <5> QED
          BY <5>1, <5>2
      <4>2. CASE ~SendNext
        <5>1. CASE \E w \in Workers : Worker(w)
          <6>1. PICK w \in Workers : Receive(w) \/ Deliver(w) \/ Local(w) \/ Exit(w)
            BY <5>1 DEF Worker, Local
          <6>2. CASE Receive(w) \/ Deliver(w)
            BY <6>2 DEF Receive, Deliver, main
          <6>3. CASE Local(w) \/ Exit(w)
            BY <6>3, LocalStays
          <6> QED
            BY <6>1, <6>2, <6>3
        <5>2. CASE \/ Acquire \/ Yield \/ Finished \/ Return \/ FlushStream \/ ReturnAggregate
                   \/ CloseResults \/ FlushTimer \/ ClientCancel \/ Deadline \/ UNCHANGED vars
          BY <5>2 DEF Acquire, Yield, Finished, Return, FlushStream, ReturnAggregate,
             CloseResults, FlushTimer, ClientCancel, Deadline, vars, main
        <5> QED
          BY <2>2, <3>1, <4>2, <5>1, <5>2 DEF Next, Search, Terminated
      <4> QED
        BY <4>1, <4>2
    <3> QED
      BY <3>2, <3>3 DEF Order
  <2> QED
    BY <2>1, <2>2
<1>10. ASSUME sink'.out = sink.out,
              (sink.agg # NoAgg /\ Leads(sink.agg) /\ sink.agg.priority > sink.agg.max
                 => Bound(sink.agg.priority, sink.agg.files))'
       PROVE  Order'
  <2>1. StableFinal'
    BY <1>2, <1>4, <1>10 DEF StableFinal
  <2>2. ASSUME NEW i \in DOMAIN sink.out, NEW j \in DOMAIN sink.out,
               i <= j, Leads(sink.out[i]), sink.out[i].priority > sink.out[j].max
        PROVE  Bound(sink.out[i].priority, sink.out[j].files)'
    <3>1. PICK p \in Int : p = sink.out[i].priority
      BY <1>1
    <3>2. PICK F : F = sink.out[j].files
      OBVIOUS
    <3>3. Bound(p, F)'
      BY <1>2, <1>3, <2>2, <3>1, <3>2
    <3> QED
      BY <1>10, <3>1, <3>2, <3>3
  <2>3. (\A i, j \in DOMAIN sink.out :
           i <= j /\ Leads(sink.out[i]) /\ sink.out[i].priority > sink.out[j].max
             => Bound(sink.out[i].priority, sink.out[j].files))'
    BY <1>4, <1>10, <2>2
  <2> QED
    BY <1>9, <1>10, <2>1, <2>3 DEF Order
<1>11. CASE ~SendNext /\ sink'.out = sink.out /\ sink'.agg = sink.agg
  <2>1. PICK e : e = sink.agg
    OBVIOUS
  <2>2. e # NoAgg /\ Leads(e) /\ e.priority > e.max => Bound(e.priority, e.files)'
    BY <1>1, <1>2, <1>3, <2>1
  <2>3. (sink.agg # NoAgg /\ Leads(sink.agg) /\ sink.agg.priority > sink.agg.max
           => Bound(sink.agg.priority, sink.agg.files))'
    BY <1>4, <1>11, <2>1, <2>2
  <2> QED
    BY <1>10, <1>11, <2>3
<1>12. CASE sink'.agg = NoAgg /\ \A i \in DOMAIN sink'.out : sink'.out[i].files = {}
  BY <1>9, <1>12 DEF Order, StableFinal, Leads
<1>13. CASE SendNext /\ sink'.out = sink.out /\ sink'.agg = Collect(sink.agg, NextEvent) /\ FilesOf(sink.out) = {}
  <2>1. PICK e : e = sink'.agg
    OBVIOUS
  <2>2. e.priority \in Int /\ e.max = todo.max
    <3>1. CASE sink.agg = NoAgg
      <4> DEFINE F == Truncated(NextEvent.files)
      <4>1. e = [NextEvent EXCEPT !.files = F]
        BY <1>13, <2>1, <3>1 DEF Collect
      <4> HIDE DEF F
      <4>2. e.priority = NextEvent.priority /\ e.max = NextEvent.max
        BY <1>6, <1>13, <4>1 DEF Events
      <4> QED
        BY <1>6, <1>13, <4>2
    <3>2. CASE sink.agg # NoAgg
      <4> DEFINE p == IF sink.agg.priority < NextEvent.priority THEN NextEvent.priority ELSE sink.agg.priority
      <4>1. e.priority = p /\ e.max = NextEvent.max
        BY <1>13, <2>1, <3>2 DEF Collect, Event
      <4>2. p \in Int
        BY <1>1, <1>6, <1>13, <3>2
      <4> QED
        BY <1>6, <1>13, <4>1, <4>2
    <3> QED
      BY <3>1, <3>2
  <2>3. SentBy(sink') = AggFiles(sink')
    BY <1>13 DEF SentBy
  <2>4. ASSUME e # NoAgg PROVE e.files = Sent' /\ (NextEvent.files \subseteq e.files \/ Full(sink)')
    BY <1>5, <1>13, <2>1, <2>3, <2>4 DEF AggFiles
  <2>5. ASSUME e # NoAgg, Leads(e), e.priority > e.max PROVE Bound(e.priority, e.files)'
    <3>1. PICK F : F = e.files
      OBVIOUS
    <3>2. NextEvent.files \subseteq F \/ Full(sink)'
      BY <2>4, <2>5, <3>1
    <3>3. Bound(e.priority, F)'
      BY <1>8, <1>13, <2>2, <2>4, <2>5, <3>1, <3>2
    <3> QED
      BY <3>1, <3>3
  <2>6. (sink.agg # NoAgg /\ Leads(sink.agg) /\ sink.agg.priority > sink.agg.max
           => Bound(sink.agg.priority, sink.agg.files))'
    BY <1>4, <2>1, <2>5
  <2> QED
    BY <1>10, <1>13, <2>6
<1>14. ASSUME NEW f \in Events, sink'.out = Append(sink.out, f), sink'.agg = NoAgg,
              \/ /\ SendNext /\ f.priority = NextEvent.priority /\ f.max = NextEvent.max
                 /\ f.files \subseteq NextEvent.files
              \/ /\ ~SendNext /\ sink.agg # NoAgg /\ FilesOf(sink.out) = {}
                 /\ f.priority = sink.agg.priority /\ f.max = sink.agg.max
       PROVE  Order'
  <2> DEFINE n == Len(sink.out)
  <2>0. PICK o : o = sink'.out
    OBVIOUS
  <2>1. /\ DOMAIN o = 1..n + 1 /\ DOMAIN sink.out = 1..n /\ n \in Nat
        /\ \A i \in 1..n : o[i] = sink.out[i]
        /\ o[n + 1] = f
        /\ f.priority \in Int /\ f.max \in Int
    BY <1>1, <1>14, <2>0, AppendProperties DEF Events
  <2> HIDE DEF n
  <2>2. \A i \in DOMAIN sink.out : sink.out[i].files # {} => SendNext
    BY <1>14 DEF FilesOf
  <2>3. Sent' = FilesOf(sink.out) \cup f.files
    <3>1. FilesOf(Append(sink.out, f)) = FilesOf(sink.out) \cup f.files
      BY <1>1, FilesAppend
    <3> QED
      BY <1>5, <1>14, <3>1 DEF SentBy, AggFiles
  <2>4. \A i \in DOMAIN o : o[i].files \subseteq Sent' /\ o[i].priority \in Int /\ o[i].max \in Int
    BY <1>1, <2>1, <2>3 DEF FilesOf
  <2>5. SendNext => NextEvent.files \subseteq f.files \/ Full(sink)'
    <3> SUFFICES ASSUME SendNext, ~Full(sink)', NEW d \in NextEvent.files PROVE d \in f.files
      OBVIOUS
    <3>1. d \in Sent' /\ d \notin Sent
      BY <1>5, <1>6
    <3>2. FilesOf(sink.out) \subseteq Sent
      BY <1>5 DEF SentBy
    <3> QED
      BY <2>3, <3>1, <3>2
  <2>6. ASSUME NEW i \in DOMAIN o, NEW j \in DOMAIN o, i <= j, Leads(o[i]), o[i].priority > o[j].max
        PROVE  Bound(o[i].priority, o[j].files)'
    <3>1. CASE j # n + 1
      <4>1. i \in DOMAIN sink.out /\ j \in DOMAIN sink.out /\ o[i] = sink.out[i] /\ o[j] = sink.out[j]
        BY <2>1, <2>6, <3>1
      <4>2. Bound(o[i].priority, o[j].files)
        BY <1>2, <2>6, <4>1
      <4> QED
        BY <1>3, <2>4, <4>2
    <3>2. CASE j = n + 1 /\ SendNext
      <4>1. o[j].files = f.files /\ o[j].max = todo.max
        BY <1>6, <1>14, <2>1, <3>2
      <4>2. o[i].files \subseteq Sent' /\ o[i].priority \in Int /\ o[i].priority > todo.max
        BY <2>4, <2>6, <4>1
      <4>3. NextEvent.files \subseteq o[j].files \/ Full(sink)'
        BY <2>5, <3>2, <4>1
      <4> QED
        BY <1>8, <2>6, <3>2, <4>2, <4>3
    <3>3. CASE j = n + 1 /\ ~SendNext
      <4>1. i = n + 1
        BY <2>1, <2>2, <2>6, <3>3 DEF Leads
      <4>2. f.files = sink.agg.files
        BY <1>5, <1>14, <2>3, <3>3 DEF SentBy, AggFiles
      <4>3. /\ sink.agg # NoAgg /\ o[i].priority = sink.agg.priority /\ o[i].files = sink.agg.files
            /\ o[j].files = sink.agg.files /\ o[j].max = sink.agg.max
        BY <1>14, <2>1, <3>3, <4>1, <4>2
      <4>4. Leads(sink.agg) /\ sink.agg.priority > sink.agg.max
        BY <2>6, <4>3 DEF Leads
      <4>5. Bound(o[i].priority, o[j].files)
        BY <1>2, <4>3, <4>4
      <4> QED
        BY <1>3, <2>4, <4>5
    <3> QED
      BY <3>1, <3>2, <3>3
  <2>7. ASSUME NEW i \in DOMAIN o, NEW j \in DOMAIN o, NEW k \in DOMAIN o, i <= j, j < k,
               o[k].files # {}, o[i].priority > o[j].max, Leads(o[i]),
               \A d \in o[j].files, e \in o[k].files : d[1] # e[1]
        PROVE  o[k].priority <= o[i].priority
    <3>1. i \in DOMAIN sink.out /\ j \in DOMAIN sink.out /\ o[i] = sink.out[i] /\ o[j] = sink.out[j]
      BY <2>1, <2>7
    <3>2. CASE k # n + 1
      <4>1. k \in DOMAIN sink.out /\ o[k] = sink.out[k]
        BY <2>1, <3>2
      <4> QED
        BY <1>2, <2>7, <3>1, <4>1 DEF StableFinal, Leads
    <3>3. CASE k = n + 1
      <4>1. SendNext
        BY <2>2, <2>7, <3>1 DEF Leads
      <4>2. /\ pc = "send" /\ o[k].priority <= Rank[todo.r.s] /\ Rank[todo.r.s] \in Int /\ o[k].priority \in Int
            /\ o[k].files \subseteq NextEvent.files /\ o[k].files = f.files
        BY <1>6, <1>14, <2>1, <3>3, <4>1
      <4>3. PICK e \in o[k].files : e[1] = todo.r.s /\ e \notin Sent
        BY <1>6, <2>7, <4>1, <4>2
      <4>4. Bound(o[i].priority, o[j].files)
        BY <1>2, <2>7, <3>1
      <4>5. \A d \in o[j].files : d[1] # todo.r.s
        BY <2>7, <4>3
      <4>6. ~Full(sink)
        <5> SUFFICES ASSUME Full(sink) PROVE FALSE
          OBVIOUS
        <5>1. Full(sink)' /\ Sent \subseteq Sent'
          <6>1. Full(sink)'
            BY <1>5, SinkMoves
          <6>2. sink.agg = NoAgg
            BY <3>1, <2>7 DEF Senders, SinkOK, Leads, FilesOf
          <6> QED
            BY <1>5, <2>3, <6>1, <6>2 DEF SentBy, AggFiles
        <5>2. e \in Sent'
          BY <2>3, <4>2, <4>3
        <5>3. /\ Cardinality(Sent) = DisplayLimit /\ Cardinality(Sent') = DisplayLimit
              /\ IsFiniteSet(Sent) /\ IsFiniteSet(Sent')
          <6>1. DisplayLimit' = DisplayLimit
            BY SinkMoves
          <6>2. Cardinality(SentBy(sink)) = DisplayLimit /\ IsFiniteSet(SentBy(sink))
            BY DEF Full, Senders, SinkOK
          <6>3. Cardinality(SentBy(sink')) = DisplayLimit
            BY <1>5, <5>1, <6>1 DEF Full
          <6>4. IsFiniteSet(SentBy(sink)')
            BY <1>5 DEF Senders, SinkOK
          <6>5. SentBy(sink)' = SentBy(sink')
            BY DEF SentBy, AggFiles
          <6> QED
            BY <1>5, <6>2, <6>3, <6>4, <6>5
        <5>4. PICK S, T : S = Sent /\ T = Sent'
          OBVIOUS
        <5>5. S = T
          BY <5>1, <5>3, <5>4, FS_Subset
        <5> QED
          BY <4>3, <5>2, <5>4, <5>5
      <4>7. Rank[todo.r.s] <= o[i].priority
        BY <4>2, <4>4, <4>5, <4>6 DEF Bound
      <4> QED
        BY <2>4, <4>2, <4>7
    <3> QED
      BY <3>2, <3>3
  <2>8. StableFinal'
    BY <1>4, <2>0, <2>7 DEF StableFinal, Leads
  <2>9. (\A i, j \in DOMAIN sink.out :
           i <= j /\ Leads(sink.out[i]) /\ sink.out[i].priority > sink.out[j].max
             => Bound(sink.out[i].priority, sink.out[j].files))'
    BY <1>4, <2>0, <2>6
  <2> QED
    BY <1>9, <1>14, <2>8, <2>9 DEF Order
<1> QED
  BY <1>11, <1>12, <1>13, <1>14, SinkShapes

-----------------------------------------------------------------------------
(* The theorems.                                                           *)

\* A search begins inside the invariant, and no step of any goroutine leaves it.
LEMMA Inductive == (Init => IInv) /\ (IInv /\ [Next]_vars => IInv')
<1>1. Init => IInv
  BY ControlInit, OnePlaceInit, SendersInit, ReservedInit, LimitedInit, CoverInit, ReasonsInit DEF IInv
<1>2. IInv /\ [Next]_vars => IInv'
  <2> SUFFICES ASSUME IInv, [Next]_vars PROVE IInv'
    OBVIOUS
  <2>1. /\ Control /\ OnePlace /\ Senders /\ SentOnce /\ Reserved /\ Limited /\ Cover
        /\ Missed /\ Looking /\ Reasons
    BY DEF IInv
  <2>2. Control' /\ OnePlace' /\ SentOnce'
    BY <2>1, ControlStep, OnePlaceStep, SentOnceStep
  <2>3. Senders'
    BY <2>1, SinkMoves
  <2>4. Reserved' /\ Cover'
    BY <2>1, ReservedStep, CoverStep
  <2>5. Missed' /\ Looking' /\ Reasons'
    BY <2>1, MissedStep, LookingStep, ReasonsStep
  <2>6. Limited'
    BY <2>1, LimitedStep
  <2> QED
    BY <2>2, <2>3, <2>4, <2>5, <2>6 DEF IInv
<1> QED
  BY <1>1, <1>2

\* The invariant holds however the goroutines of the search interleave.
LEMMA Invariant == Spec => []IInv
<1>1. Init => IInv
  BY Inductive
<1>2. IInv /\ [Next]_vars => IInv'
  BY Inductive
<1> QED
  BY <1>1, <1>2, PTL DEF Spec

\* Every variable of the search has its type.
THEOREM TypeCorrect == Spec => []TypeOK
<1>1. IInv => TypeOK
  BY DEF IInv, Control, Senders, SinkOK, TypeOK
<1> QED
  BY <1>1, Invariant, PTL

\* What has been delivered is a finite part of what was sent.
LEMMA DeliveredIsSent ==
  ASSUME Senders
  PROVE  /\ Delivered \subseteq Sent /\ IsFiniteSet(Sent) /\ Cardinality(Delivered) \in Nat
         /\ Cardinality(Delivered) <= Cardinality(Sent) /\ Sent = SentBy(sink)
         /\ ~sink.collecting => Sent = Delivered
<1>1. Sent = SentBy(sink) /\ IsFiniteSet(Sent) /\ Delivered \subseteq Sent
  BY SentIsSentBy DEF Senders, SinkOK, Sent
<1>2. IsFiniteSet(Delivered) /\ Cardinality(Delivered) <= Cardinality(Sent) /\ Cardinality(Delivered) \in Nat
  BY <1>1, FS_Subset, FS_CardinalityType
<1>3. ~sink.collecting => Sent = Delivered
  BY DEF Senders, SinkOK, Sent
<1> QED
  BY <1>1, <1>2, <1>3

\* Limits: the senders deliver no document twice and no more than the display limits; what
\* workers, channel and senders keep never exceeds the budget, however the workers' reads and
\* swaps of Budget.used interleave, nor ShardMaxMatchCount in a shard, nor
\* ShardRepoMaxMatchCount in a repository of it.
THEOREM LimitsCorrect == Spec => []LimitsKept
<1>1. IInv => LimitsKept
  <2> SUFFICES ASSUME IInv PROVE LimitsKept
    OBVIOUS
  <2>1. Control /\ Senders /\ Reserved /\ ShardLimitsKept
    BY DEF IInv, Limited
  <2>2. DeliveredOnce
    <3>1. /\ \A i, j \in DOMAIN sink.out : i # j => sink.out[i].files \cap sink.out[j].files = {}
          /\ DisplayLimit > 0 => Cardinality(SentBy(sink)) <= DisplayLimit
      BY <2>1 DEF Senders, SinkOK
    <3>2. /\ Cardinality(Delivered) <= Cardinality(SentBy(sink)) /\ Cardinality(Delivered) \in Nat
          /\ Cardinality(SentBy(sink)) \in Nat /\ DisplayLimit \in Nat
      BY <2>1, DeliveredIsSent, FS_CardinalityType, Given DEF Control, Typed
    <3> QED
      BY <3>1, <3>2 DEF DeliveredOnce
  <2>3. BudgetKept
    <3>1. Cardinality(Retained) <= used /\ used <= Budget /\ Cardinality(Retained) \in Nat
      BY <2>1, FS_CardinalityType DEF Reserved
    <3>2. used \in Nat /\ Budget \in Nat
      BY <2>1, Given DEF Control, Typed
    <3> QED
      BY <3>1, <3>2 DEF BudgetKept
  <2> QED
    BY <2>1, <2>2, <2>3 DEF LimitsKept
<1> QED
  BY <1>1, Invariant, PTL

\* Search and StreamSearch tell the truth: a result that gives no reason to be partial is
\* all that matches, up to the display limit, and a reason that is given holds. Shards and
\* candidates without a match count as left out, as they do in the code.
THEOREM HonestCorrect == Spec => []Honest
<1>1. IInv => Complete
  <2> SUFFICES ASSUME IInv, pc = "done", ~err, flags \subseteq {"Known"},
                      \A i \in DOMAIN sink.out : sink.out[i].crash = 0
               PROVE  \/ Delivered = AllDocs
                      \/ DisplayLimit > 0 /\ Cardinality(Delivered) = DisplayLimit
    BY DEF Complete
  <2>1. Control /\ Senders /\ SentOnce /\ Cover
    BY DEF IInv
  <2>2. ~sink.collecting /\ sink.agg = NoAgg /\ Sent = Delivered /\ Sent = SentBy(sink)
    BY <2>1, DeliveredIsSent DEF Senders, SinkOK
  <2>3. /\ search = <<>> /\ results = <<>> /\ Busy = {} /\ todo = NothingToSend /\ (stopped \/ N = 0)
        /\ opts \in Options /\ shard \in 0..N
    BY <2>1 DEF Control, Phases, Typed
  <2>4. DOMAIN results = {} /\ Len(search) = 0 /\ N \in Nat /\ \A d \in AllDocs : d[1] \in 1..N
    BY <2>3, Given, DocsFinite
  <2>5. Clean
    BY <2>2, <2>3, <2>4 DEF Clean, NoCrash, QuietSink, NothingToSend, IdleWorker
  <2>6. shard = N /\ \A d \in AllDocs : Covered(d)
    BY <2>1, <2>3, <2>4, <2>5 DEF Cover
  <2>7. Taken = N
    BY <2>4, <2>6 DEF Taken
  <2>8. \A d \in AllDocs : d \in Sent \/ Full(sink)
    BY <2>3, <2>4, <2>6, <2>7 DEF Covered
  <2>9. CASE Full(sink)
    BY <2>2, <2>9 DEF Full
  <2>10. CASE ~Full(sink)
    <3>1. AllDocs \subseteq Sent /\ Sent \subseteq AllDocs
      BY <2>1, <2>8, <2>10 DEF SentOnce
    <3> QED
      BY <2>2, <3>1
  <2> QED
    BY <2>9, <2>10
<1>2. IInv => ReasonsTrue
  <2> SUFFICES ASSUME IInv, pc = "done" PROVE ReasonsTrue
    BY DEF ReasonsTrue
  <2>1. Control /\ Senders /\ Missed /\ Looking /\ Reasons
    BY DEF IInv
  <2>2. /\ "ResponseLimit" \in flags => Delivered # AllDocs
        /\ "MatchLimit" \in flags => shard < N \/ looked # Candidates
    BY <2>1, DeliveredIsSent DEF Missed, Possible, Looking
  <2>3. "Cancelled" \in flags =>
          outer = "canceled" \/ (Streaming /\ DisplayLimit > 0 /\ Cardinality(Delivered) = DisplayLimit)
    <3> SUFFICES ASSUME LimitReached
                 PROVE  Streaming /\ DisplayLimit > 0 /\ Cardinality(Delivered) = DisplayLimit
      BY <2>1 DEF Reasons
    <3>1. Streaming /\ DisplayLimit > 0 /\ sink.left = 0 /\ sink.left = DisplayLimit - Cardinality(Delivered)
      BY <2>1 DEF LimitReached, Senders, LeftOK, Delivered
    <3>2. DisplayLimit \in Nat /\ Cardinality(Delivered) \in Nat
      BY <2>1, DeliveredIsSent, Given DEF Control, Typed
    <3> QED
      BY <3>1, <3>2
  <2>4. "IndexNotReady" \in flags => ~opts.ready
    BY <2>1 DEF Reasons
  <2> QED
    BY <2>2, <2>3, <2>4 DEF ReasonsTrue
<1> QED
  BY <1>1, <1>2, Invariant, PTL DEF Honest

\* StreamSearch: after done, when the memory of the shards may go away, nothing is sent:
\* the workers have stopped, and the flush timer finds nothing to flush.
THEOREM NothingAfterDoneCorrect == Spec => NothingAfterDone
<1>1. IInv /\ [Next]_vars => [pc = "done" => UNCHANGED sink]_vars
  <2> SUFFICES ASSUME IInv, [Next]_vars, pc = "done" PROVE UNCHANGED sink
    OBVIOUS
  <2>1. ~FlushTimer
    BY DEF IInv, Senders, FlushTimer
  <2> QED
    BY <2>1 DEF Next, Search, Worker, Acquire, Yield, Dispatch, Consume, SendNext, Finished,
     Return, FlushStream, ReturnAggregate, CloseResults, Receive, Exit, Open, Fail, Panic, Scan, LookAt, Reserve,
     Deliver, Done, FlushTimer, ClientCancel, Deadline, Terminated, vars
<1> QED
  BY <1>1, Invariant, PTL DEF Spec, NothingAfterDone

\* A search tells its client the truth about what is missing, and nothing after the end.
THEOREM HonestToTheEndCorrect == Spec => HonestToTheEnd
  BY HonestCorrect, NothingAfterDoneCorrect DEF HonestToTheEnd

\* Progress: a result that may be shown because its priority exceeds the latest
\* MaxPendingPriority is followed by none that ranks higher, in whatever order the shards are
\* finished and however the flush timer falls, with the two exceptions StableFinal names for
\* compound shards.
THEOREM StableCorrect == Spec => []StableFinal
<1>1. Init => PendingOK /\ Order
  BY OrderInit
<1>2. IInv /\ PendingOK /\ Order /\ [Next]_vars => (PendingOK /\ Order)'
  BY PendingStep, OrderStep DEF IInv
<1>3. Order => StableFinal
  BY DEF Order
<1> QED
  BY <1>1, <1>2, <1>3, Invariant, PTL DEF Spec
=============================================================================
