---------------------------- MODULE StreamSearch ----------------------------
(***************************************************************************)
(* One search over the loaded shards: shardedSearcher.Search and           *)
(* StreamSearch around streamSearch (search/shards.go), the senders of     *)
(* search/aggregate.go, the shard scan of index/eval.go as far as it       *)
(* decides how much of a shard is searched, and the budget of              *)
(* internal/searchbudget.                                                  *)
(*                                                                         *)
(* Goroutines: the search itself (pc), Workers shard workers (wk), the     *)
(* closer of the results channel, and the flush timer.                     *)
(***************************************************************************)
EXTENDS Integers, Sequences, FiniteSets, Functions

CONSTANTS MaxProcs,  \* GOMAXPROCS
          Options    \* what the searches of this instance are given

\* A document the match tree proposes as a candidate: its repository, an index
\* into those of its shard, and whether it matches. One that matches has one
\* match, so that match limits count documents.
Doc == [repo : Nat, match : BOOLEAN]

\* A loaded shard: the priorities of its live repositories (several in a compound
\* shard) and the candidates of this search. There may be none, or none that match.
LoadedShard == [repos : Seq(Nat), docs : Seq(Doc)]

\* What a search is given: opts.TotalMaxMatchCount, ShardMaxMatchCount,
\* ShardRepoMaxMatchCount, MaxDocDisplayCount and MaxMatchDisplayCount (0 for
\* none), the limit of its Budget (retaining a document costs one unit), whether
\* StreamSearch or Search was called, whether opts.FlushWallTime is set, whether
\* the initial shards are loaded, and the loaded shards.
Option == [total : Nat, shard : Nat, shardRepo : Nat, display : Nat, matchDisplay : Nat,
           budget : Nat, streaming : BOOLEAN, collecting : BOOLEAN, ready : BOOLEAN,
           shards : Seq(LoadedShard)]

\* mkRankedShard: the largest priority of a repository of the shard, at least 0.
Largest(repos) == CHOOSE p \in {0} \cup Range(repos) : \A q \in Range(repos) : q <= p

Workers == 1..MaxProcs

ASSUME SearchAssumption ==
  /\ MaxProcs \in Nat \ {0}
  /\ Options \subseteq Option
  /\ \A o \in Options : \A s, t \in DOMAIN o.shards :
       s <= t => Largest(o.shards[t].repos) <= Largest(o.shards[s].repos)  \* replace sorts them
  \* A shard holds the documents of one repository after those of another.
  /\ \A o \in Options : \A s \in DOMAIN o.shards : LET docs == o.shards[s].docs IN
       \A i, j \in DOMAIN docs : /\ docs[i].repo \in DOMAIN o.shards[s].repos
                                 /\ i <= j => docs[i].repo <= docs[j].repo

Minus == -1       \* math.Inf(-1); priorities are not negative
NoAgg == <<>>     \* collectSender.aggregate is nil

VARIABLES
  opts,      \* the caller's options and the loaded shards, an element of Options
  pc,        \* "acquire", "yield", "select", "send", "return", "flush" or "done"
  shard,     \* how many shards have been handed to the workers
  stopped,   \* search is closed and work is nil
  search,    \* channel of shards to search, capacity NumWorkers
  wk,        \* wk[w]: [st, s, n, found, matches, seen, crash, err]
  looked,    \* history: the candidates that were looked at
  results,   \* channel of results, capacity NumWorkers
  closed,    \* results is closed
  pending,   \* prioritySlice
  total,     \* totalMatchCount
  err,       \* the search returns an error
  todo,      \* the result sendByRepository splits, and the documents it has yet to send
  flags,     \* Budget.flags
  used,      \* Budget.used
  outer,     \* the caller's context: "live" or "canceled"
  ctx,       \* streamSearch's context: "live", "canceled" or "deadline"
  sink       \* [collecting, agg, left, out]: the senders and what they delivered

Shards == DOMAIN opts.shards
N == Len(opts.shards)
Docs == [s \in Shards |-> opts.shards[s].docs]
Repos == [s \in Shards |-> opts.shards[s].repos]
Priority(s) == Largest(Repos[s])

\* min(GOMAXPROCS, len(shards)) workers are started.
NumWorkers == IF MaxProcs < N THEN MaxProcs ELSE N

TotalMax == opts.total
ShardMax == opts.shard
ShardRepoMax == opts.shardRepo
Budget == opts.budget
Streaming == opts.streaming

\* NewDisplayTruncator: the smaller of the two display limits, of those that are set.
DisplayLimit ==
  IF opts.display > 0 /\ (opts.matchDisplay = 0 \/ opts.display <= opts.matchDisplay)
  THEN opts.display ELSE opts.matchDisplay

main == <<pc, shard, stopped, pending, total, err, todo>>
chans == <<search, results, closed>>
vars == <<main, chans, wk, flags, used, looked, outer, ctx, opts, sink>>

IdleWorker == [st |-> "idle", s |-> 0, n |-> 0, found |-> {}, matches |-> 0,
               seen |-> 0, crash |-> 0, err |-> FALSE]

NothingToSend == [r |-> IdleWorker, max |-> Minus, rest |-> {}]

\* A zoekt.SearchResult on its way to the client.
Event(p, m, files, crash) == [priority |-> p, max |-> m, files |-> files, crash |-> crash]

\* StreamSearch starts the stream with an event of its own.
FirstEvent ==
  Event(0, IF N = 0 THEN Minus ELSE Priority(1), {}, IF opts.ready THEN 0 ELSE 1)

Init ==
  /\ opts \in Options
  /\ pc = "acquire" /\ shard = 0 /\ stopped = FALSE /\ pending = <<>>
  /\ total = 0 /\ err = FALSE /\ todo = NothingToSend
  /\ search = <<>> /\ results = <<>> /\ closed = FALSE
  /\ wk = [w \in Workers |-> IF w <= NumWorkers THEN IdleWorker ELSE [IdleWorker EXCEPT !.st = "gone"]]
  /\ flags = {} /\ used = 0 /\ looked = {} /\ outer = "live" /\ ctx = "live"
  /\ sink = [collecting |-> FALSE, agg |-> NoAgg,
             left |-> DisplayLimit, out |-> <<>>]

-----------------------------------------------------------------------------
(* Budget and context.                                                     *)

\* Budget.MarkContext.
MarkContext(c) == CASE c = "deadline" -> {"Timeout"}
                    [] c = "canceled" -> {"Cancelled"}
                    [] OTHER          -> {}

\* Budget.Finish.
BudgetFinish(c, failed) ==
  {"Known"} \cup MarkContext(c) \cup (IF failed /\ c = "live" THEN {"ShardError"} ELSE {})

Exhausted == "ResponseLimit" \in flags

\* The caller gives up: every context derived from its own is done.
ClientCancel ==
  /\ outer = "live" /\ pc # "done"
  /\ outer' = "canceled"
  /\ ctx' = IF ctx = "live" THEN "canceled" ELSE ctx
  /\ UNCHANGED <<main, chans, wk, flags, used, looked, opts, sink>>

\* opts.MaxWallTime is over.
Deadline ==
  /\ pc \in {"yield", "select", "send", "return"} /\ ctx = "live"
  /\ ctx' = "deadline"
  /\ UNCHANGED <<main, chans, wk, flags, used, looked, outer, opts, sink>>

-----------------------------------------------------------------------------
(* The senders.                                                            *)

\* The n best of a set of documents; a document's rank stands for its score.
Above(d, e) == d[1] < e[1] \/ (d[1] = e[1] /\ d[2] < e[2])
Top(files, n) == {d \in files : Cardinality({e \in files : Above(e, d)}) < n}

\* SortAndTruncateFiles.
Truncated(files) == IF DisplayLimit = 0 THEN files ELSE Top(files, DisplayLimit)

\* collectSender.Send.
Collect(agg, e) ==
  IF agg = NoAgg
  THEN [e EXCEPT !.files = Truncated(@)]
  ELSE Event(IF agg.priority < e.priority THEN e.priority ELSE agg.priority,
             e.max, Truncated(agg.files \cup e.files), agg.crash + e.crash)

\* limitSender and the sender below it.
Emit(k, e) ==
  LET kept == IF DisplayLimit > 0 THEN Top(e.files, k.left) ELSE e.files
  IN  [k EXCEPT !.left = IF DisplayLimit = 0 THEN 0 ELSE @ - Cardinality(kept),
                !.out = Append(@, [e EXCEPT !.files = kept])]

\* The sender newFlushCollectSender returns.
Send(k, e) == IF k.collecting THEN [k EXCEPT !.agg = Collect(@, e)] ELSE Emit(k, e)

\* stopCollectingAndFlush.
StopCollecting(k) ==
  IF ~k.collecting THEN k
  ELSE LET j == [k EXCEPT !.collecting = FALSE, !.agg = NoAgg]
       IN  IF k.agg = NoAgg THEN j ELSE Emit(j, k.agg)

\* limitSender cancels StreamSearch's context once nothing more may be shown.
CancelOnLimit ==
  ctx' = IF Streaming /\ DisplayLimit > 0 /\ sink'.left = 0 /\ sink'.out # sink.out /\ ctx = "live"
         THEN "canceled" ELSE ctx

\* opts.FlushWallTime is over.
FlushTimer ==
  /\ Streaming /\ sink.collecting
  /\ sink' = StopCollecting(sink)
  /\ CancelOnLimit
  /\ UNCHANGED <<main, chans, wk, flags, used, looked, outer, opts>>

-----------------------------------------------------------------------------
(* A worker and indexData.Search.                                          *)

\* `for s := range search`.
Receive(w) ==
  /\ wk[w].st = "idle" /\ search # <<>>
  /\ wk' = [wk EXCEPT ![w] = [IdleWorker EXCEPT !.st = "open", !.s = Head(search)]]
  /\ search' = Tail(search)
  /\ UNCHANGED <<main, results, closed, flags, used, looked, outer, ctx, opts, sink>>

Exit(w) ==
  /\ wk[w].st = "idle" /\ search = <<>> /\ stopped
  /\ wk' = [wk EXCEPT ![w].st = "gone"]
  /\ UNCHANGED <<main, chans, flags, used, looked, outer, ctx, opts, sink>>

\* The shard's search is over; more are the flags its last step raised.
Done(w, r, more) ==
  /\ wk' = [wk EXCEPT ![w] = [r EXCEPT !.st = "found"]]
  /\ flags' = flags \cup more \cup BudgetFinish(ctx, r.err)
  /\ UNCHANGED <<main, chans, used, looked, outer, ctx, opts, sink>>

Lost(r) == [IdleWorker EXCEPT !.s = r.s]

\* indexData.Search up to its loop: skip the shard when the context is done.
Open(w) ==
  /\ wk[w].st = "open"
  /\ \/ ctx # "live" /\ Done(w, wk[w], {})
     \/ /\ ctx = "live"
        /\ wk' = [wk EXCEPT ![w].st = "scan", ![w].n = 1]
        /\ UNCHANGED <<main, chans, flags, used, looked, outer, ctx, opts, sink>>

\* newMatchTree fails.
Fail(w) ==
  /\ wk[w].st = "open"
  /\ Done(w, [Lost(wk[w]) EXCEPT !.err = TRUE], {})

\* The shard panics; searchOneShard recovers and forgets what was found.
Panic(w) ==
  /\ wk[w].st = "scan"
  /\ Done(w, [Lost(wk[w]) EXCEPT !.crash = 1], {})

\* The repository of candidate i has had its ShardRepoMaxMatchCount matches.
RepoDone(r, i) ==
  /\ ShardRepoMax > 0
  /\ Cardinality({j \in r.found : Docs[r.s][j].repo = Docs[r.s][i].repo}) >= ShardRepoMax

\* The next candidate after those skipped for ShardRepoMaxMatchCount; they leave a mark.
NextDoc(r, i) ==
  /\ i \in r.n..Len(Docs[r.s]) + 1
  /\ \A j \in r.n..i - 1 : RepoDone(r, j)
  /\ i <= Len(Docs[r.s]) => ~RepoDone(r, i)
SkipMark(r, i) == IF i > r.n THEN {"MatchLimit"} ELSE {}

\* The rest of the shard is not looked at, whether or not anything in it matches.
Halted(r) == ctx # "live" \/ Exhausted \/ (ShardMax > 0 /\ r.matches >= ShardMax)

\* Candidate i is evaluated: one that matches goes on to Budget.Reserve, which begins by
\* reading how much is used.
LookAt(w, i) ==
  LET r == wk[w] IN
  /\ wk' = [wk EXCEPT ![w] = IF Docs[r.s][i].match
                              THEN [r EXCEPT !.st = "reserve", !.n = i, !.matches = @ + 1, !.seen = used]
                              ELSE [r EXCEPT !.n = i + 1]]
  /\ flags' = flags \cup SkipMark(r, i)
  /\ looked' = looked \cup {<<r.s, i>>}
  /\ UNCHANGED <<main, chans, used, outer, ctx, opts, sink>>

\* Mutation: hitting the shard's limit leaves no trace.
ScanSilently(w) ==
  LET r == wk[w] IN
  /\ r.st = "scan"
  /\ \E i \in 1..Len(Docs[r.s]) + 1 :
       /\ NextDoc(r, i)
       /\ \/ (i > Len(Docs[r.s]) \/ Halted(r)) /\ Done(w, r, SkipMark(r, i))
          \/ i <= Len(Docs[r.s]) /\ ~Halted(r) /\ LookAt(w, i)

\* One turn of the loop over the candidates.
Scan(w) ==
  LET r == wk[w] IN
  /\ r.st = "scan"
  /\ \E i \in 1..Len(Docs[r.s]) + 1 :
       /\ NextDoc(r, i)
       /\ \/ i > Len(Docs[r.s]) /\ Done(w, r, SkipMark(r, i))
          \/ /\ i <= Len(Docs[r.s]) /\ Halted(r)
             /\ Done(w, r, SkipMark(r, i) \cup (IF ctx = "live" /\ ~Exhausted THEN {"MatchLimit"} ELSE {}))
          \/ i <= Len(Docs[r.s]) /\ ~Halted(r) /\ LookAt(w, i)

\* Mutation: the sum is stored without looking at what is there now.
ReserveStore(w) ==
  LET r == wk[w] IN
  /\ r.st = "reserve"
  /\ \/ r.seen + 1 > Budget /\ Done(w, r, {"ResponseLimit"})
     \/ /\ r.seen + 1 <= Budget
        /\ used' = r.seen + 1
        /\ wk' = [wk EXCEPT ![w].st = "scan", ![w].n = @ + 1, ![w].found = @ \cup {r.n}]
        /\ UNCHANGED <<main, chans, flags, looked, outer, ctx, opts, sink>>

\* The rest of a turn of Budget.Reserve's loop: refuse, compare and swap, or
\* read again.
Reserve(w) ==
  LET r == wk[w] IN
  /\ r.st = "reserve"
  /\ \/ r.seen + 1 > Budget /\ Done(w, r, {"ResponseLimit"})
     \/ /\ r.seen + 1 <= Budget /\ used = r.seen
        /\ used' = used + 1
        /\ wk' = [wk EXCEPT ![w].st = "scan", ![w].n = @ + 1, ![w].found = @ \cup {r.n}]
        /\ UNCHANGED <<main, chans, flags, looked, outer, ctx, opts, sink>>
     \/ /\ r.seen + 1 <= Budget /\ used # r.seen
        /\ wk' = [wk EXCEPT ![w].seen = used]
        /\ UNCHANGED <<main, chans, flags, used, looked, outer, ctx, opts, sink>>

\* `results <- r`.
Deliver(w) ==
  /\ wk[w].st = "found" /\ Len(results) < NumWorkers
  /\ results' = Append(results, wk[w])
  /\ wk' = [wk EXCEPT ![w] = IdleWorker]
  /\ UNCHANGED <<main, search, closed, flags, used, looked, outer, ctx, opts, sink>>

\* The goroutine that waits for the workers and closes results.
CloseResults ==
  /\ ~closed /\ pc # "acquire" /\ \A w \in Workers : wk[w].st = "gone"
  /\ closed' = TRUE
  /\ UNCHANGED <<main, search, results, wk, flags, used, looked, outer, ctx, opts, sink>>

-----------------------------------------------------------------------------
(* The search.                                                             *)

\* sched.Acquire, the first event, and the start of streamSearch.
Acquire ==
  /\ pc = "acquire"
  /\ \/ /\ outer = "live"
        /\ pc' = IF N = 0 THEN "flush" ELSE "yield"
        /\ sink' = [sink EXCEPT !.collecting = opts.collecting \/ ~Streaming,
                                !.out = IF Streaming THEN <<FirstEvent>> ELSE <<>>]
        /\ UNCHANGED <<err, flags>>
     \/ /\ outer # "live"
        /\ pc' = "done" /\ err' = TRUE
        /\ flags' = IF Streaming THEN flags ELSE flags \cup BudgetFinish(outer, TRUE)
        /\ UNCHANGED sink
  /\ UNCHANGED <<shard, stopped, pending, total, todo, chans, wk, used, looked, outer, ctx, opts>>

\* proc.Yield: it may wait for a batch token, and its error is ignored.
Yield ==
  /\ pc = "yield" /\ pc' = "select"
  /\ UNCHANGED <<shard, stopped, pending, total, err, todo, chans, wk, flags, used, looked, outer, ctx, opts, sink>>

\* `work <- next`.
Dispatch ==
  /\ pc = "select" /\ ~stopped /\ Len(search) < NumWorkers
  /\ search' = Append(search, shard + 1)
  /\ pending' = Append(pending, Priority(shard + 1))
  /\ shard' = shard + 1
  /\ stopped' = (shard' = N)
  /\ pc' = "yield"
  /\ UNCHANGED <<total, err, todo, results, closed, wk, flags, used, looked, outer, ctx, opts, sink>>

\* Mutation: the oldest pending priority is dropped, as if shards finished in
\* the order they were started.
RemoveOldest(p, pri) == IF p = <<>> THEN p ELSE Tail(p)

\* prioritySlice.remove: the last element takes the place of the first one equal to pri.
RemovePri(p, pri) ==
  LET at == {i \in DOMAIN p : p[i] = pri}
      i == CHOOSE j \in at : \A k \in at : j <= k
  IN  IF at = {} THEN p ELSE SubSeq([p EXCEPT ![i] = p[Len(p)]], 1, Len(p) - 1)

\* prioritySlice.max.
MaxPending(p) == IF p = <<>> THEN Minus ELSE CHOOSE x \in Range(p) : \A y \in Range(p) : y <= x

\* sendByRepository starts with the documents of result r.
Split(r, m) == [r |-> r, max |-> m, rest |-> r.found]

RepoOf(i) == Docs[todo.r.s][i].repo
Compound == Len(Repos[todo.r.s]) > 1

\* The next run of documents of one repository.
Run == {i \in todo.rest : Compound => \A j \in todo.rest : j <= i => RepoOf(j) = RepoOf(i)}

\* Its event has the priority of the repository, or of the shard when the shard has one
\* repository or the result no documents; the stats go with the last event.
NextEvent ==
  Event(IF Compound /\ Run # {} THEN Repos[todo.r.s][RepoOf(CHOOSE i \in Run : TRUE)] ELSE Priority(todo.r.s),
        todo.max, {<<todo.r.s, i>> : i \in Run}, IF Run = todo.rest THEN todo.r.crash ELSE 0)

\* Mutation: a failed shard ends the search at once.
ConsumeBail ==
  /\ pc = "select" /\ results # <<>>
  /\ LET r == Head(results) IN
     /\ pending' = RemovePri(pending, Priority(r.s))
     /\ total' = total + r.matches
     /\ err' = (err \/ r.err)
     /\ todo' = IF r.err THEN NothingToSend ELSE Split(r, MaxPending(pending'))
     /\ pc' = IF r.err THEN "return" ELSE "send"
  /\ results' = Tail(results)
  /\ UNCHANGED <<shard, stopped, flags, search, closed, wk, used, looked, outer, ctx, opts, sink>>

\* `r, ok := <-results` with a result.
Consume ==
  /\ pc = "select" /\ results # <<>>
  /\ LET r == Head(results)
         over == TotalMax > 0 /\ total + r.matches > TotalMax
     IN
     /\ pending' = RemovePri(pending, Priority(r.s))
     /\ \/ /\ r.err
           /\ stopped' = TRUE /\ err' = TRUE /\ pc' = "yield"
           /\ UNCHANGED <<total, flags, todo>>
        \/ /\ ~r.err
           /\ total' = total + r.matches
           /\ flags' = IF over /\ shard < N THEN flags \cup {"MatchLimit"} ELSE flags
           /\ stopped' = (stopped \/ over \/ "ResponseLimit" \in flags')
           /\ todo' = Split(r, MaxPending(pending'))
           /\ pc' = "send"
           /\ UNCHANGED err
  /\ results' = Tail(results)
  /\ UNCHANGED <<shard, search, closed, wk, used, looked, outer, ctx, opts, sink>>

\* sender.Send for the next event of the result.
SendNext ==
  /\ pc = "send"
  /\ sink' = Send(sink, NextEvent)
  /\ CancelOnLimit
  /\ todo' = IF Run = todo.rest THEN NothingToSend ELSE [todo EXCEPT !.rest = @ \ Run]
  /\ pc' = IF Run = todo.rest THEN "yield" ELSE "send"
  /\ UNCHANGED <<shard, stopped, pending, total, err, chans, wk, flags, used, looked, outer, opts>>

\* `!ok`: every worker is gone and every result consumed.
Finished ==
  /\ pc = "select" /\ results = <<>> /\ closed
  /\ pc' = "return"
  /\ UNCHANGED <<shard, stopped, pending, total, err, todo, chans, wk, flags, used, looked, outer, ctx, opts, sink>>

\* streamSearch returns: its deferred calls mark the context, then cancel it.
Return ==
  /\ pc = "return"
  /\ flags' = flags \cup MarkContext(ctx)
  /\ ctx' = IF ctx = "live" THEN "canceled" ELSE ctx
  /\ pc' = "flush"
  /\ UNCHANGED <<shard, stopped, pending, total, err, todo, chans, wk, used, looked, outer, opts, sink>>

\* Mutation: StreamSearch returns without flushing.
FlushForgotten ==
  /\ pc = "flush" /\ Streaming
  /\ pc' = "done"
  /\ UNCHANGED <<shard, stopped, pending, total, err, todo, chans, wk, flags, used, looked, outer, ctx, opts, sink>>

\* The end of StreamSearch: flush, then done.
FlushStream ==
  /\ pc = "flush" /\ Streaming
  /\ sink' = StopCollecting(sink)
  /\ CancelOnLimit
  /\ pc' = "done"
  /\ UNCHANGED <<shard, stopped, pending, total, err, todo, chans, wk, flags, used, looked, outer, opts>>

\* The end of Search: the aggregate is its value unless there was an error.
ReturnAggregate ==
  /\ pc = "flush" /\ ~Streaming
  /\ LET agg == IF sink.agg = NoAgg THEN Event(0, 0, {}, 0) ELSE sink.agg
     IN  IF err THEN UNCHANGED sink
         ELSE sink' = [sink EXCEPT !.collecting = FALSE, !.agg = NoAgg,
                         !.out = <<[agg EXCEPT !.crash = @ + (IF opts.ready THEN 0 ELSE 1)]>>]
  /\ flags' = flags \cup BudgetFinish(outer, err)
                    \cup (IF ~err /\ ~opts.ready THEN {"IndexNotReady"} ELSE {})
  /\ pc' = "done"
  /\ UNCHANGED <<shard, stopped, pending, total, err, todo, chans, wk, used, looked, outer, ctx, opts>>

-----------------------------------------------------------------------------
Terminated == pc = "done" /\ UNCHANGED vars

Worker(w) == \/ Receive(w) \/ Exit(w) \/ Open(w) \/ Fail(w) \/ Panic(w)
             \/ Scan(w) \/ Reserve(w) \/ Deliver(w)

Search == \/ Acquire \/ Yield \/ Dispatch \/ Consume \/ SendNext
          \/ Finished \/ Return \/ FlushStream \/ ReturnAggregate

Next == \/ Search \/ CloseResults \/ (\E w \in Workers : Worker(w))
        \/ FlushTimer \/ ClientCancel \/ Deadline \/ Terminated

Spec == Init /\ [][Next]_vars

\* Goroutines run; the contexts and the timer need not do anything.
FairSpec == /\ Spec
            /\ WF_vars(Search) /\ WF_vars(CloseResults)
            /\ \A w \in Workers : WF_vars(Worker(w))

-----------------------------------------------------------------------------
Matching(s) == {i \in DOMAIN Docs[s] : Docs[s][i].match}
AllDocs == UNION {{<<s, i>> : i \in Matching(s)} : s \in Shards}
Candidates == UNION {{<<s, i>> : i \in DOMAIN Docs[s]} : s \in Shards}
FilesOf(es) == UNION {es[i].files : i \in DOMAIN es}
Delivered == FilesOf(sink.out)
Sent == Delivered \cup (IF sink.agg = NoAgg THEN {} ELSE sink.agg.files)
Busy == {w \in Workers : wk[w].st \notin {"idle", "gone"}}

\* The three senders: no document reaches the client twice, and over all events no
\* more than the display limit, however the flush timer, the final flush and the
\* results interleave.
DeliveredOnce ==
  /\ \A i, j \in DOMAIN sink.out : i # j => sink.out[i].files \cap sink.out[j].files = {}
  /\ DisplayLimit > 0 => Cardinality(Delivered) <= DisplayLimit

\* A search that reports neither an error, nor a crash, nor a reason to be
\* partial has delivered every matching document, up to the display limit.
Complete ==
  (pc = "done" /\ ~err /\ flags \subseteq {"Known"} /\ \A i \in DOMAIN sink.out : sink.out[i].crash = 0)
    => \/ Delivered = AllDocs
       \/ DisplayLimit > 0 /\ Cardinality(Delivered) = DisplayLimit

\* The reasons given are true: with MatchLimit a shard or a candidate was not looked at,
\* though nothing in it need match; with ResponseLimit a document that matches is
\* missing; and Cancelled is not the search's own clean-up.
ReasonsTrue ==
  pc = "done" =>
    /\ "MatchLimit" \in flags => shard < N \/ looked # Candidates
    /\ "ResponseLimit" \in flags => Delivered # AllDocs
    /\ "Cancelled" \in flags =>
         outer = "canceled" \/ (Streaming /\ DisplayLimit > 0 /\ Cardinality(Delivered) = DisplayLimit)
    /\ "IndexNotReady" \in flags => ~opts.ready

\* Search and StreamSearch tell the truth about what is missing.
Honest == Complete /\ ReasonsTrue

\* The documents that are retained: by the workers, in their results, by the senders.
Retained ==
  (UNION {{<<wk[w].s, i>> : i \in wk[w].found} : w \in Busy})
    \cup (UNION {{<<results[j].s, i>> : i \in results[j].found} : j \in DOMAIN results})
    \cup {<<todo.r.s, i>> : i \in todo.rest}
    \cup Sent

\* Budget.Reserve: they never exceed the budget, whatever the workers' reads and swaps
\* interleave to.
BudgetKept == Cardinality(Retained) <= Budget

\* ShardMaxMatchCount and ShardRepoMaxMatchCount bound what is kept of a shard, and of
\* each of its repositories, over all the places where it is kept.
KeptOf(s) == {i \in DOMAIN Docs[s] : <<s, i>> \in Retained}
ShardLimitsKept ==
  \A s \in Shards :
    /\ ShardMax > 0 => Cardinality(KeptOf(s)) <= ShardMax
    /\ ShardRepoMax > 0 => \A repo \in DOMAIN Repos[s] :
         Cardinality({i \in KeptOf(s) : Docs[s][i].repo = repo}) <= ShardRepoMax

\* What limits promise: nothing twice, and nothing beyond the display limits, the budget
\* and the limits on the matches of a shard and of a repository in it.
LimitsKept == DeliveredOnce /\ BudgetKept /\ ShardLimitsKept

\* Progress: a result whose priority exceeds the latest MaxPendingPriority may be shown,
\* because nothing of a higher priority can follow. With compound shards the code breaks
\* this in two ways, which are excepted: the result is of a repository that ranks below
\* its shard, so that a shard between the two can still come; and what follows is of the
\* same compound shard as the latest event.
StableFinal ==
  \A i, j, k \in DOMAIN sink.out :
    (/\ i <= j /\ j < k /\ sink.out[i].files # {} /\ sink.out[k].files # {}
     /\ sink.out[i].priority > sink.out[j].max
     /\ \A d \in sink.out[i].files : Priority(d[1]) <= sink.out[i].priority
     /\ \A d \in sink.out[j].files, e \in sink.out[k].files : d[1] # e[1])
      => sink.out[k].priority <= sink.out[i].priority

\* StreamSearch: nothing is sent once done has been called, when the shards'
\* memory may be unmapped.
NothingAfterDone == [][pc = "done" => UNCHANGED sink]_vars

\* What a search tells its client is true to the end, and is the last it hears.
HonestToTheEnd == []Honest /\ NothingAfterDone

\* The search returns, and none of its workers is left behind.
Returns == <>(pc = "done" /\ (shard > 0 => \A w \in Workers : wk[w].st = "gone"))
=============================================================================
