----------------------------- MODULE IndexQueue -----------------------------
(***************************************************************************)
(* Queue and backoff (cmd/zoekt-sourcegraph-indexserver/queue.go and       *)
(* backoff.go): the priority queue of repositories to index, shared by the  *)
(* sync loop, which adds, bumps and removes, and the workers, which pop and *)
(* report back.                                                            *)
(*                                                                         *)
(* A critical section of q.mu is one step.  Three things are not inside    *)
(* one critical section and are therefore several steps:                   *)
(*   - Pop reads item.opts after it has released q.mu;                     *)
(*   - MaybeRemoveMissing compares sizes in one section and removes in     *)
(*     another;                                                            *)
(*   - a worker pops, indexes, and reports with SetIndexed.                *)
(*                                                                         *)
(* Options are an id and a version: everything in IndexOptions but RepoID  *)
(* matters only through reflect.DeepEqual.  q.seq is only ever compared,   *)
(* so the relation "was pushed earlier" stands for the sequence numbers.   *)
(* Time is the number of ticks until a repository's backoff has passed.    *)
(***************************************************************************)
EXTENDS Naturals, FiniteSets

CONSTANTS Repos,            \* repository ids
          ZeroRepo,         \* RepoID of the zero IndexOptions
          Versions,         \* values of the other option fields
          NoVersion,        \* their zero value
          Mixed,            \* fields of two different versions
          Workers,          \* goroutines running processQueue
          NoItem,           \* a worker that refers to no item of the map
          NotRemoving,      \* the sync loop is outside MaybeRemoveMissing
          BackoffDuration,  \* ticks
          MaxBackoff        \* ticks

ASSUME QueueAssumption ==
         /\ ZeroRepo \notin Repos
         /\ NoVersion \notin Versions
         /\ Mixed \notin Versions \cup {NoVersion}
         /\ NoItem \notin Repos \cup {ZeroRepo}
         /\ BackoffDuration \in Nat
         /\ MaxBackoff \in Nat

Ids == Repos \cup {ZeroRepo}
Options == [id : Ids, ver : Versions \cup {NoVersion, Mixed}]
ZeroOpts == [id |-> ZeroRepo, ver |-> NoVersion]

VARIABLES known,     \* the keys of q.items
          item,      \* item[r]: the item of r, NewItem if r is not known
          onHeap,    \* items with heapIdx >= 0
          older,     \* <<x, y>>: x and y are on the heap and x.seq < y.seq
          key,       \* key[r]: r's priority when the heap was last told of it
          pc,        \* pc[w]: where worker w is in processQueue
          ptr,       \* ptr[w]: the item whose opts w is about to read
          seen,      \* seen[w]: what those opts have been since w's Pop
          job,       \* job[w]: the options w popped
          removing,  \* the ids MaybeRemoveMissing was called with
          disk,      \* disk[r]: the options r was last indexed with
          forced     \* the repositories that forceIndex was the last to index

vars == <<known, item, onHeap, older, key, pc, ptr, seen, job, removing, disk, forced>>
indexVars == <<disk, forced>>
workerVars == <<pc, ptr, seen, job, indexVars>>

\* newQueueItem: zero options, not on the heap, no backoff.
NewItem == [opts |-> ZeroOpts, indexed |-> FALSE, failed |-> FALSE,
            failures |-> 0, wait |-> 0]

NoKey == <<FALSE, FALSE>>

Init ==
  /\ known = {}
  /\ item = [r \in Ids |-> NewItem]
  /\ onHeap = {}
  /\ older = {}
  /\ key = [r \in Ids |-> NoKey]
  /\ pc = [w \in Workers |-> "idle"]
  /\ ptr = [w \in Workers |-> NoItem]
  /\ seen = [w \in Workers |-> {}]
  /\ job = [w \in Workers |-> ZeroOpts]
  /\ removing = NotRemoving
  /\ disk = [r \in Ids |-> ZeroOpts] /\ forced = {}

-----------------------------------------------------------------------------
(* The heap.                                                               *)

Key(i) == <<i.indexed, i.failed>>

\* lessQueueItemPriority: an item known to need an update first, then one that
\* did not fail, then the one that was pushed first.
Less(x, y) ==
  IF key[x][1] # key[y][1] THEN ~key[x][1]
  ELSE IF key[x][2] # key[y][2] THEN ~key[x][2]
  ELSE <<x, y>> \in older

\* Mutation: an item that is pushed again keeps its old sequence number.
PushOldSeq(S, ord, items) ==
  /\ onHeap' = onHeap \cup S
  /\ older' = older \cup (S \X onHeap)
                    \cup {p \in S \X S : ord[p[1]] < ord[p[2]]}
  /\ key' = [r \in Ids |-> IF r \in S THEN Key(items[r]) ELSE key[r]]

\* heap.Push of the ids in S, in the order that ord gives them; each is given
\* the next sequence number.  items is q.items after the caller's changes.
Push(S, ord, items) ==
  /\ onHeap' = onHeap \cup S
  /\ older' = older \cup (onHeap \X S)
                    \cup {p \in S \X S : ord[p[1]] < ord[p[2]]}
  /\ key' = [r \in Ids |-> IF r \in S THEN Key(items[r]) ELSE key[r]]

PushOne(r, items) == Push({r}, [x \in {r} |-> 1], items)

\* heap.Fix: the heap looks at r's priority again.
Fix(r, items) ==
  /\ key' = [key EXCEPT ![r] = Key(items[r])]
  /\ UNCHANGED <<onHeap, older>>

\* heap.Remove and heap.Pop.
Remove(S) ==
  /\ onHeap' = onHeap \ S
  /\ older' = {p \in older : p[1] \notin S /\ p[2] \notin S}
  /\ key' = [r \in Ids |-> IF r \in S THEN NoKey ELSE key[r]]

HeapUnchanged == UNCHANGED <<onHeap, older, key>>

-----------------------------------------------------------------------------
(* backoff                                                                 *)

\* backoffUntil is before now.
Allow(i) == i.wait = 0

Reset(i) == [i EXCEPT !.failures = 0, !.wait = 0]

\* The clock has to pass backoffUntil strictly: one tick more than the duration.
Fail(i) ==
  LET dur == (i.failures + 1) * BackoffDuration
  IN  IF dur > MaxBackoff
      THEN [i EXCEPT !.wait = MaxBackoff + 1]
      ELSE [i EXCEPT !.failures = i.failures + 1, !.wait = dur + 1]

-----------------------------------------------------------------------------
(* The sync loop's operations.                                             *)

\* A write to the options of r's item, as the workers that have r's item in
\* hand and have not read it yet may see it.
Observe(r, o) ==
  seen' = [w \in Workers |-> IF ptr[w] = r THEN seen[w] \cup {o} ELSE seen[w]]

AddOrUpdate(o) ==
  LET r == o.id
      i == item[r]
      new == IF i.opts = o THEN i ELSE [i EXCEPT !.opts = o, !.indexed = FALSE]
      items == [item EXCEPT ![r] = new]
  IN  /\ removing = NotRemoving
      /\ known' = known \cup {r}
      /\ item' = items
      /\ Observe(r, new.opts)
      /\ \/ r \notin onHeap /\ Allow(new) /\ PushOne(r, items)
         \/ r \notin onHeap /\ ~Allow(new) /\ HeapUnchanged
         \/ r \in onHeap /\ Fix(r, items)
      /\ UNCHANGED <<pc, ptr, job, removing, indexVars>>

\* Bump: every listed item that is known, off the heap and not backing off is
\* pushed, in the order of the list, with the options it has.
Bump(ids) ==
  LET S == {r \in ids \cap known : r \notin onHeap /\ Allow(item[r])}
  IN  /\ removing = NotRemoving
      /\ \E ord \in {f \in [S -> 1..Cardinality(S)] :
                       \A x, y \in S : f[x] = f[y] => x = y} :
           Push(S, ord, item)
      /\ UNCHANGED <<known, item, removing>> /\ UNCHANGED workerVars

\* MaybeRemoveMissing, first section: as many items as ids, nothing to do.
CompareSizes(ids) ==
  /\ removing = NotRemoving
  /\ Cardinality(known) # Cardinality(ids)
  /\ removing' = ids
  /\ UNCHANGED <<known, item>> /\ HeapUnchanged /\ UNCHANGED workerVars

\* The items that MaybeRemoveMissing takes off the heap, and the keys that it
\* deletes: it goes by item.opts.RepoID, not by the item's key.
Missing(ids) == {r \in known : item[r].opts.id \notin ids}
Deleted(ids) == {item[r].opts.id : r \in Missing(ids)} \cap known

\* Mutation: deleted items stay on the heap.
RemoveMissingKeepHeap ==
  /\ removing # NotRemoving
  /\ known' = known \ Deleted(removing)
  /\ item' = [r \in Ids |-> IF r \in Deleted(removing) THEN NewItem
                            ELSE IF r \in Missing(removing)
                            THEN [item[r] EXCEPT !.failed = FALSE] ELSE item[r]]
  /\ HeapUnchanged
  /\ removing' = NotRemoving
  /\ ptr' = [w \in Workers |-> IF ptr[w] \in Deleted(removing) THEN NoItem ELSE ptr[w]]
  /\ UNCHANGED <<pc, seen, job, indexVars>>

\* MaybeRemoveMissing, second section.  A worker that holds a deleted item no
\* longer sees what happens to the repository's next item.
RemoveMissing ==
  /\ removing # NotRemoving
  /\ known' = known \ Deleted(removing)
  /\ item' = [r \in Ids |-> IF r \in Deleted(removing) THEN NewItem
                            ELSE IF r \in Missing(removing)
                            THEN [item[r] EXCEPT !.failed = FALSE] ELSE item[r]]
  /\ Remove(Missing(removing))
  /\ removing' = NotRemoving
  /\ ptr' = [w \in Workers |-> IF ptr[w] \in Deleted(removing) THEN NoItem ELSE ptr[w]]
  /\ UNCHANGED <<pc, seen, job, indexVars>>

-----------------------------------------------------------------------------
(* The workers.                                                            *)

\* Pop under q.mu.
PopTake(w) ==
  /\ pc[w] = "idle"
  /\ \E r \in onHeap :
       /\ \A x \in onHeap \ {r} : Less(r, x)
       /\ Remove({r})
       /\ ptr' = [ptr EXCEPT ![w] = r]
       /\ seen' = [seen EXCEPT ![w] = {item[r].opts}]
  /\ pc' = [pc EXCEPT ![w] = "popped"]
  /\ UNCHANGED <<known, item, job, removing, indexVars>>

\* What reading a struct can return while it is being assigned.
Torn(S) ==
  [id : {o.id : o \in S},
   ver : {o.ver : o \in S} \cup (IF Cardinality({o.ver : o \in S}) > 1 THEN {Mixed} ELSE {})]

\* Pop after q.mu is released: the copy of item.opts races with AddOrUpdate.
PopRead(w) ==
  /\ pc[w] = "popped"
  /\ \E o \in Torn(seen[w]) : job' = [job EXCEPT ![w] = o]
  /\ pc' = [pc EXCEPT ![w] = "working"]
  /\ ptr' = [ptr EXCEPT ![w] = NoItem]
  /\ seen' = [seen EXCEPT ![w] = {}]
  /\ UNCHANGED <<known, item, onHeap, older, key, removing, indexVars>>

\* Mutation: a finished job marks the repository as indexed, whatever it did.
SetIndexedAlways(o, ok) ==
  LET r == o.id
      i == [item[r] EXCEPT !.failed = ~ok]
      new == IF ok THEN Reset([i EXCEPT !.indexed = TRUE]) ELSE Fail(i)
      items == [item EXCEPT ![r] = new]
  IN  /\ known' = known \cup {r}
      /\ item' = items
      /\ \/ r \notin onHeap /\ HeapUnchanged
         \/ r \in onHeap /\ ok /\ Fix(r, items)
         \/ r \in onHeap /\ ~ok /\ Remove({r})

SetIndexed(o, ok) ==
  LET r == o.id
      i == [item[r] EXCEPT !.failed = ~ok]
      new == IF ok THEN Reset([i EXCEPT !.indexed = (o = i.opts)]) ELSE Fail(i)
      items == [item EXCEPT ![r] = new]
  IN  /\ known' = known \cup {r}
      /\ item' = items
      /\ \/ r \notin onHeap /\ HeapUnchanged
         \/ r \in onHeap /\ ok /\ Fix(r, items)
         \/ r \in onHeap /\ ~ok /\ Remove({r})

\* The job ran under With and reports.  Options without a tenant always fail.
\* Indexing and SetIndexed are one step because With excludes the other jobs of
\* the repository meanwhile; it goes by the name, which is taken to stay the same.
Finish(w, ok) ==
  /\ pc[w] = "working"
  /\ ok => job[w].ver # NoVersion
  /\ SetIndexed(job[w], ok)
  /\ disk' = IF ok THEN [disk EXCEPT ![job[w].id] = job[w]] ELSE disk
  /\ forced' = IF ok THEN forced \ {job[w].id} ELSE forced
  /\ pc' = [pc EXCEPT ![w] = "idle"]
  /\ job' = [job EXCEPT ![w] = ZeroOpts]
  /\ UNCHANGED <<ptr, seen, removing>>

\* With returned false: another worker's job for the repository, or one that
\* forceIndex started, is running.
Skip(w) ==
  /\ pc[w] = "working"
  /\ pc' = [pc EXCEPT ![w] = "idle"]
  /\ job' = [job EXCEPT ![w] = ZeroOpts]
  /\ UNCHANGED <<known, item, onHeap, older, key, ptr, seen, removing, indexVars>>

\* forceIndex: the debug page and the reindex request index a repository with the
\* options Sourcegraph has now.  The queue hears nothing of it.
ForceIndex(o) ==
  /\ disk' = [disk EXCEPT ![o.id] = o]
  /\ forced' = forced \cup {o.id}
  /\ UNCHANGED <<known, item, removing, pc, ptr, seen, job>> /\ HeapUnchanged

Tick ==
  /\ \E r \in Ids : item[r].wait > 0
  /\ item' = [r \in Ids |-> [item[r] EXCEPT !.wait = IF @ > 0 THEN @ - 1 ELSE 0]]
  /\ UNCHANGED <<known, onHeap, older, key, removing>> /\ UNCHANGED workerVars

-----------------------------------------------------------------------------
Next ==
  \/ \E o \in [id : Repos, ver : Versions] : AddOrUpdate(o) \/ ForceIndex(o)
  \/ \E ids \in SUBSET Repos : Bump(ids) \/ CompareSizes(ids)
  \/ RemoveMissing
  \/ \E w \in Workers :
       \/ PopTake(w)
       \/ PopRead(w)
       \/ \E ok \in BOOLEAN : Finish(w, ok)
       \/ Skip(w)
  \/ Tick

Spec == Init /\ [][Next]_vars

\* Workers keep popping and their jobs end; what the sync loop does is free.
Fairness ==
  \A w \in Workers :
    /\ WF_vars(PopTake(w))
    /\ WF_vars(PopRead(w))
    /\ WF_vars(\E ok \in BOOLEAN : Finish(w, ok))

FairSpec == Spec /\ Fairness

-----------------------------------------------------------------------------
Items == [opts : Options, indexed : BOOLEAN, failed : BOOLEAN,
          failures : Nat, wait : Nat]

\* Every variable holds a value of its kind, and what is not known is blank.
TypeOK ==
  /\ known \subseteq Ids
  /\ item \in [Ids -> Items]
  /\ onHeap \subseteq Ids
  /\ older \subseteq Ids \X Ids
  /\ key \in [Ids -> BOOLEAN \X BOOLEAN]
  /\ pc \in [Workers -> {"idle", "popped", "working"}]
  /\ ptr \in [Workers -> Ids \cup {NoItem}]
  /\ seen \in [Workers -> SUBSET Options]
  /\ job \in [Workers -> Options]
  /\ removing = NotRemoving \/ removing \subseteq Repos
  /\ disk \in [Ids -> Options]
  /\ forced \subseteq Repos

\* Every item on the heap is in the map.  One that is not could be popped for a
\* repository that was taken away, and a second item for the same repository
\* could be pushed next to it.
HeapTracked == onHeap \subseteq known

\* The heap was told of every change of priority (heap.Fix after AddOrUpdate and
\* SetIndexed), so that Pop returns the item that lessQueueItemPriority puts
\* first by the items' present state.
HeapFresh == \A r \in onHeap : key[r] = Key(item[r])

\* The heap and the map agree: queue.go keeps both in step through Pop, removal
\* and late reports.
HeapExact == HeapTracked /\ HeapFresh

\* indexed is true only if the options in the queue are the ones the repository
\* was last indexed with, however late and in whatever order workers report: item's
\* comment, "indexed is true if opts has been indexed."  A forced job does not report,
\* so until a worker indexes the repository again indexed speaks of the job before.
IndexedIsCurrent ==
  \A r \in Ids \ forced : item[r].indexed => disk[r] = item[r].opts

\* A repository that is backing off is not on the heap, even if it was pushed
\* again while the job that failed was running: backoff.go:17-18, "Until then the
\* item will not be enqueued and indexing will not be attempted."
BackoffRespected == \A r \in onHeap : item[r].wait = 0

\* What Pop may hand out: queue.go and backoff.go together.
HeapSound == HeapExact /\ BackoffRespected

\* The failure count stops at the maximum: (count + 1) * BackoffDuration, which
\* the code computes in a time.Duration, stays within one BackoffDuration of
\* MaxBackoff.
BackoffBounded ==
  \A r \in Ids : /\ item[r].failures * BackoffDuration <= MaxBackoff
                 /\ item[r].wait <= MaxBackoff + 1

\* A repository on the heap that is known to be stale, and not failing, is popped
\* or brought up to date in the end: items of its class are served in the order
\* they were pushed, and one that is pushed again goes behind it.
StaleServed ==
  \A r \in Repos :
    LET Stale == r \in onHeap /\ Key(item[r]) = <<FALSE, FALSE>>
    IN  Stale ~> ~Stale
=============================================================================
