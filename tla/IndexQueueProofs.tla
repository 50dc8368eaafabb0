-------------------------- MODULE IndexQueueProofs --------------------------
(***************************************************************************)
(* IndexQueue for any number of repositories, option values and workers    *)
(* and any backoff: the queue's safety properties.                         *)
(***************************************************************************)
EXTENDS IndexQueue, TLAPS

\* An item's options are its own repository's or none, and nothing pushes the
\* item of repository zero.  Without this, deleting items by opts.RepoID could
\* take a key away from an item that stays on the heap.
OptsOwn ==
  /\ \A r \in Ids : item[r].opts.id \in {r, ZeroRepo}
  /\ ZeroRepo \notin onHeap

IInv == /\ TypeOK /\ OptsOwn /\ HeapTracked /\ HeapFresh
        /\ IndexedIsCurrent /\ BackoffRespected

USE DEF indexVars, Ids, Options, Items, ZeroOpts, NewItem, NoKey, Key

LEMMA Types ==
  /\ ZeroOpts \in Options
  /\ NewItem \in Items
  /\ NoKey \in BOOLEAN \X BOOLEAN
  /\ \A i \in Items : Key(i) \in BOOLEAN \X BOOLEAN
  OBVIOUS

LEMMA InitInv == Init => IInv
<1> SUFFICES ASSUME Init PROVE IInv
  OBVIOUS
<1> USE Types DEF Init
<1>1. TypeOK
  <2> USE DEF TypeOK
  <2> HIDE DEF NoKey, ZeroOpts, NewItem, Options, Items
  <2> QED
    OBVIOUS
<1> QED
  BY <1>1 DEF IInv, OptsOwn, HeapTracked, HeapFresh, IndexedIsCurrent, BackoffRespected

\* The backoff operators return items, and only touch the backoff.
LEMMA BackoffItems ==
  ASSUME NEW i \in Items
  PROVE  /\ Reset(i) \in Items /\ Fail(i) \in Items
         /\ Reset(i).opts = i.opts /\ Fail(i).opts = i.opts
         /\ Reset(i).indexed = i.indexed /\ Fail(i).indexed = i.indexed
         /\ Reset(i).wait = 0
<1>1. (i.failures + 1) * BackoffDuration \in Nat
  BY QueueAssumption
<1>2. Reset(i) \in Items
  BY DEF Reset
<1> DEFINE dur == (i.failures + 1) * BackoffDuration
<1>3. dur \in Nat
  BY <1>1
<1> HIDE DEF dur
<1>4. /\ Fail(i) = IF dur > MaxBackoff
                   THEN [i EXCEPT !.wait = MaxBackoff + 1]
                   ELSE [i EXCEPT !.failures = i.failures + 1, !.wait = dur + 1]
  BY DEF Fail, dur
<1>5. Fail(i) \in Items
  <2>1. CASE dur > MaxBackoff
    BY <1>3, <1>4, <2>1, QueueAssumption
  <2>2. CASE ~(dur > MaxBackoff)
    <3>1. i.failures + 1 \in Nat /\ dur + 1 \in Nat
      BY <1>3
    <3> QED
      BY <1>4, <2>2, <3>1
  <2> QED
    BY <2>1, <2>2
<1>6. Fail(i).opts = i.opts /\ Fail(i).indexed = i.indexed
  BY <1>4
<1> QED
  BY <1>2, <1>5, <1>6 DEF Reset

-----------------------------------------------------------------------------
(* One lemma per action.                                                   *)

LEMMA AddOrUpdateStep ==
  ASSUME IInv, NEW o \in [id : Repos, ver : Versions], AddOrUpdate(o)
  PROVE  IInv'
<1> USE QueueAssumption DEF IInv
<1> DEFINE r == o.id
           i == item[r]
           new == IF i.opts = o THEN i ELSE [i EXCEPT !.opts = o, !.indexed = FALSE]
           items == [item EXCEPT ![r] = new]
<1>1. /\ r \in Repos /\ i \in Items /\ o \in Options /\ new \in Items
      /\ new.opts = o /\ new.wait = i.wait /\ (i.opts = o => new = i)
      /\ i.opts # o => ~new.indexed
  <2>1. r \in Repos /\ i \in Items /\ o \in Options
    BY DEF TypeOK
  <2>2. CASE i.opts = o
    BY <2>1, <2>2
  <2>3. CASE i.opts # o
    <3>1. new = [i EXCEPT !.opts = o, !.indexed = FALSE]
      BY <2>3
    <3> QED
      BY <2>1, <2>3, <3>1
  <2> QED
    BY <2>1, <2>2, <2>3
<1>2. /\ item' = items /\ known' = known \cup {r}
      /\ seen' = [w \in Workers |-> IF ptr[w] = r THEN seen[w] \cup {o} ELSE seen[w]]
      /\ UNCHANGED <<pc, ptr, job, removing, disk, forced>>
  BY <1>1 DEF AddOrUpdate, Observe
<1> HIDE DEF new
<1>3. CASE r \notin onHeap /\ Allow(new) /\ PushOne(r, items)
  <2>1. /\ onHeap' = onHeap \cup {r}
        /\ older' \subseteq Ids \X Ids
        /\ key' = [x \in Ids |-> IF x \in {r} THEN Key(items[x]) ELSE key[x]]
    BY <1>1, <1>3 DEF PushOne, Push, TypeOK
  <2>2. TypeOK'
    <3> HIDE DEF Options, Items, Key
    <3> QED
      BY <1>1, <1>2, <2>1, Types DEF TypeOK
  <2>3. OptsOwn' /\ HeapTracked' /\ IndexedIsCurrent'
    BY <1>1, <1>2, <2>1 DEF TypeOK, OptsOwn, HeapTracked, IndexedIsCurrent
  <2>4. HeapFresh' /\ BackoffRespected'
    BY <1>1, <1>2, <1>3, <2>1 DEF TypeOK, HeapFresh, BackoffRespected, Allow
  <2> QED
    BY <2>2, <2>3, <2>4
<1>4. CASE r \notin onHeap /\ ~Allow(new) /\ HeapUnchanged
  <2>1. TypeOK'
    BY <1>1, <1>2, <1>4 DEF TypeOK, HeapUnchanged
  <2>2. OptsOwn' /\ HeapTracked' /\ IndexedIsCurrent'
    BY <1>1, <1>2, <1>4 DEF TypeOK, OptsOwn, HeapTracked, IndexedIsCurrent, HeapUnchanged
  <2>3. HeapFresh' /\ BackoffRespected'
    BY <1>1, <1>2, <1>4 DEF TypeOK, HeapFresh, BackoffRespected, HeapUnchanged
  <2> QED
    BY <2>1, <2>2, <2>3
<1>5. CASE r \in onHeap /\ Fix(r, items)
  <2>1. TypeOK'
    <3> HIDE DEF Options, Items, Key
    <3> QED
      BY <1>1, <1>2, <1>5, Types DEF TypeOK, Fix
  <2>2. OptsOwn' /\ HeapTracked' /\ IndexedIsCurrent'
    BY <1>1, <1>2, <1>5 DEF TypeOK, OptsOwn, HeapTracked, IndexedIsCurrent, Fix
  <2>3. HeapFresh' /\ BackoffRespected'
    BY <1>1, <1>2, <1>5 DEF TypeOK, HeapFresh, BackoffRespected, Fix
  <2> QED
    BY <2>1, <2>2, <2>3
<1> QED
  BY <1>3, <1>4, <1>5 DEF AddOrUpdate, new

LEMMA BumpStep ==
  ASSUME IInv, NEW ids \in SUBSET Repos, Bump(ids)
  PROVE  IInv'
<1> USE QueueAssumption DEF IInv
<1> DEFINE S == {r \in ids \cap known : r \notin onHeap /\ Allow(item[r])}
<1>1. /\ onHeap' = onHeap \cup S
      /\ older' \subseteq Ids \X Ids
      /\ key' = [r \in Ids |-> IF r \in S THEN Key(item[r]) ELSE key[r]]
      /\ UNCHANGED <<known, item, removing, pc, ptr, seen, job, disk, forced>>
  BY DEF Bump, Push, TypeOK, workerVars
<1>2. TypeOK'
  BY <1>1 DEF TypeOK
<1>3. OptsOwn' /\ HeapTracked' /\ IndexedIsCurrent'
  BY <1>1 DEF OptsOwn, HeapTracked, IndexedIsCurrent
<1>4. HeapFresh' /\ BackoffRespected'
  BY <1>1 DEF TypeOK, HeapFresh, BackoffRespected, Allow
<1> QED
  BY <1>2, <1>3, <1>4

LEMMA CompareSizesStep ==
  ASSUME IInv, NEW ids \in SUBSET Repos, CompareSizes(ids)
  PROVE  IInv'
  BY DEF IInv, CompareSizes, HeapUnchanged, workerVars, TypeOK, OptsOwn, HeapTracked,
         HeapFresh, IndexedIsCurrent, BackoffRespected

LEMMA RemoveMissingStep ==
  ASSUME IInv, RemoveMissing
  PROVE  IInv'
<1> USE QueueAssumption DEF IInv, RemoveMissing
<1> DEFINE M == Missing(removing)
           D == Deleted(removing)
<1>1. /\ onHeap' = onHeap \ M /\ older' \subseteq older
      /\ key' = [r \in Ids |-> IF r \in M THEN NoKey ELSE key[r]]
  BY DEF Remove
<1>2. M \subseteq known /\ D \subseteq known
  BY DEF Missing, Deleted
<1>3. D \cap onHeap \subseteq M
  BY DEF Missing, Deleted, OptsOwn, TypeOK
<1>4. TypeOK'
  <2>1. \A i \in Items : [i EXCEPT !.failed = FALSE] \in Items
    OBVIOUS
  <2> HIDE DEF Options, Items, NewItem, NoKey
  <2>2. item' \in [Ids -> Items] /\ key' \in [Ids -> BOOLEAN \X BOOLEAN]
    BY <1>1, <2>1, Types DEF TypeOK
  <2> QED
    BY <1>1, <1>2, <2>2 DEF TypeOK
<1>5. OptsOwn' /\ HeapTracked'
  BY <1>1, <1>2, <1>3 DEF TypeOK, OptsOwn, HeapTracked
<1>6. IndexedIsCurrent'
  BY <1>2 DEF TypeOK, IndexedIsCurrent
<1>7. HeapFresh' /\ BackoffRespected'
  BY <1>1, <1>2, <1>3 DEF TypeOK, HeapFresh, BackoffRespected
<1> QED
  BY <1>4, <1>5, <1>6, <1>7

LEMMA PopTakeStep ==
  ASSUME IInv, NEW w \in Workers, PopTake(w)
  PROVE  IInv'
<1> USE DEF IInv
<1>1. PICK r \in onHeap : /\ Remove({r})
                          /\ ptr' = [ptr EXCEPT ![w] = r]
                          /\ seen' = [seen EXCEPT ![w] = {item[r].opts}]
  BY DEF PopTake
<1>2. TypeOK'
  <2>1. item[r].opts \in Options
    BY DEF TypeOK
  <2> HIDE DEF Options, Items, NoKey
  <2>2. key' \in [Ids -> BOOLEAN \X BOOLEAN]
    BY <1>1, Types DEF Remove, TypeOK
  <2> QED
    BY <1>1, <2>1, <2>2 DEF PopTake, Remove, TypeOK
<1>3. OptsOwn' /\ HeapTracked' /\ IndexedIsCurrent'
  BY <1>1 DEF PopTake, Remove, OptsOwn, HeapTracked, IndexedIsCurrent
<1>4. HeapFresh' /\ BackoffRespected'
  BY <1>1 DEF PopTake, Remove, TypeOK, HeapFresh, BackoffRespected
<1> QED
  BY <1>2, <1>3, <1>4

LEMMA PopReadStep ==
  ASSUME IInv, NEW w \in Workers, PopRead(w)
  PROVE  IInv'
<1> USE QueueAssumption DEF IInv
<1>1. Torn(seen[w]) \subseteq Options
  BY DEF Torn, TypeOK
<1>2. TypeOK'
  BY <1>1 DEF PopRead, TypeOK
<1> QED
  BY <1>2 DEF PopRead, OptsOwn, HeapTracked, IndexedIsCurrent, HeapFresh, BackoffRespected

LEMMA FinishStep ==
  ASSUME IInv, NEW w \in Workers, NEW ok \in BOOLEAN, Finish(w, ok)
  PROVE  IInv'
<1> USE QueueAssumption DEF IInv
<1> DEFINE o == job[w]
           r == o.id
           i == [item[r] EXCEPT !.failed = ~ok]
           done == [i EXCEPT !.indexed = (o = i.opts)]
           new == IF ok THEN Reset(done) ELSE Fail(i)
           items == [item EXCEPT ![r] = new]
<1>1. o \in Options /\ r \in Ids /\ item[r] \in Items
  BY DEF TypeOK
<1>2. i \in Items /\ done \in Items
  BY <1>1
<1>3. /\ new \in Items /\ new.opts = item[r].opts
      /\ ok => new.wait = 0 /\ (new.indexed => o = item[r].opts)
      /\ ~ok => new.indexed = item[r].indexed
  <2> HIDE DEF i, done
  <2>1. /\ i.opts = item[r].opts /\ i.indexed = item[r].indexed
        /\ done.opts = i.opts /\ done.indexed = (o = i.opts)
    BY <1>1 DEF i, done
  <2> QED
    BY <1>2, <2>1, BackoffItems
<1>4. /\ item' = items /\ known' = known \cup {r}
      /\ disk' = IF ok THEN [disk EXCEPT ![r] = o] ELSE disk
      /\ forced' = IF ok THEN forced \ {r} ELSE forced
      /\ job' = [job EXCEPT ![w] = ZeroOpts]
      /\ pc' = [pc EXCEPT ![w] = "idle"]
      /\ UNCHANGED <<ptr, seen, removing>>
  BY DEF Finish, SetIndexed
<1> HIDE DEF new
<1>5. IndexedIsCurrent'
  BY <1>1, <1>3, <1>4 DEF TypeOK, IndexedIsCurrent
<1>6. CASE r \notin onHeap /\ HeapUnchanged
  <2>1. TypeOK'
    BY <1>1, <1>3, <1>4, <1>6 DEF TypeOK, HeapUnchanged
  <2>2. OptsOwn' /\ HeapTracked'
    BY <1>1, <1>3, <1>4, <1>6 DEF TypeOK, OptsOwn, HeapTracked, HeapUnchanged
  <2>3. HeapFresh' /\ BackoffRespected'
    BY <1>1, <1>3, <1>4, <1>6 DEF TypeOK, HeapFresh, BackoffRespected, HeapUnchanged
  <2> QED
    BY <2>1, <2>2, <2>3, <1>5
<1>7. CASE r \in onHeap /\ ok /\ Fix(r, items)
  <2>1. TypeOK'
    BY <1>1, <1>3, <1>4, <1>7 DEF TypeOK, Fix
  <2>2. OptsOwn' /\ HeapTracked'
    BY <1>1, <1>3, <1>4, <1>7 DEF TypeOK, OptsOwn, HeapTracked, Fix
  <2>3. HeapFresh' /\ BackoffRespected'
    BY <1>1, <1>3, <1>4, <1>7 DEF TypeOK, HeapFresh, BackoffRespected, Fix
  <2> QED
    BY <2>1, <2>2, <2>3, <1>5
<1>8. CASE r \in onHeap /\ ~ok /\ Remove({r})
  <2>1. TypeOK'
    BY <1>1, <1>3, <1>4, <1>8 DEF TypeOK, Remove
  <2>2. OptsOwn' /\ HeapTracked'
    BY <1>1, <1>3, <1>4, <1>8 DEF TypeOK, OptsOwn, HeapTracked, Remove
  <2>3. HeapFresh' /\ BackoffRespected'
    BY <1>1, <1>3, <1>4, <1>8 DEF TypeOK, HeapFresh, BackoffRespected, Remove
  <2> QED
    BY <2>1, <2>2, <2>3, <1>5
<1> QED
  BY <1>6, <1>7, <1>8 DEF Finish, SetIndexed, new

LEMMA SkipStep ==
  ASSUME IInv, NEW w \in Workers, Skip(w)
  PROVE  IInv'
  BY QueueAssumption
  DEF IInv, Skip, TypeOK, OptsOwn, HeapTracked, HeapFresh, IndexedIsCurrent, BackoffRespected

LEMMA ForceStep ==
  ASSUME IInv, NEW o \in [id : Repos, ver : Versions], ForceIndex(o)
  PROVE  IInv'
<1>1. o \in Options
  OBVIOUS
<1>2. TypeOK'
  BY <1>1 DEF IInv, ForceIndex, TypeOK, HeapUnchanged
<1>3. IndexedIsCurrent'
  BY DEF IInv, TypeOK, ForceIndex, IndexedIsCurrent
<1> QED
  BY <1>2, <1>3 DEF IInv, ForceIndex, HeapUnchanged, OptsOwn, HeapTracked, HeapFresh, BackoffRespected

LEMMA TickStep ==
  ASSUME IInv, Tick
  PROVE  IInv'
<1> USE DEF IInv, Tick, workerVars
<1>1. \A r \in Ids : /\ item'[r] \in Items
                     /\ item'[r].opts = item[r].opts
                     /\ item'[r].indexed = item[r].indexed
                     /\ item'[r].failed = item[r].failed
                     /\ item[r].wait = 0 => item'[r].wait = 0
  <2> SUFFICES ASSUME NEW r \in Ids
               PROVE  /\ item'[r] \in Items
                      /\ item'[r].opts = item[r].opts
                      /\ item'[r].indexed = item[r].indexed
                      /\ item'[r].failed = item[r].failed
                      /\ item[r].wait = 0 => item'[r].wait = 0
    OBVIOUS
  <2> DEFINE left == IF item[r].wait > 0 THEN item[r].wait - 1 ELSE 0
  <2>1. item[r] \in Items
    BY DEF TypeOK
  <2>2. left \in Nat /\ (item[r].wait = 0 => left = 0)
    BY <2>1
  <2>3. item'[r] = [item[r] EXCEPT !.wait = left]
    OBVIOUS
  <2> HIDE DEF left
  <2> QED
    BY <2>1, <2>2, <2>3
<1>2. TypeOK'
  BY <1>1 DEF TypeOK
<1> QED
  BY <1>1, <1>2
  DEF TypeOK, OptsOwn, HeapTracked, HeapFresh, IndexedIsCurrent, BackoffRespected

-----------------------------------------------------------------------------
\* The failure count and the backoff stay within the maximum: a step changes
\* them only by Reset, Fail, deletion or the passing of time.
Bounded(i) ==
  i.failures * BackoffDuration <= MaxBackoff /\ i.wait <= MaxBackoff + 1

LEMMA BoundedItems ==
  ASSUME NEW i \in Items, Bounded(i)
  PROVE  Bounded(Reset(i)) /\ Bounded(Fail(i)) /\ Bounded(NewItem)
<1> DEFINE dur == (i.failures + 1) * BackoffDuration
<1>1. dur \in Nat /\ 0 * BackoffDuration = 0
  BY QueueAssumption
<1>2. Bounded(Reset(i)) /\ Bounded(NewItem)
  BY <1>1, QueueAssumption DEF Bounded, Reset
<1>3. CASE dur > MaxBackoff
  <2>1. Fail(i) = [i EXCEPT !.wait = MaxBackoff + 1]
    BY <1>3 DEF Fail
  <2>2. Fail(i).failures = i.failures /\ Fail(i).wait = MaxBackoff + 1
    BY <2>1
  <2>3. MaxBackoff + 1 <= MaxBackoff + 1
    BY QueueAssumption
  <2> QED
    BY <1>2, <2>2, <2>3 DEF Bounded
<1>4. CASE ~(dur > MaxBackoff)
  <2>1. Fail(i) = [i EXCEPT !.failures = i.failures + 1, !.wait = dur + 1]
    BY <1>4 DEF Fail
  <2>2. Fail(i).failures = i.failures + 1 /\ Fail(i).wait = dur + 1
    BY <2>1
  <2> HIDE DEF dur
  <2>3. dur <= MaxBackoff /\ dur + 1 <= MaxBackoff + 1
    BY <1>1, <1>4, QueueAssumption
  <2> QED
    BY <2>2, <2>3, <1>2 DEF Bounded, dur
<1> QED
  BY <1>2, <1>3, <1>4

BInv == \A r \in Ids : Bounded(item[r])

LEMMA BoundedStep == IInv /\ BInv /\ [Next]_vars => BInv'
<1> SUFFICES ASSUME IInv, BInv, [Next]_vars PROVE BInv'
  OBVIOUS
<1>0. \A r \in Ids : item[r] \in Items
  BY DEF IInv, TypeOK
<1>1. ASSUME NEW o \in [id : Repos, ver : Versions], AddOrUpdate(o)
      PROVE  BInv'
  <2> DEFINE i == item[o.id]
             new == IF i.opts = o THEN i ELSE [i EXCEPT !.opts = o, !.indexed = FALSE]
  <2>1. o.id \in Ids /\ i \in Items /\ item \in [Ids -> Items]
    BY DEF IInv, TypeOK
  <2>2. Bounded(new)
    BY <2>1 DEF BInv, Bounded
  <2>3. item' = [item EXCEPT ![o.id] = new]
    BY <1>1 DEF AddOrUpdate
  <2> HIDE DEF new, i
  <2> QED
    BY <2>1, <2>2, <2>3 DEF BInv
<1>2. ASSUME item' = item
      PROVE  BInv'
  BY <1>2 DEF BInv
<1>3. ASSUME RemoveMissing
      PROVE  BInv'
  <2>1. \A i \in Items : Bounded(i) => Bounded([i EXCEPT !.failed = FALSE])
    BY DEF Bounded
  <2>2. Bounded(NewItem)
    BY QueueAssumption DEF Bounded
  <2> HIDE DEF NewItem, Items
  <2> QED
    BY <1>0, <1>3, <2>1, <2>2 DEF RemoveMissing, BInv
<1>4. ASSUME NEW w \in Workers, NEW ok \in BOOLEAN, Finish(w, ok)
      PROVE  BInv'
  <2> DEFINE o == job[w]
             i == [item[o.id] EXCEPT !.failed = ~ok]
             done == [i EXCEPT !.indexed = (o = i.opts)]
             new == IF ok THEN Reset(done) ELSE Fail(i)
  <2>1. o.id \in Ids /\ item \in [Ids -> Items]
    BY DEF IInv, TypeOK
  <2>2. i \in Items /\ Bounded(i)
    <3>1. item[o.id] \in Items /\ Bounded(item[o.id])
      BY <2>1 DEF BInv
    <3>2. i.failures = item[o.id].failures /\ i.wait = item[o.id].wait
      BY <3>1
    <3> QED
      BY <3>1, <3>2 DEF Bounded
  <2>3. done \in Items /\ Bounded(done)
    <3> HIDE DEF i
    <3> QED
      BY <2>2 DEF Bounded
  <2>4. Bounded(new)
    BY <2>2, <2>3, BoundedItems
  <2>5. item' = [item EXCEPT ![o.id] = new]
    BY <1>4 DEF Finish, SetIndexed
  <2> HIDE DEF new
  <2> QED
    BY <2>1, <2>4, <2>5 DEF BInv
<1>5. ASSUME Tick
      PROVE  BInv'
  <2> SUFFICES ASSUME NEW r \in Ids PROVE Bounded(item'[r])
    BY DEF BInv
  <2> DEFINE left == IF item[r].wait > 0 THEN item[r].wait - 1 ELSE 0
  <2>1. item[r] \in Items /\ Bounded(item[r])
    BY <1>0 DEF BInv
  <2>2. left <= MaxBackoff + 1
    <3>1. item[r].wait \in Nat /\ item[r].wait <= MaxBackoff + 1
      BY <2>1 DEF Bounded
    <3> QED
      BY <3>1, QueueAssumption
  <2>3. item'[r] = [item[r] EXCEPT !.wait = left]
    BY <1>5 DEF Tick
  <2> HIDE DEF left
  <2> QED
    BY <2>1, <2>2, <2>3 DEF Bounded
<1> QED
  BY <1>1, <1>2, <1>3, <1>4, <1>5
  DEF Next, vars, Bump, CompareSizes, PopTake, PopRead, Skip, ForceIndex

-----------------------------------------------------------------------------
LEMMA Invariance == Spec => []IInv
<1>1. IInv /\ [Next]_vars => IInv'
  <2> SUFFICES ASSUME IInv, [Next]_vars PROVE IInv'
    OBVIOUS
  <2>1. CASE UNCHANGED vars
    BY <2>1 DEF vars, IInv, TypeOK, OptsOwn, HeapTracked, HeapFresh, IndexedIsCurrent,
                BackoffRespected
  <2>2. CASE Next
    BY <2>2, AddOrUpdateStep, BumpStep, CompareSizesStep, RemoveMissingStep, PopTakeStep,
       PopReadStep, FinishStep, SkipStep, ForceStep, TickStep DEF Next
  <2> QED
    BY <2>1, <2>2
<1> QED
  BY InitInv, <1>1, PTL DEF Spec

\* Every variable of the queue keeps its type.
THEOREM TypeCorrect == Spec => []TypeOK
<1>1. IInv => TypeOK
  BY DEF IInv
<1> QED
  BY Invariance, <1>1, PTL

\* The heap is a subset of the map, and it knows every item's present priority,
\* for any number of repositories and workers: queue.go:100, 141, 288, 338.
THEOREM HeapCorrect == Spec => []HeapExact
<1>1. IInv => HeapExact
  BY DEF IInv, HeapExact
<1> QED
  BY Invariance, <1>1, PTL

\* Unless a forced job was the last to index a repository, indexed means that the options
\* it has are those it was last indexed with, in whatever order workers report:
\* queue.go:28, 283, main.go:1049-1075.
THEOREM IndexedCorrect == Spec => []IndexedIsCurrent
<1>1. IInv => IndexedIsCurrent
  BY DEF IInv
<1> QED
  BY Invariance, <1>1, PTL

\* No repository is queued before its backoff has passed: backoff.go:17-18.
THEOREM BackoffCorrect == Spec => []BackoffRespected
<1>1. IInv => BackoffRespected
  BY DEF IInv
<1> QED
  BY Invariance, <1>1, PTL

\* What Pop may hand out is known, at its present priority and not backing off.
THEOREM HeapSoundCorrect == Spec => []HeapSound
<1>1. HeapExact /\ BackoffRespected => HeapSound
  BY DEF HeapSound
<1> QED
  BY HeapCorrect, BackoffCorrect, <1>1, PTL

\* However often indexing a repository fails, and whatever the two durations are,
\* the next backoff is computed from a bounded count: backoff.go:31-39.
THEOREM BackoffIsBounded == Spec => []BackoffBounded
<1>1. Init => BInv
  BY QueueAssumption DEF Init, BInv, Bounded
<1>2. BInv => BackoffBounded
  BY DEF BInv, Bounded, BackoffBounded
<1> QED
  BY Invariance, BoundedStep, <1>1, <1>2, PTL DEF Spec
=============================================================================
