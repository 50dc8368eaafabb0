---------------------------- MODULE BuilderProofs ----------------------------
(***************************************************************************)
(* Builder for any number of documents, shards, goroutines, builds,        *)
(* failures and crashes.                                                   *)
(***************************************************************************)
EXTENDS Builder, FiniteSetTheorems, TLAPS

\* The channel holds one element for every goroutine that is building.
ThrottleOK == throttle = Cardinality(InThrottle(worker)) /\ throttle <= opts.par

\* A shard is built by the caller if Parallelism is 1, else by a goroutine; there are
\* goroutines only until building.Wait has returned, and only for numbers already given.
WorkersOK ==
  /\ opts.par = 1 => \A s \in Slots : worker[s] \in {"none", "inline"}
  /\ opts.par > 1 => \A s \in Slots : worker[s] # "inline"
  /\ pc \notin Building => worker = NoWorkers
  /\ \A s \in Slots : s >= nextShardNum => worker[s] = "none"

Waiting == {"throttled", "inline"}

\* The caller is in flush while it waits for one shard.
FlushingOK ==
  /\ \A s, t \in Slots : worker[s] \in Waiting /\ worker[t] \in Waiting => s = t
  /\ \A s \in Slots : worker[s] \in Waiting => pc \in {"flushing", "lastFlush"}

\* Until a shard that failed is on record as buildError, its goroutine is about to do so;
\* a caller that builds its own shards starts one only when there is nothing to forget.
BadKnown ==
  /\ bad # {} /\ pc \in Building =>
       buildError \/ \E s \in Slots : worker[s] \in {"failed", "recordError"}
  /\ (\E s \in Slots : worker[s] = "inline") => bad = {}
  /\ pc \in {"publish", "delete"} => bad = {}

\* Where the caller may be after its input failed, and when Abort has returned.
CallerOK ==
  /\ pc \in {"lastFlush", "wait", "publish", "delete"} => onError \in {"none", "finish"}
  /\ result = "aborted" => pc = "returned"

\* len(FindAllShards()) when the build started, the number of its first shard, and the
\* numbers it has given so far.
CountBefore ==
  IF Found(before.disk) # {} THEN Cardinality(Found(before.disk))
  ELSE IF Live(before.compound) THEN 1 ELSE 0
Start == IF opts.delta THEN CountBefore ELSE 0
Made == {s \in Slots : Start <= s /\ s < nextShardNum}

\* There is a number for every shard a build makes: one per document, or 0.
NumbersOK ==
  /\ before.added <= added
  /\ nextShardNum <= MaxOld + 1 + added /\ (todo # {} => nextShardNum <= MaxOld + added)
  /\ pc # "idle" => Start <= nextShardNum
  /\ \A s \in Slots : disk[Shard(s)] # Absent => s <= MaxOld + added
  /\ finished \subseteq Made /\ \A s \in Slots : worker[s] # "none" => s \in Made
  /\ artifacts \subseteq {Shard(s) : s \in Made} \union {Meta(s) : s \in Slots} \union {Compound}

\* Up to now no shard has failed.
Fine == (pc \in Building \ {"abortWait"} /\ ~buildError) \/ pc \in {"publish", "delete"} \/ (pc = "returned" /\ result = "ok")

\* The documents the build has been given.
Given == before.added + 1 .. added

\* The documents of this build are collected or in exactly one of its shards.
PartsOK ==
  /\ todo \subseteq Given /\ (pc # "adding" => todo = {})
  /\ \A s \in Slots : /\ part[s] \subseteq Given /\ part[s] \cap todo = {}
                      /\ part[s] # {} => s \in Made
  /\ \A s, t \in Slots : s # t => part[s] \cap part[t] = {}
  /\ Fine => \A d \in Given : d \in todo \/ \E s \in Slots : d \in part[s]

\* Every shard of the build is finished, in work, or on record as an error; there is one at
\* least when building.Wait is called.
MadeOK ==
  /\ (\E s \in Slots : worker[s] = "inline") => ~buildError
  /\ pc \in Building /\ ~buildError => \A s \in Made : s \in finished \/ worker[s] # "none"
  /\ pc \in {"lastFlush", "wait"} /\ ~buildError => nextShardNum > 0

\* What there is to rename, with the .meta of a compound shard, and to remove.
NewFiles == {Shard(s) : s \in Made} \union (IF opts.delta THEN {Meta(s) : s \in Found(before.disk)} ELSE {})
PlanFiles == NewFiles \union (IF DeltaOfCompound THEN {Compound} ELSE {})
StaleFiles ==
  IF opts.delta THEN {}
  ELSE IF Found(before.disk) # {} THEN {f \in Files : f[2] \in Found(before.disk) /\ before.disk[f] # Absent}
  ELSE IF Live(before.compound) THEN {Compound} ELSE {}

\* What there is left to do, and what renames and removals have come to if none has failed.
MovedOK ==
  pc \in {"publish", "delete"} \/ (pc = "returned" /\ result = "ok") =>
  /\ toDelete \subseteq StaleFiles /\ artifacts \subseteq PlanFiles
  /\ (pc # "publish" => artifacts = {}) /\ (pc = "returned" => toDelete = {})
  /\ DeltaOfCompound => before.compound = "alone"
  /\ ~Tombstones /\ (pc = "returned" \/ ~buildError) =>
       /\ \A f \in NewFiles : f \in artifacts \/ (disk[f] = run /\ f \notin toDelete)
       /\ \A f \in Files \ NewFiles : disk[f] = IF f \in StaleFiles \ toDelete THEN Absent ELSE before.disk[f]
       /\ compound = IF Compound \in StaleFiles \ toDelete THEN "removed"
                     ELSE IF DeltaOfCompound /\ Compound \notin artifacts THEN "broken" ELSE before.compound

\* Temporary files are those of shards that are finished, about to be, or failed.
TempsOK ==
  /\ pc \in Building => temps \subseteq {Shard(s) : s \in finished \union bad \union {t \in Slots : worker[t] \in {"built", "recordDone"}}}
  /\ TempsRemoved

IInv == TypeOK /\ ThrottleOK /\ WorkersOK /\ FlushingOK /\ BadKnown /\ CallerOK /\ UntouchedUnlessWhole

LEMMA SlotsFinite == IsFiniteSet(Slots) /\ 0 \in Slots /\ Slots \subseteq Nat
<1>1. MaxOld + MaxDocs \in Nat
  BY BuilderAssumption
<1> QED
  BY <1>1, FS_Interval DEF Slots

LEMMA OptionsType == \A o \in Options : o.par \in Nat \ {0} /\ o.delta \in BOOLEAN /\ o.merging \in BOOLEAN
  BY BuilderAssumption DEF Options

LEMMA OptionsChosen == (CHOOSE o \in Options : TRUE) \in Options
<1>1. PICK p \in Parallelisms : TRUE
  BY BuilderAssumption
<1>2. [delta |-> FALSE, merging |-> FALSE, par |-> p] \in Options
  BY <1>1 DEF Options
<1> QED
  BY <1>2

LEMMA InThrottleFinite ==
  \A w : IsFiniteSet(InThrottle(w)) /\ Cardinality(InThrottle(w)) \in Nat
  BY SlotsFinite, FS_Subset, FS_CardinalityType DEF InThrottle

LEMMA NoneInThrottle == Cardinality(InThrottle(NoWorkers)) = 0
<1>1. InThrottle(NoWorkers) = {}
  BY DEF InThrottle, NoWorkers
<1> QED
  BY <1>1, FS_EmptySet

LEMMA OldType ==
  ASSUME TypeOK
  PROVE  OldFiles \subseteq Files \union {Compound} /\ CountOld \in Nat /\ Found(disk) \subseteq Slots
<1>1. Found(disk) \subseteq Slots
  BY DEF Found
<1>2. Cardinality(Found(disk)) \in Nat
  BY <1>1, SlotsFinite, FS_Subset, FS_CardinalityType
<1>3. OldFiles \subseteq Files \union {Compound}
  BY DEF OldFiles
<1> QED
  BY <1>1, <1>2, <1>3 DEF CountOld

LEMMA FileType == \A s \in Slots : Shard(s) \in Files /\ Meta(s) \in Files
  BY DEF Shard, Meta, Files

\* The compound shard is no file of a simple shard.
LEMMA CompoundNoFile == Compound \notin Files
<1>1. "compound" # "shard" /\ "compound" # "meta"
  OBVIOUS
<1> QED
  BY <1>1 DEF Compound, Files

LEMMA GensType == Absent \in Gens /\ FirstRun \in Gens /\ \A r \in FirstRun .. MaxRuns + FirstRun : r \in Gens
  BY BuilderAssumption DEF Gens, Absent, FirstRun

-----------------------------------------------------------------------------
LEMMA InitInv == Init => IInv
<1> SUFFICES ASSUME Init PROVE IInv
  OBVIOUS
<1>1. disk \in [Files -> Gens]
  BY GensType DEF Init
<1>2. compound \in {"none", "shared", "alone"} /\ NoWorkers \in [Slots -> WorkerStates]
  BY DEF Init, NoWorkers, WorkerStates
<1>3. 0 \in 0 .. MaxDocs /\ 0 \in 0 .. ShardMax /\ 0 \in 0 .. MaxFails /\ 0 \in 0 .. MaxCrashes
      /\ FirstRun \in FirstRun .. MaxRuns + FirstRun
  BY BuilderAssumption DEF FirstRun
<1>4. opts \in Options
  BY OptionsChosen DEF Init
<1>5. before \in [added : 0 .. MaxDocs, disk : [Files -> Gens], compound : CompoundStates]
  BY <1>1, <1>2, <1>3 DEF Init, CompoundStates
<1>6. TypeOK
  BY <1>1, <1>2, <1>3, <1>4, <1>5 DEF Init, TypeOK, CompoundStates
<1>7. ThrottleOK
  BY <1>4, NoneInThrottle, OptionsType DEF Init, ThrottleOK
<1>8. WorkersOK /\ FlushingOK /\ BadKnown /\ CallerOK /\ UntouchedUnlessWhole
  BY DEF Init, WorkersOK, FlushingOK, Waiting, BadKnown, CallerOK, UntouchedUnlessWhole, Untouched, NoWorkers, Building
<1> QED
  BY <1>6, <1>7, <1>8 DEF IInv

\* flush keeps the types of what it assigns.
LEMMA FlushType ==
  ASSUME TypeOK, NEW docs \in SUBSET Docs, NEW cont \in {"adding", "wait"}, Flush(docs, cont)
  PROVE  /\ todo' \in SUBSET Docs /\ size' \in 0 .. ShardMax /\ nextShardNum' \in Nat
         /\ part' \in [Slots -> SUBSET Docs] /\ worker' \in [Slots -> WorkerStates]
         /\ pc' \in Building
<1>1. todo' = {} /\ size' = 0 /\ 0 \in 0 .. ShardMax
  BY BuilderAssumption DEF Flush
<1>2. CASE buildError \/ (docs = {} /\ nextShardNum > 0)
  BY <1>1, <1>2 DEF Flush, TypeOK, Building
<1>3. CASE ~(buildError \/ (docs = {} /\ nextShardNum > 0))
  <2>1. /\ part' = [part EXCEPT ![nextShardNum] = docs]
        /\ nextShardNum' = nextShardNum + 1
        /\ worker' = [worker EXCEPT ![nextShardNum] = IF opts.par > 1 THEN "throttled" ELSE "inline"]
        /\ pc' = IF cont = "adding" THEN "flushing" ELSE "lastFlush"
    BY <1>3 DEF Flush
  <2>2. part' \in [Slots -> SUBSET Docs]
    BY <2>1 DEF TypeOK
  <2>3. worker' \in [Slots -> WorkerStates]
    BY <2>1 DEF TypeOK, WorkerStates
  <2>4. nextShardNum' \in Nat /\ pc' \in Building
    BY <2>1 DEF TypeOK, Building
  <2> QED
    BY <1>1, <2>2, <2>3, <2>4
<1> QED
  BY <1>2, <1>3

LEMMA TypeNext ==
  ASSUME TypeOK, ThrottleOK, [Next]_vars
  PROVE  TypeOK'
<1> USE DEF TypeOK
<1>1. ASSUME NEW o \in Options, NewBuilder(o) PROVE TypeOK'
  <2>1. run' \in FirstRun .. MaxRuns + FirstRun
    BY <1>1, BuilderAssumption DEF NewBuilder, FirstRun
  <2>2. nextShardNum' \in Nat
    BY <1>1, OldType DEF NewBuilder
  <2>3. NoWorkers \in [Slots -> WorkerStates] /\ 0 \in 0 .. ShardMax
    BY BuilderAssumption DEF NoWorkers, WorkerStates
  <2>4. before' \in [added : 0 .. MaxDocs, disk : [Files -> Gens], compound : CompoundStates]
    BY <1>1 DEF NewBuilder
  <2> QED
    BY <1>1, <2>1, <2>2, <2>3, <2>4 DEF NewBuilder, dirVars, Building
<1>2. ASSUME NEW sz \in Sizes, Add(sz) PROVE TypeOK'
  <2>1. sz \in Nat /\ added + 1 \in Docs /\ added' \in 0 .. MaxDocs
    BY <1>2, BuilderAssumption DEF Add, Docs
  <2>2. CASE size + sz > ShardMax
    <3>1. Flush(todo \union {added + 1}, "adding")
      BY <1>2, <2>2 DEF Add
    <3>2. /\ todo' \in SUBSET Docs /\ size' \in 0 .. ShardMax /\ nextShardNum' \in Nat
          /\ part' \in [Slots -> SUBSET Docs] /\ worker' \in [Slots -> WorkerStates]
          /\ pc' \in Building
      BY <2>1, <3>1, FlushType
    <3> QED
      BY <1>2, <2>1, <3>2 DEF Add, finishVars, dirVars
  <2>3. CASE ~(size + sz > ShardMax)
    <3>1. size' \in 0 .. ShardMax /\ todo' \subseteq Docs
      BY <1>2, <2>1, <2>3, BuilderAssumption DEF Add
    <3> QED
      BY <1>2, <2>1, <2>3, <3>1 DEF Add, finishVars, dirVars
  <2> QED
    BY <2>2, <2>3
<1>3. ASSUME NEW s \in Slots, Throttle(s) PROVE TypeOK'
  BY <1>3 DEF Throttle, callVars, finishVars, dirVars, After, WorkerStates, Building
<1>4. ASSUME NEW s \in Slots, NEW ok \in BOOLEAN, NEW left \in BOOLEAN, BuildShard(s, ok, left) PROVE TypeOK'
  <2>1. fails' \in 0 .. MaxFails
    BY <1>4, BuilderAssumption DEF BuildShard
  <2>2. temps' \subseteq Files \union {Compound}
    BY <1>4, FileType DEF BuildShard
  <2> QED
    BY <1>4, <2>1, <2>2 DEF BuildShard, callVars, finishVars, dirVars, WorkerStates
<1>5. ASSUME NEW s \in Slots, Unthrottle(s) PROVE TypeOK'
  <2>1. s \in InThrottle(worker)
    BY <1>5 DEF Unthrottle, InThrottle
  <2>2. throttle # 0
    BY <2>1, InThrottleFinite, FS_EmptySet DEF ThrottleOK
  <2>3. throttle' \in Nat
    BY <1>5, <2>2 DEF Unthrottle
  <2>4. worker' \in [Slots -> WorkerStates]
    BY <1>5 DEF Unthrottle, WorkerStates
  <2> QED
    BY <1>5, <2>3, <2>4 DEF Unthrottle, callVars, finishVars, dirVars
<1>6. ASSUME NEW s \in Slots, Record(s) PROVE TypeOK'
  <2>1. worker' \in [Slots -> WorkerStates]
    BY <1>6 DEF Record, WorkerStates
  <2>2. finished' \subseteq Slots
    BY <1>6 DEF Record
  <2>3. buildError' \in BOOLEAN
    BY <1>6 DEF Record
  <2> QED
    BY <1>6, <2>1, <2>2, <2>3 DEF Record, callVars, finishVars, dirVars
<1>7. ASSUME NEW s \in Slots, NEW ok \in BOOLEAN, NEW left \in BOOLEAN, BuildInline(s, ok, left) PROVE TypeOK'
  <2>1. fails' \in 0 .. MaxFails
    BY <1>7, BuilderAssumption DEF BuildInline
  <2>2. temps' \subseteq Files \union {Compound}
    BY <1>7, FileType DEF BuildInline
  <2>3. worker' \in [Slots -> WorkerStates] /\ finished' \subseteq Slots /\ bad' \subseteq Slots
    BY <1>7 DEF BuildInline, WorkerStates
  <2> QED
    BY <1>7, <2>1, <2>2, <2>3 DEF BuildInline, callVars, finishVars, dirVars, After, Building
<1>8. ASSUME NEW c \in Callers, InputFails(c) PROVE TypeOK'
  <2>1. onError' \in {"none", "abort", "finish", "exit"}
    BY <1>8, BuilderAssumption DEF InputFails, OnInputError
  <2> QED
    BY <1>8, <2>1 DEF InputFails, callVars, finishVars, dirVars
<1>9. CASE CallFinish
  <2>1. /\ todo' \in SUBSET Docs /\ size' \in 0 .. ShardMax /\ nextShardNum' \in Nat
        /\ part' \in [Slots -> SUBSET Docs] /\ worker' \in [Slots -> WorkerStates]
        /\ pc' \in Building
    BY <1>9, FlushType DEF CallFinish
  <2> QED
    BY <1>9, <2>1 DEF CallFinish, callVars, finishVars, dirVars
<1>10. CASE CallAbort
  BY <1>10 DEF CallAbort, callVars, finishVars, dirVars, Building
<1>11. CASE Abort \/ GiveUp
  BY <1>11 DEF Abort, GiveUp, RemoveTemps, callVars, finishVars, dirVars
<1>12. ASSUME NEW k \in Slots, RejectDelta(k) PROVE TypeOK'
  <2>1. fails' \in 0 .. MaxFails
    BY <1>12, BuilderAssumption DEF RejectDelta
  <2>2. temps' \subseteq Files \union {Compound}
    BY <1>12, FileType DEF RejectDelta
  <2> QED
    BY <1>12, <2>1, <2>2 DEF RejectDelta, callVars, finishVars, dirVars
<1>13. CASE Stage
  <2>1. temps' \subseteq Files \union {Compound} /\ artifacts' \subseteq Files \union {Compound}
    BY <1>13, FileType, OldType DEF Stage, NewMetas
  <2>2. toDelete' \subseteq Files \union {Compound}
    BY <1>13, OldType DEF Stage
  <2>3. pc' \in {"returned", "publish"} /\ result' \in {"ok", result}
    BY <1>13 DEF Stage
  <2> QED
    BY <1>13, <2>1, <2>2, <2>3 DEF Stage, callVars, dirVars
<1>14. ASSUME NEW f \in Files \union {Compound}, Rename(f) PROVE TypeOK'
  <2>1. fails' \in 0 .. MaxFails
    BY <1>14, BuilderAssumption DEF Rename
  <2>2. disk' \in [Files -> Gens] /\ compound' \in CompoundStates
    BY <1>14, GensType DEF Rename, dirVars, CompoundStates
  <2> QED
    BY <1>14, <2>1, <2>2 DEF Rename, callVars
<1>15. CASE Published
  BY <1>15 DEF Published, callVars, finishVars, dirVars
<1>16. ASSUME NEW f \in Files \union {Compound}, Delete(f) PROVE TypeOK'
  <2>1. fails' \in 0 .. MaxFails
    BY <1>16, BuilderAssumption DEF Delete, dirVars
  <2>2. disk' \in [Files -> Gens] /\ compound' \in CompoundStates
    BY <1>16, GensType DEF Delete, dirVars, CompoundStates
  <2> QED
    BY <1>16, <2>1, <2>2 DEF Delete, callVars
<1>17. ASSUME NEW o \in {"set", "error", "lost"}, Tombstone(o) PROVE TypeOK'
  <2>1. fails' \in 0 .. MaxFails
    BY <1>17, BuilderAssumption DEF Tombstone
  <2> QED
    BY <1>17, <2>1 DEF Tombstone, callVars, CompoundStates
<1>18. CASE Return
  BY <1>18 DEF Return, callVars, finishVars, dirVars
<1>19. CASE Exit \/ Crash
  <2>1. NoWorkers \in [Slots -> WorkerStates]
    BY DEF NoWorkers, WorkerStates
  <2>2. crashes' \in 0 .. MaxCrashes
    BY <1>19, BuilderAssumption DEF Exit, Crash
  <2> QED
    BY <1>19, <2>1, <2>2 DEF Exit, Crash, Stop, dirVars
<1>20. CASE UNCHANGED vars
  BY <1>20 DEF vars, callVars, finishVars, dirVars
<1> QED
  BY <1>1, <1>2, <1>3, <1>4, <1>5, <1>6, <1>7, <1>8, <1>9, <1>10, <1>11, <1>12, <1>13, <1>14, <1>15,
     <1>16, <1>17, <1>18, <1>19, <1>20 DEF Next, Worker, Ending

-----------------------------------------------------------------------------
\* What Flush does to the workers: at most one that was "none" or never there waits now.
LEMMA FlushWorkers ==
  ASSUME TypeOK, NEW docs, NEW cont \in {"adding", "wait"}, Flush(docs, cont)
  PROVE  \/ worker' = worker /\ pc' = cont
         \/ /\ ~buildError
            /\ worker' = [worker EXCEPT ![nextShardNum] = IF opts.par > 1 THEN "throttled" ELSE "inline"]
            /\ pc' = IF cont = "adding" THEN "flushing" ELSE "lastFlush"
  BY DEF Flush

\* The throttle counts the goroutines that build.
LEMMA CountNext ==
  ASSUME NEW w \in [Slots -> WorkerStates], NEW s \in Slots, NEW x \in WorkerStates
  PROVE  LET v == [w EXCEPT ![s] = x] IN
         /\ s \notin InThrottle(w) /\ x \in {"building", "built", "failed"} =>
              Cardinality(InThrottle(v)) = Cardinality(InThrottle(w)) + 1
         /\ s \in InThrottle(w) /\ x \notin {"building", "built", "failed"} =>
              Cardinality(InThrottle(v)) = Cardinality(InThrottle(w)) - 1
         /\ (s \in InThrottle(w) <=> x \in {"building", "built", "failed"}) =>
              InThrottle(v) = InThrottle(w)
<1> DEFINE v == [w EXCEPT ![s] = x]
<1>1. ASSUME s \notin InThrottle(w), x \in {"building", "built", "failed"}
      PROVE  Cardinality(InThrottle(v)) = Cardinality(InThrottle(w)) + 1
  <2>1. InThrottle(v) = InThrottle(w) \union {s}
    BY <1>1 DEF InThrottle
  <2> QED
    BY <1>1, <2>1, InThrottleFinite, FS_AddElement
<1>2. ASSUME s \in InThrottle(w), x \notin {"building", "built", "failed"}
      PROVE  Cardinality(InThrottle(v)) = Cardinality(InThrottle(w)) - 1
  <2>1. InThrottle(v) = InThrottle(w) \ {s}
    BY <1>2 DEF InThrottle
  <2> QED
    BY <1>2, <2>1, InThrottleFinite, FS_RemoveElement
<1>3. ASSUME (s \in InThrottle(w) <=> x \in {"building", "built", "failed"})
      PROVE  InThrottle(v) = InThrottle(w)
  BY <1>3 DEF InThrottle
<1> QED
  BY <1>1, <1>2, <1>3

LEMMA ThrottleNext ==
  ASSUME TypeOK, ThrottleOK, WorkersOK, [Next]_vars
  PROVE  ThrottleOK'
<1>t. worker \in [Slots -> WorkerStates] /\ throttle \in Nat /\ opts.par \in Nat \ {0}
  BY OptionsType DEF TypeOK
<1>0. ASSUME UNCHANGED <<worker, throttle, opts>> PROVE ThrottleOK'
  BY <1>0 DEF ThrottleOK
<1>n. ASSUME worker' = NoWorkers, throttle' = 0, opts' \in Options PROVE ThrottleOK'
  BY <1>n, NoneInThrottle, OptionsType DEF ThrottleOK
<1>m. ASSUME NEW s \in Slots, NEW x \in WorkerStates, worker' = [worker EXCEPT ![s] = x],
             s \in InThrottle(worker) <=> x \in {"building", "built", "failed"},
             UNCHANGED <<throttle, opts>>
      PROVE  ThrottleOK'
  <2>1. InThrottle(worker') = InThrottle(worker)
    BY <1>m, <1>t, CountNext
  <2> QED
    BY <1>m, <2>1 DEF ThrottleOK
<1>f. ASSUME NEW docs, NEW cont \in {"adding", "wait"}, Flush(docs, cont), pc = "adding",
             UNCHANGED <<throttle, opts>>
      PROVE  ThrottleOK'
  <2>1. CASE worker' = worker
    BY <1>f, <1>0, <2>1
  <2>2. CASE worker' # worker
    <3>1. PICK x \in {"throttled", "inline"} : worker' = [worker EXCEPT ![nextShardNum] = x]
      BY <1>f, <2>2, FlushWorkers
    <3>2. nextShardNum \in Slots
      BY <1>t, <2>2, <3>1
    <3>3. worker[nextShardNum] = "none"
      BY <3>2 DEF WorkersOK, TypeOK
    <3> QED
      BY <1>f, <1>m, <3>1, <3>2, <3>3 DEF InThrottle, WorkerStates
  <2> QED
    BY <2>1, <2>2
<1>1. ASSUME NEW o \in Options, NewBuilder(o) PROVE ThrottleOK'
  BY <1>1, <1>n DEF NewBuilder
<1>2. ASSUME NEW sz \in Sizes, Add(sz) PROVE ThrottleOK'
  BY <1>2, <1>0, <1>f DEF Add
<1>3. ASSUME NEW s \in Slots, Throttle(s) PROVE ThrottleOK'
  <2>1. s \notin InThrottle(worker) /\ "building" \in WorkerStates
    BY <1>3 DEF Throttle, InThrottle, WorkerStates
  <2>2. Cardinality(InThrottle(worker')) = Cardinality(InThrottle(worker)) + 1
    BY <1>3, <1>t, <2>1, CountNext DEF Throttle
  <2> QED
    BY <1>3, <1>t, <2>2 DEF Throttle, ThrottleOK, callVars
<1>4. ASSUME NEW s \in Slots, NEW ok \in BOOLEAN, NEW left \in BOOLEAN, BuildShard(s, ok, left) PROVE ThrottleOK'
  <2>1. s \in InThrottle(worker)
    BY <1>4 DEF BuildShard, InThrottle
  <2>2. PICK x \in {"built", "failed"} : worker' = [worker EXCEPT ![s] = x]
    BY <1>4 DEF BuildShard
  <2> QED
    BY <1>4, <1>m, <2>1, <2>2 DEF BuildShard, callVars, WorkerStates
<1>5. ASSUME NEW s \in Slots, Unthrottle(s) PROVE ThrottleOK'
  <2>1. s \in InThrottle(worker)
    BY <1>5 DEF Unthrottle, InThrottle
  <2>2. PICK x \in {"recordDone", "recordError"} : worker' = [worker EXCEPT ![s] = x]
    BY <1>5 DEF Unthrottle
  <2>3. Cardinality(InThrottle(worker')) = Cardinality(InThrottle(worker)) - 1
    BY <1>t, <2>1, <2>2, CountNext DEF WorkerStates
  <2> QED
    BY <1>5, <1>t, <2>3 DEF Unthrottle, ThrottleOK, callVars
<1>6. ASSUME NEW s \in Slots, Record(s) PROVE ThrottleOK'
  <2>1. s \notin InThrottle(worker) /\ "none" \in WorkerStates
    BY <1>6 DEF Record, InThrottle, WorkerStates
  <2>2. worker' = [worker EXCEPT ![s] = "none"] /\ UNCHANGED <<throttle, opts>>
    BY <1>6 DEF Record, callVars
  <2> QED
    BY <1>m, <2>1, <2>2
<1>7. ASSUME NEW s \in Slots, NEW ok \in BOOLEAN, NEW left \in BOOLEAN, BuildInline(s, ok, left) PROVE ThrottleOK'
  <2>1. s \notin InThrottle(worker) /\ "none" \in WorkerStates
    BY <1>7 DEF BuildInline, InThrottle, WorkerStates
  <2>2. worker' = [worker EXCEPT ![s] = "none"] /\ UNCHANGED <<throttle, opts>>
    BY <1>7 DEF BuildInline, callVars
  <2> QED
    BY <1>m, <2>1, <2>2
<1>9. CASE CallFinish
  BY <1>9, <1>f DEF CallFinish, callVars
<1>19. CASE Exit \/ Crash
  BY <1>19, <1>n DEF Exit, Crash, Stop, TypeOK
<1>20. ASSUME \/ \E c \in Callers : InputFails(c)
              \/ CallAbort \/ Abort \/ GiveUp \/ Stage \/ Published \/ Return
              \/ \E k \in Slots : RejectDelta(k)
              \/ \E f \in Files \union {Compound} : Rename(f)
              \/ \E f \in Files \union {Compound} : Delete(f)
              \/ \E o \in {"set", "error", "lost"} : Tombstone(o)
              \/ UNCHANGED vars
       PROVE  ThrottleOK'
  BY <1>20, <1>0 DEF InputFails, CallAbort, Abort, GiveUp, Stage, Published, Return, RejectDelta, Rename,
     Delete, Tombstone, vars, callVars
<1> QED
  BY <1>1, <1>2, <1>3, <1>4, <1>5, <1>6, <1>7, <1>9, <1>19, <1>20 DEF Next, Worker, Ending

LEMMA WorkersNext ==
  ASSUME TypeOK, WorkersOK, [Next]_vars
  PROVE  WorkersOK'
<1>t. worker \in [Slots -> WorkerStates] /\ nextShardNum \in Nat /\ opts.par \in Nat \ {0} /\ Slots \subseteq Nat
  BY OptionsType, SlotsFinite DEF TypeOK
<1>n. ASSUME worker' = NoWorkers PROVE WorkersOK'
  BY <1>n DEF WorkersOK, NoWorkers
<1>0. ASSUME UNCHANGED <<worker, nextShardNum, opts>>, pc' \in Building \/ worker = NoWorkers PROVE WorkersOK'
  BY <1>0 DEF WorkersOK
<1>m. ASSUME NEW s \in Slots, NEW x, worker[s] \notin {"none", "inline"} \/ x = "none", x # "inline",
             worker[s] # "none",
             worker' = [worker EXCEPT ![s] = x], pc' \in Building, UNCHANGED <<nextShardNum, opts>>
      PROVE  WorkersOK'
  <2>1. s < nextShardNum
    BY <1>m, <1>t DEF WorkersOK
  <2>2. opts.par = 1 => x = "none"
    BY <1>m DEF WorkersOK
  <2> QED
    BY <1>m, <1>t, <2>1, <2>2 DEF WorkersOK
<1>b. ASSUME NEW s \in Slots, worker[s] # "none" PROVE pc \in Building
  BY <1>b DEF WorkersOK, NoWorkers
<1>f. ASSUME NEW docs, NEW cont \in {"adding", "wait"}, Flush(docs, cont), pc = "adding", opts' = opts
      PROVE  WorkersOK'
  <2>0. pc' \in Building
    BY <1>f DEF Flush, Building
  <2>1. CASE worker' = worker
    <3>1. nextShardNum' \in {nextShardNum, nextShardNum + 1}
      BY <1>f DEF Flush
    <3> QED
      BY <1>f, <1>t, <2>0, <2>1, <3>1 DEF WorkersOK
  <2>2. CASE worker' # worker
    <3>1. /\ worker' = [worker EXCEPT ![nextShardNum] = IF opts.par > 1 THEN "throttled" ELSE "inline"]
          /\ nextShardNum' = nextShardNum + 1
      BY <1>f, <2>2 DEF Flush
    <3> QED
      BY <1>f, <1>t, <2>0, <3>1 DEF WorkersOK
  <2> QED
    BY <2>1, <2>2
<1>1. ASSUME NEW o \in Options, NewBuilder(o) PROVE WorkersOK'
  BY <1>1, <1>n DEF NewBuilder
<1>2. ASSUME NEW sz \in Sizes, Add(sz) PROVE WorkersOK'
  BY <1>2, <1>0, <1>f DEF Add, Building
<1>3. ASSUME NEW s \in Slots, Throttle(s) PROVE WorkersOK'
  <2>1. pc' \in Building
    BY <1>3 DEF Throttle, After, Building
  <2> QED
    BY <1>3, <1>m, <2>1 DEF Throttle, callVars
<1>4. ASSUME NEW s \in Slots, NEW ok \in BOOLEAN, NEW left \in BOOLEAN, BuildShard(s, ok, left) PROVE WorkersOK'
  <2>1. PICK x \in {"built", "failed"} : worker' = [worker EXCEPT ![s] = x]
    BY <1>4 DEF BuildShard
  <2>2. worker[s] = "building" /\ pc' = pc /\ UNCHANGED <<nextShardNum, opts>>
    BY <1>4 DEF BuildShard, callVars
  <2> QED
    BY <1>m, <1>b, <2>1, <2>2
<1>5. ASSUME NEW s \in Slots, Unthrottle(s) PROVE WorkersOK'
  <2>1. PICK x \in {"recordDone", "recordError"} : worker' = [worker EXCEPT ![s] = x]
    BY <1>5 DEF Unthrottle
  <2>2. worker[s] \in {"built", "failed"} /\ pc' = pc /\ UNCHANGED <<nextShardNum, opts>>
    BY <1>5 DEF Unthrottle, callVars
  <2> QED
    BY <1>m, <1>b, <2>1, <2>2
<1>6. ASSUME NEW s \in Slots, Record(s) PROVE WorkersOK'
  <2>1. /\ worker' = [worker EXCEPT ![s] = "none"] /\ worker[s] \in {"recordDone", "recordError"}
        /\ pc' = pc /\ UNCHANGED <<nextShardNum, opts>>
    BY <1>6 DEF Record, callVars
  <2> QED
    BY <1>m, <1>b, <2>1
<1>7. ASSUME NEW s \in Slots, NEW ok \in BOOLEAN, NEW left \in BOOLEAN, BuildInline(s, ok, left) PROVE WorkersOK'
  <2>1. /\ worker' = [worker EXCEPT ![s] = "none"] /\ worker[s] = "inline"
        /\ pc' \in Building /\ UNCHANGED <<nextShardNum, opts>>
    BY <1>7 DEF BuildInline, callVars, After, Building
  <2> QED
    BY <1>m, <2>1
<1>9. CASE CallFinish
  BY <1>9, <1>f DEF CallFinish, callVars
<1>10. CASE CallAbort \/ \E c \in Callers : InputFails(c)
  BY <1>10, <1>0 DEF CallAbort, InputFails, callVars, Building
<1>19. CASE Exit \/ Crash
  BY <1>19, <1>n DEF Exit, Crash, Stop
<1>20. ASSUME \/ Abort \/ GiveUp \/ Stage
              \/ \E k \in Slots : RejectDelta(k)
       PROVE  WorkersOK'
  BY <1>20, <1>0 DEF Abort, GiveUp, Stage, RejectDelta, AllDone, callVars
<1>21. ASSUME \/ Published \/ Return
              \/ \E f \in Files \union {Compound} : Rename(f)
              \/ \E f \in Files \union {Compound} : Delete(f)
              \/ \E o \in {"set", "error", "lost"} : Tombstone(o)
       PROVE  WorkersOK'
  <2>1. pc \in {"publish", "delete"} /\ UNCHANGED <<worker, nextShardNum, opts>>
    BY <1>21 DEF Published, Return, Rename, Delete, Tombstone, callVars
  <2> QED
    BY <2>1, <1>0 DEF WorkersOK, Building
<1>22. CASE UNCHANGED vars
  BY <1>22, <1>0 DEF vars, callVars, WorkersOK
<1> QED
  BY <1>1, <1>2, <1>3, <1>4, <1>5, <1>6, <1>7, <1>9, <1>10, <1>19, <1>20, <1>21, <1>22 DEF Next, Worker, Ending

LEMMA FlushingNext ==
  ASSUME TypeOK, WorkersOK, FlushingOK, [Next]_vars
  PROVE  FlushingOK'
<1>t. worker \in [Slots -> WorkerStates]
  BY DEF TypeOK
<1>n. ASSUME worker' = NoWorkers PROVE FlushingOK'
  BY <1>n DEF FlushingOK, NoWorkers, Waiting
<1>m. ASSUME NEW s \in Slots, NEW x, x \notin Waiting, worker' = [worker EXCEPT ![s] = x],
             worker[s] \in Waiting \/ pc' = pc
      PROVE  FlushingOK'
  BY <1>m, <1>t DEF FlushingOK
<1>f. ASSUME NEW docs, NEW cont \in {"adding", "wait"}, Flush(docs, cont), pc = "adding"
      PROVE  FlushingOK'
  <2>1. \A s \in Slots : worker[s] \notin Waiting
    BY <1>f DEF FlushingOK
  <2>2. CASE worker' = worker
    BY <2>1, <2>2 DEF FlushingOK
  <2>3. CASE worker' # worker
    <3>1. /\ worker' = [worker EXCEPT ![nextShardNum] = IF opts.par > 1 THEN "throttled" ELSE "inline"]
          /\ pc' \in {"flushing", "lastFlush"}
      BY <1>f, <2>3, FlushWorkers
    <3> QED
      BY <1>t, <2>1, <3>1 DEF FlushingOK
  <2> QED
    BY <2>2, <2>3
<1>0. ASSUME worker' = worker, pc' = pc \/ pc \notin {"flushing", "lastFlush"} PROVE FlushingOK'
  BY <1>0 DEF FlushingOK
<1>1. ASSUME NEW o \in Options, NewBuilder(o) PROVE FlushingOK'
  BY <1>1, <1>n DEF NewBuilder
<1>2. ASSUME NEW sz \in Sizes, Add(sz) PROVE FlushingOK'
  BY <1>2, <1>0, <1>f DEF Add
<1>3. ASSUME NEW s \in Slots, Throttle(s) PROVE FlushingOK'
  BY <1>3, <1>m DEF Throttle, Waiting
<1>4. ASSUME NEW s \in Slots, NEW ok \in BOOLEAN, NEW left \in BOOLEAN, BuildShard(s, ok, left) PROVE FlushingOK'
  <2>1. PICK x \in {"built", "failed"} : worker' = [worker EXCEPT ![s] = x]
    BY <1>4 DEF BuildShard
  <2> QED
    BY <1>4, <1>m, <2>1 DEF BuildShard, Waiting
<1>5. ASSUME NEW s \in Slots, Unthrottle(s) PROVE FlushingOK'
  <2>1. PICK x \in {"recordDone", "recordError"} : worker' = [worker EXCEPT ![s] = x]
    BY <1>5 DEF Unthrottle
  <2> QED
    BY <1>5, <1>m, <2>1 DEF Unthrottle, Waiting
<1>6. ASSUME NEW s \in Slots, Record(s) PROVE FlushingOK'
  <2>1. worker' = [worker EXCEPT ![s] = "none"] /\ pc' = pc
    BY <1>6 DEF Record
  <2> QED
    BY <1>m, <2>1 DEF Waiting
<1>7. ASSUME NEW s \in Slots, NEW ok \in BOOLEAN, NEW left \in BOOLEAN, BuildInline(s, ok, left) PROVE FlushingOK'
  <2>1. worker' = [worker EXCEPT ![s] = "none"] /\ worker[s] = "inline"
    BY <1>7 DEF BuildInline
  <2> QED
    BY <1>m, <2>1 DEF Waiting
<1>9. CASE CallFinish
  BY <1>9, <1>f DEF CallFinish
<1>19. CASE Exit \/ Crash
  BY <1>19, <1>n DEF Exit, Crash, Stop
<1>20. ASSUME \/ CallAbort \/ Abort \/ GiveUp \/ Stage \/ Published \/ Return
              \/ \E c \in Callers : InputFails(c)
              \/ \E k \in Slots : RejectDelta(k)
              \/ \E f \in Files \union {Compound} : Rename(f)
              \/ \E f \in Files \union {Compound} : Delete(f)
              \/ \E o \in {"set", "error", "lost"} : Tombstone(o)
              \/ UNCHANGED vars
       PROVE  FlushingOK'
  BY <1>20, <1>0 DEF CallAbort, Abort, GiveUp, Stage, Published, Return, InputFails, RejectDelta, Rename,
     Delete, Tombstone, vars
<1> QED
  BY <1>1, <1>2, <1>3, <1>4, <1>5, <1>6, <1>7, <1>9, <1>19, <1>20 DEF Next, Worker, Ending

LEMMA BadNext ==
  ASSUME TypeOK, WorkersOK, FlushingOK, BadKnown, [Next]_vars
  PROVE  BadKnown'
<1>t. worker \in [Slots -> WorkerStates] /\ opts.par \in Nat \ {0} /\ nextShardNum \in Nat
  BY OptionsType DEF TypeOK
<1>0. ASSUME UNCHANGED <<worker, bad, buildError>>, pc' = pc \/ (pc \in Building /\ pc' \in Building)
      PROVE  BadKnown'
  BY <1>0 DEF BadKnown, Building
<1>f. ASSUME NEW docs, NEW cont \in {"adding", "wait"}, Flush(docs, cont), pc = "adding",
             UNCHANGED <<bad, buildError>>
      PROVE  BadKnown'
  <2>0. pc' \in Building
    BY <1>f DEF Flush, Building
  <2>1. CASE worker' = worker
    BY <1>f, <1>0, <2>0, <2>1 DEF Building
  <2>2. CASE worker' # worker
    <3>1. /\ ~buildError
          /\ worker' = [worker EXCEPT ![nextShardNum] = IF opts.par > 1 THEN "throttled" ELSE "inline"]
      BY <1>f, <2>2, FlushWorkers
    <3>2. nextShardNum \in Slots /\ worker[nextShardNum] = "none"
      BY <1>t, <2>2, <3>1 DEF WorkersOK
    <3>3. bad # {} => \E t \in Slots : worker[t] \in {"failed", "recordError"}
      BY <1>f, <3>1 DEF BadKnown, Building
    <3>4. bad # {} => \E t \in Slots : worker'[t] \in {"failed", "recordError"}
      BY <1>t, <3>1, <3>2, <3>3
    <3>5. opts.par = 1 => bad = {}
      BY <3>3 DEF WorkersOK
    <3>6. (\E s \in Slots : worker'[s] = "inline") => bad = {}
      BY <1>t, <3>1, <3>5 DEF BadKnown
    <3> QED
      BY <1>f, <2>0, <3>4, <3>6 DEF BadKnown, Building
  <2> QED
    BY <2>1, <2>2
<1>b. ASSUME NEW s \in Slots, worker[s] # "none" PROVE pc \in Building
  BY <1>b DEF WorkersOK, NoWorkers
<1>1. ASSUME NEW o \in Options, NewBuilder(o) PROVE BadKnown'
  BY <1>1 DEF NewBuilder, BadKnown
<1>2. ASSUME NEW sz \in Sizes, Add(sz) PROVE BadKnown'
  BY <1>2, <1>0, <1>f DEF Add
<1>3. ASSUME NEW s \in Slots, Throttle(s) PROVE BadKnown'
  <2>1. /\ worker' = [worker EXCEPT ![s] = "building"] /\ worker[s] = "throttled"
        /\ pc' \in Building /\ UNCHANGED <<bad, buildError>>
    BY <1>3 DEF Throttle, After, Building
  <2> QED
    BY <1>b, <1>t, <2>1 DEF BadKnown, Building
<1>4. ASSUME NEW s \in Slots, NEW ok \in BOOLEAN, NEW left \in BOOLEAN, BuildShard(s, ok, left) PROVE BadKnown'
  <2>1. worker[s] = "building" /\ UNCHANGED <<buildError, pc>> /\ pc \in Building
    BY <1>4, <1>b DEF BuildShard
  <2>2. CASE ok
    <3>1. bad' = bad /\ worker' = [worker EXCEPT ![s] = "built"]
      BY <1>4, <2>2 DEF BuildShard
    <3> QED
      BY <1>t, <2>1, <3>1 DEF BadKnown, Building
  <2>3. CASE ~ok
    <3>1. worker' = [worker EXCEPT ![s] = "failed"]
      BY <1>4, <2>3 DEF BuildShard
    <3>2. opts.par # 1
      BY <2>1 DEF WorkersOK
    <3>3. \A t \in Slots : worker'[t] # "inline"
      BY <1>t, <3>1, <3>2 DEF WorkersOK
    <3>4. worker'[s] = "failed"
      BY <1>t, <3>1
    <3> QED
      BY <2>1, <3>3, <3>4 DEF BadKnown, Building
  <2> QED
    BY <2>2, <2>3
<1>5. ASSUME NEW s \in Slots, Unthrottle(s) PROVE BadKnown'
  <2>1. worker[s] \in {"built", "failed"} /\ UNCHANGED <<buildError, pc, bad>> /\ pc \in Building
    BY <1>5, <1>b DEF Unthrottle
  <2>2. worker' = [worker EXCEPT ![s] = IF worker[s] = "built" THEN "recordDone" ELSE "recordError"]
    BY <1>5 DEF Unthrottle
  <2>3. CASE worker[s] = "built"
    BY <1>t, <2>1, <2>2, <2>3 DEF BadKnown, Building
  <2>4. CASE worker[s] = "failed"
    BY <1>t, <2>1, <2>2, <2>4 DEF BadKnown, Building
  <2> QED
    BY <2>1, <2>3, <2>4
<1>6. ASSUME NEW s \in Slots, Record(s) PROVE BadKnown'
  <2>1. /\ worker' = [worker EXCEPT ![s] = "none"] /\ worker[s] \in {"recordDone", "recordError"}
        /\ UNCHANGED <<pc, bad>> /\ pc \in Building
    BY <1>6, <1>b DEF Record
  <2>2. CASE worker[s] = "recordDone"
    <3>1. buildError' = buildError
      BY <1>6, <2>2 DEF Record
    <3> QED
      BY <1>t, <2>1, <2>2, <3>1 DEF BadKnown, Building
  <2>3. CASE worker[s] = "recordError"
    <3>1. buildError' = TRUE
      BY <1>6, <2>3 DEF Record
    <3> QED
      BY <1>t, <2>1, <2>3, <3>1 DEF BadKnown, Building
  <2> QED
    BY <2>1, <2>2, <2>3
<1>7. ASSUME NEW s \in Slots, NEW ok \in BOOLEAN, NEW left \in BOOLEAN, BuildInline(s, ok, left) PROVE BadKnown'
  <2>1. /\ worker' = [worker EXCEPT ![s] = "none"] /\ worker[s] = "inline" /\ pc' \in Building
    BY <1>7 DEF BuildInline, After, Building
  <2>2. bad = {}
    BY <2>1 DEF BadKnown
  <2>3. \A t \in Slots : worker'[t] # "inline"
    BY <1>t, <2>1 DEF FlushingOK, Waiting
  <2>4. bad' # {} => buildError'
    BY <1>7, <2>2 DEF BuildInline
  <2> QED
    BY <2>1, <2>3, <2>4 DEF BadKnown, Building
<1>9. CASE CallFinish
  BY <1>9, <1>f DEF CallFinish
<1>10. CASE CallAbort \/ \E c \in Callers : InputFails(c)
  BY <1>10, <1>0 DEF CallAbort, InputFails, Building
<1>11. CASE Abort \/ GiveUp \/ \E k \in Slots : RejectDelta(k)
  <2>1. pc' = "returned" /\ worker' = NoWorkers
    BY <1>11 DEF Abort, GiveUp, RejectDelta, AllDone
  <2> QED
    BY <2>1 DEF BadKnown, Building, NoWorkers
<1>12. CASE Stage
  <2>1. bad = {}
    BY <1>12 DEF Stage, BadKnown, AllDone, NoWorkers, Building
  <2> QED
    BY <1>12, <2>1 DEF Stage, BadKnown
<1>13. ASSUME \/ Published \/ Return
              \/ \E f \in Files \union {Compound} : Rename(f)
              \/ \E f \in Files \union {Compound} : Delete(f)
              \/ \E o \in {"set", "error", "lost"} : Tombstone(o)
       PROVE  BadKnown'
  <2>1. pc \in {"publish", "delete"} /\ bad' = bad
    BY <1>13 DEF Published, Return, Rename, Delete, Tombstone
  <2> QED
    BY <2>1 DEF BadKnown
<1>19. CASE Exit \/ Crash
  <2>1. pc' = "idle" /\ worker' = NoWorkers
    BY <1>19 DEF Exit, Crash, Stop
  <2> QED
    BY <2>1 DEF BadKnown, Building, NoWorkers
<1>20. CASE UNCHANGED vars
  BY <1>20, <1>0 DEF vars
<1> QED
  BY <1>1, <1>2, <1>3, <1>4, <1>5, <1>6, <1>7, <1>9, <1>10, <1>11, <1>12, <1>13, <1>19, <1>20 DEF Next, Worker, Ending

LEMMA CallerNext ==
  ASSUME TypeOK, FlushingOK, CallerOK, [Next]_vars
  PROVE  CallerOK'
<1>0. ASSUME UNCHANGED <<pc, onError, result>> PROVE CallerOK'
  BY <1>0 DEF CallerOK
<1>1. ASSUME NEW o \in Options, NewBuilder(o) PROVE CallerOK'
  BY <1>1 DEF NewBuilder, CallerOK
<1>2. ASSUME NEW sz \in Sizes, Add(sz) PROVE CallerOK'
  <2>1. pc = "adding" /\ pc' \in {"adding", "flushing"} /\ result' = result
    BY <1>2 DEF Add, Flush
  <2> QED
    BY <2>1 DEF CallerOK
<1>w. ASSUME NEW s \in Slots, worker[s] \in Waiting, pc' = After, UNCHANGED <<onError, result>> PROVE CallerOK'
  <2>1. pc \in {"flushing", "lastFlush"}
    BY <1>w DEF FlushingOK
  <2> QED
    BY <1>w, <2>1 DEF CallerOK, After
<1>3. ASSUME NEW s \in Slots, Throttle(s) PROVE CallerOK'
  BY <1>3, <1>w DEF Throttle, Waiting
<1>4. ASSUME NEW s \in Slots, NEW ok \in BOOLEAN, NEW left \in BOOLEAN, BuildInline(s, ok, left) PROVE CallerOK'
  BY <1>4, <1>w DEF BuildInline, Waiting
<1>12. ASSUME NEW s \in Slots, Unthrottle(s) PROVE CallerOK'
  BY <1>12, <1>0 DEF Unthrottle
<1>13. ASSUME NEW s \in Slots, Record(s) PROVE CallerOK'
  BY <1>13, <1>0 DEF Record
<1>14. ASSUME NEW s \in Slots, NEW ok \in BOOLEAN, NEW left \in BOOLEAN, BuildShard(s, ok, left) PROVE CallerOK'
  BY <1>14, <1>0 DEF BuildShard
<1>15. ASSUME \/ \E f \in Files \union {Compound} : Rename(f)
              \/ \E f \in Files \union {Compound} : Delete(f)
              \/ \E o \in {"set", "error", "lost"} : Tombstone(o)
              \/ UNCHANGED vars
       PROVE  CallerOK'
  BY <1>15, <1>0 DEF Rename, Delete, Tombstone, vars
<1>5. ASSUME NEW c \in Callers, InputFails(c) PROVE CallerOK'
  BY <1>5 DEF InputFails, CallerOK
<1>6. CASE CallFinish
  <2>1. pc = "adding" /\ onError' \in {"none", "finish"} /\ result' = result
    BY <1>6 DEF CallFinish
  <2> QED
    BY <2>1 DEF CallerOK
<1>7. CASE CallAbort
  BY <1>7 DEF CallAbort, CallerOK
<1>8. CASE Abort \/ GiveUp \/ Return \/ \E k \in Slots : RejectDelta(k)
  BY <1>8 DEF Abort, GiveUp, Return, RejectDelta, CallerOK
<1>9. CASE Stage
  BY <1>9 DEF Stage, CallerOK
<1>10. CASE Published
  BY <1>10 DEF Published, CallerOK
<1>11. CASE Exit \/ Crash
  BY <1>11 DEF Exit, Crash, Stop, CallerOK
<1> QED
  BY <1>1, <1>2, <1>3, <1>4, <1>5, <1>6, <1>7, <1>8, <1>9, <1>10, <1>11,
     <1>12, <1>13, <1>14, <1>15 DEF Next, Worker, Ending

LEMMA UntouchedNext ==
  ASSUME TypeOK, WorkersOK, FlushingOK, BadKnown, CallerOK, UntouchedUnlessWhole, [Next]_vars
  PROVE  UntouchedUnlessWhole'
\* A step that leaves the directory alone and gives no new reason for it to be as it was.
<1>0. ASSUME UNCHANGED <<disk, compound, before>>,
             pc \in Building \/ (UNCHANGED <<bad, onError>> /\ pc' \notin Building
                                 /\ (result' = "aborted" => result = "aborted"))
      PROVE  UntouchedUnlessWhole'
  BY <1>0 DEF UntouchedUnlessWhole, Untouched
<1>1. ASSUME NEW o \in Options, NewBuilder(o) PROVE UntouchedUnlessWhole'
  <2>1. UNCHANGED <<disk, compound>> /\ before'.disk = disk /\ before'.compound = compound
    BY <1>1 DEF NewBuilder, dirVars
  <2> QED
    BY <2>1 DEF UntouchedUnlessWhole, Untouched
\* Finish moves and removes files only when nothing asks it not to.
<1>2. ASSUME pc \in {"publish", "delete"}, UNCHANGED <<pc, bad, onError, result>>
      PROVE  UntouchedUnlessWhole'
  BY <1>2 DEF UntouchedUnlessWhole, BadKnown, CallerOK, Building
<1>3. ASSUME \/ \E f \in Files \union {Compound} : Rename(f)
             \/ \E f \in Files \union {Compound} : Delete(f)
             \/ \E o \in {"set", "error", "lost"} : Tombstone(o)
      PROVE  UntouchedUnlessWhole'
  BY <1>3, <1>2 DEF Rename, Delete, Tombstone
<1>4. ASSUME NEW s \in Slots, Worker(s) PROVE UntouchedUnlessWhole'
  <2>1. UNCHANGED <<disk, compound, before>> /\ worker[s] # "none"
    BY <1>4 DEF Worker, Throttle, BuildShard, Unthrottle, Record, BuildInline, callVars, dirVars
  <2>2. pc \in Building
    BY <2>1 DEF WorkersOK, NoWorkers
  <2> QED
    BY <1>0, <2>1, <2>2
<1>5. ASSUME \/ \E sz \in Sizes : Add(sz)
             \/ \E c \in Callers : InputFails(c)
             \/ CallFinish \/ CallAbort \/ Abort \/ GiveUp \/ Stage
             \/ \E k \in Slots : RejectDelta(k)
      PROVE  UntouchedUnlessWhole'
  <2>1. UNCHANGED <<disk, compound, before>> /\ pc \in Building
    BY <1>5 DEF Add, InputFails, CallFinish, CallAbort, Abort, GiveUp, Stage, RejectDelta, callVars, dirVars, Building
  <2> QED
    BY <1>0, <2>1
<1>6. CASE Published \/ Return
  <2>1. /\ UNCHANGED <<disk, compound, before, bad, onError>> /\ pc' \in {"delete", "returned"}
        /\ (result' = "aborted" => result = "aborted")
    BY <1>6 DEF Published, Return, callVars, dirVars
  <2> QED
    BY <1>0, <2>1 DEF Building
<1>7. CASE Exit \/ Crash
  <2>1. /\ UNCHANGED <<disk, compound, before, bad, onError>> /\ pc' = "idle" /\ result' # "aborted"
    BY <1>7 DEF Exit, Crash, Stop, dirVars
  <2> QED
    BY <1>0, <2>1 DEF Building
<1>8. CASE UNCHANGED vars
  BY <1>8 DEF vars, callVars, dirVars, UntouchedUnlessWhole, Untouched
<1> QED
  BY <1>1, <1>3, <1>4, <1>5, <1>6, <1>7, <1>8 DEF Next, Ending

-----------------------------------------------------------------------------
\* A set of shard numbers that are not all taken has a least one.
LEMMA LeastMissing ==
  ASSUME NEW T \in SUBSET Nat, T # {}
  PROVE  \E n \in T : \A m \in T : n <= m
<1>1. PICK n \in T : \A m \in T : <<m, n>> \notin OpToRel(<, Nat)
  BY NatLessThanWellFounded, WFMin
<1>2. \A m \in T : ~(m < n)
  BY <1>1 DEF OpToRel
<1>3. n \in Nat /\ \A m \in T : m \in Nat
  OBVIOUS
<1> QED
  BY <1>2, <1>3

\* FindAllShards returns the shards below a number, which is how many there are.
LEMMA FoundInterval ==
  ASSUME NEW d
  PROVE  /\ Cardinality(Found(d)) \in Nat
         /\ Found(d) = {s \in Slots : s < Cardinality(Found(d))}
<1> DEFINE M == MaxOld + MaxDocs
           F == Found(d)
<1>0. M \in Nat /\ Slots = 0 .. M /\ F \subseteq Slots /\ F \subseteq Nat
  BY SlotsFinite, BuilderAssumption DEF Slots, Found
<1>1. \A s \in F : \A t \in Slots : t < s => t \in F
  <2> SUFFICES ASSUME NEW s \in F, NEW t \in Slots, t < s PROVE t \in F
    OBVIOUS
  <2>1. s \in Nat /\ t \in Nat /\ 0 .. t \subseteq 0 .. s
    BY <1>0
  <2> QED
    BY <2>1 DEF Found
<1>2. CASE Slots \ F = {}
  <2>1. F = 0 .. M
    BY <1>0, <1>2
  <2>2. Cardinality(F) = M + 1
    BY <1>0, <2>1, FS_Interval
  <2> HIDE DEF M, F
  <2>3. F = {s \in Slots : s < M + 1}
    BY <1>0, <2>1
  <2> QED
    BY <1>0, <2>2, <2>3 DEF F
<1>3. CASE Slots \ F # {}
  <2>1. Slots \ F \in SUBSET Nat
    BY <1>0
  <2>2. PICK n \in Slots \ F : \A m \in Slots \ F : n <= m
    BY <1>3, <2>1, LeastMissing
  <2> HIDE DEF M, F
  <2>3. n \in Nat /\ n <= M
    BY <1>0
  <2>4. F = 0 .. n - 1
    <3>1. ASSUME NEW s \in F PROVE s \in 0 .. n - 1
      <4>1. s \in Nat /\ s # n /\ ~(n < s)
        BY <1>0, <1>1, <2>2
      <4> QED
        BY <2>3, <4>1
    <3>2. ASSUME NEW s \in 0 .. n - 1 PROVE s \in F
      <4>1. s \in Slots /\ ~(n <= s)
        BY <1>0, <2>3
      <4> QED
        BY <2>2, <4>1
    <3> QED
      BY <3>1, <3>2
  <2>5. Cardinality(F) = n
    BY <2>3, <2>4, FS_Interval
  <2>6. F = {s \in Slots : s < n}
    BY <1>0, <2>3, <2>4
  <2> QED
    BY <2>3, <2>5, <2>6 DEF F
<1> QED
  BY <1>2, <1>3


\* The numbers of a build are natural numbers, and do not change with what it does later.
LEMMA StartType ==
  /\ CountBefore \in Nat /\ Start \in Nat
  /\ UNCHANGED <<before, opts>> => Start' = Start /\ CountBefore' = CountBefore
  /\ UNCHANGED <<before, opts, nextShardNum>> => Made' = Made
  BY FoundInterval DEF Start, CountBefore, Made

\* Files of different shards, and a shard and its .meta, are different files.
LEMMA FilesDiffer ==
  /\ \A s, t : (Shard(s) = Shard(t) => s = t) /\ (Meta(s) = Meta(t) => s = t) /\ Shard(s) # Meta(t)
  /\ \A s \in Slots : Shard(s)[2] = s /\ Meta(s)[2] = s
  /\ \A f \in Files : \E s \in Slots : f = Shard(s) \/ f = Meta(s)
<1>1. "shard" # "meta"
  OBVIOUS
<1>2. ASSUME NEW f \in Files PROVE \E s \in Slots : f = Shard(s) \/ f = Meta(s)
  BY DEF Files, Shard, Meta
<1> QED
  BY <1>1, <1>2 DEF Shard, Meta

\* When flush makes a shard there is a number left for it: in Add there is one more
\* document than before, and in Finish a document is left over or no shard was made.
LEMMA NewSlot ==
  ASSUME TypeOK, NumbersOK, added < MaxDocs \/ todo # {} \/ nextShardNum = 0
  PROVE  nextShardNum \in Slots
<1>1. MaxOld \in Nat /\ MaxDocs \in Nat /\ added \in Nat /\ added <= MaxDocs /\ nextShardNum \in Nat
  BY BuilderAssumption DEF TypeOK
<1>2. nextShardNum <= MaxOld + 1 + added /\ (todo # {} => nextShardNum <= MaxOld + added)
  BY DEF NumbersOK
<1>3. nextShardNum <= MaxOld + MaxDocs
  BY <1>1, <1>2
<1> QED
  BY <1>1, <1>3 DEF Slots

\* What flush does to the numbers, given that the documents it is called with are counted.
LEMMA FlushNumbers ==
  ASSUME TypeOK, NumbersOK, WorkersOK, NEW docs, NEW cont \in {"adding", "wait"}, Flush(docs, cont),
         pc = "adding", UNCHANGED <<before, opts, disk, finished, artifacts>>,
         (docs # {} /\ added < MaxDocs /\ added' = added + 1) \/ (docs = todo /\ added' = added)
  PROVE  NumbersOK'
<1>1. MaxOld \in Nat /\ MaxDocs \in Nat /\ added \in Nat /\ added <= MaxDocs /\ nextShardNum \in Nat
      /\ before.added \in Nat /\ added' \in Nat
  BY BuilderAssumption DEF TypeOK
<1>2. nextShardNum <= MaxOld + 1 + added /\ (todo # {} => nextShardNum <= MaxOld + added) /\ Start <= nextShardNum
      /\ before.added <= added
  BY DEF NumbersOK
<1>3. todo' = {} /\ pc' \in {"flushing", "lastFlush", cont}
  BY DEF Flush
<1>4. Start' = Start /\ Start \in Nat
  BY StartType
<1>a. PICK a \in Nat : a = added'
  BY <1>1
<1>b. nextShardNum' \in Nat
  BY <1>1 DEF Flush
<1>c. PICK k \in Nat : k = nextShardNum'
  BY <1>b
<1>d. added <= a /\ (docs # {} => added + 1 = a \/ (a = added /\ todo # {})) /\ (docs = {} => a = added)
  BY <1>1, <1>a
<1>5. k <= MaxOld + 1 + a /\ nextShardNum <= k
  <2>1. CASE k = nextShardNum
    BY <1>1, <1>2, <1>d, <2>1
  <2>2. CASE k # nextShardNum
    <3>1. k = nextShardNum + 1 /\ ~(docs = {} /\ nextShardNum > 0)
      BY <1>c, <2>2 DEF Flush
    <3> QED
      BY <1>1, <1>2, <1>d, <3>1
  <2> QED
    BY <2>1, <2>2
<1>6. Made \subseteq Made'
  <2>1. \A s \in Nat : s < nextShardNum => s < k
    BY <1>1, <1>5
  <2> QED
    BY <1>4, <1>c, <2>1, SlotsFinite DEF Made
<1>7. \A s \in Slots : worker'[s] # "none" => s \in Made'
  <2>1. CASE worker' = worker
    BY <1>6, <2>1 DEF NumbersOK
  <2>2. CASE worker' # worker
    <3>1. /\ worker' = [worker EXCEPT ![nextShardNum] = IF opts.par > 1 THEN "throttled" ELSE "inline"]
          /\ nextShardNum' = nextShardNum + 1
      BY <2>2 DEF Flush
    <3>2. nextShardNum \in Slots => nextShardNum \in Made'
      BY <1>1, <1>2, <1>4, <3>1 DEF Made
    <3> QED
      BY <1>6, <3>1, <3>2 DEF NumbersOK, TypeOK
  <2> QED
    BY <2>1, <2>2
<1>8. Start <= k
  BY <1>1, <1>2, <1>4, <1>5
<1>9. \A s \in Slots : disk'[Shard(s)] # Absent => s <= MaxOld + a
  <2>1. \A s \in Slots : disk[Shard(s)] # Absent => s <= MaxOld + added
    BY DEF NumbersOK
  <2> QED
    BY <1>1, <1>d, <2>1, SlotsFinite
<1>10. before.added <= a
  BY <1>1, <1>2, <1>d
<1>11. finished' \subseteq Made' /\ artifacts' \subseteq {Shard(s) : s \in Made'} \union {Meta(s) : s \in Slots} \union {Compound}
  BY <1>6 DEF NumbersOK
<1> QED
  BY <1>3, <1>4, <1>5, <1>7, <1>8, <1>9, <1>10, <1>11, <1>a, <1>c DEF NumbersOK

\* A step that gives no number, moves nothing into place and counts no document.
LEMMA FrameNumbers ==
  ASSUME NumbersOK, UNCHANGED <<before, opts, nextShardNum, added>>, todo' = todo \/ todo' = {},
         TypeOK, pc # "idle" \/ pc' = pc \/ pc' = "idle",
         \A s \in Slots : disk'[Shard(s)] # Absent => disk[Shard(s)] # Absent \/ s \in Made,
         finished' \subseteq Made, \A s \in Slots : worker'[s] # "none" => s \in Made,
         artifacts' \subseteq {Shard(s) : s \in Made} \union {Meta(s) : s \in Slots} \union {Compound}
  PROVE  NumbersOK'
<1>1. MaxOld \in Nat /\ added \in Nat /\ nextShardNum \in Nat
  BY BuilderAssumption DEF TypeOK
<1>2. nextShardNum <= MaxOld + 1 + added /\ (todo # {} => nextShardNum <= MaxOld + added)
  BY DEF NumbersOK
<1>3. nextShardNum <= MaxOld + 1 + added
  BY <1>1, <1>2
<1>4. \A s \in Made : s <= MaxOld + added
  BY <1>1, <1>3, SlotsFinite DEF Made
<1>5. nextShardNum' <= MaxOld + 1 + added' /\ (todo' # {} => nextShardNum' <= MaxOld + added')
  BY <1>1, <1>2, <1>3
<1>6. \A s \in Slots : disk'[Shard(s)] # Absent => s <= MaxOld + added'
  BY <1>4 DEF NumbersOK
<1>7. Made' = Made /\ Start' = Start
  BY StartType
<1>8. pc' # "idle" => Start' <= nextShardNum'
  BY <1>7 DEF NumbersOK
<1> QED
  BY <1>5, <1>6, <1>7, <1>8 DEF NumbersOK


\* Stage renames the finished shards, and metadata of old ones.
LEMMA StageFiles ==
  ASSUME Stage
  PROVE  /\ artifacts' = {Shard(s) : s \in finished}
                         \union (IF opts.delta THEN {Meta(s) : s \in Found(disk)} ELSE {})
                         \union (IF opts.delta /\ Found(disk) = {} /\ Live(compound) THEN {Compound} ELSE {})
         /\ toDelete' = IF opts.delta THEN {} ELSE OldFiles
<1>1. OldFiles = {Compound} <=> Found(disk) = {} /\ Live(compound)
  <2>1. Found(disk) # {} => OldFiles \subseteq Files
    BY DEF OldFiles
  <2> QED
    BY <2>1, CompoundNoFile DEF OldFiles
<1>2. NewMetas = (IF opts.delta THEN {Meta(s) : s \in Found(disk)} ELSE {})
                 \union (IF opts.delta /\ Found(disk) = {} /\ Live(compound) THEN {Compound} ELSE {})
  BY <1>1 DEF NewMetas
<1> QED
  BY <1>2 DEF Stage

\* Every shard gets a number of its own, of which there are enough.
LEMMA NumbersNext ==
  ASSUME TypeOK, WorkersOK, NumbersOK, [Next]_vars
  PROVE  NumbersOK'
<1>t. /\ MaxOld \in Nat /\ MaxDocs \in Nat /\ added \in Nat /\ added <= MaxDocs /\ nextShardNum \in Nat
      /\ worker \in [Slots -> WorkerStates] /\ before.added \in Nat
  BY BuilderAssumption DEF TypeOK
<1>i. /\ finished \subseteq Made /\ \A s \in Slots : worker[s] # "none" => s \in Made
      /\ artifacts \subseteq {Shard(s) : s \in Made} \union {Meta(s) : s \in Slots} \union {Compound}
  BY DEF NumbersOK
\* Steps of the goroutines and of BuildInline.
<1>w. ASSUME NEW s \in Slots, worker[s] # "none", NEW x, worker' = [worker EXCEPT ![s] = x],
             finished' \subseteq finished \union {s},
             UNCHANGED <<before, opts, nextShardNum, added, todo, disk, artifacts>>
      PROVE  NumbersOK'
  <2>1. pc # "idle"
    BY <1>w DEF WorkersOK, NoWorkers, Building
  <2>2. s \in Made
    BY <1>w, <1>i
  <2>3. \A r \in Slots : worker'[r] # "none" => r \in Made
    BY <1>w, <1>t, <1>i, <2>2
  <2>4. finished' \subseteq Made
    BY <1>w, <1>i, <2>2
  <2> QED
    BY <1>w, <1>i, <2>1, <2>3, <2>4, FrameNumbers
<1>1. ASSUME NEW o \in Options, NewBuilder(o) PROVE NumbersOK'
  <2>1. /\ before' = [added |-> added, disk |-> disk, compound |-> compound] /\ opts' = o
        /\ nextShardNum' = IF o.delta THEN CountOld ELSE 0
        /\ todo' = {} /\ worker' = NoWorkers /\ finished' = {} /\ artifacts' = {} /\ UNCHANGED <<added, disk>>
    BY <1>1 DEF NewBuilder, dirVars
  <2>2. CountBefore' = CountOld
    BY <2>1 DEF CountBefore, CountOld
  <2>3. Start' = nextShardNum'
    BY <2>1, <2>2 DEF Start
  <2>4. CountOld <= MaxOld + 1 + added /\ CountOld \in Nat
    <3>1. \A s \in Found(disk) : s \in 0 .. MaxOld + added
      <4>1. ASSUME NEW s \in Found(disk) PROVE s \in Nat /\ disk[Shard(s)] # Absent /\ s \in Slots
        <5>1. s \in Slots /\ s \in Nat
          BY SlotsFinite DEF Found
        <5>2. s \in 0 .. s
          BY <5>1
        <5> QED
          BY <5>1, <5>2 DEF Found
      <4> QED
        BY <1>t, <4>1 DEF NumbersOK
    <3>2. IsFiniteSet(0 .. MaxOld + added) /\ Cardinality(0 .. MaxOld + added) = MaxOld + added + 1
      BY <1>t, FS_Interval
    <3>3. Cardinality(Found(disk)) <= MaxOld + added + 1
      BY <3>1, <3>2, FS_Subset
    <3>4. Cardinality(Found(disk)) \in Nat
      BY FoundInterval
    <3>5. CASE Found(disk) # {}
      BY <1>t, <3>3, <3>4, <3>5 DEF CountOld
    <3>6. CASE Found(disk) = {}
      BY <1>t, <3>6 DEF CountOld
    <3> QED
      BY <3>5, <3>6
  <2>5. nextShardNum' <= MaxOld + 1 + added'
    BY <1>t, <2>1, <2>4
  <2>6. nextShardNum' \in Nat
    BY <2>1, <2>4
  <2>7. \A s \in Slots : worker'[s] = "none"
    BY <2>1 DEF NoWorkers
  <2>8. before'.added <= added'
    BY <1>t, <2>1
  <2>9. \A s \in Slots : disk'[Shard(s)] # Absent => s <= MaxOld + added'
    BY <2>1 DEF NumbersOK
  <2> QED
    BY <2>1, <2>3, <2>5, <2>6, <2>7, <2>8, <2>9 DEF NumbersOK
<1>2. ASSUME NEW sz \in Sizes, Add(sz) PROVE NumbersOK'
  <2>1. /\ pc = "adding" /\ added < MaxDocs /\ added' = added + 1
        /\ UNCHANGED <<before, opts, disk, finished, artifacts>>
    BY <1>2 DEF Add, finishVars, dirVars
  <2>2. CASE size + sz > ShardMax
    BY <1>2, <2>1, <2>2, FlushNumbers DEF Add
  <2>3. CASE ~(size + sz > ShardMax)
    <3>1. todo' # {} /\ UNCHANGED <<nextShardNum, worker, pc>>
      BY <1>2, <2>3 DEF Add
    <3>2. nextShardNum <= MaxOld + 1 + added /\ before.added <= added
      BY DEF NumbersOK
    <3>3. nextShardNum <= MaxOld + (added + 1) /\ nextShardNum <= MaxOld + 1 + (added + 1)
      BY <1>t, <3>2
    <3>4. \A s \in Slots : disk[Shard(s)] # Absent => s <= MaxOld + (added + 1)
      BY <1>t, SlotsFinite DEF NumbersOK
    <3>5. before.added <= added + 1
      BY <1>t, <3>2
    <3>6. Made' = Made /\ Start' = Start
      BY <2>1, <3>1, StartType
    <3>7. pc' # "idle" => Start' <= nextShardNum'
      BY <3>1, <3>6 DEF NumbersOK
    <3> QED
      BY <1>i, <2>1, <3>1, <3>3, <3>4, <3>5, <3>6, <3>7 DEF NumbersOK
  <2> QED
    BY <2>2, <2>3
<1>3. ASSUME NEW s \in Slots, Throttle(s) PROVE NumbersOK'
  BY <1>3, <1>w DEF Throttle, callVars, finishVars, dirVars
<1>4. ASSUME NEW s \in Slots, NEW ok \in BOOLEAN, NEW left \in BOOLEAN, BuildShard(s, ok, left) PROVE NumbersOK'
  <2>1. worker' = [worker EXCEPT ![s] = IF ok THEN "built" ELSE "failed"] /\ worker[s] # "none"
        /\ UNCHANGED <<before, opts, nextShardNum, added, todo, disk, artifacts, finished>>
    BY <1>4 DEF BuildShard, callVars, finishVars, dirVars
  <2> QED
    BY <1>w, <2>1
<1>5. ASSUME NEW s \in Slots, Unthrottle(s) PROVE NumbersOK'
  <2>1. worker' = [worker EXCEPT ![s] = IF @ = "built" THEN "recordDone" ELSE "recordError"] /\ worker[s] # "none"
        /\ UNCHANGED <<before, opts, nextShardNum, added, todo, disk, artifacts, finished>>
    BY <1>5 DEF Unthrottle, callVars, finishVars, dirVars
  <2> QED
    BY <1>w, <2>1
<1>6. ASSUME NEW s \in Slots, Record(s) PROVE NumbersOK'
  <2>1. worker' = [worker EXCEPT ![s] = "none"] /\ worker[s] # "none" /\ finished' \subseteq finished \union {s}
        /\ UNCHANGED <<before, opts, nextShardNum, added, todo, disk, artifacts>>
    BY <1>6 DEF Record, callVars, finishVars, dirVars
  <2> QED
    BY <1>w, <2>1
<1>7. ASSUME NEW s \in Slots, NEW ok \in BOOLEAN, NEW left \in BOOLEAN, BuildInline(s, ok, left) PROVE NumbersOK'
  <2>1. worker' = [worker EXCEPT ![s] = "none"] /\ worker[s] # "none" /\ finished' \subseteq finished \union {s}
        /\ UNCHANGED <<before, opts, nextShardNum, added, todo, disk, artifacts>>
    BY <1>7 DEF BuildInline, callVars, finishVars, dirVars
  <2> QED
    BY <1>w, <2>1
<1>8. CASE CallFinish
  <2>1. pc = "adding" /\ Flush(todo, "wait") /\ UNCHANGED <<before, opts, disk, finished, artifacts, added>>
    BY <1>8 DEF CallFinish, callVars, finishVars, dirVars
  <2> QED
    BY <2>1, FlushNumbers
<1>9. CASE Stage
  <2>1. /\ UNCHANGED <<before, opts, nextShardNum, added, todo, disk, worker, finished>> /\ pc = "wait"
    BY <1>9 DEF Stage, callVars, dirVars
  <2>2. artifacts' \subseteq {Shard(s) : s \in Made} \union {Meta(s) : s \in Slots} \union {Compound}
    BY <1>9, <1>i, StageFiles DEF Found
  <2> QED
    BY <1>i, <2>1, <2>2, FrameNumbers
<1>10. ASSUME NEW f \in Files \union {Compound}, Rename(f) PROVE NumbersOK'
  <2>1. /\ UNCHANGED <<before, opts, nextShardNum, added, todo, worker, finished, pc>> /\ f \in artifacts
        /\ artifacts' = artifacts \ {f} /\ (disk' = [disk EXCEPT ![f] = run] \/ disk' = disk)
    BY <1>10 DEF Rename, callVars, dirVars
  <2>2. \A s \in Slots : disk'[Shard(s)] # disk[Shard(s)] => s \in Made
    <3> SUFFICES ASSUME NEW s \in Slots, disk'[Shard(s)] # disk[Shard(s)] PROVE s \in Made
      OBVIOUS
    <3>1. f = Shard(s)
      BY <2>1, FileType DEF TypeOK
    <3> QED
      BY <1>i, <2>1, <3>1, FilesDiffer, FileType, CompoundNoFile
  <2> QED
    BY <1>i, <2>1, <2>2, FrameNumbers
<1>11. ASSUME NEW f \in Files \union {Compound}, Delete(f) PROVE NumbersOK'
  <2>1. /\ UNCHANGED <<before, opts, nextShardNum, added, todo, worker, finished, pc, artifacts>>
        /\ (disk' = [disk EXCEPT ![f] = Absent] \/ disk' = disk)
    BY <1>11 DEF Delete, callVars, dirVars
  <2>2. \A s \in Slots : disk'[Shard(s)] # Absent => disk[Shard(s)] # Absent
    BY <2>1, FileType DEF TypeOK
  <2> QED
    BY <1>i, <2>1, <2>2, FrameNumbers
<1>12. ASSUME NEW o \in {"set", "error", "lost"}, Tombstone(o) PROVE NumbersOK'
  <2>1. UNCHANGED <<before, opts, nextShardNum, added, todo, worker, finished, pc, artifacts, disk>>
    BY <1>12 DEF Tombstone, callVars
  <2> QED
    BY <1>i, <2>1, FrameNumbers
<1>13. ASSUME \/ CallAbort \/ Abort \/ GiveUp \/ Published \/ Return
              \/ \E c \in Callers : InputFails(c)
              \/ \E k \in Slots : RejectDelta(k)
       PROVE  NumbersOK'
  <2>1. /\ UNCHANGED <<before, opts, nextShardNum, added, worker, disk, artifacts>> /\ pc # "idle"
        /\ finished' \subseteq finished /\ todo' \in {todo, {}}
    BY <1>13 DEF CallAbort, Abort, GiveUp, Published, Return, InputFails, RejectDelta, RemoveTemps, callVars,
       finishVars, dirVars
  <2> QED
    BY <1>i, <2>1, FrameNumbers
<1>14. CASE Exit \/ Crash
  <2>1. /\ UNCHANGED <<before, opts, nextShardNum, added, disk>> /\ pc' = "idle" /\ todo' = {}
        /\ finished' = {} /\ worker' = NoWorkers /\ artifacts' = {}
    BY <1>14 DEF Exit, Crash, Stop, callVars, dirVars
  <2>2. \A s \in Slots : worker'[s] = "none"
    BY <2>1 DEF NoWorkers
  <2> QED
    BY <2>1, <2>2, FrameNumbers
<1>15. CASE UNCHANGED vars
  BY <1>15, <1>i, FrameNumbers DEF vars, callVars, finishVars, dirVars
<1> QED
  BY <1>1, <1>2, <1>3, <1>4, <1>5, <1>6, <1>7, <1>8, <1>9, <1>10, <1>11, <1>12, <1>13, <1>14, <1>15
     DEF Next, Worker, Ending


\* A document that is added is a new one.
LEMMA GivenNext ==
  ASSUME TypeOK, NumbersOK
  PROVE  /\ UNCHANGED <<before, added>> => Given' = Given
         /\ before' = before /\ added' = added + 1 => Given' = Given \union {added + 1}
         /\ added + 1 \notin Given
<1>1. before.added \in Nat /\ added \in Nat /\ before.added <= added
  BY DEF TypeOK, NumbersOK
<1>2. before.added + 1 .. added + 1 = (before.added + 1 .. added) \union {added + 1}
  BY <1>1
<1>3. added + 1 \notin before.added + 1 .. added
  BY <1>1
<1> QED
  BY <1>2, <1>3 DEF Given

\* flush loses no document and repeats none, unless a shard has failed.
LEMMA FlushParts ==
  ASSUME TypeOK, NumbersOK, PartsOK, NEW docs \in SUBSET Nat, NEW cont \in {"adding", "wait"}, Flush(docs, cont),
         pc = "adding", UNCHANGED <<before, opts, buildError>>,
         added < MaxDocs \/ todo # {} \/ nextShardNum = 0 \/ docs = {},
         todo \subseteq docs, Given \subseteq Given', docs \subseteq Given',
         \A d \in Given' : d \in Given \/ d \in docs,
         \A s \in Slots : part[s] \cap docs = {}
  PROVE  PartsOK'
<1>t. nextShardNum \in Nat /\ part \in [Slots -> SUBSET Docs]
  BY DEF TypeOK
<1>1. todo' = {} /\ pc' \in Building
  BY DEF Flush, Building
<1>2. Start' = Start
  BY StartType
<1>3. CASE buildError \/ (docs = {} /\ nextShardNum > 0)
  <2>1. UNCHANGED <<part, nextShardNum>>
    BY <1>3 DEF Flush
  <2>2. Made' = Made
    BY <2>1, StartType
  <2>3. Fine' => docs = {} /\ Fine
    BY <1>1, <1>3 DEF Fine, Building
  <2>4. Fine' => \A d \in Given' : \E s \in Slots : d \in part[s]
    BY <2>3 DEF PartsOK
  <2> QED
    BY <1>1, <2>1, <2>2, <2>4 DEF PartsOK
<1>4. CASE ~(buildError \/ (docs = {} /\ nextShardNum > 0))
  <2>1. /\ part' = [part EXCEPT ![nextShardNum] = docs]
        /\ nextShardNum' = nextShardNum + 1
    BY <1>4 DEF Flush
  <2>2. nextShardNum \in Slots
    BY <1>4, <1>t, NewSlot
  <2>3. Made \subseteq Made' /\ nextShardNum \in Made' /\ nextShardNum \notin Made
    <3>1. Start <= nextShardNum /\ Start \in Nat
      BY StartType DEF NumbersOK
    <3>2. /\ \A s \in Nat : s < nextShardNum => s < nextShardNum + 1
          /\ nextShardNum < nextShardNum + 1 /\ ~(nextShardNum < nextShardNum)
      BY <1>t
    <3>3. Made' = {s \in Slots : Start <= s /\ s < nextShardNum + 1}
      BY <1>2, <2>1 DEF Made
    <3> QED
      BY <2>2, <3>1, <3>2, <3>3, SlotsFinite DEF Made
  <2>4. part[nextShardNum] = {}
    BY <2>2, <2>3 DEF PartsOK
  <2>5. \A s \in Slots : part'[s] = IF s = nextShardNum THEN docs ELSE part[s]
    BY <1>t, <2>1
  <2>6. Fine
    BY <1>4 DEF Fine, Building
  <2>7. \A s \in Slots : /\ part'[s] \subseteq Given' /\ part'[s] \cap todo' = {}
                         /\ part'[s] # {} => s \in Made'
    BY <1>1, <2>3, <2>5 DEF PartsOK
  <2>8. \A s, t \in Slots : s # t => part'[s] \cap part'[t] = {}
    BY <2>5 DEF PartsOK
  <2>9. \A d \in Given' : \E s \in Slots : d \in part'[s]
    <3> SUFFICES ASSUME NEW d \in Given' PROVE \E s \in Slots : d \in part'[s]
      OBVIOUS
    <3>1. CASE d \in docs
      BY <2>2, <2>5, <3>1
    <3>2. CASE d \notin docs
      <4>1. d \in Given /\ d \notin todo
        BY <3>2
      <4>2. PICK s \in Slots : d \in part[s]
        BY <2>6, <4>1 DEF PartsOK
      <4>3. s # nextShardNum
        BY <2>4, <4>2
      <4> QED
        BY <2>5, <4>2, <4>3
    <3> QED
      BY <3>1, <3>2
  <2> QED
    BY <1>1, <2>7, <2>8, <2>9 DEF PartsOK
<1> QED
  BY <1>3, <1>4

\* A step that leaves the documents where they are, or throws them away for good.
LEMMA FrameParts ==
  ASSUME PartsOK, TypeOK, NumbersOK, UNCHANGED <<before, opts, nextShardNum, added, part>>,
         \/ todo' = todo /\ (pc' = pc \/ todo = {}) /\ (Fine' => Fine)
         \/ todo' = {} /\ ~Fine'
  PROVE  PartsOK'
<1>1. Made' = Made /\ Given' = Given
  BY StartType, GivenNext
<1> QED
  BY <1>1 DEF PartsOK

\* The documents of a build are where they should be.
LEMMA PartsNext ==
  ASSUME TypeOK, WorkersOK, FlushingOK, NumbersOK, MadeOK, PartsOK, [Next]_vars
  PROVE  PartsOK'
<1>t. todo \subseteq Docs /\ Docs \subseteq Nat /\ added \in Nat /\ Given \subseteq Nat
  BY DEF TypeOK, Docs, Given
<1>e. pc # "adding" => todo = {}
  BY DEF PartsOK
<1>1. ASSUME NEW o \in Options, NewBuilder(o) PROVE PartsOK'
  <2>1. before'.added = added /\ added' = added /\ todo' = {} /\ part' = [s \in Slots |-> {}]
    BY <1>1 DEF NewBuilder
  <2>2. added + 1 .. added = {}
    BY <1>t
  <2>3. Given' = {}
    BY <2>1, <2>2 DEF Given
  <2> QED
    BY <2>1, <2>3 DEF PartsOK
<1>2. ASSUME NEW sz \in Sizes, Add(sz) PROVE PartsOK'
  <2>1. /\ pc = "adding" /\ added < MaxDocs /\ added' = added + 1
        /\ UNCHANGED <<before, opts, buildError>>
    BY <1>2 DEF Add
  <2>2. Given' = Given \union {added + 1} /\ added + 1 \notin Given
    BY <2>1, GivenNext
  <2>3. todo \subseteq Given /\ \A s \in Slots : part[s] \subseteq Given /\ part[s] \cap todo = {}
    BY DEF PartsOK
  <2>4. CASE size + sz > ShardMax
    <3>1. Flush(todo \union {added + 1}, "adding")
      BY <1>2, <2>4 DEF Add
    <3>2. todo \union {added + 1} \in SUBSET Nat
      BY <1>t
    <3> QED
      BY <2>1, <2>2, <2>3, <3>1, <3>2, FlushParts
  <2>5. CASE ~(size + sz > ShardMax)
    <3>1. todo' = todo \union {added + 1} /\ UNCHANGED <<nextShardNum, part, pc>>
      BY <1>2, <2>5 DEF Add
    <3>2. Made' = Made
      BY <2>1, <3>1, StartType
    <3>3. Fine' => Fine
      BY <2>1, <3>1 DEF Fine, Building
    <3> QED
      BY <2>1, <2>2, <2>3, <3>1, <3>2, <3>3 DEF PartsOK
  <2> QED
    BY <2>4, <2>5
<1>3. CASE CallFinish
  <2>1. pc = "adding" /\ Flush(todo, "wait") /\ UNCHANGED <<before, opts, buildError, added>>
    BY <1>3 DEF CallFinish, callVars
  <2>2. Given' = Given
    BY <2>1, GivenNext
  <2>3. todo \subseteq Given /\ \A s \in Slots : part[s] \cap todo = {}
    BY DEF PartsOK
  <2>4. todo \in SUBSET Nat
    BY <1>t
  <2> QED
    BY <2>1, <2>2, <2>3, <2>4, FlushParts
<1>4. ASSUME NEW s \in Slots, Worker(s) PROVE PartsOK'
  <2>1. UNCHANGED <<before, opts, nextShardNum, added, part, todo>> /\ worker[s] # "none"
    BY <1>4 DEF Worker, Throttle, BuildShard, Unthrottle, Record, BuildInline, callVars
  <2>2. pc \in Building
    BY <2>1 DEF WorkersOK, NoWorkers
  <2>3. worker[s] \in {"throttled", "inline"} => pc \in {"flushing", "lastFlush"}
    BY DEF FlushingOK, Waiting
  <2>4. pc' = pc \/ pc \in {"flushing", "lastFlush"}
    BY <1>4, <2>3 DEF Worker, Throttle, BuildShard, Unthrottle, Record, BuildInline
  <2>5. Fine' => Fine
    <3>1. CASE worker[s] = "inline"
      <4>1. ~buildError
        BY <3>1 DEF MadeOK
      <4> QED
        BY <2>2, <2>3, <3>1, <4>1 DEF Fine
    <3>2. CASE worker[s] # "inline"
      <4>1. buildError => buildError'
        BY <1>4, <3>2 DEF Worker, Throttle, BuildShard, Unthrottle, Record, BuildInline
      <4>2. pc' \in Building
        BY <1>4, <2>2 DEF Worker, Throttle, BuildShard, Unthrottle, Record, BuildInline, After, Building
      <4> QED
        BY <2>2, <2>4, <4>1, <4>2 DEF Fine, Building
    <3> QED
      BY <3>1, <3>2
  <2> QED
    BY <1>e, <2>1, <2>4, <2>5, FrameParts
<1>5. ASSUME \E c \in Callers : InputFails(c) PROVE PartsOK'
  <2>1. UNCHANGED <<before, opts, nextShardNum, added, part, todo, pc, buildError, result>>
    BY <1>5 DEF InputFails, callVars
  <2> QED
    BY <2>1, FrameParts DEF Fine
<1>6. CASE CallAbort \/ Exit \/ Crash
  <2>1. /\ UNCHANGED <<before, opts, nextShardNum, added, part>> /\ todo' = {} /\ pc' \in {"abortWait", "idle"}
    BY <1>6 DEF CallAbort, Exit, Crash, Stop, callVars
  <2>2. ~Fine'
    BY <2>1 DEF Fine, Building
  <2> QED
    BY <2>1, <2>2, FrameParts
<1>7. CASE Abort \/ GiveUp \/ \E k \in Slots : RejectDelta(k)
  <2>1. /\ UNCHANGED <<before, opts, nextShardNum, added, part, todo>> /\ pc' = "returned" /\ result' \in {"aborted", "error"}
        /\ pc # "adding"
    BY <1>7 DEF Abort, GiveUp, RejectDelta, callVars
  <2>2. ~Fine'
    BY <2>1 DEF Fine, Building
  <2> QED
    BY <1>e, <2>1, <2>2, FrameParts
<1>8. ASSUME \/ Stage \/ Published \/ Return
             \/ \E f \in Files \union {Compound} : Rename(f)
             \/ \E f \in Files \union {Compound} : Delete(f)
             \/ \E o \in {"set", "error", "lost"} : Tombstone(o)
      PROVE  PartsOK'
  <2>1. /\ UNCHANGED <<before, opts, nextShardNum, added, part, todo>> /\ pc # "adding"
        /\ pc \in {"publish", "delete"} \/ (pc = "wait" /\ ~buildError)
    BY <1>8 DEF Stage, Published, Return, Rename, Delete, Tombstone, callVars
  <2>2. Fine
    BY <2>1 DEF Fine, Building
  <2> QED
    BY <1>e, <2>1, <2>2, FrameParts
<1>9. CASE UNCHANGED vars
  BY <1>9, FrameParts DEF vars, callVars, Fine
<1> QED
  BY <1>1, <1>2, <1>3, <1>4, <1>5, <1>6, <1>7, <1>8, <1>9 DEF Next, Ending


\* A step of the caller that starts no shard and stays where shards are built, or leaves.
LEMMA FrameMade ==
  ASSUME MadeOK, TypeOK, UNCHANGED <<before, opts, nextShardNum, worker>>,
         (UNCHANGED <<buildError, finished>> /\ (pc' \in Building => pc \in Building)
            /\ (pc' \in {"lastFlush", "wait"} => pc \in {"lastFlush", "wait"}))
         \/ (pc' \notin Building /\ \A s \in Slots : worker[s] # "inline")
  PROVE  MadeOK'
<1>1. Made' = Made
  BY StartType
<1> QED
  BY <1>1 DEF MadeOK, Building

\* flush gives the shard to a worker.
LEMMA FlushMade ==
  ASSUME TypeOK, WorkersOK, FlushingOK, NumbersOK, MadeOK, NEW docs, NEW cont \in {"adding", "wait"},
         Flush(docs, cont), pc = "adding", UNCHANGED <<before, opts, buildError, finished>>,
         added < MaxDocs \/ todo # {} \/ nextShardNum = 0 \/ docs = {}
  PROVE  MadeOK'
<1>t. nextShardNum \in Nat /\ worker \in [Slots -> WorkerStates]
  BY DEF TypeOK
<1>1. Start' = Start /\ Start \in Nat
  BY StartType
<1>2. CASE buildError \/ (docs = {} /\ nextShardNum > 0)
  <2>1. UNCHANGED <<worker, nextShardNum>> /\ pc' = cont
    BY <1>2 DEF Flush
  <2>2. Made' = Made
    BY <2>1, StartType
  <2>3. pc \in Building /\ (~buildError => nextShardNum > 0)
    BY <1>2 DEF Building
  <2> QED
    BY <2>1, <2>2, <2>3 DEF MadeOK
<1>3. CASE ~(buildError \/ (docs = {} /\ nextShardNum > 0))
  <2>1. /\ worker' = [worker EXCEPT ![nextShardNum] = IF opts.par > 1 THEN "throttled" ELSE "inline"]
        /\ nextShardNum' = nextShardNum + 1
    BY <1>3 DEF Flush
  <2>2. nextShardNum \in Slots
    BY <1>3, <1>t, NewSlot
  <2>3. \A s \in Nat : s < nextShardNum + 1 => s < nextShardNum \/ s = nextShardNum
    BY <1>t
  <2>4. Made' = {s \in Slots : Start <= s /\ s < nextShardNum + 1}
    BY <1>1, <2>1 DEF Made
  <2>5. \A s \in Made' : s \in Made \/ s = nextShardNum
    BY <2>3, <2>4, SlotsFinite DEF Made
  <2>6. \A s \in Slots : worker'[s] = IF s = nextShardNum THEN IF opts.par > 1 THEN "throttled" ELSE "inline" ELSE worker[s]
    BY <1>t, <2>1
  <2>7. \A s \in Made' : s \in Slots
    BY DEF Made
  <2>8. \A s \in Made' : s \in finished' \/ worker'[s] # "none"
    BY <1>3, <2>5, <2>6, <2>7 DEF MadeOK, Building
  <2>9. nextShardNum' > 0
    BY <1>t, <2>1
  <2> QED
    BY <1>3, <2>8, <2>9 DEF MadeOK
<1> QED
  BY <1>2, <1>3

\* No shard of a build gets lost between its goroutine and finishedShards.
LEMMA MadeNext ==
  ASSUME TypeOK, WorkersOK, FlushingOK, NumbersOK, MadeOK, [Next]_vars
  PROVE  MadeOK'
<1>t. worker \in [Slots -> WorkerStates] /\ nextShardNum \in Nat /\ opts.par \in Nat \ {0}
  BY OptionsType DEF TypeOK
<1>b. ASSUME NEW s \in Slots, worker[s] # "none" PROVE pc \in Building
  BY <1>b DEF WorkersOK, NoWorkers
\* A goroutine goes on.
<1>w. ASSUME NEW s \in Slots, NEW x, x # "none", x # "inline", worker[s] # "none",
             worker' = [worker EXCEPT ![s] = x],
             UNCHANGED <<before, opts, nextShardNum, buildError, finished>>,
             pc' = pc \/ (pc \in {"flushing", "lastFlush"} /\ pc' = After)
      PROVE  MadeOK'
  <2>1. Made' = Made /\ pc \in Building
    BY <1>w, <1>b, StartType
  <2>2. \A t \in Slots : worker'[t] = IF t = s THEN x ELSE worker[t]
    BY <1>t, <1>w
  <2>3. (\E t \in Slots : worker'[t] = "inline") => ~buildError
    BY <1>w, <2>2 DEF MadeOK
  <2>4. ~buildError => \A t \in Made : t \in finished \/ worker'[t] # "none"
    BY <1>w, <2>1, <2>2 DEF MadeOK, Made
  <2>5. pc' \in {"lastFlush", "wait"} => pc \in {"lastFlush", "wait"}
    BY <1>w DEF After
  <2> QED
    BY <1>w, <2>1, <2>3, <2>4, <2>5 DEF MadeOK
\* A worker is done with its shard.
<1>d. ASSUME NEW s \in Slots, worker[s] # "none", worker' = [worker EXCEPT ![s] = "none"],
             UNCHANGED <<before, opts, nextShardNum>>,
             finished' = finished \union {s} \/ buildError', finished \subseteq finished',
             buildError => buildError', \A t \in Slots : t # s => worker[t] # "inline",
             pc' = pc \/ (pc \in {"flushing", "lastFlush"} /\ pc' = After)
      PROVE  MadeOK'
  <2>1. Made' = Made /\ pc \in Building
    BY <1>d, <1>b, StartType
  <2>2. \A t \in Slots : worker'[t] = IF t = s THEN "none" ELSE worker[t]
    BY <1>t, <1>d
  <2>3. \A t \in Slots : worker'[t] # "inline"
    BY <1>d, <2>2
  <2>4. ~buildError' => \A t \in Made : t \in finished' \/ worker'[t] # "none"
    BY <1>d, <2>1, <2>2 DEF MadeOK, Made
  <2>5. pc' \in {"lastFlush", "wait"} => pc \in {"lastFlush", "wait"}
    BY <1>d DEF After
  <2> QED
    BY <1>d, <2>1, <2>3, <2>4, <2>5 DEF MadeOK
<1>1. ASSUME NEW o \in Options, NewBuilder(o) PROVE MadeOK'
  <2>1. /\ before' = [added |-> added, disk |-> disk, compound |-> compound] /\ opts' = o
        /\ nextShardNum' = IF o.delta THEN CountOld ELSE 0
        /\ worker' = NoWorkers /\ pc' = "adding"
    BY <1>1 DEF NewBuilder
  <2>2. CountBefore' = CountOld /\ CountOld \in Nat
    BY <2>1, OldType DEF CountBefore, CountOld
  <2>3. Start' = nextShardNum' /\ nextShardNum' \in Nat
    BY <2>1, <2>2 DEF Start
  <2>4. PICK n \in Nat : n = nextShardNum'
    BY <2>3
  <2>5. Made' = {s \in Slots : n <= s /\ s < n}
    BY <2>3, <2>4 DEF Made
  <2>8. \A s \in Nat : ~(n <= s /\ s < n)
    BY <2>4
  <2>6. Made' = {}
    BY <2>5, <2>8, SlotsFinite
  <2>7. \A s \in Slots : worker'[s] # "inline"
    BY <2>1 DEF NoWorkers
  <2> QED
    BY <2>1, <2>6, <2>7 DEF MadeOK
<1>2. ASSUME NEW sz \in Sizes, Add(sz) PROVE MadeOK'
  <2>1. /\ pc = "adding" /\ added < MaxDocs
        /\ UNCHANGED <<before, opts, buildError, finished>>
    BY <1>2 DEF Add
  <2>2. CASE size + sz > ShardMax
    BY <1>2, <2>1, <2>2, FlushMade DEF Add
  <2>3. CASE ~(size + sz > ShardMax)
    <3>1. UNCHANGED <<nextShardNum, worker, pc>>
      BY <1>2, <2>3 DEF Add
    <3> QED
      BY <2>1, <3>1, FrameMade
  <2> QED
    BY <2>2, <2>3
<1>3. CASE CallFinish
  <2>1. pc = "adding" /\ Flush(todo, "wait") /\ UNCHANGED <<before, opts, buildError, finished>>
    BY <1>3 DEF CallFinish, callVars
  <2> QED
    BY <2>1, FlushMade
<1>4. ASSUME NEW s \in Slots, Throttle(s) PROVE MadeOK'
  <2>1. pc \in {"flushing", "lastFlush"}
    BY <1>4 DEF Throttle, FlushingOK, Waiting
  <2> QED
    BY <1>4, <1>w, <2>1 DEF Throttle, callVars
<1>5. ASSUME NEW s \in Slots, NEW ok \in BOOLEAN, NEW left \in BOOLEAN, BuildShard(s, ok, left) PROVE MadeOK'
  <2>1. PICK x \in {"built", "failed"} : worker' = [worker EXCEPT ![s] = x]
    BY <1>5 DEF BuildShard
  <2> QED
    BY <1>5, <1>w, <2>1 DEF BuildShard, callVars
<1>6. ASSUME NEW s \in Slots, Unthrottle(s) PROVE MadeOK'
  <2>1. PICK x \in {"recordDone", "recordError"} : worker' = [worker EXCEPT ![s] = x]
    BY <1>6 DEF Unthrottle
  <2> QED
    BY <1>6, <1>w, <2>1 DEF Unthrottle, callVars
<1>7. ASSUME NEW s \in Slots, Record(s) PROVE MadeOK'
  <2>1. /\ worker[s] \in {"recordDone", "recordError"} /\ worker' = [worker EXCEPT ![s] = "none"] /\ pc' = pc
        /\ UNCHANGED <<before, opts, nextShardNum>>
    BY <1>7 DEF Record, callVars
  <2>2. opts.par # 1
    BY <2>1 DEF WorkersOK
  <2>3. \A t \in Slots : worker[t] # "inline"
    BY <1>t, <2>2 DEF WorkersOK
  <2>4. CASE worker[s] = "recordDone"
    <3>1. finished' = finished \union {s} /\ buildError' = buildError
      BY <1>7, <2>4 DEF Record
    <3> QED
      BY <1>d, <2>1, <2>3, <3>1
  <2>5. CASE worker[s] = "recordError"
    <3>1. finished' = finished /\ buildError' = TRUE
      BY <1>7, <2>5 DEF Record
    <3> QED
      BY <1>d, <2>1, <2>3, <3>1
  <2> QED
    BY <2>1, <2>4, <2>5
<1>8. ASSUME NEW s \in Slots, NEW ok \in BOOLEAN, NEW left \in BOOLEAN, BuildInline(s, ok, left) PROVE MadeOK'
  <2>1. /\ worker[s] = "inline" /\ worker' = [worker EXCEPT ![s] = "none"] /\ pc' = After
        /\ UNCHANGED <<before, opts, nextShardNum>>
    BY <1>8 DEF BuildInline, callVars
  <2>2. ~buildError /\ pc \in {"flushing", "lastFlush"} /\ \A t \in Slots : t # s => worker[t] # "inline"
    BY <2>1 DEF MadeOK, FlushingOK, Waiting
  <2>3. CASE ok
    <3>1. finished' = finished \union {s}
      BY <1>8, <2>3 DEF BuildInline
    <3> QED
      BY <1>d, <2>1, <2>2, <3>1
  <2>4. CASE ~ok
    <3>1. finished' = finished /\ buildError'
      BY <1>8, <2>4 DEF BuildInline
    <3> QED
      BY <1>d, <2>1, <2>2, <3>1
  <2> QED
    BY <2>3, <2>4
<1>9. CASE CallAbort \/ \E c \in Callers : InputFails(c)
  <2>1. /\ UNCHANGED <<before, opts, nextShardNum, worker, buildError, finished>> /\ pc = "adding"
        /\ pc' \in {"adding", "abortWait"}
    BY <1>9 DEF CallAbort, InputFails, callVars
  <2> QED
    BY <2>1, FrameMade DEF Building
<1>10. CASE Abort \/ GiveUp \/ Stage \/ \E k \in Slots : RejectDelta(k)
  <2>1. /\ UNCHANGED <<before, opts, nextShardNum, worker>> /\ pc' \in {"returned", "publish"}
        /\ worker = NoWorkers
    BY <1>10 DEF Abort, GiveUp, RejectDelta, Stage, AllDone, callVars
  <2>2. \A s \in Slots : worker[s] # "inline"
    BY <2>1 DEF NoWorkers
  <2> QED
    BY <2>1, <2>2, FrameMade DEF Building
<1>11. ASSUME \/ Published \/ Return
              \/ \E f \in Files \union {Compound} : Rename(f)
              \/ \E f \in Files \union {Compound} : Delete(f)
              \/ \E o \in {"set", "error", "lost"} : Tombstone(o)
       PROVE  MadeOK'
  <2>1. /\ UNCHANGED <<before, opts, nextShardNum, worker>> /\ pc \in {"publish", "delete"}
        /\ pc' \in {"publish", "delete", "returned"}
    BY <1>11 DEF Published, Return, Rename, Delete, Tombstone, callVars
  <2>2. worker = NoWorkers
    BY <2>1 DEF WorkersOK, Building
  <2>3. \A s \in Slots : worker[s] # "inline"
    BY <2>2 DEF NoWorkers
  <2> QED
    BY <2>1, <2>3, FrameMade DEF Building
<1>12. CASE Exit \/ Crash
  <2>1. worker' = NoWorkers /\ pc' = "idle"
    BY <1>12 DEF Exit, Crash, Stop
  <2>2. \A s \in Slots : worker'[s] # "inline"
    BY <2>1 DEF NoWorkers
  <2> QED
    BY <2>1, <2>2 DEF MadeOK, Building
<1>13. CASE UNCHANGED vars
  BY <1>13, FrameMade DEF vars, callVars
<1> QED
  BY <1>1, <1>2, <1>3, <1>4, <1>5, <1>6, <1>7, <1>8, <1>9, <1>10, <1>11, <1>12, <1>13 DEF Next, Worker, Ending


\* Abort, and a Finish that fails, leave temporary files only of shards that failed.
LEMMA TempsNext ==
  ASSUME TypeOK, WorkersOK, BadKnown, CallerOK, TempsOK, [Next]_vars
  PROVE  TempsOK'
<1>t. worker \in [Slots -> WorkerStates]
  BY DEF TypeOK
<1> DEFINE Known == finished \union bad \union {t \in Slots : worker[t] \in {"built", "recordDone"}}
<1>k. pc \in Building => temps \subseteq {Shard(s) : s \in Known}
  BY DEF TempsOK
\* Steps while shards are built: no file is forgotten.
<1>b. ASSUME pc \in Building, pc' \in Building, temps' \subseteq temps \union {Shard(s) : s \in Known'},
             Known \subseteq Known'
      PROVE  TempsOK'
  <2>1. temps' \subseteq {Shard(s) : s \in Known'}
    <3> HIDE DEF Known
    <3> QED
      BY <1>b, <1>k
  <2> QED
    BY <1>b, <2>1 DEF TempsOK, TempsRemoved, Building
\* Steps after them.
<1>a. ASSUME pc' \notin Building, pc' = "returned" => (result' = "aborted" \/ bad' # {} => temps' \subseteq {Shard(s) : s \in bad'})
      PROVE  TempsOK'
  <2>1. TempsRemoved'
    BY <1>a DEF TempsRemoved
  <2> QED
    BY <1>a, <2>1 DEF TempsOK
<1>d. AllDone => Known = finished \union bad
  BY DEF AllDone, NoWorkers
<1>1. ASSUME NEW o \in Options, NewBuilder(o) PROVE TempsOK'
  BY <1>1 DEF NewBuilder, TempsOK, TempsRemoved
<1>2. ASSUME NEW sz \in Sizes, Add(sz) PROVE TempsOK'
  <2>1. pc = "adding" /\ pc' \in Building /\ UNCHANGED <<temps, finished, bad>>
    BY <1>2 DEF Add, Flush, Building
  <2>2. \A t \in Slots : worker[t] \in {"built", "recordDone"} => worker'[t] \in {"built", "recordDone"}
    <3>1. worker' = worker \/ (worker' = [worker EXCEPT ![nextShardNum] = IF opts.par > 1 THEN "throttled" ELSE "inline"])
      BY <1>2 DEF Add, Flush
    <3>2. \A t \in Slots : t = nextShardNum => worker[t] = "none"
      <4>1. nextShardNum \in Nat
        BY DEF TypeOK
      <4>2. nextShardNum >= nextShardNum
        BY <4>1
      <4> QED
        BY <4>2 DEF WorkersOK
    <3> QED
      BY <1>t, <3>1, <3>2
  <2>3. pc \in Building /\ Known \subseteq Known'
    BY <2>1, <2>2 DEF Building
  <2> QED
    BY <1>b, <2>1, <2>3
<1>3. CASE CallFinish
  <2>1. pc = "adding" /\ pc' \in Building /\ UNCHANGED <<temps, finished, bad>>
    BY <1>3 DEF CallFinish, Flush, Building
  <2>2. \A t \in Slots : worker[t] \in {"built", "recordDone"} => worker'[t] \in {"built", "recordDone"}
    <3>1. worker' = worker \/ (worker' = [worker EXCEPT ![nextShardNum] = IF opts.par > 1 THEN "throttled" ELSE "inline"])
      BY <1>3 DEF CallFinish, Flush
    <3>2. \A t \in Slots : t = nextShardNum => worker[t] = "none"
      <4>1. nextShardNum \in Nat
        BY DEF TypeOK
      <4>2. nextShardNum >= nextShardNum
        BY <4>1
      <4> QED
        BY <4>2 DEF WorkersOK
    <3> QED
      BY <1>t, <3>1, <3>2
  <2>3. pc \in Building /\ Known \subseteq Known'
    BY <2>1, <2>2 DEF Building
  <2> QED
    BY <1>b, <2>1, <2>3
<1>4. ASSUME NEW s \in Slots, Worker(s) PROVE TempsOK'
  <2>1. worker[s] # "none"
    BY <1>4 DEF Worker, Throttle, BuildShard, Unthrottle, Record, BuildInline
  <2>2. pc \in Building /\ pc' \in Building
    <3>1. pc \in Building
      BY <2>1 DEF WorkersOK, NoWorkers
    <3> QED
      BY <1>4, <3>1 DEF Worker, Throttle, BuildShard, Unthrottle, Record, BuildInline, After, Building
  <2>3. finished \subseteq finished' /\ bad \subseteq bad'
    BY <1>4 DEF Worker, Throttle, BuildShard, Unthrottle, Record, BuildInline
  <2>4. \A t \in Slots : t # s => worker'[t] = worker[t]
    BY <1>4, <1>t DEF Worker, Throttle, BuildShard, Unthrottle, Record, BuildInline
  <2>5. worker[s] \in {"built", "recordDone"} => worker'[s] \in {"built", "recordDone"} \/ s \in finished'
    BY <1>4, <1>t DEF Worker, Throttle, BuildShard, Unthrottle, Record, BuildInline
  <2>6. Known \subseteq Known'
    BY <2>3, <2>4, <2>5
  <2>7. temps' = temps \/ (temps' \subseteq temps \union {Shard(s)} /\ (s \in bad' \/ s \in finished' \/ worker'[s] = "built"))
    <3>1. CASE \E ok, left \in BOOLEAN : BuildShard(s, ok, left)
      BY <1>t, <3>1 DEF BuildShard
    <3>2. CASE \E ok, left \in BOOLEAN : BuildInline(s, ok, left)
      BY <3>2 DEF BuildInline
    <3>3. CASE Throttle(s) \/ Unthrottle(s) \/ Record(s)
      BY <3>3 DEF Throttle, Unthrottle, Record
    <3> QED
      BY <1>4, <3>1, <3>2, <3>3 DEF Worker
  <2>8. temps' = temps \/ (temps' \subseteq temps \union {Shard(s)} /\ s \in Known')
    BY <2>7
  <2>9. temps' \subseteq temps \union {Shard(r) : r \in Known'}
    <3> HIDE DEF Known
    <3> QED
      BY <2>8
  <2> QED
    BY <1>b, <2>2, <2>6, <2>9
<1>5. CASE CallAbort \/ \E c \in Callers : InputFails(c)
  <2>1. UNCHANGED <<temps, finished, bad, worker>> /\ pc = "adding" /\ pc' \in {"adding", "abortWait"}
    BY <1>5 DEF CallAbort, InputFails
  <2>2. pc \in Building /\ pc' \in Building /\ Known' = Known
    BY <2>1 DEF Building
  <2> QED
    BY <1>b, <2>1, <2>2
<1>6. CASE Abort \/ GiveUp
  <2>1. /\ pc \in Building /\ AllDone /\ pc' = "returned" /\ bad' = bad
        /\ temps' = temps \ {Shard(s) : s \in finished}
    BY <1>6 DEF Abort, GiveUp, RemoveTemps, Building
  <2>2. temps' \subseteq {Shard(s) : s \in bad}
    BY <1>d, <1>k, <2>1
  <2> QED
    BY <1>a, <2>1, <2>2 DEF Building
<1>7. CASE Stage \/ \E k \in Slots : RejectDelta(k)
  <2>1. /\ pc = "wait" /\ AllDone /\ ~buildError /\ bad' = bad /\ pc' \in {"publish", "returned"} /\ result' \in {result, "ok", "error"}
    BY <1>7 DEF Stage, RejectDelta
  <2>2. bad = {}
    BY <2>1 DEF BadKnown, AllDone, NoWorkers, Building
  <2>3. result' # "aborted"
    BY <2>1 DEF CallerOK
  <2> QED
    BY <1>a, <2>1, <2>2, <2>3 DEF Building
<1>8. ASSUME \/ Published \/ Return
             \/ \E f \in Files \union {Compound} : Rename(f)
             \/ \E f \in Files \union {Compound} : Delete(f)
             \/ \E o \in {"set", "error", "lost"} : Tombstone(o)
      PROVE  TempsOK'
  <2>1. /\ pc \in {"publish", "delete"} /\ bad' = bad /\ pc' \in {"publish", "delete", "returned"} /\ result' \in {result, "ok", "error"}
    BY <1>8 DEF Published, Return, Rename, Delete, Tombstone
  <2>2. bad = {} /\ result' # "aborted"
    BY <2>1 DEF BadKnown, CallerOK
  <2> QED
    BY <1>a, <2>1, <2>2 DEF Building
<1>9. CASE Exit \/ Crash
  <2>1. pc' = "idle"
    BY <1>9 DEF Exit, Crash, Stop
  <2> QED
    BY <1>a, <2>1 DEF Building
<1>10. CASE UNCHANGED vars
  BY <1>10 DEF vars, TempsOK, TempsRemoved
<1> QED
  BY <1>1, <1>2, <1>3, <1>4, <1>5, <1>6, <1>7, <1>8, <1>9, <1>10 DEF Next, Ending


\* What a build has to do is settled when the last shard has its number.
LEMMA PlanStays ==
  /\ UNCHANGED <<before, opts, nextShardNum>> => NewFiles' = NewFiles /\ PlanFiles' = PlanFiles
  /\ UNCHANGED <<before, opts>> => /\ StaleFiles' = StaleFiles /\ Tombstones' = Tombstones
                                  /\ DeltaOfCompound' = DeltaOfCompound
  BY StartType DEF NewFiles, PlanFiles, DeltaOfCompound, StaleFiles, Tombstones

\* The compound shard is to be removed only as Tombstones says.
LEMMA CompoundStale ==
  Compound \in StaleFiles => ~opts.delta /\ Found(before.disk) = {} /\ Live(before.compound)
  BY CompoundNoFile DEF StaleFiles

\* Stage plans to rename every shard of the build and to remove what the build replaces.
LEMMA StageMoved ==
  ASSUME TypeOK, NumbersOK, MadeOK, UntouchedUnlessWhole, Stage
  PROVE  MovedOK'
<1>1. /\ pc = "wait" /\ AllDone /\ ~buildError /\ (opts.delta /\ OldFiles = {Compound} => compound = "alone")
      /\ UNCHANGED <<before, opts, nextShardNum, disk, compound, run>>
  BY DEF Stage, callVars, dirVars
<1>2. disk = before.disk /\ compound = before.compound
  BY <1>1 DEF UntouchedUnlessWhole, Untouched, Building
<1>3. finished = Made
  BY <1>1 DEF MadeOK, NumbersOK, AllDone, NoWorkers, Building, Made
<1>4. artifacts' = PlanFiles
  BY <1>2, <1>3, StageFiles DEF NewFiles, PlanFiles, DeltaOfCompound
<1>5. toDelete' = StaleFiles
  BY <1>2, StageFiles DEF StaleFiles, OldFiles
<1>6. /\ NewFiles' = NewFiles /\ PlanFiles' = PlanFiles /\ StaleFiles' = StaleFiles
      /\ Tombstones' = Tombstones /\ DeltaOfCompound' = DeltaOfCompound
  BY <1>1, PlanStays
<1>7. /\ DeltaOfCompound => before.compound = "alone"
      /\ DeltaOfCompound => Compound \in PlanFiles
      /\ NewFiles \subseteq PlanFiles
      /\ Compound \in StaleFiles => ~DeltaOfCompound
  BY <1>1, <1>2, CompoundStale DEF OldFiles, DeltaOfCompound, PlanFiles
<1>8. CASE PlanFiles = {}
  <2>1. opts.delta
    <3> SUFFICES ASSUME ~opts.delta PROVE FALSE
      OBVIOUS
    <3>1. nextShardNum > 0 /\ nextShardNum \in Nat
      BY <1>1 DEF MadeOK, TypeOK
    <3>2. Start = 0 /\ 0 \in Slots
      BY SlotsFinite DEF Start
    <3>3. 0 \in Made
      BY <3>1, <3>2 DEF Made
    <3> QED
      BY <1>7, <1>8, <3>3 DEF NewFiles
  <2>2. StaleFiles = {}
    BY <2>1 DEF StaleFiles
  <2> QED
    BY <1>1, <1>2, <1>4, <1>5, <1>6, <1>7, <1>8, <2>2 DEF MovedOK
<1>9. CASE PlanFiles # {}
  <2>1. pc' = "publish"
    BY <1>4, <1>9 DEF Stage
  <2> QED
    BY <1>1, <1>2, <1>4, <1>5, <1>6, <1>7, <2>1 DEF MovedOK
<1> QED
  BY <1>8, <1>9

\* Every rename and removal of a Finish in which none fails does its part.
LEMMA MovedNext ==
  ASSUME TypeOK, WorkersOK, NumbersOK, MadeOK, CallerOK, UntouchedUnlessWhole, MovedOK, [Next]_vars
  PROVE  MovedOK'
<1>r. \A s \in Slots : worker[s] # "none" => pc \notin {"publish", "delete", "returned"}
  BY DEF WorkersOK, NoWorkers, Building
<1>t. disk \in [Files -> Gens]
  BY DEF TypeOK
\* Before Stage, and after a return that was no success, there is nothing to say.
<1>0. ASSUME pc' \notin {"publish", "delete"}, pc' = "returned" => result' # "ok" PROVE MovedOK'
  BY <1>0 DEF MovedOK
<1>1. ASSUME NEW o \in Options, NewBuilder(o) PROVE MovedOK'
  BY <1>1, <1>0 DEF NewBuilder
<1>2. ASSUME \/ \E sz \in Sizes : Add(sz)
             \/ CallFinish \/ CallAbort \/ Abort \/ GiveUp \/ Exit \/ Crash
             \/ \E k \in Slots : RejectDelta(k)
      PROVE  MovedOK'
  <2>1. pc' \notin {"publish", "delete"} /\ (pc' = "returned" => result' # "ok")
    BY <1>2 DEF Add, CallFinish, Flush, CallAbort, Abort, GiveUp, Exit, Crash, Stop, RejectDelta
  <2> QED
    BY <1>0, <2>1
<1>3. ASSUME \/ \E s \in Slots : Worker(s)
             \/ \E c \in Callers : InputFails(c)
             \/ UNCHANGED vars
      PROVE  MovedOK'
  <2>1. \/ UNCHANGED <<pc, result, toDelete, artifacts, disk, compound, run, before, opts, nextShardNum, buildError>>
        \/ pc' \in {"adding", "wait"}
        \/ pc' = pc /\ pc \notin {"publish", "delete", "returned"}
    <3>1. CASE \E s \in Slots : Throttle(s) \/ \E ok, left \in BOOLEAN : BuildInline(s, ok, left)
      BY <3>1 DEF Throttle, BuildInline, After
    <3>2. CASE \E s \in Slots : Unthrottle(s) \/ \E ok, left \in BOOLEAN : BuildShard(s, ok, left)
      BY <3>2 DEF Unthrottle, BuildShard, callVars, finishVars, dirVars
    <3>3. CASE \E s \in Slots : Record(s)
      BY <3>3, <1>r DEF Record
    <3>4. CASE UNCHANGED vars \/ \E c \in Callers : InputFails(c)
      BY <3>4 DEF vars, InputFails, callVars, finishVars, dirVars
    <3> QED
      BY <1>3, <3>1, <3>2, <3>3, <3>4 DEF Worker
  <2>2. CASE UNCHANGED <<pc, result, toDelete, artifacts, disk, compound, run, before, opts, nextShardNum, buildError>>
    BY <2>2, PlanStays DEF MovedOK
  <2> QED
    BY <1>0, <2>1, <2>2
<1>4. CASE Stage
  BY <1>4, StageMoved
<1>5. ASSUME NEW f \in Files \union {Compound}, Rename(f) PROVE MovedOK'
  <2>1. /\ pc = "publish" /\ pc' = pc /\ f \in artifacts /\ artifacts' = artifacts \ {f}
        /\ UNCHANGED <<run, before, opts, nextShardNum>>
    BY <1>5 DEF Rename, callVars
  <2>2. /\ NewFiles' = NewFiles /\ PlanFiles' = PlanFiles /\ StaleFiles' = StaleFiles
        /\ Tombstones' = Tombstones /\ DeltaOfCompound' = DeltaOfCompound
    BY <2>1, PlanStays
  <2>3. /\ f \in PlanFiles /\ NewFiles \subseteq PlanFiles
        /\ f # Compound => f \in NewFiles
        /\ f = Compound => DeltaOfCompound /\ Compound \notin StaleFiles
        /\ DeltaOfCompound => before.compound = "alone"
        /\ Compound \notin Files /\ Compound \notin NewFiles
    <3>1. f \in PlanFiles
      BY <2>1 DEF MovedOK
    <3>2. NewFiles \subseteq Files
      BY FileType DEF NewFiles, Made, Found
    <3> QED
      BY <2>1, <3>1, <3>2, CompoundNoFile, CompoundStale DEF MovedOK, PlanFiles, DeltaOfCompound
  <2>6. CASE f = Compound /\ compound' = "broken" /\ UNCHANGED disk /\ toDelete' = toDelete \ {f} /\ buildError' = buildError
    <3>1. ~Tombstones /\ ~buildError => \A g \in NewFiles : g \in artifacts' \/ (disk'[g] = run /\ g \notin toDelete')
      BY <2>1, <2>3, <2>6 DEF MovedOK
    <3>2. ~Tombstones /\ ~buildError => \A g \in Files \ NewFiles : disk'[g] = IF g \in StaleFiles \ toDelete' THEN Absent ELSE before.disk[g]
      BY <2>1, <2>3, <2>6 DEF MovedOK
    <3>3. toDelete' \subseteq StaleFiles /\ artifacts' \subseteq PlanFiles
      BY <2>1, <2>6 DEF MovedOK
    <3> QED
      BY <2>1, <2>2, <2>3, <2>6, <3>1, <3>2, <3>3 DEF MovedOK
  <2>4. CASE f # Compound /\ UNCHANGED compound /\ disk' = [disk EXCEPT ![f] = run] /\ toDelete' = toDelete \ {f} /\ buildError' = buildError
    <3>1. \A g \in Files : disk'[g] = IF g = f THEN run ELSE disk[g]
      BY <1>t, <2>4
    <3>2. ~Tombstones /\ ~buildError => \A g \in NewFiles : g \in artifacts' \/ (disk'[g] = run /\ g \notin toDelete')
      <4> SUFFICES ASSUME ~Tombstones, ~buildError, NEW g \in NewFiles
                   PROVE  g \in artifacts' \/ (disk'[g] = run /\ g \notin toDelete')
        OBVIOUS
      <4>1. g \in artifacts \/ (disk[g] = run /\ g \notin toDelete)
        BY <2>1 DEF MovedOK
      <4>2. g \in Files
        BY FileType DEF NewFiles, Made, Found
      <4> QED
        BY <2>1, <2>4, <3>1, <4>1, <4>2
    <3>3. ~Tombstones /\ ~buildError => \A g \in Files \ NewFiles : disk'[g] = IF g \in StaleFiles \ toDelete' THEN Absent ELSE before.disk[g]
      BY <2>1, <2>3, <2>4, <3>1 DEF MovedOK
    <3>4. ~Tombstones /\ ~buildError => compound' = IF Compound \in StaleFiles \ toDelete' THEN "removed"
                                                ELSE IF DeltaOfCompound /\ Compound \notin artifacts' THEN "broken" ELSE before.compound
      BY <2>1, <2>3, <2>4 DEF MovedOK
    <3>5. toDelete' \subseteq StaleFiles /\ artifacts' \subseteq PlanFiles /\ (DeltaOfCompound => before.compound = "alone")
      BY <2>1, <2>4 DEF MovedOK
    <3> QED
      BY <2>1, <2>2, <2>4, <3>2, <3>3, <3>4, <3>5 DEF MovedOK
  <2>5. CASE buildError' = TRUE /\ UNCHANGED <<disk, compound, toDelete>>
    BY <2>1, <2>2, <2>5 DEF MovedOK
  <2> QED
    BY <1>5, <2>4, <2>5, <2>6 DEF Rename, dirVars
<1>6. CASE Published
  <2>1. /\ pc = "publish" /\ pc' = "delete" /\ artifacts = {} /\ artifacts' = {}
        /\ UNCHANGED <<run, before, opts, nextShardNum, compound, disk, toDelete, buildError>>
    BY <1>6 DEF Published, callVars, finishVars, dirVars
  <2>2. /\ NewFiles' = NewFiles /\ PlanFiles' = PlanFiles /\ StaleFiles' = StaleFiles
        /\ Tombstones' = Tombstones /\ DeltaOfCompound' = DeltaOfCompound
    BY <2>1, PlanStays
  <2> QED
    BY <2>1, <2>2 DEF MovedOK
<1>7. CASE Return
  <2>1. /\ pc = "delete" /\ pc' = "returned" /\ toDelete = {} /\ (result' = "ok" => ~buildError)
        /\ UNCHANGED <<run, before, opts, nextShardNum, compound, disk, toDelete, artifacts, buildError>>
    BY <1>7 DEF Return, callVars, finishVars, dirVars
  <2>2. /\ NewFiles' = NewFiles /\ PlanFiles' = PlanFiles /\ StaleFiles' = StaleFiles
        /\ Tombstones' = Tombstones /\ DeltaOfCompound' = DeltaOfCompound
    BY <2>1, PlanStays
  <2> QED
    BY <2>1, <2>2 DEF MovedOK
<1>8. ASSUME NEW f \in Files \union {Compound}, Delete(f) PROVE MovedOK'
  <2>1. /\ pc = "delete" /\ pc' = pc /\ f \in toDelete /\ toDelete' = toDelete \ {f}
        /\ UNCHANGED <<run, before, opts, nextShardNum, artifacts>>
    BY <1>8 DEF Delete, callVars
  <2>2. /\ NewFiles' = NewFiles /\ PlanFiles' = PlanFiles /\ StaleFiles' = StaleFiles
        /\ Tombstones' = Tombstones /\ DeltaOfCompound' = DeltaOfCompound
    BY <2>1, PlanStays
  <2>3. /\ toDelete' \subseteq StaleFiles /\ artifacts' \subseteq PlanFiles /\ artifacts' = {} /\ f \in StaleFiles
        /\ (DeltaOfCompound => before.compound = "alone")
    BY <2>1 DEF MovedOK
  <2>4. CASE buildError'
    BY <2>1, <2>2, <2>3, <2>4 DEF MovedOK
  <2>5. CASE ~buildError'
    <3>1. /\ ~buildError
          /\ IF f = Compound THEN compound' = "removed" /\ UNCHANGED disk
             ELSE disk' = [disk EXCEPT ![f] = Absent] /\ UNCHANGED compound
      BY <1>8, <2>5 DEF Delete
    <3>2. \A g \in Files : disk'[g] = IF g = f THEN Absent ELSE disk[g]
      BY <1>t, <3>1, CompoundNoFile
    <3>3. compound' = IF f = Compound THEN "removed" ELSE compound
      BY <3>1
    <3>4. ~Tombstones => f \notin NewFiles
      BY <2>1, <3>1 DEF MovedOK
    <3>5. ~Tombstones => \A g \in NewFiles : disk'[g] = run /\ g \notin toDelete'
      <4> SUFFICES ASSUME ~Tombstones, NEW g \in NewFiles PROVE disk'[g] = run /\ g \notin toDelete'
        OBVIOUS
      <4>1. g \in Files
        BY FileType DEF NewFiles, Made, Found
      <4>2. disk[g] = run /\ g \notin toDelete
        BY <2>1, <3>1 DEF MovedOK
      <4> QED
        BY <2>1, <3>2, <3>4, <4>1, <4>2
    <3>6. ~Tombstones => \A g \in Files \ NewFiles : disk'[g] = IF g \in StaleFiles \ toDelete' THEN Absent ELSE before.disk[g]
      BY <2>1, <2>3, <3>1, <3>2 DEF MovedOK
    <3>7. ~Tombstones => compound' = IF Compound \in StaleFiles \ toDelete' THEN "removed"
                                   ELSE IF DeltaOfCompound /\ Compound \notin artifacts' THEN "broken" ELSE before.compound
      BY <2>1, <2>3, <3>1, <3>3 DEF MovedOK
    <3> QED
      BY <2>1, <2>2, <2>3, <3>5, <3>6, <3>7 DEF MovedOK
  <2> QED
    BY <2>4, <2>5
<1>9. ASSUME NEW o \in {"set", "error", "lost"}, Tombstone(o) PROVE MovedOK'
  <2>1. /\ pc = "delete" /\ pc' = pc /\ Compound \in toDelete /\ opts.merging /\ toDelete' = toDelete \ {Compound}
        /\ UNCHANGED <<run, before, opts, nextShardNum, artifacts>>
    BY <1>9 DEF Tombstone, callVars
  <2>2. /\ NewFiles' = NewFiles /\ PlanFiles' = PlanFiles /\ StaleFiles' = StaleFiles
        /\ Tombstones' = Tombstones /\ DeltaOfCompound' = DeltaOfCompound
    BY <2>1, PlanStays
  <2>3. /\ toDelete' \subseteq StaleFiles /\ artifacts' \subseteq PlanFiles /\ artifacts' = {} /\ Compound \in StaleFiles
        /\ (DeltaOfCompound => before.compound = "alone")
    BY <2>1 DEF MovedOK
  <2>4. Tombstones
    BY <2>1, <2>3, CompoundStale DEF Tombstones
  <2> QED
    BY <2>1, <2>2, <2>3, <2>4 DEF MovedOK
<1> QED
  BY <1>1, <1>2, <1>3, <1>4, <1>5, <1>6, <1>7, <1>8, <1>9 DEF Next, Ending


\* What Stage planned is done when a Finish without tombstones has returned nil.
LEMMA PlanDone ==
  ASSUME TypeOK, MovedOK, Succeeded
  PROVE  /\ \A f \in NewFiles : disk[f] = run
         /\ \A f \in Files \ NewFiles : disk[f] = IF f \in StaleFiles THEN Absent ELSE before.disk[f]
         /\ compound = IF Compound \in StaleFiles THEN "removed"
                       ELSE IF DeltaOfCompound THEN "broken" ELSE before.compound
         /\ DeltaOfCompound => before.compound = "alone"
         /\ run # Absent
<1>1. pc = "returned" /\ result = "ok" /\ ~Tombstones
  BY DEF Succeeded
<1>2. toDelete = {} /\ artifacts = {}
  BY <1>1 DEF MovedOK
<1>3. run # Absent
  BY BuilderAssumption DEF TypeOK, FirstRun, Absent
<1> QED
  BY <1>1, <1>2, <1>3 DEF MovedOK

\* Every document is in the one shard that has it, and that shard is in place.
LEMMA PublishedFollows ==
  ASSUME TypeOK, PartsOK, MovedOK
  PROVE  PublishedOnce
<1> SUFFICES ASSUME Succeeded, NEW d \in before.added + 1 .. added
             PROVE  Cardinality({s \in Slots : disk[Shard(s)] = run /\ d \in part[s]}) = 1
  BY DEF PublishedOnce
<1>1. Fine /\ todo = {} /\ d \in Given
  BY DEF Succeeded, Fine, PartsOK, Given
<1>2. PICK s \in Slots : d \in part[s]
  BY <1>1 DEF PartsOK
<1>3. Shard(s) \in NewFiles
  BY <1>2 DEF PartsOK, NewFiles
<1>4. disk[Shard(s)] = run
  BY <1>3, PlanDone
<1>5. \A t \in Slots : d \in part[t] => t = s
  BY <1>2 DEF PartsOK
<1>6. {t \in Slots : disk[Shard(t)] = run /\ d \in part[t]} = {s}
  BY <1>2, <1>4, <1>5
<1> QED
  BY <1>6, FS_Singleton

\* After a build that is no delta only its own files are there, numbered from 0.
LEMMA ClearedFollows ==
  ASSUME TypeOK, MovedOK, Succeeded, Gapless(before.disk), ~DeltaOfCompound
  PROVE  /\ Gapless(disk)
         /\ ~opts.delta => /\ \A f \in Files : disk[f] \in {Absent, run}
                           /\ Found(before.disk) = {} => ~Live(compound)
<1> DEFINE Old == Found(before.disk)
<1>t. nextShardNum \in Nat /\ Start \in Nat /\ Slots \subseteq Nat /\ 0 \in Slots
  BY StartType, SlotsFinite DEF TypeOK
<1>g. \A f \in Files : before.disk[f] # Absent => f[2] \in Old
  BY DEF Gapless
\* Files that are neither the build's nor from before.
<1>1. \A f \in Files \ NewFiles : ~opts.delta => disk[f] = Absent
  <2> SUFFICES ASSUME NEW f \in Files \ NewFiles, ~opts.delta PROVE disk[f] = Absent
    OBVIOUS
  <2>1. disk[f] = IF f \in StaleFiles THEN Absent ELSE before.disk[f]
    BY PlanDone
  <2>2. CASE f \in StaleFiles
    BY <2>1, <2>2
  <2>3. CASE f \notin StaleFiles
    BY <1>g, <2>1, <2>3 DEF StaleFiles
  <2> QED
    BY <2>2, <2>3
<1>2. \A f \in Files \ NewFiles : opts.delta => disk[f] = before.disk[f]
  BY PlanDone DEF StaleFiles
<1>3. opts.delta => Old = {s \in Slots : s < Start}
  BY PlanDone, FoundInterval, FS_EmptySet DEF Start, CountBefore, DeltaOfCompound
\* The shards up to the last one of the build are there.
<1>4. \A s \in Slots : s < nextShardNum => disk[Shard(s)] # Absent
  <2> SUFFICES ASSUME NEW s \in Slots, s < nextShardNum PROVE disk[Shard(s)] # Absent
    OBVIOUS
  <2>1. CASE Start <= s
    <3>1. Shard(s) \in NewFiles
      BY <2>1 DEF Made, NewFiles
    <3> QED
      BY <3>1, PlanDone
  <2>2. CASE ~(Start <= s)
    <3>1. s < Start /\ s \in Nat /\ Start # 0
      BY <1>t, <2>2
    <3>2. opts.delta /\ s \in Old
      BY <1>3, <3>1 DEF Start
    <3>3. before.disk[Shard(s)] # Absent
      <4>1. s \in 0 .. s
        BY <3>1
      <4> QED
        BY <3>2, <4>1 DEF Found
    <3>4. Shard(s) \notin NewFiles
      BY <2>2, FilesDiffer DEF NewFiles, Made
    <3> QED
      BY <1>2, <3>2, <3>3, <3>4, FileType
  <2> QED
    BY <2>1, <2>2
\* Those from before that stay are there without a gap.
<1>5. opts.delta => \A s \in Old : \A t \in 0 .. s : disk[Shard(t)] # Absent
  <2> SUFFICES ASSUME opts.delta, NEW s \in Old, NEW t \in 0 .. s PROVE disk[Shard(t)] # Absent
    OBVIOUS
  <2>0. s \in Slots /\ s \in Nat /\ s < Start
    BY <1>3, <1>t
  <2>1. t \in Nat /\ t <= s
    BY <2>0
  <2>2. t \in Slots /\ ~(Start <= t)
    BY <1>t, <2>0, <2>1, BuilderAssumption DEF Slots
  <2>3. Shard(t) \notin NewFiles
    BY <2>2, FilesDiffer DEF NewFiles, Made
  <2> QED
    BY <1>2, <2>2, <2>3, FileType DEF Found
<1>6. \A s \in Slots : \A t \in 0 .. s : t \in Slots
  BY <1>t, BuilderAssumption DEF Slots
<1>7. \A s \in Made : s \in Found(disk)
  <2> SUFFICES ASSUME NEW s \in Made, NEW t \in 0 .. s PROVE disk[Shard(t)] # Absent
    BY DEF Found, Made
  <2>1. s \in Slots /\ s \in Nat /\ s < nextShardNum /\ t \in Nat /\ t <= s
    BY <1>t DEF Made
  <2>2. t < nextShardNum
    BY <1>t, <2>1
  <2> QED
    BY <1>4, <1>6, <2>1, <2>2
<1>8. opts.delta => \A s \in Old : s \in Found(disk)
  BY <1>5 DEF Found
<1>9. Gapless(disk)
  <2> SUFFICES ASSUME NEW f \in Files, disk[f] # Absent PROVE f[2] \in Found(disk)
    BY DEF Gapless
  <2>1. CASE f \in NewFiles
    <3>1. CASE \E s \in Made : f = Shard(s)
      BY <1>7, <3>1, FilesDiffer DEF Made
    <3>2. CASE opts.delta /\ \E s \in Old : f = Meta(s)
      BY <1>3, <1>8, <3>2, FilesDiffer
    <3> QED
      BY <2>1, <3>1, <3>2 DEF NewFiles
  <2>2. CASE f \notin NewFiles
    <3>1. opts.delta /\ before.disk[f] # Absent
      BY <1>1, <1>2, <2>2
    <3> QED
      BY <1>8, <1>g, <3>1
  <2> QED
    BY <2>1, <2>2
<1>10. ASSUME ~opts.delta, NEW f \in Files PROVE disk[f] \in {Absent, run}
  BY <1>1, <1>10, PlanDone
<1>11. ASSUME ~opts.delta, Found(before.disk) = {} PROVE ~Live(compound)
  <2>1. Live(before.compound) => Compound \in StaleFiles
    BY <1>11 DEF StaleFiles
  <2> QED
    BY <2>1, PlanDone DEF Live
<1> QED
  BY <1>9, <1>10, <1>11

\* A delta build has put new metadata beside every older shard, and over the compound one.
LEMMA DeltaFollows ==
  ASSUME TypeOK, MovedOK
  PROVE  DeltaMarksAll
<1> SUFFICES ASSUME Succeeded, opts.delta
             PROVE  /\ \A s \in Found(before.disk) : disk[Meta(s)] = run
                    /\ DeltaOfCompound => /\ before.compound = "alone" /\ compound = "broken"
                                          /\ disk[Shard(0)] = Absent
  BY DEF DeltaMarksAll
<1>1. \A s \in Found(before.disk) : Meta(s) \in NewFiles
  BY DEF NewFiles
<1>2. \A s \in Found(before.disk) : disk[Meta(s)] = run
  BY <1>1, PlanDone
<1>3. ASSUME DeltaOfCompound PROVE disk[Shard(0)] = Absent
  <2>1. Start = 1 /\ Found(before.disk) = {} /\ 0 \in Slots
    BY <1>3, SlotsFinite DEF Start, CountBefore, DeltaOfCompound
  <2>2. before.disk[Shard(0)] = Absent
    <3>1. 0 \notin Found(before.disk) /\ \A t \in 0 .. 0 : t = 0
      BY <2>1
    <3> QED
      BY <2>1, <3>1 DEF Found
  <2>3. Shard(0) \in Files \ NewFiles
    <3>1. Shard(0) \in Files /\ 0 \notin Made
      BY <2>1, FileType DEF Made
    <3> QED
      BY <2>1, <3>1, FilesDiffer DEF NewFiles, Made, Found
  <2>4. Shard(0) \notin StaleFiles
    BY DEF StaleFiles
  <2> QED
    BY <2>2, <2>3, <2>4, PlanDone
<1>4. DeltaOfCompound => before.compound = "alone" /\ compound = "broken"
  BY PlanDone, CompoundStale
<1> QED
  BY <1>2, <1>3, <1>4

\* What a Finish or an Abort that returned leaves follows from where it is in its plan.
LEMMA FinishFollows ==
  ASSUME TypeOK, PartsOK, MovedOK, TempsOK
  PROVE  FinishExact
<1>1. PublishedOnce /\ DeltaMarksAll /\ TempsRemoved
  BY PublishedFollows, DeltaFollows DEF TempsOK
<1>2. StaleCleared
  BY ClearedFollows DEF StaleCleared
<1> QED
  BY <1>1, <1>2 DEF FinishExact

\* Nothing has been built when the builder's process starts.
LEMMA InitPlan == Init => NumbersOK /\ PartsOK /\ MadeOK /\ MovedOK /\ TempsOK
<1> SUFFICES ASSUME Init PROVE NumbersOK /\ PartsOK /\ MadeOK /\ MovedOK /\ TempsOK
  OBVIOUS
<1>1. /\ pc = "idle" /\ added = 0 /\ todo = {} /\ nextShardNum = 0 /\ before.added = 0
      /\ part = [s \in Slots |-> {}] /\ worker = NoWorkers /\ finished = {} /\ artifacts = {} /\ result = "none"
  BY DEF Init
<1>2. \A s \in Slots : disk[Shard(s)] # Absent => s <= MaxOld + 0
  <2>1. PICK old \in 0 .. MaxOld : \E m \in SUBSET (0 .. MaxOld - 1) :
          disk = [f \in Files |-> IF f[2] < old /\ (f[1] = "shard" \/ f[2] \in m) THEN FirstRun ELSE Absent]
    BY DEF Init
  <2> SUFFICES ASSUME NEW s \in Slots, disk[Shard(s)] # Absent PROVE s <= MaxOld + 0
    OBVIOUS
  <2>2. s < old
    BY <2>1, FileType, FilesDiffer
  <2> QED
    BY <2>2, BuilderAssumption, SlotsFinite
<1>3. \A s \in Slots : worker[s] = "none"
  BY <1>1 DEF NoWorkers
<1>4. 0 <= MaxOld + 1 + 0
  BY BuilderAssumption
<1>5. NumbersOK
  BY <1>1, <1>2, <1>3, <1>4 DEF NumbersOK
<1>6. Given = {}
  BY <1>1 DEF Given
<1> QED
  BY <1>1, <1>3, <1>5, <1>6 DEF PartsOK, MadeOK, MovedOK, TempsOK, TempsRemoved, Building

\* The plan of a build is kept along with everything else.
PlanOK == NumbersOK /\ PartsOK /\ MadeOK /\ MovedOK /\ TempsOK

\* Both invariants hold as the Builder is used again and again.
LEMMA Inductive == Spec => [](IInv /\ PlanOK)
<1>1. Init => IInv /\ PlanOK
  BY InitInv, InitPlan DEF PlanOK
<1>2. IInv /\ PlanOK /\ [Next]_vars => (IInv /\ PlanOK)'
  BY TypeNext, ThrottleNext, WorkersNext, FlushingNext, BadNext, CallerNext, UntouchedNext,
     NumbersNext, PartsNext, MadeNext, MovedNext, TempsNext DEF IInv, PlanOK
<1> QED
  BY <1>1, <1>2, PTL DEF Spec

\* Every variable of the builder keeps its type; that the throttle never holds less than
\* nothing needs that every goroutine that leaves it has entered it.
THEOREM TypeCorrect == Spec => []TypeOK
<1>1. IInv => TypeOK
  BY DEF IInv
<1> QED
  BY <1>1, Inductive, PTL

\* flush starts no more than Parallelism goroutines at a time, whatever the documents.
THEOREM BuildsCorrect == Spec => []BuildsBounded
<1>1. IInv => BuildsBounded
  BY DEF IInv, ThrottleOK, BuildsBounded
<1> QED
  BY <1>1, Inductive, PTL

\* Finish renames and removes nothing unless every shard of the build was built, and Abort
\* nothing at all, whatever fails and whenever the process dies.
THEOREM UntouchedCorrect == Spec => []UntouchedUnlessWhole
<1>1. IInv => UntouchedUnlessWhole
  BY DEF IInv
<1> QED
  BY <1>1, Inductive, PTL

\* A Finish that returns nil has put every document in place exactly once, has removed what
\* an earlier build left where FindAllShards could see it and has left no gap; a delta build
\* has marked every older shard; Finish and Abort leave no temporary file but those of shards
\* that failed: whatever shards, failures, crashes and earlier builds there are.
THEOREM FinishCorrect == Spec => []FinishExact
<1>1. IInv /\ PlanOK => FinishExact
  BY FinishFollows DEF IInv, PlanOK
<1> QED
  BY <1>1, Inductive, PTL
=============================================================================
