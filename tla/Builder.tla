------------------------------- MODULE Builder -------------------------------
(***************************************************************************)
(* Builder of index/builder.go: documents are collected into shards, the   *)
(* shards are built by goroutines, and Finish moves them into place and    *)
(* clears what an earlier build left, while any build, rename or removal   *)
(* may fail and the process may die.                                       *)
(*                                                                         *)
(* One repository; its builds follow each other (indexMutex sees to that). *)
(* A shard file is known by its number, its content by the build that      *)
(* wrote it.                                                               *)
(***************************************************************************)
EXTENDS Naturals, FiniteSets

CONSTANTS Parallelisms,  \* values of Options.Parallelism
          Callers,       \* programs that use a Builder, see OnInputError
          Sizes,         \* what a document adds to Builder.size
          ShardMax,      \* Options.ShardMax
          MaxDocs,       \* bound: documents, in all builds
          MaxOld,        \* bound: shards there are at the start
          MaxRuns,       \* bound: builds
          MaxFails,      \* bound: builds, renames and removals that fail, in all builds
          MaxCrashes     \* bound: times the process dies

ASSUME BuilderAssumption ==
  /\ Parallelisms \subseteq Nat \ {0} /\ Parallelisms # {}
  /\ Callers \subseteq {"watch", "git", "archive"} /\ Callers # {}
  /\ Sizes \subseteq Nat
  /\ ShardMax \in Nat /\ MaxDocs \in Nat /\ MaxOld \in Nat
  /\ MaxRuns \in Nat /\ MaxFails \in Nat /\ MaxCrashes \in Nat

\* A build makes at most one shard per document, or one of no document.
Slots == 0 .. MaxOld + MaxDocs
Docs == 1 .. MaxDocs

Shard(s) == <<"shard", s>>
Meta(s) == <<"meta", s>>
Files == {"shard", "meta"} \X Slots
\* The compound shard the repository may be part of, with its .meta.
Compound == <<"compound", 0>>

\* The repository in the compound shard: absent; there, with other live repositories or with
\* none; tombstoned; gone with the shard; there, under a .meta no reader can parse.
CompoundStates == {"none", "shared", "alone", "dead", "removed", "broken"}
\* findCompoundShard finds it.
Live(c) == c \in {"shared", "alone"}

Absent == 0
FirstRun == 1
Gens == Absent .. MaxRuns + FirstRun

VARIABLES
  run,         \* the build; files at the start are of FirstRun
  opts,        \* what the caller passes: IsDelta, ShardMerging and Parallelism
  pc,          \* the goroutine that calls the Builder
  added,       \* documents added, in all builds
  todo, size, nextShardNum,
  part,        \* part[s]: the documents of this build's shard s
  worker,      \* worker[s]: the goroutine that builds shard s
  throttle,    \* elements in the channel
  buildError,  \* buildError # nil
  finished,    \* shards in finishedShards
  temps,       \* files of which this build has left a temporary version
  artifacts,   \* artifactPaths yet to be renamed
  toDelete,
  disk,        \* disk[f]: the build that wrote f, or Absent
  compound,
  fails, crashes,
  bad,         \* history: shards of this build that could not be built
  onError,     \* what the caller does because it could not read all of its input
  result,      \* what Finish or Abort returned
  before       \* history: added, disk and compound when the build started

dirVars == <<disk, compound>>
callVars == <<run, opts, added, before, crashes>>
finishVars == <<artifacts, toDelete>>
vars == <<callVars, pc, todo, size, nextShardNum, part, worker, throttle, buildError, finished,
          temps, finishVars, dirVars, fails, bad, onError, result>>

Options == [delta : BOOLEAN, merging : BOOLEAN, par : Parallelisms]

NoWorkers == [s \in Slots |-> "none"]
AllDone == worker = NoWorkers

(***************************************************************************)
(* What is on disk.                                                        *)
(***************************************************************************)
\* FindAllShards: the simple shards up to the first number that is missing.
Found(d) == {s \in Slots : \A t \in 0 .. s : d[Shard(t)] # Absent}

\* Mutation: the .meta files of old shards are forgotten.
OldFilesNoMeta ==
  IF Found(disk) # {} THEN {f \in Files : f[1] = "shard" /\ f[2] \in Found(disk) /\ disk[f] # Absent}
  ELSE IF Live(compound) THEN {Compound} ELSE {}

\* The paths of the shards FindAllShards returns, each with its .meta if there is one.
OldFiles ==
  IF Found(disk) # {} THEN {f \in Files : f[2] \in Found(disk) /\ disk[f] # Absent}
  ELSE IF Live(compound) THEN {Compound} ELSE {}

\* len(FindAllShards()).
CountOld == IF Found(disk) # {} THEN Cardinality(Found(disk)) ELSE IF Live(compound) THEN 1 ELSE 0

Init ==
  /\ run = FirstRun /\ pc = "idle"
  /\ \E old \in 0 .. MaxOld, m \in SUBSET (0 .. MaxOld - 1), c \in {"none", "shared", "alone"} :
       /\ Live(c) => old = 0
       /\ \A s \in m : s < old
       /\ disk = [f \in Files |-> IF f[2] < old /\ (f[1] = "shard" \/ f[2] \in m) THEN FirstRun ELSE Absent]
       /\ compound = c
  /\ opts = CHOOSE o \in Options : TRUE
  /\ before = [added |-> 0, disk |-> disk, compound |-> compound]
  /\ added = 0 /\ todo = {} /\ size = 0 /\ nextShardNum = 0
  /\ part = [s \in Slots |-> {}] /\ worker = NoWorkers /\ throttle = 0
  /\ buildError = FALSE /\ finished = {} /\ temps = {} /\ artifacts = {} /\ toDelete = {}
  /\ fails = 0 /\ crashes = 0 /\ bad = {} /\ onError = "none" /\ result = "none"

(***************************************************************************)
(* Building.                                                               *)
(***************************************************************************)
NewBuilder(o) ==
  /\ pc \in {"idle", "returned"} /\ run < MaxRuns + FirstRun
  /\ o.merging => Live(compound)  \* else it makes no difference
  /\ run' = run + 1 /\ opts' = o /\ pc' = "adding"
  /\ nextShardNum' = IF o.delta THEN CountOld ELSE 0
  /\ before' = [added |-> added, disk |-> disk, compound |-> compound]
  /\ todo' = {} /\ size' = 0
  /\ part' = [s \in Slots |-> {}] /\ worker' = NoWorkers /\ throttle' = 0
  /\ buildError' = FALSE /\ finished' = {} /\ temps' = {} /\ artifacts' = {} /\ toDelete' = {}
  /\ bad' = {} /\ onError' = "none" /\ result' = "none"
  /\ UNCHANGED <<added, fails, crashes, dirVars>>

\* flush, given the documents collected; cont is where the caller goes on.  The lock is
\* held until the goroutine has its place in the throttle, and no one else holds it for long.
Flush(docs, cont) ==
  /\ todo' = {} /\ size' = 0
  /\ IF buildError \/ (docs = {} /\ nextShardNum > 0)
     THEN pc' = cont /\ UNCHANGED <<nextShardNum, part, worker>>
     ELSE /\ part' = [part EXCEPT ![nextShardNum] = docs]
          /\ nextShardNum' = nextShardNum + 1
          /\ worker' = [worker EXCEPT ![nextShardNum] = IF opts.par > 1 THEN "throttled" ELSE "inline"]
          /\ pc' = IF cont = "adding" THEN "flushing" ELSE "lastFlush"

After == IF pc = "flushing" THEN "adding" ELSE "wait"

\* Add and AddPrepared.
Add(sz) ==
  /\ pc = "adding" /\ added < MaxDocs /\ onError = "none"
  /\ added' = added + 1
  /\ IF size + sz > ShardMax
     THEN Flush(todo \union {added + 1}, "adding")
     ELSE /\ todo' = todo \union {added + 1} /\ size' = size + sz
          /\ UNCHANGED <<pc, nextShardNum, part, worker>>
  /\ UNCHANGED <<run, opts, before, crashes, throttle, buildError, finished, temps, finishVars, dirVars,
                 fails, bad, onError, result>>

\* b.throttle <- 1, and the goroutine starts.
Throttle(s) ==
  /\ worker[s] = "throttled" /\ throttle < opts.par
  /\ throttle' = throttle + 1
  /\ worker' = [worker EXCEPT ![s] = "building"]
  /\ pc' = After
  /\ UNCHANGED <<callVars, todo, size, nextShardNum, part, buildError, finished, temps, finishVars,
                 dirVars, fails, bad, onError, result>>

\* buildShard returns: the temporary file is complete, or there was an error before it was
\* there, or after.
BuildShard(s, ok, left) ==
  /\ worker[s] = "building"
  /\ ok => left
  /\ ~ok => fails < MaxFails
  /\ worker' = [worker EXCEPT ![s] = IF ok THEN "built" ELSE "failed"]
  /\ fails' = IF ok THEN fails ELSE fails + 1
  /\ bad' = IF ok THEN bad ELSE bad \union {s}
  /\ temps' = IF left THEN temps \union {Shard(s)} ELSE temps
  /\ UNCHANGED <<callVars, pc, todo, size, nextShardNum, part, throttle, buildError, finished,
                 finishVars, dirVars, onError, result>>

\* flush holds errMu while it waits for the throttle.
ErrMuFree == \A s \in Slots : worker[s] # "throttled"

\* Mutation: the place in the throttle is given back under errMu.
UnthrottleLocked(s) ==
  /\ worker[s] \in {"built", "failed"} /\ ErrMuFree
  /\ throttle' = throttle - 1
  /\ worker' = [worker EXCEPT ![s] = IF @ = "built" THEN "recordDone" ELSE "recordError"]
  /\ UNCHANGED <<callVars, pc, todo, size, nextShardNum, part, buildError, finished, temps, finishVars,
                 dirVars, fails, bad, onError, result>>

\* <-b.throttle
Unthrottle(s) ==
  /\ worker[s] \in {"built", "failed"}
  /\ throttle' = throttle - 1
  /\ worker' = [worker EXCEPT ![s] = IF @ = "built" THEN "recordDone" ELSE "recordError"]
  /\ UNCHANGED <<callVars, pc, todo, size, nextShardNum, part, buildError, finished, temps, finishVars,
                 dirVars, fails, bad, onError, result>>

\* The goroutine's critical section, and building.Done.
Record(s) ==
  /\ worker[s] \in {"recordDone", "recordError"} /\ ErrMuFree
  /\ worker' = [worker EXCEPT ![s] = "none"]
  /\ IF worker[s] = "recordDone"
     THEN finished' = finished \union {s} /\ UNCHANGED buildError
     ELSE buildError' = TRUE /\ UNCHANGED finished
  /\ UNCHANGED <<callVars, pc, todo, size, nextShardNum, part, throttle, temps, finishVars, dirVars,
                 fails, bad, onError, result>>

\* Parallelism 1: the shard is built by the caller.
BuildInline(s, ok, left) ==
  /\ worker[s] = "inline"
  /\ ok => left
  /\ ~ok => fails < MaxFails
  /\ worker' = [worker EXCEPT ![s] = "none"]
  /\ fails' = IF ok THEN fails ELSE fails + 1
  /\ bad' = IF ok THEN bad ELSE bad \union {s}
  /\ temps' = IF left THEN temps \union {Shard(s)} ELSE temps
  /\ buildError' = ~ok
  /\ finished' = IF ok THEN finished \union {s} ELSE finished
  /\ pc' = After
  /\ UNCHANGED <<callVars, todo, size, nextShardNum, part, throttle, finishVars, dirVars, onError, result>>

(***************************************************************************)
(* The end of a build.                                                     *)
(***************************************************************************)
\* Reading the input failed: the file watcher of zoekt-index defers Abort, gitindex defers
\* Finish, the archive indexer just returns, and the program exits.
OnInputError(c) == CASE c = "watch" -> "abort" [] c = "git" -> "finish" [] c = "archive" -> "exit"

InputFails(c) ==
  /\ pc = "adding" /\ onError = "none"
  /\ onError' = OnInputError(c)
  /\ UNCHANGED <<callVars, pc, todo, size, nextShardNum, part, worker, throttle, buildError, finished,
                 temps, finishVars, dirVars, fails, bad, result>>

CallFinish ==
  /\ pc = "adding"
  /\ onError \in {"none", "finish"}
  /\ Flush(todo, "wait")
  /\ UNCHANGED <<callVars, throttle, buildError, finished, temps, finishVars, dirVars, fails, bad,
                 onError, result>>

CallAbort ==
  /\ pc = "adding" /\ onError = "abort"
  /\ todo' = {} /\ pc' = "abortWait"
  /\ UNCHANGED <<callVars, size, nextShardNum, part, worker, throttle, buildError, finished, temps,
                 finishVars, dirVars, fails, bad, onError, result>>

RemoveTemps == temps' = temps \ {Shard(s) : s \in finished} /\ finished' = {}

\* Abort after building.Wait.
Abort ==
  /\ pc = "abortWait" /\ AllDone
  /\ RemoveTemps
  /\ buildError' = TRUE /\ result' = "aborted" /\ pc' = "returned"
  /\ UNCHANGED <<callVars, todo, size, nextShardNum, part, worker, throttle, finishVars, dirVars,
                 fails, bad, onError>>

\* Finish after building.Wait, when a shard could not be built.
GiveUp ==
  /\ pc = "wait" /\ AllDone /\ buildError
  /\ RemoveTemps
  /\ result' = "error" /\ pc' = "returned"
  /\ UNCHANGED <<callVars, todo, size, nextShardNum, part, worker, throttle, buildError, finishVars,
                 dirVars, fails, bad, onError>>

\* A delta build cannot read or extend the metadata of old shard k, or the old shard is a
\* compound one with several live repositories: the new metadata of the shards before k stays
\* behind, as do the shards.
RejectDelta(k) ==
  /\ pc = "wait" /\ AllDone /\ ~buildError /\ opts.delta
  /\ \/ k \in Found(disk) /\ fails < MaxFails /\ fails' = fails + 1
     \/ k = 0 /\ OldFiles = {Compound} /\ compound = "shared" /\ UNCHANGED fails
     \/ k = 0 /\ OldFiles = {Compound} /\ fails < MaxFails /\ fails' = fails + 1
  /\ temps' = temps \union {Meta(s) : s \in {t \in Slots : t < k}}
  /\ result' = "error" /\ pc' = "returned"
  /\ UNCHANGED <<callVars, todo, size, nextShardNum, part, worker, throttle, buildError, finished,
                 finishVars, dirVars, bad, onError>>

\* The .meta files a delta build writes, Compound standing for the compound shard's.
NewMetas ==
  IF ~opts.delta THEN {}
  ELSE IF OldFiles = {Compound} THEN {Compound} ELSE {Meta(s) : s \in Found(disk)}

\* Mutation: the shards that could be built are published.
StageAnyway ==
  /\ pc = "wait" /\ AllDone
  /\ opts.delta /\ OldFiles = {Compound} => compound = "alone"
  /\ temps' = temps \union NewMetas
  /\ artifacts' = {Shard(s) : s \in finished} \union NewMetas
  /\ toDelete' = IF opts.delta THEN {} ELSE OldFiles
  /\ IF artifacts' = {} THEN pc' = "returned" /\ result' = "ok" ELSE pc' = "publish" /\ UNCHANGED result
  /\ UNCHANGED <<callVars, todo, size, nextShardNum, part, worker, throttle, buildError, finished,
                 dirVars, fails, bad, onError>>

\* artifactPaths and toDelete.
Stage ==
  /\ pc = "wait" /\ AllDone /\ ~buildError
  /\ opts.delta /\ OldFiles = {Compound} => compound = "alone"
  /\ temps' = temps \union NewMetas
  /\ artifacts' = {Shard(s) : s \in finished} \union NewMetas
  /\ toDelete' = IF opts.delta THEN {} ELSE OldFiles
  /\ IF artifacts' = {} THEN pc' = "returned" /\ result' = "ok" ELSE pc' = "publish" /\ UNCHANGED result
  /\ UNCHANGED <<callVars, todo, size, nextShardNum, part, worker, throttle, buildError, finished,
                 dirVars, fails, bad, onError>>

\* Map iteration takes the artifacts in any order.  The .meta of a compound shard is written
\* as that of a simple one, an object and not a list, which parseMetadata rejects.
Rename(f) ==
  /\ pc = "publish" /\ f \in artifacts
  /\ artifacts' = artifacts \ {f}
  /\ \/ /\ IF f = Compound THEN compound' = "broken" /\ UNCHANGED disk
           ELSE disk' = [disk EXCEPT ![f] = run] /\ UNCHANGED compound
        /\ temps' = temps \ {f} /\ toDelete' = toDelete \ {f}
        /\ UNCHANGED <<buildError, fails>>
     \/ /\ fails < MaxFails /\ fails' = fails + 1 /\ buildError' = TRUE
        /\ UNCHANGED <<dirVars, temps, toDelete>>
  /\ UNCHANGED <<callVars, pc, todo, size, nextShardNum, part, worker, throttle, finished, bad,
                 onError, result>>

Published ==
  /\ pc = "publish" /\ artifacts = {}
  /\ pc' = "delete" /\ finished' = {}
  /\ UNCHANGED <<callVars, todo, size, nextShardNum, part, worker, throttle, buildError, temps, finishVars,
                 dirVars, fails, bad, onError, result>>

\* os.Remove: of a simple shard's files, or of a compound shard when merging is off.
Delete(f) ==
  /\ pc = "delete" /\ f \in toDelete /\ (f = Compound => ~opts.merging)
  /\ toDelete' = toDelete \ {f}
  /\ \/ /\ IF f = Compound THEN compound' = "removed" /\ UNCHANGED disk
           ELSE disk' = [disk EXCEPT ![f] = Absent] /\ UNCHANGED compound
        /\ UNCHANGED <<buildError, fails>>
     \/ fails < MaxFails /\ fails' = fails + 1 /\ buildError' = TRUE /\ UNCHANGED dirVars
  /\ UNCHANGED <<callVars, pc, todo, size, nextShardNum, part, worker, throttle, finished, temps, artifacts,
                 bad, onError, result>>

\* SetTombstone: its error, or nil, becomes the build error; a failed rename is no error.
Tombstone(outcome) ==
  /\ pc = "delete" /\ Compound \in toDelete /\ opts.merging
  /\ toDelete' = toDelete \ {Compound}
  /\ outcome # "set" => fails < MaxFails
  /\ fails' = IF outcome = "set" THEN fails ELSE fails + 1
  /\ compound' = IF outcome = "set" THEN "dead" ELSE compound
  /\ buildError' = (outcome = "error")
  /\ UNCHANGED <<callVars, pc, todo, size, nextShardNum, part, worker, throttle, finished, temps, artifacts,
                 disk, bad, onError, result>>

Return ==
  /\ pc = "delete" /\ toDelete = {}
  /\ pc' = "returned" /\ result' = IF buildError THEN "error" ELSE "ok"
  /\ UNCHANGED <<callVars, todo, size, nextShardNum, part, worker, throttle, buildError, finished, temps,
                 finishVars, dirVars, fails, bad, onError>>

\* The process is gone, goroutines and all.
Stop(how) ==
  /\ pc' = "idle" /\ worker' = NoWorkers /\ throttle' = 0 /\ todo' = {}
  /\ finished' = {} /\ artifacts' = {} /\ toDelete' = {} /\ result' = how
  /\ UNCHANGED <<run, opts, added, before, size, nextShardNum, part, buildError, temps, dirVars, fails, bad,
                 onError>>

Exit ==
  /\ pc = "adding" /\ onError = "exit"
  /\ Stop("error") /\ UNCHANGED crashes

Crash ==
  /\ pc \notin {"idle", "returned"} /\ crashes < MaxCrashes
  /\ crashes' = crashes + 1
  /\ Stop("crashed")

Worker(s) ==
  \/ Throttle(s)
  \/ \E ok, left \in BOOLEAN : BuildShard(s, ok, left)
  \/ Unthrottle(s)
  \/ Record(s)
  \/ \E ok, left \in BOOLEAN : BuildInline(s, ok, left)

Ending ==
  \/ Abort \/ GiveUp \/ Stage
  \/ \E k \in Slots : RejectDelta(k)
  \/ \E f \in Files \union {Compound} : Rename(f)
  \/ Published
  \/ \E f \in Files \union {Compound} : Delete(f)
  \/ \E o \in {"set", "error", "lost"} : Tombstone(o)
  \/ Return

Next ==
  \/ \E o \in Options : NewBuilder(o)
  \/ \E sz \in Sizes : Add(sz)
  \/ \E s \in Slots : Worker(s)
  \/ \E c \in Callers : InputFails(c)
  \/ CallFinish \/ CallAbort
  \/ Ending
  \/ Exit \/ Crash

Spec == Init /\ [][Next]_vars

\* While some goroutine can go on, one does; nothing makes the caller add, finish or abort.
FairSpec == Spec /\ WF_vars(Ending \/ \E s \in Slots : Worker(s))

(***************************************************************************)
(* Properties                                                              *)
(***************************************************************************)
\* Up to the point where building.Wait returns.
Building == {"adding", "flushing", "lastFlush", "wait", "abortWait"}

WorkerStates == {"none", "throttled", "inline", "building", "built", "failed", "recordDone", "recordError"}

\* The variables have their types.
TypeOK ==
  /\ run \in FirstRun .. MaxRuns + FirstRun /\ opts \in Options
  /\ pc \in {"idle", "publish", "delete", "returned"} \union Building
  /\ added \in 0 .. MaxDocs /\ todo \subseteq Docs /\ size \in 0 .. ShardMax
  /\ nextShardNum \in Nat /\ part \in [Slots -> SUBSET Docs]
  /\ worker \in [Slots -> WorkerStates]
  /\ throttle \in Nat /\ buildError \in BOOLEAN
  /\ finished \subseteq Slots /\ bad \subseteq Slots /\ temps \subseteq Files \union {Compound}
  /\ artifacts \subseteq Files \union {Compound} /\ toDelete \subseteq Files \union {Compound}
  /\ disk \in [Files -> Gens] /\ compound \in CompoundStates
  /\ fails \in 0 .. MaxFails /\ crashes \in 0 .. MaxCrashes
  /\ onError \in {"none", "abort", "finish", "exit"} /\ result \in {"none", "ok", "error", "aborted", "crashed"}
  /\ before \in [added : 0 .. MaxDocs, disk : [Files -> Gens], compound : CompoundStates]
\* The goroutines that w has between taking and giving back their place in the throttle.
InThrottle(w) == {s \in Slots : w[s] \in {"building", "built", "failed"}}

\* At most Parallelism shards are in memory being built, however fast documents come.
BuildsBounded == Cardinality(InThrottle(worker)) <= opts.par

Untouched == disk = before.disk /\ compound = before.compound

\* "We only rename them once all shards succeed to avoid Frankstein corpuses": while shards
\* are being built, if one could not be built, if the build was aborted, and if a caller
\* other than gitindex could not read its input, the index is the one there was before.
UntouchedUnlessWhole ==
  \/ bad # {} \/ result = "aborted" \/ onError \in {"abort", "exit"}
  \/ pc \in Building
  => Untouched

\* Finish sets tombstones in a compound shard: a nil from SetTombstone hides earlier errors.
Tombstones == ~opts.delta /\ opts.merging /\ Found(before.disk) = {} /\ Live(before.compound)

Succeeded == pc = "returned" /\ result = "ok" /\ ~Tombstones

\* The one Finish that returns nil and is not exact: a delta build over a compound shard with
\* no other live repository is not rejected.  It leaves the compound shard with a .meta no
\* reader can parse, and since it numbers its own shards from 1, FindAllShards sees none.
DeltaOfCompound == opts.delta /\ Found(before.disk) = {} /\ Live(before.compound)

\* Every document given to a build whose Finish returned nil is in exactly one of the shards
\* the build has put in place; flushes, goroutines and renames lose and repeat none.
PublishedOnce ==
  Succeeded => \A d \in before.added + 1 .. added : Cardinality({s \in Slots : disk[Shard(s)] = run /\ d \in part[s]}) = 1

\* FindAllShards sees every file of the repository.
Gapless(d) == \A f \in Files : d[f] # Absent => f[2] \in Found(d)

\* Finish "clears stale shards from previous runs", their .meta files and the compound shard
\* included, provided FindAllShards could see all of them, and leaves nothing it cannot see,
\* DeltaOfCompound excepted.
StaleCleared ==
  Succeeded /\ Gapless(before.disk) /\ ~DeltaOfCompound =>
    /\ Gapless(disk)
    /\ ~opts.delta => /\ \A f \in Files : disk[f] \in {Absent, run}
                      /\ Found(before.disk) = {} => ~Live(compound)

\* A delta build that succeeds has marked the changed files in every older shard; what it
\* does to a compound one is stated as it is.
DeltaMarksAll ==
  Succeeded /\ opts.delta => /\ \A s \in Found(before.disk) : disk[Meta(s)] = run
                             /\ DeltaOfCompound => /\ before.compound = "alone" /\ compound = "broken"
                                                   /\ disk[Shard(0)] = Absent

\* Finish and Abort remove the temporary files of the shards they do not publish; only a
\* shard that could not be built leaves one.
TempsRemoved ==
  pc = "returned" /\ (result = "aborted" \/ bad # {}) => temps \subseteq {Shard(s) : s \in bad}

\* What a Finish or an Abort that returned leaves in the directory, DeltaOfCompound named.
FinishExact == PublishedOnce /\ StaleCleared /\ DeltaMarksAll /\ TempsRemoved

\* Neither flush, which waits for the throttle under the lock that the goroutines need, nor
\* Finish and Abort wait forever.
Returns ==
  /\ pc = "flushing" ~> pc # "flushing"
  /\ pc \in {"lastFlush", "wait", "abortWait", "publish", "delete"} ~> pc \in {"returned", "idle"}

\* "Use Abort instead if input collection fails, so incomplete input cannot replace the
\* previous repository" (Finish): what all callers of the Builder do.
IncompleteNeverPublished == onError # "none" => Untouched
=============================================================================
