------------------------------ MODULE IndexDir ------------------------------
(***************************************************************************)
(* The index directory of zoekt-sourcegraph-indexserver, as the sync loop, *)
(* index jobs, cleanup, merge and vacuum change it: simple shards, the     *)
(* trash, compound shards and the tombstones in their .meta files.         *)
(*                                                                         *)
(* The lock is RepoLock: jobs hold it for their repository, cleanup, merge *)
(* and vacuum for the whole directory.  So merge and each vacuum of a      *)
(* shard are one step, with an outcome for each place where they may stop; *)
(* cleanup restores and discards one repository after the other, with a    *)
(* crash possible between any two; its first loops, whose removals the     *)
(* next cleanup would repeat, are one step.  A shard is known by the       *)
(* version of the repository it holds; a job writes the shards of a        *)
(* version at once (see Builder).                                          *)
(***************************************************************************)
EXTENDS Naturals, FiniteSets

CONSTANTS Repos,       \* repository ids
          MaxVer,      \* bound: versions of a repository
          Shape,       \* Shape[r][v]: name of r at version v, its number of shards, whether it has documents
          Jobs,        \* index jobs that may run at once, IndexConcurrency
          MaxChanges,  \* bound: changes of what Sourcegraph wants indexed
          MaxMerges,   \* bound: merges
          MaxFaults    \* bound: failed jobs, renames and removals, and crashes

Versions == 1 .. MaxVer
Names == {Shape[r][v].name : r \in Repos, v \in Versions}
Parts == 0 .. 1

ASSUME DirAssumption ==
  /\ \A r \in Repos, v \in Versions : Shape[r][v].parts \in 1 .. 2 /\ Shape[r][v].docs \in BOOLEAN
  /\ \A r, s \in Repos : \A v, w \in Versions : Shape[r][v].name = Shape[s][w].name => r = s
  /\ {MaxVer, MaxChanges, MaxMerges, MaxFaults} \subseteq Nat /\ MaxVer > 0

\* A simple shard file: repository, its name in the file name, shard number.
Files == {f \in Repos \X Names \X Parts : \E v \in Versions : Shape[f[1]][v].name = f[2]}
Absent == 0

VARIABLES
  want,      \* want[r]: listed by Sourcegraph, and the version it has
  simple,    \* simple[f]: the version in shard file f of the index directory
  trash, old,    \* the same for .trash, and the files there for more than a day
  compound,  \* compound[c]: the entries of compound shard c, which is named by its repository names
  meta,      \* meta[c]: the entries in the .meta of c; it overrides those in c
  list,      \* the repositories the sync loop last got, and so those on the queue
  phase, todo,   \* the sync loop: where it is, and the repositories cleanup has yet to restore
  tombs,     \* cleanup: tombstones[r], or NoShard
  doomed,    \* cleanup: indexShards, the repositories to be trashed
  job,       \* job[j]: the state of the job, its repository, version, compound shard and what it read of it
  changes, merges, faults,
  hurt,      \* history: repositories left in two places, or in part, by a crash, a failed rename,
             \* a compound shard that was passed over or a tombstone that was lost
  stale,     \* history: repositories of which an older version took the place of a newer one
  emptied    \* history: repositories of which merge or explode dropped a version without documents

dirVars == <<simple, trash, old, compound, meta>>
cleanVars == <<phase, todo, tombs, doomed>>
counters == <<changes, merges, faults>>
history == <<hurt, stale, emptied>>
vars == <<want, dirVars, list, cleanVars, job, counters, history>>

NoRepo == "none"
NoShard == {}
IdleJob == [st |-> "idle", repo |-> NoRepo, ver |-> Absent, shard |-> NoShard, read |-> {}]

Init ==
  /\ want = [r \in Repos |-> [listed |-> TRUE, ver |-> 1]]
  /\ simple = [f \in Files |-> Absent]
  /\ trash = [f \in Files |-> Absent] /\ old = {}
  /\ compound = [c \in {} |-> {}] /\ meta = [c \in {} |-> {}]
  /\ list = {} /\ phase = "idle" /\ todo = {} /\ doomed = {}
  /\ tombs = [r \in Repos |-> NoShard]
  /\ job = [j \in Jobs |-> IdleJob]
  /\ changes = 0 /\ merges = 0 /\ faults = 0 /\ hurt = {} /\ stale = {} /\ emptied = {}

-----------------------------------------------------------------------------
(* What is in the directory.                                               *)

NameOf(m) == Shape[m.repo][m.ver].name
HasDocs(m) == Shape[m.repo][m.ver].docs

\* ReadMetadataPath: a .meta replaces the metadata in the shard.
Entries(c) == IF c \in DOMAIN meta THEN meta[c] ELSE compound[c]
Alive(c) == {m \in Entries(c) : ~m.dead}
Dead(c) == Entries(c) \ Alive(c)

SimpleOf(dir, r) == {f \in Files : f[1] = r /\ dir[f] # Absent}
CompoundsOf(r) == {c \in DOMAIN compound : \E m \in Alive(c) : m.repo = r}

\* The entries of compound shards that are searched, each with its shard.
AliveIn(r) == UNION {{<<c, m>> : m \in {e \in Alive(c) : e.repo = r}} : c \in DOMAIN compound}

\* The versions of r that are searched, and those that are kept or could come back.
Served(r) == {simple[f] : f \in SimpleOf(simple, r)} \cup {e[2].ver : e \in AliveIn(r)}
OnDisk(r) == {trash[f] : f \in SimpleOf(trash, r)} \cup
             UNION {{m.ver : m \in {e \in Entries(c) : e.repo = r}} : c \in DOMAIN compound}

\* getShards: the keys of the map.
InIndex(r) == SimpleOf(simple, r) # {} \/ CompoundsOf(r) # {}
InTrash(r) == SimpleOf(trash, r) # {}

\* consistentRepoName fails for more than one.
NamesInIndex(r) ==
  {f[2] : f \in SimpleOf(simple, r)} \cup
  UNION {{NameOf(m) : m \in {e \in Alive(c) : e.repo = r}} : c \in DOMAIN compound}

Without(dir, fs) == [f \in Files |-> IF f \in fs THEN Absent ELSE dir[f]]
Only(fun, S) == [c \in S |-> fun[c]]
Put(fun, c, x) == [d \in DOMAIN fun \cup {c} |-> IF d = c THEN x ELSE fun[d]]

\* setTombstone on the entries es.
Mark(es, rs, dead) == {IF m.repo \in rs THEN [m EXCEPT !.dead = dead] ELSE m : m \in es}

-----------------------------------------------------------------------------
(* Sourcegraph and the passing of time.                                    *)

Change(r) ==
  /\ changes < MaxChanges /\ changes' = changes + 1
  /\ \/ want' = [want EXCEPT ![r].listed = ~@]
     \/ want[r].ver < MaxVer /\ want' = [want EXCEPT ![r].ver = @ + 1]
  /\ UNCHANGED <<dirVars, list, cleanVars, job, merges, faults, history>>

\* A day passes for the shards of r in the trash.
Age(r) ==
  /\ InTrash(r) /\ SimpleOf(trash, r) \ old # {}
  /\ old' = old \cup SimpleOf(trash, r)
  /\ UNCHANGED <<want, simple, trash, compound, meta, list, cleanVars, job, counters, history>>

\* An operation fails, or the server dies.
Failure == faults < MaxFaults /\ faults' = faults + 1

-----------------------------------------------------------------------------
(* The lock.                                                               *)

Cleaning == phase \notin {"idle", "listed"}
Running(j) == job[j].st \notin {"idle", "popped"}
NoJobs == \A j \in Jobs : ~Running(j)
\* Global may run.
Free == ~Cleaning /\ NoJobs

-----------------------------------------------------------------------------
(* Index jobs: index, and Builder.Finish as far as other shards matter.    *)

\* findShard: the first shard of that name, else a compound shard with the repository.
FirstShard(r, v) == <<r, Shape[r][v].name, 0>>
FindCompound(r) == IF CompoundsOf(r) = {} THEN NoShard ELSE CHOOSE c \in CompoundsOf(r) : TRUE

\* IndexState is IndexStateEqual.
UpToDate(r, v) ==
  IF simple[FirstShard(r, v)] # Absent
  THEN simple[FirstShard(r, v)] = v
  ELSE CompoundsOf(r) # {} /\ \E m \in Alive(FindCompound(r)) : m.repo = r /\ m.ver = v

\* processQueue takes a repository off the queue, and then waits for the lock.
Pop(j, r) ==
  /\ job[j] = IdleJob /\ r \in list
  /\ job' = [job EXCEPT ![j] = [IdleJob EXCEPT !.st = "popped", !.repo = r, !.ver = want[r].ver]]
  /\ UNCHANGED <<want, dirVars, list, cleanVars, counters, history>>

\* With: nothing is done if a job for that name is running, or the index is up to date.
StartJob(j) ==
  LET r == job[j].repo
      v == job[j].ver
      busy == \E k \in Jobs : Running(k) /\ job[k].repo = r /\ Shape[r][job[k].ver].name = Shape[r][v].name
  IN  /\ job[j].st = "popped" /\ ~Cleaning
      /\ job' = [job EXCEPT ![j] = IF busy \/ UpToDate(r, v) THEN IdleJob ELSE [@ EXCEPT !.st = "build"]]
      /\ UNCHANGED <<want, dirVars, list, cleanVars, counters, history>>

JobFails(j) ==
  /\ job[j].st = "build"
  /\ Failure
  /\ job' = [job EXCEPT ![j] = IdleJob]
  /\ UNCHANGED <<want, dirVars, list, cleanVars, changes, merges, history>>

\* FindAllShards looks for a compound shard only if there is no simple one.
OldCompound(r, v) == IF simple[FirstShard(r, v)] # Absent THEN NoShard ELSE FindCompound(r)

\* A copy under the name of the new shards in a compound shard other than c, the one
\* that was found: it stays.
PassedOver(r, v, c) ==
  /\ simple[FirstShard(r, v)] = Absent
  /\ \E e \in AliveIn(r) : e[1] # c /\ NameOf(e[2]) = Shape[r][v].name

\* Finish renames the new shards into place and removes the old ones it finds: none
\* if there is no first shard of that name.
Publish(j) ==
  LET r == job[j].repo
      v == job[j].ver
      c == OldCompound(r, v)
      s == Shape[r][v]
  IN  /\ job[j].st = "build"
      /\ simple' = [f \in Files |->
                      IF f[1] = r /\ f[2] = s.name /\ f[3] < s.parts THEN v
                      ELSE IF f[1] = r /\ f[2] = s.name /\ simple[FirstShard(r, v)] # Absent THEN Absent
                      ELSE simple[f]]
      /\ job' = [job EXCEPT ![j] = IF c = NoShard THEN IdleJob
                                   ELSE [@ EXCEPT !.st = "published", !.shard = c]]
      /\ hurt' = hurt \cup IF PassedOver(r, v, c) THEN {r} ELSE {}
      /\ stale' = stale \cup IF \E w \in Served(r) \cup OnDisk(r) : w > v THEN {r} ELSE {}
      /\ UNCHANGED <<want, trash, old, compound, meta, list, cleanVars, counters, emptied>>

\* SetTombstone reads the entries of the compound shard ...
ReadMeta(j) ==
  /\ job[j].st = "published"
  /\ job' = [job EXCEPT ![j].st = "marking", ![j].read = Entries(job[j].shard)]
  /\ UNCHANGED <<want, dirVars, list, cleanVars, counters, history>>

\* The repositories whose tombstones another job has set since job j read the .meta.
Undone(j) ==
  {m.repo : m \in {e \in job[j].read : ~e.dead /\ e \notin Entries(job[j].shard)}} \ {job[j].repo}

\* ... and renames a new .meta into place.  An error of the rename is not returned.
WriteMeta(j) ==
  /\ job[j].st = "marking"
  /\ \/ /\ meta' = Put(meta, job[j].shard, Mark(job[j].read, {job[j].repo}, TRUE))
        /\ hurt' = hurt \cup Undone(j) /\ UNCHANGED faults
     \/ Failure /\ hurt' = hurt \cup {job[j].repo} /\ UNCHANGED meta
  /\ job' = [job EXCEPT ![j] = IdleJob]
  /\ UNCHANGED <<want, simple, trash, old, compound, list, cleanVars, changes, merges, stale, emptied>>

-----------------------------------------------------------------------------
(* The sync loop and cleanup.                                              *)

\* List, and MaybeRemoveMissing on the queue.
SyncList ==
  /\ phase = "idle" /\ phase' = "listed"
  /\ list' = {r \in Repos : want[r].listed}
  /\ UNCHANGED <<want, dirVars, todo, tombs, doomed, job, counters, history>>

\* The compound shard, of those with a tombstone for r, that getTombstonedRepos
\* returns: the one with the latest version.
DeadIn(r) == UNION {{<<c, m>> : m \in {e \in Dead(c) : e.repo = r}} : c \in DOMAIN compound}
LatestTombstone(r) ==
  IF DeadIn(r) = {} THEN NoShard
  ELSE (CHOOSE e \in DeadIn(r) : \A o \in DeadIn(r) : e[2].ver >= o[2].ver)[1]

\* "trash: Remove old shards and conflicts with index".
Outdated == {r \in Repos : InIndex(r) \/ SimpleOf(trash, r) \cap old # {}}

\* Shards of one repository with two names.
TwoNamed == {r \in Repos : Cardinality(NamesInIndex(r)) > 1}

\* cleanup goes on with the repositories to restore, then with those to discard.
Advance(left, dm) ==
  /\ todo' = left /\ doomed' = dm
  /\ phase' = IF left # {} THEN "restore" ELSE IF dm # {} THEN "discard" ELSE "idle"

\* cleanup up to the restoring: the outdated trash goes; tombstones count for
\* repositories neither in the index nor in the trash; repositories with two names
\* go, from compound shards by tombstone.
StartCleanup ==
  LET gone == UNION {SimpleOf(trash, r) : r \in Outdated}
      cs == UNION {CompoundsOf(r) : r \in TwoNamed}
  IN  /\ phase = "listed" /\ NoJobs
      /\ trash' = Without(trash, gone) /\ old' = old \ gone
      /\ tombs' = [r \in Repos |-> IF r \notin list \/ InIndex(r) \/ (InTrash(r) /\ r \notin Outdated)
                                   THEN NoShard ELSE LatestTombstone(r)]
      /\ simple' = Without(simple, UNION {SimpleOf(simple, r) : r \in TwoNamed})
      /\ meta' = [c \in DOMAIN meta \cup cs |->
                    IF c \in cs THEN Mark(Entries(c), TwoNamed, TRUE) ELSE meta[c]]
      /\ Advance(list, {r \in Repos : InIndex(r)} \ TwoNamed)
      /\ UNCHANGED <<want, compound, list, job, counters, history>>

\* moveAll out of the trash: on failure all shards of the repository are deleted.
FromTrash(r, ok) ==
  LET fs == SimpleOf(trash, r) IN
  /\ trash' = Without(trash, fs) /\ old' = old \ fs
  /\ simple' = IF ok THEN [f \in Files |-> IF f \in fs THEN trash[f] ELSE simple[f]] ELSE simple

\* Mutation: a tombstone is removed before the trash is looked at.
RestoreTombstoneFirst(r) ==
  LET c == IF InIndex(r) THEN NoShard ELSE LatestTombstone(r) IN
  /\ phase = "restore" /\ r \in todo
  /\ Advance(todo \ {r}, doomed \ {r}) /\ tombs' = [tombs EXCEPT ![r] = NoShard]
  /\ IF c # NoShard
     THEN meta' = Put(meta, c, Mark(Entries(c), {r}, FALSE)) /\ UNCHANGED <<simple, trash, old>>
     ELSE FromTrash(r, TRUE) /\ UNCHANGED meta
  /\ UNCHANGED <<want, compound, list, job, counters, history>>

\* "index: Restore deleted or tombstoned repos."
RestoreRepo(r) ==
  /\ phase = "restore" /\ r \in todo
  /\ Advance(todo \ {r}, doomed \ {r}) /\ tombs' = [tombs EXCEPT ![r] = NoShard]
  /\ \/ /\ InTrash(r)
        /\ \/ FromTrash(r, TRUE) /\ faults' = faults
           \/ FromTrash(r, FALSE) /\ Failure
        /\ UNCHANGED meta
     \/ /\ ~InTrash(r) /\ tombs[r] # NoShard
        /\ \/ meta' = Put(meta, tombs[r], Mark(Entries(tombs[r]), {r}, FALSE)) /\ faults' = faults
           \/ Failure /\ UNCHANGED meta
        /\ UNCHANGED <<simple, trash, old>>
     \/ /\ ~InTrash(r) /\ tombs[r] = NoShard
        /\ UNCHANGED <<simple, trash, old, meta, faults>>
  /\ UNCHANGED <<want, compound, list, job, changes, merges, history>>

\* moveAll into the trash; compound shards are deleted, whatever else is in them.
ToTrash(r, ok) ==
  LET fs == SimpleOf(simple, r)
      cs == DOMAIN compound \ CompoundsOf(r)
  IN  /\ simple' = Without(simple, fs)
      /\ trash' = IF ok THEN [f \in Files |-> IF f \in fs THEN simple[f] ELSE trash[f]] ELSE trash
      /\ old' = old \ fs
      /\ compound' = Only(compound, cs)
      /\ meta' = Only(meta, DOMAIN meta \cap cs)

\* maybeSetTombstone: the repository is in one shard, which is compound.
OnlyCompound(r) == SimpleOf(simple, r) = {} /\ Cardinality(CompoundsOf(r)) = 1

\* Mutation: compound shards are passed over.
DiscardSimple(r) ==
  /\ phase = "discard" /\ r \in doomed /\ Advance({}, doomed \ {r})
  /\ IF OnlyCompound(r) THEN UNCHANGED dirVars ELSE ToTrash(r, TRUE)
  /\ UNCHANGED <<want, list, tombs, job, counters, history>>

\* "index: Move non-existent repos into trash".  A compound shard is removed if its
\* metadata cannot be read or the new ones not written, and stays if only their
\* rename fails.
Discard(r) ==
  /\ phase = "discard" /\ r \in doomed /\ Advance({}, doomed \ {r})
  /\ \/ /\ OnlyCompound(r)
        /\ LET c == FindCompound(r) IN
           \/ /\ meta' = Put(meta, c, Mark(Entries(c), {r}, TRUE))
              /\ UNCHANGED <<compound, faults>>
           \/ /\ Failure /\ compound' \in {compound, Only(compound, DOMAIN compound \ {c})}
              /\ UNCHANGED meta
        /\ UNCHANGED <<simple, trash, old>>
     \/ /\ ~OnlyCompound(r)
        /\ \/ ToTrash(r, TRUE) /\ faults' = faults
           \/ ToTrash(r, FALSE) /\ Failure
  /\ UNCHANGED <<want, list, tombs, job, changes, merges, history>>

-----------------------------------------------------------------------------
(* Merge and vacuum: zoekt-merge-index under Global.                       *)

\* isExcluded: not one of several shards, and a single repository.
SmallFiles == {f \in Files : simple[f] # Absent /\ f[3] = 0 /\ simple[<<f[1], f[2], 1>>] = Absent}
SmallCompounds == {c \in DOMAIN compound : Cardinality(Entries(c)) = 1}

EntryOf(f) == [repo |-> f[1], ver |-> simple[f], dead |-> FALSE]

\* Mutation: merging brings back what has a tombstone.
MergedWithDead(fs, cs) ==
  {m \in {EntryOf(f) : f \in fs} \cup {[m EXCEPT !.dead = FALSE] : m \in UNION {Entries(c) : c \in cs}} : HasDocs(m)}

\* index.Merge: what is alive in the inputs and has a document, for a repository is only
\* set up when its first document comes; the name is the hash of the names.
Inputs(fs, cs) == {EntryOf(f) : f \in fs} \cup UNION {Alive(c) : c \in cs}
Merged(fs, cs) == {m \in Inputs(fs, cs) : HasDocs(m)}
CompoundName(es) == {NameOf(m) : m \in es}

\* The inputs fs and cs go, the .meta of the compound shards in kept stays.
RemoveInputs(fs, cs, kept) ==
  /\ simple' = Without(simple, fs)
  /\ meta' = Only(meta, (DOMAIN meta \ cs) \cup (DOMAIN meta \cap kept))

\* A .meta of that name stays and hides what was merged.
Hidden(es) == IF CompoundName(es) \in DOMAIN meta' THEN {m.repo : m \in es} ELSE {}

\* Mutation: the compound shard is renamed into place and the inputs stay.
MergeKeepsInputs(fs, cs) ==
  LET es == Merged(fs, cs) IN
  /\ UNCHANGED <<simple, meta, emptied>> /\ stale' = stale \cup Hidden(es)
  /\ compound' = IF es = {} THEN compound ELSE Put(compound, CompoundName(es), es)

\* merge: the inputs are removed, then the new shard is renamed into place, over
\* one of that name and under its .meta.  One without repositories cannot be read.
MergeInputs(fs, cs) ==
  LET es == Merged(fs, cs)
      rest == Only(compound, DOMAIN compound \ cs)
  IN  /\ RemoveInputs(fs, cs, {})
      /\ compound' = IF es = {} THEN rest ELSE Put(rest, CompoundName(es), es)
      /\ stale' = stale \cup Hidden(es)
      /\ emptied' = emptied \cup {m.repo : m \in Inputs(fs, cs) \ es}

\* merge stops, or the machine does, with some inputs removed and no new shard.
MergeStops(fs, cs) ==
  /\ Failure
  /\ \E gf \in SUBSET fs, gc \in SUBSET cs : \E kept \in {{}} \cup {{c} : c \in gc} :
       /\ RemoveInputs(gf, gc, kept)
       /\ compound' = Only(compound, DOMAIN compound \ gc)
  /\ UNCHANGED <<stale, emptied>>

Exclusive == Free /\ merges < MaxMerges /\ merges' = merges + 1

\* One round of merge, with the shards pickCandidates takes.
Merge ==
  /\ Exclusive
  /\ \E fs \in SUBSET SmallFiles, cs \in SUBSET SmallCompounds :
       /\ Cardinality(fs) + Cardinality(cs) > 1
       /\ \/ MergeInputs(fs, cs) /\ faults' = faults
          \/ MergeStops(fs, cs)
  /\ UNCHANGED <<want, trash, old, list, cleanVars, job, changes, hurt>>

\* removeTombstones: the shard merged with itself; it is removed in any case.
RemoveTombstones(c) ==
  /\ Exclusive /\ Dead(c) # {}
  /\ \/ MergeInputs({}, {c}) /\ faults' = faults
     \/ /\ Failure /\ RemoveInputs({}, {c}, {})
        /\ compound' = Only(compound, DOMAIN compound \ {c}) /\ UNCHANGED <<stale, emptied>>
  /\ UNCHANGED <<want, trash, old, list, cleanVars, job, changes, hurt>>

\* Explode: the shard is removed, then each new one renamed, as far as that works; what has
\* no document gets none.
Explode(c) ==
  LET file(m) == <<m.repo, NameOf(m), 0>>
      all == {m \in Alive(c) : HasDocs(m)}
  IN
  /\ Exclusive
  /\ \E done \in SUBSET all :
       /\ (done = all /\ faults' = faults) \/ (done # all /\ Failure)
       /\ simple' = [f \in Files |-> IF \E m \in done : f = file(m)
                                     THEN (CHOOSE m \in done : f = file(m)).ver ELSE simple[f]]
  /\ compound' = Only(compound, DOMAIN compound \ {c})
  /\ meta' = Only(meta, DOMAIN meta \ {c})
  /\ emptied' = emptied \cup {m.repo : m \in Alive(c) \ all}
  /\ UNCHANGED <<want, trash, old, list, cleanVars, job, changes, hurt, stale>>

-----------------------------------------------------------------------------
(* Crashes.                                                                *)

\* The queue, the jobs and the state of cleanup are lost.
Restart(broken) ==
  /\ Failure
  /\ list' = {} /\ phase' = "idle" /\ todo' = {} /\ doomed' = {}
  /\ tombs' = [r \in Repos |-> NoShard]
  /\ job' = [j \in Jobs |-> IdleJob]
  /\ hurt' = hurt \cup broken
  /\ UNCHANGED <<want, changes, merges, stale, emptied>>

Crash ==
  /\ Restart({job[j].repo : j \in {k \in Jobs : job[k].st \in {"published", "marking"}}})
  /\ UNCHANGED dirVars

\* moveAll renames the shards of r in order: the first has moved, the others have not.
CrashMoving(r) ==
  LET first(dir) == {f \in SimpleOf(dir, r) : \A g \in SimpleOf(dir, r) : f[3] <= g[3]} IN
  /\ \/ /\ phase = "restore" /\ r \in todo /\ Cardinality(SimpleOf(trash, r)) > 1
        /\ simple' = [f \in Files |-> IF f \in first(trash) THEN trash[f] ELSE simple[f]]
        /\ trash' = Without(trash, first(trash)) /\ old' = old \ first(trash)
     \/ /\ phase = "discard" /\ r \in doomed /\ Cardinality(SimpleOf(simple, r)) > 1
        /\ trash' = [f \in Files |-> IF f \in first(simple) THEN simple[f] ELSE trash[f]]
        /\ simple' = Without(simple, first(simple)) /\ old' = old \ first(simple)
  /\ Restart({r})
  /\ UNCHANGED <<compound, meta>>

-----------------------------------------------------------------------------
Cleanup == \E r \in Repos : RestoreRepo(r) \/ Discard(r)
JobStep(j) == Publish(j) \/ ReadMeta(j) \/ WriteMeta(j)
Vacuum == \E c \in DOMAIN compound : RemoveTombstones(c) \/ Explode(c)

Next ==
  \/ SyncList \/ StartCleanup \/ Cleanup \/ Merge \/ Vacuum \/ Crash
  \/ \E r \in Repos : Change(r) \/ Age(r) \/ CrashMoving(r)
  \/ \E j \in Jobs : StartJob(j) \/ JobFails(j) \/ JobStep(j) \/ \E r \in Repos : Pop(j, r)

Spec == Init /\ [][Next]_vars

\* The sync loop and cleanup go on; the lock admits every waiting job and Global
\* (IndexMutex), and every listed repository comes up on the queue (IndexQueue).
FairSpec ==
  /\ Spec
  /\ WF_vars(SyncList) /\ WF_vars(Cleanup) /\ SF_vars(StartCleanup)
  /\ \A j \in Jobs : SF_vars(StartJob(j)) /\ WF_vars(JobStep(j))
  /\ \A r \in Repos : SF_vars(\E j \in Jobs : Pop(j, r))

-----------------------------------------------------------------------------
(* Properties.                                                             *)

\* The shards of r with name n are those of one version, and all of them.
WholeSet(r, n) ==
  \E v \in Versions : \A p \in Parts :
    simple[<<r, n, p>>] = IF p < Shape[r][v].parts THEN v ELSE Absent

\* A repository is searchable under a name from one place, complete and of one
\* version, except while a job has published new shards and not yet set the
\* tombstone, and except for what a crash left half moved, a failed rename unmarked,
\* a job passed over or a concurrent job undid: index/merge.go and zoekt-merge-index
\* remove their inputs before they rename so that there are no duplicate indexes,
\* cleanup resolves conflicts of trash, index and tombstones.
ServedOnce ==
  \A r \in Repos \ hurt : \A n \in {Shape[r][v].name : v \in Versions} :
    LET own == {f \in SimpleOf(simple, r) : f[2] = n}
        merged == {e \in AliveIn(r) : NameOf(e[2]) = n}
    IN  /\ own # {} => WholeSet(r, n)
        /\ (\A j \in Jobs : ~(job[j].repo = r /\ job[j].st \in {"published", "marking"}))
             => Cardinality(merged) + (IF own = {} THEN 0 ELSE 1) <= 1

\* As long as nothing failed, what cleanup restores, from the trash or by removing
\* a tombstone, is the newest version the directory has of the repository, and not
\* an older one that an earlier index, merge or unlisting left behind.  Except after
\* a merge under a .meta that stayed there, a job that waited while another indexed a
\* newer version, or a merge that dropped a version without documents: an older copy in
\* the trash may then come back before a newer one under a tombstone.
RestoresNewest ==
  [][\A r \in Repos \ (hurt \cup stale \cup emptied) :
       Cleaning /\ faults = 0 /\ ~InIndex(r) /\ InIndex(r)' =>
         \A v \in OnDisk(r) : \E w \in Served(r)' : w >= v]_vars

\* Cleanup never takes a listed repository out of the index, unless a step fails,
\* the repository was renamed, or an earlier fault left a repository in two places (a
\* compound shard is then deleted with all its repositories).
KeepsListed ==
  [][(phase # "idle" /\ phase' # "listed") /\ faults' = faults /\ hurt = {} =>
       \A r \in list : InIndex(r) /\ Cardinality(NamesInIndex(r)) = 1 => InIndex(r)']_vars

\* cleanup neither brings back the wrong version nor takes away what is wanted.
CleanupSafe == RestoresNewest /\ KeepsListed

\* What users find in the directory is what ServedIndex promises: a merge, an explode and a
\* vacuum change nothing but that a repository at a version without documents is lost (until
\* a job builds it again), a job and cleanup only the repository they are at, and cleanup
\* leaves nothing unlisted searchable unless a step has failed.  Nothing is promised for the
\* repositories in hurt and stale.
Seen == INSTANCE ServedIndex WITH
          served <- [r \in Repos |-> Served(r)], kept <- [r \in Repos |-> OnDisk(r)],
          cleaning <- Cleaning, faulty <- faults > 0, lost <- hurt \cup stale,
          Bare <- {x \in Repos \X Versions : ~Shape[x[1]][x[2]].docs}
ImplementsServedIndex == Seen!ServedSpec

\* A renamed repository was merged under both names before cleanup saw it.  One
\* cleanup sets both tombstones, the next removes both, so jobs may find it up to
\* date for ever.
MergedTwice(r) == \E c \in DOMAIN compound : Cardinality({m \in compound[c] : m.repo = r}) > 1

\* Once Sourcegraph stops changing, merging stops and nothing fails any more, the index
\* comes to hold exactly what is listed, at the version it has, whatever shards were lost
\* before.  Not so for two kinds of repositories, which may stay wrong for ever: those in
\* hurt, left in two places or in part by a crash, a failed or lost tombstone or a compound
\* shard that was passed over; and those MergedTwice.
Settles ==
  <>[](\A r \in Repos \ hurt :
         \/ want[r].listed /\ Served(r) = {want[r].ver}
         \/ ~want[r].listed /\ ~InIndex(r)
         \/ MergedTwice(r))
=============================================================================
