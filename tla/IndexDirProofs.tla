--------------------------- MODULE IndexDirProofs ---------------------------
(***************************************************************************)
(* What IndexDir promises, for any repositories, any renames, any number   *)
(* of jobs, merges and faults: a repository is served from one place, and  *)
(* cleanup neither restores an old version nor removes what is listed.     *)
(***************************************************************************)
EXTENDS IndexDir, WellFoundedInduction, FiniteSetTheorems, TLAPS

-----------------------------------------------------------------------------
(* Types.                                                                  *)

Entry == [repo : Repos, ver : Versions, dead : BOOLEAN]
Shards == SUBSET Names
Stored(fun) ==
  /\ DOMAIN fun \subseteq Shards
  /\ fun = [c \in DOMAIN fun |-> fun[c]]
  /\ \A c \in DOMAIN fun : fun[c] \subseteq Entry

JobType == [st : {"idle", "popped", "build", "published", "marking"}, repo : Repos \cup {NoRepo},
            ver : Versions \cup {Absent}, shard : Shards, read : SUBSET Entry]

DirOK ==
  /\ simple \in [Files -> Versions \cup {Absent}]
  /\ trash \in [Files -> Versions \cup {Absent}]
  /\ old \subseteq Files
  /\ Stored(compound) /\ Stored(meta)

LoopOK ==
  /\ list \subseteq Repos /\ todo \subseteq Repos /\ doomed \subseteq Repos
  /\ phase \in {"idle", "listed", "restore", "discard"}
  /\ tombs \in [Repos -> Shards]

JobOK(j) ==
  /\ job[j] \in JobType
  /\ job[j].st # "idle" => job[j].repo \in Repos /\ job[j].ver \in Versions

RestOK ==
  /\ want \in [Repos -> [listed : BOOLEAN, ver : Versions]]
  /\ changes \in Nat /\ merges \in Nat /\ faults \in Nat
  /\ hurt \subseteq Repos /\ stale \subseteq Repos /\ emptied \subseteq Repos

JobsTyped == job = [j \in Jobs |-> job[j]] /\ \A j \in Jobs : JobOK(j)

TypeOK == DirOK /\ LoopOK /\ JobsTyped /\ RestOK

-----------------------------------------------------------------------------
(* The inductive invariant.                                                *)

\* A compound shard is named by its repositories.  Except for what is in two places
\* anyway, it has each under a name once, and small enough for a shard of its own.
Lists(but, c, es) ==
  /\ CompoundName(es) = c
  /\ \A m, n \in es : m.repo = n.repo /\ m.repo \notin but /\ NameOf(m) = NameOf(n) => m = n
  /\ \A m \in es : m.repo \notin but => Shape[m.repo][m.ver].parts = 1

Pends(j) == job[j].st \in {"published", "marking"}

\* So do the .meta that override one, or stayed without one, and what SetTombstone read.
ListsOK ==
  /\ \A c \in DOMAIN compound : c # {} /\ Lists(hurt, c, compound[c])
  /\ \A c \in DOMAIN meta : Lists(hurt, c, meta[c])
  /\ \A j \in Jobs : Pends(j) => job[j].shard \in DOMAIN compound
  /\ \A j \in Jobs : job[j].st = "marking" => Lists(hurt, job[j].shard, job[j].read)

NamesOf(r) == {Shape[r][v].name : v \in Versions}

\* The shards of r with name n in dir are those of one version, and all of them.
Whole(dir, r, n) ==
  \/ \A p \in Parts : dir[<<r, n, p>>] = Absent
  \/ \E v \in Versions : \A p \in Parts :
       dir[<<r, n, p>>] = IF p < Shape[r][v].parts THEN v ELSE Absent

FilesOK(but, dir) ==
  /\ \A f \in Files : dir[f] # Absent => Shape[f[1]][dir[f]].name = f[2]
  /\ \A r \in Repos \ but : \A n \in NamesOf(r) : Whole(dir, r, n)

\* A job will set the tombstone of r in c.
Pending(r, c) == \E j \in Jobs : Pends(j) /\ job[j].repo = r /\ job[j].shard = c

\* Compound shards share no name, and simple shards have none of theirs, unless a
\* job is about to set the tombstone.
Once ==
  \A c, d \in DOMAIN compound : \A m \in Alive(c), n \in Alive(d) :
    m.repo = n.repo /\ m.repo \notin hurt /\ NameOf(m) = NameOf(n) => c = d
Apart ==
  \A f \in Files : \A c \in DOMAIN compound : \A m \in Alive(c) :
    simple[f] # Absent /\ f[1] = m.repo /\ m.repo \notin hurt /\ f[2] = NameOf(m)
      => Pending(m.repo, c)

\* The lock, and what cleanup knows of the directory while it has it.
LockOK == Cleaning => NoJobs
CleaningOK ==
  Cleaning =>
    /\ \A r \in Repos : InTrash(r) => ~InIndex(r)
    /\ \A r \in todo : tombs[r] # NoShard => /\ tombs[r] \in DOMAIN compound
                                             /\ ~InIndex(r) /\ ~InTrash(r)
    /\ \A r \in doomed : \A m, n \in NamesInIndex(r) : m = n
    /\ doomed \cap list \subseteq todo
    /\ phase = "discard" => todo = {}

IInv ==
  TypeOK /\ ListsOK /\ FilesOK(hurt, simple) /\ FilesOK(hurt, trash) /\ Once /\ Apart /\ LockOK /\ CleaningOK

-----------------------------------------------------------------------------
(* The operators of the model.                                             *)

LEMMA FileFacts ==
  /\ \A f \in Files : /\ f = <<f[1], f[2], f[3]>> /\ f[1] \in Repos /\ f[2] \in NamesOf(f[1])
                      /\ f[3] \in Parts
  /\ \A r \in Repos, n \in Names, p \in Parts : n \in NamesOf(r) => <<r, n, p>> \in Files
  /\ \A r \in Repos : NamesOf(r) \subseteq Names
  BY DEF Files, NamesOf, Names

LEMMA EntryFacts ==
  \A m \in Entry : /\ m.repo \in Repos /\ m.ver \in Versions /\ m.dead \in BOOLEAN
                   /\ NameOf(m) \in NamesOf(m.repo) /\ NameOf(m) \in Names
  BY DEF Entry, NameOf, NamesOf, Names

\* A name tells the repository.
LEMMA NameTells ==
  /\ \A m, n \in Entry : NameOf(m) = NameOf(n) => m.repo = n.repo
  /\ \A m \in Entry, r \in Repos : NameOf(m) \in NamesOf(r) => m.repo = r
  BY EntryFacts, DirAssumption DEF NameOf, NamesOf

LEMMA VersionFacts ==
  /\ Absent \notin Versions /\ Versions \subseteq Nat /\ 1 \in Versions
  /\ \A r \in Repos, v \in Versions : Shape[r][v].parts \in {1, 2}
  /\ Parts = {0, 1}
  BY DirAssumption DEF Absent, Versions, Parts

LEMMA MarkFacts ==
  ASSUME NEW es, es \subseteq Entry, NEW rs, NEW dead \in BOOLEAN
  PROVE  /\ Mark(es, rs, dead) \subseteq Entry
         /\ \A m \in Mark(es, rs, dead) :
              \E o \in es : /\ m.repo = o.repo /\ m.ver = o.ver
                            /\ m = IF o.repo \in rs THEN [o EXCEPT !.dead = dead] ELSE o
                            /\ IF o.repo \in rs THEN m.dead = dead ELSE m = o
         /\ \A o \in es : \E m \in Mark(es, rs, dead) : /\ m.repo = o.repo /\ m.ver = o.ver
                                                        /\ IF o.repo \in rs THEN m.dead = dead ELSE m = o
<1> DEFINE f(m) == IF m.repo \in rs THEN [m EXCEPT !.dead = dead] ELSE m
<1>1. \A o \in es : /\ f(o) \in Entry /\ f(o).repo = o.repo /\ f(o).ver = o.ver
                    /\ IF o.repo \in rs THEN f(o).dead = dead ELSE f(o) = o
  BY DEF Entry
<1>2. Mark(es, rs, dead) = {f(m) : m \in es}
  BY DEF Mark
<1> QED
  BY <1>1, <1>2

\* Marking changes neither repositories nor versions.
LEMMA MarkKept ==
  ASSUME NEW es, es \subseteq Entry, NEW rs, NEW dead \in BOOLEAN
  PROVE  /\ \A m \in Mark(es, rs, dead) : \E o \in es : m.repo = o.repo /\ m.ver = o.ver
         /\ \A o \in es : \E m \in Mark(es, rs, dead) : m.repo = o.repo /\ m.ver = o.ver
  BY MarkFacts

LEMMA CompoundNameMark ==
  ASSUME NEW es, es \subseteq Entry, NEW rs, NEW dead \in BOOLEAN
  PROVE  CompoundName(Mark(es, rs, dead)) = CompoundName(es)
<1>1. ASSUME NEW m \in Mark(es, rs, dead) PROVE \E o \in es : NameOf(m) = NameOf(o)
  <2>1. PICK o \in es : m.repo = o.repo /\ m.ver = o.ver
    BY MarkFacts
  <2> QED
    BY <2>1 DEF NameOf
<1>2. ASSUME NEW o \in es PROVE \E m \in Mark(es, rs, dead) : NameOf(m) = NameOf(o)
  <2>1. PICK m \in Mark(es, rs, dead) : m.repo = o.repo /\ m.ver = o.ver
    BY MarkFacts
  <2> QED
    BY <2>1 DEF NameOf
<1>3. CompoundName(Mark(es, rs, dead)) = {NameOf(m) : m \in Mark(es, rs, dead)}
      /\ CompoundName(es) = {NameOf(m) : m \in es}
  BY DEF CompoundName
<1> QED
  BY <1>1, <1>2, <1>3

LEMMA MarkDead ==
  ASSUME NEW es, es \subseteq Entry, NEW rs
  PROVE  \A m \in Mark(es, rs, TRUE) : ~m.dead => m \in es /\ m.repo \notin rs
<1>1. \A o \in es : o.repo \in rs => [o EXCEPT !.dead = TRUE].dead
  BY DEF Entry
<1> QED
  BY <1>1 DEF Mark

\* The entries of the repositories not marked stay.
LEMMA MarkOthers ==
  ASSUME NEW es, es \subseteq Entry, NEW rs, NEW dead \in BOOLEAN
  PROVE  \A m \in Entry : m.repo \notin rs => (m \in Mark(es, rs, dead) <=> m \in es)
<1> SUFFICES ASSUME NEW m \in Entry, m.repo \notin rs PROVE m \in Mark(es, rs, dead) <=> m \in es
  OBVIOUS
<1>1. ASSUME m \in es PROVE m \in Mark(es, rs, dead)
  BY <1>1 DEF Mark
<1>2. ASSUME m \in Mark(es, rs, dead) PROVE m \in es
  <2>1. PICK o \in es : m.repo = o.repo /\ m = IF o.repo \in rs THEN [o EXCEPT !.dead = dead] ELSE o
    BY <1>2, MarkFacts
  <2>2. o.repo \notin rs
    BY <2>1
  <2> QED
    BY <2>1, <2>2
<1> QED
  BY <1>1, <1>2

LEMMA MarkLists ==
  ASSUME NEW es, es \subseteq Entry, NEW rs, NEW dead \in BOOLEAN, NEW c,
         NEW but, Lists(but, c, es)
  PROVE  Lists(but, c, Mark(es, rs, dead))
<1>1. CompoundName(Mark(es, rs, dead)) = c
  BY CompoundNameMark DEF Lists
<1>2. ASSUME NEW m \in Mark(es, rs, dead), NEW n \in Mark(es, rs, dead), m.repo = n.repo,
             m.repo \notin but, NameOf(m) = NameOf(n)
      PROVE  m = n
  <2>1. PICK o \in es : /\ m.repo = o.repo /\ m.ver = o.ver
                        /\ m = IF o.repo \in rs THEN [o EXCEPT !.dead = dead] ELSE o
    BY MarkFacts
  <2>2. PICK q \in es : /\ n.repo = q.repo /\ n.ver = q.ver
                        /\ n = IF q.repo \in rs THEN [q EXCEPT !.dead = dead] ELSE q
    BY MarkFacts
  <2>3. o = q
    BY <1>2, <2>1, <2>2 DEF Lists, NameOf
  <2> QED
    BY <2>1, <2>2, <2>3
<1>3. \A m \in Mark(es, rs, dead) : m.repo \notin but => Shape[m.repo][m.ver].parts = 1
  BY MarkFacts DEF Lists
<1> QED
  BY <1>1, <1>2, <1>3 DEF Lists

LEMMA ListsGrow ==
  ASSUME NEW c, NEW es, NEW but, NEW more, Lists(but, c, es), but \subseteq more
  PROVE  Lists(more, c, es)
  BY DEF Lists

LEMMA StoredPut ==
  ASSUME NEW fun, Stored(fun), NEW c \in Shards, NEW x, x \subseteq Entry
  PROVE  /\ Stored(Put(fun, c, x))
         /\ DOMAIN Put(fun, c, x) = DOMAIN fun \cup {c}
         /\ \A d \in DOMAIN fun \cup {c} : Put(fun, c, x)[d] = IF d = c THEN x ELSE fun[d]
  BY DEF Stored, Put

LEMMA StoredOnly ==
  ASSUME NEW fun, Stored(fun), NEW S, S \subseteq DOMAIN fun
  PROVE  /\ Stored(Only(fun, S)) /\ DOMAIN Only(fun, S) = S
         /\ \A d \in S : Only(fun, S)[d] = fun[d]
  BY DEF Stored, Only

LEMMA WithoutFacts ==
  ASSUME NEW dir \in [Files -> Versions \cup {Absent}], NEW fs
  PROVE  /\ Without(dir, fs) \in [Files -> Versions \cup {Absent}]
         /\ \A f \in Files : Without(dir, fs)[f] = IF f \in fs THEN Absent ELSE dir[f]
  BY DEF Without

LEMMA EntriesType == TypeOK => \A c \in DOMAIN compound : Entries(c) \subseteq Entry
  BY DEF TypeOK, DirOK, Stored, Entries
LEMMA IdleJobType == IdleJob \in JobType /\ IdleJob.st = "idle"
  BY DEF IdleJob, JobType, NoShard, Shards

-----------------------------------------------------------------------------
(* Type correctness.                                                       *)

\* One job moves.
LEMMA JobPut ==
  ASSUME TypeOK, NEW j \in Jobs, NEW x \in JobType,
         x.st # "idle" => x.repo \in Repos /\ x.ver \in Versions,
         job' = [job EXCEPT ![j] = x]
  PROVE  JobsTyped' /\ job'[j] = x /\ \A k \in Jobs \ {j} : job'[k] = job[k]
<1>1. job'[j] = x /\ \A k \in Jobs \ {j} : job'[k] = job[k]
  BY DEF TypeOK, JobsTyped
<1>2. \A k \in Jobs : JobOK(k)'
  BY <1>1 DEF TypeOK, JobsTyped, JobOK
<1>3. job' = [k \in Jobs |-> job'[k]]
  BY DEF TypeOK, JobsTyped
<1> QED
  BY <1>1, <1>2, <1>3 DEF JobsTyped

LEMMA InitInv == Init => IInv
<1> SUFFICES ASSUME Init PROVE IInv
  OBVIOUS
<1> USE DEF Init
<1>1. DirOK
  BY DEF DirOK, Stored
<1>2. LoopOK /\ RestOK
  BY VersionFacts DEF LoopOK, RestOK, NoShard, Shards
<1>3. JobsTyped
  BY IdleJobType DEF JobsTyped, JobOK
<1>4. ListsOK
  BY IdleJobType DEF ListsOK, Pends
<1>5. FilesOK(hurt, simple) /\ FilesOK(hurt, trash)
  BY FileFacts DEF FilesOK, Whole
<1>6. Once /\ Apart
  BY DEF Once, Apart
<1>7. LockOK /\ CleaningOK
  BY DEF LockOK, CleaningOK, Cleaning
<1> QED
  BY <1>1, <1>2, <1>3, <1>4, <1>5, <1>6, <1>7 DEF IInv, TypeOK

-----------------------------------------------------------------------------
(* Steps that leave the shards alone.                                      *)

LEMMA SameDirectory ==
  ASSUME IInv, TypeOK', UNCHANGED <<simple, trash, compound, meta, hurt>>,
         \A j \in Jobs : job'[j].st = "marking" => Lists(hurt, job'[j].shard, job'[j].read),
         \A j \in Jobs : Pends(j)' => job'[j].shard \in DOMAIN compound,
         \A r \in Repos, c \in DOMAIN compound : Pending(r, c) => Pending(r, c)',
         LockOK', UNCHANGED <<list, cleanVars>> \/ ~Cleaning'
  PROVE  IInv'
<1>1. ListsOK' /\ FilesOK(hurt, simple)' /\ FilesOK(hurt, trash)'
  BY DEF IInv, ListsOK, FilesOK, Whole
<1>2. \A c \in DOMAIN compound : Entries(c)' = Entries(c) /\ Alive(c)' = Alive(c)
  BY DEF Entries, Alive
<1>3. Once'
  BY <1>2 DEF IInv, Once
<1>4. Apart'
  <2> SUFFICES ASSUME NEW f \in Files, NEW c \in DOMAIN compound', NEW m \in Alive(c)',
                      simple'[f] # Absent, f[1] = m.repo, m.repo \notin hurt', f[2] = NameOf(m)
               PROVE  Pending(m.repo, c)'
    BY DEF Apart
  <2>1. c \in DOMAIN compound /\ m \in Alive(c) /\ m.repo \in Repos
    BY <1>2, FileFacts
  <2>2. Pending(m.repo, c)
    BY <2>1 DEF IInv, Apart
  <2> QED
    BY <2>1, <2>2
<1>5. CleaningOK'
  <2>1. CASE ~Cleaning'
    BY <2>1 DEF CleaningOK
  <2>2. CASE UNCHANGED <<list, cleanVars>>
    <3>1. /\ \A r \in Repos : InTrash(r)' <=> InTrash(r)
          /\ \A r \in Repos : InIndex(r)' <=> InIndex(r)
          /\ \A r \in Repos : NamesInIndex(r)' = NamesInIndex(r)
      BY DEF InTrash, InIndex, NamesInIndex, SimpleOf, CompoundsOf, Alive, Entries
    <3>2. /\ list' = list /\ todo' = todo /\ phase' = phase /\ doomed' = doomed /\ tombs' = tombs
          /\ compound' = compound
      BY <2>2 DEF cleanVars
    <3>3. CleaningOK /\ todo \subseteq Repos /\ doomed \subseteq Repos
      BY DEF IInv, TypeOK, LoopOK
    <3> HIDE <2>2
    <3> QED
      BY <3>1, <3>2, <3>3 DEF CleaningOK, Cleaning
  <2> QED
    BY <2>1, <2>2
<1> QED
  BY <1>1, <1>3, <1>4, <1>5 DEF IInv

\* Only a job that is not about to set a tombstone moves.
LEMMA JobMoves ==
  ASSUME IInv, TypeOK', UNCHANGED <<simple, trash, compound, meta, hurt, list, cleanVars>>,
         NEW j \in Jobs, ~Pends(j), \A k \in Jobs \ {j} : job'[k] = job[k],
         ~Pends(j)', ~Cleaning \/ job'[j].st = "idle" \/ job'[j].st = "popped"
  PROVE  IInv'
<1>1. \A k \in Jobs : /\ job'[k].st = "marking" => Lists(hurt, job'[k].shard, job'[k].read)
                      /\ Pends(k)' => job'[k].shard \in DOMAIN compound
  BY DEF IInv, ListsOK, Pends
<1>2. \A r \in Repos, c \in DOMAIN compound : Pending(r, c) => Pending(r, c)'
  BY DEF Pending, Pends
<1>3. LockOK'
  BY DEF IInv, LockOK, NoJobs, Running, Cleaning, cleanVars
<1> QED
  BY <1>1, <1>2, <1>3, SameDirectory

LEMMA ChangeKeeps == ASSUME IInv, NEW r \in Repos, Change(r) PROVE IInv'
<1> USE DEF Change
<1>1. want' \in [Repos -> [listed : BOOLEAN, ver : Versions]]
  <2>1. CASE want' = [want EXCEPT ![r].listed = ~@]
    BY <2>1 DEF IInv, TypeOK, RestOK
  <2>2. CASE want[r].ver < MaxVer /\ want' = [want EXCEPT ![r].ver = @ + 1]
    <3>1. want[r].ver + 1 \in Versions
      BY <2>2, DirAssumption DEF IInv, TypeOK, RestOK, Versions
    <3> QED
      BY <2>2, <3>1 DEF IInv, TypeOK, RestOK
  <2> QED
    BY <2>1, <2>2
<1>2. TypeOK'
  BY <1>1 DEF IInv, TypeOK, DirOK, Stored, LoopOK, JobsTyped, JobOK, RestOK, dirVars, cleanVars, history
<1>3. /\ UNCHANGED <<simple, trash, compound, meta, hurt>> /\ UNCHANGED job
      /\ UNCHANGED <<list, cleanVars>>
  BY DEF dirVars, history
<1>4. LockOK' /\ \A q \in Repos, c \in DOMAIN compound : Pending(q, c) => Pending(q, c)'
  BY <1>3 DEF IInv, LockOK, Cleaning, NoJobs, Running, Pending, Pends, cleanVars
<1>5. \A j \in Jobs : /\ job'[j].st = "marking" => Lists(hurt, job'[j].shard, job'[j].read)
                      /\ Pends(j)' => job'[j].shard \in DOMAIN compound
  BY <1>3 DEF IInv, ListsOK, Pends
<1> HIDE DEF Change
<1> QED
  BY <1>2, <1>3, <1>4, <1>5, SameDirectory

LEMMA AgeKeeps == ASSUME IInv, NEW r \in Repos, Age(r) PROVE IInv'
<1> USE DEF Age
<1>1. old' \subseteq Files
  BY DEF IInv, TypeOK, DirOK, SimpleOf
<1>2. TypeOK'
  BY <1>1 DEF IInv, TypeOK, DirOK, Stored, LoopOK, JobsTyped, JobOK, RestOK, cleanVars, counters, history
<1>3. /\ UNCHANGED <<simple, trash, compound, meta, hurt>> /\ UNCHANGED job
      /\ UNCHANGED <<list, cleanVars>>
  BY DEF history
<1>4. LockOK' /\ \A q \in Repos, c \in DOMAIN compound : Pending(q, c) => Pending(q, c)'
  BY <1>3 DEF IInv, LockOK, Cleaning, NoJobs, Running, Pending, Pends, cleanVars
<1>5. \A j \in Jobs : /\ job'[j].st = "marking" => Lists(hurt, job'[j].shard, job'[j].read)
                      /\ Pends(j)' => job'[j].shard \in DOMAIN compound
  BY <1>3 DEF IInv, ListsOK, Pends
<1> HIDE DEF Age
<1> QED
  BY <1>2, <1>3, <1>4, <1>5, SameDirectory

LEMMA PopKeeps == ASSUME IInv, NEW j \in Jobs, NEW r \in Repos, Pop(j, r) PROVE IInv'
<1> DEFINE x == [IdleJob EXCEPT !.st = "popped", !.repo = r, !.ver = want[r].ver]
<1>1. x \in JobType /\ x.st = "popped" /\ x.repo = r /\ x.ver \in Versions
  BY DEF IdleJob, JobType, NoShard, Shards, IInv, TypeOK, RestOK
<1>2. job' = [job EXCEPT ![j] = x] /\ job[j].st = "idle"
  BY DEF Pop, IdleJob
<1> HIDE DEF x
<1>3. JobsTyped' /\ job'[j] = x /\ \A k \in Jobs \ {j} : job'[k] = job[k]
  BY <1>1, <1>2, JobPut DEF IInv
<1>4. TypeOK'
  BY <1>3 DEF Pop, IInv, TypeOK, DirOK, Stored, LoopOK, RestOK, dirVars, cleanVars, counters, history
<1>5. UNCHANGED <<simple, trash, compound, meta, hurt, list, cleanVars>>
  BY DEF Pop, dirVars, history
<1> QED
  BY <1>1, <1>2, <1>3, <1>4, <1>5, JobMoves DEF Pends

LEMMA StartJobKeeps == ASSUME IInv, NEW j \in Jobs, StartJob(j) PROVE IInv'
<1>1. PICK x \in {IdleJob, [job[j] EXCEPT !.st = "build"]} : job' = [job EXCEPT ![j] = x]
  BY DEF StartJob
<1>2. job[j].st = "popped" /\ ~Cleaning
  BY DEF StartJob
<1>3. x \in JobType /\ x.st \in {"idle", "build"} /\ (x.st # "idle" => x.repo \in Repos /\ x.ver \in Versions)
  BY <1>1, <1>2, IdleJobType DEF IInv, TypeOK, JobsTyped, JobOK, JobType
<1>4. JobsTyped' /\ job'[j] = x /\ \A k \in Jobs \ {j} : job'[k] = job[k]
  BY <1>1, <1>3, JobPut DEF IInv
<1>5. TypeOK'
  BY <1>4 DEF StartJob, IInv, TypeOK, DirOK, Stored, LoopOK, RestOK, dirVars, cleanVars, counters, history
<1>6. UNCHANGED <<simple, trash, compound, meta, hurt, list, cleanVars>>
  BY DEF StartJob, dirVars, history
<1> QED
  BY <1>2, <1>3, <1>4, <1>5, <1>6, JobMoves DEF Pends

LEMMA JobFailsKeeps == ASSUME IInv, NEW j \in Jobs, JobFails(j) PROVE IInv'
<1>1. job' = [job EXCEPT ![j] = IdleJob] /\ job[j].st = "build"
  BY DEF JobFails
<1>2. JobsTyped' /\ job'[j] = IdleJob /\ \A k \in Jobs \ {j} : job'[k] = job[k]
  BY <1>1, JobPut, IdleJobType DEF IInv
<1>3. TypeOK'
  BY <1>2 DEF JobFails, Failure, IInv, TypeOK, DirOK, Stored, LoopOK, RestOK, dirVars, cleanVars, history
<1>4. UNCHANGED <<simple, trash, compound, meta, hurt, list, cleanVars>>
  BY DEF JobFails, dirVars, history
<1> QED
  BY <1>1, <1>2, <1>3, <1>4, IdleJobType, JobMoves DEF Pends

\* What is read is what the shard lists.
LEMMA ListsEntries == IInv => \A c \in DOMAIN compound : Lists(hurt, c, Entries(c)) /\ c # {}
  BY DEF IInv, ListsOK, Entries

LEMMA SyncListKeeps == ASSUME IInv, SyncList PROVE IInv'
<1>1. /\ UNCHANGED <<want, simple, trash, old, compound, meta, todo, tombs, doomed, job>>
      /\ UNCHANGED <<changes, merges, faults, hurt, stale, emptied>> /\ phase' = "listed" /\ list' \subseteq Repos
  BY DEF SyncList, dirVars, history, counters
<1>2. TypeOK'
  BY <1>1 DEF IInv, TypeOK, DirOK, Stored, LoopOK, JobsTyped, JobOK, RestOK
<1>3. LockOK' /\ \A q \in Repos, c \in DOMAIN compound : Pending(q, c) => Pending(q, c)'
  BY <1>1 DEF LockOK, Cleaning, Pending, Pends
<1>4. \A j \in Jobs : /\ job'[j].st = "marking" => Lists(hurt, job'[j].shard, job'[j].read)
                      /\ Pends(j)' => job'[j].shard \in DOMAIN compound
  BY <1>1 DEF IInv, ListsOK, Pends
<1>5. ~Cleaning'
  BY <1>1 DEF Cleaning
<1> QED
  BY <1>1, <1>2, <1>3, <1>4, <1>5, SameDirectory

LEMMA ReadMetaKeeps == ASSUME IInv, NEW j \in Jobs, ReadMeta(j) PROVE IInv'
<1> DEFINE x == [job[j] EXCEPT !.st = "marking", !.read = Entries(job[j].shard)]
           c == job[j].shard
<1>1. job' = [job EXCEPT ![j] = x] /\ job[j].st = "published"
  BY DEF ReadMeta
<1>2. c \in DOMAIN compound /\ Lists(hurt, c, Entries(c)) /\ Entries(c) \subseteq Entry
  BY <1>1, ListsEntries, EntriesType DEF IInv, ListsOK, Pends
<1>3. /\ x \in JobType /\ x.st = "marking" /\ x.repo = job[j].repo /\ x.shard = c /\ x.read = Entries(c)
      /\ x.repo \in Repos /\ x.ver \in Versions
  BY <1>1, <1>2 DEF IInv, TypeOK, JobsTyped, JobOK, JobType
<1> HIDE DEF x, c
<1>4. JobsTyped' /\ job'[j] = x /\ \A k \in Jobs \ {j} : job'[k] = job[k]
  BY <1>1, <1>3, JobPut DEF IInv
<1>5. TypeOK'
  BY <1>4 DEF ReadMeta, IInv, TypeOK, DirOK, Stored, LoopOK, RestOK, dirVars, cleanVars, counters, history
<1>6. UNCHANGED <<simple, trash, compound, meta, hurt, list, cleanVars>>
  BY DEF ReadMeta, dirVars, history
<1>7. \A k \in Jobs : /\ job'[k].st = "marking" => Lists(hurt, job'[k].shard, job'[k].read)
                      /\ Pends(k)' => job'[k].shard \in DOMAIN compound
  BY <1>2, <1>3, <1>4 DEF IInv, ListsOK, Pends
<1>8. \A r \in Repos, d \in DOMAIN compound : Pending(r, d) => Pending(r, d)'
  BY <1>3, <1>4, <1>1 DEF Pending, Pends, c
<1>9. LockOK'
  BY <1>1, <1>6 DEF IInv, LockOK, NoJobs, Running, Cleaning, cleanVars
<1> QED
  BY <1>5, <1>6, <1>7, <1>8, <1>9, SameDirectory

-----------------------------------------------------------------------------
(* Steps that change the shards.                                           *)

LEMMA AliveInFacts ==
  /\ \A c \in DOMAIN compound : \A m \in Alive(c) : <<c, m>> \in AliveIn(m.repo)
  /\ \A r \in Repos : \A e \in AliveIn(r) :
       /\ e = <<e[1], e[2]>> /\ e[1] \in DOMAIN compound /\ e[2] \in Alive(e[1]) /\ e[2].repo = r
<1>1. ASSUME NEW c \in DOMAIN compound, NEW m \in Alive(c) PROVE <<c, m>> \in AliveIn(m.repo)
  <2>1. <<c, m>> \in {<<c, n>> : n \in {e \in Alive(c) : e.repo = m.repo}}
    OBVIOUS
  <2> QED
    BY <2>1 DEF AliveIn
<1>2. ASSUME NEW r \in Repos, NEW e \in AliveIn(r)
      PROVE  e = <<e[1], e[2]>> /\ e[1] \in DOMAIN compound /\ e[2] \in Alive(e[1]) /\ e[2].repo = r
  <2>1. PICK c \in DOMAIN compound : e \in {<<c, n>> : n \in {o \in Alive(c) : o.repo = r}}
    BY DEF AliveIn
  <2>2. PICK n \in {o \in Alive(c) : o.repo = r} : e = <<c, n>>
    BY <2>1
  <2> QED
    BY <2>2
<1> QED
  BY <1>1, <1>2

LEMMA AliveType == TypeOK => \A c \in DOMAIN compound : Alive(c) \subseteq Entry
  BY EntriesType DEF Alive

LEMMA OnceShrinks ==
  ASSUME Once, hurt \subseteq hurt',
         \A c \in DOMAIN compound' : \A m \in Alive(c)' : m.repo \notin hurt' =>
           c \in DOMAIN compound /\ m \in Alive(c)
  PROVE  Once'
  BY DEF Once

LEMMA ApartShrinks ==
  ASSUME Apart, hurt \subseteq hurt',
         \A c \in DOMAIN compound' : \A m \in Alive(c)' : m.repo \notin hurt' =>
           c \in DOMAIN compound /\ m \in Alive(c) /\ (Pending(m.repo, c) => Pending(m.repo, c)'),
         \A f \in Files : simple'[f] # Absent /\ f[1] \notin hurt' => simple[f] # Absent
  PROVE  Apart'
<1> SUFFICES ASSUME NEW f \in Files, NEW c \in DOMAIN compound', NEW m \in Alive(c)',
                    simple'[f] # Absent, f[1] = m.repo, m.repo \notin hurt', f[2] = NameOf(m)
             PROVE  Pending(m.repo, c)'
  BY DEF Apart
<1> QED
  BY DEF Apart

\* Of each name, the shards stay or all go.
LEMMA FilesShrink ==
  ASSUME NEW but, NEW more, but \subseteq more, NEW dir, NEW next, FilesOK(but, dir),
         \A f \in Files : next[f] # Absent => next[f] = dir[f],
         \A r \in Repos \ more, n \in Names :
           \/ \A p \in Parts : next[<<r, n, p>>] = dir[<<r, n, p>>]
           \/ \A p \in Parts : next[<<r, n, p>>] = Absent
  PROVE  FilesOK(more, next)
<1>1. \A f \in Files : next[f] # Absent => Shape[f[1]][next[f]].name = f[2]
  BY DEF FilesOK
<1>2. ASSUME NEW r \in Repos \ more, NEW n \in NamesOf(r) PROVE Whole(next, r, n)
  <2>1. n \in Names /\ Whole(dir, r, n)
    BY FileFacts DEF FilesOK
  <2> QED
    BY <2>1 DEF Whole
<1> QED
  BY <1>1, <1>2 DEF FilesOK

LEMMA CleaningNot == \A j \in Jobs : IInv /\ Running(j) => ~Cleaning
  BY DEF IInv, LockOK, NoJobs

\* Shard 0 is there if any is.
LEMMA WholeFirst ==
  ASSUME NEW dir, NEW r \in Repos, NEW n, Whole(dir, r, n), dir[<<r, n, 0>>] = Absent
  PROVE  \A p \in Parts : dir[<<r, n, p>>] = Absent
<1>1. ASSUME NEW v \in Versions,
             \A p \in Parts : dir[<<r, n, p>>] = IF p < Shape[r][v].parts THEN v ELSE Absent
      PROVE  FALSE
  <2>1. 0 \in Parts /\ 0 < Shape[r][v].parts /\ v # Absent
    BY VersionFacts
  <2> QED
    BY <1>1, <2>1
<1> QED
  BY <1>1 DEF Whole

LEMMA PublishKeeps == ASSUME IInv, NEW j \in Jobs, Publish(j) PROVE IInv'
<1> DEFINE r == job[j].repo
           v == job[j].ver
           s == Shape[r][v]
           first == FirstShard(r, v)
           c == OldCompound(r, v)
           x == IF c = NoShard THEN IdleJob ELSE [job[j] EXCEPT !.st = "published", !.shard = c]
<1>0. job[j].st = "build" /\ job[j] \in JobType /\ r \in Repos /\ v \in Versions
  BY DEF Publish, IInv, TypeOK, JobsTyped, JobOK
<1>1. /\ simple' = [f \in Files |-> IF f[1] = r /\ f[2] = s.name /\ f[3] < s.parts THEN v
                                    ELSE IF f[1] = r /\ f[2] = s.name /\ simple[first] # Absent
                                    THEN Absent ELSE simple[f]]
      /\ job' = [job EXCEPT ![j] = x]
      /\ hurt' = hurt \cup IF PassedOver(r, v, c) THEN {r} ELSE {}
      /\ stale' \subseteq stale \cup {r}
      /\ UNCHANGED <<want, trash, old, compound, meta, list, cleanVars, counters, emptied>>
  BY DEF Publish
<1>2. /\ first = <<r, s.name, 0>> /\ first \in Files /\ s.name \in NamesOf(r) /\ s.parts \in {1, 2}
      /\ first[1] = r /\ first[2] = s.name
  BY <1>0, FileFacts, VersionFacts DEF FirstShard, NamesOf
<1>3. ASSUME NEW d \in DOMAIN compound, NEW m \in Alive(d), m.repo = r, simple[first] = Absent
      PROVE  /\ c \in DOMAIN compound /\ c # NoShard
             /\ d = c \/ NameOf(m) # s.name \/ PassedOver(r, v, c)
  <2>1. d \in CompoundsOf(r) /\ c = FindCompound(r)
    BY <1>3 DEF CompoundsOf, OldCompound
  <2>2. c \in CompoundsOf(r)
    BY <2>1 DEF FindCompound
  <2>3. c \in DOMAIN compound /\ c # NoShard
    BY <2>2 DEF CompoundsOf, NoShard, IInv, ListsOK
  <2>4. <<d, m>> \in AliveIn(r)
    BY <1>3, AliveInFacts
  <2> QED
    BY <1>3, <2>3, <2>4 DEF PassedOver
<1>4. c # NoShard => c \in DOMAIN compound /\ c \in Shards
  BY DEF OldCompound, FindCompound, CompoundsOf, IInv, TypeOK, DirOK, Stored
<1> HIDE DEF c, first
<1>5. /\ x \in JobType /\ x.st # "marking" /\ (x.st # "idle" => x.repo = r /\ x.ver = v)
      /\ IF c = NoShard THEN x = IdleJob ELSE x.st = "published" /\ x.shard = c /\ x.repo = r
      /\ x.st \in {"idle", "published"}
  BY <1>0, <1>4, IdleJobType DEF JobType
<1> HIDE DEF x
<1>6. JobsTyped' /\ job'[j] = x /\ \A k \in Jobs \ {j} : job'[k] = job[k]
  BY <1>0, <1>1, <1>5, JobPut DEF IInv
<1>7. simple' \in [Files -> Versions \cup {Absent}]
  BY <1>0, <1>1 DEF IInv, TypeOK, DirOK
<1>8. hurt \subseteq hurt' /\ hurt' \subseteq Repos /\ stale' \subseteq Repos /\ emptied' \subseteq Repos
  BY <1>0, <1>1 DEF IInv, TypeOK, RestOK
<1>9. DirOK'
  BY <1>1, <1>7 DEF IInv, TypeOK, DirOK, Stored
<1>10. TypeOK'
  BY <1>1, <1>6, <1>8, <1>9 DEF IInv, TypeOK, LoopOK, RestOK, cleanVars, counters
<1>11. ListsOK'
  <2>1. ASSUME NEW k \in Jobs PROVE /\ Pends(k)' => job'[k].shard \in DOMAIN compound
                                    /\ job'[k].st = "marking" => Lists(hurt', job'[k].shard, job'[k].read)
    BY <1>4, <1>5, <1>6, <1>8, IdleJobType, ListsGrow DEF IInv, ListsOK, Pends
  <2>2. compound' = compound /\ meta' = meta
    BY <1>1
  <2> QED
    BY <1>8, <2>1, <2>2, ListsGrow DEF IInv, ListsOK
<1>12. FilesOK(hurt', trash')
  BY <1>1, <1>8 DEF IInv, FilesOK
<1>13. \A f \in Files : simple'[f] # Absent => Shape[f[1]][simple'[f]].name = f[2]
  BY <1>1, <1>0 DEF IInv, FilesOK
<1>14. ASSUME NEW q \in Repos \ hurt', NEW n \in NamesOf(q) PROVE Whole(simple', q, n)
  <2>1. n \in Names /\ \A p \in Parts : <<q, n, p>> \in Files
    BY FileFacts
  <2>2. Whole(simple, q, n)
    BY <1>8 DEF IInv, FilesOK
  <2>3. CASE ~(q = r /\ n = s.name)
    <3>1. \A p \in Parts : simple'[<<q, n, p>>] = simple[<<q, n, p>>]
      BY <1>1, <2>1, <2>3
    <3> QED
      BY <2>2, <3>1 DEF Whole
  <2>4. CASE q = r /\ n = s.name
    <3>1. \A p \in Parts : simple'[<<q, n, p>>] = IF p < s.parts THEN v ELSE IF simple[first] # Absent THEN Absent
                                                  ELSE simple[<<q, n, p>>]
      BY <1>1, <2>1, <2>4
    <3>2. ASSUME simple[first] = Absent PROVE \A p \in Parts : simple[<<q, n, p>>] = Absent
      <4>1. simple[<<q, n, 0>>] = Absent
        BY <1>2, <2>4, <3>2
      <4> QED
        BY <2>2, <4>1, WholeFirst
    <3>3. \A p \in Parts : simple'[<<q, n, p>>] = IF p < s.parts THEN v ELSE Absent
      BY <3>1, <3>2
    <3> QED
      BY <1>0, <2>4, <3>3 DEF Whole
  <2> QED
    BY <2>3, <2>4
<1>15. \A d \in DOMAIN compound : Alive(d)' = Alive(d)
  BY <1>1 DEF Alive, Entries
<1>16. Once'
  BY <1>1, <1>8, <1>15, OnceShrinks DEF IInv
<1>17. \A q, d : Pending(q, d) => Pending(q, d)'
  BY <1>0, <1>6 DEF Pending, Pends
<1>18. Apart'
  <2> SUFFICES ASSUME NEW f \in Files, NEW d \in DOMAIN compound, NEW m \in Alive(d),
                      simple'[f] # Absent, f[1] = m.repo, m.repo \notin hurt', f[2] = NameOf(m)
               PROVE  Pending(m.repo, d)'
    BY <1>1, <1>15 DEF Apart
  <2>1. CASE simple[f] # Absent
    BY <1>8, <1>17, <2>1 DEF IInv, Apart
  <2>2. CASE simple[f] = Absent
    <3>1. f[1] = r /\ f[2] = s.name
      BY <1>1, <2>2
    <3>2. CASE simple[first] # Absent
      BY <1>2, <1>8, <1>17, <3>1, <3>2 DEF IInv, Apart
    <3>3. CASE simple[first] = Absent
      <4>1. c # NoShard /\ d = c
        BY <1>1, <1>3, <3>1, <3>3
      <4>2. Pends(j)' /\ job'[j].repo = r /\ job'[j].shard = d
        BY <1>5, <1>6, <4>1 DEF Pends
      <4> QED
        BY <3>1, <4>2 DEF Pending
    <3> QED
      BY <3>2, <3>3
  <2> QED
    BY <2>1, <2>2
<1>19. ~Cleaning'
  BY <1>0, <1>1, CleaningNot DEF Running, Cleaning, cleanVars
<1> QED
  BY <1>10, <1>11, <1>12, <1>13, <1>14, <1>16, <1>18, <1>19 DEF IInv, FilesOK, LockOK, CleaningOK

LEMMA WriteMetaKeeps == ASSUME IInv, NEW j \in Jobs, WriteMeta(j) PROVE IInv'
<1> DEFINE r == job[j].repo
           c == job[j].shard
           es == job[j].read
           x == Mark(es, {r}, TRUE)
<1>1. /\ job[j].st = "marking" /\ job[j] \in JobType /\ r \in Repos
      /\ c \in DOMAIN compound /\ c \in Shards /\ Lists(hurt, c, es) /\ es \subseteq Entry
  BY DEF WriteMeta, IInv, TypeOK, JobsTyped, JobOK, JobType, ListsOK, Pends
<1>2. /\ \/ meta' = Put(meta, c, x) /\ hurt' = hurt \cup Undone(j)
         \/ hurt' = hurt \cup {r} /\ meta' = meta
      /\ job' = [job EXCEPT ![j] = IdleJob] /\ (faults' = faults \/ faults' = faults + 1)
      /\ UNCHANGED <<want, simple, trash, old, compound, list, cleanVars, changes, merges, stale, emptied>>
  BY DEF WriteMeta, Failure
<1>3. JobsTyped' /\ job'[j] = IdleJob /\ \A k \in Jobs \ {j} : job'[k] = job[k]
  BY <1>2, JobPut, IdleJobType DEF IInv
<1>4. /\ Undone(j) \subseteq Repos
      /\ \A m \in es : ~m.dead /\ m \notin Entries(c) /\ m.repo # r => m.repo \in Undone(j)
  BY <1>1 DEF Undone, Entry
<1>5. hurt \subseteq hurt' /\ hurt' \subseteq Repos
  BY <1>1, <1>2, <1>4 DEF IInv, TypeOK, RestOK
<1> HIDE DEF r, c, es
<1>6. x \subseteq Entry /\ Lists(hurt, c, x) /\ \A m \in x : ~m.dead => m \in es /\ m.repo # r
  <2>1. TRUE \in BOOLEAN /\ es \subseteq Entry /\ Lists(hurt, c, es)
    BY <1>1
  <2>2. x \subseteq Entry /\ Lists(hurt, c, x)
    BY <2>1, MarkFacts, MarkLists
  <2>3. \A m \in x : ~m.dead => m \in es /\ m.repo \notin {r}
    BY <2>1, MarkDead
  <2> QED
    BY <2>2, <2>3
<1> HIDE DEF x
<1>7. ASSUME meta' = Put(meta, c, x)
      PROVE  /\ Stored(meta') /\ DOMAIN meta' = DOMAIN meta \cup {c}
             /\ \A d \in DOMAIN meta' : meta'[d] = IF d = c THEN x ELSE meta[d]
  <2>1. Stored(meta) /\ c \in Shards
    BY <1>1 DEF IInv, TypeOK, DirOK
  <2> QED
    BY <1>6, <1>7, <2>1, StoredPut
<1>8. Stored(meta)' /\ \A d \in DOMAIN meta' : Lists(hurt', d, meta'[d])
  <2>1. CASE meta' = meta
    BY <1>5, <2>1, ListsGrow DEF IInv, ListsOK, TypeOK, DirOK, Stored
  <2>2. CASE meta' = Put(meta, c, x)
    <3>2. \A d \in DOMAIN meta' : Lists(hurt, d, meta'[d])
      BY <1>6, <2>2, <1>7 DEF IInv, ListsOK
    <3> QED
      BY <1>5, <2>2, <1>7, <3>2, ListsGrow DEF Stored
  <2> QED
    BY <1>2, <2>1, <2>2
<1>9. TypeOK'
  BY <1>2, <1>3, <1>5, <1>8 DEF IInv, TypeOK, DirOK, Stored, LoopOK, RestOK, cleanVars
<1>10. ListsOK'
  BY <1>2, <1>3, <1>5, <1>8, IdleJobType, ListsGrow DEF IInv, ListsOK, Pends
<1>11. FilesOK(hurt', simple') /\ FilesOK(hurt', trash')
  BY <1>2, <1>5 DEF IInv, FilesOK
<1>12. ASSUME NEW d \in DOMAIN compound, NEW m \in Alive(d)', m.repo \notin hurt'
       PROVE  m \in Alive(d) /\ (Pending(m.repo, d) => Pending(m.repo, d)')
  <2>1. \A q, e : Pending(q, e) /\ ~(q = r /\ e = c) => Pending(q, e)'
    BY <1>3 DEF Pending, Pends, r, c
  <2>2. CASE hurt' = hurt \cup {r} /\ meta' = meta
    BY <1>2, <1>12, <2>1, <2>2 DEF Alive, Entries
  <2>3. CASE meta' = Put(meta, c, x) /\ hurt' = hurt \cup Undone(j)
    <3>1. Entries(d)' = IF d = c THEN x ELSE Entries(d)
      BY <1>2, <1>7, <2>3 DEF Entries
    <3>2. CASE d # c
      BY <1>12, <2>1, <3>1, <3>2 DEF Alive
    <3>3. CASE d = c
      <4>1. m \in x /\ ~m.dead
        BY <1>12, <3>1, <3>3 DEF Alive
      <4>2. m \in es /\ m.repo # r
        BY <1>6, <4>1
      <4>3. m \in Entries(c)
        BY <1>4, <1>12, <2>3, <4>1, <4>2
      <4> QED
        BY <2>1, <3>3, <4>1, <4>2, <4>3 DEF Alive
    <3> QED
      BY <3>2, <3>3
  <2> QED
    BY <1>2, <2>2, <2>3
<1>13. Once' /\ Apart'
  BY <1>2, <1>5, <1>12, OnceShrinks, ApartShrinks DEF IInv
<1>14. ~Cleaning'
  BY <1>1, <1>2, CleaningNot DEF Running, Cleaning, cleanVars
<1> QED
  BY <1>9, <1>10, <1>11, <1>13, <1>14 DEF IInv, LockOK, CleaningOK

LEMMA CrashKeeps == ASSUME IInv, Crash PROVE IInv'
<1>1. /\ UNCHANGED <<simple, trash, old, compound, meta, want, changes, merges, stale, emptied>>
      /\ list' = {} /\ phase' = "idle" /\ todo' = {} /\ doomed' = {} /\ faults' = faults + 1
      /\ tombs' = [r \in Repos |-> NoShard] /\ job' = [j \in Jobs |-> IdleJob]
      /\ hurt' = hurt \cup {job[j].repo : j \in {k \in Jobs : Pends(k)}}
  BY DEF Crash, Restart, Failure, dirVars, Pends
<1>2. JobsTyped' /\ \A j \in Jobs : job'[j] = IdleJob
  BY <1>1, IdleJobType DEF JobsTyped, JobOK
<1>3. \A j \in Jobs : Pends(j) => job[j].repo \in Repos
  BY DEF Pends, IInv, TypeOK, JobsTyped, JobOK
<1>4. hurt \subseteq hurt' /\ hurt' \subseteq Repos /\ \A r, c : Pending(r, c) => r \in hurt'
  BY <1>1, <1>3 DEF Pending, IInv, TypeOK, RestOK
<1>5. TypeOK'
  BY <1>1, <1>2, <1>4 DEF IInv, TypeOK, DirOK, Stored, LoopOK, RestOK, NoShard, Shards
<1>6. ListsOK'
  BY <1>1, <1>2, <1>4, IdleJobType, ListsGrow DEF IInv, ListsOK, Pends
<1>7. FilesOK(hurt', simple') /\ FilesOK(hurt', trash')
  BY <1>1, <1>4 DEF IInv, FilesOK
<1>8. \A c \in DOMAIN compound : Alive(c)' = Alive(c)
  BY <1>1 DEF Alive, Entries
<1>9. Once' /\ Apart'
  BY <1>1, <1>4, <1>8, OnceShrinks, ApartShrinks DEF IInv
<1> QED
  BY <1>1, <1>5, <1>6, <1>7, <1>9 DEF IInv, LockOK, CleaningOK, Cleaning

-----------------------------------------------------------------------------
(* Cleanup.                                                                *)

\* What is in the index, in the trash and under which names, before and after a step.
IndexWords ==
  \A r \in Repos :
    /\ InTrash(r) <=> \E f \in Files : f[1] = r /\ trash[f] # Absent
    /\ InIndex(r) <=> \/ \E f \in Files : f[1] = r /\ simple[f] # Absent
                      \/ \E c \in DOMAIN compound : \E m \in Alive(c) : m.repo = r
    /\ \A n : n \in NamesInIndex(r) <=>
                \/ \E f \in Files : f[1] = r /\ simple[f] # Absent /\ f[2] = n
                \/ \E c \in DOMAIN compound : \E m \in Alive(c) : m.repo = r /\ NameOf(m) = n

LEMMA Words == IndexWords
<1> SUFFICES ASSUME NEW r \in Repos
             PROVE  /\ InTrash(r) <=> \E f \in Files : f[1] = r /\ trash[f] # Absent
                    /\ InIndex(r) <=> \/ \E f \in Files : f[1] = r /\ simple[f] # Absent
                                      \/ \E c \in DOMAIN compound : \E m \in Alive(c) : m.repo = r
                    /\ \A n : n \in NamesInIndex(r) <=>
                         \/ \E f \in Files : f[1] = r /\ simple[f] # Absent /\ f[2] = n
                         \/ \E c \in DOMAIN compound : \E m \in Alive(c) : m.repo = r /\ NameOf(m) = n
  BY DEF IndexWords
<1>1. InTrash(r) <=> \E f \in Files : f[1] = r /\ trash[f] # Absent
  BY DEF InTrash, SimpleOf
<1>2. InIndex(r) <=> \/ \E f \in Files : f[1] = r /\ simple[f] # Absent
                     \/ \E c \in DOMAIN compound : \E m \in Alive(c) : m.repo = r
  BY DEF InIndex, SimpleOf, CompoundsOf
<1>3. ASSUME NEW n
      PROVE  n \in NamesInIndex(r) <=>
                \/ \E f \in Files : f[1] = r /\ simple[f] # Absent /\ f[2] = n
                \/ \E c \in DOMAIN compound : \E m \in Alive(c) : m.repo = r /\ NameOf(m) = n
  <2>1. n \in {f[2] : f \in SimpleOf(simple, r)} <=> \E f \in Files : f[1] = r /\ simple[f] # Absent /\ f[2] = n
    BY DEF SimpleOf
  <2>2. n \in UNION {{NameOf(m) : m \in {e \in Alive(c) : e.repo = r}} : c \in DOMAIN compound}
          <=> \E c \in DOMAIN compound : n \in {NameOf(m) : m \in {e \in Alive(c) : e.repo = r}}
    OBVIOUS
  <2>3. \A c : n \in {NameOf(m) : m \in {e \in Alive(c) : e.repo = r}}
                 <=> \E m \in Alive(c) : m.repo = r /\ NameOf(m) = n
    OBVIOUS
  <2> QED
    BY <2>1, <2>2, <2>3 DEF NamesInIndex
<1> QED
  BY <1>1, <1>2, <1>3

LEMMA WordsNext == IndexWords'
  BY Words, PTL

\* Of any versions one is the newest.
LEMMA Newest ==
  ASSUME NEW V, V \subseteq Versions, V # {}
  PROVE  \E v \in V : \A w \in V : v >= w
<1> DEFINE T == {MaxVer - v : v \in V}
<1>1. T \subseteq Nat /\ T # {}
  BY DirAssumption DEF Versions
<1>2. PICK t \in T : \A u \in T : <<u, t>> \notin OpToRel(<, Nat)
  BY <1>1, NatLessThanWellFounded, WFMin
<1>3. PICK v \in V : t = MaxVer - v
  BY <1>2
<1>4. ASSUME NEW w \in V PROVE v >= w
  <2>1. MaxVer - w \in T
    OBVIOUS
  <2>2. ~(MaxVer - w < t)
    BY <1>1, <1>2, <2>1 DEF OpToRel
  <2> QED
    BY <1>3, <2>2, DirAssumption DEF Versions
<1> QED
  BY <1>4

LEMMA DeadInFacts ==
  ASSUME NEW r \in Repos
  PROVE  /\ \A e \in DeadIn(r) : /\ e = <<e[1], e[2]>> /\ e[1] \in DOMAIN compound
                                /\ e[2] \in Entries(e[1]) /\ e[2].dead /\ e[2].repo = r
         /\ \A c \in DOMAIN compound : \A m \in Entries(c) : m.repo = r /\ m.dead => <<c, m>> \in DeadIn(r)
<1>1. ASSUME NEW e \in DeadIn(r)
      PROVE  /\ e = <<e[1], e[2]>> /\ e[1] \in DOMAIN compound
             /\ e[2] \in Entries(e[1]) /\ e[2].dead /\ e[2].repo = r
  <2>1. PICK c \in DOMAIN compound : e \in {<<c, m>> : m \in {o \in Dead(c) : o.repo = r}}
    BY DEF DeadIn
  <2>2. PICK m \in {o \in Dead(c) : o.repo = r} : e = <<c, m>>
    BY <2>1
  <2> QED
    BY <2>2 DEF Dead, Alive
<1>2. ASSUME NEW c \in DOMAIN compound, NEW m \in Entries(c), m.repo = r, m.dead
      PROVE  <<c, m>> \in DeadIn(r)
  <2>1. m \in Dead(c)
    BY <1>2 DEF Dead, Alive
  <2>2. <<c, m>> \in {<<c, n>> : n \in {o \in Dead(c) : o.repo = r}}
    BY <1>2, <2>1
  <2> QED
    BY <2>2 DEF DeadIn
<1> QED
  BY <1>1, <1>2

\* getTombstonedRepos finds the newest.
LEMMA LatestFacts ==
  ASSUME IInv, NEW r \in Repos
  PROVE  /\ LatestTombstone(r) \in Shards
         /\ LatestTombstone(r) # NoShard =>
              /\ LatestTombstone(r) \in DOMAIN compound
              /\ \E m \in Entries(LatestTombstone(r)) :
                   /\ m.repo = r
                   /\ \A c \in DOMAIN compound : \A n \in Entries(c) : n.repo = r /\ n.dead => m.ver >= n.ver
         /\ LatestTombstone(r) = NoShard => \A c \in DOMAIN compound : \A n \in Entries(c) : n.repo = r => ~n.dead
<1>1. CASE DeadIn(r) = {}
  BY <1>1, DeadInFacts DEF LatestTombstone, NoShard, Shards
<1>2. CASE DeadIn(r) # {}
  <2> DEFINE V == {e[2].ver : e \in DeadIn(r)}
             P(e) == e \in DeadIn(r) /\ \A o \in DeadIn(r) : e[2].ver >= o[2].ver
             l == CHOOSE e \in DeadIn(r) : \A o \in DeadIn(r) : e[2].ver >= o[2].ver
  <2>1. V \subseteq Versions /\ V # {}
    BY <1>2, DeadInFacts, EntriesType, EntryFacts DEF IInv
  <2>2. PICK v \in V : \A w \in V : v >= w
    BY <2>1, Newest
  <2>3. PICK e \in DeadIn(r) : v = e[2].ver
    OBVIOUS
  <2>4. \A o \in DeadIn(r) : e[2].ver >= o[2].ver
    BY <2>2, <2>3
  <2>5. l \in DeadIn(r) /\ \A o \in DeadIn(r) : l[2].ver >= o[2].ver
    BY <2>4
  <2>6. LatestTombstone(r) = l[1]
    BY <1>2 DEF LatestTombstone
  <2> HIDE DEF l
  <2>7. l[1] \in DOMAIN compound /\ l[2] \in Entries(l[1]) /\ l[2].repo = r
    BY <2>5, DeadInFacts
  <2>8. \A c \in DOMAIN compound : \A n \in Entries(c) : n.repo = r /\ n.dead => l[2].ver >= n.ver
    <3> SUFFICES ASSUME NEW c \in DOMAIN compound, NEW n \in Entries(c), n.repo = r, n.dead
                 PROVE  l[2].ver >= n.ver
      OBVIOUS
    <3>1. <<c, n>> \in DeadIn(r)
      BY DeadInFacts
    <3> QED
      BY <2>5, <3>1
  <2>9. l[1] # NoShard /\ l[1] \in Shards
    BY <2>7 DEF IInv, ListsOK, NoShard, TypeOK, DirOK, Stored
  <2> QED
    BY <2>6, <2>7, <2>8, <2>9
<1> QED
  BY <1>1, <1>2

\* The repositories that stay have one name.
LEMMA OneNamed ==
  ASSUME IInv, NEW r \in Repos
  PROVE  r \notin TwoNamed <=> \A m, n \in NamesInIndex(r) : m = n
<1>1. NamesInIndex(r) \subseteq NamesOf(r)
  <2>1. \A f \in Files : f[1] = r => f[2] \in NamesOf(r)
    BY FileFacts
  <2>2. \A c \in DOMAIN compound : \A m \in Alive(c) : m.repo = r => NameOf(m) \in NamesOf(r)
    BY AliveType, EntryFacts DEF IInv
  <2> QED
    BY <2>1, <2>2, Words DEF IndexWords
<1>2. IsFiniteSet(NamesOf(r))
  <2>1. IsFiniteSet(Versions)
    BY DirAssumption, FS_Interval DEF Versions
  <2>2. [v \in Versions |-> Shape[r][v].name] \in Surjection(Versions, NamesOf(r))
    BY DEF Surjection, NamesOf
  <2> QED
    BY <2>1, <2>2, FS_Surjection
<1>3. IsFiniteSet(NamesInIndex(r)) /\ Cardinality(NamesInIndex(r)) \in Nat
  BY <1>1, <1>2, FS_Subset, FS_CardinalityType
<1>4. ASSUME NEW m \in NamesInIndex(r), NEW n \in NamesInIndex(r), m # n
      PROVE  Cardinality(NamesInIndex(r)) > 1
  <2> DEFINE S == NamesInIndex(r)
  <2>1. {m} \in SUBSET S /\ {m} # S
    BY <1>4
  <2>2. Cardinality({m}) = 1
    BY FS_Singleton
  <2>3. Cardinality({m}) <= Cardinality(S) /\ Cardinality({m}) # Cardinality(S)
    <3> HIDE DEF S
    <3> QED
      BY <1>3, <2>1, FS_Subset DEF S
  <2> HIDE DEF S
  <2>4. Cardinality(S) > 1
    BY <1>3, <2>2, <2>3 DEF S
  <2> QED
    BY <2>4 DEF S
<1>5. ASSUME \A m, n \in NamesInIndex(r) : m = n PROVE ~(Cardinality(NamesInIndex(r)) > 1)
  <2>1. CASE NamesInIndex(r) = {}
    BY <2>1, FS_EmptySet
  <2>2. CASE NamesInIndex(r) # {}
    <3>1. PICK n \in NamesInIndex(r) : NamesInIndex(r) = {n}
      BY <1>5, <2>2
    <3>2. Cardinality({n}) = 1
      BY FS_Singleton
    <3>3. Cardinality(NamesInIndex(r)) = 1
      BY <3>1, <3>2
    <3> QED
      BY <3>3
  <2> QED
    BY <2>1, <2>2
<1> QED
  BY <1>4, <1>5 DEF TwoNamed

\* Cleanup changes neither the jobs nor what is wanted.
LEMMA RestStays ==
  ASSUME IInv, UNCHANGED <<want, job, changes, merges, history>>, faults' = faults \/ faults' = faults + 1
  PROVE  RestOK' /\ JobsTyped' /\ hurt' = hurt /\ \A r, c : Pending(r, c)' <=> Pending(r, c)
<1>1. hurt' = hurt /\ stale' = stale /\ emptied' = emptied
  BY DEF history
<1> QED
  BY <1>1 DEF IInv, TypeOK, RestOK, JobsTyped, JobOK, Pending, Pends

LEMMA CleaningJobs ==
  ASSUME IInv, NoJobs PROVE \A j \in Jobs : ~Pends(j) /\ job[j].st # "marking"
  BY DEF NoJobs, Running, Pends

\* No job has read anything while cleanup runs.
LEMMA ListsStay ==
  ASSUME IInv, NoJobs, job' = job, hurt' = hurt,
         \A c \in DOMAIN compound' : c \in DOMAIN compound /\ compound'[c] = compound[c],
         \A c \in DOMAIN meta' : Lists(hurt, c, meta'[c])
  PROVE  ListsOK'
<1>1. \A j \in Jobs : ~Pends(j)' /\ job'[j].st # "marking"
  BY CleaningJobs DEF Pends
<1> QED
  BY <1>1 DEF IInv, ListsOK

LEMMA AdvanceFacts ==
  ASSUME NEW left, NEW dm, Advance(left, dm), left \subseteq Repos, dm \subseteq Repos
  PROVE  /\ todo' = left /\ doomed' = dm /\ phase' \in {"idle", "listed", "restore", "discard"}
         /\ phase' = "discard" => left = {}
         /\ Cleaning' => phase' \in {"restore", "discard"}
  BY DEF Advance, Cleaning

LEMMA StartCleanupFacts ==
  ASSUME IInv, StartCleanup
  PROVE  /\ phase = "listed" /\ NoJobs /\ old' \subseteq Files
         /\ tombs' = [r \in Repos |-> IF r \notin list \/ InIndex(r) \/ (InTrash(r) /\ r \notin Outdated)
                                      THEN NoShard ELSE LatestTombstone(r)]
         /\ Advance(list, {r \in Repos : InIndex(r)} \ TwoNamed)
         /\ UNCHANGED <<want, compound, list, job, changes, merges, faults, hurt, stale, emptied>>
         /\ trash' \in [Files -> Versions \cup {Absent}]
         /\ \A f \in Files : trash'[f] = IF f[1] \in Outdated THEN Absent ELSE trash[f]
         /\ simple' \in [Files -> Versions \cup {Absent}]
         /\ \A f \in Files : simple'[f] = IF f[1] \in TwoNamed THEN Absent ELSE simple[f]
         /\ Stored(meta') /\ \A c \in DOMAIN meta' : Lists(hurt, c, meta'[c])
         /\ \A c \in DOMAIN compound : \A m :
              /\ m \in Alive(c)' <=> m \in Alive(c) /\ m.repo \notin TwoNamed
              /\ m.repo \notin TwoNamed => (m \in Entries(c)' <=> m \in Entries(c))
<1> DEFINE gone == UNION {SimpleOf(trash, r) : r \in Outdated}
           lost == UNION {SimpleOf(simple, r) : r \in TwoNamed}
           cs == UNION {CompoundsOf(r) : r \in TwoNamed}
           x(c) == Mark(Entries(c), TwoNamed, TRUE)
<1>1. /\ phase = "listed" /\ NoJobs
      /\ trash' = Without(trash, gone) /\ old' = old \ gone
      /\ tombs' = [r \in Repos |-> IF r \notin list \/ InIndex(r) \/ (InTrash(r) /\ r \notin Outdated)
                                   THEN NoShard ELSE LatestTombstone(r)]
      /\ simple' = Without(simple, lost)
      /\ meta' = [c \in DOMAIN meta \cup cs |-> IF c \in cs THEN x(c) ELSE meta[c]]
      /\ Advance(list, {r \in Repos : InIndex(r)} \ TwoNamed)
      /\ UNCHANGED <<want, compound, list, job, changes, merges, faults, hurt, stale, emptied>>
  BY DEF StartCleanup, counters, history
<1>2. /\ \A f \in Files : f \in gone <=> f[1] \in Outdated /\ trash[f] # Absent
      /\ \A f \in Files : f \in lost <=> f[1] \in TwoNamed /\ simple[f] # Absent
      /\ \A c : c \in cs <=> c \in DOMAIN compound /\ \E m \in Alive(c) : m.repo \in TwoNamed
  BY DEF SimpleOf, CompoundsOf
<1>3. /\ trash' \in [Files -> Versions \cup {Absent}]
      /\ \A f \in Files : trash'[f] = IF f[1] \in Outdated THEN Absent ELSE trash[f]
  BY <1>1, <1>2, WithoutFacts DEF IInv, TypeOK, DirOK
<1>4. /\ simple' \in [Files -> Versions \cup {Absent}]
      /\ \A f \in Files : simple'[f] = IF f[1] \in TwoNamed THEN Absent ELSE simple[f]
  BY <1>1, <1>2, WithoutFacts DEF IInv, TypeOK, DirOK
<1>5. \A c \in DOMAIN compound :
        /\ x(c) \subseteq Entry /\ Lists(hurt, c, x(c))
        /\ \A m \in x(c) : ~m.dead => m \in Entries(c) /\ m.repo \notin TwoNamed
        /\ \A m : m.repo \notin TwoNamed => (m \in x(c) <=> m \in Entries(c))
  <2> SUFFICES ASSUME NEW c \in DOMAIN compound
               PROVE  /\ x(c) \subseteq Entry /\ Lists(hurt, c, x(c))
                      /\ \A m \in x(c) : ~m.dead => m \in Entries(c) /\ m.repo \notin TwoNamed
                      /\ \A m : m.repo \notin TwoNamed => (m \in x(c) <=> m \in Entries(c))
    OBVIOUS
  <2>1. Entries(c) \subseteq Entry /\ Lists(hurt, c, Entries(c))
    BY EntriesType, ListsEntries DEF IInv
  <2>2. x(c) \subseteq Entry /\ Lists(hurt, c, x(c))
    BY <2>1, MarkFacts, MarkLists
  <2>3. \A m \in x(c) : ~m.dead => m \in Entries(c) /\ m.repo \notin TwoNamed
    BY <2>1, MarkDead
  <2>4. \A m \in Entry : m.repo \notin TwoNamed => (m \in x(c) <=> m \in Entries(c))
    BY <2>1, MarkOthers
  <2> QED
    BY <2>1, <2>2, <2>3, <2>4
<1> HIDE DEF gone, lost, cs, x
<1>6. /\ DOMAIN meta' = DOMAIN meta \cup cs
      /\ \A c \in DOMAIN meta' : meta'[c] = IF c \in cs THEN x(c) ELSE meta[c]
      /\ meta' = [c \in DOMAIN meta' |-> meta'[c]]
  BY <1>1
<1>7. Stored(meta') /\ \A c \in DOMAIN meta' : Lists(hurt, c, meta'[c])
  BY <1>2, <1>5, <1>6 DEF IInv, ListsOK, TypeOK, DirOK, Stored
<1>8. ASSUME NEW c \in DOMAIN compound, NEW m
      PROVE  /\ m \in Alive(c)' <=> m \in Alive(c) /\ m.repo \notin TwoNamed
             /\ m.repo \notin TwoNamed => (m \in Entries(c)' <=> m \in Entries(c))
  <2>1. Entries(c)' = IF c \in cs THEN x(c) ELSE Entries(c)
    BY <1>1, <1>6 DEF Entries
  <2> QED
    BY <1>2, <1>5, <2>1 DEF Alive
<1>9. old' \subseteq Files
  BY <1>1 DEF IInv, TypeOK, DirOK
<1> QED
  BY <1>1, <1>3, <1>4, <1>7, <1>8, <1>9

LEMMA StartCleanupKeeps == ASSUME IInv, StartCleanup PROVE IInv'
<1>1. /\ phase = "listed" /\ NoJobs /\ old' \subseteq Files
      /\ tombs' = [r \in Repos |-> IF r \notin list \/ InIndex(r) \/ (InTrash(r) /\ r \notin Outdated)
                                   THEN NoShard ELSE LatestTombstone(r)]
      /\ Advance(list, {r \in Repos : InIndex(r)} \ TwoNamed)
      /\ UNCHANGED <<want, compound, list, job, changes, merges, faults, hurt, stale, emptied>>
      /\ trash' \in [Files -> Versions \cup {Absent}]
      /\ \A f \in Files : trash'[f] = IF f[1] \in Outdated THEN Absent ELSE trash[f]
      /\ simple' \in [Files -> Versions \cup {Absent}]
      /\ \A f \in Files : simple'[f] = IF f[1] \in TwoNamed THEN Absent ELSE simple[f]
      /\ Stored(meta') /\ \A c \in DOMAIN meta' : Lists(hurt, c, meta'[c])
      /\ \A c \in DOMAIN compound : \A m : m \in Alive(c)' <=> m \in Alive(c) /\ m.repo \notin TwoNamed
  BY StartCleanupFacts
<1>2. DirOK'
  BY <1>1 DEF IInv, TypeOK, DirOK, Stored
<1>3. RestOK' /\ JobsTyped' /\ hurt' = hurt /\ \A r, c : Pending(r, c)' <=> Pending(r, c)
  BY <1>1, RestStays DEF history
<1>4. {r \in Repos : InIndex(r)} \ TwoNamed \subseteq Repos /\ list \subseteq Repos
  BY DEF IInv, TypeOK, LoopOK
<1>5. /\ todo' = list /\ doomed' = {r \in Repos : InIndex(r)} \ TwoNamed
      /\ phase' \in {"idle", "listed", "restore", "discard"} /\ (phase' = "discard" => list = {})
  BY <1>1, <1>4, AdvanceFacts
<1>6. LoopOK'
  BY <1>1, <1>4, <1>5, LatestFacts DEF IInv, TypeOK, LoopOK, NoShard, Shards
<1>7. ListsOK'
  BY <1>1, ListsStay
<1>8. FilesOK(hurt', trash') /\ FilesOK(hurt', simple')
  <2>1. \A r \in Repos : \A n \in NamesOf(r), p \in Parts : <<r, n, p>> \in Files
    BY FileFacts
  <2>2. \A f \in Files : /\ (trash'[f] # Absent => Shape[f[1]][trash'[f]].name = f[2])
                         /\ (simple'[f] # Absent => Shape[f[1]][simple'[f]].name = f[2])
    BY <1>1 DEF IInv, FilesOK
  <2>3. ASSUME NEW r \in Repos \ hurt, NEW n \in NamesOf(r)
        PROVE  Whole(trash', r, n) /\ Whole(simple', r, n)
    <3>1. /\ \/ \A p \in Parts : trash'[<<r, n, p>>] = Absent
             \/ \A p \in Parts : trash'[<<r, n, p>>] = trash[<<r, n, p>>]
          /\ \/ \A p \in Parts : simple'[<<r, n, p>>] = Absent
             \/ \A p \in Parts : simple'[<<r, n, p>>] = simple[<<r, n, p>>]
      BY <1>1, <2>1
    <3> QED
      BY <3>1 DEF Whole, IInv, FilesOK
  <2> QED
    BY <1>3, <2>2, <2>3 DEF FilesOK
<1>9. compound' = compound
  BY <1>1
<1>10. Once' /\ Apart'
  <2>1. \A c \in DOMAIN compound' : \A m \in Alive(c)' : m.repo \notin hurt' =>
          c \in DOMAIN compound /\ m \in Alive(c) /\ (Pending(m.repo, c) => Pending(m.repo, c)')
    BY <1>1, <1>3, <1>9
  <2> QED
    BY <1>1, <1>3, <2>1, OnceShrinks, ApartShrinks DEF IInv
<1>11. LockOK'
  BY <1>1 DEF LockOK, NoJobs, Running
<1>12. CleaningOK'
  <2>1. \A r \in Repos : InIndex(r)' <=> InIndex(r) /\ r \notin TwoNamed
    BY <1>1, <1>9, Words, WordsNext DEF IndexWords
  <2>2. \A r \in Repos : InTrash(r)' <=> InTrash(r) /\ r \notin Outdated
    BY <1>1, Words, WordsNext DEF IndexWords
  <2>3. \A r \in Repos : InIndex(r) => r \in Outdated
    BY DEF Outdated
  <2>4. \A r \in list : tombs'[r] # NoShard => /\ tombs'[r] \in DOMAIN compound
                                               /\ ~InIndex(r) /\ ~(InTrash(r) /\ r \notin Outdated)
    BY <1>1, <1>4, LatestFacts
  <2>5. \A r \in Repos \ TwoNamed : \A n : n \in NamesInIndex(r)' <=> n \in NamesInIndex(r)
    BY <1>1, <1>9, Words, WordsNext DEF IndexWords
  <2>6. \A r \in doomed' : \A m, n \in NamesInIndex(r)' : m = n
    BY <1>5, <2>5, OneNamed
  <2> QED
    BY <1>1, <1>4, <1>5, <2>1, <2>2, <2>3, <2>4, <2>6 DEF CleaningOK
<1> QED
  BY <1>2, <1>3, <1>6, <1>7, <1>8, <1>10, <1>11, <1>12 DEF IInv, TypeOK

\* A step of cleanup for r leaves the other repositories where they were.
LEMMA CleaningStep ==
  ASSUME IInv, Cleaning, NEW r \in Repos, NEW left, left \subseteq todo \ {r}, NEW dm, dm = doomed \ {r},
         todo \subseteq left \cup {r}, Advance(left, dm), DirOK', tombs' \in [Repos -> Shards],
         UNCHANGED <<want, list, job, changes, merges, history>>, faults' = faults \/ faults' = faults + 1,
         \A c \in DOMAIN compound' : c \in DOMAIN compound /\ compound'[c] = compound[c],
         \A c \in DOMAIN meta' : Lists(hurt, c, meta'[c]),
         FilesOK(hurt, simple'), FilesOK(hurt, trash'), Once', Apart',
         \A q \in Repos \ {r} : /\ InIndex(q)' => InIndex(q)
                                /\ InTrash(q)' => InTrash(q)
                                /\ NamesInIndex(q)' \subseteq NamesInIndex(q),
         InTrash(r)' => ~InIndex(r)',
         \A q \in left : tombs'[q] = tombs[q] /\ (tombs[q] \in DOMAIN compound => tombs[q] \in DOMAIN compound')
  PROVE  IInv'
<1>1. RestOK' /\ JobsTyped' /\ hurt' = hurt
  BY RestStays
<1>2. left \subseteq Repos /\ dm \subseteq Repos /\ list \subseteq Repos /\ r \notin left /\ r \notin dm
  BY DEF IInv, TypeOK, LoopOK
<1>3. /\ todo' = left /\ doomed' = dm /\ phase' \in {"idle", "listed", "restore", "discard"}
      /\ phase' = "discard" => left = {}
  BY <1>2, AdvanceFacts
<1>4. LoopOK'
  BY <1>2, <1>3 DEF LoopOK
<1>5. NoJobs
  BY DEF IInv, LockOK
<1>6. ListsOK'
  BY <1>1, <1>5, ListsStay
<1>7. LockOK'
  BY <1>5 DEF LockOK, NoJobs, Running
<1>8. CleaningOK'
  <2>1. /\ \A q \in Repos : InTrash(q) => ~InIndex(q)
        /\ \A q \in todo : tombs[q] # NoShard => tombs[q] \in DOMAIN compound /\ ~InIndex(q) /\ ~InTrash(q)
        /\ \A q \in doomed : \A m, n \in NamesInIndex(q) : m = n
        /\ doomed \cap list \subseteq todo
    BY DEF IInv, CleaningOK
  <2>2. \A q \in Repos : InTrash(q)' => ~InIndex(q)'
    BY <2>1
  <2>3. \A q \in left : tombs'[q] # NoShard => tombs'[q] \in DOMAIN compound' /\ ~InIndex(q)' /\ ~InTrash(q)'
    BY <1>2, <2>1
  <2>4. \A q \in dm : \A m, n \in NamesInIndex(q)' : m = n
    BY <1>2, <2>1
  <2>5. dm \cap list \subseteq left
    BY <2>1
  <2> QED
    BY <1>3, <2>2, <2>3, <2>4, <2>5 DEF CleaningOK
<1> QED
  BY <1>1, <1>4, <1>6, <1>7, <1>8 DEF IInv, TypeOK

\* What one repository has in each place stays, if its shards do.
LEMMA OthersStay ==
  ASSUME NEW q \in Repos,
         \A f \in Files : f[1] = q /\ simple'[f] # Absent => simple[f] # Absent,
         \A f \in Files : f[1] = q /\ trash'[f] # Absent => trash[f] # Absent,
         \A c \in DOMAIN compound' : \A m \in Alive(c)' : m.repo = q => c \in DOMAIN compound /\ m \in Alive(c)
  PROVE  /\ InIndex(q)' => InIndex(q)
         /\ InTrash(q)' => InTrash(q)
         /\ NamesInIndex(q)' \subseteq NamesInIndex(q)
  BY Words, WordsNext DEF IndexWords

\* Shards of r come out of the trash: it had nothing in the index.
LEMMA FromTrashFacts ==
  ASSUME IInv, NEW r \in Repos, phase = "restore", InTrash(r), NEW ok \in BOOLEAN, FromTrash(r, ok),
         UNCHANGED <<compound, meta>>
  PROVE  /\ Cleaning /\ ~InIndex(r) /\ old' \subseteq Files
         /\ \A f \in Files : f[1] = r => simple[f] = Absent
         /\ \A c \in DOMAIN compound : \A m \in Alive(c) : m.repo # r
         /\ trash' \in [Files -> Versions \cup {Absent}]
         /\ \A f \in Files : trash'[f] = IF f[1] = r THEN Absent ELSE trash[f]
         /\ simple' \in [Files -> Versions \cup {Absent}]
         /\ \A f \in Files : simple'[f] = IF ok /\ f[1] = r THEN trash[f] ELSE simple[f]
         /\ \A c \in DOMAIN compound : Entries(c)' = Entries(c) /\ Alive(c)' = Alive(c)
<1>1. Cleaning /\ ~InIndex(r)
  BY DEF Cleaning, IInv, CleaningOK
<1>2. /\ \A f \in Files : f[1] = r => simple[f] = Absent
      /\ \A c \in DOMAIN compound : \A m \in Alive(c) : m.repo # r
  BY <1>1, Words DEF IndexWords
<1>3. \A f : f \in SimpleOf(trash, r) <=> f \in Files /\ f[1] = r /\ trash[f] # Absent
  BY DEF SimpleOf
<1>4. /\ trash' \in [Files -> Versions \cup {Absent}]
      /\ \A f \in Files : trash'[f] = IF f[1] = r THEN Absent ELSE trash[f]
  BY <1>3, WithoutFacts DEF FromTrash, IInv, TypeOK, DirOK
<1>5. /\ simple' \in [Files -> Versions \cup {Absent}]
      /\ \A f \in Files : simple'[f] = IF ok /\ f[1] = r THEN trash[f] ELSE simple[f]
  <2>1. CASE ~ok
    BY <2>1 DEF FromTrash, IInv, TypeOK, DirOK
  <2>2. CASE ok
    <3>1. simple' = [f \in Files |-> IF f \in SimpleOf(trash, r) THEN trash[f] ELSE simple[f]]
      BY <2>2 DEF FromTrash
    <3> QED
      BY <1>2, <1>3, <2>2, <3>1 DEF IInv, TypeOK, DirOK
  <2> QED
    BY <2>1, <2>2
<1>6. old' \subseteq Files
  BY DEF FromTrash, IInv, TypeOK, DirOK
<1>7. \A c \in DOMAIN compound : Entries(c)' = Entries(c) /\ Alive(c)' = Alive(c)
  BY DEF Alive, Entries
<1> QED
  BY <1>1, <1>2, <1>4, <1>5, <1>6, <1>7

LEMMA FromTrashKeeps ==
  ASSUME IInv, NEW r \in Repos, phase = "restore", r \in todo, Advance(todo \ {r}, doomed \ {r}),
         tombs' = [tombs EXCEPT ![r] = NoShard], InTrash(r), NEW ok \in BOOLEAN, FromTrash(r, ok),
         UNCHANGED <<want, compound, meta, list, job, changes, merges, history>>,
         faults' = faults \/ faults' = faults + 1
  PROVE  IInv'
<1>1. /\ Cleaning /\ old' \subseteq Files
      /\ \A c \in DOMAIN compound : \A m \in Alive(c) : m.repo # r
      /\ trash' \in [Files -> Versions \cup {Absent}]
      /\ \A f \in Files : trash'[f] = IF f[1] = r THEN Absent ELSE trash[f]
      /\ simple' \in [Files -> Versions \cup {Absent}]
      /\ \A f \in Files : simple'[f] = IF ok /\ f[1] = r THEN trash[f] ELSE simple[f]
      /\ \A c \in DOMAIN compound : Alive(c)' = Alive(c)
  BY FromTrashFacts
<1>2. DirOK'
  BY <1>1 DEF IInv, TypeOK, DirOK, Stored
<1>3. tombs' \in [Repos -> Shards] /\ \A q \in todo \ {r} : tombs'[q] = tombs[q]
  BY DEF IInv, TypeOK, LoopOK, NoShard, Shards
<1>4. FilesOK(hurt, simple') /\ FilesOK(hurt, trash')
  <2>1. \A f \in Files : /\ (trash'[f] # Absent => Shape[f[1]][trash'[f]].name = f[2])
                         /\ (simple'[f] # Absent => Shape[f[1]][simple'[f]].name = f[2])
    BY <1>1 DEF IInv, FilesOK
  <2>2. ASSUME NEW q \in Repos \ hurt, NEW n \in NamesOf(q)
        PROVE  Whole(trash', q, n) /\ Whole(simple', q, n)
    <3>1. \A p \in Parts : <<q, n, p>> \in Files
      BY FileFacts
    <3>2. /\ \/ \A p \in Parts : trash'[<<q, n, p>>] = Absent
             \/ \A p \in Parts : trash'[<<q, n, p>>] = trash[<<q, n, p>>]
          /\ \/ \A p \in Parts : simple'[<<q, n, p>>] = trash[<<q, n, p>>]
             \/ \A p \in Parts : simple'[<<q, n, p>>] = simple[<<q, n, p>>]
      BY <1>1, <3>1
    <3>3. Whole(trash, q, n) /\ Whole(simple, q, n)
      BY DEF IInv, FilesOK
    <3> QED
      BY <3>2, <3>3 DEF Whole
  <2> QED
    BY <2>1, <2>2 DEF FilesOK
<1>5. hurt' = hurt /\ \A q, c : Pending(q, c)' <=> Pending(q, c)
  BY RestStays
<1>6. Once'
  BY <1>1, <1>5, OnceShrinks DEF IInv
<1>7. Apart'
  <2> SUFFICES ASSUME NEW f \in Files, NEW c \in DOMAIN compound, NEW m \in Alive(c),
                      simple'[f] # Absent, f[1] = m.repo, m.repo \notin hurt, f[2] = NameOf(m)
               PROVE  Pending(m.repo, c)
    BY <1>1, <1>5 DEF Apart
  <2>1. simple[f] # Absent
    BY <1>1
  <2> QED
    BY <2>1 DEF IInv, Apart
<1>8. \A q \in Repos \ {r} : /\ InIndex(q)' => InIndex(q)
                             /\ InTrash(q)' => InTrash(q)
                             /\ NamesInIndex(q)' \subseteq NamesInIndex(q)
  BY <1>1, OthersStay
<1>9. ~InTrash(r)'
  BY <1>1, WordsNext DEF IndexWords
<1>10. \A c \in DOMAIN meta' : Lists(hurt, c, meta'[c])
  BY DEF IInv, ListsOK
<1>11. Cleaning
  BY <1>1
<1> QED
  BY <1>2, <1>3, <1>4, <1>6, <1>7, <1>8, <1>9, <1>10, <1>11, CleaningStep

\* A tombstone for r is removed or set, in c, while it has nothing else in the index.
LEMMA TombstoneFacts ==
  ASSUME IInv, NEW r \in Repos, NEW c \in DOMAIN compound, NEW dead \in BOOLEAN,
         meta' = Put(meta, c, Mark(Entries(c), {r}, dead)), compound' = compound
  PROVE  /\ Stored(meta') /\ \A d \in DOMAIN meta' : Lists(hurt, d, meta'[d])
         /\ \A d \in DOMAIN compound : Entries(d)' = IF d = c THEN Mark(Entries(c), {r}, dead) ELSE Entries(d)
         /\ \A d \in DOMAIN compound : \A m : m.repo # r => (m \in Entries(d)' <=> m \in Entries(d))
         /\ dead = TRUE => (\A m \in Entries(c)' : ~m.dead => m \in Entries(c) /\ m.repo # r)
<1> DEFINE x == Mark(Entries(c), {r}, dead)
<1>1. Entries(c) \subseteq Entry /\ Lists(hurt, c, Entries(c)) /\ c \in Shards
  BY EntriesType, ListsEntries DEF IInv, TypeOK, DirOK, Stored
<1>2. x \subseteq Entry /\ Lists(hurt, c, x)
  BY <1>1, MarkFacts, MarkLists
<1>3. \A m \in Entry : m.repo \notin {r} => (m \in x <=> m \in Entries(c))
  BY <1>1, MarkOthers
<1>4. dead = TRUE => (\A m \in x : ~m.dead => m \in Entries(c) /\ m.repo \notin {r})
  BY <1>1, MarkDead
<1>5. meta' = Put(meta, c, x)
  OBVIOUS
<1> HIDE DEF x
<1>6. /\ Stored(meta') /\ DOMAIN meta' = DOMAIN meta \cup {c}
      /\ \A d \in DOMAIN meta' : meta'[d] = IF d = c THEN x ELSE meta[d]
  <2>1. Stored(meta) /\ c \in Shards /\ x \subseteq Entry
    BY <1>1, <1>2 DEF IInv, TypeOK, DirOK
  <2>2. PICK y : y = x
    OBVIOUS
  <2>3. meta' = Put(meta, c, y) /\ y \subseteq Entry
    BY <1>5, <2>1, <2>2
  <2>4. Stored(meta') /\ DOMAIN meta' = DOMAIN meta \cup {c}
    BY <2>1, <2>3 DEF Stored, Put
  <2>5. \A d \in DOMAIN meta \cup {c} : Put(meta, c, y)[d] = IF d = c THEN y ELSE meta[d]
    BY <2>1, <2>3 DEF Stored, Put
  <2> QED
    BY <2>2, <2>3, <2>4, <2>5
<1>7. \A d \in DOMAIN meta' : Lists(hurt, d, meta'[d])
  BY <1>2, <1>6 DEF IInv, ListsOK
<1>8. \A d \in DOMAIN compound : Entries(d)' = IF d = c THEN x ELSE Entries(d)
  BY <1>6 DEF Entries
<1>9. \A d \in DOMAIN compound : \A m : m.repo # r => (m \in Entries(d)' <=> m \in Entries(d))
  BY <1>1, <1>2, <1>3, <1>8
<1>10. dead = TRUE => (\A m \in Entries(c)' : ~m.dead => m \in Entries(c) /\ m.repo # r)
  BY <1>4, <1>8
<1> QED
  BY <1>6, <1>7, <1>8, <1>9, <1>10 DEF x

LEMMA TombstoneKeeps ==
  ASSUME IInv, Cleaning, NEW r \in Repos, NEW left, left \subseteq todo \ {r}, NEW dm, dm = doomed \ {r},
         todo \subseteq left \cup {r}, Advance(left, dm), tombs' \in [Repos -> Shards],
         \A q \in left : tombs'[q] = tombs[q],
         NEW c \in DOMAIN compound, NEW dead \in BOOLEAN, meta' = Put(meta, c, Mark(Entries(c), {r}, dead)),
         dead = TRUE \/ ~InIndex(r), ~InTrash(r),
         UNCHANGED <<want, simple, trash, old, compound, list, job, changes, merges, history>>,
         faults' = faults \/ faults' = faults + 1
  PROVE  IInv'
<1>1. /\ Stored(meta') /\ \A d \in DOMAIN meta' : Lists(hurt, d, meta'[d])
      /\ \A d \in DOMAIN compound : d # c => Entries(d)' = Entries(d)
      /\ \A d \in DOMAIN compound : \A m : m.repo # r => (m \in Entries(d)' <=> m \in Entries(d))
      /\ dead = TRUE => (\A m \in Entries(c)' : ~m.dead => m \in Entries(c) /\ m.repo # r)
  BY TombstoneFacts
<1>2. DirOK'
  BY <1>1 DEF IInv, TypeOK, DirOK, Stored
<1>3. \A d \in DOMAIN compound : \A m \in Alive(d)' :
         \/ m \in Alive(d)
         \/ m.repo = r /\ d = c /\ ~InIndex(r)
  <2> SUFFICES ASSUME NEW d \in DOMAIN compound, NEW m \in Alive(d)', m \notin Alive(d)
               PROVE  m.repo = r /\ d = c /\ ~InIndex(r)
    OBVIOUS
  <2>1. m \in Entries(d)' /\ ~m.dead /\ m \notin Entries(d)
    BY DEF Alive
  <2> QED
    BY <1>1, <2>1
<1>4. hurt' = hurt /\ \A q, d : Pending(q, d)' <=> Pending(q, d)
  BY RestStays
<1>5. ~InIndex(r) => /\ \A f \in Files : f[1] = r => simple[f] = Absent
                     /\ \A d \in DOMAIN compound : \A m \in Alive(d) : m.repo # r
  BY Words DEF IndexWords
<1>6. Once'
  <2> SUFFICES ASSUME NEW d \in DOMAIN compound, NEW e \in DOMAIN compound, NEW m \in Alive(d)', NEW n \in Alive(e)',
                      m.repo = n.repo, m.repo \notin hurt, NameOf(m) = NameOf(n)
               PROVE  d = e
    BY <1>4 DEF Once
  <2>1. CASE m \in Alive(d) /\ n \in Alive(e)
    BY <2>1 DEF IInv, Once
  <2>2. CASE m \notin Alive(d)
    BY <1>3, <1>5, <2>2
  <2>3. CASE n \notin Alive(e)
    BY <1>3, <1>5, <2>3
  <2> QED
    BY <2>1, <2>2, <2>3
<1>7. Apart'
  <2> SUFFICES ASSUME NEW f \in Files, NEW d \in DOMAIN compound, NEW m \in Alive(d)',
                      simple[f] # Absent, f[1] = m.repo, m.repo \notin hurt, f[2] = NameOf(m)
               PROVE  Pending(m.repo, d)
    BY <1>4 DEF Apart
  <2>1. m \in Alive(d)
    BY <1>3, <1>5
  <2> QED
    BY <2>1 DEF IInv, Apart
<1>8. \A q \in Repos \ {r} : /\ InIndex(q)' => InIndex(q)
                             /\ InTrash(q)' => InTrash(q)
                             /\ NamesInIndex(q)' \subseteq NamesInIndex(q)
  BY <1>3, OthersStay
<1>9. ~InTrash(r)'
  BY Words, WordsNext DEF IndexWords
<1>10. FilesOK(hurt, simple') /\ FilesOK(hurt, trash')
  BY DEF IInv, FilesOK
<1>11. \A d \in DOMAIN meta' : Lists(hurt, d, meta'[d])
  BY <1>1
<1> QED
  BY <1>2, <1>6, <1>7, <1>8, <1>9, <1>10, <1>11, CleaningStep

\* Nothing comes into the index.
LEMMA CleaningShrinks ==
  ASSUME IInv, Cleaning, NEW r \in Repos, NEW left, left \subseteq todo \ {r}, NEW dm, dm = doomed \ {r},
         todo \subseteq left \cup {r}, Advance(left, dm), tombs' \in [Repos -> Shards],
         \A q \in left : tombs'[q] = tombs[q] /\ (tombs[q] \in DOMAIN compound => tombs[q] \in DOMAIN compound'),
         Stored(compound'), Stored(meta'),
         \A c \in DOMAIN compound' : /\ c \in DOMAIN compound /\ compound'[c] = compound[c]
                                     /\ Entries(c)' = Entries(c),
         \A c \in DOMAIN meta' : c \in DOMAIN meta /\ meta'[c] = meta[c],
         simple' \in [Files -> Versions \cup {Absent}], trash' \in [Files -> Versions \cup {Absent}],
         old' \subseteq Files, FilesOK(hurt, simple'), FilesOK(hurt, trash'),
         \A f \in Files : simple'[f] # Absent => simple[f] # Absent,
         \A f \in Files : f[1] # r /\ trash'[f] # Absent => trash[f] # Absent,
         InTrash(r)' => ~InIndex(r)',
         UNCHANGED <<want, list, job, changes, merges, history>>, faults' = faults \/ faults' = faults + 1
  PROVE  IInv'
<1>1. DirOK'
  BY DEF DirOK, Stored
<1>2. \A c \in DOMAIN compound' : \A m \in Alive(c)' : c \in DOMAIN compound /\ m \in Alive(c)
  BY DEF Alive
<1>3. hurt' = hurt /\ \A q, c : Pending(q, c)' <=> Pending(q, c)
  BY RestStays
<1>4. Once' /\ Apart'
  BY <1>2, <1>3, OnceShrinks, ApartShrinks DEF IInv
<1>5. \A q \in Repos \ {r} : /\ InIndex(q)' => InIndex(q)
                             /\ InTrash(q)' => InTrash(q)
                             /\ NamesInIndex(q)' \subseteq NamesInIndex(q)
  <2> SUFFICES ASSUME NEW q \in Repos, q # r
               PROVE  /\ InIndex(q)' => InIndex(q)
                      /\ InTrash(q)' => InTrash(q)
                      /\ NamesInIndex(q)' \subseteq NamesInIndex(q)
    OBVIOUS
  <2>1. \A f \in Files : f[1] = q /\ trash'[f] # Absent => trash[f] # Absent
    OBVIOUS
  <2> QED
    BY <1>2, <2>1, OthersStay
<1>6. \A c \in DOMAIN meta' : Lists(hurt, c, meta'[c])
  BY DEF IInv, ListsOK
<1> QED
  BY <1>1, <1>4, <1>5, <1>6, CleaningStep

LEMMA RestoreRepoKeeps == ASSUME IInv, NEW r \in Repos, RestoreRepo(r) PROVE IInv'
<1>1. /\ phase = "restore" /\ r \in todo
      /\ Advance(todo \ {r}, doomed \ {r}) /\ tombs' = [tombs EXCEPT ![r] = NoShard]
      /\ UNCHANGED <<want, compound, list, job, changes, merges, history>>
  BY DEF RestoreRepo
<1>2. Cleaning /\ todo \subseteq Repos
  BY <1>1 DEF Cleaning, IInv, TypeOK, LoopOK
<1>3. tombs' \in [Repos -> Shards] /\ \A q \in todo \ {r} : tombs'[q] = tombs[q]
  BY <1>1, <1>2 DEF IInv, TypeOK, LoopOK, NoShard, Shards
<1>4. CASE InTrash(r) /\ UNCHANGED meta /\ \/ FromTrash(r, TRUE) /\ faults' = faults
                                           \/ FromTrash(r, FALSE) /\ Failure
  BY <1>1, <1>4, FromTrashKeeps DEF Failure
<1>5. CASE /\ ~InTrash(r) /\ tombs[r] # NoShard /\ UNCHANGED <<simple, trash, old>>
           /\ meta' = Put(meta, tombs[r], Mark(Entries(tombs[r]), {r}, FALSE)) /\ faults' = faults
  <2>1. tombs[r] \in DOMAIN compound /\ ~InIndex(r)
    BY <1>1, <1>2, <1>5 DEF IInv, CleaningOK
  <2> QED
    BY <1>1, <1>2, <1>3, <1>5, <2>1, TombstoneKeeps
<1>6. CASE ~InTrash(r) /\ UNCHANGED <<simple, trash, old, meta>> /\ (faults' = faults \/ Failure)
  <2>1. DirOK /\ FilesOK(hurt, simple) /\ FilesOK(hurt, trash)
    BY DEF IInv, TypeOK
  <2>2. ~InTrash(r)'
    BY <1>6, Words, WordsNext DEF IndexWords
  <2>3. \A c \in DOMAIN compound : Entries(c)' = Entries(c)
    BY <1>1, <1>6 DEF Entries
  <2>4. Stored(compound') /\ Stored(meta')
    BY <1>1, <1>6, <2>1 DEF DirOK, Stored
  <2>5. /\ simple' \in [Files -> Versions \cup {Absent}] /\ trash' \in [Files -> Versions \cup {Absent}]
        /\ old' \subseteq Files /\ FilesOK(hurt, simple') /\ FilesOK(hurt, trash')
    BY <1>6, <2>1 DEF DirOK, FilesOK
  <2>6. faults' = faults \/ faults' = faults + 1
    BY <1>6 DEF Failure
  <2> QED
    BY <1>1, <1>2, <1>3, <1>6, <2>2, <2>3, <2>4, <2>5, <2>6, CleaningShrinks
<1> QED
  BY <1>4, <1>5, <1>6 DEF RestoreRepo

\* Shards of r go into the trash, or are lost.
LEMMA ToTrashFacts ==
  ASSUME IInv, NEW r \in Repos, phase = "discard", NEW ok \in BOOLEAN, ToTrash(r, ok)
  PROVE  /\ Cleaning /\ todo = {} /\ (InTrash(r) => ~InIndex(r)) /\ old' \subseteq Files
         /\ simple' \in [Files -> Versions \cup {Absent}]
         /\ \A f \in Files : simple'[f] = IF f[1] = r THEN Absent ELSE simple[f]
         /\ trash' \in [Files -> Versions \cup {Absent}]
         /\ \A f \in Files : trash'[f] = IF ok /\ f[1] = r /\ InIndex(r) THEN simple[f] ELSE trash[f]
         /\ Stored(compound') /\ Stored(meta')
         /\ \A c : c \in DOMAIN compound' <=> c \in DOMAIN compound /\ \A m \in Alive(c) : m.repo # r
         /\ \A c \in DOMAIN compound' : compound'[c] = compound[c] /\ Entries(c)' = Entries(c)
         /\ \A c \in DOMAIN meta' : c \in DOMAIN meta /\ meta'[c] = meta[c]
<1>1. Cleaning /\ todo = {} /\ (InTrash(r) => ~InIndex(r)) 
  BY DEF Cleaning, IInv, CleaningOK
<1>2. \A f : f \in SimpleOf(simple, r) <=> f \in Files /\ f[1] = r /\ simple[f] # Absent
  BY DEF SimpleOf
<1>3. /\ simple' \in [Files -> Versions \cup {Absent}]
      /\ \A f \in Files : simple'[f] = IF f[1] = r THEN Absent ELSE simple[f]
  BY <1>2, WithoutFacts DEF ToTrash, IInv, TypeOK, DirOK
<1>4. /\ trash' \in [Files -> Versions \cup {Absent}]
      /\ \A f \in Files : trash'[f] = IF ok /\ f[1] = r /\ InIndex(r) THEN simple[f] ELSE trash[f]
  <2>1. CASE ~ok
    BY <2>1 DEF ToTrash, IInv, TypeOK, DirOK
  <2>2. CASE ok
    <3>1. trash' = [f \in Files |-> IF f \in SimpleOf(simple, r) THEN simple[f] ELSE trash[f]]
      BY <2>2 DEF ToTrash
    <3>2. InIndex(r) => \A f \in Files : f[1] = r => trash[f] = Absent
      BY <1>1, Words DEF IndexWords
    <3>3. ~InIndex(r) => \A f \in Files : f[1] = r => simple[f] = Absent
      BY Words DEF IndexWords
    <3> QED
      BY <1>2, <2>2, <3>1, <3>2, <3>3 DEF IInv, TypeOK, DirOK
  <2> QED
    BY <2>1, <2>2
<1>5. old' \subseteq Files
  BY DEF ToTrash, IInv, TypeOK, DirOK
<1> DEFINE cs == DOMAIN compound \ CompoundsOf(r)
           ms == DOMAIN meta \cap cs
<1>6. compound' = Only(compound, cs) /\ meta' = Only(meta, ms) /\ cs \subseteq DOMAIN compound
      /\ \A c : c \in cs <=> c \in DOMAIN compound /\ \A m \in Alive(c) : m.repo # r
  BY DEF ToTrash, CompoundsOf
<1>7. ms \subseteq DOMAIN meta /\ \A c : c \in ms <=> c \in DOMAIN meta /\ c \in cs
  OBVIOUS
<1> HIDE DEF cs, ms
<1>8. Stored(compound') /\ DOMAIN compound' = cs /\ \A c \in cs : compound'[c] = compound[c]
  BY <1>6, StoredOnly DEF IInv, TypeOK, DirOK
<1>9. Stored(meta') /\ DOMAIN meta' = ms /\ \A c \in ms : meta'[c] = meta[c]
  BY <1>6, <1>7, StoredOnly DEF IInv, TypeOK, DirOK
<1>10. \A c \in DOMAIN compound' : /\ c \in DOMAIN compound /\ compound'[c] = compound[c]
                                   /\ Entries(c)' = Entries(c)
  BY <1>6, <1>7, <1>8, <1>9 DEF Entries
<1> QED
  BY <1>1, <1>3, <1>4, <1>5, <1>6, <1>7, <1>8, <1>9, <1>10

LEMMA ToTrashKeeps ==
  ASSUME IInv, NEW r \in Repos, phase = "discard", r \in doomed, Advance({}, doomed \ {r}),
         NEW ok \in BOOLEAN, ToTrash(r, ok),
         UNCHANGED <<want, tombs, list, job, changes, merges, history>>,
         faults' = faults \/ faults' = faults + 1
  PROVE  IInv'
<1>1. /\ Cleaning /\ todo = {} /\ (InTrash(r) => ~InIndex(r)) /\ old' \subseteq Files
      /\ simple' \in [Files -> Versions \cup {Absent}]
      /\ \A f \in Files : simple'[f] = IF f[1] = r THEN Absent ELSE simple[f]
      /\ trash' \in [Files -> Versions \cup {Absent}]
      /\ \A f \in Files : trash'[f] = IF ok /\ f[1] = r /\ InIndex(r) THEN simple[f] ELSE trash[f]
      /\ Stored(compound') /\ Stored(meta')
      /\ \A c : c \in DOMAIN compound' <=> c \in DOMAIN compound /\ \A m \in Alive(c) : m.repo # r
      /\ \A c \in DOMAIN compound' : compound'[c] = compound[c] /\ Entries(c)' = Entries(c)
      /\ \A c \in DOMAIN meta' : c \in DOMAIN meta /\ meta'[c] = meta[c]
  BY ToTrashFacts
<1>2. tombs' \in [Repos -> Shards]
  BY DEF IInv, TypeOK, LoopOK
<1>3. FilesOK(hurt, simple') /\ FilesOK(hurt, trash')
  <2>1. \A f \in Files : /\ (trash'[f] # Absent => Shape[f[1]][trash'[f]].name = f[2])
                         /\ (simple'[f] # Absent => Shape[f[1]][simple'[f]].name = f[2])
    BY <1>1 DEF IInv, FilesOK
  <2>2. ASSUME NEW q \in Repos \ hurt, NEW n \in NamesOf(q)
        PROVE  Whole(trash', q, n) /\ Whole(simple', q, n)
    <3>1. \A p \in Parts : <<q, n, p>> \in Files
      BY FileFacts
    <3>2. /\ \/ \A p \in Parts : simple'[<<q, n, p>>] = Absent
             \/ \A p \in Parts : simple'[<<q, n, p>>] = simple[<<q, n, p>>]
          /\ \/ \A p \in Parts : trash'[<<q, n, p>>] = trash[<<q, n, p>>]
             \/ \A p \in Parts : trash'[<<q, n, p>>] = simple[<<q, n, p>>]
      BY <1>1, <3>1
    <3>3. Whole(trash, q, n) /\ Whole(simple, q, n)
      BY DEF IInv, FilesOK
    <3> QED
      BY <3>2, <3>3 DEF Whole
  <2> QED
    BY <2>1, <2>2 DEF FilesOK
<1>4. ~InIndex(r)'
  <2>1. \A c \in DOMAIN compound' : \A m \in Alive(c)' : m.repo # r
    BY <1>1 DEF Alive
  <2> QED
    BY <1>1, <2>1, WordsNext DEF IndexWords
<1> QED
  BY <1>1, <1>2, <1>3, <1>4, CleaningShrinks

LEMMA DiscardKeeps == ASSUME IInv, NEW r \in Repos, Discard(r) PROVE IInv'
<1> DEFINE c == FindCompound(r)
<1>1. /\ phase = "discard" /\ r \in doomed /\ Advance({}, doomed \ {r})
      /\ UNCHANGED <<want, list, tombs, job, changes, merges, history>>
  BY DEF Discard
<1>2. Cleaning /\ todo = {} /\ tombs' \in [Repos -> Shards] /\ (InTrash(r) => ~InIndex(r))
  BY <1>1 DEF Cleaning, IInv, CleaningOK, TypeOK, LoopOK
<1>3. OnlyCompound(r) => c \in CompoundsOf(r) /\ c \in DOMAIN compound /\ ~InTrash(r)
  <2>1. OnlyCompound(r) => CompoundsOf(r) # {}
    BY FS_EmptySet DEF OnlyCompound
  <2>2. CompoundsOf(r) # {} => c \in CompoundsOf(r) /\ c \in DOMAIN compound /\ InIndex(r)
    BY DEF FindCompound, CompoundsOf, InIndex
  <2> QED
    BY <1>2, <2>1, <2>2
<1>4. CASE ~OnlyCompound(r) /\ \/ ToTrash(r, TRUE) /\ faults' = faults
                               \/ ToTrash(r, FALSE) /\ Failure
  BY <1>1, <1>4, ToTrashKeeps DEF Failure
<1>5. CASE /\ OnlyCompound(r) /\ meta' = Put(meta, c, Mark(Entries(c), {r}, TRUE))
           /\ UNCHANGED <<compound, faults, simple, trash, old>>
  <2> HIDE DEF c
  <2>1. c \in DOMAIN compound /\ ~InTrash(r)
    BY <1>3, <1>5
  <2>2. \A q \in {} : tombs'[q] = tombs[q]
    OBVIOUS
  <2> QED
    BY <1>1, <1>2, <1>5, <2>1, <2>2, TombstoneKeeps
<1>6. CASE /\ OnlyCompound(r) /\ Failure
           /\ compound' \in {compound, Only(compound, DOMAIN compound \ {c})}
           /\ UNCHANGED <<meta, simple, trash, old>>
  <2>1. DirOK /\ FilesOK(hurt, simple) /\ FilesOK(hurt, trash)
    BY DEF IInv, TypeOK
  <2>2. ~InTrash(r)'
    BY <1>3, <1>6, Words, WordsNext DEF IndexWords
  <2>3. Stored(compound') /\ \A d \in DOMAIN compound' : d \in DOMAIN compound /\ compound'[d] = compound[d]
    <3>1. CASE compound' = compound
      BY <2>1, <3>1 DEF DirOK, Stored
    <3>2. CASE compound' = Only(compound, DOMAIN compound \ {c})
      BY <2>1, <3>2, StoredOnly DEF DirOK
    <3> QED
      BY <1>6, <3>1, <3>2
  <2>4. \A d \in DOMAIN compound' : Entries(d)' = Entries(d)
    BY <1>6, <2>3 DEF Entries
  <2>5. Stored(meta')
    BY <1>6, <2>1 DEF DirOK, Stored
  <2>6. /\ simple' \in [Files -> Versions \cup {Absent}] /\ trash' \in [Files -> Versions \cup {Absent}]
        /\ old' \subseteq Files /\ FilesOK(hurt, simple') /\ FilesOK(hurt, trash')
    BY <1>6, <2>1 DEF DirOK, FilesOK
  <2>7. faults' = faults + 1
    BY <1>6 DEF Failure
  <2> QED
    BY <1>1, <1>2, <1>6, <2>2, <2>3, <2>4, <2>5, <2>6, <2>7, CleaningShrinks
<1> QED
  BY <1>4, <1>5, <1>6 DEF Discard

LEMMA CrashMovingKeeps == ASSUME IInv, NEW r \in Repos, CrashMoving(r) PROVE IInv'
<1> DEFINE first(dir) == {f \in SimpleOf(dir, r) : \A g \in SimpleOf(dir, r) : f[3] <= g[3]}
<1>1. /\ list' = {} /\ phase' = "idle" /\ todo' = {} /\ doomed' = {} /\ faults' = faults + 1
      /\ tombs' = [q \in Repos |-> NoShard] /\ job' = [j \in Jobs |-> IdleJob]
      /\ hurt' = hurt \cup {r} /\ UNCHANGED <<want, compound, meta, changes, merges, stale, emptied>>
      /\ phase \in {"restore", "discard"}
  BY DEF CrashMoving, Restart, Failure
<1>2. \/ /\ simple' = [f \in Files |-> IF f \in first(trash) THEN trash[f] ELSE simple[f]]
         /\ trash' = Without(trash, first(trash)) /\ old' = old \ first(trash)
      \/ /\ trash' = [f \in Files |-> IF f \in first(simple) THEN simple[f] ELSE trash[f]]
         /\ simple' = Without(simple, first(simple)) /\ old' = old \ first(simple)
  BY DEF CrashMoving
<1>3. \A f : f \in first(trash) \/ f \in first(simple) => f \in Files /\ f[1] = r
  BY DEF SimpleOf
<1> HIDE DEF first
<1>4. /\ simple' \in [Files -> Versions \cup {Absent}] /\ trash' \in [Files -> Versions \cup {Absent}]
      /\ \A f \in Files : /\ simple'[f] \in {simple[f], trash[f], Absent}
                          /\ trash'[f] \in {simple[f], trash[f], Absent}
                          /\ f[1] # r => simple'[f] = simple[f] /\ trash'[f] = trash[f]
  <2>1. DirOK
    BY DEF IInv, TypeOK
  <2> QED
    BY <1>2, <1>3, <2>1 DEF DirOK, Without
<1>5. NoJobs
  BY <1>1 DEF IInv, LockOK, Cleaning
<1>6. JobsTyped' /\ \A j \in Jobs : job'[j] = IdleJob
  BY <1>1, IdleJobType DEF JobsTyped, JobOK
<1>7. hurt \subseteq hurt' /\ r \in hurt' /\ hurt' \subseteq Repos
  BY <1>1 DEF IInv, TypeOK, RestOK
<1>8. old' \subseteq Files
  BY <1>2 DEF IInv, TypeOK, DirOK
<1>9. TypeOK'
  BY <1>1, <1>4, <1>6, <1>7, <1>8 DEF IInv, TypeOK, DirOK, Stored, LoopOK, RestOK, NoShard, Shards
<1>10. ListsOK'
  BY <1>1, <1>6, <1>7, IdleJobType, ListsGrow DEF IInv, ListsOK, Pends
<1>11. FilesOK(hurt', trash') /\ FilesOK(hurt', simple')
  <2>1. \A f \in Files : /\ (trash'[f] # Absent => Shape[f[1]][trash'[f]].name = f[2])
                         /\ (simple'[f] # Absent => Shape[f[1]][simple'[f]].name = f[2])
    BY <1>4 DEF IInv, FilesOK
  <2>2. ASSUME NEW q \in Repos \ hurt', NEW n \in NamesOf(q)
        PROVE  Whole(trash', q, n) /\ Whole(simple', q, n)
    <3>1. \A p \in Parts : <<q, n, p>> \in Files /\ q # r
      BY <1>7, FileFacts
    <3>2. \A p \in Parts : /\ trash'[<<q, n, p>>] = trash[<<q, n, p>>]
                           /\ simple'[<<q, n, p>>] = simple[<<q, n, p>>]
      BY <1>4, <3>1
    <3>3. Whole(trash, q, n) /\ Whole(simple, q, n)
      BY <1>7 DEF IInv, FilesOK
    <3> QED
      BY <3>2, <3>3 DEF Whole
  <2> QED
    BY <2>1, <2>2 DEF FilesOK
<1>12. \A c \in DOMAIN compound : Alive(c)' = Alive(c)
  BY <1>1 DEF Alive, Entries
<1>13. Once'
  BY <1>1, <1>7, <1>12, OnceShrinks DEF IInv
<1>14. Apart'
  <2>1. \A q, c : ~Pending(q, c)
    BY <1>5, CleaningJobs DEF Pending
  <2>2. \A f \in Files : simple'[f] # Absent /\ f[1] \notin hurt' => simple[f] # Absent
    BY <1>4, <1>7
  <2> QED
    BY <1>1, <1>7, <1>12, <2>1, <2>2, ApartShrinks DEF IInv
<1> QED
  BY <1>1, <1>9, <1>10, <1>11, <1>13, <1>14 DEF IInv, LockOK, CleaningOK, Cleaning

-----------------------------------------------------------------------------
(* Merge and vacuum.                                                       *)

\* What a step under Global leaves alone.
LEMMA ExclusiveStep ==
  ASSUME IInv, Exclusive, UNCHANGED <<want, trash, old, list, cleanVars, job, changes, hurt>>,
         faults' = faults \/ faults' = faults + 1, stale' \subseteq Repos, emptied' \subseteq Repos,
         simple' \in [Files -> Versions \cup {Absent}], Stored(compound'), Stored(meta'),
         \A c \in DOMAIN compound' : c # {} /\ Lists(hurt, c, compound'[c]),
         \A c \in DOMAIN meta' : Lists(hurt, c, meta'[c]),
         FilesOK(hurt, simple'), Once', Apart'
  PROVE  IInv'
<1>1. NoJobs /\ ~Cleaning /\ merges' = merges + 1
  BY DEF Exclusive, Free
<1>2. DirOK'
  BY DEF IInv, TypeOK, DirOK, Stored
<1>3. /\ list' = list /\ phase' = phase /\ todo' = todo /\ tombs' = tombs /\ doomed' = doomed
      /\ want' = want /\ job' = job /\ changes' = changes /\ hurt' = hurt /\ trash' = trash
  BY DEF cleanVars
<1>4. LoopOK' /\ JobsTyped' /\ RestOK'
  BY <1>1, <1>3 DEF IInv, TypeOK, LoopOK, JobsTyped, JobOK, RestOK
<1>5. \A j \in Jobs : ~Pends(j)' /\ job'[j].st # "marking"
  BY <1>1, <1>3, CleaningJobs DEF Pends
<1>6. ListsOK'
  BY <1>3, <1>5 DEF ListsOK
<1>7. FilesOK(hurt', simple') /\ FilesOK(hurt', trash')
  BY <1>3 DEF IInv, FilesOK
<1>8. ~Cleaning'
  BY <1>1, <1>3 DEF Cleaning
<1> QED
  BY <1>2, <1>4, <1>6, <1>7, <1>8 DEF IInv, TypeOK, LockOK, CleaningOK

\* Nothing is pending then.
LEMMA NoneApart ==
  ASSUME IInv, NoJobs
  PROVE  \A f \in Files : \A c \in DOMAIN compound : \A m \in Alive(c) :
           ~(simple[f] # Absent /\ f[1] = m.repo /\ m.repo \notin hurt /\ f[2] = NameOf(m))
  BY CleaningJobs DEF IInv, Apart, Pending

\* Small shards are removed whole.
LEMMA SmallRemoved ==
  ASSUME IInv, NEW fs, fs \subseteq SmallFiles
  PROVE  /\ Without(simple, fs) \in [Files -> Versions \cup {Absent}]
         /\ FilesOK(hurt, Without(simple, fs))
         /\ \A f \in Files : Without(simple, fs)[f] # Absent => simple[f] # Absent /\ f \notin fs
<1> DEFINE next == Without(simple, fs)
<1>1. /\ next \in [Files -> Versions \cup {Absent}]
      /\ \A f \in Files : next[f] = IF f \in fs THEN Absent ELSE simple[f]
  BY WithoutFacts DEF IInv, TypeOK, DirOK
<1> HIDE DEF next
<1>2. \A f \in Files : next[f] # Absent => Shape[f[1]][next[f]].name = f[2]
  BY <1>1 DEF IInv, FilesOK
<1>3. ASSUME NEW q \in Repos \ hurt, NEW n \in NamesOf(q) PROVE Whole(next, q, n)
  <2>1. Whole(simple, q, n) /\ \A p \in Parts : <<q, n, p>> \in Files
    BY FileFacts DEF IInv, FilesOK
  <2>2. Parts = {0, 1}
    BY VersionFacts
  <2>3. <<q, n, 1>> \notin fs
    BY DEF SmallFiles
  <2>4. CASE <<q, n, 0>> \notin fs
    <3>1. \A p \in Parts : next[<<q, n, p>>] = simple[<<q, n, p>>]
      BY <1>1, <2>1, <2>2, <2>3, <2>4
    <3> QED
      BY <2>1, <3>1 DEF Whole
  <2>5. CASE <<q, n, 0>> \in fs
    <3>1. simple[<<q, n, 1>>] = Absent
      BY <2>5 DEF SmallFiles
    <3>2. \A p \in Parts : next[<<q, n, p>>] = Absent
      BY <1>1, <2>1, <2>2, <2>3, <2>5, <3>1
    <3> QED
      BY <3>2 DEF Whole
  <2> QED
    BY <2>4, <2>5
<1>4. FilesOK(hurt, next)
  BY <1>2, <1>3 DEF FilesOK
<1> QED
  BY <1>1, <1>4 DEF next

\* A small shard holds a version that fits into one.
LEMMA SmallVersion ==
  ASSUME IInv, NEW f \in SmallFiles
  PROVE  /\ f \in Files /\ f = <<f[1], f[2], 0>> /\ f[1] \in Repos /\ simple[f] \in Versions
         /\ Shape[f[1]][simple[f]].name = f[2]
         /\ f[1] \notin hurt => Shape[f[1]][simple[f]].parts = 1
<1>1. f \in Files /\ f[3] = 0 /\ simple[f] # Absent /\ simple[<<f[1], f[2], 1>>] = Absent
  BY DEF SmallFiles
<1>2. f = <<f[1], f[2], 0>> /\ f[1] \in Repos /\ f[2] \in NamesOf(f[1])
  BY <1>1, FileFacts
<1>3. simple[f] \in Versions /\ Shape[f[1]][simple[f]].name = f[2]
  BY <1>1 DEF IInv, TypeOK, DirOK, FilesOK
<1>4. ASSUME f[1] \notin hurt PROVE Shape[f[1]][simple[f]].parts = 1
  <2>1. Whole(simple, f[1], f[2]) /\ simple[<<f[1], f[2], 0>>] # Absent
    BY <1>1, <1>2, <1>4 DEF IInv, FilesOK
  <2>2. Parts = {0, 1}
    BY VersionFacts
  <2>3. PICK v \in Versions : \A p \in Parts :
          simple[<<f[1], f[2], p>>] = IF p < Shape[f[1]][v].parts THEN v ELSE Absent
    BY <2>1, <2>2 DEF Whole
  <2>4. Shape[f[1]][v].parts \in {1, 2} /\ v # Absent
    BY <1>2, VersionFacts
  <2>5. ~(1 < Shape[f[1]][v].parts)
    BY <1>1, <2>2, <2>3, <2>4
  <2>6. Shape[f[1]][v].parts = 1
    BY <2>4, <2>5
  <2>7. simple[<<f[1], f[2], 0>>] = v
    BY <2>2, <2>3, <2>6
  <2> QED
    BY <1>2, <2>6, <2>7
<1> QED
  BY <1>1, <1>2, <1>3, <1>4

\* Inputs are removed and nothing comes in.
LEMMA InputsGo ==
  ASSUME IInv, Exclusive, NEW fs, fs \subseteq SmallFiles, NEW cs, cs \subseteq DOMAIN compound,
         NEW kept, kept \subseteq cs, RemoveInputs(fs, cs, kept),
         compound' = Only(compound, DOMAIN compound \ cs), UNCHANGED <<stale, emptied>>, faults' = faults + 1,
         UNCHANGED <<want, trash, old, list, cleanVars, job, changes, hurt>>
  PROVE  IInv'
<1> DEFINE ms == (DOMAIN meta \ cs) \cup (DOMAIN meta \cap kept)
<1>1. simple' = Without(simple, fs) /\ meta' = Only(meta, ms)
  BY DEF RemoveInputs
<1>2. ms \subseteq DOMAIN meta /\ \A c \in DOMAIN compound \ cs : c \in ms <=> c \in DOMAIN meta
  OBVIOUS
<1> HIDE DEF ms
<1>3. Stored(meta') /\ DOMAIN meta' = ms /\ \A c \in ms : meta'[c] = meta[c]
  BY <1>1, <1>2, StoredOnly DEF IInv, TypeOK, DirOK
<1>4. /\ Stored(compound') /\ DOMAIN compound' = DOMAIN compound \ cs
      /\ \A c \in DOMAIN compound' : compound'[c] = compound[c]
  BY StoredOnly DEF IInv, TypeOK, DirOK
<1>5. \A c \in DOMAIN compound' : Alive(c)' = Alive(c)
  BY <1>2, <1>3, <1>4 DEF Alive, Entries
<1>6. /\ \A c \in DOMAIN compound' : c # {} /\ Lists(hurt, c, compound'[c])
      /\ \A c \in DOMAIN meta' : Lists(hurt, c, meta'[c])
  BY <1>2, <1>3, <1>4 DEF IInv, ListsOK
<1>7. \A q, c : Pending(q, c)' <=> Pending(q, c)
  BY DEF Pending, Pends
<1>8. Once' /\ Apart'
  BY <1>1, <1>4, <1>5, <1>7, SmallRemoved, OnceShrinks, ApartShrinks DEF IInv
<1>9. stale' \subseteq Repos /\ emptied' \subseteq Repos
  BY DEF IInv, TypeOK, RestOK
<1> QED
  BY <1>1, <1>3, <1>4, <1>6, <1>8, <1>9, SmallRemoved, ExclusiveStep

\* What is merged: what was in small shards, and what is alive in compound shards.
LEMMA MergedFacts ==
  ASSUME IInv, NoJobs, NEW fs, fs \subseteq SmallFiles, NEW cs, cs \subseteq DOMAIN compound
  PROVE  /\ Inputs(fs, cs) \subseteq Entry
         /\ Merged(fs, cs) \subseteq Entry
         /\ \A m \in Merged(fs, cs) :
              \/ \E f \in fs : m.repo = f[1] /\ m.ver = simple[f] /\ NameOf(m) = f[2]
              \/ \E c \in cs : m \in Alive(c)
         /\ Lists(hurt, CompoundName(Merged(fs, cs)), Merged(fs, cs))
         /\ CompoundName(Merged(fs, cs)) \in Shards
         /\ Merged(fs, cs) # {} => CompoundName(Merged(fs, cs)) # {}
<1> DEFINE es == Merged(fs, cs)
           rec(f) == [repo |-> f[1], ver |-> simple[f], dead |-> FALSE]
<1>1. /\ \A m : m \in Inputs(fs, cs) <=> (\E f \in fs : m = rec(f)) \/ (\E c \in cs : m \in Alive(c))
      /\ es \subseteq Inputs(fs, cs)
  BY DEF Merged, Inputs, EntryOf
<1>2. ASSUME NEW f \in fs
      PROVE  rec(f) \in Entry /\ rec(f).repo = f[1] /\ rec(f).ver = simple[f] /\ NameOf(rec(f)) = f[2]
  <2>1. f[1] \in Repos /\ simple[f] \in Versions /\ Shape[f[1]][simple[f]].name = f[2]
    BY SmallVersion
  <2> QED
    BY <2>1 DEF Entry, NameOf
<1> HIDE DEF es, rec
<1>3. Inputs(fs, cs) \subseteq Entry /\ es \subseteq Entry
  BY <1>1, <1>2, AliveType DEF IInv
<1>4. \A m \in es : \/ \E f \in fs : m = rec(f) /\ m.repo = f[1] /\ m.ver = simple[f] /\ NameOf(m) = f[2]
                    \/ \E c \in cs : m \in Alive(c)
  BY <1>1, <1>2
<1>5. ASSUME NEW f \in fs, NEW c \in cs, NEW m \in Alive(c), f[1] = m.repo, m.repo \notin hurt, f[2] = NameOf(m)
      PROVE  FALSE
  BY <1>5, NoneApart, SmallVersion, VersionFacts
<1>6. ASSUME NEW m \in es, NEW n \in es, m.repo = n.repo, m.repo \notin hurt, NameOf(m) = NameOf(n)
      PROVE  m = n
  <2>1. CASE \E f, g \in fs : m = rec(f) /\ n = rec(g)
    <3>1. PICK f \in fs, g \in fs : m = rec(f) /\ n = rec(g)
      BY <2>1
    <3>2. f[1] = g[1] /\ f[2] = g[2]
      BY <1>2, <1>6, <3>1
    <3>3. f = <<f[1], f[2], 0>> /\ g = <<g[1], g[2], 0>>
      BY SmallVersion
    <3> QED
      BY <3>1, <3>2, <3>3
  <2>2. CASE \E c, d \in cs : m \in Alive(c) /\ n \in Alive(d)
    <3>1. PICK c \in cs, d \in cs : m \in Alive(c) /\ n \in Alive(d)
      BY <2>2
    <3>2. c = d
      BY <1>6, <3>1 DEF IInv, Once
    <3> QED
      BY <1>6, <3>1, <3>2, ListsEntries DEF Lists, Alive
  <2>3. CASE \E f \in fs, c \in cs : m = rec(f) /\ n \in Alive(c)
    BY <1>2, <1>5, <1>6, <2>3
  <2>4. CASE \E f \in fs, c \in cs : n = rec(f) /\ m \in Alive(c)
    BY <1>2, <1>5, <1>6, <2>4
  <2> QED
    BY <1>4, <2>1, <2>2, <2>3, <2>4
<1>7. ASSUME NEW m \in es, m.repo \notin hurt PROVE Shape[m.repo][m.ver].parts = 1
  <2>1. CASE \E f \in fs : m.repo = f[1] /\ m.ver = simple[f]
    BY <1>7, <2>1, SmallVersion
  <2>2. CASE \E c \in cs : m \in Alive(c)
    BY <1>7, <2>2, ListsEntries DEF Lists, Alive
  <2> QED
    BY <1>4, <2>1, <2>2
<1>8. CompoundName(es) = {NameOf(m) : m \in es}
  BY DEF CompoundName
<1>9. Lists(hurt, CompoundName(es), es)
  BY <1>6, <1>7 DEF Lists
<1>10. CompoundName(es) \in Shards /\ (es # {} => CompoundName(es) # {})
  BY <1>3, <1>8, EntryFacts DEF Shards
<1> QED
  BY <1>3, <1>4, <1>9, <1>10 DEF es

\* What MergeInputs does to the directory, with es merged into c0.
MergeResult(fs, cs, es, c0) ==
  /\ simple' = Without(simple, fs) /\ stale' \subseteq Repos /\ emptied' \subseteq Repos
  /\ emptied' = emptied \cup {m.repo : m \in Inputs(fs, cs) \ es}
  /\ stale \subseteq stale' /\ (c0 \in DOMAIN meta' => \A m \in es : m.repo \in stale')
  /\ es \subseteq Entry /\ Lists(hurt, c0, es) /\ (es # {} => c0 # {})
  /\ \A m \in es : \/ \E f \in fs : m.repo = f[1] /\ m.ver = simple[f] /\ NameOf(m) = f[2]
                   \/ \E c \in cs : m \in Alive(c)
  /\ Stored(meta') /\ \A c \in DOMAIN meta' : meta'[c] = meta[c]
  /\ \A c : c \in DOMAIN meta' <=> c \in DOMAIN meta /\ c \notin cs
  /\ Stored(compound')
  /\ \A c : c \in DOMAIN compound' <=> (c \in DOMAIN compound /\ c \notin cs) \/ (es # {} /\ c = c0)
  /\ \A c \in DOMAIN compound' : compound'[c] = IF es # {} /\ c = c0 THEN es ELSE compound[c]
  /\ \A c \in DOMAIN compound' : \A m \in Alive(c)' :
       \/ c \in DOMAIN compound /\ c \notin cs /\ m \in Alive(c)
       \/ c = c0 /\ \E o \in es : o.repo = m.repo /\ NameOf(o) = NameOf(m)
  /\ \A o \in es, d \in DOMAIN compound : \A n \in Alive(d) :
       o.repo \notin hurt /\ d \notin cs /\ n.repo = o.repo => NameOf(n) # NameOf(o)

\* The merged shard holds what its inputs held, even under a .meta that stayed.
LEMMA MergeInputsFacts ==
  ASSUME IInv, Exclusive, NEW fs, fs \subseteq SmallFiles, NEW cs, cs \subseteq DOMAIN compound,
         MergeInputs(fs, cs), NEW es, es = Merged(fs, cs), NEW c0, c0 = CompoundName(es), UNCHANGED hurt
  PROVE  MergeResult(fs, cs, es, c0)
<1> DEFINE rest == Only(compound, DOMAIN compound \ cs)
           ms == (DOMAIN meta \ cs) \cup (DOMAIN meta \cap {})
<1>1. /\ simple' = Without(simple, fs) /\ meta' = Only(meta, ms)
      /\ compound' = IF es = {} THEN rest ELSE Put(rest, c0, es)
      /\ stale' = stale \cup Hidden(es)
      /\ emptied' = emptied \cup {m.repo : m \in Inputs(fs, cs) \ es}
  BY DEF MergeInputs, RemoveInputs
<1>2. NoJobs
  BY DEF Exclusive, Free
<1>3. /\ es \subseteq Entry /\ Lists(hurt, c0, es) /\ c0 \in Shards /\ (es # {} => c0 # {})
      /\ Inputs(fs, cs) \subseteq Entry
      /\ \A m \in es : \/ \E f \in fs : m.repo = f[1] /\ m.ver = simple[f] /\ NameOf(m) = f[2]
                       \/ \E c \in cs : m \in Alive(c)
  BY <1>2, MergedFacts
<1>4. c0 = {NameOf(m) : m \in es}
  BY DEF CompoundName
<1>5. ms \subseteq DOMAIN meta /\ \A c : c \in ms <=> c \in DOMAIN meta /\ c \notin cs
  OBVIOUS
<1>6. /\ stale' \subseteq Repos /\ stale \subseteq stale' /\ emptied' \subseteq Repos
      /\ c0 \in DOMAIN meta' => \A m \in es : m.repo \in stale'
  <2>1. Hidden(es) \subseteq Repos /\ {m.repo : m \in Inputs(fs, cs) \ es} \subseteq Repos
    BY <1>3, EntryFacts DEF Hidden
  <2> QED
    BY <1>1, <2>1 DEF IInv, TypeOK, RestOK, Hidden
<1> HIDE DEF ms
<1>7. Stored(meta') /\ DOMAIN meta' = ms /\ \A c \in ms : meta'[c] = meta[c]
  BY <1>1, <1>5, StoredOnly DEF IInv, TypeOK, DirOK
<1>8. Stored(rest) /\ DOMAIN rest = DOMAIN compound \ cs /\ \A c \in DOMAIN rest : rest[c] = compound[c]
  BY StoredOnly DEF IInv, TypeOK, DirOK
<1> HIDE DEF rest
<1>9. /\ Stored(compound')
      /\ \A c : c \in DOMAIN compound' <=> (c \in DOMAIN compound /\ c \notin cs) \/ (es # {} /\ c = c0)
      /\ \A c \in DOMAIN compound' : compound'[c] = IF es # {} /\ c = c0 THEN es ELSE compound[c]
  <2>1. CASE es = {}
    BY <1>1, <1>8, <2>1
  <2>2. CASE es # {}
    <3>1. compound' = Put(rest, c0, es)
      BY <1>1, <2>2
    <3> QED
      BY <1>3, <1>8, <2>2, <3>1 DEF Stored, Put
  <2> QED
    BY <2>1, <2>2
<1>10. \A c \in DOMAIN compound' : \A m \in Alive(c)' :
         \/ c \in DOMAIN compound /\ c \notin cs /\ m \in Alive(c)
         \/ c = c0 /\ \E o \in es : o.repo = m.repo /\ NameOf(o) = NameOf(m)
  <2> SUFFICES ASSUME NEW c \in DOMAIN compound', NEW m \in Alive(c)'
               PROVE  \/ c \in DOMAIN compound /\ c \notin cs /\ m \in Alive(c)
                      \/ c = c0 /\ \E o \in es : o.repo = m.repo /\ NameOf(o) = NameOf(m)
    OBVIOUS
  <2>1. m \in Entries(c)' /\ ~m.dead
    BY DEF Alive
  <2>2. CASE es # {} /\ c = c0
    <3>1. CASE c0 \notin DOMAIN meta'
      BY <1>9, <2>1, <2>2, <3>1 DEF Entries
    <3>2. CASE c0 \in DOMAIN meta'
      <4>1. m \in meta[c0] /\ c0 \in DOMAIN meta
        BY <1>5, <1>7, <2>1, <2>2, <3>2 DEF Entries
      <4>2. Lists(hurt, c0, meta[c0]) /\ m \in Entry
        BY <4>1 DEF IInv, ListsOK, TypeOK, DirOK, Stored
      <4>3. NameOf(m) \in c0
        BY <4>1, <4>2 DEF Lists, CompoundName
      <4>4. PICK o \in es : NameOf(o) = NameOf(m)
        BY <1>4, <4>3
      <4>5. o.repo = m.repo
        BY <1>3, <4>2, <4>4, NameTells
      <4> QED
        BY <2>2, <4>4, <4>5
    <3> QED
      BY <3>1, <3>2
  <2>3. CASE ~(es # {} /\ c = c0)
    <3>1. c \in DOMAIN compound /\ c \notin cs /\ compound'[c] = compound[c]
      BY <1>9, <2>3
    <3>2. Entries(c)' = Entries(c)
      BY <1>5, <1>7, <3>1 DEF Entries
    <3> QED
      BY <2>1, <3>1, <3>2 DEF Alive
  <2> QED
    BY <2>2, <2>3
<1>11. \A f \in fs : f \in Files /\ f = <<f[1], f[2], 0>> /\ simple[f] # Absent
                     /\ simple[<<f[1], f[2], 1>>] = Absent
  BY SmallVersion, VersionFacts DEF SmallFiles
<1>12. ASSUME NEW o \in es, o.repo \notin hurt, NEW d \in DOMAIN compound, d \notin cs, NEW n \in Alive(d),
              n.repo = o.repo, NameOf(n) = NameOf(o)
       PROVE  FALSE
  <2>1. CASE \E f \in fs : o.repo = f[1] /\ NameOf(o) = f[2]
    BY <1>2, <1>11, <1>12, <2>1, NoneApart
  <2>2. CASE \E c \in cs : o \in Alive(c)
    BY <1>12, <2>2 DEF IInv, Once
  <2> QED
    BY <1>3, <2>1, <2>2
<1> QED
  BY <1>1, <1>3, <1>5, <1>6, <1>7, <1>9, <1>10, <1>12 DEF MergeResult

LEMMA MergeInputsKeeps ==
  ASSUME IInv, Exclusive, NEW fs, fs \subseteq SmallFiles, NEW cs, cs \subseteq DOMAIN compound,
         MergeInputs(fs, cs), faults' = faults,
         UNCHANGED <<want, trash, old, list, cleanVars, job, changes, hurt>>
  PROVE  IInv'
<1>1. PICK es : es = Merged(fs, cs)
  OBVIOUS
<1>2. PICK c0 : c0 = CompoundName(es)
  OBVIOUS
<1>3. NoJobs
  BY DEF Exclusive, Free
<1>4. MergeResult(fs, cs, es, c0)
  BY <1>1, <1>2, MergeInputsFacts
<1>5. /\ \A c \in DOMAIN compound' : c # {} /\ Lists(hurt, c, compound'[c])
      /\ \A c \in DOMAIN meta' : Lists(hurt, c, meta'[c])
  BY <1>4 DEF IInv, ListsOK, MergeResult
<1>6. \A f \in fs : f \in Files /\ f = <<f[1], f[2], 0>> /\ simple[<<f[1], f[2], 1>>] = Absent
  BY SmallVersion DEF SmallFiles
<1>7. Once'
  <2> SUFFICES ASSUME NEW c \in DOMAIN compound', NEW d \in DOMAIN compound', NEW m \in Alive(c)', NEW n \in Alive(d)',
                      m.repo = n.repo, m.repo \notin hurt, NameOf(m) = NameOf(n)
               PROVE  c = d
    BY DEF Once
  <2>1. CASE c \in DOMAIN compound /\ c \notin cs /\ m \in Alive(c)
    <3>1. CASE d \in DOMAIN compound /\ n \in Alive(d)
      BY <2>1, <3>1 DEF IInv, Once
    <3>2. CASE d = c0 /\ \E o \in es : o.repo = n.repo /\ NameOf(o) = NameOf(n)
      BY <1>4, <2>1, <3>2 DEF MergeResult
    <3> QED
      BY <1>4, <3>1, <3>2 DEF MergeResult
  <2>2. CASE c = c0 /\ \E o \in es : o.repo = m.repo /\ NameOf(o) = NameOf(m)
    <3>1. CASE d \in DOMAIN compound /\ d \notin cs /\ n \in Alive(d)
      BY <1>4, <2>2, <3>1 DEF MergeResult
    <3>2. CASE d = c0
      BY <2>2, <3>2
    <3> QED
      BY <1>4, <3>1, <3>2 DEF MergeResult
  <2> QED
    BY <1>4, <2>1, <2>2 DEF MergeResult
<1>8. Apart'
  <2> SUFFICES ASSUME NEW f \in Files, NEW c \in DOMAIN compound', NEW m \in Alive(c)',
                      simple'[f] # Absent, f[1] = m.repo, m.repo \notin hurt, f[2] = NameOf(m)
               PROVE  FALSE
    BY DEF Apart
  <2>1. simple[f] # Absent /\ f \notin fs
    BY <1>4, SmallRemoved DEF MergeResult
  <2>2. CASE c \in DOMAIN compound /\ m \in Alive(c)
    BY <1>3, <2>1, <2>2, NoneApart
  <2>3. CASE \E o \in es : o.repo = m.repo /\ NameOf(o) = NameOf(m)
    <3>1. PICK o \in es : o.repo = m.repo /\ NameOf(o) = NameOf(m)
      BY <2>3
    <3>2. CASE \E e \in cs : o \in Alive(e)
      BY <1>3, <2>1, <3>1, <3>2, NoneApart
    <3>3. CASE \E g \in fs : o.repo = g[1] /\ NameOf(o) = g[2]
      <4>1. PICK g \in fs : f[1] = g[1] /\ f[2] = g[2]
        BY <3>1, <3>3
      <4>2. f = <<f[1], f[2], f[3]>> /\ f[3] \in {0, 1}
        BY FileFacts, VersionFacts
      <4>3. g = <<f[1], f[2], 0>> /\ simple[<<f[1], f[2], 1>>] = Absent
        BY <1>6, <4>1
      <4> QED
        BY <2>1, <4>2, <4>3
    <3> QED
      BY <1>4, <3>2, <3>3 DEF MergeResult
  <2> QED
    BY <1>4, <2>2, <2>3 DEF MergeResult
<1> QED
  BY <1>4, <1>5, <1>7, <1>8, SmallRemoved, ExclusiveStep DEF MergeResult

LEMMA MergeKeeps == ASSUME IInv, Merge PROVE IInv'
<1>1. PICK fs \in SUBSET SmallFiles, cs \in SUBSET SmallCompounds :
        (MergeInputs(fs, cs) /\ faults' = faults) \/ MergeStops(fs, cs)
  BY DEF Merge
<1>2. Exclusive /\ UNCHANGED <<want, trash, old, list, cleanVars, job, changes, hurt>>
  BY DEF Merge
<1>3. cs \subseteq DOMAIN compound
  BY DEF SmallCompounds
<1>4. CASE MergeInputs(fs, cs) /\ faults' = faults
  BY <1>2, <1>3, <1>4, MergeInputsKeeps
<1>5. CASE MergeStops(fs, cs)
  <2>1. PICK gf \in SUBSET fs, gc \in SUBSET cs : \E kept \in {{}} \cup {{c} : c \in gc} :
          RemoveInputs(gf, gc, kept) /\ compound' = Only(compound, DOMAIN compound \ gc)
    BY <1>5 DEF MergeStops
  <2>2. PICK kept \in {{}} \cup {{c} : c \in gc} :
          RemoveInputs(gf, gc, kept) /\ compound' = Only(compound, DOMAIN compound \ gc)
    BY <2>1
  <2>3. gf \subseteq SmallFiles /\ gc \subseteq DOMAIN compound /\ kept \subseteq gc
    BY <1>3
  <2>4. UNCHANGED <<stale, emptied>> /\ faults' = faults + 1
    BY <1>5 DEF MergeStops, Failure
  <2> QED
    BY <1>2, <2>2, <2>3, <2>4, InputsGo
<1> QED
  BY <1>1, <1>4, <1>5

LEMMA RemoveTombstonesKeeps == ASSUME IInv, NEW c \in DOMAIN compound, RemoveTombstones(c) PROVE IInv'
<1>1. Exclusive /\ UNCHANGED <<want, trash, old, list, cleanVars, job, changes, hurt>>
  BY DEF RemoveTombstones
<1>2. CASE MergeInputs({}, {c}) /\ faults' = faults
  BY <1>1, <1>2, MergeInputsKeeps
<1>3. CASE /\ Failure /\ RemoveInputs({}, {c}, {})
           /\ compound' = Only(compound, DOMAIN compound \ {c}) /\ UNCHANGED <<stale, emptied>>
  BY <1>1, <1>3, InputsGo DEF Failure
<1> QED
  BY <1>2, <1>3 DEF RemoveTombstones

\* Each repository of an exploded shard gets a shard of its own: it had none.
LEMMA ExplodeKeeps == ASSUME IInv, NEW c \in DOMAIN compound, Explode(c) PROVE IInv'
<1> DEFINE file(m) == <<m.repo, NameOf(m), 0>>
<1>1. PICK done \in SUBSET Alive(c) :
        /\ faults' = faults \/ faults' = faults + 1
        /\ simple' = [f \in Files |-> IF \E m \in done : f = file(m)
                                      THEN (CHOOSE m \in done : f = file(m)).ver ELSE simple[f]]
  BY DEF Explode, Failure
<1>2. /\ Exclusive /\ UNCHANGED <<want, trash, old, list, cleanVars, job, changes, hurt, stale>>
      /\ compound' = Only(compound, DOMAIN compound \ {c}) /\ meta' = Only(meta, DOMAIN meta \ {c})
  BY DEF Explode
<1>3. NoJobs
  BY <1>2 DEF Exclusive, Free
<1>4. /\ \A m \in done : m \in Entry /\ m \in Alive(c) /\ m \in Entries(c)
      /\ \A m \in done : m.repo \in Repos /\ m.ver \in Versions /\ NameOf(m) \in NamesOf(m.repo)
  BY AliveType, EntryFacts DEF IInv, Alive
<1>5. \A f \in Files : \/ \E m \in done : f = file(m) /\ simple'[f] = m.ver
                       \/ (\A m \in done : f # file(m)) /\ simple'[f] = simple[f]
  <2> SUFFICES ASSUME NEW f \in Files
               PROVE  \/ \E m \in done : f = file(m) /\ simple'[f] = m.ver
                      \/ (\A m \in done : f # file(m)) /\ simple'[f] = simple[f]
    OBVIOUS
  <2>1. CASE \E m \in done : f = file(m)
    <3> DEFINE o == CHOOSE m \in done : f = file(m)
    <3>1. o \in done /\ f = file(o)
      BY <2>1
    <3>2. simple'[f] = o.ver
      BY <1>1, <2>1
    <3> QED
      BY <3>1, <3>2
  <2>2. CASE ~\E m \in done : f = file(m)
    BY <1>1, <2>2
  <2> QED
    BY <2>1, <2>2
<1>6. simple' \in [Files -> Versions \cup {Absent}]
  <2>1. simple' = [f \in Files |-> simple'[f]]
    BY <1>1
  <2>2. \A f \in Files : simple'[f] \in Versions \cup {Absent}
    BY <1>4, <1>5 DEF IInv, TypeOK, DirOK
  <2> QED
    BY <2>1, <2>2
<1>7. /\ Stored(compound') /\ DOMAIN compound' = DOMAIN compound \ {c}
      /\ \A d \in DOMAIN compound' : compound'[d] = compound[d]
  BY <1>2, StoredOnly DEF IInv, TypeOK, DirOK
<1>8. Stored(meta') /\ DOMAIN meta' = DOMAIN meta \ {c} /\ \A d \in DOMAIN meta' : meta'[d] = meta[d]
  BY <1>2, StoredOnly DEF IInv, TypeOK, DirOK
<1>9. \A d \in DOMAIN compound' : d \in DOMAIN compound /\ d # c /\ Alive(d)' = Alive(d)
  BY <1>7, <1>8 DEF Alive, Entries
<1>10. /\ \A d \in DOMAIN compound' : d # {} /\ Lists(hurt, d, compound'[d])
       /\ \A d \in DOMAIN meta' : Lists(hurt, d, meta'[d])
  BY <1>7, <1>8 DEF IInv, ListsOK
<1>11. FilesOK(hurt, simple')
  <2>1. \A f \in Files : simple'[f] # Absent => Shape[f[1]][simple'[f]].name = f[2]
    BY <1>4, <1>5 DEF IInv, FilesOK, NameOf
  <2>2. ASSUME NEW q \in Repos \ hurt, NEW n \in NamesOf(q) PROVE Whole(simple', q, n)
    <3>1. /\ \A p \in Parts : <<q, n, p>> \in Files
          /\ Whole(simple, q, n) /\ Parts = {0, 1}
      BY FileFacts, VersionFacts DEF IInv, FilesOK
    <3>2. CASE \E m \in done : m.repo = q /\ NameOf(m) = n
      <4>1. PICK o \in done : o.repo = q /\ NameOf(o) = n
        BY <3>2
      <4>2. simple[<<q, n, 0>>] = Absent /\ simple[<<q, n, 1>>] = Absent
        BY <1>3, <1>4, <3>1, <4>1, NoneApart
      <4>3. \E m \in done : <<q, n, 0>> = file(m) /\ simple'[<<q, n, 0>>] = m.ver
        <5>1. <<q, n, 0>> = file(o)
          BY <4>1
        <5> QED
          BY <1>5, <3>1, <5>1
      <4>4. PICK m \in done : m.repo = q /\ simple'[<<q, n, 0>>] = m.ver
        BY <4>3
      <4>5. simple'[<<q, n, 1>>] = Absent
        <5>1. \A e \in done : <<q, n, 1>> # file(e)
          OBVIOUS
        <5> QED
          BY <1>5, <3>1, <4>2, <5>1
      <4>6. Shape[q][m.ver].parts = 1 /\ m.ver \in Versions
        BY <1>4, <4>4, ListsEntries DEF Lists
      <4>7. \A p \in Parts : simple'[<<q, n, p>>] = IF p < Shape[q][m.ver].parts THEN m.ver ELSE Absent
        BY <3>1, <4>4, <4>5, <4>6
      <4> QED
        BY <4>6, <4>7 DEF Whole
    <3>3. CASE ~\E m \in done : m.repo = q /\ NameOf(m) = n
      <4>1. \A p \in Parts : \A m \in done : <<q, n, p>> # file(m)
        BY <3>3
      <4>2. \A p \in Parts : simple'[<<q, n, p>>] = simple[<<q, n, p>>]
        BY <1>5, <3>1, <4>1
      <4> QED
        BY <3>1, <4>2 DEF Whole
    <3> QED
      BY <3>2, <3>3
  <2> QED
    BY <2>1, <2>2 DEF FilesOK
<1>12. Once'
  BY <1>2, <1>9, OnceShrinks DEF IInv
<1>13. Apart'
  <2> SUFFICES ASSUME NEW f \in Files, NEW d \in DOMAIN compound', NEW m \in Alive(d)',
                      simple'[f] # Absent, f[1] = m.repo, m.repo \notin hurt, f[2] = NameOf(m)
               PROVE  FALSE
    BY <1>2 DEF Apart
  <2>1. d \in DOMAIN compound /\ d # c /\ m \in Alive(d)
    BY <1>9
  <2>2. CASE simple[f] # Absent
    BY <1>3, <2>1, <2>2, NoneApart
  <2>3. CASE \E o \in done : f = file(o)
    <3>1. PICK o \in done : o.repo = m.repo /\ NameOf(o) = NameOf(m)
      BY <2>3
    <3> QED
      BY <1>4, <2>1, <3>1 DEF IInv, Once
  <2> QED
    BY <1>5, <2>2, <2>3
<1>14. stale' \subseteq Repos /\ emptied' \subseteq Repos
  <2>1. emptied' \subseteq emptied \cup {m.repo : m \in Alive(c)}
    BY DEF Explode
  <2>2. \A m \in Alive(c) : m.repo \in Repos
    BY AliveType, EntryFacts DEF IInv
  <2> QED
    BY <1>2, <2>1, <2>2 DEF IInv, TypeOK, RestOK
<1> QED
  BY <1>1, <1>2, <1>6, <1>7, <1>8, <1>10, <1>11, <1>12, <1>13, <1>14, ExclusiveStep

-----------------------------------------------------------------------------
(* The specification.                                                      *)

LEMMA Stutters == ASSUME IInv, UNCHANGED vars PROVE IInv'
<1>1. /\ UNCHANGED <<want, simple, trash, old, compound, meta, list, cleanVars, job>>
      /\ UNCHANGED <<changes, merges, faults, hurt, stale, emptied>>
  BY DEF vars, dirVars, counters, history
<1>2. TypeOK'
  BY <1>1 DEF IInv, TypeOK, DirOK, Stored, LoopOK, JobsTyped, JobOK, RestOK, cleanVars
<1>3. LockOK' /\ \A q \in Repos, c \in DOMAIN compound : Pending(q, c) => Pending(q, c)'
  BY <1>1 DEF IInv, LockOK, Cleaning, NoJobs, Running, Pending, Pends, cleanVars
<1>4. \A j \in Jobs : /\ job'[j].st = "marking" => Lists(hurt, job'[j].shard, job'[j].read)
                      /\ Pends(j)' => job'[j].shard \in DOMAIN compound
  BY <1>1 DEF IInv, ListsOK, Pends
<1> QED
  BY <1>1, <1>2, <1>3, <1>4, SameDirectory

LEMMA NextKeeps == IInv /\ [Next]_vars => IInv'
<1> SUFFICES ASSUME IInv, [Next]_vars PROVE IInv'
  OBVIOUS
<1>1. CASE SyncList
  BY <1>1, SyncListKeeps
<1>2. CASE StartCleanup
  BY <1>2, StartCleanupKeeps
<1>3. CASE Cleanup
  BY <1>3, RestoreRepoKeeps, DiscardKeeps DEF Cleanup
<1>4. CASE Merge
  BY <1>4, MergeKeeps
<1>5. CASE Vacuum
  BY <1>5, RemoveTombstonesKeeps, ExplodeKeeps DEF Vacuum
<1>6. CASE Crash
  BY <1>6, CrashKeeps
<1>7. ASSUME NEW r \in Repos, Change(r) \/ Age(r) \/ CrashMoving(r) PROVE IInv'
  BY <1>7, ChangeKeeps, AgeKeeps, CrashMovingKeeps
<1>8. ASSUME NEW j \in Jobs, StartJob(j) \/ JobFails(j) \/ JobStep(j) PROVE IInv'
  BY <1>8, StartJobKeeps, JobFailsKeeps, PublishKeeps, ReadMetaKeeps, WriteMetaKeeps DEF JobStep
<1>9. ASSUME NEW j \in Jobs, NEW r \in Repos, Pop(j, r) PROVE IInv'
  BY <1>9, PopKeeps
<1>10. CASE UNCHANGED vars
  BY <1>10, Stutters
<1> QED
  BY <1>1, <1>2, <1>3, <1>4, <1>5, <1>6, <1>7, <1>8, <1>9, <1>10 DEF Next

LEMMA Invariant == Spec => []IInv
  BY InitInv, NextKeeps, PTL DEF Spec

\* The variables keep their types: jobs know the repository they work for, compound
\* shards are named by names of repositories.
THEOREM TypeCorrect == Spec => []TypeOK
<1>1. IInv => TypeOK
  BY DEF IInv
<1> QED
  BY <1>1, Invariant, PTL

\* A repository is searchable under a name from one place, complete and of one
\* version, whatever jobs, renames, cleanups, merges and faults came before.
THEOREM ServedOnceCorrect == Spec => []ServedOnce
<1>1. ASSUME IInv PROVE ServedOnce
  <2> SUFFICES ASSUME NEW r \in Repos \ hurt, NEW n \in NamesOf(r)
               PROVE  LET own == {f \in SimpleOf(simple, r) : f[2] = n}
                          merged == {e \in AliveIn(r) : NameOf(e[2]) = n}
                      IN  /\ own # {} => WholeSet(r, n)
                          /\ (\A j \in Jobs : ~(job[j].repo = r /\ job[j].st \in {"published", "marking"}))
                               => Cardinality(merged) + (IF own = {} THEN 0 ELSE 1) <= 1
    BY DEF ServedOnce, NamesOf
  <2> DEFINE own == {f \in SimpleOf(simple, r) : f[2] = n}
             merged == {e \in AliveIn(r) : NameOf(e[2]) = n}
  <2>1. ASSUME own # {} PROVE WholeSet(r, n)
    <3>1. PICK f \in Files : f[1] = r /\ f[2] = n /\ simple[f] # Absent
      BY <2>1 DEF SimpleOf
    <3>2. f[3] \in Parts /\ simple[<<r, n, f[3]>>] # Absent
      BY <3>1, FileFacts
    <3>3. Whole(simple, r, n)
      BY <1>1 DEF IInv, FilesOK
    <3> QED
      BY <3>2, <3>3 DEF Whole, WholeSet
  <2>2. ASSUME \A j \in Jobs : ~(job[j].repo = r /\ job[j].st \in {"published", "marking"})
        PROVE  Cardinality(merged) + (IF own = {} THEN 0 ELSE 1) <= 1
    <3>1. \A c : ~Pending(r, c)
      BY <2>2 DEF Pending, Pends
    <3>2. \A e \in merged : /\ e = <<e[1], e[2]>> /\ e[1] \in DOMAIN compound /\ e[2] \in Alive(e[1])
                            /\ e[2].repo = r /\ NameOf(e[2]) = n
      BY AliveInFacts
    <3>3. own # {} => merged = {}
      <4>1. ASSUME NEW f \in own, NEW e \in merged PROVE FALSE
        BY <1>1, <3>1, <3>2 DEF IInv, Apart, SimpleOf
      <4> QED
        BY <4>1
    <3>4. \A d, e \in merged : d = e
      <4> SUFFICES ASSUME NEW d \in merged, NEW e \in merged PROVE d = e
        OBVIOUS
      <4>1. d[1] = e[1]
        BY <1>1, <3>2 DEF IInv, Once
      <4>2. d[2] = e[2]
        <5>1. d[2] \in Entries(d[1]) /\ e[2] \in Entries(d[1])
          BY <3>2, <4>1 DEF Alive
        <5>2. Lists(hurt, d[1], Entries(d[1]))
          BY <1>1, <3>2, ListsEntries
        <5> QED
          BY <3>2, <5>1, <5>2 DEF Lists
      <4> QED
        BY <3>2, <4>1, <4>2
    <3>5. CASE merged = {}
      <4>1. Cardinality(merged) = 0
        BY <3>5, FS_EmptySet
      <4> HIDE DEF merged, own
      <4> QED
        BY <4>1
    <3>6. CASE merged # {}
      <4>1. PICK e \in merged : merged = {e}
        BY <3>4, <3>6
      <4>2. Cardinality({e}) = 1
        BY FS_Singleton
      <4>3. Cardinality(merged) = 1 /\ own = {}
        BY <3>3, <4>1, <4>2
      <4> HIDE DEF merged, own
      <4> QED
        BY <4>3
    <3> QED
      BY <3>5, <3>6
  <2> QED
    BY <2>1, <2>2
<1> QED
  BY <1>1, Invariant, PTL

-----------------------------------------------------------------------------
(* Which versions are served, and which could come back.                   *)

\* While cleanup runs, a repository is in the index in one place.
OnePlace(r) ==
  \A c, d \in DOMAIN compound : \A m \in Alive(c), n \in Alive(d) :
    m.repo = r /\ n.repo = r => c = d /\ SimpleOf(simple, r) = {}

\* What SetTombstone read of a shard still lists the same, but for tombstones.
Current(read, es, but) ==
  /\ \A m \in read : \E e \in es : e.repo = m.repo /\ e.ver = m.ver
  /\ \A e \in es : \E m \in read : m.repo = e.repo /\ m.ver = e.ver
  /\ \A e \in es : ~e.dead /\ e.repo \notin but => e \in read
ReadOK == \A j \in Jobs : job[j].st = "marking" => Current(job[j].read, Entries(job[j].shard), hurt)

Newer(v, V) == \A u \in V : v >= u

\* The newest version the directory has is searched, or else in the trash, and not
\* in a compound shard.  A job has published it, or cleanup will restore it.
NewestIn(r) ==
  /\ InIndex(r) => \E w \in Served(r) : Newer(w, Served(r) \cup OnDisk(r))
  /\ ~InIndex(r) /\ InTrash(r) => \E f \in SimpleOf(trash, r) : Newer(trash[f], OnDisk(r))
  /\ (\E j \in Jobs : Pends(j) /\ job[j].repo = r) =>
       \E f \in SimpleOf(simple, r) : Newer(simple[f], Served(r) \cup OnDisk(r))
  /\ Cleaning /\ r \in todo /\ tombs[r] # NoShard =>
       \E m \in Entries(tombs[r]) : m.repo = r /\ Newer(m.ver, OnDisk(r))

NewestOK(r) ==
  /\ r \notin hurt /\ Cleaning => OnePlace(r)
  /\ r \notin hurt \cup stale \cup emptied /\ faults = 0 => NewestIn(r)

NInv == IInv /\ ReadOK /\ \A r \in Repos : NewestOK(r)

VersionWords ==
  \A r \in Repos : \A v :
    /\ v \in Served(r) <=> \/ \E f \in Files : f[1] = r /\ simple[f] # Absent /\ simple[f] = v
                           \/ \E c \in DOMAIN compound : \E m \in Alive(c) : m.repo = r /\ m.ver = v
    /\ v \in OnDisk(r) <=> \/ \E f \in Files : f[1] = r /\ trash[f] # Absent /\ trash[f] = v
                           \/ \E c \in DOMAIN compound : \E m \in Entries(c) : m.repo = r /\ m.ver = v

LEMMA VWords == VersionWords
<1> SUFFICES ASSUME NEW r \in Repos, NEW v
             PROVE  /\ v \in Served(r) <=> \/ \E f \in Files : f[1] = r /\ simple[f] # Absent /\ simple[f] = v
                                           \/ \E c \in DOMAIN compound : \E m \in Alive(c) : m.repo = r /\ m.ver = v
                    /\ v \in OnDisk(r) <=> \/ \E f \in Files : f[1] = r /\ trash[f] # Absent /\ trash[f] = v
                                           \/ \E c \in DOMAIN compound : \E m \in Entries(c) : m.repo = r /\ m.ver = v
  BY DEF VersionWords
<1>1. v \in {simple[f] : f \in SimpleOf(simple, r)} <=> \E f \in Files : f[1] = r /\ simple[f] # Absent /\ simple[f] = v
  BY DEF SimpleOf
<1>2. v \in {e[2].ver : e \in AliveIn(r)} <=> \E c \in DOMAIN compound : \E m \in Alive(c) : m.repo = r /\ m.ver = v
  <2>1. ASSUME NEW e \in AliveIn(r), v = e[2].ver
        PROVE  \E c \in DOMAIN compound : \E m \in Alive(c) : m.repo = r /\ m.ver = v
    BY <2>1, AliveInFacts
  <2>2. ASSUME NEW c \in DOMAIN compound, NEW m \in Alive(c), m.repo = r, m.ver = v
        PROVE  \E e \in AliveIn(r) : v = e[2].ver
    <3>1. <<c, m>> \in AliveIn(r) /\ <<c, m>>[2] = m
      BY <2>2, AliveInFacts
    <3> QED
      BY <2>2, <3>1
  <2> QED
    BY <2>1, <2>2
<1>3. v \in {trash[f] : f \in SimpleOf(trash, r)} <=> \E f \in Files : f[1] = r /\ trash[f] # Absent /\ trash[f] = v
  BY DEF SimpleOf
<1>4. v \in UNION {{m.ver : m \in {e \in Entries(c) : e.repo = r}} : c \in DOMAIN compound}
        <=> \E c \in DOMAIN compound : \E m \in Entries(c) : m.repo = r /\ m.ver = v
  <2>1. \A c : v \in {m.ver : m \in {e \in Entries(c) : e.repo = r}} <=> \E m \in Entries(c) : m.repo = r /\ m.ver = v
    OBVIOUS
  <2>2. v \in UNION {{m.ver : m \in {e \in Entries(c) : e.repo = r}} : c \in DOMAIN compound}
          <=> \E c \in DOMAIN compound : v \in {m.ver : m \in {e \in Entries(c) : e.repo = r}}
    OBVIOUS
  <2> QED
    BY <2>1, <2>2
<1>5. v \in Served(r) <=> v \in {simple[f] : f \in SimpleOf(simple, r)} \/ v \in {e[2].ver : e \in AliveIn(r)}
  BY DEF Served
<1>6. v \in OnDisk(r) <=> v \in {trash[f] : f \in SimpleOf(trash, r)}
                          \/ v \in UNION {{m.ver : m \in {e \in Entries(c) : e.repo = r}} : c \in DOMAIN compound}
  BY DEF OnDisk
<1> QED
  BY <1>1, <1>2, <1>3, <1>4, <1>5, <1>6

LEMMA VWordsNext == VersionWords'
  BY VWords, PTL

\* What is in the index is served in some version.
LEMMA IndexServed == \A r \in Repos : InIndex(r) <=> Served(r) # {}
<1> SUFFICES ASSUME NEW r \in Repos PROVE InIndex(r) <=> Served(r) # {}
  OBVIOUS
<1>1. ASSUME InIndex(r) PROVE Served(r) # {}
  <2>1. CASE \E f \in Files : f[1] = r /\ simple[f] # Absent
    <3>1. PICK f \in Files : f[1] = r /\ simple[f] # Absent
      BY <2>1
    <3>2. simple[f] \in Served(r)
      BY <3>1, VWords DEF VersionWords
    <3> QED
      BY <3>2
  <2>2. CASE \E c \in DOMAIN compound : \E m \in Alive(c) : m.repo = r
    <3>1. PICK c \in DOMAIN compound : \E m \in Alive(c) : m.repo = r
      BY <2>2
    <3>2. PICK m \in Alive(c) : m.repo = r
      BY <3>1
    <3>3. m.ver \in Served(r)
      BY <3>2, VWords DEF VersionWords
    <3> QED
      BY <3>3
  <2> QED
    BY <1>1, <2>1, <2>2, Words DEF IndexWords
<1>2. ASSUME NEW v \in Served(r) PROVE InIndex(r)
  BY Words, VWords DEF IndexWords, VersionWords
<1> QED
  BY <1>1, <1>2

LEMMA InitNewest == Init => NInv
<1> SUFFICES ASSUME Init PROVE NInv
  OBVIOUS
<1>1. IInv
  BY InitInv
<1>2. ReadOK
  BY IdleJobType DEF Init, ReadOK
<1>3. ASSUME NEW r \in Repos PROVE NewestOK(r)
  <2>1. ~InIndex(r) /\ ~InTrash(r)
    BY Words DEF IndexWords, Init
  <2>2. ~Cleaning /\ \A j \in Jobs : ~Pends(j)
    BY IdleJobType DEF Init, Cleaning, Pends
  <2> QED
    BY <2>1, <2>2 DEF NewestOK, NewestIn
<1> QED
  BY <1>1, <1>2, <1>3 DEF NInv

\* Of r, no more is there than before, and what was searched still is.
LEMMA NewestStays ==
  ASSUME NEW r \in Repos, NewestIn(r),
         InIndex(r)' <=> InIndex(r), Served(r) \subseteq Served(r)',
         Served(r)' \cup OnDisk(r)' \subseteq Served(r) \cup OnDisk(r),
         InIndex(r) \/ OnDisk(r)' \subseteq OnDisk(r),
         \A f \in Files : f[1] = r => trash'[f] = trash[f],
         \/ \A j \in Jobs : ~(Pends(j)' /\ job'[j].repo = r)
         \/ /\ \E j \in Jobs : Pends(j) /\ job[j].repo = r
            /\ \A f \in Files : f[1] = r => simple'[f] = simple[f],
         \/ ~Cleaning' \/ r \notin todo' \/ tombs'[r] = NoShard
         \/ /\ Cleaning /\ r \in todo /\ tombs'[r] = tombs[r] /\ OnDisk(r)' \subseteq OnDisk(r)
            /\ \A m : m.repo = r /\ m \in Entries(tombs[r]) => m \in Entries(tombs[r])'
  PROVE  NewestIn(r)'
<1>1. ASSUME InIndex(r)' PROVE \E w \in Served(r)' : Newer(w, Served(r)' \cup OnDisk(r)')
  BY <1>1 DEF NewestIn, Newer
<1>2. ASSUME ~InIndex(r)', InTrash(r)' PROVE \E f \in SimpleOf(trash', r) : Newer(trash'[f], OnDisk(r)')
  <2>1. InTrash(r)
    BY <1>2, Words, WordsNext DEF IndexWords
  <2>2. PICK f \in SimpleOf(trash, r) : Newer(trash[f], OnDisk(r))
    BY <1>2, <2>1 DEF NewestIn
  <2> QED
    BY <1>2, <2>2 DEF Newer, SimpleOf
<1>3. ASSUME NEW j \in Jobs, Pends(j)', job'[j].repo = r
      PROVE  \E f \in SimpleOf(simple', r) : Newer(simple'[f], Served(r)' \cup OnDisk(r)')
  <2>1. PICK f \in SimpleOf(simple, r) : Newer(simple[f], Served(r) \cup OnDisk(r))
    BY <1>3 DEF NewestIn
  <2>2. \A g \in Files : g[1] = r => simple'[g] = simple[g]
    BY <1>3
  <2> QED
    BY <2>1, <2>2 DEF Newer, SimpleOf
<1>4. ASSUME Cleaning', r \in todo', tombs'[r] # NoShard
      PROVE  \E m \in Entries(tombs[r])' : tombs'[r] = tombs[r] /\ m.repo = r /\ Newer(m.ver, OnDisk(r)')
  <2>1. PICK m \in Entries(tombs[r]) : m.repo = r /\ Newer(m.ver, OnDisk(r))
    BY <1>4 DEF NewestIn
  <2> QED
    BY <1>4, <2>1 DEF Newer
<1> QED
  BY <1>1, <1>2, <1>3, <1>4 DEF NewestIn

LEMMA IndexServedNext == (\A r \in Repos : InIndex(r) <=> Served(r) # {})'
  BY IndexServed, PTL

LEMMA OnePlaceShrinks ==
  ASSUME NEW r \in Repos, OnePlace(r),
         \A f \in Files : f[1] = r /\ simple'[f] # Absent => simple[f] # Absent,
         \A c \in DOMAIN compound' : \A m \in Alive(c)' : m.repo = r => c \in DOMAIN compound /\ m \in Alive(c)
  PROVE  OnePlace(r)'
<1> SUFFICES ASSUME NEW c \in DOMAIN compound', NEW d \in DOMAIN compound', NEW m \in Alive(c)', NEW n \in Alive(d)',
                    m.repo = r, n.repo = r
             PROVE  c = d /\ SimpleOf(simple', r) = {}
  BY DEF OnePlace
<1>1. c = d /\ SimpleOf(simple, r) = {}
  BY DEF OnePlace
<1> QED
  BY <1>1 DEF SimpleOf

\* Nothing of r moves.
LEMMA Unmoved ==
  ASSUME NEW r \in Repos,
         \A f \in Files : f[1] = r => simple'[f] = simple[f] /\ trash'[f] = trash[f],
         \A c \in DOMAIN compound' : \A m \in Entries(c)' :
           m.repo = r => c \in DOMAIN compound /\ m \in Entries(c),
         \A c \in DOMAIN compound : \A m \in Entries(c) :
           m.repo = r => c \in DOMAIN compound' /\ m \in Entries(c)'
  PROVE  /\ Served(r)' = Served(r) /\ OnDisk(r)' = OnDisk(r) /\ (InIndex(r)' <=> InIndex(r))
         /\ OnePlace(r) => OnePlace(r)'
<1>1. /\ \A c \in DOMAIN compound' : \A m \in Alive(c)' : m.repo = r => c \in DOMAIN compound /\ m \in Alive(c)
      /\ \A c \in DOMAIN compound : \A m \in Alive(c) : m.repo = r => c \in DOMAIN compound' /\ m \in Alive(c)'
  BY DEF Alive
<1>2. \A v : v \in Served(r)' <=> v \in Served(r)
  BY <1>1, VWords, VWordsNext DEF VersionWords
<1>3. \A v : v \in OnDisk(r)' <=> v \in OnDisk(r)
  BY VWords, VWordsNext DEF VersionWords
<1>4. InIndex(r)' <=> InIndex(r)
  BY <1>1, Words, WordsNext DEF IndexWords
<1>5. OnePlace(r) => OnePlace(r)'
  BY <1>1, OnePlaceShrinks
<1> QED
  BY <1>2, <1>3, <1>4, <1>5

\* A step that leaves the shards alone.
LEMMA QuietStep ==
  ASSUME NInv, UNCHANGED <<simple, trash, compound, meta>>, hurt \subseteq hurt', stale \subseteq stale', emptied \subseteq emptied',
         faults' = faults \/ faults' = faults + 1,
         \A j \in Jobs : Pends(j)' => Pends(j) /\ job'[j].repo = job[j].repo,
         ~Cleaning' \/ (Cleaning /\ todo' = todo /\ tombs' = tombs)
  PROVE  \A r \in Repos : NewestOK(r)'
<1> SUFFICES ASSUME NEW r \in Repos PROVE NewestOK(r)'
  OBVIOUS
<1>1. \A c \in DOMAIN compound : Entries(c)' = Entries(c)
  BY DEF Entries
<1>2. /\ Served(r)' = Served(r) /\ OnDisk(r)' = OnDisk(r) /\ (InIndex(r)' <=> InIndex(r))
      /\ OnePlace(r) => OnePlace(r)'
  BY <1>1, Unmoved
<1>3. faults' = 0 => faults = 0
  BY DEF NInv, IInv, TypeOK, RestOK
<1>4. ASSUME NewestIn(r) PROVE NewestIn(r)'
  <2>1. \/ \A j \in Jobs : ~(Pends(j)' /\ job'[j].repo = r)
        \/ \E j \in Jobs : Pends(j) /\ job[j].repo = r
    OBVIOUS
  <2>2. \/ ~Cleaning' \/ r \notin todo' \/ tombs'[r] = NoShard
        \/ /\ Cleaning /\ r \in todo /\ tombs'[r] = tombs[r]
           /\ \A m : m.repo = r /\ m \in Entries(tombs[r]) => m \in Entries(tombs[r])'
    <3>1. tombs' = tombs => Entries(tombs[r])' = Entries(tombs[r])
      BY DEF Entries
    <3> QED
      BY <3>1
  <2> QED
    BY <1>2, <1>4, <2>1, <2>2, NewestStays
<1> QED
  BY <1>2, <1>3, <1>4 DEF NInv, NewestOK

\* What jobs have read stays true if neither they nor what they read change.
LEMMA ReadStays ==
  ASSUME ReadOK, UNCHANGED <<compound, meta>>, hurt \subseteq hurt',
         \A j \in Jobs : job'[j].st = "marking" =>
            /\ job[j].st = "marking" /\ job'[j].read = job[j].read /\ job'[j].shard = job[j].shard
  PROVE  ReadOK'
<1> SUFFICES ASSUME NEW j \in Jobs, job'[j].st = "marking"
             PROVE  Current(job[j].read, Entries(job[j].shard), hurt)'
  BY DEF ReadOK
<1>1. job[j].st = "marking" /\ job'[j].read = job[j].read /\ job'[j].shard = job[j].shard
  OBVIOUS
<1>2. Entries(job[j].shard)' = Entries(job[j].shard)
  BY <1>1 DEF Entries
<1>3. Current(job[j].read, Entries(job[j].shard), hurt)
  BY <1>1 DEF ReadOK
<1> QED
  BY <1>1, <1>2, <1>3 DEF Current

\* Sourcegraph, time, and jobs that do not touch the directory.
LEMMA QuietNewest ==
  ASSUME NInv, UNCHANGED <<simple, trash, compound, meta, hurt, stale, emptied, cleanVars>>,
         faults' = faults \/ faults' = faults + 1,
         \A j \in Jobs : Pends(j)' => job'[j] = job[j]
  PROVE  ReadOK' /\ \A r \in Repos : NewestOK(r)'
<1>1. ~Cleaning' \/ (Cleaning /\ todo' = todo /\ tombs' = tombs)
  BY DEF Cleaning, cleanVars
<1>2. \A j \in Jobs : Pends(j)' => Pends(j) /\ job'[j].repo = job[j].repo
  BY DEF Pends
<1>3. \A j \in Jobs : job'[j].st = "marking" =>
         /\ job[j].st = "marking" /\ job'[j].read = job[j].read /\ job'[j].shard = job[j].shard
  BY DEF Pends
<1>4. ReadOK'
  BY <1>3, ReadStays DEF NInv
<1>5. \A r \in Repos : NewestOK(r)'
  BY <1>1, <1>2, QuietStep
<1> QED
  BY <1>4, <1>5

LEMMA SameJobNewest ==
  ASSUME NInv, (\E r \in Repos : Change(r) \/ Age(r)) \/ UNCHANGED vars
  PROVE  ReadOK' /\ \A r \in Repos : NewestOK(r)'
<1>1. /\ UNCHANGED <<simple, trash, compound, meta, hurt, stale, emptied, cleanVars>> /\ faults' = faults /\ job' = job
  BY DEF Change, Age, vars, dirVars, counters, history
<1> QED
  BY <1>1, QuietNewest

LEMMA JobNewest ==
  ASSUME NInv, NEW j \in Jobs, (\E r \in Repos : Pop(j, r)) \/ StartJob(j) \/ JobFails(j)
  PROVE  ReadOK' /\ \A r \in Repos : NewestOK(r)'
<1>1. /\ UNCHANGED <<simple, trash, compound, meta, hurt, stale, emptied, cleanVars>>
      /\ faults' = faults \/ faults' = faults + 1
  BY DEF Pop, StartJob, JobFails, Failure, dirVars, counters, history
<1>2. PICK x : job' = [job EXCEPT ![j] = x] /\ x.st \notin {"published", "marking"}
  <2>1. IdleJob.st = "idle" /\ [job[j] EXCEPT !.st = "build"].st = "build"
    BY IdleJobType DEF NInv, IInv, TypeOK, JobsTyped, JobOK, JobType
  <2>2. CASE \E r \in Repos : Pop(j, r)
    <3>1. PICK r \in Repos : Pop(j, r)
      BY <2>2
    <3>2. [IdleJob EXCEPT !.st = "popped", !.repo = r, !.ver = want[r].ver].st = "popped"
      BY DEF IdleJob
    <3> QED
      BY <3>1, <3>2 DEF Pop
  <2>3. CASE StartJob(j)
    BY <2>1, <2>3 DEF StartJob
  <2>4. CASE JobFails(j)
    BY <2>1, <2>4 DEF JobFails
  <2> QED
    BY <2>2, <2>3, <2>4
<1>3. \A k \in Jobs : Pends(k)' => job'[k] = job[k]
  BY <1>2 DEF Pends, NInv, IInv, TypeOK, JobsTyped
<1> QED
  BY <1>1, <1>3, QuietNewest

LEMMA SyncListNewest ==
  ASSUME NInv, SyncList PROVE ReadOK' /\ \A r \in Repos : NewestOK(r)'
<1>1. /\ UNCHANGED <<simple, trash, compound, meta, hurt, stale, emptied, job, faults>> /\ phase' = "listed"
  BY DEF SyncList, dirVars, counters, history
<1>2. ~Cleaning' /\ \A j \in Jobs : Pends(j)' => Pends(j) /\ job'[j].repo = job[j].repo
  BY <1>1 DEF Cleaning, Pends
<1>3. ReadOK'
  BY <1>1, ReadStays DEF NInv
<1>4. \A r \in Repos : NewestOK(r)'
  BY <1>1, <1>2, QuietStep
<1> QED
  BY <1>3, <1>4

LEMMA CrashNewest ==
  ASSUME NInv, Crash PROVE ReadOK' /\ \A r \in Repos : NewestOK(r)'
<1>1. /\ UNCHANGED <<simple, trash, compound, meta, stale, emptied>> /\ hurt \subseteq hurt'
      /\ phase' = "idle" /\ faults' = faults + 1 /\ job' = [j \in Jobs |-> IdleJob]
  BY DEF Crash, Restart, Failure, dirVars
<1>2. \A j \in Jobs : job'[j].st = "idle"
  BY <1>1, IdleJobType
<1>3. ~Cleaning' /\ \A j \in Jobs : ~Pends(j)'
  BY <1>1, <1>2 DEF Cleaning, Pends
<1>4. ReadOK'
  BY <1>2 DEF ReadOK
<1>5. \A r \in Repos : NewestOK(r)'
  BY <1>1, <1>3, QuietStep
<1> QED
  BY <1>4, <1>5

LEMMA ReadMetaNewest ==
  ASSUME NInv, NEW j \in Jobs, ReadMeta(j) PROVE ReadOK' /\ \A r \in Repos : NewestOK(r)'
<1> DEFINE es == Entries(job[j].shard)
<1>1. /\ UNCHANGED <<simple, trash, compound, meta, hurt, stale, emptied, faults, cleanVars>>
      /\ job[j].st = "published"
      /\ job' = [job EXCEPT ![j].st = "marking", ![j].read = es]
  BY DEF ReadMeta, dirVars, counters, history
<1>2. job[j] \in JobType /\ job = [k \in Jobs |-> job[k]]
  BY DEF NInv, IInv, TypeOK, JobsTyped, JobOK
<1> HIDE DEF es
<1>3. /\ job'[j].repo = job[j].repo /\ job'[j].shard = job[j].shard /\ job'[j].read = es
      /\ \A k \in Jobs \ {j} : job'[k] = job[k]
  BY <1>1, <1>2 DEF JobType
<1>4. \A k \in Jobs : Pends(k)' => Pends(k) /\ job'[k].repo = job[k].repo
  BY <1>1, <1>3 DEF Pends
<1>5. ~Cleaning' \/ (Cleaning /\ todo' = todo /\ tombs' = tombs)
  BY <1>1 DEF Cleaning, cleanVars
<1>6. \A r \in Repos : NewestOK(r)'
  BY <1>1, <1>4, <1>5, QuietStep
<1>7. ReadOK'
  <2> SUFFICES ASSUME NEW k \in Jobs, job'[k].st = "marking"
               PROVE  Current(job[k].read, Entries(job[k].shard), hurt)'
    BY DEF ReadOK
  <2>1. Entries(job[k].shard)' = Entries(job[k].shard)
    <3>1. job'[k].shard = job[k].shard
      BY <1>3
    <3> QED
      BY <1>1, <3>1 DEF Entries
  <2>2. CASE k = j
    <3>1. job'[k].read = Entries(job[k].shard)
      BY <1>3, <2>2 DEF es
    <3> QED
      BY <1>1, <2>1, <3>1 DEF Current
  <2>3. CASE k # j
    <3>1. job'[k] = job[k] /\ Current(job[k].read, Entries(job[k].shard), hurt)
      BY <1>3, <2>3 DEF NInv, ReadOK
    <3> QED
      BY <1>1, <2>1, <3>1
  <2> QED
    BY <2>2, <2>3
<1> QED
  BY <1>6, <1>7

LEMMA VersionsType == TypeOK => \A r \in Repos : Served(r) \cup OnDisk(r) \subseteq Versions
<1> SUFFICES ASSUME TypeOK, NEW r \in Repos, NEW v \in Served(r) \cup OnDisk(r) PROVE v \in Versions
  OBVIOUS
<1>1. \A f \in Files : /\ simple[f] # Absent => simple[f] \in Versions
                       /\ trash[f] # Absent => trash[f] \in Versions
  BY DEF TypeOK, DirOK
<1>2. \A c \in DOMAIN compound : \A m \in Entries(c) : m.ver \in Versions
  BY EntriesType, EntryFacts
<1>3. \A c \in DOMAIN compound : \A m \in Alive(c) : m.ver \in Versions
  BY AliveType, EntryFacts
<1> QED
  BY <1>1, <1>2, <1>3, VWords DEF VersionWords

\* A job publishes the newest version, or one that counts as stale.
LEMMA PublishNewest ==
  ASSUME NInv, NEW j \in Jobs, Publish(j) PROVE ReadOK' /\ \A r \in Repos : NewestOK(r)'
<1>1. PICK q : q = job[j].repo
  OBVIOUS
<1>2. PICK v : v = job[j].ver
  OBVIOUS
<1> DEFINE s == Shape[q][v]
           first == FirstShard(q, v)
           c == OldCompound(q, v)
           x == IF c = NoShard THEN IdleJob ELSE [job[j] EXCEPT !.st = "published", !.shard = c]
<1>3. job[j].st = "build" /\ job[j] \in JobType /\ q \in Repos /\ v \in Versions
  BY <1>1, <1>2 DEF Publish, NInv, IInv, TypeOK, JobsTyped, JobOK
<1>4. /\ simple' = [f \in Files |-> IF f[1] = q /\ f[2] = s.name /\ f[3] < s.parts THEN v
                                    ELSE IF f[1] = q /\ f[2] = s.name /\ simple[first] # Absent
                                    THEN Absent ELSE simple[f]]
      /\ job' = [job EXCEPT ![j] = x]
      /\ hurt \subseteq hurt'
      /\ stale' = stale \cup IF \E w \in Served(q) \cup OnDisk(q) : w > v THEN {q} ELSE {}
      /\ UNCHANGED <<trash, compound, meta, cleanVars, counters, emptied>>
  BY <1>1, <1>2 DEF Publish
<1>5. x.st \in {"idle", "published"} /\ (x.st # "idle" => x.repo = q)
  BY <1>1, <1>3, IdleJobType DEF JobType
<1> HIDE DEF x
<1>6. job'[j] = x /\ \A k \in Jobs \ {j} : job'[k] = job[k]
  BY <1>4 DEF NInv, IInv, TypeOK, JobsTyped
<1>7. ReadOK'
  <2>1. \A k \in Jobs : job'[k].st = "marking" =>
           job[k].st = "marking" /\ job'[k].read = job[k].read /\ job'[k].shard = job[k].shard
    BY <1>5, <1>6
  <2> QED
    BY <1>4, <2>1, ReadStays DEF NInv
<1>8. ~Cleaning' /\ faults' = faults
  BY <1>3, <1>4, <1>1, CleaningNot DEF Running, Cleaning, cleanVars, counters, NInv
<1>9. \A d \in DOMAIN compound : Entries(d)' = Entries(d) /\ Alive(d)' = Alive(d)
  BY <1>4 DEF Entries, Alive
<1>10. first \in Files /\ first[1] = q /\ simple'[first] = v /\ v # Absent
  <2>1. /\ first = <<q, s.name, 0>> /\ first \in Files /\ s.parts \in {1, 2}
        /\ first[1] = q /\ first[2] = s.name /\ first[3] = 0
    BY <1>3, FileFacts, VersionFacts DEF FirstShard, NamesOf
  <2>2. v # Absent /\ 0 < s.parts
    BY <1>3, <2>1, VersionFacts
  <2> HIDE DEF first
  <2> QED
    BY <1>4, <2>1, <2>2
<1> HIDE DEF first
<1>11. ASSUME q \notin stale' PROVE NewestIn(q)'
  <2>1. \A u \in Served(q) \cup OnDisk(q) : v >= u
    <3>1. Served(q) \cup OnDisk(q) \subseteq Versions
      BY <1>3, VersionsType DEF NInv, IInv
    <3>2. \A u \in Served(q) \cup OnDisk(q) : ~(u > v)
      BY <1>4, <1>11
    <3>3. \A a, b \in Versions : a > b \/ b >= a
      BY VersionFacts
    <3> QED
      BY <1>3, <3>1, <3>2, <3>3
  <2>2. Served(q)' \cup OnDisk(q)' \subseteq Served(q) \cup OnDisk(q) \cup {v}
    <3>1. \A f \in Files : simple'[f] # Absent => simple'[f] = v \/ simple'[f] = simple[f]
      BY <1>4
    <3> QED
      BY <1>3, <1>4, <1>9, <3>1, VWords, VWordsNext DEF VersionWords
  <2>3. \A u \in Served(q)' \cup OnDisk(q)' : v >= u
    BY <1>3, <2>1, <2>2, VersionFacts
  <2>4. v \in Served(q)'
    BY <1>3, <1>10, VWordsNext DEF VersionWords
  <2>5. InIndex(q)'
    BY <1>3, <2>4, IndexServedNext
  <2>6. first \in SimpleOf(simple', q)
    BY <1>10 DEF SimpleOf
  <2> QED
    BY <1>8, <1>10, <2>3, <2>4, <2>5, <2>6 DEF NewestIn, Newer
<1>12. ASSUME NEW r \in Repos, r # q, NewestIn(r) PROVE NewestIn(r)'
  <2>1. \A f \in Files : f[1] = r => simple'[f] = simple[f] /\ trash'[f] = trash[f]
    BY <1>4, <1>12
  <2>2. /\ Served(r)' = Served(r) /\ OnDisk(r)' = OnDisk(r) /\ (InIndex(r)' <=> InIndex(r))
    BY <1>4, <1>9, <2>1, Unmoved
  <2>3. \/ \A k \in Jobs : ~(Pends(k)' /\ job'[k].repo = r)
        \/ \E k \in Jobs : Pends(k) /\ job[k].repo = r
    BY <1>5, <1>6, <1>12 DEF Pends
  <2> QED
    BY <1>8, <1>12, <2>1, <2>2, <2>3, NewestStays
<1>13. ASSUME NEW r \in Repos PROVE NewestOK(r)'
  <2>1. CASE r = q
    BY <1>8, <1>11, <2>1 DEF NewestOK
  <2>2. CASE r # q
    BY <1>4, <1>8, <1>12, <2>2 DEF NewestOK, NInv
  <2> QED
    BY <2>1, <2>2
<1> QED
  BY <1>7, <1>13

\* What the new .meta says of a repository whose tombstone is not lost.
LEMMA WriteMetaVersions ==
  ASSUME NInv, NEW j \in Jobs, WriteMeta(j), meta' = Put(meta, job[j].shard, Mark(job[j].read, {job[j].repo}, TRUE)),
         hurt' = hurt \cup Undone(j), NEW r \in Repos, r \notin hurt'
  PROVE  /\ OnDisk(r)' \subseteq OnDisk(r) /\ Served(r)' \subseteq Served(r)
         /\ r # job[j].repo => Served(r)' = Served(r)
<1>1. PICK q : q = job[j].repo
  OBVIOUS
<1>2. PICK c : c = job[j].shard
  OBVIOUS
<1>3. PICK es : es = job[j].read
  OBVIOUS
<1>4. PICK x : x = Mark(es, {q}, TRUE)
  OBVIOUS
<1>5. /\ c \in DOMAIN compound /\ es \subseteq Entry /\ Current(es, Entries(c), hurt)
      /\ meta' = Put(meta, c, x) /\ UNCHANGED <<simple, trash, compound>> /\ r \notin hurt
  BY <1>1, <1>2, <1>3, <1>4 DEF WriteMeta, NInv, IInv, TypeOK, JobsTyped, JobOK, JobType, ListsOK, Pends, ReadOK
<1>6. \A d \in DOMAIN compound : Entries(d)' = IF d = c THEN x ELSE Entries(d)
  <2>1. DOMAIN meta' = DOMAIN meta \cup {c} /\ \A d \in DOMAIN meta' : meta'[d] = IF d = c THEN x ELSE meta[d]
    BY <1>5 DEF Put
  <2> QED
    BY <1>5, <2>1 DEF Entries
<1>7. \A m \in es : ~m.dead /\ m \notin Entries(c) /\ m.repo # q => m.repo \in hurt'
  BY <1>1, <1>2, <1>3 DEF Undone
<1>8. \A m \in x : m.repo = r => \E e \in Entries(c) : e.repo = r /\ e.ver = m.ver
  <2>1. es \subseteq Entry
    BY <1>5
  <2>2. /\ \A m \in Mark(es, {q}, TRUE) : \E o \in es : m.repo = o.repo /\ m.ver = o.ver
        /\ \A o \in es : \E m \in Mark(es, {q}, TRUE) : m.repo = o.repo /\ m.ver = o.ver
    BY <2>1, MarkKept
  <2>3. \A m \in x : \E o \in es : m.repo = o.repo /\ m.ver = o.ver
    BY <1>4, <2>2
  <2>4. \A o \in es : \E e \in Entries(c) : e.repo = o.repo /\ e.ver = o.ver
    BY <1>5 DEF Current
  <2> QED
    BY <2>3, <2>4
<1>9. \A m \in x : m.repo = r /\ ~m.dead => m \in Entries(c)
  <2>1. \A m \in x : ~m.dead => m \in es /\ m.repo \notin {q}
    BY <1>4, <1>5, MarkDead
  <2> QED
    BY <1>7, <2>1
<1>10. r # q => \A m \in Entries(c) : m.repo = r /\ ~m.dead => m \in x
  <2>1. \A m \in Entry : m.repo \notin {q} => (m \in x <=> m \in es)
    BY <1>4, <1>5, MarkOthers
  <2> QED
    BY <1>5, <2>1 DEF Current
<1>11. OnDisk(r)' \subseteq OnDisk(r)
  BY <1>5, <1>6, <1>8, VWords, VWordsNext DEF VersionWords
<1>12. \A d \in DOMAIN compound : \A m \in Alive(d)' : m.repo = r => m \in Alive(d)
  BY <1>6, <1>9 DEF Alive
<1>13. Served(r)' \subseteq Served(r)
  BY <1>5, <1>12, VWords, VWordsNext DEF VersionWords
<1>14. ASSUME r # q PROVE Served(r) \subseteq Served(r)'
  <2>1. \A d \in DOMAIN compound : \A m \in Alive(d) : m.repo = r => m \in Alive(d)'
    BY <1>6, <1>10, <1>14 DEF Alive
  <2> QED
    BY <1>5, <2>1, VWords, VWordsNext DEF VersionWords
<1> QED
  BY <1>1, <1>11, <1>13, <1>14

\* The tombstone is that of a repository whose newest version was just published.
LEMMA WriteMetaNewest ==
  ASSUME NInv, NEW j \in Jobs, WriteMeta(j) PROVE ReadOK' /\ \A r \in Repos : NewestOK(r)'
<1>1. PICK q : q = job[j].repo
  OBVIOUS
<1>2. PICK c : c = job[j].shard
  OBVIOUS
<1>3. PICK es : es = job[j].read
  OBVIOUS
<1> DEFINE x == Mark(es, {q}, TRUE)
<1>4. /\ job[j].st = "marking" /\ job[j] \in JobType /\ q \in Repos
      /\ c \in DOMAIN compound /\ es \subseteq Entry /\ Current(es, Entries(c), hurt)
  BY <1>1, <1>2, <1>3 DEF WriteMeta, NInv, IInv, TypeOK, JobsTyped, JobOK, JobType, ListsOK, Pends, ReadOK
<1>5. /\ \/ meta' = Put(meta, c, x) /\ hurt' = hurt \cup Undone(j) /\ faults' = faults
         \/ hurt' = hurt \cup {q} /\ meta' = meta /\ faults' = faults + 1
      /\ UNCHANGED <<simple, trash, compound, cleanVars, stale, emptied>>
  BY <1>1, <1>2, <1>3 DEF WriteMeta, Failure
<1>6. job' = [job EXCEPT ![j] = IdleJob]
  BY DEF WriteMeta
<1>7. job'[j].st = "idle" /\ \A k \in Jobs \ {j} : job'[k] = job[k]
  BY <1>6, IdleJobType DEF NInv, IInv, TypeOK, JobsTyped
<1>8. ~Cleaning'
  <2>1. Running(j)
    BY <1>4 DEF Running
  <2> QED
    BY <1>5, <2>1, CleaningNot DEF Cleaning, cleanVars, NInv
<1>9. hurt \subseteq hurt'
  BY <1>5
<1>10. ASSUME meta' = Put(meta, c, x), hurt' = hurt \cup Undone(j)
       PROVE  /\ \A d \in DOMAIN compound : Entries(d)' = IF d = c THEN x ELSE Entries(d)
              /\ \A m \in x : \E o \in es : m.repo = o.repo /\ m.ver = o.ver
              /\ \A o \in es : \E m \in x : m.repo = o.repo /\ m.ver = o.ver
              /\ \A m \in x : ~m.dead /\ m.repo \notin hurt' => m \in Entries(c) /\ m.repo # q
  <2>1. \A d \in DOMAIN compound : Entries(d)' = IF d = c THEN x ELSE Entries(d)
    <3>1. PICK y : y = x
      OBVIOUS
    <3>2. meta' = Put(meta, c, y)
      BY <1>10, <3>1
    <3> HIDE DEF x
    <3>3. DOMAIN meta' = DOMAIN meta \cup {c}
      BY <3>2 DEF Put
    <3>4. \A d \in DOMAIN meta' : meta'[d] = IF d = c THEN y ELSE meta[d]
      BY <3>2 DEF Put
    <3> QED
      BY <1>5, <3>1, <3>3, <3>4 DEF Entries
  <2>2. /\ \A m \in x : \E o \in es : m.repo = o.repo /\ m.ver = o.ver
        /\ \A o \in es : \E m \in x : m.repo = o.repo /\ m.ver = o.ver
    BY <1>4, MarkKept
  <2>3. \A m \in x : ~m.dead => m \in es /\ m.repo \notin {q}
    BY <1>4, MarkDead
  <2>4. \A m \in es : ~m.dead /\ m \notin Entries(c) /\ m.repo # q => m.repo \in Undone(j)
    BY <1>1, <1>2, <1>3 DEF Undone
  <2>5. \A m \in x : ~m.dead /\ m.repo \notin hurt' => m \in Entries(c) /\ m.repo # q
    <3> HIDE DEF x
    <3> QED
      BY <1>10, <2>3, <2>4
  <2> QED
    BY <2>1, <2>2, <2>5
<1> HIDE DEF x
<1>11. ReadOK'
  <2> SUFFICES ASSUME NEW k \in Jobs, job'[k].st = "marking"
               PROVE  Current(job[k].read, Entries(job[k].shard), hurt)'
    BY DEF ReadOK
  <2>1. k # j /\ job'[k] = job[k] /\ job[k].st = "marking"
    BY <1>7
  <2>2. PICK d : d = job[k].shard
    OBVIOUS
  <2>3. PICK fs : fs = job[k].read
    OBVIOUS
  <2>4. Current(fs, Entries(d), hurt) /\ d \in DOMAIN compound
    BY <2>1, <2>2, <2>3 DEF NInv, ReadOK, IInv, ListsOK, Pends
  <2>5. job'[k].shard = d /\ job'[k].read = fs
    BY <2>1, <2>2, <2>3
  <2>6. Entries(job[k].shard)' = Entries(d)'
    BY <2>5 DEF Entries
  <2>7. Current(fs, Entries(d)', hurt')
    <3>1. CASE meta' = meta
      <4>1. Entries(d)' = Entries(d)
        BY <1>5, <3>1 DEF Entries
      <4> QED
        BY <1>9, <2>4, <4>1 DEF Current
    <3>2. CASE meta' = Put(meta, c, x) /\ hurt' = hurt \cup Undone(j)
      <4>1. CASE d # c
        <5>1. Entries(d)' = Entries(d)
          BY <1>10, <2>4, <3>2, <4>1
        <5> QED
          BY <1>9, <2>4, <5>1 DEF Current
      <4>2. CASE d = c
        <5>1. Entries(d)' = x
          BY <1>10, <2>4, <3>2, <4>2
        <5>2. \A m \in fs : \E e \in x : e.repo = m.repo /\ e.ver = m.ver
          BY <1>4, <1>10, <2>4, <3>2, <4>2 DEF Current
        <5>3. \A e \in x : \E m \in fs : m.repo = e.repo /\ m.ver = e.ver
          BY <1>4, <1>10, <2>4, <3>2, <4>2 DEF Current
        <5>4. \A e \in x : ~e.dead /\ e.repo \notin hurt' => e \in fs
          BY <1>9, <1>10, <2>4, <3>2, <4>2 DEF Current
        <5> QED
          BY <5>1, <5>2, <5>3, <5>4 DEF Current
      <4> QED
        BY <4>1, <4>2
    <3> QED
      BY <1>5, <3>1, <3>2
  <2> QED
    BY <2>5, <2>6, <2>7
<1>12. ASSUME NEW r \in Repos, r \notin hurt' \cup stale', NewestIn(r),
              meta' = Put(meta, c, x), hurt' = hurt \cup Undone(j)
       PROVE  NewestIn(r)'
  <2>1. OnDisk(r)' \subseteq OnDisk(r) /\ Served(r)' \subseteq Served(r) /\ (r # q => Served(r)' = Served(r))
    <3>1. meta' = Put(meta, job[j].shard, Mark(job[j].read, {job[j].repo}, TRUE)) /\ r \notin hurt'
      BY <1>1, <1>2, <1>3, <1>12 DEF x
    <3> QED
      BY <1>1, <1>12, <3>1, WriteMetaVersions
  <2>2. CASE r # q
    <3>1. InIndex(r)' <=> InIndex(r)
      BY <2>1, <2>2, IndexServed, IndexServedNext
    <3>2. \/ \A k \in Jobs : ~(Pends(k)' /\ job'[k].repo = r)
          \/ \E k \in Jobs : Pends(k) /\ job[k].repo = r
      BY <1>7 DEF Pends
    <3>3. \A f \in Files : simple'[f] = simple[f] /\ trash'[f] = trash[f]
      BY <1>5
    <3> QED
      BY <1>8, <1>12, <2>1, <2>2, <3>1, <3>2, <3>3, NewestStays
  <2>3. CASE r = q
    <3>1. Pends(j) /\ job[j].repo = r
      BY <1>1, <1>4, <2>3 DEF Pends
    <3>2. PICK f \in SimpleOf(simple, r) : Newer(simple[f], Served(r) \cup OnDisk(r))
      BY <1>12, <3>1 DEF NewestIn
    <3>3. f \in SimpleOf(simple', r) /\ simple'[f] = simple[f] /\ simple[f] \in Served(r)'
      BY <1>5, <3>2, VWordsNext DEF VersionWords, SimpleOf
    <3>4. InIndex(r)'
      BY <3>3, IndexServedNext
    <3>5. Newer(simple'[f], Served(r)' \cup OnDisk(r)')
      BY <2>1, <3>2, <3>3 DEF Newer
    <3> QED
      BY <1>8, <3>3, <3>4, <3>5 DEF NewestIn
  <2> QED
    BY <2>2, <2>3
<1>13. ASSUME NEW r \in Repos PROVE NewestOK(r)'
  <2>1. faults \in Nat
    BY DEF NInv, IInv, TypeOK, RestOK
  <2>2. CASE faults' = faults + 1
    BY <1>8, <2>1, <2>2 DEF NewestOK
  <2>3. CASE meta' = Put(meta, c, x) /\ hurt' = hurt \cup Undone(j) /\ faults' = faults
    BY <1>5, <1>8, <1>9, <1>12, <2>3 DEF NewestOK, NInv
  <2> QED
    BY <1>5, <2>2, <2>3
<1> QED
  BY <1>11, <1>13

LEMMA CrashMovingNewest ==
  ASSUME NInv, NEW q \in Repos, CrashMoving(q) PROVE ReadOK' /\ \A r \in Repos : NewestOK(r)'
<1>1. phase' = "idle" /\ faults' = faults + 1 /\ job' = [j \in Jobs |-> IdleJob]
  BY DEF CrashMoving, Restart, Failure
<1>2. ~Cleaning' /\ faults' # 0 /\ \A j \in Jobs : job'[j].st # "marking"
  BY <1>1, IdleJobType DEF Cleaning, NInv, IInv, TypeOK, RestOK
<1> QED
  BY <1>2 DEF ReadOK, NewestOK

\* Under one name a repository is in one place.
LEMMA OneNamePlace ==
  ASSUME IInv, NoJobs, NEW r \in Repos, r \notin hurt, \A m, n \in NamesInIndex(r) : m = n
  PROVE  OnePlace(r)
<1> SUFFICES ASSUME NEW c \in DOMAIN compound, NEW d \in DOMAIN compound, NEW m \in Alive(c), NEW n \in Alive(d),
                    m.repo = r, n.repo = r
             PROVE  c = d /\ SimpleOf(simple, r) = {}
  BY DEF OnePlace
<1>1. NameOf(m) \in NamesInIndex(r) /\ NameOf(n) \in NamesInIndex(r)
  BY Words DEF IndexWords
<1>2. c = d
  BY <1>1 DEF IInv, Once
<1>3. ASSUME NEW f \in Files, f[1] = r, simple[f] # Absent PROVE FALSE
  <2>1. f[2] \in NamesInIndex(r)
    BY <1>3, Words DEF IndexWords
  <2>2. f[2] = NameOf(m)
    BY <1>1, <2>1
  <2> QED
    BY <1>3, <2>2, NoneApart
<1> QED
  BY <1>2, <1>3 DEF SimpleOf

\* cleanup picks the newest tombstone, of what is neither in the index nor the trash.
LEMMA StartCleanupNewest ==
  ASSUME NInv, StartCleanup PROVE ReadOK' /\ \A r \in Repos : NewestOK(r)'
<1>1. IInv
  BY DEF NInv
<1>2. /\ phase = "listed" /\ NoJobs
      /\ tombs' = [r \in Repos |-> IF r \notin list \/ InIndex(r) \/ (InTrash(r) /\ r \notin Outdated)
                                   THEN NoShard ELSE LatestTombstone(r)]
      /\ UNCHANGED <<compound, job, faults, hurt, stale, emptied>>
      /\ \A f \in Files : trash'[f] = IF f[1] \in Outdated THEN Absent ELSE trash[f]
      /\ \A f \in Files : simple'[f] = IF f[1] \in TwoNamed THEN Absent ELSE simple[f]
      /\ \A c \in DOMAIN compound : \A m :
           /\ m \in Alive(c)' <=> m \in Alive(c) /\ m.repo \notin TwoNamed
           /\ m.repo \notin TwoNamed => (m \in Entries(c)' <=> m \in Entries(c))
  BY <1>1, StartCleanupFacts
<1>3. \A j \in Jobs : ~Pends(j) /\ ~Pends(j)'
  BY <1>1, <1>2, CleaningJobs DEF Pends
<1>4. ReadOK'
  BY <1>3 DEF ReadOK, Pends
<1>5. \A r \in Repos \ TwoNamed :
        /\ \A f \in Files : f[1] = r => simple'[f] = simple[f]
        /\ \A c \in DOMAIN compound : \A m : m.repo = r => /\ m \in Alive(c)' <=> m \in Alive(c)
                                                           /\ m \in Entries(c)' <=> m \in Entries(c)
  BY <1>2
<1>6. \A r \in Repos \ TwoNamed : Served(r)' = Served(r) /\ (InIndex(r)' <=> InIndex(r))
  <2> SUFFICES ASSUME NEW r \in Repos \ TwoNamed PROVE Served(r)' = Served(r) /\ (InIndex(r)' <=> InIndex(r))
    OBVIOUS
  <2>1. \A v : v \in Served(r)' <=> v \in Served(r)
    BY <1>2, <1>5, VWords, VWordsNext DEF VersionWords
  <2>2. InIndex(r)' <=> InIndex(r)
    BY <2>1, IndexServed, IndexServedNext
  <2> QED
    BY <2>1, <2>2
<1>7. ASSUME NEW r \in TwoNamed
      PROVE  ~InIndex(r)' /\ ~InTrash(r)' /\ tombs'[r] = NoShard /\ OnePlace(r)'
  <2>1. InIndex(r)
    <3>1. NamesInIndex(r) # {}
      BY <1>1, OneNamed DEF TwoNamed
    <3> QED
      BY <3>1, Words DEF IndexWords, TwoNamed
  <2>2. r \in Outdated /\ r \in Repos
    BY <2>1 DEF Outdated, TwoNamed
  <2>3. \A c \in DOMAIN compound : \A m \in Alive(c)' : m.repo # r
    BY <1>2
  <2>4. ~InIndex(r)' /\ ~InTrash(r)'
    BY <1>2, <2>2, <2>3, WordsNext DEF IndexWords
  <2> QED
    BY <1>2, <2>1, <2>2, <2>3, <2>4 DEF OnePlace
<1>8. ASSUME NEW r \in Repos \ TwoNamed, r \notin hurt PROVE OnePlace(r)'
  <2>1. OnePlace(r)
    BY <1>1, <1>2, <1>8, OneNamed, OneNamePlace
  <2> QED
    BY <1>2, <1>5, <2>1, OnePlaceShrinks
<1>9. ASSUME NEW r \in Repos \ TwoNamed, InIndex(r), NewestIn(r) PROVE NewestIn(r)'
  <2>1. r \in Outdated /\ tombs'[r] = NoShard
    BY <1>2, <1>9 DEF Outdated
  <2>2. ~InTrash(r)'
    BY <1>2, <2>1, WordsNext DEF IndexWords
  <2>3. OnDisk(r)' \subseteq OnDisk(r)
    BY <1>2, <1>5, <2>1, VWords, VWordsNext DEF VersionWords
  <2>4. \E w \in Served(r) : Newer(w, Served(r) \cup OnDisk(r))
    BY <1>9 DEF NewestIn
  <2> QED
    BY <1>3, <1>6, <2>1, <2>2, <2>3, <2>4 DEF NewestIn, Newer
<1>10. ASSUME NEW r \in Repos \ TwoNamed, ~InIndex(r), NewestIn(r) PROVE NewestIn(r)'
  <2>1. ~InIndex(r)'
    BY <1>6, <1>10
  <2>2. ASSUME InTrash(r)' PROVE \E f \in SimpleOf(trash', r) : Newer(trash'[f], OnDisk(r)')
    <3>1. r \notin Outdated
      BY <1>2, <2>2, WordsNext DEF IndexWords
    <3>2. \A f \in Files : f[1] = r => trash'[f] = trash[f]
      BY <1>2, <3>1
    <3>3. InTrash(r)
      BY <2>2, <3>2, Words, WordsNext DEF IndexWords
    <3>4. PICK f \in SimpleOf(trash, r) : Newer(trash[f], OnDisk(r))
      BY <1>10, <3>3 DEF NewestIn
    <3>5. \A v : v \in OnDisk(r)' <=> v \in OnDisk(r)
      BY <1>2, <1>5, <3>2, VWords, VWordsNext DEF VersionWords
    <3> QED
      BY <3>2, <3>4, <3>5 DEF Newer, SimpleOf
  <2>3. ASSUME tombs'[r] # NoShard
        PROVE  \E m \in Entries(tombs[r])' : m.repo = r /\ Newer(m.ver, OnDisk(r)')
    <3>1. PICK t : t = LatestTombstone(r)
      OBVIOUS
    <3>2. tombs'[r] = t /\ t # NoShard /\ ~(InTrash(r) /\ r \notin Outdated)
      BY <1>2, <2>3, <3>1
    <3>3. t \in DOMAIN compound /\ \E m \in Entries(t) :
            m.repo = r /\ \A c \in DOMAIN compound : \A n \in Entries(c) : n.repo = r /\ n.dead => m.ver >= n.ver
      BY <1>1, <3>1, <3>2, LatestFacts
    <3>4. PICK m \in Entries(t) :
            m.repo = r /\ \A c \in DOMAIN compound : \A n \in Entries(c) : n.repo = r /\ n.dead => m.ver >= n.ver
      BY <3>3
    <3>5. \A c \in DOMAIN compound : \A n \in Entries(c) : n.repo = r => n.dead
      BY <1>10, Words DEF IndexWords, Alive
    <3>6. \A f \in Files : f[1] = r => trash'[f] = Absent
      BY <1>2, <3>2, Words DEF IndexWords
    <3>7. \A v \in OnDisk(r)' : \E c \in DOMAIN compound : \E n \in Entries(c)' : n.repo = r /\ n.ver = v
      BY <1>2, <3>6, VWordsNext DEF VersionWords
    <3>8. \A v \in OnDisk(r)' : m.ver >= v
      BY <1>5, <3>4, <3>5, <3>7
    <3>9. m \in Entries(t)'
      BY <1>5, <3>3, <3>4
    <3>10. Entries(tombs[r])' = Entries(t)'
      BY <3>2 DEF Entries
    <3> QED
      BY <3>4, <3>8, <3>9, <3>10 DEF Newer
  <2> QED
    BY <1>3, <2>1, <2>2, <2>3 DEF NewestIn
<1>11. ASSUME NEW r \in Repos PROVE NewestOK(r)'
  <2>1. CASE r \in TwoNamed
    BY <1>3, <1>7, <2>1 DEF NewestOK, NewestIn
  <2>2. CASE r \notin TwoNamed
    BY <1>2, <1>8, <1>9, <1>10, <2>2 DEF NewestOK, NInv
  <2> QED
    BY <2>1, <2>2
<1> QED
  BY <1>4, <1>11

\* A step of cleanup for another repository.
LEMMA CleaningOthers ==
  ASSUME NInv, Cleaning, NEW q \in Repos, UNCHANGED <<job, hurt, stale, emptied>>, faults' = faults \/ faults' = faults + 1,
         todo' \subseteq todo, tombs'[q] = tombs[q],
         \A f \in Files : f[1] = q => simple'[f] = simple[f] /\ trash'[f] = trash[f],
         \A c \in DOMAIN compound' : \A m \in Entries(c)' : m.repo = q => c \in DOMAIN compound /\ m \in Entries(c),
         \A c \in DOMAIN compound : \A m \in Entries(c) : m.repo = q => c \in DOMAIN compound' /\ m \in Entries(c)'
  PROVE  NewestOK(q)'
<1>1. /\ Served(q)' = Served(q) /\ OnDisk(q)' = OnDisk(q) /\ (InIndex(q)' <=> InIndex(q))
      /\ OnePlace(q) => OnePlace(q)'
  BY Unmoved
<1>2. \A j \in Jobs : ~Pends(j)'
  BY CleaningJobs DEF Pends, NInv, IInv, LockOK
<1>3. ASSUME NewestIn(q) PROVE NewestIn(q)'
  <2>1. \/ q \notin todo' \/ tombs'[q] = NoShard
        \/ \A m : m.repo = q /\ m \in Entries(tombs[q]) => m \in Entries(tombs[q])'
    <3>1. ASSUME q \in todo, tombs[q] # NoShard PROVE tombs[q] \in DOMAIN compound
      BY <3>1 DEF NInv, IInv, CleaningOK
    <3>2. PICK t : t = tombs[q]
      OBVIOUS
    <3>3. Entries(tombs[q])' = Entries(t)' /\ tombs'[q] = t
      BY <3>2 DEF Entries
    <3>4. t \in DOMAIN compound => \A m : m.repo = q /\ m \in Entries(t) => m \in Entries(t)'
      OBVIOUS
    <3> QED
      BY <3>1, <3>2, <3>3, <3>4
  <2> QED
    BY <1>1, <1>2, <1>3, <2>1, NewestStays
<1>4. faults' = 0 => faults = 0
  BY DEF NInv, IInv, TypeOK, RestOK
<1> QED
  BY <1>1, <1>3, <1>4 DEF NInv, NewestOK

\* Marking the entries of r in c changes neither those of others nor any version.
LEMMA TombstoneMarks ==
  ASSUME IInv, NEW r \in Repos, NEW c \in DOMAIN compound, NEW dead \in BOOLEAN,
         meta' = Put(meta, c, Mark(Entries(c), {r}, dead)), compound' = compound
  PROVE  /\ \A d \in DOMAIN compound : \A m : m.repo # r => (m \in Entries(d)' <=> m \in Entries(d))
         /\ \A d \in DOMAIN compound : d # c => Entries(d)' = Entries(d)
         /\ \A m \in Entries(c)' : \E o \in Entries(c) : m.repo = o.repo /\ m.ver = o.ver
         /\ dead = FALSE => \A o \in Entries(c) : o.repo = r =>
              \E m \in Entries(c)' : m.repo = r /\ m.ver = o.ver /\ ~m.dead
         /\ dead = TRUE => \A m \in Entries(c)' : m.repo = r => m.dead
<1> DEFINE x == Mark(Entries(c), {r}, dead)
<1>1. /\ \A d \in DOMAIN compound : Entries(d)' = IF d = c THEN x ELSE Entries(d)
      /\ \A d \in DOMAIN compound : \A m : m.repo # r => (m \in Entries(d)' <=> m \in Entries(d))
      /\ dead = TRUE => (\A m \in Entries(c)' : ~m.dead => m \in Entries(c) /\ m.repo # r)
  BY TombstoneFacts
<1>2. Entries(c) \subseteq Entry
  BY EntriesType DEF IInv
<1>3. \A m \in x : \E o \in Entries(c) : m.repo = o.repo /\ m.ver = o.ver
  BY <1>2, MarkKept
<1>4. ASSUME dead = FALSE, NEW o \in Entries(c), o.repo = r
      PROVE  \E m \in x : m.repo = r /\ m.ver = o.ver /\ ~m.dead
  <2> DEFINE m == [o EXCEPT !.dead = FALSE]
  <2>1. m.repo = r /\ m.ver = o.ver /\ ~m.dead
    BY <1>2, <1>4 DEF Entry
  <2>2. m \in x
    BY <1>4 DEF Mark
  <2> HIDE DEF m
  <2> QED
    BY <2>1, <2>2
<1> HIDE DEF x
<1> QED
  BY <1>1, <1>3, <1>4

\* What cleanup restores is the newest version.
LEMMA RestoreRepoNewest ==
  ASSUME NInv, NEW r \in Repos, RestoreRepo(r) PROVE ReadOK' /\ \A q \in Repos : NewestOK(q)'
<1>1. /\ phase = "restore" /\ r \in todo
      /\ Advance(todo \ {r}, doomed \ {r}) /\ tombs' = [tombs EXCEPT ![r] = NoShard]
      /\ UNCHANGED <<compound, job, hurt, stale, emptied>>
  BY DEF RestoreRepo, history
<1>2. /\ IInv /\ Cleaning /\ faults \in Nat /\ tombs'[r] = NoShard
      /\ todo' = todo \ {r} /\ \A q \in Repos \ {r} : tombs'[q] = tombs[q]
  BY <1>1 DEF Cleaning, NInv, IInv, TypeOK, LoopOK, RestOK, Advance
<1>3. \A j \in Jobs : ~Pends(j) /\ ~Pends(j)'
  BY <1>1, <1>2, CleaningJobs DEF Pends, IInv, LockOK
<1>4. ReadOK'
  BY <1>3 DEF ReadOK, Pends
<1>5. CASE InTrash(r) /\ UNCHANGED meta /\ \/ FromTrash(r, TRUE) /\ faults' = faults
                                           \/ FromTrash(r, FALSE) /\ faults' = faults + 1
  <2>1. PICK ok \in BOOLEAN : FromTrash(r, ok) /\ faults' = IF ok THEN faults ELSE faults + 1
    BY <1>5
  <2>2. /\ \A f \in Files : f[1] = r => simple[f] = Absent
        /\ \A c \in DOMAIN compound : \A m \in Alive(c) : m.repo # r
        /\ \A f \in Files : trash'[f] = IF f[1] = r THEN Absent ELSE trash[f]
        /\ \A f \in Files : simple'[f] = IF ok /\ f[1] = r THEN trash[f] ELSE simple[f]
        /\ \A c \in DOMAIN compound : Entries(c)' = Entries(c) /\ Alive(c)' = Alive(c)
        /\ ~InIndex(r)
    BY <1>1, <1>2, <1>5, <2>1, FromTrashFacts
  <2>3. ASSUME NEW q \in Repos, q # r PROVE NewestOK(q)'
    BY <1>1, <1>2, <2>1, <2>2, <2>3, CleaningOthers
  <2>4. OnePlace(r)'
    BY <1>1, <2>2 DEF OnePlace
  <2>5. ASSUME ok, NewestIn(r) PROVE NewestIn(r)'
    <3>1. PICK f \in SimpleOf(trash, r) : Newer(trash[f], OnDisk(r))
      BY <1>5, <2>2, <2>5 DEF NewestIn
    <3>2. f \in Files /\ f[1] = r /\ simple'[f] = trash[f] /\ trash[f] # Absent
      BY <2>2, <2>5, <3>1 DEF SimpleOf
    <3>3. trash[f] \in Served(r)'
      BY <3>2, VWordsNext DEF VersionWords
    <3>4. \A v \in Served(r)' \cup OnDisk(r)' : v \in OnDisk(r)
      BY <1>1, <2>2, <2>5, VWords, VWordsNext DEF VersionWords
    <3>5. InIndex(r)'
      BY <3>3, IndexServedNext
    <3> QED
      BY <1>2, <1>3, <3>1, <3>3, <3>4, <3>5 DEF NewestIn, Newer
  <2>6. NewestOK(r)'
    BY <1>1, <1>2, <2>1, <2>4, <2>5 DEF NewestOK, NInv
  <2> QED
    BY <1>4, <2>3, <2>6
<1>6. CASE /\ ~InTrash(r) /\ tombs[r] # NoShard /\ UNCHANGED <<simple, trash, old>>
           /\ meta' = Put(meta, tombs[r], Mark(Entries(tombs[r]), {r}, FALSE)) /\ faults' = faults
  <2>1. PICK c : c = tombs[r]
    OBVIOUS
  <2>2. c \in DOMAIN compound /\ ~InIndex(r) /\ FALSE \in BOOLEAN
    BY <1>1, <1>2, <1>6, <2>1 DEF IInv, CleaningOK
  <2>3. /\ \A d \in DOMAIN compound : \A m : m.repo # r => (m \in Entries(d)' <=> m \in Entries(d))
        /\ \A d \in DOMAIN compound : d # c => Entries(d)' = Entries(d)
        /\ \A m \in Entries(c)' : \E o \in Entries(c) : m.repo = o.repo /\ m.ver = o.ver
        /\ \A o \in Entries(c) : o.repo = r => \E m \in Entries(c)' : m.repo = r /\ m.ver = o.ver /\ ~m.dead
    <3>1. meta' = Put(meta, c, Mark(Entries(c), {r}, FALSE)) /\ compound' = compound
      BY <1>1, <1>6, <2>1
    <3> QED
      BY <1>2, <2>2, <3>1, TombstoneMarks
  <2>4. ASSUME NEW q \in Repos, q # r PROVE NewestOK(q)'
    BY <1>1, <1>2, <1>6, <2>3, <2>4, CleaningOthers
  <2>5. \A f \in Files : f[1] = r => simple'[f] = Absent /\ trash'[f] = Absent
    BY <1>6, <2>2, Words DEF IndexWords
  <2>6. OnePlace(r)'
    <3>1. \A d \in DOMAIN compound : \A m \in Alive(d) : m.repo # r
      BY <2>2, Words DEF IndexWords
    <3>2. \A d \in DOMAIN compound : \A m \in Alive(d)' : m.repo = r => d = c
      BY <2>3, <3>1 DEF Alive
    <3> QED
      BY <1>1, <2>5, <3>2 DEF OnePlace, SimpleOf
  <2>7. ASSUME NewestIn(r) PROVE NewestIn(r)'
    <3>1. PICK m \in Entries(c) : m.repo = r /\ Newer(m.ver, OnDisk(r))
      BY <1>1, <1>2, <1>6, <2>1, <2>7 DEF NewestIn
    <3>2. PICK n \in Entries(c)' : n.repo = r /\ n.ver = m.ver /\ ~n.dead
      BY <2>3, <3>1
    <3>3. m.ver \in Served(r)'
      BY <1>1, <2>2, <3>2, VWordsNext DEF VersionWords, Alive
    <3>4. \A v \in Served(r)' \cup OnDisk(r)' :
           \E d \in DOMAIN compound : \E e \in Entries(d)' : e.repo = r /\ e.ver = v
      BY <1>1, <2>5, VWordsNext DEF VersionWords, Alive
    <3>5. \A v \in Served(r)' \cup OnDisk(r)' : \E d \in DOMAIN compound : \E e \in Entries(d) : e.repo = r /\ e.ver = v
      BY <2>3, <3>4
    <3>6. \A v \in Served(r)' \cup OnDisk(r)' : v \in OnDisk(r)
      BY <3>5, VWords DEF VersionWords
    <3>7. InIndex(r)'
      BY <3>3, IndexServedNext
    <3> QED
      BY <1>2, <1>3, <3>1, <3>3, <3>6, <3>7 DEF NewestIn, Newer
  <2>8. NewestOK(r)'
    BY <1>1, <1>6, <2>6, <2>7 DEF NewestOK, NInv
  <2> QED
    BY <1>4, <2>4, <2>8
<1>7. CASE /\ ~InTrash(r) /\ UNCHANGED <<simple, trash, old, meta>>
           /\ (faults' = faults /\ tombs[r] = NoShard) \/ faults' = faults + 1
  <2>1. \A c \in DOMAIN compound : Entries(c)' = Entries(c)
    BY <1>1, <1>7 DEF Entries
  <2>2. ASSUME NEW q \in Repos, q # r \/ tombs[r] = NoShard PROVE NewestOK(q)'
    <3>1. tombs'[q] = tombs[q]
      BY <1>2, <2>2
    <3> QED
      BY <1>1, <1>2, <1>7, <2>1, <2>2, <3>1, CleaningOthers
  <2>3. ASSUME faults' = faults + 1 PROVE NewestOK(r)'
    <3>1. OnePlace(r) => OnePlace(r)'
      BY <1>1, <1>7, <2>1, Unmoved
    <3> QED
      BY <1>1, <1>2, <2>3, <3>1 DEF NewestOK, NInv
  <2> QED
    BY <1>4, <1>7, <2>2, <2>3
<1> QED
  BY <1>5, <1>6, <1>7 DEF RestoreRepo, Failure

\* A repository that was in one place goes into the trash or gets a tombstone; others
\* that were with it in one shard go, too.
LEMMA DiscardNewest ==
  ASSUME NInv, NEW r \in Repos, Discard(r) PROVE ReadOK' /\ \A q \in Repos : NewestOK(q)'
<1>1. /\ phase = "discard" /\ r \in doomed
      /\ Advance({}, doomed \ {r}) /\ tombs' = tombs
      /\ UNCHANGED <<job, hurt, stale, emptied>>
  BY DEF Discard, history
<1>2. /\ IInv /\ Cleaning /\ faults \in Nat /\ todo = {} /\ todo' = {}
      /\ \A q \in Repos : InTrash(q) => ~InIndex(q)
  BY <1>1 DEF Cleaning, NInv, IInv, TypeOK, RestOK, CleaningOK, Advance
<1>3. \A j \in Jobs : ~Pends(j) /\ ~Pends(j)'
  BY <1>1, <1>2, CleaningJobs DEF Pends, IInv, LockOK
<1>4. ReadOK'
  BY <1>3 DEF ReadOK, Pends
<1>5. CASE /\ OnlyCompound(r) /\ meta' = Put(meta, FindCompound(r), Mark(Entries(FindCompound(r)), {r}, TRUE))
           /\ UNCHANGED <<compound, faults, simple, trash, old>>
  <2>1. PICK c : c = FindCompound(r)
    OBVIOUS
  <2>2. c \in DOMAIN compound /\ InIndex(r) /\ (\E m \in Alive(c) : m.repo = r) /\ TRUE \in BOOLEAN
    <3>1. CompoundsOf(r) # {}
      BY <1>5, FS_EmptySet DEF OnlyCompound
    <3> QED
      BY <2>1, <3>1 DEF FindCompound, CompoundsOf, InIndex
  <2>3. /\ \A d \in DOMAIN compound : \A m : m.repo # r => (m \in Entries(d)' <=> m \in Entries(d))
        /\ \A d \in DOMAIN compound : d # c => Entries(d)' = Entries(d)
        /\ \A m \in Entries(c)' : m.repo = r => m.dead
    <3>1. meta' = Put(meta, c, Mark(Entries(c), {r}, TRUE)) /\ compound' = compound
      BY <1>5, <2>1
    <3> QED
      BY <1>2, <2>2, <3>1, TombstoneMarks
  <2>4. ASSUME NEW q \in Repos, q # r PROVE NewestOK(q)'
    BY <1>1, <1>2, <1>5, <2>3, <2>4, CleaningOthers
  <2>5. ASSUME r \notin hurt PROVE OnePlace(r)' /\ ~InIndex(r)'
    <3>1. OnePlace(r)
      BY <1>2, <2>5 DEF NInv, NewestOK
    <3>2. \A d \in DOMAIN compound : \A m \in Alive(d)' : m.repo # r
      BY <2>2, <2>3, <3>1 DEF OnePlace, Alive
    <3>3. \A f \in Files : f[1] = r => simple'[f] = Absent
      BY <1>5, <2>2, <3>1 DEF OnePlace, SimpleOf
    <3> QED
      BY <1>5, <3>2, <3>3, WordsNext DEF OnePlace, IndexWords
  <2>6. ~InTrash(r)'
    BY <1>2, <1>5, <2>2, Words, WordsNext DEF IndexWords
  <2>7. NewestOK(r)'
    BY <1>1, <1>2, <1>3, <2>5, <2>6 DEF NewestOK, NewestIn
  <2> QED
    BY <1>4, <2>4, <2>7
<1>6. CASE /\ faults' = faults + 1 /\ UNCHANGED <<meta, simple, trash, old>>
           /\ \E d : compound' \in {compound, Only(compound, DOMAIN compound \ {d})}
  <2>1. \A c \in DOMAIN compound' : c \in DOMAIN compound /\ Alive(c)' = Alive(c)
    BY <1>6 DEF Alive, Entries, Only
  <2>2. ASSUME NEW q \in Repos, OnePlace(q) PROVE OnePlace(q)'
    BY <1>6, <2>1, <2>2, OnePlaceShrinks
  <2>3. \A q \in Repos : NewestOK(q)'
    BY <1>1, <1>2, <1>6, <2>2 DEF NewestOK, NInv
  <2> QED
    BY <1>4, <2>3
<1>7. CASE ~OnlyCompound(r) /\ \/ ToTrash(r, TRUE) /\ faults' = faults
                               \/ ToTrash(r, FALSE) /\ faults' = faults + 1
  <2>1. PICK ok \in BOOLEAN : ToTrash(r, ok) /\ faults' = IF ok THEN faults ELSE faults + 1
    BY <1>7
  <2>2. /\ \A f \in Files : simple'[f] = IF f[1] = r THEN Absent ELSE simple[f]
        /\ \A f \in Files : trash'[f] = IF ok /\ f[1] = r /\ InIndex(r) THEN simple[f] ELSE trash[f]
        /\ \A c : c \in DOMAIN compound' <=> c \in DOMAIN compound /\ \A m \in Alive(c) : m.repo # r
        /\ \A c \in DOMAIN compound' : Entries(c)' = Entries(c) /\ Alive(c)' = Alive(c)
    <3>1. \A c : Entries(c)' = Entries(c) => Alive(c)' = Alive(c)
      BY DEF Alive
    <3> QED
      BY <1>1, <1>2, <2>1, <3>1, ToTrashFacts
  <2>3. ASSUME NEW q \in Repos, OnePlace(q) PROVE OnePlace(q)'
    BY <2>2, <2>3, OnePlaceShrinks
  <2>4. ASSUME NEW q \in Repos, q # r, ok, OnePlace(q), NewestIn(q) PROVE NewestIn(q)'
    <3>1. \A f \in Files : f[1] = q => simple'[f] = simple[f] /\ trash'[f] = trash[f]
      BY <2>2, <2>4
    <3>2. OnDisk(q)' \subseteq OnDisk(q) /\ Served(q)' \subseteq Served(q)
      BY <2>2, <3>1, VWords, VWordsNext DEF VersionWords
    <3>3. CASE \A c \in DOMAIN compound : \A m \in Alive(c) : m.repo = q => c \in DOMAIN compound'
      <4>1. Served(q) \subseteq Served(q)'
        BY <2>2, <3>1, <3>3, VWords, VWordsNext DEF VersionWords
      <4>2. InIndex(q)' <=> InIndex(q)
        BY <3>2, <4>1, IndexServed, IndexServedNext
      <4> QED
        BY <1>2, <1>3, <2>4, <3>1, <3>2, <4>1, <4>2, NewestStays
    <3>4. CASE \E c \in DOMAIN compound : c \notin DOMAIN compound' /\ \E m \in Alive(c) : m.repo = q
      <4>1. PICK c \in DOMAIN compound : c \notin DOMAIN compound' /\ \E m \in Alive(c) : m.repo = q
        BY <3>4
      <4>2. InIndex(q) /\ ~InTrash(q)
        BY <1>2, <4>1, Words DEF IndexWords
      <4>3. \A d \in DOMAIN compound : \A m \in Alive(d) : m.repo = q => d = c
        BY <2>4, <4>1 DEF OnePlace
      <4>4. \A d \in DOMAIN compound' : \A m \in Alive(d)' : m.repo # q
        BY <2>2, <4>1, <4>3
      <4>5. \A f \in Files : f[1] = q => simple'[f] = Absent
        BY <2>4, <3>1, <4>1 DEF OnePlace, SimpleOf
      <4>6. ~InIndex(q)' /\ ~InTrash(q)'
        BY <3>1, <4>2, <4>4, <4>5, Words, WordsNext DEF IndexWords
      <4> QED
        BY <1>2, <1>3, <4>6 DEF NewestIn
    <3> QED
      BY <3>3, <3>4
  <2>5. ASSUME ok, OnePlace(r), NewestIn(r) PROVE NewestIn(r)'
    <3>1. ~InIndex(r)'
      <4>1. \A c \in DOMAIN compound' : \A m \in Alive(c)' : m.repo # r
        BY <2>2
      <4> QED
        BY <2>2, <4>1, WordsNext DEF IndexWords
    <3>2. ASSUME InTrash(r)' PROVE \E f \in SimpleOf(trash', r) : Newer(trash'[f], OnDisk(r)')
      <4>1. CASE InIndex(r)
        <5>1. \A f \in Files : f[1] = r => trash'[f] = simple[f]
          BY <2>2, <2>5, <4>1
        <5>2. PICK g \in Files : g[1] = r /\ simple[g] # Absent
          BY <3>2, <5>1, WordsNext DEF IndexWords
        <5>3. \A c \in DOMAIN compound : \A m \in Alive(c) : m.repo # r
          BY <2>5, <5>2 DEF OnePlace, SimpleOf
        <5>4. PICK w \in Served(r) : Newer(w, Served(r) \cup OnDisk(r))
          BY <2>5, <4>1 DEF NewestIn
        <5>5. PICK f \in Files : f[1] = r /\ simple[f] # Absent /\ simple[f] = w
          BY <5>3, <5>4, VWords DEF VersionWords
        <5>6. \A v \in OnDisk(r)' : v \in Served(r) \cup OnDisk(r)
          BY <2>2, <5>1, VWords, VWordsNext DEF VersionWords
        <5> QED
          BY <5>1, <5>4, <5>5, <5>6 DEF SimpleOf, Newer
      <4>2. CASE ~InIndex(r)
        <5>1. \A f \in Files : trash'[f] = trash[f]
          BY <2>2, <4>2
        <5>2. InTrash(r)
          BY <3>2, <5>1, Words, WordsNext DEF IndexWords
        <5>3. PICK f \in SimpleOf(trash, r) : Newer(trash[f], OnDisk(r))
          BY <2>5, <4>2, <5>2 DEF NewestIn
        <5>4. \A v \in OnDisk(r)' : v \in OnDisk(r)
          BY <2>2, <5>1, VWords, VWordsNext DEF VersionWords
        <5> QED
          BY <5>1, <5>3, <5>4 DEF SimpleOf, Newer
      <4> QED
        BY <4>1, <4>2
    <3> QED
      BY <1>2, <1>3, <3>1, <3>2 DEF NewestIn
  <2>6. ASSUME NEW q \in Repos PROVE NewestOK(q)'
    <3>1. q \notin hurt => OnePlace(q)
      BY <1>2 DEF NInv, NewestOK
    <3>2. ASSUME q \notin hurt \cup stale \cup emptied, faults' = 0 PROVE ok /\ NewestIn(q)
      BY <1>2, <2>1, <3>2 DEF NInv, NewestOK
    <3> QED
      BY <1>1, <2>3, <2>4, <2>5, <3>1, <3>2 DEF NewestOK
  <2> QED
    BY <1>4, <2>6
<1> QED
  BY <1>5, <1>6, <1>7 DEF Discard, Failure

\* Merging keeps what is searched and has documents, and loses versions that are not,
\* unless a .meta that stayed hides what was merged.
LEMMA MergeVersions ==
  ASSUME IInv, Exclusive, NEW fs, fs \subseteq SmallFiles, NEW cs, cs \subseteq DOMAIN compound,
         MergeInputs(fs, cs), UNCHANGED <<trash, hurt>>, NEW r \in Repos, r \notin hurt \cup stale'
  PROVE  /\ Served(r)' \subseteq Served(r) /\ OnDisk(r)' \subseteq Served(r) \cup OnDisk(r)
         /\ \A v \in Served(r) \ Served(r)' : ~Shape[r][v].docs
         /\ r \notin emptied' => Served(r)' = Served(r)
<1>1. PICK es : es = Merged(fs, cs)
  OBVIOUS
<1>2. PICK c0 : c0 = CompoundName(es)
  OBVIOUS
<1>3. MergeResult(fs, cs, es, c0)
  BY <1>1, <1>2, MergeInputsFacts
<1>4. \A n \in c0 : \E o \in es : NameOf(o) = n
  BY <1>2 DEF CompoundName
<1>5. \A c \in DOMAIN compound : Entries(c) \subseteq Entry /\ Lists(hurt, c, Entries(c))
  BY EntriesType, ListsEntries DEF IInv
<1>6. \A m \in es : m \in Entry
  BY <1>3 DEF MergeResult
<1>7. \A m \in Entry : m.repo = r /\ NameOf(m) \in c0 => \E o \in es : o.repo = r /\ NameOf(o) = NameOf(m)
  BY <1>4, <1>6, NameTells
<1>8. ASSUME NEW o \in es, o.repo = r
      PROVE  es # {} /\ c0 \in DOMAIN compound' /\ Entries(c0)' = es
  <2>1. /\ c0 \in DOMAIN compound' <=> (c0 \in DOMAIN compound /\ c0 \notin cs) \/ (es # {} /\ c0 = c0)
        /\ c0 \in DOMAIN compound' => compound'[c0] = IF es # {} /\ c0 = c0 THEN es ELSE compound[c0]
        /\ c0 \in DOMAIN meta' => \A m \in es : m.repo \in stale'
    BY <1>3 DEF MergeResult
  <2>2. es # {} /\ c0 \notin DOMAIN meta'
    BY <1>8, <2>1
  <2> QED
    BY <2>1, <2>2 DEF Entries
<1>9. \A o \in es : o.repo = r => o.ver \in Served(r)
  <2> SUFFICES ASSUME NEW o \in es, o.repo = r PROVE o.ver \in Served(r)
    OBVIOUS
  <2>1. CASE \E f \in fs : o.repo = f[1] /\ o.ver = simple[f]
    BY <2>1, SmallVersion, VersionFacts, VWords DEF VersionWords
  <2>2. CASE \E c \in cs : o \in Alive(c)
    BY <2>2, VWords DEF VersionWords
  <2> QED
    BY <1>3, <2>1, <2>2 DEF MergeResult
<1>10. ASSUME NEW c \in DOMAIN compound', NEW m \in Entries(c)', m.repo = r
       PROVE  m \in es \/ (c \in DOMAIN compound /\ m \in Entries(c))
  <2>1. CASE es # {} /\ c = c0
    <3>1. CASE c0 \in DOMAIN meta'
      <4>1. c0 \in DOMAIN meta /\ m \in meta[c0]
        BY <1>3, <1>10, <2>1, <3>1 DEF MergeResult, Entries
      <4>2. Lists(hurt, c0, meta[c0]) /\ m \in Entry
        BY <4>1 DEF IInv, ListsOK, TypeOK, DirOK, Stored
      <4>3. NameOf(m) \in c0
        BY <4>1, <4>2 DEF Lists, CompoundName
      <4>4. PICK o \in es : o.repo = r
        BY <1>7, <1>10, <4>2, <4>3
      <4> QED
        BY <1>8, <1>10, <2>1, <4>4
    <3>2. CASE c0 \notin DOMAIN meta'
      BY <1>3, <1>10, <2>1, <3>2 DEF MergeResult, Entries
    <3> QED
      BY <3>1, <3>2
  <2>2. CASE ~(es # {} /\ c = c0)
    BY <1>3, <1>10, <2>2 DEF MergeResult, Entries
  <2> QED
    BY <2>1, <2>2
<1>11. \A f \in Files : simple'[f] = IF f \in fs THEN Absent ELSE simple[f]
  BY <1>3, WithoutFacts DEF MergeResult, IInv, TypeOK, DirOK
<1>12. OnDisk(r)' \subseteq Served(r) \cup OnDisk(r)
  <2> SUFFICES ASSUME NEW v \in OnDisk(r)' PROVE v \in Served(r) \cup OnDisk(r)
    OBVIOUS
  <2>1. CASE \E f \in Files : f[1] = r /\ trash'[f] # Absent /\ trash'[f] = v
    BY <2>1, VWords DEF VersionWords
  <2>2. CASE \E c \in DOMAIN compound' : \E m \in Entries(c)' : m.repo = r /\ m.ver = v
    BY <1>9, <1>10, <2>2, VWords DEF VersionWords
  <2> QED
    BY <2>1, <2>2, VWordsNext DEF VersionWords
<1>13. Served(r)' \subseteq Served(r)
  <2> SUFFICES ASSUME NEW v \in Served(r)' PROVE v \in Served(r)
    OBVIOUS
  <2>1. CASE \E f \in Files : f[1] = r /\ simple'[f] # Absent /\ simple'[f] = v
    BY <1>11, <2>1, VWords DEF VersionWords
  <2>2. CASE \E c \in DOMAIN compound' : \E m \in Alive(c)' : m.repo = r /\ m.ver = v
    <3>1. PICK c \in DOMAIN compound' : \E m \in Alive(c)' : m.repo = r /\ m.ver = v
      BY <2>2
    <3>2. PICK m \in Alive(c)' : m.repo = r /\ m.ver = v
      BY <3>1
    <3>3. m \in Entries(c)' /\ ~m.dead
      BY <3>2 DEF Alive
    <3>4. CASE m \in es
      BY <1>9, <3>2, <3>4
    <3>5. CASE c \in DOMAIN compound /\ m \in Entries(c)
      <4>1. m \in Alive(c)
        BY <3>3, <3>5 DEF Alive
      <4> QED
        BY <3>2, <3>5, <4>1, VWords DEF VersionWords
    <3> QED
      BY <1>10, <3>2, <3>3, <3>4, <3>5
  <2> QED
    BY <2>1, <2>2, VWordsNext DEF VersionWords
<1>14. \A o \in es : o.repo = r /\ ~o.dead => o.ver \in Served(r)'
  <2> SUFFICES ASSUME NEW o \in es, o.repo = r, ~o.dead PROVE o.ver \in Served(r)'
    OBVIOUS
  <2>1. c0 \in DOMAIN compound' /\ o \in Alive(c0)'
    BY <1>8 DEF Alive
  <2> QED
    BY <2>1, VWordsNext DEF VersionWords
<1> DEFINE Goes(v) == ~Shape[r][v].docs /\ r \in emptied'
<1>16. \A m \in Inputs(fs, cs) : m.repo = r => m \in es \/ Goes(m.ver)
  <2>1. \A m \in Inputs(fs, cs) : m \in es <=> Shape[m.repo][m.ver].docs
    BY <1>1 DEF Merged, HasDocs
  <2>2. \A m \in Inputs(fs, cs) \ es : m.repo \in emptied'
    <3>1. emptied' = emptied \cup {m.repo : m \in Inputs(fs, cs) \ es}
      BY <1>3 DEF MergeResult
    <3> QED
      BY <3>1
  <2> QED
    BY <2>1, <2>2
<1> HIDE DEF Goes
<1>15. \A v \in Served(r) : v \in Served(r)' \/ Goes(v)
  <2> SUFFICES ASSUME NEW v \in Served(r) PROVE v \in Served(r)' \/ Goes(v)
    OBVIOUS
  <2>1. ASSUME NEW f \in Files, f[1] = r, simple[f] # Absent, simple[f] = v PROVE v \in Served(r)' \/ Goes(v)
    <3>1. CASE f \in fs
      <4> DEFINE o == [repo |-> f[1], ver |-> simple[f], dead |-> FALSE]
      <4>1. o \in Inputs(fs, cs)
        BY <3>1 DEF Inputs, EntryOf
      <4>2. o.repo = r /\ o.ver = v /\ ~o.dead
        BY <2>1
      <4> HIDE DEF o
      <4> QED
        BY <1>14, <1>16, <4>1, <4>2
    <3>2. CASE f \notin fs
      BY <1>11, <2>1, <3>2, VWordsNext DEF VersionWords
    <3> QED
      BY <3>1, <3>2
  <2>2. ASSUME NEW c \in DOMAIN compound, NEW m \in Alive(c), m.repo = r, m.ver = v PROVE v \in Served(r)' \/ Goes(v)
    <3>1. m \in Entries(c) /\ ~m.dead /\ m \in Entry
      BY <1>5 DEF Alive
    <3>2. CASE c \in cs
      <4>1. m \in Inputs(fs, cs)
        BY <3>2 DEF Inputs
      <4> QED
        BY <1>14, <1>16, <2>2, <3>1, <4>1
    <3>3. CASE c \notin cs
      <4>1. ~(es # {} /\ c = c0)
        <5>1. ASSUME c = c0 PROVE FALSE
          <6>1. NameOf(m) \in c0
            BY <1>5, <3>1, <5>1 DEF Lists, CompoundName
          <6>2. PICK o \in es : o.repo = r /\ NameOf(o) = NameOf(m)
            BY <1>7, <2>2, <3>1, <6>1
          <6> QED
            BY <1>3, <2>2, <3>3, <6>2 DEF MergeResult
        <5> QED
          BY <5>1
      <4>2. c \in DOMAIN compound' /\ Entries(c)' = Entries(c)
        BY <1>3, <3>3, <4>1 DEF MergeResult, Entries
      <4>3. m \in Alive(c)'
        BY <3>1, <4>2 DEF Alive
      <4> QED
        BY <2>2, <4>2, <4>3, VWordsNext DEF VersionWords
    <3> QED
      BY <3>2, <3>3
  <2>3. \/ \E f \in Files : f[1] = r /\ simple[f] # Absent /\ simple[f] = v
        \/ \E c \in DOMAIN compound : \E m \in Alive(c) : m.repo = r /\ m.ver = v
    BY VWords DEF VersionWords
  <2> QED
    BY <2>1, <2>2, <2>3
<1> QED
  BY <1>12, <1>13, <1>15 DEF Goes

\* A step under Global.
LEMMA ExclusiveNewest ==
  ASSUME NInv, Exclusive, UNCHANGED <<trash, cleanVars, job, hurt>>, stale \subseteq stale', emptied \subseteq emptied',
         \/ faults' = faults + 1
         \/ /\ faults' = faults
            /\ \A r \in Repos \ (hurt \cup stale' \cup emptied') :
                 /\ Served(r)' = Served(r)
                 /\ OnDisk(r)' \subseteq Served(r) \cup OnDisk(r)
  PROVE  ReadOK' /\ \A r \in Repos : NewestOK(r)'
<1>1. NoJobs /\ ~Cleaning' /\ faults \in Nat
  BY DEF Exclusive, Free, Cleaning, cleanVars, NInv, IInv, TypeOK, RestOK
<1>2. \A j \in Jobs : ~Pends(j)'
  BY <1>1, CleaningJobs DEF Pends, NInv
<1>3. ReadOK'
  BY <1>2 DEF ReadOK, Pends
<1>4. ASSUME NEW r \in Repos, NewestIn(r), Served(r)' = Served(r), OnDisk(r)' \subseteq Served(r) \cup OnDisk(r)
      PROVE  NewestIn(r)'
  <2>1. InIndex(r)' <=> InIndex(r)
    BY <1>4, IndexServed, IndexServedNext
  <2>2. InIndex(r) \/ OnDisk(r)' \subseteq OnDisk(r)
    BY <1>4, IndexServed
  <2> QED
    BY <1>1, <1>2, <1>4, <2>1, <2>2, NewestStays
<1>5. ASSUME NEW r \in Repos PROVE NewestOK(r)'
  <2>1. CASE faults' = faults + 1
    BY <1>1, <2>1 DEF NewestOK
  <2>2. CASE faults' = faults
    BY <1>1, <1>4, <2>2 DEF NewestOK, NInv
  <2> QED
    BY <2>1, <2>2
<1> QED
  BY <1>3, <1>5

LEMMA MergeInputsNewest ==
  ASSUME NInv, Exclusive, NEW fs, fs \subseteq SmallFiles, NEW cs, cs \subseteq DOMAIN compound,
         MergeInputs(fs, cs), faults' = faults, UNCHANGED <<trash, cleanVars, job, hurt>>
  PROVE  ReadOK' /\ \A r \in Repos : NewestOK(r)'
<1>1. \A r \in Repos \ (hurt \cup stale' \cup emptied') : /\ Served(r)' = Served(r)
                                                       /\ OnDisk(r)' \subseteq Served(r) \cup OnDisk(r)
  <2> SUFFICES ASSUME NEW r \in Repos, r \notin hurt \cup stale', r \notin emptied'
               PROVE  Served(r)' = Served(r) /\ OnDisk(r)' \subseteq Served(r) \cup OnDisk(r)
    OBVIOUS
  <2>1. IInv /\ UNCHANGED <<trash, hurt>>
    BY DEF NInv
  <2> QED
    BY <2>1, MergeVersions
<1>2. stale \subseteq stale' /\ emptied \subseteq emptied'
  BY DEF MergeInputs
<1> QED
  BY <1>1, <1>2, ExclusiveNewest

LEMMA MergeNewest ==
  ASSUME NInv, Merge PROVE ReadOK' /\ \A r \in Repos : NewestOK(r)'
<1>1. PICK fs \in SUBSET SmallFiles, cs \in SUBSET SmallCompounds :
        (MergeInputs(fs, cs) /\ faults' = faults) \/ MergeStops(fs, cs)
  BY DEF Merge
<1>2. Exclusive /\ UNCHANGED <<trash, cleanVars, job, hurt>>
  BY DEF Merge
<1>3. cs \subseteq DOMAIN compound
  BY DEF SmallCompounds
<1>4. CASE MergeInputs(fs, cs) /\ faults' = faults
  BY <1>2, <1>3, <1>4, MergeInputsNewest
<1>5. CASE MergeStops(fs, cs)
  BY <1>2, <1>5, ExclusiveNewest DEF MergeStops, Failure
<1> QED
  BY <1>1, <1>4, <1>5

LEMMA RemoveTombstonesNewest ==
  ASSUME NInv, NEW c \in DOMAIN compound, RemoveTombstones(c) PROVE ReadOK' /\ \A r \in Repos : NewestOK(r)'
<1>1. Exclusive /\ UNCHANGED <<trash, cleanVars, job, hurt>>
  BY DEF RemoveTombstones
<1>2. CASE MergeInputs({}, {c}) /\ faults' = faults
  BY <1>1, <1>2, MergeInputsNewest
<1>3. CASE Failure /\ UNCHANGED <<stale, emptied>>
  BY <1>1, <1>3, ExclusiveNewest DEF Failure
<1> QED
  BY <1>2, <1>3 DEF RemoveTombstones

\* Each new shard holds a version that was alive in the compound shard.
LEMMA ExplodeShrinks ==
  ASSUME IInv, NEW c \in DOMAIN compound, Explode(c), NEW r \in Repos
  PROVE  Served(r)' \subseteq Served(r) /\ OnDisk(r)' \subseteq OnDisk(r)
<1> DEFINE file(m) == <<m.repo, NameOf(m), 0>>
<1>1. PICK done \in SUBSET Alive(c) :
        simple' = [f \in Files |-> IF \E m \in done : f = file(m)
                                   THEN (CHOOSE m \in done : f = file(m)).ver ELSE simple[f]]
  BY DEF Explode
<1>2. /\ trash' = trash
      /\ compound' = Only(compound, DOMAIN compound \ {c}) /\ meta' = Only(meta, DOMAIN meta \ {c})
  BY DEF Explode
<1>3. \A f \in Files : (\E m \in Alive(c) : f = file(m) /\ simple'[f] = m.ver) \/ simple'[f] = simple[f]
  <2> SUFFICES ASSUME NEW f \in Files
               PROVE  (\E m \in Alive(c) : f = file(m) /\ simple'[f] = m.ver) \/ simple'[f] = simple[f]
    OBVIOUS
  <2>1. CASE \E m \in done : f = file(m)
    <3> DEFINE o == CHOOSE m \in done : f = file(m)
    <3>1. o \in done /\ f = file(o)
      BY <2>1
    <3>2. simple'[f] = o.ver
      BY <1>1, <2>1
    <3> QED
      BY <3>1, <3>2
  <2>2. CASE ~\E m \in done : f = file(m)
    BY <1>1, <2>2
  <2> QED
    BY <2>1, <2>2
<1>4. \A d \in DOMAIN compound' : d \in DOMAIN compound /\ Entries(d)' = Entries(d) /\ Alive(d)' = Alive(d)
  BY <1>2 DEF Entries, Alive, Only
<1>5. ASSUME NEW v \in Served(r)' PROVE v \in Served(r)
  <2>1. ASSUME NEW f \in Files, f[1] = r, simple'[f] # Absent, simple'[f] = v PROVE v \in Served(r)
    <3>1. CASE simple'[f] = simple[f]
      BY <2>1, <3>1, VWords DEF VersionWords
    <3>2. CASE \E m \in Alive(c) : f = file(m) /\ simple'[f] = m.ver
      <4>1. PICK m \in Alive(c) : f = file(m) /\ simple'[f] = m.ver
        BY <3>2
      <4>2. m.repo = r
        BY <2>1, <4>1
      <4> QED
        BY <2>1, <4>1, <4>2, VWords DEF VersionWords
    <3> QED
      BY <1>3, <3>1, <3>2
  <2>2. ASSUME NEW d \in DOMAIN compound', NEW m \in Alive(d)', m.repo = r, m.ver = v PROVE v \in Served(r)
    BY <1>4, <2>2, VWords DEF VersionWords
  <2> QED
    BY <1>5, <2>1, <2>2, VWordsNext DEF VersionWords
<1>6. ASSUME NEW v \in OnDisk(r)' PROVE v \in OnDisk(r)
  <2>1. trash' = trash
    BY <1>2
  <2> QED
    BY <1>4, <1>6, <2>1, VWords, VWordsNext DEF VersionWords
<1> QED
  BY <1>5, <1>6

\* If all of them are written, what was searched and has documents still is.
LEMMA ExplodeVersions ==
  ASSUME IInv, NEW c \in DOMAIN compound, Explode(c), faults' = faults, NEW r \in Repos \ hurt
  PROVE  /\ \A v \in Served(r) \ Served(r)' : ~Shape[r][v].docs
         /\ r \notin emptied' => Served(r)' = Served(r)
<1> DEFINE file(m) == <<m.repo, NameOf(m), 0>>
           all == {m \in Alive(c) : HasDocs(m)}
<1>1. /\ simple' = [f \in Files |-> IF \E m \in all : f = file(m)
                                    THEN (CHOOSE m \in all : f = file(m)).ver ELSE simple[f]]
      /\ emptied' = emptied \cup {m.repo : m \in Alive(c) \ all}
  BY DEF Explode, Failure, IInv, TypeOK, RestOK
<1>7. all \subseteq Alive(c) /\ \A m \in Alive(c) : m \in all <=> Shape[m.repo][m.ver].docs
  BY DEF HasDocs
<1> HIDE DEF all
<1>2. /\ NoJobs
      /\ compound' = Only(compound, DOMAIN compound \ {c}) /\ meta' = Only(meta, DOMAIN meta \ {c})
  BY DEF Explode, Exclusive, Free
<1>3. \A m \in Alive(c) : /\ m \in Entries(c) /\ m.repo \in Repos /\ m.ver \in Versions
                          /\ NameOf(m) \in NamesOf(m.repo) /\ NameOf(m) \in Names
  BY AliveType, EntryFacts DEF IInv, Alive
<1>4. /\ \A d : d \in DOMAIN compound' <=> d \in DOMAIN compound /\ d # c
      /\ \A d \in DOMAIN compound' : Alive(d)' = Alive(d)
  BY <1>2 DEF Entries, Alive, Only
<1>5. ASSUME NEW m \in all, m.repo = r
      PROVE  file(m) \in Files /\ simple'[file(m)] = m.ver /\ simple[file(m)] = Absent
  <2>1. file(m) \in Files /\ file(m)[1] = m.repo /\ file(m)[2] = NameOf(m)
    BY <1>3, <1>5, <1>7, FileFacts, VersionFacts
  <2> DEFINE o == CHOOSE n \in all : file(m) = file(n)
  <2>2. o \in all /\ file(m) = file(o)
    BY <1>5
  <2>3. simple'[file(m)] = o.ver
    BY <1>1, <1>5, <2>1
  <2> HIDE DEF o
  <2>4. o = m
    BY <1>3, <1>5, <1>7, <2>2, ListsEntries DEF Lists
  <2>5. simple[file(m)] = Absent
    BY <1>2, <1>5, <1>7, <2>1, NoneApart
  <2> QED
    BY <2>1, <2>3, <2>4, <2>5
<1> DEFINE Goes(v) == ~Shape[r][v].docs /\ r \in emptied'
<1>6. ASSUME NEW v \in Served(r) PROVE v \in Served(r)' \/ Goes(v)
  <2>1. ASSUME NEW f \in Files, f[1] = r, simple[f] # Absent, simple[f] = v PROVE v \in Served(r)'
    <3>1. \A m \in all : f # file(m)
      <4> SUFFICES ASSUME NEW m \in all, f = file(m) PROVE FALSE
        OBVIOUS
      <4>1. m.repo = r
        BY <2>1
      <4> QED
        BY <1>5, <2>1, <4>1
    <3>2. simple'[f] = simple[f]
      BY <1>1, <3>1
    <3> QED
      BY <2>1, <3>2, VWordsNext DEF VersionWords
  <2>2. ASSUME NEW d \in DOMAIN compound, NEW m \in Alive(d), m.repo = r, m.ver = v PROVE v \in Served(r)' \/ Goes(v)
    <3>1. CASE d # c
      BY <1>4, <2>2, <3>1, VWordsNext DEF VersionWords
    <3>3. CASE d = c /\ m \notin all
      BY <1>1, <1>7, <2>2, <3>3
    <3>2. CASE d = c /\ m \in all
      <4>1. file(m) \in Files /\ simple'[file(m)] = v
        BY <1>5, <2>2, <3>2
      <4>2. file(m)[1] = r /\ v # Absent
        BY <1>3, <2>2, <3>2, VersionFacts
      <4> QED
        BY <4>1, <4>2, VWordsNext DEF VersionWords
    <3> QED
      BY <3>1, <3>2, <3>3
  <2>3. \/ \E f \in Files : f[1] = r /\ simple[f] # Absent /\ simple[f] = v
        \/ \E d \in DOMAIN compound : \E m \in Alive(d) : m.repo = r /\ m.ver = v
    BY <1>6, VWords DEF VersionWords
  <2> QED
    BY <2>1, <2>2, <2>3
<1> QED
  BY <1>6, ExplodeShrinks

LEMMA ExplodeNewest ==
  ASSUME NInv, NEW c \in DOMAIN compound, Explode(c) PROVE ReadOK' /\ \A r \in Repos : NewestOK(r)'
<1>1. /\ Exclusive /\ UNCHANGED <<trash, cleanVars, job, hurt, stale>> /\ emptied \subseteq emptied'
      /\ faults' = faults \/ faults' = faults + 1
  BY DEF Explode, Failure
<1>2. CASE faults' = faults + 1
  BY <1>1, <1>2, ExclusiveNewest
<1>3. CASE faults' = faults
  <2>1. \A r \in Repos \ (hurt \cup emptied') : Served(r)' = Served(r) /\ OnDisk(r)' \subseteq OnDisk(r)
    BY <1>3, ExplodeShrinks, ExplodeVersions DEF NInv
  <2> QED
    BY <1>1, <1>3, <2>1, ExclusiveNewest
<1> QED
  BY <1>1, <1>2, <1>3

LEMMA NextNewest == NInv /\ [Next]_vars => NInv'
<1> SUFFICES ASSUME NInv, [Next]_vars PROVE NInv'
  OBVIOUS
<1>1. IInv'
  BY NextKeeps DEF NInv
<1>2. ReadOK' /\ \A r \in Repos : NewestOK(r)'
  <2>1. CASE SyncList
    BY <2>1, SyncListNewest
  <2>2. CASE StartCleanup
    BY <2>2, StartCleanupNewest
  <2>3. CASE Cleanup
    BY <2>3, RestoreRepoNewest, DiscardNewest DEF Cleanup
  <2>4. CASE Merge
    BY <2>4, MergeNewest
  <2>5. CASE Vacuum
    BY <2>5, RemoveTombstonesNewest, ExplodeNewest DEF Vacuum
  <2>6. CASE Crash
    BY <2>6, CrashNewest
  <2>7. ASSUME NEW r \in Repos, Change(r) \/ Age(r) \/ CrashMoving(r) PROVE ReadOK' /\ \A q \in Repos : NewestOK(q)'
    BY <2>7, SameJobNewest, CrashMovingNewest
  <2>8. ASSUME NEW j \in Jobs, JobStep(j) PROVE ReadOK' /\ \A q \in Repos : NewestOK(q)'
    BY <2>8, PublishNewest, ReadMetaNewest, WriteMetaNewest DEF JobStep
  <2>9. ASSUME NEW j \in Jobs, StartJob(j) \/ JobFails(j) \/ \E r \in Repos : Pop(j, r)
        PROVE  ReadOK' /\ \A q \in Repos : NewestOK(q)'
    BY <2>9, JobNewest
  <2>10. CASE UNCHANGED vars
    BY <2>10, SameJobNewest
  <2> QED
    BY <2>1, <2>2, <2>3, <2>4, <2>5, <2>6, <2>7, <2>8, <2>9, <2>10 DEF Next
<1> QED
  BY <1>1, <1>2 DEF NInv

LEMMA NewestInvariant == Spec => []NInv
  BY InitNewest, NextNewest, PTL DEF Spec

-----------------------------------------------------------------------------
(* What cleanup restores, and what it keeps.                               *)

\* RestoreRepo touches one repository, and what it restores is all that was there.
LEMMA RestoreRepoMoves ==
  ASSUME IInv, NEW r \in Repos, RestoreRepo(r)
  PROVE  /\ \A q \in Repos \ {r} : InIndex(q)' <=> InIndex(q)
         /\ \/ InIndex(r)' <=> InIndex(r)
            \/ faults' = faults /\ ~InIndex(r) /\ OnDisk(r) \subseteq Served(r)' \cup OnDisk(r)'
<1>1. phase = "restore" /\ r \in todo /\ Cleaning /\ compound' = compound
  BY DEF RestoreRepo, Cleaning
<1>2. CASE InTrash(r) /\ UNCHANGED meta /\ \/ FromTrash(r, TRUE) /\ faults' = faults
                                           \/ FromTrash(r, FALSE)
  <2>1. PICK ok \in BOOLEAN : FromTrash(r, ok) /\ (ok => faults' = faults)
    BY <1>2
  <2>2. /\ ~InIndex(r)
        /\ \A f \in Files : trash'[f] = IF f[1] = r THEN Absent ELSE trash[f]
        /\ \A f \in Files : simple'[f] = IF ok /\ f[1] = r THEN trash[f] ELSE simple[f]
        /\ \A c \in DOMAIN compound : Entries(c)' = Entries(c) /\ Alive(c)' = Alive(c)
    BY <1>1, <1>2, <2>1, FromTrashFacts
  <2>3. ASSUME NEW q \in Repos, q # r \/ ~ok PROVE InIndex(q)' <=> InIndex(q)
    <3>1. \A f \in Files : f[1] = q => simple'[f] = simple[f]
      BY <2>2, <2>3
    <3> QED
      BY <1>1, <2>2, <3>1, Words, WordsNext DEF IndexWords
  <2>4. ASSUME ok, NEW v \in OnDisk(r) PROVE v \in Served(r)' \cup OnDisk(r)'
    BY <1>1, <2>2, <2>4, VWords, VWordsNext DEF VersionWords
  <2> QED
    BY <2>1, <2>2, <2>3, <2>4
<1>3. CASE /\ ~InTrash(r) /\ tombs[r] # NoShard /\ UNCHANGED <<simple, trash, old>>
           /\ meta' = Put(meta, tombs[r], Mark(Entries(tombs[r]), {r}, FALSE)) /\ faults' = faults
  <2>1. PICK c : c = tombs[r]
    OBVIOUS
  <2>2. c \in DOMAIN compound /\ ~InIndex(r) /\ FALSE \in BOOLEAN
    BY <1>1, <1>3, <2>1 DEF IInv, CleaningOK
  <2>3. /\ \A d \in DOMAIN compound : \A m : m.repo # r => (m \in Entries(d)' <=> m \in Entries(d))
        /\ \A d \in DOMAIN compound : d # c => Entries(d)' = Entries(d)
        /\ \A o \in Entries(c) : o.repo = r => \E m \in Entries(c)' : m.repo = r /\ m.ver = o.ver /\ ~m.dead
    <3>1. meta' = Put(meta, c, Mark(Entries(c), {r}, FALSE)) /\ compound' = compound
      BY <1>1, <1>3, <2>1
    <3> QED
      BY <2>2, <3>1, TombstoneMarks
  <2>4. ASSUME NEW q \in Repos, q # r PROVE InIndex(q)' <=> InIndex(q)
    BY <1>1, <1>3, <2>3, <2>4, Unmoved
  <2>5. ASSUME NEW v \in OnDisk(r) PROVE v \in OnDisk(r)'
    <3>1. ASSUME NEW d \in DOMAIN compound, NEW o \in Entries(d), o.repo = r, o.ver = v
          PROVE  \E m \in Entries(d)' : m.repo = r /\ m.ver = v
      BY <2>3, <3>1
    <3> QED
      BY <1>1, <1>3, <2>5, <3>1, VWords, VWordsNext DEF VersionWords
  <2> QED
    BY <1>3, <2>2, <2>4, <2>5
<1>4. CASE ~InTrash(r) /\ UNCHANGED <<simple, trash, old, meta>>
  <2>1. \A c \in DOMAIN compound : Entries(c)' = Entries(c)
    BY <1>1, <1>4 DEF Entries
  <2>2. \A q \in Repos : InIndex(q)' <=> InIndex(q)
    BY <1>1, <1>4, <2>1, Unmoved
  <2> QED
    BY <2>2
<1> QED
  BY <1>2, <1>3, <1>4 DEF RestoreRepo

\* Discard brings nothing into the index, and takes one repository if that is in one place.
LEMMA DiscardMoves ==
  ASSUME IInv, NEW r \in Repos, Discard(r)
  PROVE  /\ \A q \in Repos : InIndex(q)' => InIndex(q)
         /\ r \notin hurt /\ faults' = faults => \A q \in Repos \ {r} : InIndex(q)' <=> InIndex(q)
<1>1. phase = "discard" /\ r \in doomed /\ Cleaning
  BY DEF Discard, Cleaning
<1>2. CASE /\ OnlyCompound(r) /\ meta' = Put(meta, FindCompound(r), Mark(Entries(FindCompound(r)), {r}, TRUE))
           /\ UNCHANGED <<compound, simple, trash>>
  <2>1. PICK c : c = FindCompound(r)
    OBVIOUS
  <2>2. c \in DOMAIN compound /\ InIndex(r) /\ TRUE \in BOOLEAN
    <3>1. CompoundsOf(r) # {}
      BY <1>2, FS_EmptySet DEF OnlyCompound
    <3> QED
      BY <2>1, <3>1 DEF FindCompound, CompoundsOf, InIndex
  <2>3. /\ \A d \in DOMAIN compound : \A m : m.repo # r => (m \in Entries(d)' <=> m \in Entries(d))
    <3>1. meta' = Put(meta, c, Mark(Entries(c), {r}, TRUE)) /\ compound' = compound
      BY <1>2, <2>1
    <3> QED
      BY <2>2, <3>1, TombstoneMarks
  <2>4. ASSUME NEW q \in Repos, q # r PROVE InIndex(q)' <=> InIndex(q)
    BY <1>2, <2>3, <2>4, Unmoved
  <2> QED
    BY <2>2, <2>4
<1>3. CASE /\ faults' = faults + 1 /\ UNCHANGED <<meta, simple, trash>>
           /\ \E d : compound' \in {compound, Only(compound, DOMAIN compound \ {d})}
  <2>1. \A c \in DOMAIN compound' : c \in DOMAIN compound /\ Alive(c)' = Alive(c)
    BY <1>3 DEF Alive, Entries, Only
  <2>2. \A q \in Repos : InIndex(q)' => InIndex(q)
    BY <1>3, <2>1, OthersStay
  <2>3. faults' # faults
    BY <1>3 DEF IInv, TypeOK, RestOK
  <2> QED
    BY <2>2, <2>3
<1>4. CASE ~OnlyCompound(r) /\ \E ok \in BOOLEAN : ToTrash(r, ok)
  <2>1. PICK ok \in BOOLEAN : ToTrash(r, ok)
    BY <1>4
  <2>2. /\ \A f \in Files : simple'[f] = IF f[1] = r THEN Absent ELSE simple[f]
        /\ \A f \in Files : f[1] # r => trash'[f] = trash[f]
        /\ \A c : c \in DOMAIN compound' <=> c \in DOMAIN compound /\ \A m \in Alive(c) : m.repo # r
        /\ \A c \in DOMAIN compound' : Entries(c)' = Entries(c) /\ Alive(c)' = Alive(c)
    <3>1. \A c : Entries(c)' = Entries(c) => Alive(c)' = Alive(c)
      BY DEF Alive
    <3> QED
      BY <1>1, <2>1, <3>1, ToTrashFacts
  <2>3. \A q \in Repos : InIndex(q)' => InIndex(q)
    BY <2>2, Words, WordsNext DEF IndexWords
  <2>4. ASSUME r \notin hurt, NEW q \in Repos, q # r PROVE InIndex(q)' <=> InIndex(q)
    <3>1. OnePlace(r)
      BY <1>1, <2>4, OneNamePlace DEF IInv, CleaningOK, LockOK
    <3>2. CompoundsOf(r) = {}
      <4> SUFFICES ASSUME NEW c \in CompoundsOf(r) PROVE FALSE
        OBVIOUS
      <4>1. c \in DOMAIN compound /\ \E m \in Alive(c) : m.repo = r
        BY DEF CompoundsOf
      <4>2. SimpleOf(simple, r) = {} /\ CompoundsOf(r) = {c}
        BY <3>1, <4>1 DEF OnePlace, CompoundsOf
      <4>3. Cardinality({c}) = 1
        BY FS_Singleton
      <4> QED
        BY <1>4, <4>2, <4>3 DEF OnlyCompound
    <3>3. \A c : c \in DOMAIN compound' <=> c \in DOMAIN compound
      BY <2>2, <3>2 DEF CompoundsOf
    <3>4. \A f \in Files : f[1] = q => simple'[f] = simple[f] /\ trash'[f] = trash[f]
      BY <2>2, <2>4
    <3> QED
      BY <2>2, <2>4, <3>3, <3>4, Unmoved
  <2> QED
    BY <2>3, <2>4
<1> QED
  BY <1>2, <1>3, <1>4 DEF Discard, Failure

\* The steps that change the directory while cleanup runs.
LEMMA CleaningSteps ==
  ASSUME IInv, Cleaning, [Next]_vars
  PROVE  \/ \E r \in Repos : RestoreRepo(r) \/ Discard(r) \/ CrashMoving(r)
         \/ UNCHANGED <<simple, trash, compound, meta>>
<1>1. NoJobs /\ phase \notin {"idle", "listed"}
  BY DEF IInv, LockOK, Cleaning
<1>2. ~SyncList /\ ~StartCleanup
  BY <1>1 DEF SyncList, StartCleanup
<1>3. ~Merge /\ ~Vacuum
  BY DEF Merge, Vacuum, RemoveTombstones, Explode, Exclusive, Free
<1>4. \A j \in Jobs : ~JobStep(j) /\ ~JobFails(j)
  BY <1>1 DEF JobStep, JobFails, Publish, ReadMeta, WriteMeta, NoJobs, Running
<1>5. CASE UNCHANGED vars \/ Crash \/ (\E r \in Repos : Change(r) \/ Age(r))
           \/ (\E j \in Jobs : StartJob(j) \/ \E r \in Repos : Pop(j, r))
  BY <1>5 DEF vars, dirVars, Crash, Change, Age, StartJob, Pop
<1> QED
  BY <1>2, <1>3, <1>4, <1>5 DEF Next, Cleanup

\* A crash while r comes out of the trash leaves the first shard of the newest version.
LEMMA CrashRestores ==
  ASSUME NInv, NEW r \in Repos \ (hurt \cup stale \cup emptied), NEW q \in Repos, CrashMoving(q), faults = 0, Cleaning,
         ~InIndex(r), InIndex(r)'
  PROVE  \A v \in OnDisk(r) : \E w \in Served(r)' : w >= v
<1> DEFINE first(dir) == {f \in SimpleOf(dir, q) : \A g \in SimpleOf(dir, q) : f[3] <= g[3]}
<1>1. compound' = compound /\ meta' = meta
  BY DEF CrashMoving
<1>2. \A c \in DOMAIN compound : Alive(c)' = Alive(c)
  BY <1>1 DEF Alive, Entries
<1>3. PICK h \in Files : h[1] = r /\ simple'[h] # Absent
  BY <1>1, <1>2, Words, WordsNext DEF IndexWords
<1>4. simple[h] = Absent
  BY <1>3, Words DEF IndexWords
<1>5. /\ simple' = [f \in Files |-> IF f \in first(trash) THEN trash[f] ELSE simple[f]]
      /\ h \in first(trash)
  <2>1. ~(simple' = Without(simple, first(simple)))
    <3> SUFFICES ASSUME simple' = Without(simple, first(simple)) PROVE FALSE
      OBVIOUS
    <3>1. PICK fs : fs = first(simple)
      OBVIOUS
    <3>2. simple'[h] = IF h \in fs THEN Absent ELSE simple[h]
      BY <3>1 DEF Without
    <3> QED
      BY <1>3, <1>4, <3>2
  <2>2. simple' = [f \in Files |-> IF f \in first(trash) THEN trash[f] ELSE simple[f]]
    BY <2>1 DEF CrashMoving
  <2> HIDE DEF first
  <2> QED
    BY <1>3, <1>4, <2>2
<1>6. q = r /\ trash[h] # Absent
  BY <1>3, <1>5 DEF SimpleOf
<1>7. InTrash(r) /\ NewestIn(r)
  BY <1>3, <1>6, Words DEF IndexWords, NInv, NewestOK
<1>8. PICK f \in SimpleOf(trash, r) : Newer(trash[f], OnDisk(r))
  BY <1>7 DEF NewestIn
<1>9. f \in Files /\ f[1] = r /\ trash[f] # Absent /\ f[2] \in NamesOf(r) /\ f[3] \in Parts /\ f = <<r, f[2], f[3]>>
  BY <1>8, FileFacts DEF SimpleOf
<1> DEFINE g == <<r, f[2], 0>>
<1>10. g \in Files /\ g[1] = r /\ g[3] = 0
  BY <1>9, FileFacts, VersionFacts
<1>11. trash[g] = trash[f]
  <2>1. Whole(trash, r, f[2])
    BY <1>9 DEF NInv, IInv, FilesOK
  <2>2. Parts = {0, 1} /\ \A v \in Versions : Shape[r][v].parts \in {1, 2} /\ v # Absent
    BY VersionFacts
  <2>3. PICK v \in Versions : \A p \in Parts : trash[<<r, f[2], p>>] = IF p < Shape[r][v].parts THEN v ELSE Absent
    BY <1>9, <2>1 DEF Whole
  <2>4. trash[f] = v
    BY <1>9, <2>3
  <2>5. trash[g] = v
    BY <2>2, <2>3
  <2> QED
    BY <2>4, <2>5
<1> HIDE DEF g
<1>12. g \in first(trash)
  <2>1. \A e \in Files : e[3] \in {0, 1}
    BY FileFacts, VersionFacts
  <2> QED
    BY <1>6, <1>9, <1>10, <1>11, <2>1 DEF SimpleOf
<1> HIDE DEF first
<1>13. trash[f] \in Served(r)'
  <2>1. simple'[g] = trash[f] /\ trash[f] # Absent
    BY <1>5, <1>9, <1>10, <1>11, <1>12
  <2> QED
    BY <1>10, <2>1, VWordsNext DEF VersionWords
<1> QED
  BY <1>8, <1>13 DEF Newer

\* What cleanup restores is the newest version the directory has.
LEMMA Restores ==
  ASSUME NInv, NInv', [Next]_vars, NEW r \in Repos \ (hurt \cup stale \cup emptied), Cleaning, faults = 0, ~InIndex(r), InIndex(r)'
  PROVE  \A v \in OnDisk(r) : \E w \in Served(r)' : w >= v
<1>1. CASE \E q \in Repos : RestoreRepo(q)
  <2>1. PICK q \in Repos : RestoreRepo(q)
    BY <1>1
  <2>2. q = r /\ faults' = faults /\ OnDisk(r) \subseteq Served(r)' \cup OnDisk(r)'
    BY <2>1, RestoreRepoMoves DEF NInv
  <2>3. hurt' = hurt /\ stale' = stale /\ emptied' = emptied
    BY <2>1 DEF RestoreRepo, history
  <2>4. NewestIn(r)'
    BY <2>2, <2>3 DEF NInv, NewestOK
  <2> QED
    BY <2>2, <2>4 DEF NewestIn, Newer
<1>2. CASE \E q \in Repos : Discard(q)
  BY <1>2, DiscardMoves DEF NInv
<1>3. CASE \E q \in Repos : CrashMoving(q)
  BY <1>3, CrashRestores
<1>4. CASE UNCHANGED <<simple, trash, compound, meta>>
  <2>1. \A c \in DOMAIN compound : Entries(c)' = Entries(c)
    BY <1>4 DEF Entries
  <2> QED
    BY <1>4, <2>1, Unmoved
<1> QED
  BY <1>1, <1>2, <1>3, <1>4, CleaningSteps DEF NInv

\* What is listed, and was in the index under one name, stays in the index.
LEMMA Keeps ==
  ASSUME NInv, [Next]_vars, phase # "idle", phase' # "listed", faults' = faults, hurt = {},
         NEW r \in list, InIndex(r), Cardinality(NamesInIndex(r)) = 1
  PROVE  InIndex(r)'
<1>1. IInv /\ r \in Repos /\ faults \in Nat
  BY DEF NInv, IInv, TypeOK, LoopOK, RestOK
<1>2. CASE phase = "listed"
  <2>1. StartCleanup
    <3>1. ~Crash /\ \A q \in Repos : ~CrashMoving(q)
      BY <1>1 DEF Crash, CrashMoving, Restart, Failure
    <3>2. ~SyncList /\ \A q \in Repos : ~RestoreRepo(q) /\ ~Discard(q)
      BY <1>2 DEF SyncList, RestoreRepo, Discard
    <3>3. ~Merge /\ ~Vacuum
      BY <1>2 DEF Merge, Vacuum, RemoveTombstones, Explode, cleanVars
    <3>4. \A q \in Repos : ~Change(q) /\ ~Age(q)
      BY <1>2 DEF Change, Age, cleanVars
    <3>5. \A j \in Jobs : ~StartJob(j) /\ ~JobFails(j) /\ ~JobStep(j) /\ \A q \in Repos : ~Pop(j, q)
      BY <1>2 DEF StartJob, JobFails, JobStep, Publish, ReadMeta, WriteMeta, Pop, cleanVars
    <3>6. ~UNCHANGED vars
      BY <1>2 DEF vars, cleanVars
    <3> QED
      BY <3>1, <3>2, <3>3, <3>4, <3>5, <3>6 DEF Next, Cleanup
  <2>2. r \notin TwoNamed
    BY DEF TwoNamed
  <2>3. /\ \A f \in Files : f[1] = r => simple'[f] = simple[f]
        /\ compound' = compound
        /\ \A c \in DOMAIN compound : \A m : m.repo = r => (m \in Alive(c)' <=> m \in Alive(c))
    BY <1>1, <2>1, <2>2, StartCleanupFacts
  <2> QED
    BY <1>1, <2>3, Words, WordsNext DEF IndexWords
<1>3. CASE phase # "listed"
  <2>1. Cleaning
    BY <1>3 DEF Cleaning
  <2>2. CASE \E q \in Repos : RestoreRepo(q)
    <3>1. PICK q \in Repos : RestoreRepo(q)
      BY <2>2
    <3> QED
      BY <1>1, <3>1, RestoreRepoMoves
  <2>3. CASE \E q \in Repos : Discard(q)
    <3>1. PICK q \in Repos : Discard(q)
      BY <2>3
    <3>2. phase = "discard" /\ q \in doomed
      BY <3>1 DEF Discard
    <3>3. q # r
      BY <1>1, <2>1, <3>2 DEF IInv, CleaningOK
    <3> QED
      BY <1>1, <3>1, <3>3, DiscardMoves
  <2>4. CASE \E q \in Repos : CrashMoving(q)
    BY <1>1, <2>4 DEF CrashMoving, Restart, Failure
  <2>5. CASE UNCHANGED <<simple, trash, compound, meta>>
    <3>1. \A c \in DOMAIN compound : Entries(c)' = Entries(c)
      BY <2>5 DEF Entries
    <3> QED
      BY <1>1, <2>5, <3>1, Unmoved
  <2> QED
    BY <1>1, <2>1, <2>2, <2>3, <2>4, <2>5, CleaningSteps
<1> QED
  BY <1>2, <1>3

\* cleanup neither brings back an older version than the directory has nor takes away
\* what is listed, unless a fault came before it.
THEOREM CleanupSafeCorrect == Spec => CleanupSafe
<1>1. NInv /\ NInv' /\ [Next]_vars =>
        [\A r \in Repos \ (hurt \cup stale \cup emptied) :
           Cleaning /\ faults = 0 /\ ~InIndex(r) /\ InIndex(r)' =>
             \A v \in OnDisk(r) : \E w \in Served(r)' : w >= v]_vars
  BY Restores
<1>2. NInv /\ [Next]_vars =>
        [(phase # "idle" /\ phase' # "listed") /\ faults' = faults /\ hurt = {} =>
           \A r \in list : InIndex(r) /\ Cardinality(NamesInIndex(r)) = 1 => InIndex(r)']_vars
  BY Keeps
<1>3. Spec => RestoresNewest
  BY <1>1, NewestInvariant, PTL DEF Spec, RestoresNewest
<1>4. Spec => KeepsListed
  BY <1>2, NewestInvariant, PTL DEF Spec, KeepsListed
<1> QED
  BY <1>3, <1>4 DEF CleanupSafe

-----------------------------------------------------------------------------
(* What users see: IndexDir implements ServedIndex.                        *)

\* Nothing is made up of r, and the repositories that are not lost stay as they are.
KnownOf(r) == Served(r)' \cup OnDisk(r)' \subseteq Served(r) \cup OnDisk(r)
Others(R) == \A r \in Repos \ (R \cup hurt' \cup stale') : Served(r)' = Served(r) /\ KnownOf(r)

LEMMA SeenWords ==
  /\ \A r \in Repos : Seen!Known(r) <=> KnownOf(r)
  /\ \A R : Seen!OthersStay(R) <=> Others(R)
<1>1. \A r \in Repos : Seen!Known(r) <=> KnownOf(r)
  BY DEF Seen!Known, KnownOf
<1>2. ASSUME NEW R PROVE Seen!OthersStay(R) <=> Others(R)
  BY <1>1 DEF Seen!OthersStay, Others
<1> QED
  BY <1>1, <1>2

\* The files stay as they are.
LEMMA FilesStay ==
  ASSUME UNCHANGED <<simple, trash, compound, meta>>
  PROVE  \A r \in Repos : Served(r)' = Served(r) /\ OnDisk(r)' = OnDisk(r)
<1>1. \A c \in DOMAIN compound : Entries(c)' = Entries(c)
  BY DEF Entries
<1> QED
  BY <1>1, Unmoved

LEMMA PublishSeen ==
  ASSUME NInv, NEW j \in Jobs, Publish(j) PROVE Seen!Index(job[j].repo, job[j].ver)
<1>1. PICK q : q = job[j].repo
  OBVIOUS
<1>2. PICK v : v = job[j].ver
  OBVIOUS
<1> DEFINE s == Shape[q][v]
           first == FirstShard(q, v)
<1>3. job[j].st = "build" /\ q \in Repos /\ v \in Versions
  BY <1>1, <1>2 DEF Publish, NInv, IInv, TypeOK, JobsTyped, JobOK
<1>4. /\ simple' = [f \in Files |-> IF f[1] = q /\ f[2] = s.name /\ f[3] < s.parts THEN v
                                    ELSE IF f[1] = q /\ f[2] = s.name /\ simple[first] # Absent
                                    THEN Absent ELSE simple[f]]
      /\ hurt' \in {hurt, hurt \cup {q}} /\ stale' \in {stale, stale \cup {q}}
      /\ UNCHANGED <<trash, compound, meta, list, cleanVars, counters, emptied>>
  BY <1>1, <1>2 DEF Publish
<1>5. ~Cleaning /\ Cleaning' = Cleaning /\ faults' = faults /\ list' = list /\ emptied' = emptied
  BY <1>3, <1>4, <1>1, CleaningNot DEF Running, Cleaning, cleanVars, counters, NInv
<1>6. \A d \in DOMAIN compound : Entries(d)' = Entries(d) /\ Alive(d)' = Alive(d)
  BY <1>4 DEF Entries, Alive
<1>7. first \in Files /\ first[1] = q /\ simple'[first] = v /\ v # Absent
  <2>1. /\ first = <<q, s.name, 0>> /\ first \in Files /\ s.parts \in {1, 2}
        /\ first[1] = q /\ first[2] = s.name /\ first[3] = 0
    BY <1>3, FileFacts, VersionFacts DEF FirstShard, NamesOf
  <2>2. v # Absent /\ 0 < s.parts
    BY <1>3, <2>1, VersionFacts
  <2> HIDE DEF first
  <2> QED
    BY <1>4, <2>1, <2>2
<1> HIDE DEF first
<1>8. v \in Served(q)'
  BY <1>3, <1>7, VWordsNext DEF VersionWords
<1>9. \A u : u \in Served(q)' => u \in Served(q) \/ u = v
  <2>1. \A f \in Files : simple'[f] # Absent => simple'[f] = v \/ simple'[f] = simple[f]
    BY <1>4
  <2> QED
    BY <1>3, <1>4, <1>6, <2>1, VWords, VWordsNext DEF VersionWords
<1>10. OnDisk(q)' = OnDisk(q)
  <2>1. \A u : u \in OnDisk(q)' <=> u \in OnDisk(q)
    BY <1>3, <1>4, <1>6, VWords, VWordsNext DEF VersionWords
  <2> QED
    BY <2>1
<1>11. ASSUME NEW r \in Repos, r # q PROVE Served(r)' = Served(r) /\ KnownOf(r)
  <2>1. \A f \in Files : f[1] = r => simple'[f] = simple[f] /\ trash'[f] = trash[f]
    BY <1>4, <1>11
  <2> QED
    BY <1>4, <1>6, <2>1, Unmoved DEF KnownOf
<1>12. Seen!OthersStay({q})
  BY <1>11, SeenWords DEF Others
<1>13. (hurt \cup stale)' \in {hurt \cup stale, (hurt \cup stale) \cup {q}}
  BY <1>4
<1> QED
  BY <1>1, <1>2, <1>3, <1>5, <1>8, <1>9, <1>10, <1>12, <1>13 DEF Seen!Index, Seen!NoFault

\* A step after a failure: versions may go, none comes.
LEMMA FaultSeen ==
  ASSUME IInv, faults' = faults + 1, hurt \subseteq hurt', stale \subseteq stale', emptied \subseteq emptied', list' = list \/ list' = {},
         \A r \in Repos \ (hurt' \cup stale') : Served(r)' \subseteq Served(r) /\ KnownOf(r)
  PROVE  Seen!Fault
<1>1. faults' > 0
  BY DEF IInv, TypeOK, RestOK
<1>2. \A r \in Repos \ (hurt \cup stale)' : Seen!Known(r)
  BY SeenWords
<1> QED
  BY <1>1, <1>2 DEF Seen!Fault

\* What is left of r in the directory was there.
LEMMA VersionsShrink ==
  ASSUME NEW r \in Repos,
         \A f \in Files : f[1] = r /\ simple'[f] # Absent => simple'[f] = simple[f],
         \A f \in Files : f[1] = r /\ trash'[f] # Absent => trash'[f] = trash[f],
         \A c \in DOMAIN compound' : \A m \in Entries(c)' :
           m.repo = r => c \in DOMAIN compound /\ m \in Entries(c)
  PROVE  Served(r)' \subseteq Served(r) /\ OnDisk(r)' \subseteq OnDisk(r) /\ KnownOf(r)
<1>1. \A c \in DOMAIN compound' : \A m \in Alive(c)' :
        m.repo = r => c \in DOMAIN compound /\ m \in Alive(c)
  BY DEF Alive
<1>2. Served(r)' \subseteq Served(r)
  BY <1>1, VWords, VWordsNext DEF VersionWords
<1>3. OnDisk(r)' \subseteq OnDisk(r)
  BY VWords, VWordsNext DEF VersionWords
<1> QED
  BY <1>2, <1>3 DEF KnownOf

\* Steps that nobody notices.
LEMMA QuietSeen ==
  ASSUME UNCHANGED <<simple, trash, compound, meta, list, cleanVars, faults, hurt, stale, emptied>>
  PROVE  UNCHANGED Seen!indexVars
<1>1. \A r \in Repos : Served(r)' = Served(r) /\ OnDisk(r)' = OnDisk(r)
  BY FilesStay
<1>2. Cleaning' = Cleaning
  BY DEF Cleaning, cleanVars
<1> QED
  BY <1>1, <1>2 DEF Seen!indexVars

LEMMA JobFailsSeen ==
  ASSUME IInv, NEW j \in Jobs, JobFails(j) PROVE Seen!Fault
<1>1. UNCHANGED <<simple, trash, compound, meta, list, hurt, stale, emptied>> /\ faults' = faults + 1
  BY DEF JobFails, Failure, dirVars, history
<1> QED
  BY <1>1, FilesStay, FaultSeen DEF KnownOf

LEMMA CrashSeen ==
  ASSUME IInv, Crash PROVE Seen!Fault
<1>1. /\ UNCHANGED <<simple, trash, compound, meta, stale, emptied>> /\ hurt \subseteq hurt'
      /\ faults' = faults + 1 /\ list' = {}
  BY DEF Crash, Restart, Failure, dirVars
<1> QED
  BY <1>1, FilesStay, FaultSeen DEF KnownOf

LEMMA CrashMovingSeen ==
  ASSUME IInv, NEW q \in Repos, CrashMoving(q) PROVE Seen!Fault
<1>1. /\ UNCHANGED <<compound, meta, stale, emptied>> /\ hurt' = hurt \cup {q}
      /\ faults' = faults + 1 /\ list' = {}
  BY DEF CrashMoving, Restart, Failure
<1>2. \A c \in DOMAIN compound : Entries(c)' = Entries(c)
  BY <1>1 DEF Entries
<1>3. \A f \in Files : f[1] # q => simple'[f] = simple[f] /\ trash'[f] = trash[f]
  BY DEF CrashMoving, SimpleOf, Without
<1>4. ASSUME NEW r \in Repos, r # q PROVE Served(r)' \subseteq Served(r) /\ KnownOf(r)
  BY <1>1, <1>2, <1>3, <1>4, VersionsShrink
<1> QED
  BY <1>1, <1>4, FaultSeen

LEMMA SyncListSeen ==
  ASSUME IInv, SyncList PROVE Seen!List
<1>1. /\ UNCHANGED <<simple, trash, compound, meta, faults, hurt, stale, emptied>>
      /\ phase = "idle" /\ phase' = "listed" /\ list' \in SUBSET Repos
  BY DEF SyncList, dirVars, counters, history
<1>2. \A r \in Repos : Served(r)' = Served(r) /\ OnDisk(r)' = OnDisk(r)
  BY <1>1, FilesStay
<1>3. ~Cleaning /\ Cleaning' = Cleaning
  BY <1>1 DEF Cleaning
<1> QED
  BY <1>1, <1>2, <1>3 DEF Seen!List

\* What is searched and not listed will be discarded.
Dooms == faults = 0 => \A r \in Repos \ (list \cup hurt \cup stale) : InIndex(r) => r \in doomed

\* Cleanup restores what is listed, from a shard that has it, and discards the rest; a
\* job that has published has left a shard.
LoopKnows ==
  /\ Cleaning => /\ todo \subseteq list /\ Dooms
                 /\ \A r \in todo : tombs[r] # NoShard => \E m \in Entries(tombs[r]) : m.repo = r
  /\ \A j \in Jobs : Pends(j) => SimpleOf(simple, job[j].repo) # {}

SInv == NInv /\ LoopKnows

LEMMA WriteMetaSeen ==
  ASSUME SInv, NEW j \in Jobs, WriteMeta(j) PROVE Seen!Retire(job[j].repo) \/ Seen!Fault
<1>1. PICK q : q = job[j].repo
  OBVIOUS
<1>2. job[j].st = "marking" /\ q \in Repos /\ NInv /\ IInv
  BY <1>1 DEF WriteMeta, SInv, NInv, IInv, TypeOK, JobsTyped, JobOK
<1>3. UNCHANGED <<simple, trash, compound, list, cleanVars, stale, emptied>>
  BY DEF WriteMeta
<1>4. CASE /\ meta' = Put(meta, job[j].shard, Mark(job[j].read, {job[j].repo}, TRUE))
           /\ hurt' = hurt \cup Undone(j) /\ faults' = faults
  <2>1. ~Cleaning /\ Cleaning' = Cleaning
    <3>1. Running(j)
      BY <1>2 DEF Running
    <3> QED
      BY <1>2, <1>3, <3>1, CleaningNot DEF Cleaning, cleanVars
  <2>2. \A r \in Repos \ hurt' : /\ Served(r)' \subseteq Served(r) /\ KnownOf(r)
                                 /\ r # q => Served(r)' = Served(r)
    BY <1>1, <1>2, <1>4, WriteMetaVersions DEF KnownOf
  <2>3. Served(q)' # {}
    <3>1. Pends(j)
      BY <1>2 DEF Pends
    <3>2. PICK f \in Files : f[1] = q /\ simple[f] # Absent
      BY <1>1, <3>1 DEF SInv, LoopKnows, SimpleOf
    <3> QED
      BY <1>2, <1>3, <3>2, VWordsNext DEF VersionWords
  <2>4. Seen!OthersStay({q})
    BY <2>2, SeenWords DEF Others
  <2>5. q \notin (hurt \cup stale)' => Served(q)' \subseteq Served(q) /\ Seen!Known(q)
    BY <1>2, <2>2, SeenWords
  <2>6. hurt \cup stale \subseteq (hurt \cup stale)'
    BY <1>3, <1>4
  <2> QED
    BY <1>1, <1>2, <1>3, <1>4, <2>1, <2>3, <2>4, <2>5, <2>6 DEF Seen!Retire, Seen!NoFault
<1>5. CASE faults' = faults + 1 /\ hurt \subseteq hurt' /\ meta' = meta
  BY <1>2, <1>3, <1>5, FilesStay, FaultSeen DEF KnownOf
<1> QED
  BY <1>4, <1>5 DEF WriteMeta, Failure

\* Merge and vacuum succeed.
LEMMA OptimiseSeen ==
  ASSUME IInv, Exclusive, UNCHANGED <<list, cleanVars, faults, hurt>>, stale \subseteq stale',
         emptied \subseteq emptied', emptied' \subseteq Repos,
         \A r \in Repos \ (hurt \cup stale') :
           /\ Served(r)' \subseteq Served(r) /\ OnDisk(r)' \subseteq Served(r) \cup OnDisk(r)
           /\ \A v \in Served(r) \ Served(r)' : ~Shape[r][v].docs
           /\ r \notin emptied' => Served(r)' = Served(r)
  PROVE  Seen!Optimise
<1>1. ~Cleaning /\ Cleaning' = Cleaning
  BY DEF Exclusive, Free, Cleaning, cleanVars
<1>2. Seen!OthersStay(emptied')
  BY SeenWords DEF Others, KnownOf
<1>3. \A r \in emptied' \ (hurt \cup stale)' : r \in Repos \ (hurt \cup stale')
  OBVIOUS
<1>4. \A r \in Repos : Served(r) \subseteq Versions
  BY VersionsType DEF IInv
<1>5. \A r \in Repos \ (hurt \cup stale') :
        /\ Served(r)' \subseteq Served(r) /\ Seen!Known(r)
        /\ \A v \in Served(r) \ Served(r)' : <<r, v>> \in {x \in Repos \X Versions : ~Shape[x[1]][x[2]].docs}
  BY <1>4, SeenWords DEF KnownOf
<1> QED
  BY <1>1, <1>2, <1>3, <1>5 DEF Seen!Optimise, Seen!NoFault

LEMMA MergeInputsSeen ==
  ASSUME IInv, Exclusive, NEW fs, fs \subseteq SmallFiles, NEW cs, cs \subseteq DOMAIN compound,
         MergeInputs(fs, cs), UNCHANGED <<trash, list, cleanVars, faults, hurt>>
  PROVE  Seen!Optimise
<1>1. stale \subseteq stale' /\ emptied \subseteq emptied' /\ emptied' \subseteq Repos
  BY MergeInputsFacts DEF MergeResult
<1>2. \A r \in Repos \ (hurt \cup stale') :
        /\ Served(r)' \subseteq Served(r) /\ OnDisk(r)' \subseteq Served(r) \cup OnDisk(r)
        /\ \A v \in Served(r) \ Served(r)' : ~Shape[r][v].docs
        /\ r \notin emptied' => Served(r)' = Served(r)
  <2> SUFFICES ASSUME NEW r \in Repos, r \notin hurt \cup stale'
               PROVE  /\ Served(r)' \subseteq Served(r) /\ OnDisk(r)' \subseteq Served(r) \cup OnDisk(r)
                      /\ \A v \in Served(r) \ Served(r)' : ~Shape[r][v].docs
                      /\ r \notin emptied' => Served(r)' = Served(r)
    OBVIOUS
  <2>1. UNCHANGED <<trash, hurt>>
    OBVIOUS
  <2> QED
    BY <2>1, MergeVersions
<1> QED
  BY <1>1, <1>2, OptimiseSeen

\* Some inputs go and no new shard comes.
LEMMA InputsGoSeen ==
  ASSUME IInv, NEW fs, NEW cs, cs \subseteq DOMAIN compound, NEW kept, RemoveInputs(fs, cs, kept),
         compound' = Only(compound, DOMAIN compound \ cs), faults' = faults + 1,
         UNCHANGED <<trash, list, hurt, stale, emptied>>
  PROVE  Seen!Fault
<1>1. \A f \in Files : simple'[f] # Absent => simple'[f] = simple[f]
  BY DEF RemoveInputs, Without
<1>2. \A c \in DOMAIN compound' : c \in DOMAIN compound /\ c \notin cs /\ compound'[c] = compound[c]
  BY DEF Only
<1>3. \A c : c \notin cs => /\ c \in DOMAIN meta' <=> c \in DOMAIN meta
                            /\ c \in DOMAIN meta => meta'[c] = meta[c]
  BY DEF RemoveInputs, Only
<1>4. \A c \in DOMAIN compound' : Entries(c)' = Entries(c)
  BY <1>2, <1>3 DEF Entries
<1>5. \A r \in Repos : Served(r)' \subseteq Served(r) /\ KnownOf(r)
  BY <1>1, <1>2, <1>4, VersionsShrink
<1> QED
  BY <1>5, FaultSeen

LEMMA MergeSeen == ASSUME IInv, Merge PROVE Seen!Optimise \/ Seen!Fault
<1>1. PICK fs \in SUBSET SmallFiles, cs \in SUBSET SmallCompounds :
        (MergeInputs(fs, cs) /\ faults' = faults) \/ MergeStops(fs, cs)
  BY DEF Merge
<1>2. Exclusive /\ UNCHANGED <<trash, list, cleanVars, hurt>> /\ cs \subseteq DOMAIN compound
  BY DEF Merge, SmallCompounds
<1>3. CASE MergeInputs(fs, cs) /\ faults' = faults
  BY <1>2, <1>3, MergeInputsSeen
<1>4. CASE MergeStops(fs, cs)
  <2>1. PICK gf \in SUBSET fs, gc \in SUBSET cs : \E kept :
          RemoveInputs(gf, gc, kept) /\ compound' = Only(compound, DOMAIN compound \ gc)
    BY <1>4 DEF MergeStops
  <2>2. faults' = faults + 1 /\ stale' = stale /\ emptied' = emptied /\ gc \subseteq DOMAIN compound
    BY <1>2, <1>4 DEF MergeStops, Failure
  <2> QED
    BY <1>2, <2>1, <2>2, InputsGoSeen
<1> QED
  BY <1>1, <1>3, <1>4

LEMMA RemoveTombstonesSeen ==
  ASSUME IInv, NEW c \in DOMAIN compound, RemoveTombstones(c) PROVE Seen!Optimise \/ Seen!Fault
<1>1. Exclusive /\ UNCHANGED <<trash, list, cleanVars, hurt>>
  BY DEF RemoveTombstones
<1>2. CASE MergeInputs({}, {c}) /\ faults' = faults
  BY <1>1, <1>2, MergeInputsSeen
<1>3. CASE /\ Failure /\ RemoveInputs({}, {c}, {})
           /\ compound' = Only(compound, DOMAIN compound \ {c}) /\ UNCHANGED <<stale, emptied>>
  BY <1>1, <1>3, InputsGoSeen DEF Failure
<1> QED
  BY <1>2, <1>3 DEF RemoveTombstones

LEMMA ExplodeSeen ==
  ASSUME IInv, NEW c \in DOMAIN compound, Explode(c) PROVE Seen!Optimise \/ Seen!Fault
<1>1. /\ Exclusive /\ UNCHANGED <<list, cleanVars, hurt, stale>> /\ emptied \subseteq emptied'
      /\ faults' = faults \/ faults' = faults + 1
  BY DEF Explode, Failure
<1>5. emptied' \subseteq Repos
  BY ExplodeKeeps DEF IInv, TypeOK, RestOK
<1>2. \A r \in Repos : Served(r)' \subseteq Served(r) /\ OnDisk(r)' \subseteq OnDisk(r)
  BY ExplodeShrinks
<1>3. CASE faults' = faults
  BY <1>1, <1>2, <1>3, <1>5, ExplodeVersions, OptimiseSeen
<1>4. CASE faults' = faults + 1
  BY <1>1, <1>2, <1>4, FaultSeen DEF KnownOf
<1> QED
  BY <1>1, <1>3, <1>4

\* A repository found under two names is there in two versions.
LEMMA NamedVersions ==
  ASSUME IInv, NEW r \in Repos, NEW n \in NamesInIndex(r)
  PROVE  \E v \in Served(r) : Shape[r][v].name = n
<1>1. CASE \E f \in Files : f[1] = r /\ simple[f] # Absent /\ f[2] = n
  <2>1. PICK f \in Files : f[1] = r /\ simple[f] # Absent /\ f[2] = n
    BY <1>1
  <2>2. Shape[r][simple[f]].name = n
    BY <2>1 DEF IInv, FilesOK
  <2>3. simple[f] \in Served(r)
    BY <2>1, VWords DEF VersionWords
  <2> QED
    BY <2>2, <2>3
<1>2. CASE \E c \in DOMAIN compound : \E m \in Alive(c) : m.repo = r /\ NameOf(m) = n
  <2>1. PICK c \in DOMAIN compound : \E m \in Alive(c) : m.repo = r /\ NameOf(m) = n
    BY <1>2
  <2>2. PICK m \in Alive(c) : m.repo = r /\ NameOf(m) = n
    BY <2>1
  <2>3. Shape[r][m.ver].name = n
    BY <2>2 DEF NameOf
  <2>4. m.ver \in Served(r)
    BY <2>2, VWords DEF VersionWords
  <2> QED
    BY <2>3, <2>4
<1> QED
  BY <1>1, <1>2, Words DEF IndexWords

LEMMA TwoVersions ==
  ASSUME IInv PROVE TwoNamed \in SUBSET {r \in Repos : \E v, w \in Served(r) : v # w}
<1> SUFFICES ASSUME NEW r \in TwoNamed PROVE r \in Repos /\ \E v, w \in Served(r) : v # w
  OBVIOUS
<1>1. r \in Repos
  BY DEF TwoNamed
<1>2. PICK m \in NamesInIndex(r), n \in NamesInIndex(r) : m # n
  BY <1>1, OneNamed
<1>3. PICK v \in Served(r) : Shape[r][v].name = m
  BY <1>1, NamedVersions
<1>4. PICK w \in Served(r) : Shape[r][w].name = n
  BY <1>1, NamedVersions
<1> QED
  BY <1>1, <1>2, <1>3, <1>4

LEMMA StartCleanupEntries ==
  ASSUME IInv, StartCleanup
  PROVE  \A c \in DOMAIN compound : \A m \in Entries(c)' : \E o \in Entries(c) : m.repo = o.repo /\ m.ver = o.ver
<1> DEFINE cs == UNION {CompoundsOf(r) : r \in TwoNamed}
<1>1. /\ meta' = [c \in DOMAIN meta \cup cs |-> IF c \in cs THEN Mark(Entries(c), TwoNamed, TRUE) ELSE meta[c]]
      /\ compound' = compound
  BY DEF StartCleanup
<1> SUFFICES ASSUME NEW c \in DOMAIN compound
             PROVE  \A m \in Entries(c)' : \E o \in Entries(c) : m.repo = o.repo /\ m.ver = o.ver
  OBVIOUS
<1>2. Entries(c)' = Mark(Entries(c), TwoNamed, TRUE) \/ Entries(c)' = Entries(c)
  <2> HIDE DEF cs
  <2> QED
    BY <1>1 DEF Entries
<1>3. Entries(c) \subseteq Entry
  BY EntriesType DEF IInv
<1>4. /\ \A m \in Mark(Entries(c), TwoNamed, TRUE) : \E o \in Entries(c) : m.repo = o.repo /\ m.ver = o.ver
      /\ \A o \in Entries(c) : \E m \in Mark(Entries(c), TwoNamed, TRUE) : m.repo = o.repo /\ m.ver = o.ver
  BY <1>3, MarkKept
<1> QED
  BY <1>2, <1>4

LEMMA AdvanceEnds ==
  ASSUME NEW left, NEW dm, Advance(left, dm) PROVE ~Cleaning' => doomed' = {}
BY DEF Advance, Cleaning

\* When cleanup is done.
LEMMA TidySeen ==
  ASSUME Dooms', ~Cleaning' => doomed' = {}, UNCHANGED <<list, faults, hurt, stale, emptied>>, faults \in Nat
  PROVE  Seen!Tidy
<1> SUFFICES ASSUME ~Cleaning', ~(faults > 0), NEW r \in Repos \ (list \cup (hurt \cup stale))
             PROVE  Served(r)' = {}
  BY DEF Seen!Tidy
<1>1. ~InIndex(r)'
  BY DEF Dooms
<1> QED
  BY <1>1, IndexServedNext

LEMMA StartCleanupDooms ==
  ASSUME IInv, StartCleanup PROVE Dooms'
<1>1. /\ Advance(list, {r \in Repos : InIndex(r)} \ TwoNamed)
      /\ compound' = compound
      /\ \A f \in Files : simple'[f] = IF f[1] \in TwoNamed THEN Absent ELSE simple[f]
      /\ \A c \in DOMAIN compound : \A m : m \in Alive(c)' <=> m \in Alive(c) /\ m.repo \notin TwoNamed
  BY StartCleanupFacts
<1>2. ASSUME NEW r \in Repos, InIndex(r)' PROVE InIndex(r) /\ r \notin TwoNamed
  BY <1>1, <1>2, Words, WordsNext DEF IndexWords
<1>3. doomed' = {r \in Repos : InIndex(r)} \ TwoNamed
  BY <1>1 DEF Advance
<1> QED
  BY <1>2, <1>3 DEF Dooms

LEMMA StartCleanupSeen ==
  ASSUME IInv, StartCleanup PROVE Seen!StartCleanup
<1>1. /\ phase = "listed"
      /\ UNCHANGED <<compound, list, faults, hurt, stale, emptied>>
      /\ \A f \in Files : trash'[f] = IF f[1] \in Outdated THEN Absent ELSE trash[f]
      /\ \A f \in Files : simple'[f] = IF f[1] \in TwoNamed THEN Absent ELSE simple[f]
      /\ \A c \in DOMAIN compound : \A m :
           /\ m \in Alive(c)' <=> m \in Alive(c) /\ m.repo \notin TwoNamed
           /\ m.repo \notin TwoNamed => (m \in Entries(c)' <=> m \in Entries(c))
  BY StartCleanupFacts
<1>2. \A c \in DOMAIN compound : \A m \in Entries(c)' : \E o \in Entries(c) : m.repo = o.repo /\ m.ver = o.ver
  BY StartCleanupEntries
<1>3. ASSUME NEW r \in Repos PROVE OnDisk(r)' \subseteq OnDisk(r) /\ Served(r)' \subseteq Served(r) /\ KnownOf(r)
  <2>1. ASSUME NEW v \in OnDisk(r)' PROVE v \in OnDisk(r)
    <3>1. ASSUME NEW c \in DOMAIN compound, NEW m \in Entries(c)', m.repo = r, m.ver = v
          PROVE  \E o \in Entries(c) : o.repo = r /\ o.ver = v
      BY <1>2, <3>1
    <3> QED
      BY <1>1, <2>1, <3>1, VWords, VWordsNext DEF VersionWords
  <2>2. ASSUME NEW v \in Served(r)' PROVE v \in Served(r)
    BY <1>1, <2>2, VWords, VWordsNext DEF VersionWords
  <2> QED
    BY <2>1, <2>2 DEF KnownOf
<1>4. ASSUME NEW r \in Repos \ TwoNamed PROVE Served(r)' = Served(r)
  <2>1. \A v : v \in Served(r) => v \in Served(r)'
    BY <1>1, VWords, VWordsNext DEF VersionWords
  <2> QED
    BY <1>3, <2>1
<1>5. ASSUME NEW r \in TwoNamed PROVE Served(r)' = {} /\ r \in Repos
  <2>1. r \in Repos
    BY DEF TwoNamed
  <2>2. \A v : v \notin Served(r)'
    BY <1>1, <2>1, VWordsNext DEF VersionWords
  <2> QED
    BY <2>1, <2>2
<1>6. Seen!OthersStay(TwoNamed)
  BY <1>3, <1>4, SeenWords DEF Others
<1>7. \A r \in TwoNamed : r \in Repos /\ Served(r)' = {} /\ Seen!Known(r)
  BY <1>3, <1>5, SeenWords
<1>8. ~Cleaning
  BY <1>1 DEF Cleaning
<1>9. /\ (faults > 0)' = (faults > 0) /\ (hurt \cup stale)' = hurt \cup stale
      /\ list' = list /\ emptied' = emptied
  BY <1>1
<1>10. \E R \in SUBSET {r \in Repos : \E v, w \in [q \in Repos |-> Served(q)][r] : v # w} :
         Seen!OthersStay(R) /\ \A r \in R \ (hurt \cup stale) : [q \in Repos |-> Served(q)'][r] = {} /\ Seen!Known(r)
  BY <1>6, <1>7, TwoVersions
<1>11. Seen!Tidy
  <2>1. ~Cleaning' => doomed' = {}
    BY StartCleanupFacts, AdvanceEnds
  <2> QED
    BY <1>1, <2>1, StartCleanupDooms, TidySeen DEF IInv, TypeOK, RestOK
<1> QED
  BY <1>8, <1>9, <1>10, <1>11 DEF Seen!StartCleanup, Seen!NoFault

\* What makes a step of cleanup that brings r back into the index a Restore.
LEMMA RestoreSeen ==
  ASSUME SInv, NInv', [Next]_vars, Cleaning, NEW r \in list, UNCHANGED <<list, faults, hurt, stale, emptied>>,
         \A q \in Repos \ {r} : Served(q)' = Served(q) /\ KnownOf(q),
         ~InIndex(r), Served(r)' # {}, KnownOf(r), Dooms', ~Cleaning' => doomed' = {}
  PROVE  Seen!Restore(r)
<1>1. NInv /\ IInv /\ r \in Repos /\ faults \in Nat
  BY DEF SInv, NInv, IInv, TypeOK, LoopOK, RestOK
<1>2. Served(r) = {} /\ InIndex(r)'
  BY <1>1, IndexServed, IndexServedNext
<1>3. ASSUME r \notin hurt \cup stale, ~(faults > 0), r \notin emptied
      PROVE  \A v \in OnDisk(r) : \E w \in Served(r)' : w >= v
  <2>1. faults = 0
    BY <1>1, <1>3
  <2> QED
    BY <1>1, <1>2, <1>3, <2>1, Restores
<1>4. Seen!OthersStay({r}) /\ Seen!Known(r)
  BY <1>1, SeenWords DEF Others
<1>5. (faults > 0)' = (faults > 0) /\ (hurt \cup stale)' = hurt \cup stale
  OBVIOUS
<1>6. Seen!Tidy
  BY <1>1, TidySeen
<1> QED
  BY <1>1, <1>2, <1>3, <1>4, <1>5, <1>6 DEF Seen!Restore, Seen!NoFault

LEMMA RestoreRepoDooms ==
  ASSUME IInv, LoopKnows, NEW r \in Repos, RestoreRepo(r) PROVE Dooms' /\ (~Cleaning' => doomed' = {})
<1>1. /\ r \in todo /\ Cleaning /\ Advance(todo \ {r}, doomed \ {r}) /\ UNCHANGED <<list, hurt, stale, emptied>>
      /\ faults' = faults \/ faults' = faults + 1
  BY DEF RestoreRepo, history, Cleaning, Failure
<1>2. doomed' = doomed \ {r} /\ r \in list /\ Dooms /\ faults \in Nat
  BY <1>1 DEF Advance, LoopKnows, IInv, TypeOK, RestOK
<1>3. \A q \in Repos \ {r} : InIndex(q)' <=> InIndex(q)
  BY RestoreRepoMoves
<1>4. Dooms'
  BY <1>1, <1>2, <1>3 DEF Dooms
<1> QED
  BY <1>1, <1>4, AdvanceEnds

LEMMA RestoreRepoSeen ==
  ASSUME SInv, NInv', NEW r \in Repos, RestoreRepo(r)
  PROVE  Seen!Restore(r) \/ Seen!Pass \/ Seen!Fault
<1>1. /\ phase = "restore" /\ r \in todo /\ Cleaning
      /\ UNCHANGED <<compound, list, hurt, stale, emptied>>
  BY DEF RestoreRepo, history, Cleaning
<1>2. NInv /\ IInv /\ r \in list /\ [Next]_vars /\ faults \in Nat
  BY <1>1 DEF SInv, NInv, LoopKnows, Next, Cleanup, IInv, TypeOK, RestOK
<1>3. Dooms' /\ (~Cleaning' => doomed' = {})
  BY <1>2, RestoreRepoDooms DEF SInv
<1>4. CASE InTrash(r) /\ UNCHANGED meta /\ \/ FromTrash(r, TRUE) /\ faults' = faults
                                           \/ FromTrash(r, FALSE) /\ faults' = faults + 1
  <2>1. PICK ok \in BOOLEAN : FromTrash(r, ok) /\ faults' = IF ok THEN faults ELSE faults + 1
    BY <1>4
  <2>2. /\ ~InIndex(r)
        /\ \A f \in Files : trash'[f] = IF f[1] = r THEN Absent ELSE trash[f]
        /\ \A f \in Files : simple'[f] = IF ok /\ f[1] = r THEN trash[f] ELSE simple[f]
        /\ \A c \in DOMAIN compound : Entries(c)' = Entries(c) /\ Alive(c)' = Alive(c)
    BY <1>1, <1>2, <1>4, <2>1, FromTrashFacts
  <2>3. ASSUME NEW q \in Repos \ {r} PROVE Served(q)' = Served(q) /\ KnownOf(q)
    <3>1. \A f \in Files : f[1] = q => simple'[f] = simple[f] /\ trash'[f] = trash[f]
      BY <2>2
    <3> QED
      BY <1>1, <2>2, <3>1, Unmoved DEF KnownOf
  <2>4. CASE ok
    <3>1. Served(r)' # {}
      <4>1. PICK f \in Files : f[1] = r /\ trash[f] # Absent
        BY <1>4, Words DEF IndexWords
      <4>2. simple'[f] = trash[f]
        BY <2>2, <2>4, <4>1
      <4> QED
        BY <4>1, <4>2, VWordsNext DEF VersionWords
    <3>2. KnownOf(r)
      <4>1. \A v \in OnDisk(r)' : v \in OnDisk(r)
        BY <1>1, <2>2, VWords, VWordsNext DEF VersionWords
      <4>2. \A v \in Served(r)' : v \in OnDisk(r) \cup Served(r)
        BY <1>1, <2>2, <2>4, VWords, VWordsNext DEF VersionWords
      <4> QED
        BY <4>1, <4>2 DEF KnownOf
    <3> QED
      BY <1>1, <1>2, <1>3, <2>1, <2>2, <2>3, <2>4, <3>1, <3>2, RestoreSeen
  <2>5. CASE ~ok
    <3>1. \A q \in Repos : Served(q)' \subseteq Served(q) /\ KnownOf(q)
      BY <1>1, <2>2, <2>5, VersionsShrink
    <3> QED
      BY <1>1, <1>2, <2>1, <2>5, <3>1, FaultSeen
  <2> QED
    BY <2>4, <2>5
<1>5. CASE /\ ~InTrash(r) /\ tombs[r] # NoShard /\ UNCHANGED <<simple, trash, old>>
           /\ meta' = Put(meta, tombs[r], Mark(Entries(tombs[r]), {r}, FALSE)) /\ faults' = faults
  <2>1. PICK c : c = tombs[r]
    OBVIOUS
  <2>2. c \in DOMAIN compound /\ ~InIndex(r) /\ FALSE \in BOOLEAN /\ \E m \in Entries(c) : m.repo = r
    BY <1>1, <1>2, <1>5, <2>1 DEF IInv, CleaningOK, SInv, LoopKnows
  <2>3. /\ \A d \in DOMAIN compound : \A m : m.repo # r => (m \in Entries(d)' <=> m \in Entries(d))
        /\ \A d \in DOMAIN compound : d # c => Entries(d)' = Entries(d)
        /\ \A m \in Entries(c)' : \E o \in Entries(c) : m.repo = o.repo /\ m.ver = o.ver
        /\ \A o \in Entries(c) : o.repo = r => \E m \in Entries(c)' : m.repo = r /\ m.ver = o.ver /\ ~m.dead
    <3>1. meta' = Put(meta, c, Mark(Entries(c), {r}, FALSE)) /\ compound' = compound
      BY <1>1, <1>5, <2>1
    <3> QED
      BY <1>2, <2>2, <3>1, TombstoneMarks
  <2>4. ASSUME NEW q \in Repos \ {r} PROVE Served(q)' = Served(q) /\ KnownOf(q)
    BY <1>1, <1>5, <2>3, Unmoved DEF KnownOf
  <2>5. Served(r)' # {}
    <3>1. PICK m \in Entries(c)' : m.repo = r /\ ~m.dead
      BY <2>2, <2>3
    <3>2. m \in Alive(c)' /\ c \in DOMAIN compound'
      BY <1>1, <2>2, <3>1 DEF Alive
    <3> QED
      BY <3>1, <3>2, VWordsNext DEF VersionWords
  <2>6. KnownOf(r)
    <3>1. \A d \in DOMAIN compound : \A m \in Entries(d)' : m.repo = r =>
           \E o \in Entries(d) : o.repo = r /\ m.ver = o.ver
      BY <2>3
    <3>2. \A v \in OnDisk(r)' : v \in OnDisk(r)
      BY <1>1, <1>5, <3>1, VWords, VWordsNext DEF VersionWords
    <3>3. \A v \in Served(r)' : v \in Served(r) \cup OnDisk(r)
      <4>1. \A d \in DOMAIN compound : \A m \in Alive(d)' : m.repo = r =>
             \E o \in Entries(d) : o.repo = r /\ m.ver = o.ver
        BY <3>1 DEF Alive
      <4> QED
        BY <1>1, <1>5, <4>1, VWords, VWordsNext DEF VersionWords
    <3> QED
      BY <3>2, <3>3 DEF KnownOf
  <2> QED
    BY <1>1, <1>2, <1>3, <1>5, <2>2, <2>4, <2>5, <2>6, RestoreSeen
<1>6. CASE UNCHANGED <<simple, trash, old, meta>> /\ faults' = faults + 1
  BY <1>1, <1>2, <1>6, FilesStay, FaultSeen DEF KnownOf
<1>7. CASE UNCHANGED <<simple, trash, old, meta, faults>>
  <2>1. Seen!OthersStay({})
    BY <1>1, <1>7, FilesStay, SeenWords DEF Others, KnownOf
  <2>2. Seen!Tidy
    BY <1>1, <1>2, <1>3, <1>7, TidySeen
  <2> QED
    BY <1>1, <1>7, <2>1, <2>2 DEF Seen!Pass, Seen!NoFault
<1> QED
  BY <1>4, <1>5, <1>6, <1>7 DEF RestoreRepo, Failure

\* What makes a step of cleanup that takes r out of the index a Discard.
LEMMA DiscardSeen ==
  ASSUME SInv, Cleaning, NEW r \in Repos, Advance({}, doomed \ {r}),
         r \notin list, UNCHANGED <<list, faults, hurt, stale, emptied>>,
         \A q \in Repos \ {r} : Served(q)' \subseteq Served(q) /\ KnownOf(q),
         r \notin hurt => /\ \A q \in Repos \ {r} : Served(q)' = Served(q)
                          /\ Served(r)' = {} /\ Served(r) \subseteq OnDisk(r)' /\ KnownOf(r)
  PROVE  Seen!Discard(r) /\ Dooms'
<1>1. r \notin hurt \cup stale =>
        /\ Seen!OthersStay({r}) /\ Served(r)' = {} /\ Served(r) \subseteq OnDisk(r)' /\ Seen!Known(r)
  BY SeenWords DEF Others
<1>2. r \in hurt \cup stale => \A q \in Repos \ (hurt \cup stale) : Served(q)' \subseteq Served(q) /\ Seen!Known(q)
  BY SeenWords
<1>3. (faults > 0)' = (faults > 0) /\ (hurt \cup stale)' = hurt \cup stale
  OBVIOUS
<1>4. Dooms'
  <2>1. Dooms /\ doomed' = doomed \ {r}
    BY DEF SInv, LoopKnows, Advance
  <2>2. \A q \in Repos \ {r} : InIndex(q)' => InIndex(q)
    BY IndexServed, IndexServedNext
  <2>3. r \notin hurt => ~InIndex(r)'
    BY IndexServedNext
  <2> QED
    BY <2>1, <2>2, <2>3 DEF Dooms
<1>5. Seen!Tidy
  <2>1. ~Cleaning' => doomed' = {}
    BY AdvanceEnds
  <2> QED
    BY <1>4, <2>1, TidySeen DEF SInv, NInv, IInv, TypeOK, RestOK
<1> QED
  BY <1>1, <1>2, <1>3, <1>4, <1>5 DEF Seen!Discard, Seen!NoFault

LEMMA DiscardRepoSeen ==
  ASSUME SInv, NEW r \in Repos, Discard(r) PROVE (Seen!Discard(r) \/ Seen!Fault) /\ Dooms'
<1>1. /\ phase = "discard" /\ r \in doomed /\ Cleaning
      /\ Advance({}, doomed \ {r}) /\ UNCHANGED <<list, hurt, stale, emptied>>
  BY DEF Discard, history, Cleaning
<1>2. NInv /\ IInv /\ r \notin list
  BY <1>1 DEF SInv, NInv, IInv, CleaningOK
<1>3. r \notin hurt => OnePlace(r)
  BY <1>1, <1>2 DEF NInv, NewestOK
<1>4. faults' = faults + 1 => Dooms'
  BY <1>2 DEF Dooms, IInv, TypeOK, RestOK
<1>5. CASE /\ OnlyCompound(r) /\ meta' = Put(meta, FindCompound(r), Mark(Entries(FindCompound(r)), {r}, TRUE))
           /\ UNCHANGED <<compound, faults, simple, trash, old>>
  <2>1. PICK c : c = FindCompound(r)
    OBVIOUS
  <2>2. c \in DOMAIN compound /\ (\E m \in Alive(c) : m.repo = r) /\ TRUE \in BOOLEAN
    <3>1. CompoundsOf(r) # {}
      BY <1>5, FS_EmptySet DEF OnlyCompound
    <3> QED
      BY <2>1, <3>1 DEF FindCompound, CompoundsOf
  <2>3. /\ \A d \in DOMAIN compound : \A m : m.repo # r => (m \in Entries(d)' <=> m \in Entries(d))
        /\ \A d \in DOMAIN compound : d # c => Entries(d)' = Entries(d)
        /\ \A m \in Entries(c)' : \E o \in Entries(c) : m.repo = o.repo /\ m.ver = o.ver
        /\ \A m \in Entries(c)' : m.repo = r => m.dead
    <3>1. meta' = Put(meta, c, Mark(Entries(c), {r}, TRUE)) /\ compound' = compound
      BY <1>5, <2>1
    <3> QED
      BY <1>2, <2>2, <3>1, TombstoneMarks
  <2>4. \A o \in Entries(c) : \E m \in Entries(c)' : m.repo = o.repo /\ m.ver = o.ver
    <3>1. meta' = Put(meta, c, Mark(Entries(c), {r}, TRUE)) /\ compound' = compound
      BY <1>5, <2>1
    <3>2. Entries(c)' = Mark(Entries(c), {r}, TRUE)
      BY <1>2, <2>2, <3>1, TombstoneFacts
    <3>3. Entries(c) \subseteq Entry
      BY <1>2, <2>2, EntriesType DEF IInv
    <3>4. /\ \A m \in Mark(Entries(c), {r}, TRUE) : \E o \in Entries(c) : m.repo = o.repo /\ m.ver = o.ver
          /\ \A o \in Entries(c) : \E m \in Mark(Entries(c), {r}, TRUE) : m.repo = o.repo /\ m.ver = o.ver
      BY <3>3, MarkKept
    <3> QED
      BY <3>2, <3>4
  <2>5. \A q \in Repos \ {r} : Served(q)' = Served(q) /\ KnownOf(q)
    BY <1>5, <2>3, Unmoved DEF KnownOf
  <2>6. ASSUME r \notin hurt PROVE Served(r)' = {} /\ Served(r) \subseteq OnDisk(r)' /\ KnownOf(r)
    <3>1. \A d \in DOMAIN compound : \A m \in Alive(d) : m.repo = r => d = c
      BY <1>3, <2>2, <2>6 DEF OnePlace
    <3>2. \A f \in Files : f[1] = r => simple[f] = Absent
      BY <1>3, <2>2, <2>6 DEF OnePlace, SimpleOf
    <3>3. \A d \in DOMAIN compound : \A m \in Alive(d)' : m.repo # r
      BY <2>3, <3>1 DEF Alive
    <3>4. \A v : v \notin Served(r)'
      BY <1>5, <3>2, <3>3, VWordsNext DEF VersionWords
    <3>5. ASSUME NEW v \in Served(r) PROVE v \in OnDisk(r)'
      <4>1. PICK d \in DOMAIN compound : \E o \in Alive(d) : o.repo = r /\ o.ver = v
        BY <3>2, <3>5, VWords DEF VersionWords
      <4>2. \E o \in Entries(c) : o.repo = r /\ o.ver = v
        BY <3>1, <4>1 DEF Alive
      <4>3. \E m \in Entries(c)' : m.repo = r /\ m.ver = v
        BY <2>4, <4>2
      <4> QED
        BY <1>5, <2>2, <4>3, VWordsNext DEF VersionWords
    <3>6. ASSUME NEW v \in OnDisk(r)' PROVE v \in OnDisk(r)
      <4>1. \A d \in DOMAIN compound : \A m \in Entries(d)' : m.repo = r =>
             \E o \in Entries(d) : o.repo = r /\ m.ver = o.ver
        BY <2>3
      <4> QED
        BY <1>5, <3>6, <4>1, VWords, VWordsNext DEF VersionWords
    <3> QED
      BY <3>4, <3>5, <3>6 DEF KnownOf
  <2> QED
    BY <1>1, <1>2, <1>5, <2>5, <2>6, DiscardSeen
<1>6. CASE /\ faults' = faults + 1 /\ UNCHANGED <<meta, simple, trash, old>>
           /\ \E d : compound' \in {compound, Only(compound, DOMAIN compound \ {d})}
  <2>1. \A c \in DOMAIN compound' : c \in DOMAIN compound /\ Entries(c)' = Entries(c)
    BY <1>6 DEF Entries, Only
  <2>2. \A q \in Repos : Served(q)' \subseteq Served(q) /\ KnownOf(q)
    BY <1>6, <2>1, VersionsShrink
  <2> QED
    BY <1>1, <1>2, <1>4, <1>6, <2>2, FaultSeen
<1>7. CASE ~OnlyCompound(r) /\ \/ ToTrash(r, TRUE) /\ faults' = faults
                               \/ ToTrash(r, FALSE) /\ faults' = faults + 1
  <2>1. PICK ok \in BOOLEAN : ToTrash(r, ok) /\ faults' = IF ok THEN faults ELSE faults + 1
    BY <1>7
  <2>2. /\ \A f \in Files : simple'[f] = IF f[1] = r THEN Absent ELSE simple[f]
        /\ \A f \in Files : trash'[f] = IF ok /\ f[1] = r /\ InIndex(r) THEN simple[f] ELSE trash[f]
        /\ \A c : c \in DOMAIN compound' <=> c \in DOMAIN compound /\ \A m \in Alive(c) : m.repo # r
        /\ \A c \in DOMAIN compound' : Entries(c)' = Entries(c) /\ Alive(c)' = Alive(c)
    <3>1. \A c : Entries(c)' = Entries(c) => Alive(c)' = Alive(c)
      BY DEF Alive
    <3> QED
      BY <1>1, <1>2, <2>1, <3>1, ToTrashFacts
  <2>3. \A q \in Repos \ {r} : Served(q)' \subseteq Served(q) /\ KnownOf(q)
    BY <2>2, VersionsShrink
  <2>4. CASE ~ok
    <3>1. Served(r)' \subseteq Served(r) /\ KnownOf(r)
      BY <2>2, <2>4, VersionsShrink
    <3> QED
      BY <1>1, <1>2, <1>4, <2>1, <2>3, <2>4, <3>1, FaultSeen
  <2>5. ASSUME ok, r \notin hurt
        PROVE  /\ \A q \in Repos \ {r} : Served(q)' = Served(q)
               /\ Served(r)' = {} /\ Served(r) \subseteq OnDisk(r)' /\ KnownOf(r)
    <3>1. CompoundsOf(r) = {}
      <4> SUFFICES ASSUME NEW c \in CompoundsOf(r) PROVE FALSE
        OBVIOUS
      <4>1. c \in DOMAIN compound /\ \E m \in Alive(c) : m.repo = r
        BY DEF CompoundsOf
      <4>2. SimpleOf(simple, r) = {} /\ CompoundsOf(r) = {c}
        BY <1>3, <2>5, <4>1 DEF OnePlace, CompoundsOf
      <4>3. Cardinality({c}) = 1
        BY FS_Singleton
      <4> QED
        BY <1>7, <4>2, <4>3 DEF OnlyCompound
    <3>2. \A c \in DOMAIN compound : \A m \in Alive(c) : m.repo # r
      BY <3>1 DEF CompoundsOf
    <3>3. ASSUME NEW q \in Repos \ {r} PROVE Served(q)' = Served(q)
      <4>1. \A f \in Files : f[1] = q => simple'[f] = simple[f] /\ trash'[f] = trash[f]
        BY <2>2
      <4> QED
        BY <2>2, <3>2, <4>1, Unmoved
    <3>4. \A v : v \notin Served(r)'
      BY <2>2, VWordsNext DEF VersionWords
    <3>5. ASSUME NEW v \in Served(r) PROVE v \in OnDisk(r)'
      <4>1. InIndex(r)
        BY <3>5, IndexServed
      <4>2. PICK f \in Files : f[1] = r /\ simple[f] # Absent /\ simple[f] = v
        BY <3>2, <3>5, VWords DEF VersionWords
      <4>3. trash'[f] = v
        BY <2>2, <2>5, <4>1, <4>2
      <4> QED
        BY <4>2, <4>3, VWordsNext DEF VersionWords
    <3>6. ASSUME NEW v \in OnDisk(r)' PROVE v \in Served(r) \cup OnDisk(r)
      <4>1. \A f \in Files : f[1] = r => trash'[f] = simple[f] \/ trash'[f] = trash[f]
        BY <2>2
      <4>2. \A c \in DOMAIN compound' : c \in DOMAIN compound /\ Entries(c)' = Entries(c)
        BY <2>2
      <4> QED
        BY <3>6, <4>1, <4>2, VWords, VWordsNext DEF VersionWords
    <3> QED
      BY <3>3, <3>4, <3>5, <3>6 DEF KnownOf
  <2>6. CASE ok
    BY <1>1, <1>2, <2>1, <2>3, <2>5, <2>6, DiscardSeen
  <2> QED
    BY <2>4, <2>6
<1> QED
  BY <1>5, <1>6, <1>7 DEF Discard, Failure

LEMMA InitKnows == Init => LoopKnows
<1> SUFFICES ASSUME Init PROVE LoopKnows
  OBVIOUS
<1>1. ~Cleaning /\ \A j \in Jobs : ~Pends(j)
  BY IdleJobType DEF Init, Cleaning, Pends
<1> QED
  BY <1>1 DEF LoopKnows

LEMMA QuietKnows ==
  ASSUME LoopKnows, UNCHANGED simple, \A j \in Jobs : Pends(j)' => Pends(j) /\ job'[j].repo = job[j].repo,
         ~Cleaning' \/ UNCHANGED <<compound, meta, list, cleanVars, faults, hurt, stale, emptied>>
  PROVE  LoopKnows'
<1>1. \A j \in Jobs : Pends(j)' => SimpleOf(simple', job'[j].repo) # {}
  BY DEF LoopKnows
<1>2. CASE ~Cleaning'
  BY <1>1, <1>2 DEF LoopKnows
<1>3. CASE UNCHANGED <<compound, meta, list, cleanVars, faults, hurt, stale, emptied>>
  <2>1. Cleaning' = Cleaning /\ \A r : Entries(tombs[r])' = Entries(tombs[r])
    BY <1>3 DEF Cleaning, Entries, cleanVars
  <2>2. \A r \in Repos : InIndex(r)' <=> InIndex(r)
    <3>1. \A c \in DOMAIN compound : Alive(c)' = Alive(c)
      BY <1>3 DEF Alive, Entries
    <3> QED
      BY <1>3, <3>1, Words, WordsNext DEF IndexWords
  <2>3. Dooms => Dooms'
    BY <1>3, <2>2 DEF Dooms, cleanVars
  <2> QED
    BY <1>1, <1>3, <2>1, <2>3 DEF LoopKnows, cleanVars
<1> QED
  BY <1>2, <1>3

LEMMA JobKnows ==
  ASSUME IInv, LoopKnows, NEW j \in Jobs,
         StartJob(j) \/ JobFails(j) \/ ReadMeta(j) \/ WriteMeta(j) \/ \E r \in Repos : Pop(j, r)
  PROVE  LoopKnows'
<1>1. UNCHANGED simple
  BY DEF StartJob, JobFails, ReadMeta, WriteMeta, Pop, dirVars
<1>2. job = [k \in Jobs |-> job[k]] /\ IdleJob.st = "idle"
  BY IdleJobType DEF IInv, TypeOK, JobsTyped
<1>3. \A k \in Jobs \ {j} : job'[k] = job[k]
  BY <1>2 DEF StartJob, JobFails, ReadMeta, WriteMeta, Pop
<1>4. Pends(j)' => Pends(j) /\ job'[j].repo = job[j].repo
  <2>1. CASE StartJob(j)
    <3>1. job[j] \in JobType /\ job[j].st = "popped"
      BY <2>1 DEF IInv, TypeOK, JobsTyped, JobOK, StartJob
    <3>2. job'[j] = IdleJob \/ job'[j] = [job[j] EXCEPT !.st = "build"]
      BY <1>2, <2>1 DEF StartJob
    <3> QED
      BY <1>2, <3>1, <3>2 DEF Pends, JobType
  <2>2. CASE JobFails(j) \/ WriteMeta(j)
    <3>1. job'[j] = IdleJob
      BY <1>2, <2>2 DEF JobFails, WriteMeta
    <3> QED
      BY <1>2, <3>1 DEF Pends
  <2>3. CASE ReadMeta(j)
    <3>1. job[j] \in JobType /\ job[j].st = "published"
      BY <2>3 DEF IInv, TypeOK, JobsTyped, JobOK, ReadMeta
    <3>2. job'[j] = [[job[j] EXCEPT !.st = "marking"] EXCEPT !.read = Entries(job[j].shard)]
      BY <1>2, <2>3 DEF ReadMeta
    <3> QED
      BY <3>1, <3>2 DEF Pends, JobType
  <2>4. ASSUME NEW r \in Repos, Pop(j, r) PROVE ~Pends(j)'
    <3>1. job'[j].st = "popped"
      BY <1>2, <2>4 DEF Pop, IdleJob
    <3> QED
      BY <3>1 DEF Pends
  <2> QED
    BY <2>1, <2>2, <2>3, <2>4
<1>5. ~Cleaning' \/ UNCHANGED <<compound, meta, list, cleanVars, faults, hurt, stale, emptied>>
  <2>1. CASE WriteMeta(j) \/ JobFails(j)
    <3>1. Running(j) /\ phase' = phase
      BY <2>1 DEF WriteMeta, JobFails, Running, cleanVars
    <3> QED
      BY <3>1, CleaningNot DEF Cleaning
  <2>2. CASE ~WriteMeta(j) /\ ~JobFails(j)
    BY <2>2 DEF StartJob, ReadMeta, Pop, dirVars, counters, history
  <2> QED
    BY <2>1, <2>2
<1>6. \A k \in Jobs : Pends(k)' => Pends(k) /\ job'[k].repo = job[k].repo
  BY <1>3, <1>4 DEF Pends
<1> QED
  BY <1>1, <1>5, <1>6, QuietKnows

LEMMA PublishKnows ==
  ASSUME IInv, LoopKnows, NEW j \in Jobs, Publish(j) PROVE LoopKnows'
<1>1. PICK q : q = job[j].repo
  OBVIOUS
<1>2. PICK v : v = job[j].ver
  OBVIOUS
<1> DEFINE s == Shape[q][v]
           first == FirstShard(q, v)
<1>3. job[j].st = "build" /\ q \in Repos /\ v \in Versions
  BY <1>1, <1>2 DEF Publish, IInv, TypeOK, JobsTyped, JobOK
<1>4. /\ simple' = [f \in Files |-> IF f[1] = q /\ f[2] = s.name /\ f[3] < s.parts THEN v
                                    ELSE IF f[1] = q /\ f[2] = s.name /\ simple[first] # Absent
                                    THEN Absent ELSE simple[f]]
      /\ UNCHANGED cleanVars
  BY <1>1, <1>2 DEF Publish
<1>5. ~Cleaning'
  BY <1>3, <1>4, CleaningNot DEF Running, Cleaning, cleanVars
<1>6. first \in Files /\ first[1] = q /\ simple'[first] # Absent
  <2>1. /\ first = <<q, s.name, 0>> /\ first \in Files /\ s.parts \in {1, 2}
        /\ first[1] = q /\ first[2] = s.name /\ first[3] = 0
    BY <1>3, FileFacts, VersionFacts DEF FirstShard, NamesOf
  <2>2. v # Absent /\ 0 < s.parts
    BY <1>3, <2>1, VersionFacts
  <2> HIDE DEF first
  <2> QED
    BY <1>4, <2>1, <2>2
<1> HIDE DEF first
<1>7. SimpleOf(simple', q) # {}
  BY <1>6 DEF SimpleOf
<1>8. \A r : r # q /\ SimpleOf(simple, r) # {} => SimpleOf(simple', r) # {}
  BY <1>4 DEF SimpleOf
<1>9. (job'[j] = IdleJob \/ job'[j].repo = q) /\ \A k \in Jobs \ {j} : job'[k] = job[k]
  <2>1. job = [k \in Jobs |-> job[k]] /\ job[j] \in JobType
    BY DEF IInv, TypeOK, JobsTyped, JobOK
  <2>2. PICK c : job' = [job EXCEPT ![j] = IF c = NoShard THEN IdleJob
                                           ELSE [[job[j] EXCEPT !.st = "published"] EXCEPT !.shard = c]]
    BY DEF Publish
  <2> QED
    BY <1>1, <2>1, <2>2 DEF JobType
<1>10. \A k \in Jobs : Pends(k)' => job'[k].repo = q \/ (Pends(k) /\ job'[k].repo = job[k].repo)
  BY <1>9, IdleJobType DEF Pends
<1>11. \A k \in Jobs : Pends(k)' => SimpleOf(simple', job'[k].repo) # {}
  BY <1>7, <1>8, <1>10 DEF LoopKnows
<1> QED
  BY <1>5, <1>11 DEF LoopKnows

\* A step while no job runs.
LEMMA NoJobsKnows ==
  ASSUME LoopKnows, \A j \in Jobs : ~Pends(j)',
         \/ ~Cleaning'
         \/ /\ Cleaning /\ list' = list /\ todo' \subseteq todo /\ Dooms'
            /\ \A r \in todo' : /\ tombs'[r] = tombs[r]
                                /\ \A m : m.repo = r => (m \in Entries(tombs[r]) => m \in Entries(tombs[r])')
  PROVE  LoopKnows'
<1>1. CASE ~Cleaning'
  BY <1>1 DEF LoopKnows
<1>2. CASE /\ Cleaning /\ list' = list /\ todo' \subseteq todo /\ Dooms'
           /\ \A r \in todo' : /\ tombs'[r] = tombs[r]
                               /\ \A m : m.repo = r => (m \in Entries(tombs[r]) => m \in Entries(tombs[r])')
  <2>1. \A r \in todo' : tombs'[r] # NoShard => \E m \in Entries(tombs[r])' : m.repo = r
    BY <1>2 DEF LoopKnows
  <2> QED
    BY <1>2, <2>1 DEF LoopKnows
<1> QED
  BY <1>1, <1>2

LEMMA StartCleanupKnows ==
  ASSUME IInv, StartCleanup PROVE LoopKnows'
<1>1. /\ NoJobs
      /\ tombs' = [r \in Repos |-> IF r \notin list \/ InIndex(r) \/ (InTrash(r) /\ r \notin Outdated)
                                   THEN NoShard ELSE LatestTombstone(r)]
      /\ Advance(list, {r \in Repos : InIndex(r)} \ TwoNamed)
      /\ UNCHANGED <<compound, list, job>>
      /\ \A c \in DOMAIN compound : \A m :
           m.repo \notin TwoNamed => (m \in Entries(c)' <=> m \in Entries(c))
  BY StartCleanupFacts
<1>2. \A j \in Jobs : ~Pends(j)'
  BY <1>1, CleaningJobs DEF Pends
<1>3. todo' = list'
  BY <1>1 DEF Advance
<1>4. ASSUME NEW r \in todo', tombs'[r] # NoShard PROVE \E m \in Entries(tombs[r])' : m.repo = r
  <2>1. r \in Repos
    BY <1>1, <1>3 DEF IInv, TypeOK, LoopOK
  <2>2. PICK t : t = LatestTombstone(r)
    OBVIOUS
  <2>3. tombs'[r] = t /\ t # NoShard /\ ~InIndex(r)
    BY <1>1, <1>4, <2>1, <2>2
  <2>4. t \in DOMAIN compound /\ \E m \in Entries(t) : m.repo = r
    BY <2>1, <2>2, <2>3, LatestFacts
  <2>5. r \notin TwoNamed
    <3>1. NamesInIndex(r) = {}
      BY <2>1, <2>3, Words DEF IndexWords
    <3> QED
      BY <2>1, <3>1, OneNamed
  <2>6. \E m \in Entries(t)' : m.repo = r
    BY <1>1, <2>4, <2>5
  <2>7. Entries(tombs[r])' = Entries(t)'
    BY <2>3 DEF Entries
  <2> QED
    BY <2>6, <2>7
<1> QED
  BY <1>2, <1>3, <1>4, StartCleanupDooms DEF LoopKnows

LEMMA RestoreRepoKnows ==
  ASSUME IInv, LoopKnows, NEW r \in Repos, RestoreRepo(r) PROVE LoopKnows'
<1>1. /\ phase = "restore" /\ r \in todo /\ Cleaning /\ todo' = todo \ {r}
      /\ tombs' = [tombs EXCEPT ![r] = NoShard] /\ UNCHANGED <<compound, job, list>>
  BY DEF RestoreRepo, Cleaning, Advance
<1>2. \A j \in Jobs : ~Pends(j)'
  BY <1>1, CleaningJobs DEF Pends, IInv, LockOK
<1>3. \A q \in todo' : tombs'[q] = tombs[q] /\ q # r
  BY <1>1 DEF IInv, TypeOK, LoopOK
<1>4. CASE meta' = meta
  <2>1. \A c : Entries(c)' = Entries(c)
    BY <1>1, <1>4 DEF Entries
  <2>2. \A q \in todo' : Entries(tombs[q])' = Entries(tombs[q])
    BY <1>1, <1>3, <1>4 DEF Entries
  <2> QED
    BY <1>1, <1>2, <1>3, <2>2, RestoreRepoDooms, NoJobsKnows
<1>5. CASE tombs[r] # NoShard /\ meta' = Put(meta, tombs[r], Mark(Entries(tombs[r]), {r}, FALSE))
  <2>1. PICK c : c = tombs[r]
    OBVIOUS
  <2>2. c \in DOMAIN compound /\ FALSE \in BOOLEAN
    BY <1>1, <1>5, <2>1 DEF IInv, CleaningOK
  <2>3. \A d \in DOMAIN compound : \A m : m.repo # r => (m \in Entries(d)' <=> m \in Entries(d))
    <3>1. meta' = Put(meta, c, Mark(Entries(c), {r}, FALSE)) /\ compound' = compound
      BY <1>1, <1>5, <2>1
    <3> QED
      BY <2>2, <3>1, TombstoneMarks
  <2>4. ASSUME NEW q \in todo', NEW m, m.repo = q, m \in Entries(tombs[q]), tombs[q] # NoShard
        PROVE  m \in Entries(tombs[q])'
    <3>1. PICK d : d = tombs[q]
      OBVIOUS
    <3>2. d \in DOMAIN compound /\ tombs'[q] = d /\ q # r
      BY <1>1, <1>3, <2>4, <3>1 DEF IInv, CleaningOK
    <3>3. m \in Entries(d)'
      BY <2>3, <2>4, <3>1, <3>2
    <3>4. Entries(tombs[q])' = Entries(d)'
      BY <3>2 DEF Entries
    <3> QED
      BY <3>3, <3>4
  <2>5. \A q \in todo' : tombs'[q] # NoShard => \E m \in Entries(tombs[q])' : m.repo = q
    BY <1>1, <1>3, <2>4 DEF LoopKnows
  <2> QED
    BY <1>1, <1>2, <2>5, RestoreRepoDooms DEF LoopKnows
<1> QED
  BY <1>4, <1>5 DEF RestoreRepo

LEMMA DiscardKnows ==
  ASSUME SInv, NEW r \in Repos, Discard(r) PROVE LoopKnows'
<1>1. phase = "discard" /\ todo' = {} /\ Cleaning /\ job' = job
  BY DEF Discard, Cleaning, Advance
<1>2. \A j \in Jobs : ~Pends(j)'
  BY <1>1, CleaningJobs DEF Pends, SInv, NInv, IInv, LockOK
<1> QED
  BY <1>1, <1>2, DiscardRepoSeen DEF LoopKnows

LEMMA CrashMovingKnows ==
  ASSUME IInv, LoopKnows, NEW r \in Repos, CrashMoving(r) PROVE LoopKnows'
<1>1. phase' = "idle" /\ job' = [j \in Jobs |-> IdleJob]
  BY DEF CrashMoving, Restart
<1>2. ~Cleaning' /\ \A j \in Jobs : ~Pends(j)'
  BY <1>1, IdleJobType DEF Cleaning, Pends
<1> QED
  BY <1>2, NoJobsKnows

LEMMA ExclusiveKnows ==
  ASSUME IInv, LoopKnows, Exclusive, UNCHANGED <<cleanVars, job>> PROVE LoopKnows'
<1>1. ~Cleaning' /\ \A j \in Jobs : ~Pends(j)'
  BY CleaningJobs DEF Exclusive, Free, Cleaning, Pends, cleanVars
<1> QED
  BY <1>1, NoJobsKnows

LEMMA CrashKnows ==
  ASSUME IInv, LoopKnows, Crash PROVE LoopKnows'
<1>1. phase' = "idle" /\ job' = [j \in Jobs |-> IdleJob]
  BY DEF Crash, Restart
<1>2. ~Cleaning' /\ \A j \in Jobs : ~Pends(j)'
  BY <1>1, IdleJobType DEF Cleaning, Pends
<1> QED
  BY <1>2, NoJobsKnows

LEMMA NextKnows == SInv /\ [Next]_vars => SInv'
<1> SUFFICES ASSUME SInv, [Next]_vars PROVE SInv'
  OBVIOUS
<1>1. NInv /\ IInv /\ LoopKnows
  BY DEF SInv, NInv
<1>2. NInv'
  BY <1>1, NextNewest
<1>3. LoopKnows'
  <2>1. CASE SyncList
    <3>1. simple' = simple /\ job' = job /\ ~Cleaning'
      BY <2>1 DEF SyncList, dirVars, Cleaning
    <3> QED
      BY <1>1, <3>1, QuietKnows DEF Pends
  <2>2. CASE StartCleanup
    BY <1>1, <2>2, StartCleanupKnows
  <2>3. CASE Cleanup
    BY <1>1, <2>3, RestoreRepoKnows, DiscardKnows DEF Cleanup
  <2>4. CASE Merge
    BY <1>1, <2>4, ExclusiveKnows DEF Merge
  <2>5. CASE Vacuum
    BY <1>1, <2>5, ExclusiveKnows DEF Vacuum, RemoveTombstones, Explode
  <2>6. CASE Crash
    BY <1>1, <2>6, CrashKnows
  <2>7. CASE (\E r \in Repos : Change(r) \/ Age(r)) \/ UNCHANGED vars
    <3>1. UNCHANGED <<simple, compound, meta, list, cleanVars, job, faults, hurt, stale, emptied>>
      BY <2>7 DEF Change, Age, vars, dirVars, counters, history
    <3> QED
      BY <1>1, <3>1, QuietKnows DEF Pends
  <2>8. ASSUME NEW r \in Repos, CrashMoving(r) PROVE LoopKnows'
    BY <1>1, <2>8, CrashMovingKnows
  <2>9. ASSUME NEW j \in Jobs, StartJob(j) \/ JobFails(j) \/ JobStep(j) \/ \E r \in Repos : Pop(j, r)
        PROVE  LoopKnows'
    BY <1>1, <2>9, JobKnows, PublishKnows DEF JobStep
  <2> QED
    BY <2>1, <2>2, <2>3, <2>4, <2>5, <2>6, <2>7, <2>8, <2>9 DEF Next
<1> QED
  BY <1>2, <1>3 DEF SInv

LEMMA InitSeen == Init => SInv /\ Seen!ServedInit
<1> SUFFICES ASSUME Init PROVE SInv /\ Seen!ServedInit
  OBVIOUS
<1>1. SInv
  BY InitNewest, InitKnows DEF SInv
<1>2. ASSUME NEW r \in Repos PROVE Served(r) = {} /\ OnDisk(r) = {}
  <2>1. \A v : v \notin Served(r) /\ v \notin OnDisk(r)
    BY VWords DEF VersionWords, Init
  <2> QED
    BY <2>1
<1>3. ~Cleaning /\ ~(faults > 0) /\ hurt \cup stale = {} /\ list = {} /\ emptied = {}
  BY DEF Init, Cleaning
<1> QED
  BY <1>1, <1>2, <1>3 DEF Seen!ServedInit

LEMMA NextSeen == SInv /\ NInv' /\ [Next]_vars => [Seen!ServedNext]_Seen!indexVars
<1> SUFFICES ASSUME SInv, NInv', [Next]_vars PROVE [Seen!ServedNext]_Seen!indexVars
  OBVIOUS
<1>1. NInv /\ IInv
  BY DEF SInv, NInv
<1>2. CASE SyncList
  BY <1>1, <1>2, SyncListSeen DEF Seen!ServedNext
<1>3. CASE StartCleanup
  BY <1>1, <1>3, StartCleanupSeen DEF Seen!ServedNext
<1>4. CASE Cleanup
  <2>1. PICK r \in Repos : RestoreRepo(r) \/ Discard(r)
    BY <1>4 DEF Cleanup
  <2> QED
    BY <2>1, RestoreRepoSeen, DiscardRepoSeen DEF Seen!ServedNext
<1>5. CASE Merge
  BY <1>1, <1>5, MergeSeen DEF Seen!ServedNext
<1>6. CASE Vacuum
  <2>1. PICK c \in DOMAIN compound : RemoveTombstones(c) \/ Explode(c)
    BY <1>6 DEF Vacuum
  <2> QED
    BY <1>1, <2>1, RemoveTombstonesSeen, ExplodeSeen DEF Seen!ServedNext
<1>7. CASE Crash \/ \E r \in Repos : CrashMoving(r)
  BY <1>1, <1>7, CrashSeen, CrashMovingSeen DEF Seen!ServedNext
<1>8. CASE \E j \in Jobs : JobFails(j)
  BY <1>1, <1>8, JobFailsSeen DEF Seen!ServedNext
<1>9. ASSUME NEW j \in Jobs, Publish(j) \/ WriteMeta(j) PROVE Seen!ServedNext
  <2>1. job[j].repo \in Repos /\ job[j].ver \in Versions
    BY <1>1, <1>9 DEF Publish, WriteMeta, IInv, TypeOK, JobsTyped, JobOK
  <2>2. Seen!Index(job[j].repo, job[j].ver) \/ Seen!Retire(job[j].repo) \/ Seen!Fault
    BY <1>1, <1>9, PublishSeen, WriteMetaSeen
  <2> QED
    BY <2>1, <2>2 DEF Seen!ServedNext
<1>10. CASE \/ UNCHANGED vars \/ \E r \in Repos : Change(r) \/ Age(r)
            \/ \E j \in Jobs : StartJob(j) \/ ReadMeta(j) \/ \E r \in Repos : Pop(j, r)
  <2>1. UNCHANGED <<simple, trash, compound, meta, list, cleanVars, faults, hurt, stale, emptied>>
    BY <1>10 DEF vars, dirVars, counters, history, Change, Age, StartJob, ReadMeta, Pop
  <2> QED
    BY <2>1, QuietSeen
<1> QED
  BY <1>2, <1>3, <1>4, <1>5, <1>6, <1>7, <1>8, <1>9, <1>10 DEF Next, JobStep

\* What users see of the index directory is what ServedIndex promises.
THEOREM IndexRefined == Spec => ImplementsServedIndex
<1>1. Spec => []SInv
  <2>1. Init => SInv
    BY InitSeen
  <2> QED
    BY <2>1, NextKnows, PTL DEF Spec
<1>2. SInv => NInv
  BY DEF SInv
<1>3. Init => Seen!ServedInit
  BY InitSeen
<1> QED
  BY <1>1, <1>2, <1>3, NextSeen, PTL DEF Spec, ImplementsServedIndex, Seen!ServedSpec
=============================================================================
