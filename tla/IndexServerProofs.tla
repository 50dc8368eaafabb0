------------------------- MODULE IndexServerProofs -------------------------
(***************************************************************************)
(* zoekt-sourcegraph-indexserver for any number of goroutines, any          *)
(* repositories and any options: indexMutex implements the abstract         *)
(* RepoLock, and the sync loop and its jobs, which run under that lock, lose *)
(* no update and report nothing false, whatever the order of rounds, jobs,  *)
(* cleanups, faults and changes on Sourcegraph.                            *)
(***************************************************************************)
EXTENDS SyncLoop, IndexMutex, TLAPS

-----------------------------------------------------------------------------
(* IndexMutex: the inductive invariant.                                    *)

\* The points of With at which indexMu is held for reading.
ReadHeld == {"check", "run", "skip", "done"}

\* The lock's own state agrees with where the goroutines are.
LockExact ==
  /\ readers = {p \in Procs : pc[p] \in ReadHeld}
  /\ parked = {p \in Procs : pc[p] = "parked"}
  /\ \A p \in Procs : pc[p] \in {"drain", "global"} <=> writer = p
  /\ \A p \in Procs : pc[p] = "global" => readers = {}

\* OneJobPerRepo and RunningExact each need the other: the check-and-set is
\* only safe because running names every job, and the delete only because no
\* other job has the name.
MutexInv == TypeOK /\ LockExact /\ RunningExact /\ OneJobPerRepo

LEMMA MutexInit == Init => MutexInv
  BY NoProcAssumption
  DEF Init, MutexInv, TypeOK, States, LockExact, ReadHeld, RunningExact, OneJobPerRepo

LEMMA MutexTypeStep == MutexInv /\ [Next]_vars => TypeOK'
  BY DEF MutexInv, TypeOK, States, Next, vars, Inside, CallWith, RLock, CheckRunning,
         ReleaseRunning, ReturnWith, RUnlock, CallGlobal, Announce, EnterGlobal,
         ReturnGlobal, WUnlock

LEMMA LockStep == MutexInv /\ [Next]_vars => LockExact'
<1> SUFFICES ASSUME MutexInv, [Next]_vars PROVE LockExact'
  OBVIOUS
<1> USE NoProcAssumption DEF MutexInv, TypeOK, States, LockExact, ReadHeld
<1>1. CASE UNCHANGED vars
  BY <1>1 DEF vars
<1>2. ASSUME NEW p \in Procs, NEW n \in Names, CallWith(p, n)
      PROVE  LockExact'
  BY <1>2 DEF CallWith, RLock
<1>3. ASSUME NEW p \in Procs, CallGlobal(p)
      PROVE  LockExact'
  BY <1>3 DEF CallGlobal
<1>4. ASSUME NEW p \in Procs, CheckRunning(p)
      PROVE  LockExact'
  BY <1>4 DEF CheckRunning
<1>5. ASSUME NEW p \in Procs, ReleaseRunning(p)
      PROVE  LockExact'
  BY <1>5 DEF ReleaseRunning
<1>6. ASSUME NEW p \in Procs, ReturnWith(p)
      PROVE  LockExact'
  BY <1>6 DEF ReturnWith, RUnlock
<1>7. ASSUME NEW p \in Procs, Announce(p)
      PROVE  LockExact'
  BY <1>7 DEF Announce
<1>8. ASSUME NEW p \in Procs, EnterGlobal(p)
      PROVE  LockExact'
  BY <1>8 DEF EnterGlobal
<1>9. ASSUME NEW p \in Procs, ReturnGlobal(p)
      PROVE  LockExact'
  BY <1>9 DEF ReturnGlobal, WUnlock
<1> QED
  BY <1>1, <1>2, <1>3, <1>4, <1>5, <1>6, <1>7, <1>8, <1>9 DEF Next, Inside

LEMMA RunningStep == MutexInv /\ [Next]_vars => RunningExact' /\ OneJobPerRepo'
<1> SUFFICES ASSUME MutexInv, [Next]_vars PROVE RunningExact' /\ OneJobPerRepo'
  OBVIOUS
<1> USE DEF MutexInv, TypeOK, States, RunningExact, OneJobPerRepo
<1>1. CASE UNCHANGED vars
  BY <1>1 DEF vars
<1>2. ASSUME NEW p \in Procs, NEW n \in Names, CallWith(p, n)
      PROVE  RunningExact' /\ OneJobPerRepo'
  BY <1>2 DEF CallWith, RLock
<1>3. ASSUME NEW p \in Procs, CallGlobal(p)
      PROVE  RunningExact' /\ OneJobPerRepo'
  BY <1>3 DEF CallGlobal
<1>4. ASSUME NEW p \in Procs, CheckRunning(p)
      PROVE  RunningExact' /\ OneJobPerRepo'
  BY <1>4 DEF CheckRunning
<1>5. ASSUME NEW p \in Procs, ReleaseRunning(p)
      PROVE  RunningExact' /\ OneJobPerRepo'
  BY <1>5 DEF ReleaseRunning
<1>6. ASSUME NEW p \in Procs, ReturnWith(p)
      PROVE  RunningExact' /\ OneJobPerRepo'
  BY <1>6 DEF ReturnWith, RUnlock
<1>7. ASSUME NEW p \in Procs, Announce(p) \/ EnterGlobal(p)
      PROVE  RunningExact' /\ OneJobPerRepo'
  BY <1>7 DEF Announce, EnterGlobal
<1>8. ASSUME NEW p \in Procs, ReturnGlobal(p)
      PROVE  RunningExact' /\ OneJobPerRepo'
  BY <1>8 DEF ReturnGlobal, WUnlock, LockExact
<1> QED
  BY <1>1, <1>2, <1>3, <1>4, <1>5, <1>6, <1>7, <1>8 DEF Next, Inside

LEMMA MutexInvariance == Spec => []MutexInv
<1>1. MutexInv /\ [Next]_vars => MutexInv'
  BY MutexTypeStep, LockStep, RunningStep DEF MutexInv
<1> QED
  BY MutexInit, <1>1, PTL DEF Spec

\* Every variable keeps its type, whatever the goroutines call.
THEOREM MutexTypeCorrect == Spec => []TypeOK
<1>1. MutexInv => TypeOK
  BY DEF MutexInv
<1> QED
  BY MutexInvariance, <1>1, PTL

\* Global's f runs alone: index_mutex.go:65-66.
THEOREM GlobalIsExclusive == Spec => []GlobalExclusive
<1>1. MutexInv => GlobalExclusive
  BY DEF MutexInv, LockExact, GlobalExclusive, ReadHeld
<1> QED
  BY MutexInvariance, <1>1, PTL

\* At most one f per repository, and no running entry outlives its f:
\* index_mutex.go:28-29, 50-55.
THEOREM OneJobAndNoLeak == Spec => [](OneJobPerRepo /\ RunningExact)
<1>1. MutexInv => OneJobPerRepo /\ RunningExact
  BY DEF MutexInv
<1> QED
  BY MutexInvariance, <1>1, PTL

-----------------------------------------------------------------------------
(* Refinement.                                                             *)

\* What each pc contributes to the abstract state.
LEMMA HeldBar ==
  ASSUME TypeOK, NEW p \in Procs
  PROVE  /\ heldBar[p] = GlobalLock <=> pc[p] = "global"
         /\ \A n \in Names : heldBar[p] = n <=> pc[p] = "run" /\ name[p] = n
         /\ heldBar[p] = NoLock <=> pc[p] \notin {"run", "global"}
  BY LockAssumption DEF TypeOK, States, heldBar

\* A step that leaves the jobs and their names alone is a stutter.
LEMMA Stutter ==
  ASSUME \A q \in Procs : \/ pc'[q] = pc[q] /\ name'[q] = name[q]
                          \/ pc[q] \notin {"run", "global"} /\ pc'[q] \notin {"run", "global"}
  PROVE  heldBar' = heldBar
  BY DEF heldBar

LEMMA StepRefines == MutexInv /\ [Next]_vars => [Abstract!RepoLockNext]_heldBar
<1> SUFFICES ASSUME MutexInv, [Next]_vars PROVE [Abstract!RepoLockNext]_heldBar
  OBVIOUS
<1> USE DEF MutexInv
<1>1. CASE UNCHANGED vars
  BY <1>1 DEF vars, heldBar
<1>2. ASSUME NEW p \in Procs, NEW n \in Names, CallWith(p, n)
      PROVE  heldBar' = heldBar
  BY <1>2, Stutter DEF CallWith, RLock, TypeOK
<1>3. ASSUME NEW p \in Procs, CallGlobal(p)
      PROVE  heldBar' = heldBar
  BY <1>3, Stutter DEF CallGlobal, TypeOK
<1>4. ASSUME NEW p \in Procs, CheckRunning(p)
      PROVE  heldBar' = heldBar \/ Abstract!StartRepo(p, name[p])
  <2>1. CASE name[p] \in running
    BY <1>4, <2>1, Stutter DEF CheckRunning, TypeOK
  <2>2. CASE name[p] \notin running
    <3>1. heldBar' = [heldBar EXCEPT ![p] = name[p]]
      BY <1>4, <2>2 DEF CheckRunning, TypeOK, heldBar
    <3>2. heldBar[p] = NoLock
      BY <1>4, HeldBar DEF CheckRunning
    <3>3. \A q \in Procs : heldBar[q] # name[p]
      BY <2>2, HeldBar DEF RunningExact, TypeOK
    <3>4. \A q \in Procs : heldBar[q] # GlobalLock
      BY <1>4, HeldBar DEF CheckRunning, LockExact, ReadHeld
    <3> QED
      BY <3>1, <3>2, <3>3, <3>4 DEF Abstract!StartRepo
  <2> QED
    BY <2>1, <2>2
<1>5. ASSUME NEW p \in Procs, ReleaseRunning(p)
      PROVE  Abstract!Finish(p)
  <2>1. heldBar' = [heldBar EXCEPT ![p] = NoLock]
    BY <1>5 DEF ReleaseRunning, TypeOK, heldBar
  <2> QED
    BY <1>5, <2>1, HeldBar DEF ReleaseRunning, Abstract!Finish
<1>6. ASSUME NEW p \in Procs, ReturnWith(p)
      PROVE  heldBar' = heldBar
  BY <1>6, Stutter DEF ReturnWith, TypeOK
<1>7. ASSUME NEW p \in Procs, Announce(p)
      PROVE  heldBar' = heldBar
  BY <1>7, Stutter DEF Announce, TypeOK
<1>8. ASSUME NEW p \in Procs, EnterGlobal(p)
      PROVE  Abstract!StartGlobal(p)
  <2>1. heldBar' = [heldBar EXCEPT ![p] = GlobalLock]
    BY <1>8 DEF EnterGlobal, TypeOK, heldBar
  <2>2. \A q \in Procs : heldBar[q] = NoLock
    BY <1>8, HeldBar DEF EnterGlobal, LockExact, ReadHeld
  <2> QED
    BY <2>1, <2>2 DEF Abstract!StartGlobal
<1>9. ASSUME NEW p \in Procs, ReturnGlobal(p)
      PROVE  Abstract!Finish(p)
  <2>1. heldBar' = [heldBar EXCEPT ![p] = NoLock]
    BY <1>9 DEF ReturnGlobal, WUnlock, TypeOK, LockExact, heldBar
  <2> QED
    BY <1>9, <2>1, HeldBar DEF ReturnGlobal, Abstract!Finish
<1> QED
  BY <1>1, <1>2, <1>3, <1>4, <1>5, <1>6, <1>7, <1>8, <1>9
  DEF Next, Inside, TypeOK, Abstract!RepoLockNext

\* indexMutex implements RepoLock: the comment of index_mutex.go:10-14 is what
\* the code does, for any number of goroutines and repositories.
THEOREM Refinement == Spec => ImplementsRepoLock
<1>1. Init => Abstract!RepoLockInit
  BY DEF Init, heldBar, Abstract!RepoLockInit
<1> QED
  BY MutexInvariance, <1>1, StepRefines, PTL
  DEF Spec, ImplementsRepoLock, Abstract!RepoLockSpec

-----------------------------------------------------------------------------
(* SyncLoop.                                                               *)

\* The stages of a job whose f is running.
Running == {"start", "prior", "fetch", "index", "report", "ok", "fail"}

Options == {Zero} \cup UNION {Confs[r] : r \in Repos}

Jobs == [r : Names, c : Options, inc : BOOLEAN,
         ctx : {"background", "root", "reindex", "cancelled"},
         stage : {"none", "options", "with", "skip"} \cup Running, hung : {"no", "hung", "quit"}]

\* A shard may be of options that Sourcegraph no longer gives.
SyncTypeOK ==
  /\ held \in [Procs -> Names \cup {NoLock, GlobalLock}]
  /\ conf \in [Repos -> Options] /\ opts \in [Repos -> Options] /\ DOMAIN disk = Repos
  /\ listed \subseteq Repos /\ fp \subseteq Repos /\ startFp \subseteq Repos
  /\ ids \subseteq Repos /\ todo \subseteq Repos
  /\ steady \subseteq Repos /\ dropped \subseteq Repos
  /\ job \in [Procs -> Jobs]

-----------------------------------------------------------------------------
(* The fingerprint.                                                        *)

\* The queue has the current options of the steady repositories outside S, those whose
\* item failed aside.
Covered(S) == \A r \in steady \ (S \cup dropped) : opts[r] = conf[r]

\* Within a round the first batch advances the fingerprint and a failing batch takes it
\* back; the repositories of the batches to come are not covered yet.
RoundCovered ==
  /\ lpc # "options" => Covered(fp)
  /\ lpc = "options" => /\ Covered(startFp) /\ Covered(fp \cup todo)
                        /\ first => steady \subseteq todo

\* A repository whose options arrived stays in the queue while it is listed.
SteadyKnown == steady \subseteq known

-----------------------------------------------------------------------------
(* The jobs.                                                               *)

\* What RepoLock promises.
Exclusive ==
  \A p, q \in Procs : (p # q /\ held[p] # NoLock)
                        => /\ held[q] # held[p]
                           /\ held[p] = GlobalLock => held[q] = NoLock

\* Job j and what its goroutine holds: a job of the zero options has no tenant, and fails
\* before it writes.
JobOK(j, h) ==
  /\ j.r = NoRepo => j.stage # "options" /\ j.c.t = FALSE
  /\ j.stage \in Running => h = j.r
  /\ j.stage \in {"prior", "fetch", "index", "report"} => j.r \in Repos

JobsOK == \A p \in Procs : JobOK(job[p], held[p])

SyncInv == SyncTypeOK /\ RoundCovered /\ SteadyKnown /\ Exclusive /\ JobsOK /\ ReportTrue

\* The server starts with nothing in the queue and no job.
LEMMA SyncInitInv == SyncInit => SyncInv
<1> SUFFICES ASSUME SyncInit PROVE SyncInv
  OBVIOUS
<1> USE NamesAssumption, LockAssumption DEF SyncInit
<1>1. SyncTypeOK
  BY ConfAssumption, LeftoversAssumption DEF SyncTypeOK, RepoLockInit, Options, Jobs, Running, NoJob
<1>2. RoundCovered /\ SteadyKnown
  BY DEF RoundCovered, Covered, SteadyKnown
<1>3. Exclusive /\ JobsOK /\ ReportTrue
  BY DEF Exclusive, RepoLockInit, JobsOK, JobOK, Running, ReportTrue, Stage, NoJob, Zero
<1> QED
  BY <1>1, <1>2, <1>3 DEF SyncInv

-----------------------------------------------------------------------------
(* Sourcegraph, the queue and the sync loop.                               *)

\* The steps of the loop, of Sourcegraph and of the queue, which no job takes part in.
RoundStep ==
  \/ Loop \/ ListFails
  \/ \E r \in Repos : GetOptionsFails(r) \/ GetOptionsItemError(r)
  \/ \E r \in Repos : BackoffEnds(r)
  \/ \E r \in Repos : Assign(r) \/ \E c \in Confs[r] : Change(r, c)

\* MaybeRemoveMissing removes no listed repository whose options arrived: the key it
\* deletes is that of an item whose own options say it is not listed.
LEMMA SteadyStays ==
  ASSUME SyncInv, NEW listing \in SUBSET Repos, NEW r \in steady \cap listing
  PROVE r \in known \ {OptsId(q) : q \in Removed(listing)}
<1>1. SUFFICES ASSUME NEW q \in Removed(listing), r = OptsId(q) PROVE FALSE
  BY DEF SyncInv, SteadyKnown
<1>2. OptsId(q) \notin listing
  BY DEF Removed
<1> QED
  BY <1>1, <1>2

\* A round keeps every claim about the queue and touches neither the lock nor the shards.
LEMMA RoundKeeps ==
  ASSUME SyncInv, RoundStep
  PROVE /\ SyncTypeOK' /\ RoundCovered' /\ SteadyKnown'
        /\ UNCHANGED <<held, job, disk>>
<1> USE NamesAssumption, LockAssumption DEF SyncInv, SyncTypeOK, RoundCovered, Covered, SteadyKnown
<1>1. ASSUME NEW reset \in BOOLEAN, List(reset)
      PROVE /\ SyncTypeOK' /\ RoundCovered' /\ SteadyKnown'
            /\ UNCHANGED <<held, job, disk>>
  <2>1. /\ lpc = "tick" /\ lpc' = "options" /\ ids' = listed /\ todo' = listed /\ first' = TRUE
        /\ fp' = (IF reset THEN Repos ELSE fp) /\ startFp' = fp'
        /\ steady' = steady \cap listed
        /\ known' = known \ {OptsId(r) : r \in Removed(listed)}
        /\ opts' = [r \in Repos |-> IF r \in known' THEN opts[r] ELSE Zero]
        /\ UNCHANGED <<held, conf, listed, dropped, disk, job>>
    BY <1>1 DEF List, sgVars, dirVars
  <2>2. steady' \subseteq known'
    BY <2>1, SteadyStays
  <2>3. SyncTypeOK'
    BY <2>1 DEF Options
  <2>4. \A r \in steady' : opts'[r] = opts[r]
    BY <2>1, <2>2
  <2> QED
    BY <2>1, <2>2, <2>3, <2>4
<1>2. ASSUME NEW r \in Repos, GetOptions(r) \/ ForceOptions(r)
      PROVE /\ SyncTypeOK' /\ RoundCovered' /\ SteadyKnown'
            /\ UNCHANGED <<held, job, disk>>
  BY <1>2 DEF GetOptions, ForceOptions, AddOrUpdate, Arrived, queueVars, sgVars, dirVars
<1>3. ASSUME NEW r \in Repos, GetOptionsFails(r) \/ GetOptionsItemError(r)
      PROVE /\ SyncTypeOK' /\ RoundCovered' /\ SteadyKnown'
            /\ UNCHANGED <<held, job, disk>>
  BY <1>3 DEF GetOptionsFails, GetOptionsItemError, queueVars, sgVars, dirVars
<1>4. CASE Bump \/ EndRound \/ ListFails
  BY <1>4 DEF Bump, EndRound, ListFails, loopVars, queueVars, sgVars, dirVars
<1>5. ASSUME NEW r \in Repos, Assign(r) \/ BackoffEnds(r)
      PROVE /\ SyncTypeOK' /\ RoundCovered' /\ SteadyKnown'
            /\ UNCHANGED <<held, job, disk>>
  BY <1>5 DEF Assign, BackoffEnds, loopVars, queueVars, sgVars, dirVars
<1>6. ASSUME NEW r \in Repos, NEW c \in Confs[r], Change(r, c)
      PROVE /\ SyncTypeOK' /\ RoundCovered' /\ SteadyKnown'
            /\ UNCHANGED <<held, job, disk>>
  BY <1>6 DEF Change, Options, queueVars, dirVars
<1> QED
  BY <1>1, <1>2, <1>3, <1>4, <1>5, <1>6 DEF RoundStep, Loop

-----------------------------------------------------------------------------
(* The jobs and the lock.                                                  *)

\* What a step that leaves the queue's options and the loop alone has to keep.
Kept == SyncTypeOK /\ Exclusive /\ JobsOK /\ ReportTrue

\* What the steps of jobs leave alone; SetIndexed may bring an item back.
LoopFrame == UNCHANGED <<conf, listed, fp, lpc, ids, todo, startFp, first, steady, dropped,
                      opts>> /\ known \subseteq known'

\* A step of p's job that keeps the lock.  Only p can write the shards of a repository while
\* it holds the repository's name.
LEMMA JobMoves ==
  ASSUME Kept, LoopFrame, UNCHANGED held,
         NEW p \in Procs, NEW j \in Jobs, job' = [job EXCEPT ![p] = j], JobOK(j, held[p]),
         \/ UNCHANGED disk
         \/ job[p].stage \in Running /\ \E c : disk' = [disk EXCEPT ![job[p].r] = c],
         j.stage = "report" => disk'[j.r] = j.c
  PROVE Kept'
<1> USE DEF Kept
<1>1. SyncTypeOK'
  BY DEF SyncTypeOK, LoopFrame
<1>2. Exclusive'
  BY DEF Exclusive
<1>3. job'[p] = j /\ \A q \in Procs \ {p} : job'[q] = job[q]
  BY DEF SyncTypeOK
<1>4. JobsOK'
  BY <1>3 DEF JobsOK, JobOK
<1>5. ReportTrue'
  <2> SUFFICES ASSUME NEW q \in Procs \ {p}, job[q].stage = "report"
               PROVE disk'[job[q].r] = job[q].c
    BY <1>3 DEF ReportTrue, Stage
  <2>1. disk[job[q].r] = job[q].c /\ held[q] = job[q].r /\ job[q].r \in Repos
    BY DEF ReportTrue, Stage, JobsOK, JobOK, Running
  <2>2. job[p].stage \in Running => job[p].r # job[q].r
    BY <2>1, NamesAssumption, LockAssumption DEF JobsOK, JobOK, Exclusive
  <2> QED
    BY <2>1, <2>2 DEF SyncTypeOK
<1> QED
  BY <1>1, <1>2, <1>4, <1>5

\* The steps that neither run a command nor take or release the lock.
LEMMA RequestKeeps ==
  ASSUME SyncInv,
         \/ \E w \in Workers, r \in Repos : Pop(w, r)
         \/ \E r \in Repos, ctx \in {"root", "reindex"} : Reindex(r, ctx)
         \/ HandlerReturns \/ ForceIndex \/ CallDelete \/ Pause \/ Resume
  PROVE Kept' /\ LoopFrame /\ UNCHANGED held
<1> USE NamesAssumption, LockAssumption, ProcsAssumption
<1>1. Kept
  BY DEF SyncInv, Kept
<1>2. NoJob \in Jobs /\ JobOK(NoJob, NoLock) /\ \A p \in Procs : job[p] \in Jobs /\ JobOK(job[p], held[p])
  BY DEF SyncInv, SyncTypeOK, JobsOK, JobOK, NoJob, Jobs, Zero, Options, Running
<1>3. ASSUME NEW w \in Workers, NEW r \in Repos, Pop(w, r)
      PROVE Kept' /\ LoopFrame /\ UNCHANGED held
  <2> DEFINE j == [NoJob EXCEPT !.r = OptsId(r), !.c = opts[r], !.stage = "with"]
  <2>1. /\ w \in Procs /\ job' = [job EXCEPT ![w] = j]
        /\ LoopFrame /\ UNCHANGED <<held, disk>>
    BY <1>3 DEF Pop, LoopFrame, loopVars, sgVars, dirVars
  <2>2. j \in Jobs
    BY DEF SyncInv, SyncTypeOK, NoJob, Jobs, OptsId
  <2>3. JobOK(j, held[w]) /\ j.stage # "report"
    BY DEF JobOK, NoJob, Running, OptsId, Zero
  <2> QED
    BY <1>1, <2>1, <2>2, <2>3, JobMoves
<1>4. ASSUME NEW r \in Repos, NEW ctx \in {"root", "reindex"}, Reindex(r, ctx)
      PROVE Kept' /\ LoopFrame /\ UNCHANGED held
  <2> DEFINE j == [NoJob EXCEPT !.r = r, !.ctx = ctx, !.inc = FALSE, !.stage = "options"]
  <2>1. /\ Forcer \in Procs /\ job' = [job EXCEPT ![Forcer] = j]
        /\ LoopFrame /\ UNCHANGED <<held, disk>>
    BY <1>4 DEF Reindex, LoopFrame, loopVars, sgVars, queueVars, dirVars
  <2>2. j \in Jobs
    BY DEF NoJob, Jobs, Options
  <2>3. JobOK(j, held[Forcer]) /\ j.stage # "report"
    BY DEF JobOK, NoJob, Running
  <2> QED
    BY <1>1, <2>1, <2>2, <2>3, JobMoves
<1>5. CASE HandlerReturns
  <2> DEFINE j == [job[Forcer] EXCEPT !.ctx = "cancelled"]
  <2>1. /\ Forcer \in Procs /\ job' = [job EXCEPT ![Forcer] = j]
        /\ LoopFrame /\ UNCHANGED <<held, disk>>
    BY <1>5 DEF HandlerReturns, LoopFrame, loopVars, sgVars, queueVars, dirVars
  <2>2. j \in Jobs /\ JobOK(j, held[Forcer])
    BY <1>2, <2>1 DEF JobOK, Jobs
  <2>3. j.stage = "report" => disk[j.r] = j.c
    BY <1>2, <2>1 DEF SyncInv, ReportTrue, Stage, Jobs
  <2> QED
    BY <1>1, <2>1, <2>2, <2>3, JobMoves
<1>6. CASE ForceIndex
  <2>1. PICK j \in {NoJob, [job[Forcer] EXCEPT !.c = conf[job[Forcer].r], !.stage = "with"]} :
             /\ job' = [job EXCEPT ![Forcer] = j]
             /\ LoopFrame /\ UNCHANGED <<held, disk>>
    BY <1>6 DEF ForceIndex, LoopFrame, loopVars, sgVars, queueVars, dirVars
  <2>2. Forcer \in Procs /\ job[Forcer].r \in Repos
    BY <1>2, <1>6 DEF ForceIndex, JobOK, Jobs
  <2>3. CASE j = NoJob
    <3>1. JobOK(j, held[Forcer]) /\ j.stage # "report"
      BY <2>3 DEF JobOK, Running, NoJob, Zero
    <3> QED
      BY <1>1, <1>2, <2>1, <2>2, <2>3, <3>1, JobMoves
  <2>4. CASE j = [job[Forcer] EXCEPT !.c = conf[job[Forcer].r], !.stage = "with"]
    <3>1. conf[job[Forcer].r] \in Options
      BY <2>2 DEF SyncInv, SyncTypeOK
    <3>2. j \in Jobs /\ j.r = job[Forcer].r /\ j.stage = "with"
      BY <1>2, <2>2, <2>4, <3>1 DEF Jobs
    <3>3. JobOK(j, held[Forcer])
      BY <2>2, <3>2 DEF JobOK, Running
    <3> QED
      BY <1>1, <2>1, <2>2, <3>2, <3>3, JobMoves
  <2> QED
    BY <2>1, <2>3, <2>4
<1>7. CASE CallDelete \/ Pause \/ Resume
  <2>1. LoopFrame /\ UNCHANGED <<held, disk, job>>
    BY <1>7 DEF CallDelete, Pause, Resume, LoopFrame, loopVars, sgVars, queueVars, dirVars
  <2> QED
    BY <1>1, <2>1 DEF Kept, SyncTypeOK, LoopFrame, Exclusive, JobsOK, ReportTrue, Stage
<1> QED
  BY <1>3, <1>4, <1>5, <1>6, <1>7

\* A job whose f runs moves to another stage, and may write the shards of its repository.
LEMMA StageKeeps ==
  ASSUME Kept, JobFrame, NEW p \in Procs, NEW stage \in Running, To(p, stage), Stage(p) \in Running,
         stage \in {"prior", "fetch", "index", "report"} => job[p].r \in Repos,
         UNCHANGED disk \/ \E c : Store(p, c),
         stage = "report" => disk'[job[p].r] = job[p].c
  PROVE Kept'
<1> DEFINE j == [job[p] EXCEPT !.stage = stage, !.hung = "no"]
<1>1. job[p] \in Jobs /\ JobOK(job[p], held[p])
  BY DEF Kept, SyncTypeOK, JobsOK
<1>2. job' = [job EXCEPT ![p] = j]
  BY DEF To
<1>3. j \in Jobs /\ j.r = job[p].r /\ j.c = job[p].c /\ j.stage = stage
  BY <1>1 DEF Jobs
<1>4. JobOK(j, held[p])
  BY <1>1, <1>3 DEF JobOK, Stage, Running
<1>5. LoopFrame /\ UNCHANGED held
  BY DEF JobFrame, LoopFrame, loopVars, queueVars, sgVars
<1> QED
  BY <1>2, <1>3, <1>4, <1>5, JobMoves DEF Store, Stage

\* A command that fails takes its job to the next fetch or to its end.
LEMMA FailedKeeps == ASSUME Kept, JobFrame, NEW p \in Procs, Failed(p) PROVE Kept'
<1>1. /\ Stage(p) \in Running /\ job[p].r \in Repos
      /\ UNCHANGED disk \/ \E c : Store(p, c)
  BY DEF Failed, Kept, JobsOK, JobOK, Stage, Running
<1>2. \E stage \in {"fetch", "fail"} : To(p, stage)
  BY DEF Failed
<1> QED
  BY <1>1, <1>2, StageKeeps DEF Running

\* Server.index and the commands it runs write nothing but the shards of the job's
\* repository, and reach the report only with the job's options on disk.
LEMMA CommandKeeps ==
  ASSUME SyncInv, NEW p \in Procs,
         Index(p) \/ Succeeds(p) \/ Fails(p) \/ Hangs(p) \/ SendQuit(p) \/ SendKill(p) \/ Report(p)
  PROVE Kept' /\ JobFrame
<1>1. Kept
  BY DEF SyncInv, Kept
<1>2. JobOK(job[p], held[p]) /\ job[p] \in Jobs
  BY DEF SyncInv, SyncTypeOK, JobsOK
<1>3. CASE Index(p)
  <2>1. /\ JobFrame /\ Stage(p) \in Running
        /\ UNCHANGED disk \/ \E c : Store(p, c)
    BY <1>3 DEF Index, Running
  <2>2. \E stage \in {"fail", "ok", "prior", "fetch"} :
           /\ To(p, stage)
           /\ stage \in {"prior", "fetch"} => job[p].c.t
    BY <1>3 DEF Index, GitIndex
  <2>3. job[p].c.t => job[p].r \in Repos
    BY <1>2, NamesAssumption, LockAssumption DEF JobOK, Jobs
  <2> QED
    BY <1>1, <2>1, <2>2, <2>3, StageKeeps DEF Running
<1>4. CASE Succeeds(p)
  <2>1. /\ JobFrame /\ Stage(p) \in {"prior", "fetch", "index"}
        /\ To(p, IF Stage(p) = "index" THEN "report" ELSE "index")
        /\ IF Stage(p) = "index" THEN Store(p, job[p].c) ELSE UNCHANGED disk
    BY <1>4 DEF Succeeds
  <2>2. job[p].r \in Repos
    BY <1>2, <2>1 DEF JobOK, Stage
  <2>3. CASE Stage(p) = "index"
    <3>1. Store(p, job[p].c) /\ To(p, "report")
      BY <2>1, <2>3
    <3>2. disk'[job[p].r] = job[p].c
      BY <2>2, <3>1 DEF Store, SyncInv, SyncTypeOK
    <3> QED
      BY <1>1, <2>1, <2>2, <3>1, <3>2, StageKeeps DEF Running
  <2>4. CASE Stage(p) # "index"
    BY <1>1, <2>1, <2>2, <2>4, StageKeeps DEF Running
  <2> QED
    BY <2>3, <2>4
<1>5. CASE Fails(p) \/ SendKill(p)
  BY <1>1, <1>5, FailedKeeps DEF Fails, SendKill
<1>6. CASE Report(p)
  BY <1>1, <1>6, StageKeeps DEF Report, Running
<1>7. ASSUME NEW h \in {"hung", "quit"}, job' = [job EXCEPT ![p].hung = h], UNCHANGED disk, JobFrame
      PROVE Kept'
  <2> DEFINE j == [job[p] EXCEPT !.hung = h]
  <2>1. j \in Jobs /\ j.r = job[p].r /\ j.c = job[p].c /\ j.stage = job[p].stage
    BY <1>2 DEF Jobs
  <2>2. JobOK(j, held[p]) /\ (j.stage = "report" => disk'[j.r] = j.c)
    BY <1>2, <1>7, <2>1 DEF JobOK, SyncInv, ReportTrue, Stage
  <2>3. LoopFrame /\ UNCHANGED held /\ job' = [job EXCEPT ![p] = j]
    BY <1>7 DEF JobFrame, LoopFrame, loopVars, queueVars, sgVars
  <2> QED
    BY <1>1, <1>7, <2>1, <2>2, <2>3, JobMoves
<1>8. CASE Hangs(p) \/ SendQuit(p)
  BY <1>1, <1>7, <1>8, FailedKeeps DEF Hangs, SendQuit
<1> QED
  BY <1>3, <1>4, <1>5, <1>6, <1>8 DEF Index, Succeeds, Fails, Hangs, SendQuit, SendKill, Report

\* With, Global and the ends of their f's: what a goroutine takes nobody else holds, and a
\* cleanup or a purge finds no job before its report.
LEMMA LockKeeps ==
  ASSUME SyncInv, NEW p \in Procs,
         With(p) \/ EndJob(p) \/ Global(p) \/ Purge \/ \E expired \in SUBSET Repos : CleanUp(expired)
  PROVE Kept' /\ LoopFrame /\ [RepoLockNext]_held
<1> USE NamesAssumption, LockAssumption, ProcsAssumption
<1>1. /\ NoJob \in Jobs /\ \A q \in Procs : job[q] \in Jobs /\ JobOK(job[q], held[q])
      /\ \A h : JobOK(NoJob, h)
  BY DEF SyncInv, SyncTypeOK, JobsOK, JobOK, NoJob, Jobs, Zero, Options, Running
<1>2. CASE With(p)
  <2>1. PICK stage \in {"start", "skip"} :
               /\ job' = [job EXCEPT ![p].stage = stage]
               /\ Stage(p) = "with" /\ LoopFrame /\ UNCHANGED disk
               /\ \/ stage = "start" /\ StartRepo(p, job[p].r)
                  \/ stage = "skip" /\ UNCHANGED held
    BY <1>2 DEF With, Stage, LoopFrame, loopVars, queueVars, sgVars, dirVars
  <2> DEFINE j == [job[p] EXCEPT !.stage = stage]
  <2>2. j \in Jobs /\ j.r = job[p].r /\ j.c = job[p].c /\ j.stage = stage /\ job' = [job EXCEPT ![p] = j]
    BY <1>1, <2>1 DEF Jobs, Running
  <2>3. job[p].r \in Names
    BY <1>1 DEF Jobs
  <2>4. SyncTypeOK'
    BY <2>1, <2>2, <2>3 DEF SyncInv, SyncTypeOK, LoopFrame, StartRepo
  <2>5. Exclusive' /\ JobsOK'
    BY <1>1, <2>1, <2>2, <2>3
    DEF SyncInv, SyncTypeOK, Exclusive, JobsOK, JobOK, StartRepo, Running, Stage
  <2>6. ReportTrue'
    BY <2>1, <2>2 DEF SyncInv, SyncTypeOK, ReportTrue, Stage
  <2>7. [RepoLockNext]_held
    BY <2>1, <2>3 DEF RepoLockNext
  <2> QED
    BY <2>1, <2>4, <2>5, <2>6, <2>7 DEF Kept
<1>3. CASE EndJob(p)
  <2>1. /\ job' = [job EXCEPT ![p] = NoJob] /\ LoopFrame /\ UNCHANGED disk
        /\ (Stage(p) \in {"ok", "fail"} /\ Finish(p)) \/ UNCHANGED held
    BY <1>3 DEF EndJob, LoopFrame, SetIndexed, loopVars, queueVars, sgVars, dirVars
  <2>2. SyncTypeOK'
    BY <1>1, <2>1 DEF SyncInv, SyncTypeOK, LoopFrame, Finish
  <2>3. Exclusive' /\ JobsOK'
    BY <1>1, <2>1 DEF SyncInv, SyncTypeOK, Exclusive, JobsOK, Finish
  <2>4. ReportTrue'
    BY <2>1 DEF SyncInv, SyncTypeOK, ReportTrue, Stage, NoJob
  <2>5. [RepoLockNext]_held
    BY <2>1 DEF RepoLockNext
  <2> QED
    BY <2>1, <2>2, <2>3, <2>4, <2>5 DEF Kept
<1>4. CASE Global(p)
  <2>1. StartGlobal(p) /\ LoopFrame /\ UNCHANGED <<disk, job>>
    BY <1>4 DEF Global, LoopFrame, loopVars, queueVars, sgVars, dirVars
  <2>2. SyncTypeOK'
    BY <2>1 DEF SyncInv, SyncTypeOK, LoopFrame, StartGlobal
  <2>3. \A q \in Procs : job[q].stage \notin Running
    BY <1>1, <2>1 DEF StartGlobal, JobOK, Jobs
  <2>4. Exclusive' /\ JobsOK' /\ ReportTrue'
    BY <1>1, <2>1, <2>3 DEF SyncInv, SyncTypeOK, Exclusive, JobsOK, JobOK, ReportTrue, Stage, StartGlobal
  <2>5. [RepoLockNext]_held
    BY <2>1 DEF RepoLockNext
  <2> QED
    BY <2>1, <2>2, <2>4, <2>5 DEF Kept
<1>5. ASSUME NEW q \in Procs, held[q] = GlobalLock, Finish(q), LoopFrame, UNCHANGED job, DOMAIN disk' = Repos
      PROVE Kept' /\ LoopFrame /\ [RepoLockNext]_held
  <2>1. \A o \in Procs : job[o].stage \notin Running
    BY <1>1, <1>5 DEF SyncInv, SyncTypeOK, Exclusive, JobOK, Jobs
  <2>2. SyncTypeOK' /\ Exclusive'
    BY <1>5 DEF SyncInv, SyncTypeOK, LoopFrame, Finish, Exclusive
  <2>3. JobsOK' /\ ReportTrue'
    BY <1>1, <1>5, <2>1 DEF SyncInv, JobsOK, JobOK, ReportTrue, Stage, Running
  <2> QED
    BY <1>5, <2>2, <2>3 DEF Kept, RepoLockNext
<1>6. CASE Purge
  BY <1>5, <1>6 DEF Purge, LoopFrame, loopVars, queueVars, sgVars
<1>7. ASSUME NEW expired \in SUBSET Repos, CleanUp(expired)
      PROVE Kept' /\ LoopFrame /\ [RepoLockNext]_held
  BY <1>5, <1>7 DEF CleanUp, LoopFrame, loopVars, queueVars, sgVars
<1> QED
  BY <1>2, <1>3, <1>4, <1>6, <1>7

-----------------------------------------------------------------------------
(* What it gives.                                                          *)

\* Every step keeps the invariant and uses the lock as RepoLock says.
LEMMA NextKeeps == ASSUME SyncInv, [SyncNext]_syncVars PROVE SyncInv' /\ [RepoLockNext]_held
<1>1. CASE RoundStep
  <2>1. /\ SyncTypeOK' /\ RoundCovered' /\ SteadyKnown'
        /\ UNCHANGED <<held, job, disk>>
    BY <1>1, RoundKeeps
  <2> QED
    BY <2>1 DEF SyncInv, Exclusive, JobsOK, ReportTrue, Stage
<1>2. ASSUME Kept', LoopFrame PROVE SyncInv'
  BY <1>2 DEF SyncInv, Kept, LoopFrame, RoundCovered, Covered, SteadyKnown
<1>3. CASE \/ \E w \in Workers, r \in Repos : Pop(w, r)
           \/ \E r \in Repos, ctx \in {"root", "reindex"} : Reindex(r, ctx)
           \/ HandlerReturns \/ ForceIndex \/ CallDelete \/ Pause \/ Resume
  BY <1>2, <1>3, RequestKeeps
<1>4. ASSUME NEW p \in Procs,
             Index(p) \/ Succeeds(p) \/ Fails(p) \/ Hangs(p) \/ SendQuit(p) \/ SendKill(p) \/ Report(p)
      PROVE SyncInv' /\ [RepoLockNext]_held
  <2>1. Kept' /\ JobFrame
    BY <1>4, CommandKeeps
  <2> QED
    BY <1>2, <2>1 DEF JobFrame, LoopFrame, loopVars, queueVars, sgVars
<1>5. ASSUME NEW p \in Procs,
             With(p) \/ EndJob(p) \/ Global(p) \/ Purge \/ \E expired \in SUBSET Repos : CleanUp(expired)
      PROVE SyncInv' /\ [RepoLockNext]_held
  BY <1>2, <1>5, LockKeeps
<1>6. CASE UNCHANGED syncVars
  <2>1. LoopFrame /\ UNCHANGED <<held, job, disk>>
    BY <1>6 DEF syncVars, LoopFrame, loopVars, queueVars, sgVars, dirVars
  <2>2. Kept'
    BY <2>1 DEF SyncInv, Kept, SyncTypeOK, LoopFrame, Exclusive, JobsOK, ReportTrue, Stage
  <2> QED
    BY <1>2, <2>1, <2>2
<1>7. Cleaner \in Procs
  BY ProcsAssumption
<1> QED
  BY <1>1, <1>3, <1>4, <1>5, <1>6, <1>7 DEF SyncNext, Job, RoundStep

\* What the parts of the server hold are repositories, options and jobs.
THEOREM SyncTypeCorrect == SyncSpec => []SyncTypeOK
<1>1. SyncInv => SyncTypeOK
  BY DEF SyncInv
<1> QED
  BY SyncInitInv, NextKeeps, <1>1, PTL DEF SyncSpec

\* Between rounds the queue has the options of every repository that stayed listed, or the
\* fingerprint still asks for them, whichever batches of the rounds before failed and
\* whatever Sourcegraph changed while they ran.  A repository whose own item failed since
\* is exempt: the code drops the item and lets the fingerprint pass it.
THEOREM FingerprintCorrect == SyncSpec => []FingerprintSound
<1>1. SyncInv => FingerprintSound
  BY DEF SyncInv, RoundCovered, Covered, FingerprintSound
<1> QED
  BY SyncInitInv, NextKeeps, <1>1, PTL DEF SyncSpec

\* A job reports what its shards hold: no job for the repository, cleanup or purge comes
\* between the index command and the report.
THEOREM ReportCorrect == SyncSpec => []ReportTrue
<1>1. SyncInv => ReportTrue
  BY DEF SyncInv
<1> QED
  BY SyncInitInv, NextKeeps, <1>1, PTL DEF SyncSpec

\* The server takes and releases the index directory lock as indexMutex promises.
THEOREM LockRefined == SyncSpec => RepoLockSpec
<1>1. SyncInit => RepoLockInit
  BY DEF SyncInit
<1> QED
  BY SyncInitInv, NextKeeps, <1>1, PTL DEF SyncSpec, RepoLockSpec
=============================================================================
