------------------------------ MODULE SyncLoop ------------------------------
(***************************************************************************)
(* zoekt-sourcegraph-indexserver as a whole (main.go, sg.go, index.go,     *)
(* meta.go, purge.go): the loop that asks Sourcegraph which repositories to *)
(* index and with which options, the queue, the workers that run the index  *)
(* commands, the cleanup goroutine, forced reindexing and DeleteAllData,    *)
(* all of them on top of the index directory lock, as RepoLock specifies it *)
(* and IndexMutex implements it.                                           *)
(*                                                                         *)
(* Options are abstracted to a record: b, the branches and their versions   *)
(* (0: no branches); m, what IndexState treats as metadata; t, whether the  *)
(* tenant is set.  A shard is the options it was built from.  A fingerprint *)
(* is the set of repositories whose options changed after it was issued:    *)
(* what the next SearchConfiguration with it returns.  The order of the     *)
(* queue is IndexQueue's subject; here any queued repository may be next.   *)
(* The shard files behind cleanup are IndexDir's subject.                   *)
(***************************************************************************)
EXTENDS RepoLock, Naturals, FiniteSets

CONSTANTS Repos,
          NoRepo,       \* RepoID 0 and the name "" of the zero IndexOptions
          Confs,        \* Confs[r]: options Sourcegraph may give r
          FirstConf,    \* FirstConf[r]: those at start
          Leftovers,    \* what previous processes may have left: [disk, trash]
          Nothing,      \* no shard
          Workers, Cleaner, Forcer, Deleter,  \* goroutines: Procs
          DeltaRepos,   \* deltaBuildRepositoriesAllowList
          Budgets       \* bounds: changes on Sourcegraph, faults, requests

ASSUME NamesAssumption == Names = Repos \cup {NoRepo} /\ NoRepo \notin Repos
ASSUME ProcsAssumption == Procs = Workers \cup {Cleaner, Forcer, Deleter}
ASSUME ConfAssumption ==
         /\ FirstConf \in [Repos -> UNION {Confs[r] : r \in Repos}]
         /\ \A r \in Repos :
              /\ FirstConf[r] \in Confs[r]
              /\ \A c \in Confs[r] : c.b \in Nat /\ c.t \in BOOLEAN
              /\ Nothing \notin Confs[r]
ASSUME LeftoversAssumption ==
         \A d \in Leftovers : DOMAIN d.disk = Repos /\ DOMAIN d.trash = Repos

Zero == [b |-> 0, m |-> 0, t |-> FALSE]

VARIABLES
  conf, listed,       \* Sourcegraph: options per repository, what this replica indexes
  fp,                 \* sourcegraphClient: configFingerprintProto
  lpc, ids, todo, startFp, first,  \* the sync loop and its round
  known, opts, onQ, waiting,       \* Queue: items, opts, on the heap, in back-off
  steady,             \* history: listed in every round since their options arrived
  dropped,            \* history: an item failed, and no options arrived since
  job,                \* job[p]: the index job of p
  cleaning, deleting, \* Cleaner and Deleter are inside Global
  disk, trash, paused,
  left                \* what is left of the bounds

loopVars  == <<fp, lpc, ids, todo, startFp, first, steady, dropped>>
queueVars == <<known, opts, onQ, waiting>>
sgVars    == <<conf, listed>>
dirVars   == <<disk, trash, paused>>
globals   == <<cleaning, deleting>>
syncVars  == <<held, loopVars, queueVars, sgVars, dirVars, globals, left, job>>

NoJob == [r |-> NoRepo, c |-> Zero, inc |-> TRUE, ctx |-> "background",
          stage |-> "none", hung |-> "no"]

SyncInit ==
  /\ RepoLockInit
  /\ conf = FirstConf
  /\ listed = Repos
  /\ fp = Repos
  /\ lpc = "tick" /\ ids = {} /\ todo = {} /\ startFp = Repos /\ first = TRUE
  /\ known = {} /\ opts = [r \in Repos |-> Zero] /\ onQ = {} /\ waiting = {}
  /\ steady = {} /\ dropped = {}
  /\ job = [p \in Procs |-> NoJob]
  /\ \E d \in Leftovers : disk = d.disk /\ trash = d.trash
  /\ paused = FALSE
  /\ cleaning = FALSE /\ deleting = FALSE
  /\ left \in Budgets

\* A bounded step, and one that is not.
Spend(kind) == left[kind] > 0 /\ left' = [left EXCEPT ![kind] = @ - 1]
Fault == Spend("faults")
Work  == UNCHANGED left

-----------------------------------------------------------------------------
(* Sourcegraph.                                                            *)

\* A push, a setting or a tenant changes the options of r.  From now on the
\* fingerprints issued so far no longer cover r.
Change(r, c) ==
  /\ Spend("changes")
  /\ c # conf[r]
  /\ conf' = [conf EXCEPT ![r] = c]
  /\ fp' = fp \cup {r}
  /\ startFp' = startFp \cup {r}
  /\ UNCHANGED <<held, globals, listed, lpc, ids, todo, first, steady, dropped,
                 queueVars, dirVars, job>>

\* Repositories move between the replicas.
Assign(r) ==
  /\ Spend("changes")
  /\ listed' = IF r \in listed THEN listed \ {r} ELSE listed \cup {r}
  /\ UNCHANGED <<held, globals, conf, loopVars, queueVars, dirVars, job>>

-----------------------------------------------------------------------------
(* The queue (see IndexQueue).                                             *)

OptsId(r) == IF r = NoRepo \/ opts[r] = Zero THEN NoRepo ELSE r

\* MaybeRemoveMissing: nothing when the sizes agree.  Otherwise the items
\* whose opts.RepoID is not listed leave the heap, and what is deleted from
\* items is the key opts.RepoID: an item with zero options stays known.
Removed(listing) ==
  IF Cardinality(known) = Cardinality(listing) THEN {}
  ELSE {r \in known : OptsId(r) \notin listing}

\* AddOrUpdate, for a repository in back-off without the push.
AddOrUpdate(r, c) ==
  /\ known' = known \cup {r}
  /\ opts' = [opts EXCEPT ![r] = c]
  /\ onQ' = onQ \cup ({r} \ waiting)
  /\ UNCHANGED waiting

\* SetIndexed: the item is created again if it is gone.
SetIndexed(r, ok) ==
  /\ known' = known \cup {r}
  /\ waiting' = IF r = NoRepo THEN waiting
                ELSE IF ok THEN waiting \ {r} ELSE waiting \cup {r}
  /\ onQ' = IF ok THEN onQ ELSE onQ \ {r}
  /\ UNCHANGED opts

-----------------------------------------------------------------------------
(* The sync loop.                                                          *)

\* Mutation: the fingerprint is never dropped.
ListNoReset(reset) ==
  /\ lpc = "tick" /\ ~paused
  /\ ids' = listed /\ todo' = listed
  /\ fp' = fp
  /\ startFp' = fp'
  /\ first' = TRUE
  /\ onQ' = onQ \ Removed(listed)
  /\ known' = known \ {OptsId(r) : r \in Removed(listed)}
  /\ opts' = [r \in Repos |-> IF r \in known' THEN opts[r] ELSE Zero]
  /\ waiting' = waiting \cap known'
  /\ steady' = steady \cap listed
  /\ cleaning' = TRUE
  /\ lpc' = "options"
  /\ Work
  /\ UNCHANGED <<held, deleting, dropped, sgVars, dirVars, job>>

\* A tick: List, which drops the fingerprint when configFingerprintReset is
\* due, MaybeRemoveMissing, and the start of the cleanup goroutine.
List(reset) ==
  /\ lpc = "tick" /\ ~paused
  /\ ids' = listed /\ todo' = listed
  /\ fp' = IF reset THEN Repos ELSE fp
  /\ startFp' = fp'
  /\ first' = TRUE
  /\ onQ' = onQ \ Removed(listed)
  /\ known' = known \ {OptsId(r) : r \in Removed(listed)}
  /\ opts' = [r \in Repos |-> IF r \in known' THEN opts[r] ELSE Zero]
  /\ waiting' = waiting \cap known'
  /\ steady' = steady \cap listed
  /\ cleaning' = TRUE
  /\ lpc' = "options"
  /\ Work
  /\ UNCHANGED <<held, deleting, dropped, sgVars, dirVars, job>>

\* The call fails: the loop logs it and waits for the next tick.
ListFails ==
  /\ lpc = "tick" /\ ~paused
  /\ Fault
  /\ UNCHANGED <<held, globals, loopVars, queueVars, sgVars, dirVars, job>>

Arrived(r) == steady' = steady \cup {r} /\ dropped' = dropped \ {r}

\* A batch of one repository.  Sourcegraph returns its options if they changed
\* since the fingerprint of the round; the first batch's answer brings the
\* next fingerprint.
GetOptions(r) ==
  /\ lpc = "options" /\ r \in todo
  /\ todo' = todo \ {r}
  /\ first' = FALSE
  /\ fp' = IF first THEN {} ELSE fp
  /\ IF r \in startFp
     THEN AddOrUpdate(r, conf[r]) /\ Arrived(r)
     ELSE UNCHANGED <<queueVars, steady, dropped>>
  /\ Work
  /\ UNCHANGED <<held, globals, lpc, ids, startFp, sgVars, dirVars, job>>

\* Sourcegraph could not compute the options of r (o.Error): the item is
\* dropped, while the fingerprint advances.
GetOptionsItemError(r) ==
  /\ lpc = "options" /\ r \in todo /\ r \in startFp
  /\ Fault
  /\ todo' = todo \ {r}
  /\ first' = FALSE
  /\ fp' = IF first THEN {} ELSE fp
  /\ dropped' = dropped \cup {r}
  /\ UNCHANGED <<held, globals, lpc, ids, startFp, steady, queueVars, sgVars, dirVars,
                 job>>

\* Mutation: the fingerprint of an earlier batch of the round is kept.
GetOptionsFailsKeeps(r) ==
  /\ lpc = "options" /\ r \in todo
  /\ Fault
  /\ todo' = todo \ {r}
  /\ first' = FALSE
  /\ UNCHANGED <<held, globals, fp, lpc, ids, startFp, steady, dropped, queueVars,
                 sgVars, dirVars, job>>

\* The batch fails: the fingerprint the round started with is restored.
GetOptionsFails(r) ==
  /\ lpc = "options" /\ r \in todo
  /\ Fault
  /\ todo' = todo \ {r}
  /\ first' = FALSE
  /\ fp' = startFp
  /\ UNCHANGED <<held, globals, lpc, ids, startFp, steady, dropped, queueVars,
                 sgVars, dirVars, job>>

\* Bump: every listed repository the queue knows goes back on the heap, the
\* others are asked for again, without a fingerprint.
Bump ==
  /\ lpc = "options" /\ todo = {}
  /\ onQ' = onQ \cup ((ids \cap known) \ waiting)
  /\ todo' = ids \ known
  /\ lpc' = "force"
  /\ startFp' = Repos /\ first' = TRUE
  /\ Work
  /\ UNCHANGED <<held, globals, fp, ids, steady, dropped, known, opts,
                 waiting, sgVars, dirVars, job>>

ForceOptions(r) ==
  /\ lpc = "force" /\ r \in todo
  /\ todo' = todo \ {r}
  /\ \/ Work /\ AddOrUpdate(r, conf[r]) /\ Arrived(r)
     \/ Fault /\ UNCHANGED <<queueVars, steady, dropped>>
  /\ UNCHANGED <<held, globals, fp, lpc, ids, startFp, first, sgVars, dirVars,
                 job>>

\* <-cleanupDone
EndRound ==
  /\ lpc = "force" /\ todo = {}
  /\ ~cleaning
  /\ lpc' = "tick"
  /\ ids' = {}
  /\ Work
  /\ UNCHANGED <<held, globals, fp, todo, startFp, first, steady, dropped, queueVars,
                 sgVars, dirVars, job>>

\* cleanup under Global: shards of repositories that are not listed go to the
\* trash; a listed repository without shards gets the trashed ones back
\* unless they are too old (expired).
CleanUp(expired) ==
  /\ held[Cleaner] = GlobalLock
  /\ LET kept == [r \in Repos |-> IF r \in expired \/ disk[r] # Nothing THEN Nothing
                                  ELSE trash[r]]
     IN  /\ disk' = [r \in Repos |->
                       IF r \notin ids THEN Nothing
                       ELSE IF disk[r] # Nothing THEN disk[r] ELSE kept[r]]
         /\ trash' = [r \in Repos |->
                       IF r \in ids THEN Nothing
                       ELSE IF disk[r] # Nothing THEN disk[r] ELSE kept[r]]
  /\ Finish(Cleaner)
  /\ cleaning' = FALSE
  /\ Work
  /\ UNCHANGED <<deleting, loopVars, queueVars, sgVars, paused, job>>

\* The end of a back-off.
BackoffEnds(r) ==
  /\ r \in waiting /\ waiting' = waiting \ {r}
  /\ Work
  /\ UNCHANGED <<held, globals, loopVars, known, opts, onQ, sgVars, dirVars, job>>

\* The operator creates or removes the PAUSE file.
Pause ==
  /\ ~paused /\ Spend("requests")
  /\ paused' = TRUE
  /\ UNCHANGED <<held, globals, loopVars, queueVars, sgVars, disk, trash, job>>
Resume ==
  /\ paused /\ paused' = FALSE
  /\ Work
  /\ UNCHANGED <<held, globals, loopVars, queueVars, sgVars, disk, trash, job>>

-----------------------------------------------------------------------------
(* Index jobs.                                                             *)

\* processQueue: the next item; With decides whether its job runs.
Pop(w, r) ==
  /\ job[w] = NoJob /\ ~paused
  /\ r \in onQ
  /\ onQ' = onQ \ {r}
  /\ job' = [job EXCEPT ![w] = [NoJob EXCEPT !.r = OptsId(r), !.c = opts[r],
                                             !.stage = "with"]]
  /\ Work
  /\ UNCHANGED <<held, globals, loopVars, known, opts, waiting, sgVars, dirVars>>

\* With starts f, or returns at once when a job for the repository runs.
With(p) ==
  /\ job[p].stage = "with"
  /\ \/ /\ StartRepo(p, job[p].r)
        /\ job' = [job EXCEPT ![p].stage = "start"]
     \/ /\ \E q \in Procs : held[q] = job[p].r
        /\ job' = [job EXCEPT ![p].stage = "skip"]
        /\ UNCHANGED held
  /\ Work
  /\ UNCHANGED <<globals, loopVars, queueVars, sgVars, dirVars>>

Stage(p) == job[p].stage

To(p, stage) == job' = [job EXCEPT ![p].stage = stage, ![p].hung = "no"]
Store(p, c)  == disk' = [disk EXCEPT ![job[p].r] = c]

JobFrame == UNCHANGED <<held, globals, loopVars, queueVars, sgVars, trash, paused>>

\* The first command of gitIndex: a delta build also fetches what is indexed.
GitIndex(p) == To(p, IF job[p].r \in DeltaRepos THEN "prior" ELSE "fetch")

\* IndexState of shard old for options c: IndexStateMeta, IndexStateEqual aside.
OnlyMeta(old, c) == IF old = Nothing THEN FALSE ELSE old # c /\ old.b = c.b

\* Server.index up to the first command: the tenant check, the empty shard,
\* and for an incremental job what IndexState finds on disk.
Index(p) ==
  LET c == job[p].c  old == disk[job[p].r]
  IN  /\ Stage(p) = "start"
      /\ JobFrame
      /\ \/ /\ ~c.t
            /\ To(p, "fail") /\ Work /\ UNCHANGED disk
         \/ /\ c.t /\ job[p].inc /\ old = c
            /\ To(p, "ok") /\ Work /\ UNCHANGED disk
         \/ /\ c.t /\ c.b = 0 /\ ~(job[p].inc /\ old = c)
            /\ \/ Store(p, c) /\ To(p, "ok") /\ Work
               \/ UNCHANGED disk /\ To(p, "fail") /\ Fault
         \/ /\ c.t /\ c.b # 0 /\ job[p].inc /\ OnlyMeta(old, c)
            /\ \/ Store(p, c) /\ To(p, "ok") /\ Work    \* mergeMeta
               \/ UNCHANGED disk /\ GitIndex(p) /\ Fault
         \/ /\ c.t /\ c.b # 0 /\ ~(job[p].inc /\ (old = c \/ OnlyMeta(old, c)))
            /\ GitIndex(p) /\ Work /\ UNCHANGED disk

\* The command of a stage succeeds.  findRepositoryMetadata has to find what
\* is indexed for a delta build's fetch.
Succeeds(p) ==
  /\ Stage(p) \in {"prior", "fetch", "index"} /\ job[p].hung = "no"
  /\ job[p].ctx # "cancelled"
  /\ Stage(p) = "prior" => disk[job[p].r] # Nothing
  /\ To(p, IF Stage(p) = "index" THEN "report" ELSE "index")
  /\ IF Stage(p) = "index" THEN Store(p, job[p].c) ELSE UNCHANGED disk
  /\ Work /\ JobFrame

\* What follows when it fails: without the prior commits the latest ones are
\* fetched alone; an index command may have published before it failed.
Failed(p) ==
  \/ Stage(p) = "prior" /\ To(p, "fetch") /\ UNCHANGED disk
  \/ Stage(p) \in {"fetch", "index"} /\ To(p, "fail") /\ UNCHANGED disk
  \/ Stage(p) = "index" /\ To(p, "fail") /\ Store(p, job[p].c)

Fails(p) ==
  /\ Stage(p) \in {"prior", "fetch", "index"} /\ job[p].hung = "no"
  /\ IF \/ job[p].ctx = "cancelled"
        \/ Stage(p) = "prior" /\ disk[job[p].r] = Nothing
     THEN Work /\ (Stage(p) = "prior" \/ UNCHANGED disk) ELSE Fault
  /\ Failed(p)
  /\ JobFrame

\* The command neither ends nor writes output.
Hangs(p) ==
  /\ Stage(p) \in {"prior", "fetch", "index"} /\ job[p].hung = "no"
  /\ Fault
  /\ job' = [job EXCEPT ![p].hung = "hung"]
  /\ UNCHANGED disk /\ JobFrame

\* loggedRun after noOutputTimeout: SIGQUIT, which the command may not obey,
\* and SIGKILL ten seconds later.
SendQuit(p) ==
  /\ job[p].hung = "hung"
  /\ \/ job' = [job EXCEPT ![p].hung = "quit"] /\ UNCHANGED disk
     \/ Failed(p)
  /\ Work /\ JobFrame
SendKill(p) ==
  /\ job[p].hung = "quit"
  /\ Failed(p)
  /\ Work /\ JobFrame

\* updateIndexStatusOnSourcegraph; an error is only logged.
Report(p) ==
  /\ Stage(p) = "report"
  /\ To(p, "ok")
  /\ Work /\ UNCHANGED disk /\ JobFrame

\* The end of f, which for a worker's job is SetIndexed, and of With.
EndJob(p) ==
  /\ \/ /\ Stage(p) \in {"ok", "fail"}
        /\ Finish(p)
        /\ IF p \in Workers THEN SetIndexed(job[p].r, Stage(p) = "ok")
           ELSE UNCHANGED queueVars
     \/ Stage(p) = "skip" /\ UNCHANGED <<held, queueVars>>
  /\ job' = [job EXCEPT ![p] = NoJob]
  /\ Work
  /\ UNCHANGED <<globals, loopVars, sgVars, dirVars>>

-----------------------------------------------------------------------------
(* Requests.                                                               *)

\* handleRoot?id= waits for forceIndex with the request's context; so does
\* the goroutine handleReindex starts, whose handler answers at once.
Reindex(r, ctx) ==
  /\ job[Forcer] = NoJob
  /\ Spend("requests")
  /\ job' = [job EXCEPT ![Forcer] = [NoJob EXCEPT !.r = r, !.ctx = ctx,
                                                  !.inc = FALSE, !.stage = "options"]]
  /\ UNCHANGED <<held, globals, loopVars, queueVars, sgVars, dirVars>>

\* handleReindex returns, and net/http cancels the request's context.
HandlerReturns ==
  /\ job[Forcer].ctx = "reindex"
  /\ job' = [job EXCEPT ![Forcer].ctx = "cancelled"]
  /\ Work
  /\ UNCHANGED <<held, globals, loopVars, queueVars, sgVars, dirVars>>

\* forceIndex: ForceIterateIndexOptions, then With.
ForceIndex ==
  /\ job[Forcer].stage = "options"
  /\ \/ /\ job' = [job EXCEPT ![Forcer].c = conf[job[Forcer].r],
                              ![Forcer].stage = "with"]
        /\ Work
     \/ /\ job' = [job EXCEPT ![Forcer] = NoJob]
        /\ Fault
  /\ UNCHANGED <<held, globals, loopVars, queueVars, sgVars, dirVars>>

\* DeleteAllData for the tenant of all repositories: under Global the shards
\* in the index and in the trash go.
CallDelete ==
  /\ Spend("requests")
  /\ ~deleting /\ deleting' = TRUE
  /\ UNCHANGED <<held, cleaning, loopVars, queueVars, sgVars, dirVars, job>>
Purge ==
  /\ held[Deleter] = GlobalLock
  /\ disk' = [r \in Repos |-> Nothing] /\ trash' = disk'
  /\ Finish(Deleter)
  /\ deleting' = FALSE
  /\ Work
  /\ UNCHANGED <<cleaning, loopVars, queueVars, sgVars, paused, job>>

-----------------------------------------------------------------------------
\* Mutation: Global does not wait for the jobs that run.
GlobalAtOnce(p) ==
  /\ \/ p = Cleaner /\ cleaning
     \/ p = Deleter /\ deleting
  /\ held' = [held EXCEPT ![p] = GlobalLock]
  /\ Work
  /\ UNCHANGED <<globals, loopVars, queueVars, sgVars, dirVars, job>>

\* Global starts f for cleanup or DeleteAllData.
Global(p) ==
  /\ \/ p = Cleaner /\ cleaning
     \/ p = Deleter /\ deleting
  /\ StartGlobal(p)
  /\ Work
  /\ UNCHANGED <<globals, loopVars, queueVars, sgVars, dirVars, job>>

Loop ==
  \/ \E reset \in BOOLEAN : List(reset)
  \/ Bump \/ EndRound
  \/ \E r \in Repos : GetOptions(r) \/ ForceOptions(r)

Job(p) ==
  \/ Index(p) \/ Succeeds(p) \/ Fails(p) \/ SendQuit(p) \/ SendKill(p)
  \/ Report(p) \/ EndJob(p)

SyncNext ==
  \/ Loop \/ ListFails
  \/ \E r \in Repos : GetOptionsFails(r) \/ GetOptionsItemError(r)
  \/ \E expired \in SUBSET Repos : CleanUp(expired)
  \/ \E p \in Procs : With(p) \/ Global(p) \/ Job(p) \/ Hangs(p)
  \/ \E w \in Workers, r \in Repos : Pop(w, r)
  \/ \E r \in Repos, ctx \in {"root", "reindex"} : Reindex(r, ctx)
  \/ HandlerReturns \/ ForceIndex
  \/ CallDelete \/ Purge
  \/ \E r \in Repos : BackoffEnds(r)
  \/ Pause \/ Resume
  \/ \E r \in Repos : Assign(r) \/ \E c \in Confs[r] : Change(r, c)

\* The loop, the workers and the lock keep going, the timers fire and the
\* operator removes the PAUSE file again.  Requests, changes and faults need
\* not happen.  Every queued repository is popped in the end (StaleServed of
\* IndexQueue), and whoever waits in With or Global is admitted (NobodyStarves
\* of IndexMutex).
SyncFairness ==
  /\ WF_syncVars(Loop)
  /\ SF_syncVars(List(TRUE))
  /\ SF_syncVars(\E p \in Procs : Global(p))
  /\ WF_syncVars(Purge \/ \E expired \in SUBSET Repos : CleanUp(expired))
  /\ WF_syncVars(Resume)
  /\ WF_syncVars(\E r \in Repos : BackoffEnds(r))
  /\ \A w \in Workers : SF_syncVars(With(w))
  /\ \A p \in Workers \cup {Forcer} : WF_syncVars(Job(p))
  /\ \A r \in Repos : SF_syncVars(\E w \in Workers : Pop(w, r))

SyncSpec == SyncInit /\ [][SyncNext]_syncVars /\ SyncFairness

-----------------------------------------------------------------------------
\* However many batches of however many rounds fail, and whatever Sourcegraph
\* changes meanwhile: between rounds the queue's options for a repository that
\* stayed listed are Sourcegraph's, or the next request with the fingerprint
\* returns them (List: "If any of the batch calls fail, the old fingerprint is
\* restored").  But for a repository whose own item failed: the loop drops
\* the item while the fingerprint advances past it, and what it would have
\* brought is lost until the repository changes again or the fingerprint is
\* reset.
FingerprintSound ==
  lpc = "tick" => \A r \in steady \ (fp \cup dropped) : opts[r] = conf[r]

\* What a job reports to Sourcegraph as indexed is what its shards hold at
\* that moment: neither another job for the repository nor cleanup or
\* DeleteAllData came between the index command and the report.
ReportTrue ==
  \A p \in Procs : Stage(p) = "report" => disk[job[p].r] = job[p].c

\* When Sourcegraph stops changing and faults stop, the index directory comes
\* to hold exactly the listed repositories at their current options, from
\* whatever a previous process left there.
SyncConverges ==
  <>[](\A r \in Repos :
         /\ r \notin listed => disk[r] = Nothing
         /\ r \in listed /\ conf[r].t => disk[r] = conf[r])
=============================================================================
