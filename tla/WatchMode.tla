------------------------------ MODULE WatchMode ------------------------------
(***************************************************************************)
(* zoekt-index watch (cmd/zoekt-index/watch.go): directories are watched   *)
(* with fsnotify, and after a change and a quiet time (debounce) all        *)
(* configurations are indexed again, while the user goes on editing.        *)
(*                                                                         *)
(* The files directly in a directory are one value, which every edit        *)
(* replaces.  How a rebuild reads, buffers and commits files is the subject *)
(* of InputPipeline and Builder; here it reads directory after directory    *)
(* and publishes a configuration when it has read all of it.                *)
(***************************************************************************)
EXTENDS Naturals, Sequences, FiniteSets, Functions

CONSTANTS Dirs,      \* directories that may exist
          None,      \* no directory
          Parent,    \* Parent[d], for d other than Root
          Root,      \* the one path of every configuration
          Outside,   \* the directories that Root is in
          Configs,   \* Configs[i]: what configuration i ignores (ignoreDirs)
          Filter,    \* fileExts is not empty
          Starts,    \* directories that may be there at the start
          MaxEdits,  \* bound: edits the user makes
          MaxFaults, \* bound: failing reads and failing watcher.Add
          MaxQueue   \* events the kernel keeps for the watcher

\* Above[d]: d and the directories it is in.  Below(d): d and all that is in it.
Above ==
  [d \in Dirs |-> {e \in Dirs : \A S \in SUBSET Dirs :
                      d \in S /\ (\A x \in S \ {Root} : Parent[x] \in S) => e \in S}]
Below(d) == {e \in Dirs : d \in Above[e]}

ASSUME WatchAssumption ==
  /\ Root \in Dirs /\ None \notin Dirs /\ Outside \notin Dirs
  /\ Parent \in [Dirs \ {Root} -> Dirs]
  /\ \A d \in Dirs : Root \in Above[d]
  /\ Configs \in Seq(SUBSET ((Dirs \ {Root}) \cup {Outside})) /\ Configs # <<>>
  /\ \A there \in Starts : Root \in there /\ \A d \in there \ {Root} : Parent[d] \in there
  /\ Filter \in BOOLEAN /\ MaxEdits \in Nat /\ MaxFaults \in Nat /\ MaxQueue \in Nat

Gone == 0

VARIABLES
  content,   \* content[d]: Gone, or what is in d
  edits,     \* edits made so far
  watched,   \* directories with a watch
  fsEvents,    \* watcher.Events
  loop,      \* where watchConfigs is
  walk,      \* filepath.Walk of addWatchTreeDedup: directories it has yet to visit
  at,        \* the directory whose watch was just added; its names come next
  change, timer, pending, running, done,  \* changeCh, timerCh, ..., doneCh
  config, reading, seen,  \* the rebuild: configuration, directories to read, what it read
  indexed,   \* indexed[i][d]: what the index of configuration i has of d
  faults,
  failed, lost, cut, unheard  \* history, see QuietIsFresh; cut: watches are missing

fsVars    == <<content, edits, unheard>>
watchVars == <<watched, walk, at, cut>>
loopVars  == <<change, timer, pending, running, done, failed>>
buildVars == <<config, reading, seen, indexed>>
allVars   == <<fsVars, watchVars, loopVars, buildVars, fsEvents, loop, faults, lost>>

Empty == [d \in Dirs |-> Gone]

Exists(d) == content[d] # Gone
Children(d) == {e \in Dirs \ {Root} : Parent[e] = d /\ Exists(e)}

\* shouldIgnoreWatchPath, which climbs above the root, for one configuration
\* and for all of them; and what the indexing of a configuration skips.
Ignored(i, d) == (Above[d] \cup {Outside}) \cap Configs[i] # {}
IgnoredByAll(d) == \A i \in DOMAIN Configs : Ignored(i, d)
Skipped(i, d) == Above[d] \cap Configs[i] # {}

WatchInit ==
  /\ \E there \in Starts : content = [d \in Dirs |-> IF d \in there THEN 1 ELSE Gone]
  /\ edits = 0
  /\ watched = {} /\ walk = {Root} /\ at = None /\ cut = FALSE
  /\ fsEvents = <<>> /\ loop = "start"
  /\ change = FALSE /\ timer = FALSE /\ pending = FALSE /\ running = FALSE
  /\ done = "none" /\ failed = FALSE
  /\ config = 0 /\ reading = {} /\ seen = Empty
  /\ indexed = [i \in DOMAIN Configs |-> Empty]
  /\ faults = 0 /\ lost = FALSE /\ unheard = {}

Fault == faults < MaxFaults /\ faults' = faults + 1

-----------------------------------------------------------------------------
(* The user and the kernel.                                                *)

\* The event reaches a watch of one of dirs; one too many is dropped
\* (ErrEventOverflow).
Emit(op, d, dirs) ==
  IF dirs \cap watched = {} \/ loop = "stopped" THEN UNCHANGED <<fsEvents, lost>>
  ELSE IF Len(fsEvents) < MaxQueue
  THEN fsEvents' = Append(fsEvents, [op |-> op, d |-> d]) /\ UNCHANGED lost
  ELSE lost' = TRUE /\ UNCHANGED fsEvents

Edit == edits < MaxEdits /\ edits' = edits + 1

\* A file in d is written, created or removed.
Write(d) ==
  /\ Edit /\ Exists(d)
  /\ content' = [content EXCEPT ![d] = edits + 2]
  /\ Emit("write", d, {d})
  /\ UNCHANGED <<watchVars, loopVars, buildVars, loop, faults, unheard>>

Mkdir(d) ==
  /\ Edit /\ d # Root /\ ~Exists(d) /\ Exists(Parent[d])
  /\ content' = [content EXCEPT ![d] = edits + 2]
  /\ unheard' = unheard \ {d}
  /\ Emit("create", d, {Parent[d]})
  /\ UNCHANGED <<watchVars, loopVars, buildVars, loop, faults>>

\* A directory of files is removed (rm -r takes one after the other, the
\* deepest first), or moved away as a whole.  Its own event comes as "gone";
\* "remove" are those of its files, which only its own watch reports.  A watch
\* goes with its directory.
Delete(d, op) ==
  LET files == op = "remove" /\ d \in watched IN
  /\ Edit /\ d # Root /\ Exists(d)
  /\ op = "remove" => Children(d) = {}
  /\ content' = [e \in Dirs |-> IF e \in Below(d) THEN Gone ELSE content[e]]
  /\ unheard' = IF Filter /\ ~files THEN unheard \cup Below(d) ELSE unheard \ Below(d)
  /\ Emit(IF files THEN "remove" ELSE "gone", d, {d, Parent[d]})
  /\ watched' = watched \ Below(d)
  /\ UNCHANGED <<walk, at, cut, loopVars, buildVars, loop, faults>>

-----------------------------------------------------------------------------
(* addWatchTreeDedup.                                                      *)

\* The walk of a new directory is followed by queueChange, the first walk by
\* the first indexing, or by the end when it failed.
AfterWalk(ok) ==
  /\ walk' = {} /\ at' = None
  /\ IF loop = "walk" THEN loop' = "select" /\ change' = TRUE /\ UNCHANGED running
     ELSE IF ok THEN loop' = "first" /\ running' = TRUE /\ UNCHANGED change
     ELSE loop' = "stopped" /\ UNCHANGED <<change, running>>
  /\ cut' = (cut \/ ~ok)
  /\ UNCHANGED <<timer, pending, done, failed>>

Walking == loop \in {"start", "walk"}

\* The walk visits a directory: gone, ignored, or watched before its names are read.
Visit ==
  /\ Walking /\ at = None
  /\ \E d \in walk :
       \/ /\ ~Exists(d) /\ AfterWalk(FALSE)
          /\ UNCHANGED <<watched, faults>>
       \/ /\ Exists(d) /\ IgnoredByAll(d)
          /\ walk' = walk \ {d}
          /\ UNCHANGED <<watched, at, cut, loop, loopVars, faults>>
       \/ /\ Exists(d) /\ ~IgnoredByAll(d)
          /\ watched' = watched \cup {d} /\ at' = d /\ walk' = walk \ {d}
          /\ UNCHANGED <<cut, loop, loopVars, faults>>
       \/ /\ Exists(d) /\ Fault /\ AfterWalk(FALSE)
          /\ UNCHANGED watched
  /\ UNCHANGED <<fsVars, buildVars, fsEvents, lost>>

ReadNames ==
  /\ Walking /\ at # None
  /\ IF Exists(at)
     THEN /\ walk' = walk \cup Children(at)
          /\ at' = None
          /\ UNCHANGED <<cut, loop, loopVars>>
     ELSE AfterWalk(FALSE)
  /\ UNCHANGED <<watched, faults, fsVars, buildVars, fsEvents, lost>>

WalkEnds ==
  /\ Walking /\ at = None /\ walk = {}
  /\ AfterWalk(TRUE)
  /\ UNCHANGED <<watched, faults, fsVars, buildVars, fsEvents, lost>>

-----------------------------------------------------------------------------
(* runNamedConfigs, on the loop's goroutine first and on its own later.     *)

Building == running /\ done = "none"

StartConfig ==
  /\ Building /\ config < Len(Configs) /\ reading = {}
  /\ config' = config + 1 /\ reading' = {Root} /\ seen' = Empty
  /\ UNCHANGED <<fsVars, watchVars, loopVars, indexed, fsEvents, loop, faults, lost>>

\* WalkDir and the readers, for one directory that was there when its parent
\* was read.
Read(d) ==
  /\ Building /\ d \in reading /\ Exists(d)
  /\ seen' = [seen EXCEPT ![d] = content[d]]
  /\ reading' = (reading \ {d}) \cup {e \in Children(d) : ~Skipped(config, e)}
  /\ IF reading' = {} THEN indexed' = [indexed EXCEPT ![config] = seen'] ELSE UNCHANGED indexed
  /\ UNCHANGED <<fsVars, watchVars, loopVars, config, fsEvents, loop, faults, lost>>

EndBuild(result) ==
  /\ done' = result
  /\ config' = 0 /\ reading' = {} /\ seen' = Empty
  /\ UNCHANGED <<fsVars, watchVars, change, timer, pending, running, failed, indexed,
                 fsEvents, loop, lost>>

\* Nothing is published of a configuration that could not be read, and the
\* ones after it are not indexed.
ReadFails(d) ==
  /\ Building /\ d \in reading
  /\ IF Exists(d) THEN Fault ELSE UNCHANGED faults
  /\ EndBuild("failed")

BuildDone ==
  /\ Building /\ config = Len(Configs) /\ reading = {}
  /\ EndBuild("ok")
  /\ UNCHANGED faults

\* The first indexing has to succeed.
FirstDone ==
  /\ loop = "first" /\ done # "none"
  /\ loop' = IF done = "ok" THEN "select" ELSE "stopped"
  /\ running' = FALSE /\ done' = "none"
  /\ UNCHANGED <<fsVars, watchVars, change, timer, pending, failed, buildVars, fsEvents, faults, lost>>

-----------------------------------------------------------------------------
(* The select loop.                                                        *)

\* watchEventRelevantForSpecs: a file has an extension of the filter, and of a
\* path that is gone Stat does not say that it was a directory.
Relevant(e) == e.op \in {"write", "remove"} \/ Exists(e.d) \/ ~Filter

\* A walk is announced that will come to d.
Announced(d, q) == \E e \in Range(q) : e.op = "create" /\ e.d \in Above[d]

\* case event := <-watcher.Events.  queueChange drops what does not fit.  The event of a
\* removal takes the watch of a directory that is there again, too.
TakeEvent ==
  /\ loop = "select" /\ fsEvents # <<>>
  /\ LET e == Head(fsEvents)
     IN  \/ /\ IgnoredByAll(e.d)
            /\ UNCHANGED <<loop, walk, watched, change, cut>>
         \/ /\ ~IgnoredByAll(e.d) /\ e.op = "create" /\ Exists(e.d)
            /\ loop' = "walk" /\ walk' = {e.d}
            /\ UNCHANGED <<change, watched, cut>>
         \/ /\ ~IgnoredByAll(e.d) /\ ~(e.op = "create" /\ Exists(e.d))
            /\ IF e.op \in {"remove", "gone"}
               THEN /\ watched' = watched \ {e.d}
                    /\ cut' = (cut \/ (Exists(e.d) /\ ~Announced(e.d, Tail(fsEvents))))
               ELSE UNCHANGED <<watched, cut>>
            /\ change' = (change \/ Relevant(e))
            /\ UNCHANGED <<loop, walk>>
  /\ fsEvents' = Tail(fsEvents)
  /\ UNCHANGED <<fsVars, at, timer, pending, running, done, failed, buildVars, faults, lost>>

\* case reason := <-changeCh
TakeChange ==
  /\ loop = "select" /\ change
  /\ change' = FALSE /\ pending' = TRUE /\ timer' = TRUE
  /\ UNCHANGED <<fsVars, watchVars, running, done, failed, buildVars, fsEvents, loop, faults, lost>>

\* case <-timerCh
TimerFires ==
  /\ loop = "select" /\ timer
  /\ timer' = FALSE
  /\ IF pending /\ ~running THEN pending' = FALSE /\ running' = TRUE /\ unheard' = {}
     ELSE UNCHANGED <<pending, running, unheard>>
  /\ UNCHANGED <<content, edits, watchVars, change, done, failed, buildVars, fsEvents, loop, faults, lost>>

\* Mutation: a change during the rebuild counts as covered by it.
TakeDoneCovers ==
  /\ loop = "select" /\ done # "none"
  /\ running' = FALSE /\ done' = "none" /\ failed' = (done = "failed")
  /\ pending' = FALSE /\ timer' = FALSE
  /\ UNCHANGED <<fsVars, watchVars, change, buildVars, fsEvents, loop, faults, lost>>

\* Mutation: the timer that fired during the rebuild is not set again.
TakeDoneNoTimer ==
  /\ loop = "select" /\ done # "none"
  /\ running' = FALSE /\ done' = "none" /\ failed' = (done = "failed")
  /\ UNCHANGED <<fsVars, watchVars, change, timer, pending, buildVars, fsEvents, loop, faults, lost>>

\* case err := <-doneCh
TakeDone ==
  /\ loop = "select" /\ done # "none"
  /\ running' = FALSE /\ done' = "none" /\ failed' = (done = "failed")
  /\ timer' = (timer \/ pending)
  /\ UNCHANGED <<fsVars, watchVars, change, pending, buildVars, fsEvents, loop, faults, lost>>

\* case <-sigCh
Interrupt ==
  /\ loop = "select" /\ loop' = "stopped"
  /\ UNCHANGED <<fsVars, watchVars, loopVars, buildVars, fsEvents, faults, lost>>

-----------------------------------------------------------------------------
Loop == Visit \/ ReadNames \/ WalkEnds \/ FirstDone \/ TakeEvent \/ TakeChange \/ TimerFires \/ TakeDone
Build == StartConfig \/ BuildDone \/ \E d \in Dirs : Read(d) \/ ReadFails(d)

WatchNext ==
  \/ \E d \in Dirs : Write(d) \/ Mkdir(d) \/ \E op \in {"remove", "move"} : Delete(d, op)
  \/ Loop \/ Interrupt
  \/ loop # "stopped" /\ Build

\* The loop and the rebuild go on; select does not pass over a ready case for
\* ever.
WatchSpec ==
  /\ WatchInit /\ [][WatchNext]_allVars
  /\ WF_allVars(Visit \/ ReadNames \/ WalkEnds \/ FirstDone)
  /\ SF_allVars(TakeEvent) /\ SF_allVars(TakeChange) /\ SF_allVars(TimerFires) /\ SF_allVars(TakeDone)
  /\ WF_allVars(loop # "stopped" /\ Build)

-----------------------------------------------------------------------------
Quiet ==
  /\ loop = "select" /\ fsEvents = <<>>
  /\ ~change /\ ~pending /\ ~running /\ done = "none"

\* When nothing is left to be done, the index of every configuration is what
\* is on disk: no edit falls between the events, the debounce timer, a rebuild
\* that runs and the watches of new directories.  Excepted are what the code
\* gives up on: events the kernel dropped (lost), a walk that was cut short
\* (cut) and the last rebuild having failed; and what it does not notice: a
\* directory that was removed, came back and loses its new watch to the event
\* of the removal (cut); with an extension filter, a directory that was moved
\* away as a whole, or removed before it had a watch, since the last rebuild
\* began (unheard); and a directory that is indexed and that nobody watches,
\* the root itself in a directory of an ignored name.
QuietIsFresh ==
  Quiet /\ ~lost /\ ~cut /\ ~failed =>
    \A i \in DOMAIN Configs : \A d \in Dirs :
      IF Skipped(i, d) THEN indexed[i][d] = Gone
      ELSE indexed[i][d] = content[d] \/ d \in unheard \/ IgnoredByAll(d)

\* Once the user stops editing, the last rebuild ends and no other follows.
WatchSettles == <>[](Quiet \/ loop = "stopped")
=============================================================================
