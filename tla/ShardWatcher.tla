---------------------------- MODULE ShardWatcher ----------------------------
(***************************************************************************)
(* The shards a web server serves follow the index directory: the          *)
(* DirectoryWatcher of search/watcher.go, the loader and                   *)
(* shardedSearcher.replace of search/shards.go, and searches that take     *)
(* what is loaded (getLoaded) meanwhile.                                   *)
(*                                                                         *)
(* Other processes replace, delete and annotate (.meta) shard files at any *)
(* time.  A scan lists the directory, then looks at one file after the     *)
(* other, then loads; nothing holds the directory still.                   *)
(***************************************************************************)
EXTENDS Naturals, FiniteSets

CONSTANTS Files,       \* shard file names
          Name,        \* Name[f]: the name without version and shard number suffix
          Version,     \* Version[f]: the index format version
          MaxVersion,  \* the larger of IndexFormatVersion and NextIndexFormatVersion
          InitialShards, InitialMeta, \* the files there are at the start, and which of them have a .meta
          Searchers,   \* searches that call getLoaded
          MaxChanges,  \* bound: changes to the directory
          MaxFails     \* bound: loads that fail although the file is there

ASSUME WatcherAssumption ==
  /\ IsFiniteSet(Files) /\ InitialMeta \subseteq InitialShards /\ InitialShards \subseteq Files
  /\ Version \in [Files -> Nat] /\ DOMAIN Name = Files
  /\ MaxVersion \in Nat /\ MaxChanges \in Nat /\ MaxFails \in Nat

Absent == 0

VARIABLES
  clock,       \* time of the last change; no two changes have the same mtime
  disk,        \* disk[f]: mtime of shard file f, or Absent
  meta,        \* meta[f]: mtime of f.meta, or Absent
  fails,       \* loads that failed so far
  events,      \* fsnotify has an event to deliver
  watch,       \* "none", "on", "failed" or "closed": the fsnotify watcher and its goroutine
  signal,      \* the signal channel holds an element
  pc,          \* the scanning goroutine
  looked,      \* files the scan has listed and has yet to look at
  ts,          \* ts[f]: mtime the scan found, or Absent
  timestamps,  \* DirectoryWatcher.timestamps, Absent for no entry
  toDrop, toLoad,
  chunk,       \* loadedShards: loaded and not yet published
  broken,      \* broken[f]: stamp of the version of f that last failed to load
  ranked,      \* shardedSearcher.shards and its sorted copy; NoShard for no entry
  ready,       \* shardedSearcher.ready
  initial,     \* history: shards of the first load that have not been dropped since
  got,         \* got[p]: what search p has read of ready, if it is in getLoaded
  close        \* "open", "quit" or "closed": directorySearcher.Close

dirVars == <<clock, disk, meta, events>>
scanVars == <<looked, ts, timestamps, toDrop, toLoad, chunk>>
vars == <<dirVars, fails, watch, signal, pc, scanVars, broken, ranked, ready, initial, got, close>>

NoShard == <<>>
\* Search p is not in getLoaded; else got[p] is what it read for ready.
Idle == "idle"

Served == {f \in Files : ranked[f] # NoShard}

Init ==
  /\ clock = 2
  /\ disk = [f \in Files |-> IF f \in InitialShards THEN 1 ELSE Absent]
  /\ meta = [f \in Files |-> IF f \in InitialMeta THEN 2 ELSE Absent]
  /\ fails = 0 /\ events = FALSE /\ watch = "none" /\ signal = FALSE
  /\ pc = "start"
  /\ looked = {} /\ toDrop = {} /\ toLoad = {}
  /\ ts = [f \in Files |-> Absent]
  /\ timestamps = [f \in Files |-> Absent]
  /\ chunk = [f \in Files |-> NoShard]
  /\ broken = [f \in Files |-> Absent]
  /\ ranked = [f \in Files |-> NoShard]
  /\ ready = FALSE /\ initial = {}
  /\ got = [p \in Searchers |-> Idle]
  /\ close = "open"

-----------------------------------------------------------------------------
(* The directory.                                                          *)

Stamp(d, m) == IF m > d THEN m ELSE d

\* latest: the newest supported version of each name among fs.
Latest(fs, f) ==
  LET vs == {Version[g] : g \in {h \in fs : Name[h] = Name[f] /\ Version[h] <= MaxVersion}}
  IN  IF vs = {} THEN 0 ELSE CHOOSE v \in vs : \A u \in vs : u <= v

OnDisk == {f \in Files : disk[f] # Absent}
Wanted == {f \in OnDisk : Version[f] = Latest(OnDisk, f)}

\* A change by another process; fsnotify sees it once it watches.
Change(d, m) ==
  /\ clock < MaxChanges + 2
  /\ clock' = clock + 1
  /\ disk' = d /\ meta' = m
  /\ events' = (events \/ watch = "on")
  /\ UNCHANGED <<fails, watch, signal, pc, scanVars, broken, ranked, ready, initial, got, close>>

\* A build renames a new shard into place, or cleanup deletes one.
WriteShard(f) == Change([disk EXCEPT ![f] = clock + 1], meta)
RemoveShard(f) == disk[f] # Absent /\ Change([disk EXCEPT ![f] = Absent], meta)

\* A tombstone or new metadata.
WriteMeta(f) == disk[f] # Absent /\ Change(disk, [meta EXCEPT ![f] = clock + 1])

\* Builder.Finish removes the old .meta after the rename, cleanup after the shard.
RemoveMeta(f) == /\ meta[f] # Absent /\ (disk[f] = Absent \/ meta[f] < disk[f])
                 /\ Change(disk, [meta EXCEPT ![f] = Absent])

-----------------------------------------------------------------------------
(* DirectoryWatcher.watch: the goroutine that turns events into signals.   *)

\* The initial scan is over: watch the directory and start the goroutines,
\* unless fsnotify refuses.
StartWatch ==
  /\ pc = "scanned" /\ watch = "none"
  /\ \/ watch' = "on" /\ pc' = "idle"
     \/ watch' = "failed" /\ pc' = "gone"
  /\ UNCHANGED <<dirVars, fails, signal, scanVars, broken, ranked, ready, initial, got, close>>

FsEvent ==
  /\ watch = "on" /\ events
  /\ events' = FALSE /\ signal' = TRUE
  /\ UNCHANGED <<clock, disk, meta, fails, watch, pc, scanVars, broken, ranked, ready, initial, got, close>>

\* fsnotify.ErrEventOverflow: an event is lost.
Overflow ==
  /\ watch = "on" /\ events
  /\ events' = FALSE
  /\ UNCHANGED <<clock, disk, meta, fails, watch, signal, pc, scanVars, broken, ranked, ready, initial, got, close>>

\* Mutation: the directory is never double checked.
TickerOff == FALSE /\ UNCHANGED vars

\* Every minute.
Ticker ==
  /\ watch = "on"
  /\ signal' = TRUE
  /\ UNCHANGED <<dirVars, fails, watch, pc, scanVars, broken, ranked, ready, initial, got, close>>

\* The goroutine sees quit and closes signal.
Quit ==
  /\ watch = "on" /\ close # "open"
  /\ watch' = "closed"
  /\ UNCHANGED <<dirVars, fails, signal, pc, scanVars, broken, ranked, ready, initial, got, close>>

-----------------------------------------------------------------------------
(* DirectoryWatcher.scan.                                                  *)

\* Mutation: every version is wanted.
GlobAll ==
  /\ \/ pc = "start" /\ UNCHANGED signal
     \/ pc = "idle" /\ signal /\ signal' = FALSE
  /\ looked' = OnDisk
  /\ ts' = [f \in Files |-> Absent]
  /\ pc' = "stat"
  /\ UNCHANGED <<dirVars, fails, watch, timestamps, toDrop, toLoad, chunk, broken, ranked, ready, initial, got, close>>

\* A signal is received, or this is the initial scan: list the directory.
Glob ==
  /\ \/ pc = "start" /\ UNCHANGED signal
     \/ pc = "idle" /\ signal /\ signal' = FALSE
  /\ looked' = {f \in OnDisk : Version[f] = Latest(OnDisk, f)}
  /\ ts' = [f \in Files |-> Absent]
  /\ pc' = "stat"
  /\ UNCHANGED <<dirVars, fails, watch, timestamps, toDrop, toLoad, chunk, broken, ranked, ready, initial, got, close>>

\* The loop over signal ends when it is closed and empty.
ScannerExit ==
  /\ pc = "idle" /\ watch = "closed" /\ ~signal
  /\ pc' = "gone"
  /\ UNCHANGED <<dirVars, fails, watch, signal, scanVars, broken, ranked, ready, initial, got, close>>

\* Look at a listed file and its .meta; it may have gone.
Stat(f) ==
  /\ pc = "stat" /\ f \in looked
  /\ ts' = [ts EXCEPT ![f] = IF disk[f] = Absent THEN Absent ELSE Stamp(disk[f], meta[f])]
  /\ looked' = looked \ {f}
  /\ UNCHANGED <<dirVars, fails, watch, signal, pc, timestamps, toDrop, toLoad, chunk, broken, ranked, ready, initial, got, close>>

\* What changed since the last scan; timestamps are brought up to date now.
Compare ==
  /\ pc = "stat" /\ looked = {}
  /\ toLoad' = {f \in Files : ts[f] # Absent /\ timestamps[f] # ts[f]}
  /\ toDrop' = {f \in Files : ts[f] = Absent /\ timestamps[f] # Absent}
  /\ timestamps' = ts
  /\ pc' = "drop"
  /\ UNCHANGED <<dirVars, fails, watch, signal, looked, ts, chunk, broken, ranked, ready, initial, got, close>>

\* loader.drop.
Drop ==
  /\ pc = "drop"
  /\ ranked' = [f \in Files |-> IF f \in toDrop THEN NoShard ELSE ranked[f]]
  /\ initial' = initial \ toDrop
  /\ toDrop' = {}
  /\ pc' = "load"
  /\ UNCHANGED <<dirVars, fails, watch, signal, looked, ts, timestamps, toLoad, chunk, broken, ready, got, close>>

\* loadShard in a goroutine of its own: the file as it is now, or not at all.
Load(f) ==
  /\ pc = "load" /\ f \in toLoad
  /\ toLoad' = toLoad \ {f}
  /\ \/ /\ disk[f] # Absent
        /\ chunk' = [chunk EXCEPT ![f] = <<disk[f], meta[f]>>]
        /\ broken' = [broken EXCEPT ![f] = Absent]
        /\ UNCHANGED fails
     \/ /\ \/ disk[f] = Absent /\ UNCHANGED fails
           \/ disk[f] # Absent /\ fails < MaxFails /\ fails' = fails + 1
        /\ broken' = [broken EXCEPT ![f] = timestamps[f]]
        /\ UNCHANGED chunk
  /\ UNCHANGED <<dirVars, watch, signal, pc, looked, ts, timestamps, toDrop, ranked, ready, initial, got, close>>

\* replace: old versions stay in use until the new ones are all there.
Replaced == [f \in Files |-> IF chunk[f] # NoShard THEN chunk[f] ELSE ranked[f]]

\* publishLoaded while the load goes on.
PublishSome ==
  /\ pc = "load" /\ toLoad # {} /\ \E f \in Files : chunk[f] # NoShard
  /\ ranked' = Replaced
  /\ chunk' = [f \in Files |-> NoShard]
  /\ initial' = IF ready THEN initial ELSE initial \cup {f \in Files : chunk[f] # NoShard}
  /\ UNCHANGED <<dirVars, fails, watch, signal, pc, looked, ts, timestamps, toDrop, toLoad, broken, ready, got, close>>

\* Mutation: ready before the last shards are published.
PublishReadyFirst ==
  /\ pc = "load" /\ toLoad = {}
  /\ IF ready
     THEN /\ ranked' = Replaced
          /\ chunk' = [f \in Files |-> NoShard]
          /\ initial' = initial
          /\ pc' = IF watch = "none" THEN "scanned" ELSE "idle"
          /\ UNCHANGED ready
     ELSE /\ ready' = TRUE
          /\ initial' = initial \cup {f \in Files : chunk[f] # NoShard}
          /\ UNCHANGED <<ranked, chunk, pc>>
  /\ UNCHANGED <<dirVars, fails, watch, signal, looked, ts, timestamps, toDrop, toLoad, broken, got, close>>

\* The end of loader.load: publish the rest.
Publish ==
  /\ pc = "load" /\ toLoad = {}
  /\ ranked' = Replaced
  /\ chunk' = [f \in Files |-> NoShard]
  /\ initial' = IF ready THEN initial ELSE initial \cup {f \in Files : chunk[f] # NoShard}
  /\ pc' = "mark"
  /\ UNCHANGED <<dirVars, fails, watch, signal, looked, ts, timestamps, toDrop, toLoad, broken, ready, got, close>>

\* Mutation: the times are recorded when the load is over.
MarkReadyStamping ==
  /\ pc = "mark"
  /\ ready' = TRUE
  /\ pc' = IF watch = "none" THEN "scanned" ELSE "idle"
  /\ timestamps' = [f \in Files |-> IF timestamps[f] = Absent \/ disk[f] = Absent
                                    THEN timestamps[f] ELSE Stamp(disk[f], meta[f])]
  /\ UNCHANGED <<dirVars, fails, watch, signal, looked, ts, toDrop, toLoad, chunk, broken, ranked, initial, got, close>>

\* markReady, deferred by load; then scan returns.
MarkReady ==
  /\ pc = "mark"
  /\ ready' = TRUE
  /\ pc' = IF watch = "none" THEN "scanned" ELSE "idle"
  /\ UNCHANGED <<dirVars, fails, watch, signal, scanVars, broken, ranked, initial, got, close>>

-----------------------------------------------------------------------------
(* shardedSearcher.getLoaded, in its two reads.                            *)

GetReady(p) ==
  /\ got[p] = Idle
  /\ got' = [got EXCEPT ![p] = IF ready THEN "ready" ELSE "loading"]
  /\ UNCHANGED <<dirVars, fails, watch, signal, pc, scanVars, broken, ranked, ready, initial, close>>

\* The search takes the shards that are Served now.
GetRanked(p) ==
  /\ got[p] # Idle
  /\ got' = [got EXCEPT ![p] = Idle]
  /\ UNCHANGED <<dirVars, fails, watch, signal, pc, scanVars, broken, ranked, ready, initial, close>>

-----------------------------------------------------------------------------
(* directorySearcher.Close.                                                *)

\* DirectoryWatcher.Stop: close quit ...
Stop ==
  /\ close = "open"
  /\ close' = "quit"
  /\ UNCHANGED <<dirVars, fails, watch, signal, pc, scanVars, broken, ranked, ready, initial, got>>

\* ... wait for stopped, which the scanner closes, and drop every shard.
Stopped ==
  /\ close = "quit" /\ pc = "gone" /\ watch # "failed"
  /\ close' = "closed"
  /\ ranked' = [f \in Files |-> NoShard]
  /\ initial' = {}
  /\ UNCHANGED <<dirVars, fails, watch, signal, pc, scanVars, broken, ready, got>>

-----------------------------------------------------------------------------
Environment == \E f \in Files : WriteShard(f) \/ RemoveShard(f) \/ WriteMeta(f) \/ RemoveMeta(f)

Scanner == \/ StartWatch \/ Glob \/ (\E f \in Files : Stat(f)) \/ Compare \/ Drop
           \/ (\E f \in Files : Load(f)) \/ Publish \/ MarkReady \/ ScannerExit

Next == \/ Environment \/ Scanner \/ PublishSome
        \/ FsEvent \/ Overflow \/ Ticker \/ Quit
        \/ (\E p \in Searchers : GetReady(p) \/ GetRanked(p))
        \/ Stop \/ Stopped

Spec == Init /\ [][Next]_vars

\* The goroutines run and the ticker ticks.
FairSpec == /\ Spec
            /\ WF_vars(Scanner) /\ WF_vars(Ticker) /\ WF_vars(Quit) /\ WF_vars(Stopped)

-----------------------------------------------------------------------------
Maybe(S) == S \cup {NoShard}

\* The version of f that is served is the one on disk; a .meta that has been
\* deleted may still be in use.
UpToDate(f) == /\ ranked[f] # NoShard /\ ranked[f][1] = disk[f]
               /\ meta[f] # Absent => ranked[f][2] = meta[f]

\* Between scans, a shard file whose time is the one on record is served as it
\* is on disk, unless that very version failed to load: a change is never
\* recorded as seen without having been loaded.
Synced ==
  (pc \in {"idle", "scanned"} /\ close # "closed") =>
    \A f \in Files :
      (disk[f] # Absent /\ timestamps[f] = Stamp(disk[f], meta[f]))
        => UpToDate(f) \/ broken[f] = timestamps[f]

\* A search told that the server is ready has every shard of the initial load,
\* except those that have been dropped since.
ReadyMeansAll ==
  [][\A p \in Searchers : got[p] = "ready" /\ got'[p] = Idle => initial \subseteq Served]_vars

\* Two format versions of an index are never served together, or every match
\* would be found twice.
OneVersion == \A f, g \in Served : Name[f] = Name[g] => Version[f] = Version[g]

\* After Close nothing is loaded again.
ClosedIsEmpty == close = "closed" => Served = {}

\* What is served, whatever the loader is doing.
ServedSound == OneVersion /\ ClosedIsEmpty

\* Once the directory is left alone, what is served becomes the newest
\* supported version of each shard on disk, except versions that failed to
\* load; a directory that could not be watched is not followed.
Converges ==
  <>[](\/ close # "open" \/ watch = "failed"
       \/ /\ Served \subseteq Wanted
          /\ \A f \in Wanted : UpToDate(f) \/ broken[f] = Stamp(disk[f], meta[f]))

\* Close returns, unless the watch failed: then nobody closes stopped.
StopReturns == (close = "quit") ~> (close = "closed" \/ watch = "failed")

\* The watcher follows the directory until it is closed, and then it stops.
Follows == Converges /\ StopReturns
=============================================================================
