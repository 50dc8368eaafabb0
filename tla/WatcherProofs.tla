--------------------------- MODULE WatcherProofs ----------------------------
(***************************************************************************)
(* The two watchers.  ShardWatcher for any set of files, names and         *)
(* versions, any number of changes, failing loads and searches.  WatchMode *)
(* for any tree of directories, any configurations, with and without a     *)
(* filter, whatever the user does and when.                                *)
(***************************************************************************)
EXTENDS ShardWatcher, WatchMode, TLAPS

-----------------------------------------------------------------------------
(* ShardWatcher.                                                           *)

Shard == {NoShard} \cup (Nat \X Nat)

TypeOK ==
  /\ clock \in Nat
  /\ disk \in [Files -> Nat] /\ meta \in [Files -> Nat]
  /\ ts \in [Files -> Nat] /\ timestamps \in [Files -> Nat] /\ broken \in [Files -> Nat]
  /\ chunk \in [Files -> Shard] /\ ranked \in [Files -> Shard]
  /\ looked \subseteq Files /\ toDrop \subseteq Files /\ toLoad \subseteq Files
  /\ initial \subseteq Files
  /\ got \in [Searchers -> {Idle, "ready", "loading"}]

\* No mtime is of the future, so that a later change of a file has another one, and a
\* shard and its .meta were not written at the same time.
Clocked ==
  \A f \in Files : /\ disk[f] <= clock /\ meta[f] <= clock
                   /\ ts[f] <= clock /\ timestamps[f] <= clock
                   /\ disk[f] # Absent => disk[f] # meta[f]

Chunked == {f \in Files : chunk[f] # NoShard}
Known == {f \in Files : timestamps[f] # Absent}
Found == {f \in Files : ts[f] # Absent}

\* What the scanner holds only in some of its states.
ScanOK ==
  /\ pc \notin {"drop", "load"} => toLoad = {}
  /\ pc # "drop" => toDrop = {}
  /\ pc # "load" => Chunked = {}
  /\ toLoad \subseteq Known /\ toDrop \cap Known = {}
  /\ close = "closed" => pc = "gone" /\ Served = {}

\* What is loaded or served has a time on record, except what is about to be dropped.
ServedKnown == Served \cup Chunked \subseteq Known \cup toDrop

\* fs holds one format version of each name.
OneOfName(fs) == \A f, g \in fs : Name[f] = Name[g] => Version[f] = Version[g]

OneOfEach == OneOfName(looked \cup Found) /\ OneOfName(Known) /\ OneOfName(Served)

\* The newest that was loaded of f.
Newest(f) == IF chunk[f] # NoShard THEN chunk[f] ELSE ranked[f]

IsOnDisk(x, f) == x # NoShard /\ x[1] = disk[f] /\ (meta[f] # Absent => x[2] = meta[f])

\* A file that is not about to be loaded and whose time is on record was loaded as it is
\* on disk.
LoadedAsSeen ==
  close # "closed" =>
    \A f \in Files \ toLoad :
      (disk[f] # Absent /\ timestamps[f] = Stamp(disk[f], meta[f]))
        => IsOnDisk(Newest(f), f) \/ broken[f] = timestamps[f]

\* Every shard of the first load is served until it is dropped.
InitialServed == initial \subseteq Served

IInv == TypeOK /\ Clocked /\ ScanOK /\ ServedKnown /\ OneOfEach /\ LoadedAsSeen /\ InitialServed

\* The server starts in the invariant: nothing is loaded, nothing is on record.
LEMMA InitInv == Init => IInv
<1> SUFFICES ASSUME Init PROVE IInv
  OBVIOUS
<1> USE WatcherAssumption DEF Init, Absent
<1>1. TypeOK
  BY DEF TypeOK, Shard
<1>2. Clocked
  BY DEF Clocked
<1>3. Served = {} /\ Chunked = {} /\ Known = {} /\ Found = {}
  BY DEF Served, Chunked, Known, Found
<1>4. LoadedAsSeen
  BY DEF LoadedAsSeen, Stamp
<1> QED
  BY <1>1, <1>2, <1>3, <1>4 DEF IInv, ScanOK, ServedKnown, OneOfEach, OneOfName, InitialServed

-----------------------------------------------------------------------------
(* The state has its type.                                                 *)

\* Every step of the directory, the watcher, the scanner, a search and Close keeps it.
LEMMA TypeStep == ASSUME TypeOK, [Next]_vars PROVE TypeOK'
<1> USE WatcherAssumption DEF TypeOK, Absent, Shard
<1>1. CASE Environment
  BY <1>1 DEF Environment, WriteShard, RemoveShard, WriteMeta, RemoveMeta, Change, scanVars
<1>2. CASE StartWatch \/ ScannerExit \/ MarkReady \/ FsEvent \/ Overflow \/ Ticker \/ Quit \/ Stop
  BY <1>2 DEF StartWatch, ScannerExit, MarkReady, FsEvent, Overflow, Ticker, Quit, Stop, scanVars, dirVars
<1>3. CASE Glob
  BY <1>3 DEF Glob, OnDisk, dirVars
<1>4. ASSUME NEW f \in Files, Stat(f) PROVE TypeOK'
  BY <1>4 DEF Stat, Stamp, dirVars
<1>5. CASE Compare
  BY <1>5 DEF Compare, dirVars
<1>6. CASE Drop
  BY <1>6 DEF Drop, dirVars
<1>7. ASSUME NEW f \in Files, Load(f) PROVE TypeOK'
  BY <1>7 DEF Load, dirVars
<1>8. CASE Publish \/ PublishSome
  BY <1>8 DEF Publish, PublishSome, Replaced, dirVars
<1>9. ASSUME NEW p \in Searchers, GetReady(p) \/ GetRanked(p) PROVE TypeOK'
  BY <1>9 DEF GetReady, GetRanked, scanVars, dirVars
<1>10. CASE Stopped
  BY <1>10 DEF Stopped, scanVars, dirVars
<1>11. CASE UNCHANGED vars
  BY <1>11 DEF vars, scanVars, dirVars
<1> QED
  BY <1>1, <1>2, <1>3, <1>4, <1>5, <1>6, <1>7, <1>8, <1>9, <1>10, <1>11 DEF Next, Scanner

-----------------------------------------------------------------------------
(* The directory changes.                                                  *)

\* A stamp is the mtime of the file or of its .meta, whichever is newer.
LEMMA StampOf == ASSUME NEW d \in Nat, NEW m \in Nat
                 PROVE /\ Stamp(d, m) \in Nat /\ Stamp(d, m) >= d /\ Stamp(d, m) >= m
                       /\ Stamp(d, m) \in {d, m}
  BY DEF Stamp

\* A change gives a file an mtime that no scan has seen, or takes a file or a .meta away.
LEMMA ChangeStep ==
  ASSUME IInv, Environment
  PROVE /\ Clocked'
        /\ \A f \in Files :
             (disk'[f] # Absent /\ timestamps[f] = Stamp(disk'[f], meta'[f]))
               => /\ disk[f] = disk'[f] /\ timestamps[f] = Stamp(disk[f], meta[f])
                  /\ meta'[f] # Absent => meta[f] = meta'[f]
        /\ UNCHANGED <<fails, watch, signal, pc, scanVars, broken, ranked, ready, initial, got, close>>
<1> USE DEF IInv, TypeOK, Clocked, Absent
<1>1. PICK g \in Files : WriteShard(g) \/ RemoveShard(g) \/ WriteMeta(g) \/ RemoveMeta(g)
  BY DEF Environment
<1>2. CASE WriteShard(g)
  BY <1>2 DEF WriteShard, Change, Stamp, scanVars
<1>3. CASE RemoveShard(g)
  BY <1>3 DEF RemoveShard, Change, Stamp, scanVars
<1>4. CASE WriteMeta(g)
  BY <1>4 DEF WriteMeta, Change, Stamp, scanVars
<1>5. CASE RemoveMeta(g)
  BY <1>5 DEF RemoveMeta, Change, Stamp, scanVars
<1> QED
  BY <1>1, <1>2, <1>3, <1>4, <1>5

\* So the invariant survives it.
LEMMA EnvironmentStep == ASSUME IInv, Environment PROVE IInv'
<1>1. TypeOK'
  BY TypeStep DEF IInv, Next
<1>2. /\ Clocked'
      /\ UNCHANGED <<fails, watch, signal, pc, scanVars, broken, ranked, ready, initial, got, close>>
  BY ChangeStep
<1>3. ScanOK' /\ ServedKnown' /\ OneOfEach' /\ InitialServed'
  BY <1>2 DEF IInv, ScanOK, ServedKnown, OneOfEach, OneOfName, InitialServed, Chunked, Known, Found, Served, scanVars
<1>4. LoadedAsSeen'
  <2> SUFFICES ASSUME close # "closed", NEW f \in Files \ toLoad, disk'[f] # Absent,
                      timestamps[f] = Stamp(disk'[f], meta'[f])
               PROVE IsOnDisk(Newest(f), f)' \/ broken[f] = timestamps[f]
    BY <1>2 DEF LoadedAsSeen, scanVars
  <2>1. /\ disk[f] = disk'[f] /\ timestamps[f] = Stamp(disk[f], meta[f])
        /\ meta'[f] # Absent => meta[f] = meta'[f]
    BY ChangeStep
  <2>2. IsOnDisk(Newest(f), f) \/ broken[f] = timestamps[f]
    BY <2>1 DEF IInv, LoadedAsSeen
  <2>3. Newest(f)' = Newest(f)
    BY <1>2 DEF Newest, scanVars
  <2> QED
    BY <2>1, <2>2, <2>3 DEF IsOnDisk
<1> QED
  BY <1>1, <1>2, <1>3, <1>4 DEF IInv

-----------------------------------------------------------------------------
(* The scan.                                                               *)

\* Steps that leave the directory and the loader's state alone: the watcher's goroutine,
\* searches, Close's first half.
LEMMA QuietStep ==
  ASSUME IInv, UNCHANGED <<clock, disk, meta, scanVars, broken, ranked, initial>>,
         \/ pc' = pc /\ (close' = close \/ (close = "open" /\ close' = "quit"))
         \/ /\ close' = close /\ pc # "gone" /\ pc' \in {"idle", "scanned", "gone"}
            /\ pc \notin {"drop", "load"},
         TypeOK'
  PROVE IInv'
<1>1. Clocked' /\ ServedKnown' /\ OneOfEach' /\ InitialServed'
  BY DEF IInv, Clocked, ServedKnown, OneOfEach, OneOfName, InitialServed, Chunked, Known, Found, Served, scanVars
<1>2. ScanOK'
  BY DEF IInv, ScanOK, Chunked, Known, Served, scanVars
<1>3. LoadedAsSeen'
  BY DEF IInv, ScanOK, LoadedAsSeen, IsOnDisk, Newest, scanVars
<1> QED
  BY <1>1, <1>2, <1>3 DEF IInv

\* DirectoryWatcher.scan lists one file of each name: which version it takes depends on
\* the name alone.
LEMMA GlobStep == ASSUME IInv, Glob PROVE IInv'
<1> USE DEF IInv
<1>1. TypeOK'
  BY TypeStep DEF Next, Scanner
<1>2. pc \in {"start", "idle"} /\ UNCHANGED <<dirVars, timestamps, toDrop, toLoad, chunk, broken, ranked, initial, close>>
  BY DEF Glob
<1>3. pc' = "stat" /\ Found' = {} /\ \A f \in Files : ts'[f] = Absent
  BY DEF Glob, Found
<1>4. Clocked' /\ ServedKnown' /\ InitialServed'
  BY <1>2, <1>3 DEF TypeOK, Clocked, Absent, ServedKnown, InitialServed, Chunked, Known, Served, dirVars
<1>5. ScanOK' /\ LoadedAsSeen'
  BY <1>2, <1>3 DEF ScanOK, LoadedAsSeen, IsOnDisk, Newest, Chunked, Known, Served, dirVars
<1>6. OneOfName(looked')
  <2>1. \A f, g \in Files : Name[f] = Name[g] => Latest(OnDisk, f) = Latest(OnDisk, g)
    BY DEF Latest
  <2>2. looked' = {f \in OnDisk : Version[f] = Latest(OnDisk, f)} /\ OnDisk \subseteq Files
    BY DEF Glob, OnDisk
  <2> QED
    BY <2>1, <2>2 DEF OneOfName
<1>7. OneOfEach'
  BY <1>2, <1>3, <1>6 DEF OneOfEach, OneOfName, Known, Served
<1> QED
  BY <1>1, <1>4, <1>5, <1>7

\* Looking at a file takes the newer of two times that have been.
LEMMA StatStep == ASSUME IInv, NEW f \in Files, Stat(f) PROVE IInv'
<1> USE DEF IInv
<1>1. TypeOK'
  BY TypeStep DEF Next, Scanner
<1>2. /\ pc' = pc /\ f \in looked /\ looked' = looked \ {f}
      /\ ts' = [ts EXCEPT ![f] = IF disk[f] = Absent THEN Absent ELSE Stamp(disk[f], meta[f])]
      /\ UNCHANGED <<dirVars, timestamps, toDrop, toLoad, chunk, broken, ranked, initial, close>>
  BY DEF Stat
<1>3. Clocked'
  <2>1. \A g \in Files : Stamp(disk[g], meta[g]) <= clock
    BY DEF TypeOK, Clocked, Stamp
  <2>2. ts'[f] <= clock /\ \A g \in Files \ {f} : ts'[g] = ts[g]
    BY <1>2, <2>1 DEF TypeOK, Absent
  <2> QED
    BY <1>2, <2>2 DEF Clocked, dirVars
<1>4. ServedKnown' /\ InitialServed'
  BY <1>2 DEF ServedKnown, InitialServed, Chunked, Known, Served
<1>5. ScanOK' /\ LoadedAsSeen'
  BY <1>2 DEF ScanOK, LoadedAsSeen, IsOnDisk, Newest, Chunked, Known, Served, dirVars
<1>6. looked' \cup Found' \subseteq looked \cup Found
  BY <1>2 DEF Found, TypeOK
<1>7. OneOfEach'
  BY <1>2, <1>6 DEF OneOfEach, OneOfName, Known, Served
<1> QED
  BY <1>1, <1>3, <1>4, <1>5, <1>7

\* The comparison puts the new times on record; a file whose time is the old one was
\* loaded by an earlier scan.
LEMMA CompareStep == ASSUME IInv, Compare PROVE IInv'
<1> USE DEF IInv
<1>1. TypeOK'
  BY TypeStep DEF Next, Scanner
<1>2. /\ pc = "stat" /\ pc' = "drop" /\ timestamps' = ts /\ looked = {}
      /\ UNCHANGED <<dirVars, looked, ts, chunk, broken, ranked, initial, close>>
  BY DEF Compare
<1>3. Clocked' /\ InitialServed'
  BY <1>2 DEF Clocked, InitialServed, Served, dirVars
<1>4. toLoad = {} /\ toDrop = {} /\ Chunked = {} /\ close # "closed"
  BY <1>2 DEF ScanOK
<1>5. Known' = Found /\ toLoad' \subseteq Known' /\ toDrop' = Known \ Known'
  BY <1>2 DEF Compare, Known, Found
<1>6. ServedKnown' /\ ScanOK'
  BY <1>2, <1>4, <1>5 DEF ServedKnown, ScanOK, Chunked, Served
<1>7. OneOfEach'
  BY <1>2, <1>5 DEF OneOfEach, OneOfName, Found, Served
<1>8. LoadedAsSeen'
  <2> SUFFICES ASSUME NEW f \in Files, f \notin toLoad', disk[f] # Absent, ts[f] = Stamp(disk[f], meta[f])
               PROVE IsOnDisk(Newest(f), f) \/ broken[f] = ts[f]
    BY <1>2 DEF LoadedAsSeen, IsOnDisk, Newest, dirVars
  <2>1. ts[f] # Absent
    BY StampOf DEF TypeOK, Absent
  <2>2. timestamps[f] = ts[f]
    BY <2>1 DEF Compare
  <2> QED
    BY <1>4, <2>2 DEF LoadedAsSeen
<1> QED
  BY <1>1, <1>3, <1>6, <1>7, <1>8

\* A shard that is dropped has no time on record.
LEMMA DropStep == ASSUME IInv, Drop PROVE IInv'
<1> USE DEF IInv
<1>1. TypeOK'
  BY TypeStep DEF Next, Scanner
<1>2. /\ pc = "drop" /\ pc' = "load" /\ toDrop' = {}
      /\ ranked' = [f \in Files |-> IF f \in toDrop THEN NoShard ELSE ranked[f]]
      /\ initial' = initial \ toDrop
      /\ UNCHANGED <<dirVars, looked, ts, timestamps, toLoad, chunk, broken, close>>
  BY DEF Drop
<1>3. Served' = Served \ toDrop
  BY <1>2 DEF Served
<1>4. Clocked' /\ InitialServed'
  BY <1>2, <1>3 DEF Clocked, InitialServed, dirVars
<1>5. ServedKnown' /\ ScanOK' /\ OneOfEach'
  BY <1>2, <1>3 DEF ServedKnown, ScanOK, OneOfEach, OneOfName, Chunked, Known, Found
<1>6. LoadedAsSeen'
  <2> SUFFICES ASSUME NEW f \in Files \ toLoad, disk[f] # Absent, timestamps[f] = Stamp(disk[f], meta[f]),
                      close # "closed"
               PROVE IsOnDisk(Newest(f), f)' \/ broken[f] = timestamps[f]
    BY <1>2 DEF LoadedAsSeen, dirVars
  <2>1. f \in Known
    BY StampOf DEF TypeOK, Absent, Known
  <2>2. Newest(f)' = Newest(f)
    BY <1>2, <2>1 DEF Newest, ScanOK
  <2> QED
    BY <1>2, <2>2 DEF LoadedAsSeen, IsOnDisk, dirVars
<1> QED
  BY <1>1, <1>4, <1>5, <1>6

-----------------------------------------------------------------------------
(* The loader.                                                             *)

\* A load takes the file as it is on disk, or leaves the version that failed behind.
LEMMA LoadStep == ASSUME IInv, NEW f \in Files, Load(f) PROVE IInv'
<1> USE DEF IInv
<1>1. TypeOK'
  BY TypeStep DEF Next, Scanner
<1>2. /\ pc = "load" /\ pc' = pc /\ f \in toLoad /\ toLoad' = toLoad \ {f}
      /\ UNCHANGED <<dirVars, looked, ts, timestamps, toDrop, ranked, initial, close>>
  BY DEF Load
<1>3. \A g \in Files \ {f} : chunk'[g] = chunk[g] /\ broken'[g] = broken[g]
  BY DEF Load, TypeOK
<1>4. \/ chunk'[f] = <<disk[f], meta[f]>>
      \/ chunk'[f] = chunk[f] /\ broken'[f] = timestamps[f]
  BY DEF Load, TypeOK
<1>5. Clocked' /\ InitialServed' /\ OneOfEach'
  BY <1>2 DEF Clocked, InitialServed, OneOfEach, OneOfName, Known, Found, Served, dirVars
<1>6. f \in Known /\ toLoad \subseteq Known /\ Chunked' \subseteq Chunked \cup {f}
  BY <1>2, <1>3 DEF ScanOK, Chunked
<1>7. ScanOK' /\ ServedKnown'
  BY <1>2, <1>6 DEF ScanOK, ServedKnown, Known, Served
<1>8. LoadedAsSeen'
  <2> SUFFICES ASSUME NEW g \in Files \ toLoad', disk[g] # Absent, timestamps[g] = Stamp(disk[g], meta[g]),
                      close # "closed"
               PROVE IsOnDisk(Newest(g), g)' \/ broken'[g] = timestamps[g]
    BY <1>2 DEF LoadedAsSeen, dirVars
  <2>1. CASE g # f
    BY <1>2, <1>3, <2>1 DEF LoadedAsSeen, IsOnDisk, Newest, dirVars
  <2>2. CASE g = f
    <3>1. <<disk[f], meta[f]>> # NoShard
      BY DEF NoShard
    <3>2. UNCHANGED <<disk, meta>>
      BY <1>2 DEF dirVars
    <3> QED
      BY <1>4, <2>2, <3>1, <3>2 DEF IsOnDisk, Newest
  <2> QED
    BY <2>1, <2>2
<1> QED
  BY <1>1, <1>5, <1>7, <1>8

\* shardedSearcher.replace: what is loaded becomes what is served.
LEMMA PublishStep == ASSUME IInv, PublishSome \/ Publish PROVE IInv'
<1> USE DEF IInv
<1>1. TypeOK'
  BY TypeStep DEF Next, Scanner
<1>2. /\ pc = "load" /\ (pc' = "load" \/ (pc' = "mark" /\ toLoad = {}))
      /\ ranked' = Replaced /\ chunk' = [f \in Files |-> NoShard]
      /\ initial' \subseteq initial \cup Chunked
      /\ UNCHANGED <<dirVars, looked, ts, timestamps, toDrop, toLoad, broken, close>>
  BY DEF PublishSome, Publish, Chunked
<1>3. Served' = Served \cup Chunked /\ Chunked' = {}
  BY <1>2 DEF Served, Chunked, Replaced
<1>4. Served' \subseteq Known
  BY <1>2, <1>3 DEF ServedKnown, ScanOK
<1>5. Clocked' /\ InitialServed' /\ ServedKnown'
  BY <1>2, <1>3, <1>4 DEF Clocked, InitialServed, ServedKnown, Known, dirVars
<1>6. ScanOK'
  BY <1>2, <1>3 DEF ScanOK, Known
<1>7. OneOfEach'
  BY <1>2, <1>4 DEF OneOfEach, OneOfName, Known, Found
<1>8. LoadedAsSeen'
  <2>1. \A f \in Files : Newest(f)' = Newest(f)
    BY <1>2 DEF Newest, Replaced
  <2> QED
    BY <1>2, <2>1 DEF LoadedAsSeen, IsOnDisk, dirVars
<1> QED
  BY <1>1, <1>5, <1>6, <1>7, <1>8

\* Close drops every shard once the scanner is gone.
LEMMA StoppedStep == ASSUME IInv, Stopped PROVE IInv'
<1> USE DEF IInv
<1>1. TypeOK'
  BY TypeStep DEF Next
<1>2. /\ pc = "gone" /\ pc' = pc /\ close' = "closed" /\ initial' = {}
      /\ Served' = {}
      /\ UNCHANGED <<dirVars, scanVars, broken>>
  BY DEF Stopped, Served
<1>3. Clocked' /\ ScanOK' /\ ServedKnown' /\ OneOfEach' /\ LoadedAsSeen' /\ InitialServed'
  BY <1>2 DEF Clocked, ScanOK, ServedKnown, OneOfEach, OneOfName, LoadedAsSeen, InitialServed,
              Chunked, Known, Found, dirVars, scanVars
<1> QED
  BY <1>1, <1>3

\* Every step keeps the invariant.
LEMMA NextInv == ASSUME IInv, [Next]_vars PROVE IInv'
<1>1. TypeOK'
  BY TypeStep DEF IInv
<1>2. CASE StartWatch \/ ScannerExit \/ MarkReady
  BY <1>1, <1>2, QuietStep DEF StartWatch, ScannerExit, MarkReady, scanVars, dirVars
<1>3. CASE FsEvent \/ Overflow \/ Ticker \/ Quit \/ Stop
  BY <1>1, <1>3, QuietStep DEF FsEvent, Overflow, Ticker, Quit, Stop, dirVars
<1>4. ASSUME NEW p \in Searchers, GetReady(p) \/ GetRanked(p) PROVE IInv'
  BY <1>1, <1>4, QuietStep DEF GetReady, GetRanked, dirVars
<1>5. CASE UNCHANGED vars
  <2>1. UNCHANGED <<dirVars, scanVars, broken, ranked, initial, pc, close>>
    BY <1>5 DEF vars
  <2> QED
    BY <1>1, <2>1, QuietStep DEF dirVars
<1> QED
  BY <1>2, <1>3, <1>4, <1>5, EnvironmentStep, GlobStep, StatStep, CompareStep, DropStep, LoadStep,
     PublishStep, StoppedStep DEF Next, Scanner

-----------------------------------------------------------------------------
(* What it gives.                                                          *)

\* The server's state keeps its types: a served shard is a pair of mtimes.
THEOREM TypeCorrect == Spec => []TypeOK
<1>1. IInv => TypeOK
  BY DEF IInv
<1> QED
  BY InitInv, NextInv, <1>1, PTL DEF Spec

\* Between scans a file whose time is on record is served as it is on disk, unless that
\* version failed to load, however the scan's listing, its looks at the files and the
\* loads fell between the changes of other processes.
THEOREM SyncedCorrect == Spec => []Synced
<1>1. IInv => Synced
  <2> SUFFICES ASSUME IInv, pc \in {"idle", "scanned"}, close # "closed", NEW f \in Files,
                      disk[f] # Absent, timestamps[f] = Stamp(disk[f], meta[f])
               PROVE UpToDate(f) \/ broken[f] = timestamps[f]
    BY DEF Synced
  <2>1. toLoad = {} /\ Chunked = {}
    BY DEF IInv, ScanOK
  <2>2. IsOnDisk(Newest(f), f) \/ broken[f] = timestamps[f]
    BY <2>1 DEF IInv, LoadedAsSeen
  <2> QED
    BY <2>1, <2>2 DEF IsOnDisk, Newest, UpToDate, Chunked
<1> QED
  BY InitInv, NextInv, <1>1, PTL DEF Spec

\* Two format versions of one index are never served together, although one is published
\* before or after the other is dropped, and nothing is served after Close.
THEOREM ServedSoundCorrect == Spec => []ServedSound
<1>1. IInv => ServedSound
  BY DEF IInv, OneOfEach, OneOfName, ScanOK, ServedSound, OneVersion, ClosedIsEmpty
<1> QED
  BY InitInv, NextInv, <1>1, PTL DEF Spec

\* A search that read ready takes every shard of the first load, however much later it
\* takes them.
THEOREM ReadyCorrect == Spec => ReadyMeansAll
<1>1. IInv /\ [Next]_vars
        => [\A p \in Searchers : got[p] = "ready" /\ got'[p] = Idle => initial \subseteq Served]_vars
  BY DEF IInv, InitialServed
<1> QED
  BY InitInv, NextInv, <1>1, PTL DEF Spec, ReadyMeansAll

-----------------------------------------------------------------------------
(* WatchMode.                                                              *)

-----------------------------------------------------------------------------
(* Directories and the ones they are in.                                   *)

\* S contains a directory's parent with the directory.
Upward(S) == \A x \in S \ {Root} : Parent[x] \in S

\* What shouldIgnoreWatchPath climbs over is in every set that is closed upwards.
LEMMA AboveLeast ==
  ASSUME NEW d \in Dirs, NEW S \in SUBSET Dirs, d \in S, Upward(S)
  PROVE  Above[d] \subseteq S
  BY DEF Above, Upward

\* It is such a set itself, with the directory in it.
LEMMA AboveClosed ==
  ASSUME NEW d \in Dirs
  PROVE  Above[d] \in SUBSET Dirs /\ d \in Above[d] /\ Upward(Above[d])
  BY WatchAssumption DEF Above, Upward

\* A directory above one that is above d is above d.
LEMMA AboveTransitive ==
  ASSUME NEW d \in Dirs, NEW e \in Above[d]
  PROVE  Above[e] \subseteq Above[d]
  BY AboveClosed, AboveLeast

\* The way up leads over the parent.
LEMMA AboveParent ==
  ASSUME NEW d \in Dirs \ {Root}
  PROVE  Parent[d] \in Dirs /\ Above[d] = {d} \cup Above[Parent[d]]
<1>1. Parent[d] \in Dirs
  BY WatchAssumption
<1>2. Above[Parent[d]] \subseteq Above[d]
  BY <1>1, AboveClosed, AboveTransitive DEF Upward
<1> DEFINE S == {d} \cup Above[Parent[d]]
<1>3. S \in SUBSET Dirs /\ d \in S /\ Upward(S)
  BY <1>1, AboveClosed DEF Upward
<1> HIDE DEF S
<1>4. Above[d] \subseteq S
  BY <1>3, AboveLeast
<1> QED
  BY <1>1, <1>2, <1>4, AboveClosed DEF S

\* The root is at the end of it.
LEMMA AboveRoot == Above[Root] = {Root}
<1>1. Root \in Dirs /\ {Root} \in SUBSET Dirs /\ Upward({Root})
  BY WatchAssumption DEF Upward
<1> QED
  BY <1>1, AboveLeast, AboveClosed

\* From d, filepath.Walk descends to whatever is below d.
LEMMA StepDown ==
  ASSUME NEW x \in Dirs, NEW d \in Above[x], x # d
  PROVE  \E e \in Above[x] \ {Root} : Parent[e] = d
<1> DEFINE S == {y \in Above[x] : y = x \/ \E e \in Above[x] \ {Root} : Parent[e] = y}
<1>1. S \in SUBSET Dirs /\ x \in S /\ Upward(S)
  BY AboveClosed DEF Upward
<1> HIDE DEF S
<1>2. d \in S
  BY <1>1, AboveLeast
<1> QED
  BY <1>2 DEF S

\* No directory is above its parent.
LEMMA NoCycle ==
  ASSUME NEW d \in Dirs \ {Root}
  PROVE  d \notin Above[Parent[d]]
<1> SUFFICES ASSUME d \in Above[Parent[d]] PROVE FALSE
  OBVIOUS
<1> DEFINE S == {x \in Above[d] : d \in Above[x]}
<1>1. Upward(S)
  BY AboveClosed, AboveParent DEF Upward
<1>2. S \in SUBSET Dirs /\ d \in S
  BY AboveClosed
<1> HIDE DEF S
<1>3. Root \in S
  BY <1>1, <1>2, AboveLeast, WatchAssumption
<1> QED
  BY <1>3, AboveRoot DEF S

\* What is in an ignored directory is ignored.
LEMMA IgnoredBelow ==
  ASSUME NEW x \in Dirs, NEW e \in Above[x], NEW i
  PROVE  (Ignored(i, e) => Ignored(i, x)) /\ (Skipped(i, e) => Skipped(i, x))
  BY AboveTransitive DEF Ignored, Skipped

-----------------------------------------------------------------------------
(* The inductive invariant.                                                *)

Event == [op : {"write", "create", "remove", "gone"}, d : Dirs]

\* Every variable holds a value of its kind.
WatchTypeOK ==
  /\ content \in [Dirs -> Nat] /\ edits \in Nat
  /\ watched \subseteq Dirs /\ walk \subseteq Dirs /\ at \in Dirs \cup {None}
  /\ fsEvents \in Seq(Event)
  /\ loop \in {"start", "first", "select", "walk", "stopped"}
  /\ change \in BOOLEAN /\ timer \in BOOLEAN /\ pending \in BOOLEAN /\ running \in BOOLEAN
  /\ failed \in BOOLEAN /\ lost \in BOOLEAN /\ cut \in BOOLEAN
  /\ done \in {"none", "ok", "failed"}
  /\ config \in 0 .. Len(Configs) /\ reading \subseteq Dirs
  /\ seen \in [Dirs -> Nat] /\ indexed \in [DOMAIN Configs -> [Dirs -> Nat]]
  /\ unheard \subseteq Dirs

\* A directory is only there as long as the one it is in.
Tree ==
  /\ Exists(Root)
  /\ \A d \in Dirs \ {Root} : Exists(d) => Exists(Parent[d])

\* Nothing is left of a rebuild that is not running.
BuildOK ==
  /\ ~running => done = "none"
  /\ ~Building => config = 0
  /\ config = 0 => reading = {}
  /\ loop = "first" => running
  /\ loop = "start" => ~running /\ ~failed

\* Nothing of what configuration i skips is read or kept.
NothingIgnored ==
  /\ \A i \in DOMAIN Configs : \A d \in Dirs : Skipped(i, d) => indexed[i][d] = Gone
  /\ config # 0 => \A d \in Dirs : Skipped(config, d) => seen[d] = Gone /\ d \notin reading

\* The walk that runs is going to visit d, or a directory above it.
Coming(d) ==
  Walking /\ \E e \in Above[d] : e \in walk \/ (e # Root /\ Parent[e] = at)

\* Every directory has a watch, or a walk comes to it, or will.
Covered ==
  /\ \A d \in watched : Exists(d)
  /\ \A d \in Dirs : Exists(d) /\ ~IgnoredByAll(d)
                       => d \in watched \/ Coming(d) \/ Announced(d, fsEvents)

\* An event that sets off a rebuild whatever has become of its directory since.
Certain(e) == ~IgnoredByAll(e.d) /\ (e.op \in {"write", "remove"} \/ ~Filter)

\* The event of a directory that is there, and is d or above it.
Arrival(e, d) == e.op = "create" /\ e.d \in Above[d] /\ Exists(e.d)

\* A rebuild that sees d as it is now is still to come.
Owed(d) ==
  \/ change \/ pending \/ Walking
  \/ \E e \in Range(fsEvents) : Certain(e) \/ Arrival(e, d)

\* Configuration i holds d as it is, or the rebuild that runs has read d as it is, or is
\* going to.
Fresh(i, d) ==
  /\ ~running /\ ~failed => indexed[i][d] = content[d]
  /\ running /\ done = "ok" => indexed[i][d] = content[d]
  /\ Building /\ (i < config \/ (i = config /\ reading = {})) => indexed[i][d] = content[d]
  /\ Building /\ i = config /\ reading # {}
       => seen[d] = content[d] \/ (Exists(d) /\ Above[d] \cap reading # {})

NothingMissed ==
  \A i \in DOMAIN Configs : \A d \in Dirs \ unheard :
    ~Skipped(i, d) /\ ~IgnoredByAll(d) => Owed(d) \/ Fresh(i, d)

\* The code has not given up on anything.
Trusted == ~lost /\ ~cut /\ loop # "stopped"

WatchInv == WatchTypeOK /\ Tree /\ BuildOK /\ NothingIgnored /\ (Trusted => Covered /\ NothingMissed)

-----------------------------------------------------------------------------
(* What is there, and what is announced.                                   *)

\* What a directory that is there is in, is there too.
LEMMA AboveExists ==
  ASSUME WatchTypeOK, Tree, NEW d \in Dirs, Exists(d), NEW e \in Above[d]
  PROVE  Exists(e)
<1> DEFINE S == {x \in Dirs : Exists(x)}
<1>1. S \in SUBSET Dirs /\ d \in S /\ Upward(S)
  BY WatchAssumption DEF Tree, Upward
<1> HIDE DEF S
<1>2. e \in S
  BY <1>1, AboveLeast
<1> QED
  BY <1>2 DEF S

\* The kernel puts an event at the end of the queue.
LEMMA AppendRange ==
  ASSUME NEW S, NEW q \in Seq(S), NEW e \in S
  PROVE  Append(q, e) \in Seq(S) /\ Range(Append(q, e)) = Range(q) \cup {e}
<1> DEFINE t == Append(q, e)
<1>1. t \in Seq(S) /\ DOMAIN t = DOMAIN q \cup {Len(q) + 1}
  OBVIOUS
<1>2. t[Len(q) + 1] = e /\ \A i \in DOMAIN q : t[i] = q[i]
  OBVIOUS
<1> HIDE DEF t
<1>3. Range(t) = Range(q) \cup {e}
  BY <1>1, <1>2 DEF Range
<1> QED
  BY <1>1, <1>3 DEF t

\* The loop takes the first one.
LEMMA TailRange ==
  ASSUME NEW S, NEW q \in Seq(S), q # <<>>
  PROVE  /\ Head(q) \in S /\ Tail(q) \in Seq(S)
         /\ Range(q) = {Head(q)} \cup Range(Tail(q))
<1>1. \A i \in DOMAIN Tail(q) : Tail(q)[i] = q[i + 1] /\ i + 1 \in DOMAIN q
  OBVIOUS
<1>2. \A i \in DOMAIN q : i = 1 \/ (i - 1 \in DOMAIN Tail(q) /\ Tail(q)[i - 1] = q[i])
  OBVIOUS
<1>3. Head(q) = q[1] /\ 1 \in DOMAIN q /\ Head(q) \in S /\ Tail(q) \in Seq(S)
  OBVIOUS
<1>4. \A x \in Range(Tail(q)) : x \in Range(q)
  BY <1>1 DEF Range
<1>5. \A x \in Range(q) : x = Head(q) \/ x \in Range(Tail(q))
  BY <1>2, <1>3 DEF Range
<1>6. Head(q) \in Range(q)
  BY <1>3 DEF Range
<1> QED
  BY <1>3, <1>4, <1>5, <1>6

\* A configuration is a number from 1.
LEMMA ConfigNumbers == Len(Configs) \in Nat /\ DOMAIN Configs = 1 .. Len(Configs)
  BY WatchAssumption

\* The root is never skipped.
LEMMA RootWanted == \A i \in DOMAIN Configs : ~Skipped(i, Root)
  BY WatchAssumption, AboveRoot DEF Skipped

-----------------------------------------------------------------------------
\* Before the first walk nothing is indexed, watched or owed.
LEMMA WatchInitInv == WatchInit => WatchInv
<1> SUFFICES ASSUME WatchInit PROVE WatchInv
  OBVIOUS
<1> USE DEF WatchInit, Empty, Gone
<1>1. WatchTypeOK
  <2>1. content \in [Dirs -> Nat] /\ seen \in [Dirs -> Nat]
    OBVIOUS
  <2>2. indexed \in [DOMAIN Configs -> [Dirs -> Nat]]
    OBVIOUS
  <2>3. config \in 0 .. Len(Configs)
    BY ConfigNumbers
  <2>4. walk \subseteq Dirs /\ fsEvents \in Seq(Event)
    BY WatchAssumption
  <2> QED
    BY <2>1, <2>2, <2>3, <2>4 DEF WatchTypeOK
<1>2. Tree /\ BuildOK /\ NothingIgnored
  BY WatchAssumption DEF Tree, Exists, BuildOK, Building, NothingIgnored
<1>3. Covered /\ NothingMissed
  <2>1. Walking
    BY DEF Walking
  <2>2. \A d \in Dirs : Coming(d)
    BY <2>1, WatchAssumption DEF Coming
  <2> QED
    BY <2>1, <2>2 DEF Covered, NothingMissed, Owed
<1> QED
  BY <1>1, <1>2, <1>3 DEF WatchInv

-----------------------------------------------------------------------------
(* The user.                                                               *)

\* Events stay in the queue, and are only dropped on record.
LEMMA EmitKeeps ==
  ASSUME WatchTypeOK, NEW op \in {"write", "create", "remove", "gone"}, NEW d \in Dirs, NEW dirs,
         Emit(op, d, dirs)
  PROVE  /\ fsEvents' \in Seq(Event) /\ lost' \in BOOLEAN
         /\ Range(fsEvents) \subseteq Range(fsEvents')
         /\ lost => lost'
<1> DEFINE e == [op |-> op, d |-> d]
<1>1. e \in Event
  BY DEF Event
<1>2. fsEvents \in Seq(Event) /\ lost \in BOOLEAN
  BY DEF WatchTypeOK
<1> HIDE DEF e
<1>3. Append(fsEvents, e) \in Seq(Event) /\ Range(fsEvents) \subseteq Range(Append(fsEvents, e))
  BY <1>1, <1>2, AppendRange
<1>4. CASE fsEvents' = Append(fsEvents, e) /\ UNCHANGED lost
  BY <1>2, <1>3, <1>4
<1>5. CASE UNCHANGED fsEvents
  <2>1. lost' \in BOOLEAN /\ (lost => lost')
    BY <1>2, <1>5 DEF Emit
  <2> QED
    BY <1>2, <1>5, <2>1
<1> QED
  BY <1>4, <1>5 DEF Emit, e

\* The event of a watched directory comes.
LEMMA EmitReaches ==
  ASSUME WatchTypeOK, NEW op \in {"write", "create", "remove", "gone"}, NEW d \in Dirs, NEW dirs,
         Emit(op, d, dirs), dirs \cap watched # {}, loop # "stopped", ~lost'
  PROVE  [op |-> op, d |-> d] \in Range(fsEvents')
<1>1. [op |-> op, d |-> d] \in Event /\ fsEvents \in Seq(Event)
  BY DEF Event, WatchTypeOK
<1>2. fsEvents' = Append(fsEvents, [op |-> op, d |-> d])
  BY DEF Emit
<1> QED
  BY <1>1, <1>2, AppendRange

\* A directory without a watch is one that a walk comes to, or will.
LEMMA Unwatched ==
  ASSUME WatchInv, Trusted, NEW d \in Dirs, Exists(d), ~IgnoredByAll(d), d \notin watched
  PROVE  Walking \/ \E e \in Range(fsEvents) : Arrival(e, d)
  BY AboveExists DEF WatchInv, Covered, Coming, Announced, Arrival

\* What an edit leaves to the loop and the rebuild.
EditFrame == UNCHANGED <<walk, at, cut, loopVars, buildVars, loop>> /\ Range(fsEvents) \subseteq Range(fsEvents')

LEMMA OwedStays ==
  ASSUME EditFrame, NEW x \in Dirs, Owed(x), \A e \in Above[x] : Exists(e) => Exists(e)'
  PROVE  Owed(x)'
  BY DEF EditFrame, loopVars, Owed, Walking, Arrival, Certain

LEMMA FreshStays ==
  ASSUME EditFrame, NEW x \in Dirs, content'[x] = content[x], NEW i, Fresh(i, x)
  PROVE  Fresh(i, x)'
  BY DEF EditFrame, loopVars, buildVars, Fresh, Building, Exists

\* The rest of the invariant is not about what is on disk.
LEMMA EditRest ==
  ASSUME WatchInv, EditFrame
  PROVE  BuildOK' /\ NothingIgnored' /\ ((lost => lost') /\ Trusted' => Trusted)
  BY DEF WatchInv, EditFrame, loopVars, buildVars, BuildOK, Building, NothingIgnored, Trusted

\* Writing into a directory: its event comes, or a walk does.
LEMMA WriteKeeps == ASSUME WatchInv, NEW d \in Dirs, Write(d) PROVE WatchInv'
<1>1. /\ EditFrame /\ fsEvents' \in Seq(Event) /\ lost' \in BOOLEAN /\ (lost => lost')
  BY EmitKeeps DEF Write, WatchInv, EditFrame, watchVars, loopVars, buildVars
<1>2. BuildOK' /\ NothingIgnored' /\ (Trusted' => Trusted)
  BY <1>1, EditRest
<1>3. \A x \in Dirs : x # d => content'[x] = content[x]
  BY DEF Write, WatchInv, WatchTypeOK
<1>4. content' \in [Dirs -> Nat] /\ \A x \in Dirs : Exists(x) <=> Exists(x)'
  BY DEF Write, WatchInv, WatchTypeOK, Exists, Gone
<1>5. WatchTypeOK'
  BY <1>1, <1>4 DEF Write, WatchInv, WatchTypeOK, Edit, watchVars, loopVars, buildVars
<1>6. Tree'
  BY <1>4, WatchAssumption DEF WatchInv, Tree
<1>7. ASSUME Trusted' PROVE Covered'
  <2>1. UNCHANGED <<watched, walk, at, loop>>
    BY DEF Write, watchVars
  <2>2. \A x \in Dirs : Announced(x, fsEvents) => Announced(x, fsEvents')
    BY <1>1 DEF EditFrame, Announced
  <2>3. \A x \in Dirs : Coming(x) => Coming(x)'
    BY <2>1 DEF Coming, Walking
  <2> QED
    BY <1>2, <1>4, <1>7, <2>1, <2>2, <2>3 DEF WatchInv, Covered, WatchTypeOK
<1>8. ASSUME Trusted', NEW i \in DOMAIN Configs, NEW x \in Dirs \ unheard,
             ~Skipped(i, x), ~IgnoredByAll(x)
      PROVE  Owed(x)' \/ Fresh(i, x)'
  <2>1. CASE x # d
    <3>1. Owed(x) \/ Fresh(i, x)
      BY <1>2, <1>8 DEF WatchInv, NothingMissed
    <3>2. \A e \in Above[x] : Exists(e) => Exists(e)'
      BY <1>4, AboveClosed
    <3> QED
      BY <1>1, <1>3, <2>1, <3>1, <3>2, OwedStays, FreshStays
  <2>2. CASE x = d
    <3>1. ~IgnoredByAll(d) /\ Exists(d)
      BY <1>8, <2>2 DEF Write
    <3>2. CASE d \in watched
      <4>1. [op |-> "write", d |-> d] \in Range(fsEvents')
        BY <1>7, <1>8, <3>2, EmitReaches DEF Write, WatchInv, Trusted
      <4>2. Certain([op |-> "write", d |-> d])
        BY <3>1 DEF Certain
      <4> QED
        BY <2>2, <4>1, <4>2 DEF Owed, Certain
    <3>3. CASE d \notin watched
      <4>1. Owed(d)
        BY <1>2, <1>8, <3>1, <3>3, Unwatched DEF Owed
      <4>2. \A e \in Above[d] : Exists(e) => Exists(e)'
        BY <1>4, AboveClosed
      <4> QED
        BY <1>1, <2>2, <4>1, <4>2, OwedStays
    <3> QED
      BY <3>2, <3>3
  <2> QED
    BY <2>1, <2>2
<1>9. Trusted' => NothingMissed'
  BY <1>8 DEF NothingMissed, Write
<1> QED
  BY <1>2, <1>5, <1>6, <1>7, <1>9 DEF WatchInv

\* A new directory is announced through the watch of the one it is in, or found by the
\* walk that will come there.
LEMMA MkdirKeeps == ASSUME WatchInv, NEW d \in Dirs, Mkdir(d) PROVE WatchInv'
<1>1. /\ EditFrame /\ fsEvents' \in Seq(Event) /\ lost' \in BOOLEAN /\ (lost => lost')
  BY EmitKeeps DEF Mkdir, WatchInv, EditFrame, watchVars, loopVars, buildVars
<1>2. BuildOK' /\ NothingIgnored' /\ (Trusted' => Trusted)
  BY <1>1, EditRest
<1>3. \A x \in Dirs : x # d => content'[x] = content[x]
  BY DEF Mkdir, WatchInv, WatchTypeOK
<1>4. content' \in [Dirs -> Nat] /\ \A x \in Dirs : Exists(x)' <=> Exists(x) \/ x = d
  BY DEF Mkdir, WatchInv, WatchTypeOK, Exists, Gone
<1>5. WatchTypeOK'
  BY <1>1, <1>4 DEF Mkdir, WatchInv, WatchTypeOK, Edit, watchVars, loopVars, buildVars
<1>6. Tree'
  BY <1>4, WatchAssumption DEF WatchInv, Tree, Mkdir
<1>7. d \in Dirs \ {Root} /\ Parent[d] \in Dirs /\ Exists(Parent[d])
  BY AboveParent DEF Mkdir
<1>8. Parent[d] \in Above[d] /\ Above[Parent[d]] \subseteq Above[d]
  BY <1>7, AboveParent, AboveClosed
<1>9. ~IgnoredByAll(d) => ~IgnoredByAll(Parent[d])
  BY <1>8, IgnoredBelow DEF IgnoredByAll
<1>10. ASSUME Trusted', ~IgnoredByAll(d), Parent[d] \in watched
       PROVE  \E e \in Range(fsEvents') : Arrival(e, d)'
  <2>1. [op |-> "create", d |-> d] \in Range(fsEvents')
    BY <1>10, EmitReaches DEF Mkdir, WatchInv, Trusted
  <2>2. d \in Above[d] /\ Exists(d)'
    BY <1>4, AboveClosed
  <2> QED
    BY <2>1, <2>2 DEF Arrival
<1>11. ASSUME Trusted' PROVE Covered'
  <2>1. UNCHANGED <<watched, walk, at, loop>>
    BY DEF Mkdir, watchVars
  <2>2. \A x \in Dirs : Announced(x, fsEvents) => Announced(x, fsEvents')
    BY <1>1 DEF EditFrame, Announced
  <2>3. \A x \in Dirs : Coming(x) => Coming(x)'
    BY <2>1 DEF Coming, Walking
  <2>4. ASSUME ~IgnoredByAll(d) PROVE Coming(d)' \/ Announced(d, fsEvents')
    <3>1. CASE Parent[d] \in watched
      BY <1>10, <1>11, <2>4, <3>1 DEF Announced, Arrival
    <3>2. CASE Parent[d] \notin watched
      <4>1. Coming(Parent[d]) \/ Announced(Parent[d], fsEvents)
        BY <1>2, <1>7, <1>9, <1>11, <2>4, <3>2 DEF WatchInv, Covered
      <4>2. Coming(d) \/ Announced(d, fsEvents)
        BY <1>8, <4>1 DEF Coming, Announced
      <4> QED
        BY <2>2, <2>3, <4>2
    <3> QED
      BY <3>1, <3>2
  <2>5. \A x \in watched : Exists(x)
    BY <1>2, <1>11 DEF WatchInv, Covered
  <2>6. \A x \in watched' : Exists(x)'
    BY <1>4, <2>1, <2>5 DEF WatchInv, WatchTypeOK
  <2>7. ASSUME NEW x \in Dirs, Exists(x)', ~IgnoredByAll(x)
        PROVE  x \in watched' \/ Coming(x)' \/ Announced(x, fsEvents')
    BY <1>2, <1>4, <1>11, <2>1, <2>2, <2>3, <2>4, <2>7 DEF WatchInv, Covered
  <2> QED
    BY <2>6, <2>7 DEF Covered
<1>12. ASSUME Trusted', NEW i \in DOMAIN Configs, NEW x \in Dirs, x \notin unheard',
              ~Skipped(i, x), ~IgnoredByAll(x)
       PROVE  Owed(x)' \/ Fresh(i, x)'
  <2>1. CASE x # d
    <3>1. x \notin unheard
      BY <1>12, <2>1 DEF Mkdir
    <3>2. Owed(x) \/ Fresh(i, x)
      BY <1>2, <1>12, <3>1 DEF WatchInv, NothingMissed
    <3>3. \A e \in Above[x] : Exists(e) => Exists(e)'
      BY <1>4, AboveClosed
    <3> QED
      BY <1>1, <1>3, <2>1, <3>2, <3>3, OwedStays, FreshStays
  <2>2. CASE x = d
    <3>1. ~IgnoredByAll(d)
      BY <1>12, <2>2
    <3>2. CASE Parent[d] \in watched
      BY <1>10, <1>12, <2>2, <3>1, <3>2 DEF Owed
    <3>3. CASE Parent[d] \notin watched
      <4>1. Walking \/ \E e \in Range(fsEvents) : Arrival(e, Parent[d])
        BY <1>2, <1>7, <1>9, <1>12, <3>1, <3>3, Unwatched
      <4>2. Owed(d)
        BY <1>8, <4>1 DEF Owed, Arrival
      <4>3. \A e \in Above[d] : Exists(e) => Exists(e)'
        BY <1>4, AboveClosed
      <4> QED
        BY <1>1, <2>2, <4>2, <4>3, OwedStays
    <3> QED
      BY <3>2, <3>3
  <2> QED
    BY <2>1, <2>2
<1>13. Trusted' => NothingMissed'
  BY <1>12 DEF NothingMissed
<1> QED
  BY <1>2, <1>5, <1>6, <1>11, <1>13 DEF WatchInv

\* A directory that goes is reported by the one it was in; what was in it goes with it.
LEMMA DeleteKeeps ==
  ASSUME WatchInv, NEW d \in Dirs, NEW op \in {"remove", "move"}, Delete(d, op)
  PROVE  WatchInv'
<1>0. PICK ev \in {"remove", "gone"} :
        /\ Emit(ev, d, {d, Parent[d]})
        /\ unheard' = IF Filter /\ ev # "remove" THEN unheard \cup Below(d) ELSE unheard \ Below(d)
  BY DEF Delete
<1>1. /\ EditFrame /\ fsEvents' \in Seq(Event) /\ lost' \in BOOLEAN /\ (lost => lost')
  BY <1>0, EmitKeeps DEF Delete, WatchInv, EditFrame, loopVars, buildVars
<1>2. BuildOK' /\ NothingIgnored' /\ (Trusted' => Trusted)
  BY <1>1, EditRest
<1>3. \A x \in Dirs : d \notin Above[x] => content'[x] = content[x]
  BY DEF Delete, WatchInv, WatchTypeOK, Below
<1>4. content' \in [Dirs -> Nat] /\ \A x \in Dirs : Exists(x)' <=> Exists(x) /\ d \notin Above[x]
  BY DEF Delete, WatchInv, WatchTypeOK, Exists, Gone, Below
<1>5. WatchTypeOK'
  BY <1>1, <1>4 DEF Delete, WatchInv, WatchTypeOK, Edit, loopVars, buildVars, Below
<1>6. d \in Dirs \ {Root} /\ Parent[d] \in Dirs /\ Exists(Parent[d]) /\ d \notin Above[Parent[d]]
  BY AboveParent, NoCycle DEF Delete, WatchInv, Tree
<1>7. Tree'
  <2>1. ASSUME NEW x \in Dirs \ {Root}, Exists(x)' PROVE Exists(Parent[x])'
    BY <1>4, <2>1, AboveParent DEF WatchInv, Tree
  <2>2. Exists(Root)'
    BY <1>4, <1>6, AboveRoot, WatchAssumption DEF WatchInv, Tree
  <2> QED
    BY <2>1, <2>2 DEF Tree
<1>8. ASSUME NEW x \in Dirs, d \notin Above[x], NEW e \in Above[x]
      PROVE  e \in Dirs /\ d \notin Above[e]
  BY <1>8, AboveClosed, AboveTransitive
<1>9. ASSUME Trusted' PROVE Covered'
  <2>1. UNCHANGED <<walk, at, loop>> /\ watched' = {x \in watched : d \notin Above[x]}
    BY DEF Delete, Below, WatchInv, WatchTypeOK
  <2>2. \A x \in Dirs : Announced(x, fsEvents) => Announced(x, fsEvents')
    BY <1>1 DEF EditFrame, Announced
  <2>3. \A x \in Dirs : Coming(x) => Coming(x)'
    BY <2>1 DEF Coming, Walking
  <2>4. \A x \in watched' : Exists(x)'
    BY <1>2, <1>4, <1>9, <2>1 DEF WatchInv, Covered, WatchTypeOK
  <2>5. ASSUME NEW x \in Dirs, Exists(x)', ~IgnoredByAll(x)
        PROVE  x \in watched' \/ Coming(x)' \/ Announced(x, fsEvents')
    BY <1>2, <1>4, <1>9, <2>1, <2>2, <2>3, <2>5 DEF WatchInv, Covered
  <2> QED
    BY <2>4, <2>5 DEF Covered
<1>10. ASSUME Trusted', ~IgnoredByAll(d), ev = "remove" \/ ~Filter, NEW x \in Dirs, d \in Above[x]
       PROVE  Owed(x)'
  <2>1. CASE {d, Parent[d]} \cap watched # {}
    <3>1. [op |-> ev, d |-> d] \in Range(fsEvents')
      BY <1>0, <1>2, <1>10, <2>1, EmitReaches DEF WatchInv, Trusted
    <3>2. Certain([op |-> ev, d |-> d])
      BY <1>10 DEF Certain
    <3> QED
      BY <3>1, <3>2 DEF Owed, Certain
  <2>2. CASE {d, Parent[d]} \cap watched = {}
    <3>1. Parent[d] \in Above[d] /\ Above[Parent[d]] \subseteq Above[x]
      BY <1>6, <1>10, AboveParent, AboveClosed, AboveTransitive
    <3>2. ~IgnoredByAll(Parent[d])
      BY <1>10, <3>1, IgnoredBelow DEF IgnoredByAll
    <3>3. Walking \/ \E e \in Range(fsEvents) : Arrival(e, Parent[d])
      BY <1>2, <1>6, <1>10, <2>2, <3>2, Unwatched
    <3>4. CASE Walking
      BY <1>1, <3>4 DEF EditFrame, Owed, Walking
    <3>5. ASSUME NEW e \in Range(fsEvents), Arrival(e, Parent[d]) PROVE Owed(x)'
      <4>1. e \in Range(fsEvents') /\ e.d \in Above[x]
        BY <1>1, <3>1, <3>5 DEF EditFrame, Arrival
      <4>2. Exists(e.d)'
        BY <1>4, <1>6, <1>8, <3>5 DEF Arrival
      <4> QED
        BY <3>5, <4>1, <4>2 DEF Owed, Arrival
    <3> QED
      BY <3>3, <3>4, <3>5
  <2> QED
    BY <2>1, <2>2
<1>11. ASSUME Trusted', NEW i \in DOMAIN Configs, NEW x \in Dirs, x \notin unheard',
              ~Skipped(i, x), ~IgnoredByAll(x)
       PROVE  Owed(x)' \/ Fresh(i, x)'
  <2>1. CASE d \notin Above[x]
    <3>1. x \notin unheard
      BY <1>0, <1>11, <2>1 DEF Below
    <3>2. Owed(x) \/ Fresh(i, x)
      BY <1>2, <1>11, <3>1 DEF WatchInv, NothingMissed
    <3>3. \A e \in Above[x] : Exists(e) => Exists(e)'
      BY <1>4, <1>8, <2>1
    <3> QED
      BY <1>1, <1>3, <2>1, <3>2, <3>3, OwedStays, FreshStays
  <2>2. CASE d \in Above[x]
    <3>1. ~IgnoredByAll(d)
      BY <1>11, <2>2, IgnoredBelow DEF IgnoredByAll
    <3>2. ev = "remove" \/ ~Filter
      BY <1>0, <1>11, <2>2 DEF Below
    <3> QED
      BY <1>10, <1>11, <2>2, <3>1, <3>2
  <2> QED
    BY <2>1, <2>2
<1>12. Trusted' => NothingMissed'
  BY <1>11 DEF NothingMissed
<1> QED
  BY <1>2, <1>5, <1>7, <1>9, <1>12 DEF WatchInv

-----------------------------------------------------------------------------
(* The walk.                                                               *)

\* A walk changes nothing on disk, in the queue or of the rebuild.
WalkFrame == UNCHANGED <<fsVars, buildVars, fsEvents, lost, timer, pending, done, failed>>

\* A walk that is cut short is on record; afterwards the loop goes on, or ends.
LEMMA WalkFails ==
  ASSUME WatchInv, Walking, WalkFrame, AfterWalk(FALSE), UNCHANGED watched
  PROVE  WatchInv'
<1> USE DEF AfterWalk, WalkFrame, fsVars, buildVars
<1>1. WatchTypeOK'
  BY DEF WatchInv, WatchTypeOK
<1>2. Tree' /\ NothingIgnored'
  BY DEF WatchInv, Tree, Exists, NothingIgnored
<1>3. BuildOK'
  BY DEF WatchInv, BuildOK, Building, Walking
<1>4. ~Trusted'
  BY DEF Trusted, Walking
<1> QED
  BY <1>1, <1>2, <1>3, <1>4 DEF WatchInv

\* The walk goes on: a rebuild follows it.
LEMMA WalkGoesOn ==
  ASSUME WatchInv, Walking, WalkFrame, UNCHANGED <<cut, loop, loopVars>>,
         watched' \subseteq Dirs, walk' \subseteq Dirs, at' \in Dirs \cup {None},
         Trusted => Covered'
  PROVE  WatchInv'
<1> USE DEF WalkFrame, fsVars, buildVars, loopVars
<1>1. WatchTypeOK'
  BY DEF WatchInv, WatchTypeOK
<1>2. Tree' /\ NothingIgnored'
  BY DEF WatchInv, Tree, Exists, NothingIgnored
<1>3. BuildOK'
  BY DEF WatchInv, BuildOK, Building
<1>4. Trusted' => Trusted
  BY DEF Trusted
<1>5. NothingMissed'
  BY DEF NothingMissed, Owed, Walking
<1> QED
  BY <1>1, <1>2, <1>3, <1>4, <1>5 DEF WatchInv

\* A directory is passed over when it is ignored, and watched before its names are read.
LEMMA VisitKeeps == ASSUME WatchInv, Visit PROVE WatchInv'
<1>1. WalkFrame \/ UNCHANGED <<fsVars, buildVars, fsEvents, lost>>
  BY DEF Visit
<1>2. PICK d \in walk :
        \/ ~Exists(d) /\ AfterWalk(FALSE) /\ UNCHANGED watched
        \/ Exists(d) /\ IgnoredByAll(d) /\ walk' = walk \ {d} /\ UNCHANGED <<watched, at, cut, loop, loopVars>>
        \/ /\ Exists(d) /\ ~IgnoredByAll(d) /\ watched' = watched \cup {d} /\ at' = d /\ walk' = walk \ {d}
           /\ UNCHANGED <<cut, loop, loopVars>>
        \/ Exists(d) /\ AfterWalk(FALSE) /\ UNCHANGED watched
  BY DEF Visit
<1>3. Walking /\ at = None /\ d \in Dirs /\ UNCHANGED <<fsVars, buildVars, fsEvents, lost>>
  BY DEF Visit, WatchInv, WatchTypeOK
<1>4. CASE AfterWalk(FALSE) /\ UNCHANGED watched
  <2>1. WalkFrame
    BY <1>3, <1>4 DEF WalkFrame, AfterWalk
  <2> QED
    BY <1>3, <1>4, <2>1, WalkFails
<1>5. CASE Exists(d) /\ IgnoredByAll(d) /\ walk' = walk \ {d} /\ UNCHANGED <<watched, at, cut, loop, loopVars>>
  <2>1. WalkFrame
    BY <1>3, <1>5 DEF WalkFrame, loopVars
  <2>2. ASSUME Trusted PROVE Covered'
    <3>1. ASSUME NEW x \in Dirs, ~IgnoredByAll(x), Coming(x) PROVE Coming(x)'
      <4>1. PICK e \in Above[x] : e \in walk \/ (e # Root /\ Parent[e] = at)
        BY <3>1 DEF Coming
      <4>2. e # d
        BY <1>5, <3>1, IgnoredBelow DEF IgnoredByAll
      <4> QED
        BY <1>3, <1>5, <4>1, <4>2 DEF Coming, Walking
    <3>2. \A x \in Dirs : Exists(x)' <=> Exists(x)
      BY <1>3 DEF Exists, fsVars
    <3>3. UNCHANGED <<watched, fsEvents>>
      BY <1>3, <1>5
    <3> QED
      BY <2>2, <3>1, <3>2, <3>3 DEF WatchInv, WatchTypeOK, Covered
  <2> QED
    BY <1>3, <1>5, <2>1, <2>2, WalkGoesOn DEF WatchInv, WatchTypeOK
<1>6. CASE /\ Exists(d) /\ ~IgnoredByAll(d) /\ watched' = watched \cup {d} /\ at' = d /\ walk' = walk \ {d}
           /\ UNCHANGED <<cut, loop, loopVars>>
  <2>1. WalkFrame
    BY <1>3, <1>6 DEF WalkFrame, loopVars
  <2>2. ASSUME Trusted PROVE Covered'
    <3>1. ASSUME NEW x \in Dirs, Coming(x), x # d PROVE Coming(x)'
      <4>1. PICK e \in Above[x] : e \in walk \/ (e # Root /\ Parent[e] = at)
        BY <3>1 DEF Coming
      <4>2. e \in walk
        BY <1>3, <4>1, AboveClosed, WatchAssumption
      <4>3. CASE e # d
        BY <1>3, <1>6, <4>2, <4>3 DEF Coming, Walking
      <4>4. CASE e = d
        <5>1. PICK y \in Above[x] \ {Root} : Parent[y] = d
          BY <3>1, <4>4, StepDown
        <5> QED
          BY <1>3, <1>6, <5>1 DEF Coming, Walking
      <4> QED
        BY <4>3, <4>4
    <3>2. \A x \in Dirs : Exists(x)' <=> Exists(x)
      BY <1>3 DEF Exists, fsVars
    <3>3. UNCHANGED fsEvents
      BY <1>3
    <3> QED
      BY <1>3, <1>6, <2>2, <3>1, <3>2, <3>3 DEF WatchInv, WatchTypeOK, Covered
  <2> QED
    BY <1>3, <1>6, <2>1, <2>2, WalkGoesOn DEF WatchInv, WatchTypeOK
<1> QED
  BY <1>2, <1>4, <1>5, <1>6

\* The walk goes down to every directory it finds; what comes later has the watch.
LEMMA ReadNamesKeeps == ASSUME WatchInv, ReadNames PROVE WatchInv'
<1>1. Walking /\ at \in Dirs /\ UNCHANGED <<fsVars, buildVars, fsEvents, lost, watched>>
  BY DEF ReadNames, WatchInv, WatchTypeOK
<1>2. CASE ~Exists(at)
  <2>1. AfterWalk(FALSE)
    BY <1>2 DEF ReadNames
  <2>2. WalkFrame
    BY <1>1, <2>1 DEF WalkFrame, AfterWalk
  <2> QED
    BY <1>1, <2>1, <2>2, WalkFails
<1>3. CASE Exists(at)
  <2>1. walk' = walk \cup Children(at) /\ at' = None /\ UNCHANGED <<cut, loop, loopVars>>
    BY <1>3 DEF ReadNames
  <2>2. WalkFrame
    BY <1>1, <2>1 DEF WalkFrame, loopVars
  <2>3. ASSUME Trusted PROVE Covered'
    <3>1. ASSUME NEW x \in Dirs, Exists(x), Coming(x) PROVE Coming(x)'
      <4>1. PICK e \in Above[x] : e \in walk \/ (e # Root /\ Parent[e] = at)
        BY <3>1 DEF Coming
      <4>2. e \in Dirs /\ Exists(e)
        BY <3>1, <4>1, AboveClosed, AboveExists DEF WatchInv
      <4>3. e \in walk'
        BY <2>1, <4>1, <4>2 DEF Children
      <4> QED
        BY <1>1, <2>1, <4>1, <4>3 DEF Coming, Walking
    <3>2. \A x \in Dirs : Exists(x)' <=> Exists(x)
      BY <1>1 DEF Exists, fsVars
    <3> QED
      BY <1>1, <2>3, <3>1, <3>2 DEF WatchInv, WatchTypeOK, Covered
  <2> QED
    BY <1>1, <2>1, <2>2, <2>3, WalkGoesOn DEF WatchInv, WatchTypeOK, Children
<1> QED
  BY <1>2, <1>3

\* A walk that ends has been everywhere.
LEMMA WalkEndsKeeps == ASSUME WatchInv, WalkEnds PROVE WatchInv'
<1>1. /\ Walking /\ at = None /\ walk = {} /\ AfterWalk(TRUE)
      /\ UNCHANGED <<fsVars, buildVars, fsEvents, lost, watched>>
  BY DEF WalkEnds
<1>2. WatchTypeOK'
  BY <1>1 DEF WatchInv, WatchTypeOK, AfterWalk, fsVars, buildVars
<1>3. Tree' /\ NothingIgnored'
  BY <1>1 DEF WatchInv, Tree, Exists, NothingIgnored, fsVars, buildVars
<1>4. BuildOK'
  BY <1>1 DEF WatchInv, WatchTypeOK, BuildOK, Building, Walking, AfterWalk, buildVars
<1>5. Trusted' => Trusted
  BY <1>1 DEF Trusted, AfterWalk, Walking
<1>6. ASSUME Trusted PROVE Covered'
  <2>1. \A x \in Dirs : ~Coming(x)
    BY <1>1, AboveClosed, WatchAssumption DEF Coming
  <2>2. \A x \in Dirs : Exists(x)' <=> Exists(x)
    BY <1>1 DEF Exists, fsVars
  <2> QED
    BY <1>1, <1>6, <2>1, <2>2 DEF WatchInv, WatchTypeOK, Covered
<1>7. NothingMissed'
  <2>1. CASE loop = "walk"
    BY <1>1, <2>1 DEF AfterWalk, NothingMissed, Owed
  <2>2. CASE loop = "start"
    <3>1. running' /\ done' = "none" /\ config' = 0
      BY <1>1, <2>2 DEF AfterWalk, WatchInv, BuildOK, Building, buildVars
    <3>2. \A i \in DOMAIN Configs : \A x \in Dirs : Fresh(i, x)'
      BY <3>1, ConfigNumbers DEF Fresh, Building
    <3> QED
      BY <3>2 DEF NothingMissed
  <2> QED
    BY <1>1, <2>1, <2>2 DEF Walking
<1> QED
  BY <1>2, <1>3, <1>4, <1>5, <1>6, <1>7 DEF WatchInv

-----------------------------------------------------------------------------
(* The rebuild.                                                            *)

\* The rebuild runs beside the loop and leaves it and the disk alone.
BuildFrame ==
  UNCHANGED <<fsVars, watchVars, change, timer, pending, running, failed, fsEvents, loop, lost>>

LEMMA BuildRest ==
  ASSUME WatchInv, BuildFrame
  PROVE  /\ Tree' /\ (Trusted' <=> Trusted) /\ (Trusted => Covered')
         /\ \A x \in Dirs : Owed(x) => Owed(x)'
         /\ \A x \in Dirs : Exists(x)' <=> Exists(x)
<1> USE DEF BuildFrame, fsVars, watchVars
<1>1. Tree' /\ (Trusted' <=> Trusted) /\ \A x \in Dirs : Exists(x)' <=> Exists(x)
  BY DEF WatchInv, Tree, Exists, Trusted
<1>2. Trusted => Covered'
  BY DEF WatchInv, Covered, Coming, Walking, Exists
<1>3. \A x \in Dirs : Owed(x) => Owed(x)'
  BY DEF Owed, Walking, Certain, Arrival, Exists
<1> QED
  BY <1>1, <1>2, <1>3

\* A configuration is fresh, as long as the rebuild is where it was.
LEMMA FreshRest ==
  ASSUME WatchInv, BuildFrame, WatchTypeOK', BuildOK', NothingIgnored',
         ASSUME NEW i \in DOMAIN Configs, NEW x \in Dirs \ unheard, ~Skipped(i, x), Fresh(i, x)
         PROVE  Fresh(i, x)'
  PROVE  WatchInv'
<1>1. NothingMissed => NothingMissed'
  BY BuildRest DEF NothingMissed, BuildFrame, fsVars
<1> QED
  BY <1>1, BuildRest DEF WatchInv

\* A configuration begins with the root and nothing read.
LEMMA StartConfigKeeps == ASSUME WatchInv, StartConfig PROVE WatchInv'
<1>1. /\ BuildFrame /\ UNCHANGED <<done, indexed>> /\ Building /\ config < Len(Configs)
      /\ reading = {} /\ config' = config + 1 /\ reading' = {Root} /\ seen' = Empty
  BY DEF StartConfig, BuildFrame, loopVars
<1>2. Empty \in [Dirs -> Nat] /\ \A x \in Dirs : Empty[x] = Gone
  BY DEF Empty, Gone
<1>3. PICK n \in 0 .. Len(Configs) : n = config
  BY DEF WatchInv, WatchTypeOK
<1>4. n + 1 \in DOMAIN Configs /\ n + 1 # 0 /\ config' = n + 1
  BY <1>1, <1>3, ConfigNumbers
<1>5. WatchTypeOK'
  <2>1. config' \in 0 .. Len(Configs)
    BY <1>4, ConfigNumbers
  <2>2. reading' \subseteq Dirs /\ seen' \in [Dirs -> Nat]
    BY <1>1, <1>2, WatchAssumption
  <2> QED
    BY <1>1, <2>1, <2>2 DEF BuildFrame, fsVars, watchVars, WatchInv, WatchTypeOK
<1>6. BuildOK'
  BY <1>1, <1>4 DEF BuildFrame, WatchInv, BuildOK, Building
<1>7. NothingIgnored'
  BY <1>1, <1>2, <1>4, RootWanted DEF WatchInv, NothingIgnored
<1>8. ASSUME NEW i \in DOMAIN Configs, NEW x \in Dirs \ unheard, Fresh(i, x)
      PROVE  Fresh(i, x)'
  <2>1. UNCHANGED <<running, failed, done, indexed, content>>
    BY <1>1 DEF BuildFrame, fsVars
  <2>2. i < n + 1 => i < n \/ i = n
    BY ConfigNumbers
  <2>3. Building' /\ i < n + 1 => indexed[i][x] = content[x]
    BY <1>1, <1>3, <1>8, <2>1, <2>2 DEF Fresh, Building
  <2>4. seen'[x] = content'[x] \/ (Exists(x)' /\ Above[x] \cap reading' # {})
    <3>1. Root \in Above[x]
      BY WatchAssumption
    <3> QED
      BY <1>1, <1>2, <2>1, <3>1 DEF Exists
  <2>5. reading' # {}
    BY <1>1
  <2> QED
    BY <1>4, <1>8, <2>1, <2>3, <2>4, <2>5 DEF Fresh
<1> QED
  BY <1>1, <1>5, <1>6, <1>7, <1>8, FreshRest

\* Reading a directory records what is in it, and goes on to what it has; with the last one
\* the configuration is published.
LEMMA ReadKeeps == ASSUME WatchInv, NEW d \in Dirs, Read(d) PROVE WatchInv'
<1>1. /\ BuildFrame /\ UNCHANGED <<done, config>> /\ Building /\ d \in reading /\ Exists(d)
      /\ seen' = [seen EXCEPT ![d] = content[d]]
      /\ reading' = (reading \ {d}) \cup {e \in Children(d) : ~Skipped(config, e)}
      /\ indexed' = IF reading' = {} THEN [indexed EXCEPT ![config] = seen'] ELSE indexed
  BY DEF Read, BuildFrame, loopVars
<1>2. PICK n \in 0 .. Len(Configs) : n = config
  BY DEF WatchInv, WatchTypeOK
<1>3. n # 0 /\ n \in DOMAIN Configs
  BY <1>1, <1>2, ConfigNumbers DEF WatchInv, BuildOK
<1>4. seen' \in [Dirs -> Nat] /\ \A x \in Dirs : seen'[x] = IF x = d THEN content[d] ELSE seen[x]
  BY <1>1 DEF WatchInv, WatchTypeOK
<1>5. PICK s \in [Dirs -> Nat] : s = seen'
  BY <1>4
<1>6. PICK ix \in [DOMAIN Configs -> [Dirs -> Nat]] : ix = indexed
  BY DEF WatchInv, WatchTypeOK
<1>7. /\ indexed' \in [DOMAIN Configs -> [Dirs -> Nat]]
      /\ \A i \in DOMAIN Configs : indexed'[i] = IF reading' = {} /\ i = n THEN s ELSE ix[i]
  <2>1. CASE reading' = {}
    <3>1. indexed' = [ix EXCEPT ![n] = s]
      BY <1>1, <1>2, <1>5, <1>6, <2>1
    <3> QED
      BY <1>3, <2>1, <3>1
  <2>2. CASE reading' # {}
    BY <1>1, <1>6, <2>2
  <2> QED
    BY <2>1, <2>2
<1>8. WatchTypeOK'
  <2>1. reading' \subseteq Dirs
    BY <1>1 DEF Children, WatchInv, WatchTypeOK
  <2>2. seen' \in [Dirs -> Nat] /\ indexed' \in [DOMAIN Configs -> [Dirs -> Nat]]
    BY <1>4, <1>7
  <2>3. BuildFrame /\ done' = done /\ config' = config /\ WatchTypeOK
    BY <1>1 DEF WatchInv
  <2> QED
    BY <2>1, <2>2, <2>3 DEF BuildFrame, fsVars, watchVars, WatchTypeOK
<1>9. BuildOK'
  BY <1>1, <1>2, <1>3 DEF BuildFrame, WatchInv, BuildOK, Building
<1>10. NothingIgnored'
  <2>1. ~Skipped(n, d)
    BY <1>1, <1>2, <1>3 DEF WatchInv, NothingIgnored
  <2>2. ASSUME NEW x \in Dirs, Skipped(n, x) PROVE s[x] = Gone /\ x \notin reading'
    BY <1>1, <1>2, <1>3, <1>4, <1>5, <2>1, <2>2 DEF WatchInv, NothingIgnored
  <2>3. ASSUME NEW i \in DOMAIN Configs, NEW x \in Dirs, Skipped(i, x) PROVE indexed'[i][x] = Gone
    BY <1>6, <1>7, <2>2, <2>3 DEF WatchInv, NothingIgnored
  <2> QED
    BY <1>1, <1>2, <1>5, <2>2, <2>3 DEF NothingIgnored
<1>11. ASSUME NEW i \in DOMAIN Configs, NEW x \in Dirs \ unheard, ~Skipped(i, x), Fresh(i, x)
       PROVE  Fresh(i, x)'
  <2>1. UNCHANGED <<running, failed, done, config, content>> /\ running /\ done = "none"
    BY <1>1 DEF BuildFrame, fsVars, Building
  <2>2. i < n => indexed'[i][x] = content[x]
    <3>1. i < n => indexed[i][x] = content[x]
      BY <1>1, <1>2, <1>11 DEF Fresh
    <3>2. i < n => i # n
      BY ConfigNumbers
    <3> QED
      BY <1>6, <1>7, <3>1, <3>2
  <2>3. ASSUME i = n
        PROVE  s[x] = content[x] \/ (Exists(x) /\ Above[x] \cap reading' # {})
    <3>1. seen[x] = content[x] \/ (Exists(x) /\ Above[x] \cap reading # {})
      BY <1>1, <1>2, <1>11, <2>3 DEF Fresh
    <3>2. CASE x = d \/ seen[x] = content[x]
      BY <1>4, <1>5, <3>2
    <3>3. CASE x # d /\ Exists(x) /\ Above[x] \cap reading # {}
      <4>1. PICK e \in Above[x] : e \in reading
        BY <3>3
      <4>2. CASE e # d
        BY <1>1, <3>3, <4>1, <4>2
      <4>3. CASE e = d
        <5>1. PICK y \in Above[x] \ {Root} : Parent[y] = d
          BY <3>3, <4>3, StepDown
        <5>2. y \in Dirs /\ Exists(y) /\ ~Skipped(i, y)
          BY <1>11, <3>3, AboveClosed, AboveExists, IgnoredBelow DEF WatchInv
        <5>3. y \in reading'
          BY <1>1, <1>2, <2>3, <5>1, <5>2 DEF Children
        <5> QED
          BY <3>3, <5>3
      <4> QED
        BY <4>2, <4>3
    <3> QED
      BY <3>1, <3>2, <3>3
  <2>4. i = n /\ reading' = {} => indexed'[i][x] = content[x]
    BY <1>7, <2>3
  <2>5. Exists(x)' <=> Exists(x)
    BY <2>1 DEF Exists
  <2> QED
    BY <1>2, <1>5, <2>1, <2>2, <2>3, <2>4, <2>5 DEF Fresh, Building
<1> QED
  BY <1>1, <1>8, <1>9, <1>10, <1>11, FreshRest

\* A rebuild that ends has nothing left.
LEMMA EndBuildRest ==
  ASSUME WatchInv, Building, NEW result \in {"ok", "failed"}, EndBuild(result)
  PROVE  BuildFrame /\ UNCHANGED indexed /\ done' = result /\ WatchTypeOK' /\ BuildOK' /\ NothingIgnored'
<1>1. BuildFrame /\ UNCHANGED indexed /\ done' = result /\ config' = 0 /\ reading' = {} /\ seen' = Empty
  BY DEF EndBuild, BuildFrame
<1>2. Empty \in [Dirs -> Nat] /\ 0 \in 0 .. Len(Configs)
  BY ConfigNumbers DEF Empty, Gone
<1>3. WatchTypeOK'
  BY <1>1, <1>2 DEF BuildFrame, fsVars, watchVars, WatchInv, WatchTypeOK
<1>4. BuildOK'
  BY <1>1 DEF BuildFrame, WatchInv, BuildOK, Building
<1>5. NothingIgnored'
  BY <1>1 DEF WatchInv, NothingIgnored
<1> QED
  BY <1>1, <1>3, <1>4, <1>5

\* A failure promises nothing.
LEMMA ReadFailsKeeps == ASSUME WatchInv, NEW d \in Dirs, ReadFails(d) PROVE WatchInv'
<1>1. Building /\ EndBuild("failed")
  BY DEF ReadFails
<1>2. \A i \in DOMAIN Configs : \A x \in Dirs : Fresh(i, x)'
  BY <1>1 DEF EndBuild, Fresh, Building
<1> QED
  BY <1>1, <1>2, EndBuildRest, FreshRest

\* A success has published every configuration.
LEMMA BuildDoneKeeps == ASSUME WatchInv, BuildDone PROVE WatchInv'
<1>1. Building /\ EndBuild("ok") /\ config = Len(Configs) /\ reading = {}
  BY DEF BuildDone
<1>2. BuildFrame /\ UNCHANGED indexed /\ done' = "ok" /\ WatchTypeOK' /\ BuildOK' /\ NothingIgnored'
  BY <1>1, EndBuildRest
<1>3. ASSUME NEW i \in DOMAIN Configs, NEW x \in Dirs \ unheard, Fresh(i, x)
      PROVE  Fresh(i, x)'
  <2>1. i < Len(Configs) \/ i = Len(Configs)
    BY ConfigNumbers
  <2>2. indexed[i][x] = content[x]
    BY <1>1, <1>3, <2>1 DEF Fresh
  <2> QED
    BY <1>1, <1>2, <2>2 DEF Fresh, Building, BuildFrame, fsVars
<1> QED
  BY <1>2, <1>3, FreshRest

-----------------------------------------------------------------------------
(* The loop.                                                               *)

\* What the loop's own steps leave alone.
LoopFrame == UNCHANGED <<content, edits, buildVars, lost>>

LEMMA LoopRest ==
  ASSUME WatchInv, LoopFrame
  PROVE  Tree' /\ NothingIgnored' /\ \A x \in Dirs : Exists(x)' <=> Exists(x)
  BY DEF WatchInv, LoopFrame, buildVars, Tree, Exists, NothingIgnored

\* Watches and events stay, and the loop does not walk: everything stays covered.
LEMMA CoveredStays ==
  ASSUME WatchInv, LoopFrame, UNCHANGED <<watchVars, fsEvents>>, ~Walking, Trusted
  PROVE  Covered'
<1>1. \A x \in Dirs : ~Coming(x)
  BY DEF Coming
<1>2. UNCHANGED <<watched, fsEvents>>
  BY DEF watchVars
<1> QED
  BY <1>1, <1>2, LoopRest DEF WatchInv, WatchTypeOK, Covered

\* What the last rebuild published stays what it published.
LEMMA FinishedFresh ==
  ASSUME WatchInv, LoopFrame, done = "ok", ~running', done' = "none",
         NEW i \in DOMAIN Configs, NEW x \in Dirs, Fresh(i, x)
  PROVE  Fresh(i, x)'
<1>1. running
  BY DEF WatchInv, BuildOK
<1>2. indexed[i][x] = content[x]
  BY <1>1 DEF Fresh
<1> QED
  BY <1>2 DEF Fresh, Building, LoopFrame, fsVars, buildVars

\* The first rebuild has to succeed for the loop to begin.
LEMMA FirstDoneKeeps == ASSUME WatchInv, FirstDone PROVE WatchInv'
<1>1. /\ LoopFrame /\ UNCHANGED unheard
      /\ loop = "first" /\ done # "none" /\ running' = FALSE /\ done' = "none"
      /\ loop' = IF done = "ok" THEN "select" ELSE "stopped"
      /\ UNCHANGED <<watchVars, change, timer, pending, failed, fsEvents>>
  BY DEF FirstDone, LoopFrame, fsVars
<1>2. WatchTypeOK'
  BY <1>1 DEF LoopFrame, fsVars, watchVars, buildVars, WatchInv, WatchTypeOK
<1>3. config = 0
  BY <1>1 DEF WatchInv, BuildOK, Building
<1>4. BuildOK'
  BY <1>1, <1>3 DEF LoopFrame, buildVars, WatchInv, BuildOK
<1>5. ASSUME Trusted' PROVE Trusted /\ done = "ok" /\ loop' = "select"
  BY <1>1, <1>5 DEF Trusted, LoopFrame, watchVars
<1>6. Trusted' => Covered'
  BY <1>1, <1>5, CoveredStays DEF Walking
<1>7. ASSUME Trusted', NEW i \in DOMAIN Configs, NEW x \in Dirs \ unheard,
             ~Skipped(i, x), ~IgnoredByAll(x)
      PROVE  Owed(x)' \/ Fresh(i, x)'
  <2>1. Owed(x) \/ Fresh(i, x)
    BY <1>5, <1>7 DEF WatchInv, NothingMissed
  <2>2. CASE Owed(x)
    BY <1>1, <2>2, AboveClosed, LoopRest DEF Owed, Walking, Certain, Arrival, LoopFrame, fsVars, Exists
  <2>3. CASE Fresh(i, x)
    BY <1>1, <1>5, <1>7, <2>3, FinishedFresh
  <2> QED
    BY <2>1, <2>2, <2>3
<1>8. Trusted' => NothingMissed'
  BY <1>1, <1>7 DEF NothingMissed, LoopFrame, fsVars
<1> QED
  BY <1>1, <1>2, <1>4, <1>6, <1>8, LoopRest DEF WatchInv

\* The loop is not started, walking or at its first rebuild while it selects.
LEMMA SelectRest ==
  ASSUME WatchInv, LoopFrame, loop = "select", loop' \in {"select", "walk"},
         UNCHANGED <<running, done, failed>>
  PROVE  BuildOK'
  BY DEF LoopFrame, buildVars, WatchInv, BuildOK, Building

\* An event that is dropped owes nothing, and one that is not is answered by a walk or a
\* rebuild; a watch that is taken is one of a directory that is gone, or announced.
LEMMA TakeEventKeeps == ASSUME WatchInv, TakeEvent PROVE WatchInv'
<1> DEFINE e == Head(fsEvents)
           q == Tail(fsEvents)
<1>1. /\ LoopFrame /\ UNCHANGED unheard
      /\ loop = "select" /\ fsEvents' = q
      /\ UNCHANGED <<at, timer, pending, running, done, failed>>
  BY DEF TakeEvent, LoopFrame, fsVars
<1>2. e \in Event /\ q \in Seq(Event) /\ Range(fsEvents) = {e} \cup Range(q)
  BY TailRange DEF TakeEvent, WatchInv, WatchTypeOK
<1>3. \/ /\ IgnoredByAll(e.d) /\ UNCHANGED <<loop, walk, watched, change, cut>>
      \/ /\ e.op = "create" /\ Exists(e.d)
         /\ loop' = "walk" /\ walk' = {e.d} /\ UNCHANGED <<change, watched, cut>>
      \/ /\ ~(e.op = "create" /\ Exists(e.d)) /\ change' = (change \/ Relevant(e))
         /\ UNCHANGED <<loop, walk>>
         /\ \/ UNCHANGED <<watched, cut>>
            \/ /\ watched' = watched \ {e.d}
               /\ cut' = (cut \/ (Exists(e.d) /\ ~Announced(e.d, q)))
  BY DEF TakeEvent
<1>4. PICK f \in Event : f = e
  BY <1>2
<1>5. f.d \in Dirs /\ fsEvents # <<>>
  BY DEF Event, TakeEvent
<1> HIDE DEF e, q
<1>6. WatchTypeOK'
  <2>1. watched' \subseteq Dirs /\ walk' \subseteq Dirs /\ loop' \in {"walk", "select"}
    BY <1>1, <1>3, <1>4, <1>5 DEF WatchInv, WatchTypeOK
  <2>2. change' \in BOOLEAN /\ cut' \in BOOLEAN
    BY <1>3 DEF WatchInv, WatchTypeOK
  <2> QED
    BY <1>1, <1>2, <2>1, <2>2 DEF LoopFrame, fsVars, buildVars, WatchInv, WatchTypeOK
<1>7. BuildOK'
  BY <1>1, <1>3, SelectRest
<1>8. ~Walking
  BY <1>1 DEF Walking
<1>9. Trusted' => Trusted
  BY <1>1, <1>3 DEF Trusted, LoopFrame
<1>10. ASSUME Trusted', NEW x \in Dirs, Exists(x), ~IgnoredByAll(x)
       PROVE  x \in watched' \/ Coming(x)' \/ Announced(x, q)
  <2>1. x \in watched \/ Announced(x, fsEvents)
    BY <1>8, <1>9, <1>10 DEF WatchInv, Covered, Coming
  <2>2. CASE Announced(x, fsEvents) /\ ~Announced(x, q)
    <3>1. f.op = "create" /\ f.d \in Above[x]
      BY <1>2, <1>4, <2>2 DEF Announced
    <3>2. Exists(f.d)
      BY <1>10, <3>1, AboveExists DEF WatchInv
    <3>3. ~IgnoredByAll(f.d)
      BY <1>10, <3>1, IgnoredBelow DEF IgnoredByAll
    <3>4. loop' = "walk" /\ walk' = {f.d}
      BY <1>3, <1>4, <3>1, <3>2, <3>3
    <3> QED
      BY <3>1, <3>4 DEF Coming, Walking
  <2>3. CASE x \in watched /\ x \notin watched'
    <3>1. x = f.d /\ cut' = (cut \/ (Exists(f.d) /\ ~Announced(f.d, q)))
      BY <1>3, <1>4, <2>3
    <3> QED
      BY <1>10, <3>1 DEF Trusted
  <2> QED
    BY <2>1, <2>2, <2>3
<1>11. Trusted' => Covered'
  <2>1. ASSUME Trusted', NEW x \in watched' PROVE Exists(x)'
    <3>1. x \in watched
      BY <1>3, <2>1
    <3> QED
      BY <1>1, <1>9, <2>1, <3>1, LoopRest DEF WatchInv, WatchTypeOK, Covered
  <2>2. ASSUME Trusted', NEW x \in Dirs, Exists(x)', ~IgnoredByAll(x)
        PROVE  x \in watched' \/ Coming(x)' \/ Announced(x, fsEvents')
    BY <1>1, <1>10, <2>2, LoopRest
  <2> QED
    BY <2>1, <2>2 DEF Covered
<1>12. ASSUME Trusted', NEW i \in DOMAIN Configs, NEW x \in Dirs \ unheard,
              ~Skipped(i, x), ~IgnoredByAll(x)
       PROVE  Owed(x)' \/ Fresh(i, x)'
  <2>1. Owed(x) \/ Fresh(i, x)
    BY <1>9, <1>12 DEF WatchInv, NothingMissed
  <2>2. CASE Fresh(i, x)
    BY <1>1, <2>2 DEF Fresh, Building, LoopFrame, fsVars, buildVars, Exists
  <2>3. CASE change \/ pending
    <3>1. change => change'
      BY <1>3
    <3>2. pending => pending'
      BY <1>1
    <3> QED
      BY <2>3, <3>1, <3>2 DEF Owed
  <2>4. ASSUME NEW y \in Range(q), Certain(y) \/ Arrival(y, x) PROVE Owed(x)'
    BY <1>1, <2>4 DEF Owed, Certain, Arrival, LoopFrame, fsVars, Exists
  <2>5. CASE Certain(f)
    BY <1>3, <1>4, <2>5 DEF Certain, Relevant, Owed, Walking
  <2>6. CASE Arrival(f, x)
    <3>1. ~IgnoredByAll(f.d)
      BY <1>12, <2>6, IgnoredBelow DEF IgnoredByAll, Arrival
    <3> QED
      BY <1>3, <1>4, <2>6, <3>1 DEF Arrival, Owed, Walking
  <2> QED
    BY <1>2, <1>4, <1>8, <2>1, <2>2, <2>3, <2>4, <2>5, <2>6 DEF Owed
<1>13. Trusted' => NothingMissed'
  BY <1>1, <1>12 DEF NothingMissed, LoopFrame, fsVars
<1> QED
  BY <1>1, <1>6, <1>7, <1>11, <1>13, LoopRest DEF WatchInv

\* A change becomes pending: no rebuild is forgotten in between.
LEMMA TakeChangeKeeps == ASSUME WatchInv, TakeChange PROVE WatchInv'
<1>1. /\ LoopFrame /\ UNCHANGED unheard
      /\ loop = "select" /\ pending' = TRUE /\ change' = FALSE /\ timer' = TRUE
      /\ UNCHANGED <<watchVars, running, done, failed, fsEvents, loop>>
  BY DEF TakeChange, LoopFrame, fsVars
<1>2. WatchTypeOK'
  BY <1>1 DEF LoopFrame, fsVars, watchVars, buildVars, WatchInv, WatchTypeOK
<1>3. BuildOK'
  BY <1>1, SelectRest
<1>4. Trusted' => Trusted /\ Covered'
  BY <1>1, CoveredStays DEF Trusted, LoopFrame, watchVars, Walking
<1>5. NothingMissed'
  BY <1>1 DEF NothingMissed, Owed
<1> QED
  BY <1>1, <1>2, <1>3, <1>4, <1>5, LoopRest DEF WatchInv

\* The timer starts a rebuild, which begins with everything, unless one runs.
LEMMA TimerFiresKeeps == ASSUME WatchInv, TimerFires PROVE WatchInv'
<1>1. /\ LoopFrame /\ loop = "select" /\ timer' = FALSE
      /\ UNCHANGED <<watchVars, change, done, failed, fsEvents, loop>>
  BY DEF TimerFires, LoopFrame
<1>2. CASE pending /\ ~running
  <2>1. pending' = FALSE /\ running' = TRUE /\ unheard' = {}
    BY <1>2 DEF TimerFires
  <2>2. done = "none" /\ config = 0
    BY <1>2 DEF WatchInv, BuildOK, Building
  <2>3. WatchTypeOK'
    BY <1>1, <2>1 DEF LoopFrame, fsVars, watchVars, buildVars, WatchInv, WatchTypeOK
  <2>4. BuildOK'
    BY <1>1, <2>1, <2>2 DEF LoopFrame, buildVars, WatchInv, BuildOK, Building
  <2>5. Trusted' => Trusted /\ Covered'
    BY <1>1, CoveredStays DEF Trusted, LoopFrame, watchVars, Walking
  <2>6. \A i \in DOMAIN Configs : \A x \in Dirs : Fresh(i, x)'
    BY <1>1, <2>1, <2>2, ConfigNumbers DEF Fresh, Building, LoopFrame, buildVars
  <2>7. NothingMissed'
    BY <2>6 DEF NothingMissed
  <2> QED
    BY <1>1, <2>3, <2>4, <2>5, <2>7, LoopRest DEF WatchInv
<1>3. CASE ~(pending /\ ~running)
  <2>1. UNCHANGED <<pending, running, unheard>>
    BY <1>3 DEF TimerFires
  <2>2. WatchTypeOK'
    BY <1>1, <2>1 DEF LoopFrame, fsVars, watchVars, buildVars, WatchInv, WatchTypeOK
  <2>3. BuildOK'
    BY <1>1, <2>1, SelectRest
  <2>4. Trusted' => Trusted /\ Covered'
    BY <1>1, CoveredStays DEF Trusted, LoopFrame, watchVars, Walking
  <2>5. NothingMissed => NothingMissed'
    BY <1>1, <2>1 DEF NothingMissed, Owed, Walking, Certain, Arrival, Fresh, Building, LoopFrame,
       fsVars, buildVars, Exists
  <2> QED
    BY <1>1, <2>2, <2>3, <2>4, <2>5, LoopRest DEF WatchInv
<1> QED
  BY <1>2, <1>3

\* The end of a rebuild leaves what is still owed as it is.
LEMMA TakeDoneKeeps == ASSUME WatchInv, TakeDone PROVE WatchInv'
<1>1. /\ LoopFrame /\ UNCHANGED unheard
      /\ loop = "select" /\ done # "none" /\ running' = FALSE /\ done' = "none"
      /\ failed' = (done = "failed") /\ timer' = (timer \/ pending)
      /\ UNCHANGED <<watchVars, change, pending, fsEvents, loop>>
  BY DEF TakeDone, LoopFrame, fsVars
<1>2. failed' \in BOOLEAN /\ timer' \in BOOLEAN
  BY <1>1 DEF WatchInv, WatchTypeOK
<1>3. WatchTypeOK'
  BY <1>1, <1>2 DEF LoopFrame, fsVars, watchVars, buildVars, WatchInv, WatchTypeOK
<1>4. BuildOK'
  BY <1>1 DEF LoopFrame, buildVars, WatchInv, BuildOK, Building
<1>5. Trusted' => Trusted /\ Covered'
  BY <1>1, CoveredStays DEF Trusted, LoopFrame, watchVars, Walking
<1>6. ASSUME Trusted, NEW i \in DOMAIN Configs, NEW x \in Dirs \ unheard,
             ~Skipped(i, x), ~IgnoredByAll(x)
      PROVE  Owed(x)' \/ Fresh(i, x)'
  <2>1. Owed(x) \/ Fresh(i, x)
    BY <1>6 DEF WatchInv, NothingMissed
  <2>2. CASE Owed(x)
    BY <1>1, <2>2 DEF Owed, Walking, Certain, Arrival, LoopFrame, fsVars, Exists
  <2>3. CASE Fresh(i, x) /\ done = "ok"
    BY <1>1, <2>3, FinishedFresh
  <2>4. CASE done = "failed"
    BY <1>1, <2>4 DEF Fresh, Building
  <2> QED
    BY <1>1, <2>1, <2>2, <2>3, <2>4 DEF WatchInv, WatchTypeOK
<1>7. Trusted => NothingMissed'
  BY <1>1, <1>6 DEF NothingMissed, LoopFrame, fsVars
<1> QED
  BY <1>1, <1>3, <1>4, <1>5, <1>7, LoopRest DEF WatchInv

\* Nothing follows an interrupt.
LEMMA InterruptKeeps == ASSUME WatchInv, Interrupt PROVE WatchInv'
<1>1. /\ LoopFrame /\ UNCHANGED unheard
      /\ loop' = "stopped" /\ UNCHANGED <<watchVars, loopVars, fsEvents>>
  BY DEF Interrupt, LoopFrame, fsVars
<1>2. WatchTypeOK' /\ BuildOK' /\ ~Trusted'
  BY <1>1 DEF LoopFrame, fsVars, watchVars, loopVars, buildVars, WatchInv, WatchTypeOK, BuildOK, Building,
     Trusted
<1> QED
  BY <1>1, <1>2, LoopRest DEF WatchInv

-----------------------------------------------------------------------------
LEMMA NextKeeps == ASSUME WatchInv, [WatchNext]_allVars PROVE WatchInv'
<1>1. CASE UNCHANGED allVars
  <2>1. UNCHANGED <<content, edits, unheard, watched, walk, at, cut, change, timer, pending,
                    running, done, failed, config, reading, seen, indexed, fsEvents, loop, lost>>
    BY <1>1 DEF allVars, fsVars, watchVars, loopVars, buildVars
  <2>2. WatchTypeOK' /\ Tree' /\ BuildOK' /\ NothingIgnored' /\ (Trusted' <=> Trusted)
    BY <2>1 DEF WatchInv, WatchTypeOK, Tree, Exists, BuildOK, Building, NothingIgnored, Trusted
  <2>3. Covered => Covered'
    BY <2>1 DEF Covered, Coming, Walking, Exists
  <2>4. NothingMissed => NothingMissed'
    BY <2>1 DEF NothingMissed, Owed, Walking, Certain, Arrival, Fresh, Building, Exists
  <2> QED
    BY <2>2, <2>3, <2>4 DEF WatchInv
<1>2. CASE \E d \in Dirs : Write(d) \/ Mkdir(d) \/ \E op \in {"remove", "move"} : Delete(d, op)
  BY <1>2, WriteKeeps, MkdirKeeps, DeleteKeeps
<1>3. CASE Visit \/ ReadNames \/ WalkEnds
  BY <1>3, VisitKeeps, ReadNamesKeeps, WalkEndsKeeps
<1>4. CASE FirstDone \/ TakeEvent \/ TakeChange \/ TimerFires \/ TakeDone \/ Interrupt
  BY <1>4, FirstDoneKeeps, TakeEventKeeps, TakeChangeKeeps, TimerFiresKeeps, TakeDoneKeeps,
     InterruptKeeps
<1>5. CASE Build
  BY <1>5, StartConfigKeeps, BuildDoneKeeps, ReadKeeps, ReadFailsKeeps DEF Build
<1> QED
  BY <1>1, <1>2, <1>3, <1>4, <1>5 DEF WatchNext, Loop

LEMMA Invariance == WatchSpec => []WatchInv
<1>1. WatchInv /\ [WatchNext]_allVars => WatchInv'
  BY NextKeeps
<1> QED
  BY WatchInitInv, <1>1, PTL DEF WatchSpec

\* Every variable keeps its type.
THEOREM WatchTypeCorrect == WatchSpec => []WatchTypeOK
<1>1. WatchInv => WatchTypeOK
  BY DEF WatchInv
<1> QED
  BY Invariance, <1>1, PTL

\* watch.go:270-349: when the loop has nothing left to do, every configuration's index is
\* what is on disk, for any tree, any number of edits and any order of events, walks, timers
\* and rebuilds; but for what QuietIsFresh names, directories that are indexed under an
\* ignored name and those whose removal nobody heard of among it.
THEOREM FreshCorrect == WatchSpec => []QuietIsFresh
<1>1. ASSUME WatchInv, Quiet, Trusted, ~failed, NEW i \in DOMAIN Configs, NEW d \in Dirs,
             ~Skipped(i, d), d \notin unheard, ~IgnoredByAll(d)
      PROVE  indexed[i][d] = content[d]
  <2>1. Range(fsEvents) = {}
    BY <1>1 DEF Quiet, Range
  <2>2. ~Owed(d)
    BY <1>1, <2>1 DEF Owed, Quiet, Walking
  <2>3. Fresh(i, d)
    BY <1>1, <2>2 DEF WatchInv, NothingMissed
  <2> QED
    BY <1>1, <2>3 DEF Fresh, Quiet
<1>2. WatchInv => QuietIsFresh
  BY <1>1 DEF QuietIsFresh, Trusted, Quiet, WatchInv, NothingIgnored
<1> QED
  BY Invariance, <1>2, PTL
=============================================================================
