------------------------------ MODULE GitIndex ------------------------------
(***************************************************************************)
(* Indexing a git repository (gitindex/index.go, tree.go, submodule.go),   *)
(* again and again while its branches move: a normal build walks the tree  *)
(* of every branch; a delta build adds what changed since the commits that *)
(* are indexed, and marks the changed paths as dead in the shards that are *)
(* there.                                                                  *)
(*                                                                         *)
(* A tree is a function from paths to entries.  Git's object store, its    *)
(* diff and the matching of ignore patterns are external.  Several shards  *)
(* of one build, and builds that fail half-way, are the subject of Builder. *)
(***************************************************************************)
EXTENDS Naturals, Sequences, FiniteSets, SequencesExt

CONSTANTS Branches,    \* names of branches, in the order of the references
          Paths,       \* paths of files and submodules
          IgnoreFile,  \* ".sourcegraph/ignore"
          GitModules,  \* ".gitmodules"
          Ignores,     \* Ignores[blob]: paths the ignore file with that content matches
          Modules,     \* Modules[blob]: paths of submodules .gitmodules declares
          SubTree,     \* SubTree[commit]: tree of a submodule's commit the cache has
          Big,         \* blobs larger than SizeMax
          LargeFiles,  \* paths for which the size does not matter
          FirstTree,   \* what all branches have at the start
          Edits,       \* [path, entry]: what a commit may do to a tree
          GitOptions,  \* options a behaviour may have
          MaxCommits, MaxBuilds

NoEntry == [k |-> "none", id |-> 0]
FileEntry(id) == [k |-> "blob", id |-> id]
SubEntry(id) == [k |-> "sub", id |-> id]
Entries == {FirstTree[p] : p \in Paths} \cup {e.entry : e \in Edits} \cup
           UNION {{t[p] : p \in DOMAIN t} : t \in Range(SubTree)}

\* Trees hold entries; a process is given branches by name, or all of them.
ASSUME GitAssumption ==
  /\ Branches \in Seq(Range(Branches)) /\ Branches # <<>> /\ "*" \notin Range(Branches)
  /\ FirstTree \in [Paths -> Entries] /\ \A e \in Edits : e.path \in Paths
  /\ \A e \in Entries : e = [k |-> e.k, id |-> e.id]
  /\ \A o \in GitOptions : /\ o.branches \in Seq(Range(Branches) \cup {"*"})
                           /\ o.submodules \in BOOLEAN
  /\ IsFiniteSet(DOMAIN SubTree)

TooLarge == 0  \* the content of a document that is too large

VARIABLES
  gitOpts,   \* branches, submodules (with RepoCacheDir), allowMissing, incremental,
             \* threshold (DeltaShardNumberFallbackThreshold)
  commits,   \* commits[v]: the tree of version v
  refs,      \* refs[b]: the version branch b is at, 0 if there is none
  shards,    \* the repository's shards on disk
  builds     \* builds so far

gitVars == <<gitOpts, commits, refs, shards, builds>>

GitInit ==
  /\ gitOpts \in GitOptions
  /\ commits = <<FirstTree>>
  /\ refs = [b \in Range(Branches) |-> IF b = Branches[1] THEN 1 ELSE 0]
  /\ shards = <<>> /\ builds = 0

-----------------------------------------------------------------------------
(* Trees.                                                                  *)

Files(tree) == {p \in DOMAIN tree : tree[p].k = "blob"}
IsFile(tree, p) == p \in DOMAIN tree /\ tree[p].k = "blob"

\* newIgnoreMatcher
Ignored(tree) == IF IsFile(tree, IgnoreFile) THEN Ignores[tree[IgnoreFile].id] ELSE {}

\* The commit a reference or a branch name stands for.
getCommit(b) == refs[b]

\* Those of the branches bs that there are.
Present(bs) == FlattenSeq([i \in DOMAIN bs |-> IF refs[bs[i]] # 0 THEN <<bs[i]>> ELSE <<>>])

\* expandBranches: "*" stands for the branches there are.
expandBranches ==
  LET Expand(b) == IF b = "*" THEN Present(Branches) ELSE <<b>>
  IN FlattenSeq([i \in DOMAIN gitOpts.branches |-> Expand(gitOpts.branches[i])])

\* A file to index: the path of its submodule, its path there, its blob.
Key(sub, p, id) == [sub |-> sub, path |-> p, id |-> id]
FullPath(key) == Append(key.sub, key.path)

\* The branches of each key, once more with branch b for the given keys.
AddBranch(files, keys, b) ==
  [k \in DOMAIN files \cup keys |->
     (IF k \in DOMAIN files THEN files[k] ELSE {}) \cup (IF k \in keys THEN {b} ELSE {})]

\* parseModuleMap: the submodules a tree declares.
Declared(tree) == IF IsFile(tree, GitModules) THEN Modules[tree[GitModules].id] ELSE {}

\* handleEntry
OwnKeys(tree) == {Key(<<>>, p, tree[p].id) : p \in Files(tree) \ Ignored(tree)}

\* handleSubmodule passes over what is not declared or not in the cache.
Entered(tree, mods) ==
  {p \in DOMAIN tree : tree[p].k = "sub" /\ p \in mods /\ tree[p].id \in DOMAIN SubTree}
Moved(p, keys) == {[k EXCEPT !.sub = <<p>> \o @] : k \in keys}

\* What a walker finds in each commit of a submodule, and in n levels of submodules
\* below it.  A commit's id is a hash of all that is in it, so no commit is below
\* itself, and Levels are enough.
Levels == Cardinality(DOMAIN SubTree)
SubKeys[n \in 0..Levels] ==
  [c \in DOMAIN SubTree |->
     OwnKeys(SubTree[c]) \cup
     IF n = 0 THEN {}
     ELSE UNION {Moved(p, SubKeys[n - 1][SubTree[c][p].id]) : p \in Entered(SubTree[c], Declared(SubTree[c]))}]

\* CollectFiles on one more branch.  The files of a submodule replace the ones an
\* earlier branch had under the same key.  The modules of an earlier tree are kept
\* when this one has no .gitmodules.
CollectFiles(rw, tree, b) ==
  LET mods == IF IsFile(tree, GitModules) THEN Declared(tree) ELSE rw.mods
      subs == IF gitOpts.submodules THEN Entered(tree, mods) ELSE {}
      new == UNION {Moved(p, SubKeys[Levels][tree[p].id]) : p \in subs}
      kept == AddBranch(rw.files, OwnKeys(tree), b)
  IN [mods |-> mods,
      files |-> [k \in DOMAIN kept \cup new |-> IF k \in new THEN {b} ELSE kept[k]]]

\* prepareNormalBuild, with RepoCacheDir set if Submodules is: one walker for all
\* branches there are.
prepareNormalBuild(desc) ==
  LET walked[i \in 0..Len(desc)] ==
        IF i = 0 THEN [files |-> <<>>, mods |-> {}]
        ELSE CollectFiles(walked[i - 1], commits[desc[i].version], desc[i].name)
  IN walked[Len(desc)].files

-----------------------------------------------------------------------------
(* Delta builds.                                                           *)

\* DiffTreeWithOptions without renames: paths whose entries differ.
Diff(old, new) == {p \in DOMAIN old : old[p] # new[p]}

\* BranchNamesEqual: the bits of a branch mask are positions.
BranchNamesEqual(a, b) == Len(a) = Len(b) /\ \A i \in DOMAIN a : a[i].name = b[i].name

\* Why a delta build is not possible.  gone: a commit that is indexed is no
\* longer in the repository.
DeltaRefused(desc, hash, gone) ==
  \/ gitOpts.submodules
  \/ shards = <<>>
  \/ gitOpts.threshold > 0 /\ Len(shards) > gitOpts.threshold
  \/ ~BranchNamesEqual(shards[1].branches, desc)
  \/ hash # shards[1].hash
  \/ \E i \in DOMAIN expandBranches : refs[expandBranches[i]] = 0
  \/ gone
  \/ \E i \in DOMAIN desc :
       LET old == commits[shards[1].branches[i].version]  new == commits[desc[i].version]
       IN IgnoreFile \in Diff(old, new) /\ (IsFile(old, IgnoreFile) \/ IsFile(new, IgnoreFile))

\* Mutation: of a changed file only the branch it changed on is added again.
ReaddOwn(p, desc, b) ==
  {<<Key(<<>>, p, commits[refs[b]][p].id), b>> : c \in {x \in {b} : IsFile(commits[refs[x]], p)}}

\* All versions of a file that was modified or deleted on b, over all branches.
Readd(p, desc, b) ==
  {<<Key(<<>>, p, commits[refs[c]][p].id), c>> :
     c \in {x \in {desc[i].name : i \in DOMAIN desc} : IsFile(commits[refs[x]], p)}}

\* prepareDeltaBuild: the files to add and the paths to mark as dead.
prepareDeltaBuild(desc) ==
  LET Old(i) == commits[shards[1].branches[i].version]
      New(i) == commits[desc[i].version]
      dead(i) == {p \in Diff(Old(i), New(i)) : IsFile(Old(i), p)}
      added(i) == {<<Key(<<>>, p, New(i)[p].id), desc[i].name>> :
                     p \in {q \in Diff(Old(i), New(i)) : IsFile(New(i), q)}}
      all == UNION {added(i) \cup UNION {Readd(p, desc, desc[i].name) : p \in dead(i)} : i \in DOMAIN desc}
  IN [files |-> [k \in {x[1] : x \in all} |-> {x[2] : x \in {y \in all : y[1] = k}}],
      dead  |-> UNION {dead(i) : i \in DOMAIN desc}]

-----------------------------------------------------------------------------
(* indexGitRepo.                                                           *)

\* createDocument and prepareDocument: a file that is too large is there
\* by name only.
createDocument(key, branches) ==
  [name |-> FullPath(key), sub |-> key.sub, branches |-> branches,
   content |-> IF key.id \in Big /\ FullPath(key) \notin LargeFiles THEN TooLarge ELSE key.id]

Documents(files) == {createDocument(k, files[k]) : k \in DOMAIN files}

\* RepositoryDescription.Branches
Description ==
  LET names == Present(expandBranches)
  IN [i \in DOMAIN names |-> [name |-> names[i], version |-> getCommit(names[i])]]

NewShard(files, desc, hash) ==
  [docs |-> Documents(files), tombs |-> {}, branches |-> desc, hash |-> hash]

\* Finish of a delta build: the new shard beside the old ones, whose metadata
\* gets the dead paths and the new commits; no shard without documents.
Stacked(delta, desc, hash) ==
  LET Marked(s) == [s EXCEPT !.tombs = @ \cup {<<p>> : p \in delta.dead}, !.branches = desc]
      old == [i \in DOMAIN shards |-> Marked(shards[i])]
  IN IF delta.files = <<>> THEN old ELSE Append(old, NewShard(delta.files, desc, hash))

\* IncrementalSkipIndexing: IndexState looks at the first shard.
UpToDate(desc, hash) ==
  shards # <<>> /\ shards[1].hash = hash /\ shards[1].branches = desc

\* One call, for a repository with the options of this process and a hash of
\* the build options.  A branch that is missing is an error unless allowed.
IndexGitRepo(isDelta, hash, gone) ==
  LET desc == Description
  IN /\ builds < MaxBuilds /\ builds' = builds + 1
     /\ \A i \in DOMAIN expandBranches : refs[expandBranches[i]] # 0 \/ gitOpts.allowMissing
     /\ ~(gitOpts.incremental /\ UpToDate(desc, hash))
     /\ shards' = IF isDelta /\ ~DeltaRefused(desc, hash, gone)
                  THEN Stacked(prepareDeltaBuild(desc), desc, hash)
                  ELSE <<NewShard(prepareNormalBuild(desc), desc, hash)>>
     /\ UNCHANGED <<gitOpts, commits, refs>>

-----------------------------------------------------------------------------
(* The repository.                                                         *)

CommitTo(b, e) ==
  /\ Len(commits) < MaxCommits
  /\ refs[b] # 0
  /\ commits' = Append(commits, [commits[refs[b]] EXCEPT ![e.path] = e.entry])
  /\ refs' = [refs EXCEPT ![b] = Len(commits) + 1]
  /\ UNCHANGED <<gitOpts, shards, builds>>

\* A branch is created where another one is, set to where it is, or removed.
MoveBranch(b, v) ==
  /\ b # Branches[1]
  /\ v # refs[b]
  /\ refs' = [refs EXCEPT ![b] = v]
  /\ UNCHANGED <<gitOpts, commits, shards, builds>>

GitNext ==
  \/ \E b \in DOMAIN refs : \E e \in Edits : CommitTo(b, e)
  \/ \E b \in DOMAIN refs : \E v \in Range(refs) \cup {0} : MoveBranch(b, v)
  \/ \E isDelta, gone \in BOOLEAN, hash \in {1, 2} : IndexGitRepo(isDelta, hash, gone)

GitSpec == GitInit /\ [][GitNext]_gitVars

-----------------------------------------------------------------------------
(* What is to be found.                                                    *)

\* The live documents on a branch, each with its shard.
LiveOn(b) ==
  UNION {{<<i, d>> : d \in {x \in shards[i].docs : b \in x.branches /\ x.name \notin shards[i].tombs}} :
           i \in DOMAIN shards}

\* The tree in which one gets from tree t through submodules at the paths of sub,
\* which are at the commits cs, and whether one gets there.
TreeAt(t, cs) == IF cs = <<>> THEN t ELSE SubTree[cs[Len(cs)]]
Leads(t, sub, cs) ==
  \A n \in DOMAIN sub :
    LET u == IF n = 1 THEN t ELSE SubTree[cs[n - 1]]
    IN sub[n] \in DOMAIN u /\ u[sub[n]] = SubEntry(cs[n])
WaysTo(t, sub) == {cs \in [DOMAIN sub -> DOMAIN SubTree] : Leads(t, sub, cs)}

\* Each of these submodules is declared in the tree it is in.
AllDeclared(t, sub, cs) ==
  \A n \in DOMAIN sub : sub[n] \in Declared(IF n = 1 THEN t ELSE SubTree[cs[n - 1]])

\* Key k is a file in tree t that is not ignored.
IsThere(t, k) ==
  \E cs \in WaysTo(t, k.sub) : k \in {[o EXCEPT !.sub = k.sub] : o \in OwnKeys(TreeAt(t, cs))}

\* Paths of submodules.
Mounts == {e.path : e \in {x \in Edits : x.entry.k = "sub"}} \cup
          UNION {{p \in DOMAIN t : t[p].k = "sub"} : t \in {FirstTree} \cup Range(SubTree)}
SubPaths == UNION {[1..n -> Mounts] : n \in 1..Levels}

\* Document d is a file of tree t and has its content.
Correct(d, t) ==
  \E cs \in WaysTo(t, d.sub) :
    LET u == TreeAt(t, cs)
        p == Last(d.name)
    IN /\ d.name = Append(d.sub, p) /\ IsFile(u, p)
       /\ d.content = createDocument(Key(d.sub, p, u[p].id), d.branches).content
       /\ Len(shards) = 1 => p \notin Ignored(u)

\* Whatever normal and delta builds, branches that move and options that
\* change came before: on every branch, at the commit the shards say, each
\* file that is not ignored is found once, with the content it has there, and
\* nothing else is found; so is each file of a submodule that is declared and
\* in the cache.  Two exceptions: a delta build takes no notice of an
\* ignore file that did not change, and a file of a submodule that is the same
\* on several branches is found on the last of them only.
GitExact ==
  shards # <<>> =>
    LET desc == shards[1].branches
        Tree(i) == commits[desc[i].version]
    IN /\ \A i \in DOMAIN shards : shards[i].branches = desc /\ shards[i].hash = shards[1].hash
       /\ \A i \in DOMAIN desc :
            /\ \A x \in LiveOn(desc[i].name) :
                 /\ Correct(x[2], Tree(i))
                 /\ \A y \in LiveOn(desc[i].name) : x[2].name = y[2].name => x = y
            /\ \A p \in Files(Tree(i)) \ Ignored(Tree(i)) :
                 \E x \in LiveOn(desc[i].name) : x[2].name = <<p>>
            /\ gitOpts.submodules =>
                 \A sub \in SubPaths : \A cs \in WaysTo(Tree(i), sub) :
                   AllDeclared(Tree(i), sub, cs) =>
                     \A o \in OwnKeys(TreeAt(Tree(i), cs)) :
                       LET k == [o EXCEPT !.sub = sub]
                       IN (\A j \in (i + 1)..Len(desc) : ~IsThere(Tree(j), k))
                            => \E x \in LiveOn(desc[i].name) : x[2].name = FullPath(k)
=============================================================================
