---------------------------- MODULE ServedIndex ----------------------------
(***************************************************************************)
(* What the index directory promises to those who search it, with no file, *)
(* no compound shard, no tombstone and no merge in sight: which versions   *)
(* of each repository are searched and which are kept, and that only jobs, *)
(* cleanup and faults change it.                                           *)
(*                                                                         *)
(* For a repository that is lost (in two places, in part, or replaced by   *)
(* an older version) nothing is promised any more.                         *)
(***************************************************************************)
EXTENDS Naturals

CONSTANTS Repos, Versions,
          Bare  \* <<r, v>> if repository r has no documents at version v

VARIABLES
  served,    \* served[r]: the versions of r that are searched
  kept,      \* kept[r]: the versions in the trash and in compound shards, dead or not
  list,      \* the repositories Sourcegraph lists, as the sync loop knows them
  cleaning,  \* cleanup has the directory for itself
  faulty,    \* something has failed before
  lost,      \* the repositories nothing is promised for
  emptied    \* those of which a version without documents was dropped

indexVars == <<served, kept, list, cleaning, faulty, lost, emptied>>

ServedInit ==
  /\ served = [r \in Repos |-> {}] /\ kept = [r \in Repos |-> {}]
  /\ list = {} /\ cleaning = FALSE /\ faulty = FALSE /\ lost = {} /\ emptied = {}

\* No version is made up: what is searched or kept was so before.
Known(r) == served'[r] \cup kept'[r] \subseteq served[r] \cup kept[r]

\* What users find of the repositories other than those in R stays what it is.
OthersStay(R) == \A r \in Repos \ (R \cup lost') : served'[r] = served[r] /\ Known(r)

NoFault == faulty' = faulty

\* When cleanup is done, what is searched is listed, unless something has failed.
Tidy == ~cleaning' /\ ~faulty => \A r \in Repos \ (list \cup lost) : served'[r] = {}

\* A job publishes version v of r, beside or instead of what is there.
Index(r, v) ==
  /\ ~cleaning /\ OthersStay({r})
  /\ v \in served'[r] /\ served'[r] \subseteq served[r] \cup {v} /\ kept'[r] = kept[r]
  /\ lost' \in {lost, lost \cup {r}}
  /\ NoFault /\ UNCHANGED <<list, cleaning, emptied>>

\* It retires an older copy of r; another one stays.
Retire(r) ==
  /\ ~cleaning /\ OthersStay({r})
  /\ r \notin lost' => served'[r] # {} /\ served'[r] \subseteq served[r] /\ Known(r)
  /\ lost \subseteq lost'
  /\ NoFault /\ UNCHANGED <<list, cleaning, emptied>>

\* Merge, explode and vacuum: nobody notices, except that a version without documents, which
\* only a listing of the repositories shows, is dropped.
Optimise ==
  /\ ~cleaning /\ lost \subseteq lost' /\ emptied \subseteq emptied'
  /\ OthersStay(emptied')
  /\ \A r \in emptied' \ lost' :
       /\ served'[r] \subseteq served[r] /\ Known(r)
       /\ \A v \in served[r] \ served'[r] : <<r, v>> \in Bare
  /\ NoFault /\ UNCHANGED <<list, cleaning>>

List ==
  /\ ~cleaning /\ list' \in SUBSET Repos
  /\ UNCHANGED <<served, kept, cleaning, faulty, lost, emptied>>

\* cleanup begins: the repositories of which two versions are searched go.
StartCleanup ==
  /\ ~cleaning
  /\ \E R \in SUBSET {r \in Repos : \E v, w \in served[r] : v # w} :
       OthersStay(R) /\ \A r \in R \ lost : served'[r] = {} /\ Known(r)
  /\ Tidy /\ NoFault /\ UNCHANGED <<list, lost, emptied>>

\* It brings back a listed repository that is not searched, in its newest version.
Restore(r) ==
  /\ cleaning /\ r \in list /\ OthersStay({r})
  /\ r \notin lost => /\ served[r] = {} /\ served'[r] # {} /\ Known(r)
                      /\ ~faulty /\ r \notin emptied =>
                           \A v \in kept[r] : \E w \in served'[r] : w >= v
  /\ Tidy /\ NoFault /\ UNCHANGED <<list, lost, emptied>>

\* It takes one that is not listed out of the index, and keeps it.
Discard(r) ==
  /\ cleaning /\ r \notin list
  /\ r \notin lost => OthersStay({r}) /\ served'[r] = {} /\ served[r] \subseteq kept'[r] /\ Known(r)
  /\ r \in lost => \A q \in Repos \ lost : served'[q] \subseteq served[q] /\ Known(q)
  /\ Tidy /\ NoFault /\ UNCHANGED <<list, lost, emptied>>

\* It looks at one where nothing is to be done.
Pass == cleaning /\ OthersStay({}) /\ Tidy /\ NoFault /\ UNCHANGED <<list, lost, emptied>>

\* A step fails or the server dies: versions may go, but none comes.
Fault ==
  /\ faulty'
  /\ \A r \in Repos \ lost' : served'[r] \subseteq served[r] /\ Known(r)
  /\ lost \subseteq lost' /\ list' \in {list, {}} /\ emptied \subseteq emptied'

ServedNext ==
  \/ \E r \in Repos : Retire(r) \/ Restore(r) \/ Discard(r) \/ \E v \in Versions : Index(r, v)
  \/ Optimise \/ List \/ StartCleanup \/ Pass \/ Fault

ServedSpec == ServedInit /\ [][ServedNext]_indexVars
=============================================================================
