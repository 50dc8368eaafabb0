---------------------------- MODULE MCIndexQueue ----------------------------
(***************************************************************************)
(* IndexQueue for TLC, in two scopes: the whole queue with one worker and  *)
(* one version of the options, and one repository with two versions and    *)
(* two workers, which may report in the other order.                       *)
(***************************************************************************)
EXTENDS IndexQueue

VARIABLE scope  \* [repos, versions, workers]: what this behaviour is about

One(S) == {CHOOSE x \in S : TRUE}

Scopes == {[repos |-> Repos, versions |-> One(Versions), workers |-> One(Workers)],
           [repos |-> One(Repos), versions |-> Versions, workers |-> Workers]}

\* What is outside the scope stays as it was at the beginning.
Inside ==
  /\ known \subseteq scope.repos \cup {ZeroRepo}
  /\ removing = NotRemoving \/ removing \subseteq scope.repos
  /\ \A r \in Ids : /\ item[r].opts.ver \in scope.versions \cup {NoVersion}
                    /\ disk[r] # ZeroOpts => r \in scope.repos
                    /\ disk[r].ver \in scope.versions \cup {NoVersion, Mixed}
  /\ \A w \in Workers \ scope.workers : pc[w] = "idle"

MCInit == Init /\ scope \in Scopes
MCNext == Next /\ UNCHANGED scope /\ Inside'

\* Fairness, for the workers in scope.
MCFairness ==
  \A w \in Workers :
    /\ WF_vars(w \in scope.workers /\ PopTake(w))
    /\ WF_vars(w \in scope.workers /\ PopRead(w))
    /\ WF_vars(w \in scope.workers /\ \E ok \in BOOLEAN : Finish(w, ok))

MCSpec == MCInit /\ [][MCNext]_<<vars, scope>> /\ MCFairness
=============================================================================
