---------------------------- MODULE IndexerProofs ----------------------------
(***************************************************************************)
(* What indexers hand to a builder: InputPipeline for any number of files  *)
(* and readers and any sizes; GitIndex for any trees, branches, commits    *)
(* and submodules.                                                         *)
(***************************************************************************)
EXTENDS InputPipeline, GitIndex, FiniteSetTheorems, TLAPS

-----------------------------------------------------------------------------
(* The input pipeline.                                                     *)

\* The caller still takes files from ordered.
Live == committer \in {"take", "await"}

\* How many files the caller has taken.
Taken == IF committer = "await" THEN Len(committed) + 1 ELSE Len(committed)

Ending == {"closeOrdered", "closeJobs", "exited"}

\* The types of what decides the order.
OrderType ==
  /\ next \in 1 .. N + 1 /\ committed \in Seq(Nat) /\ ordered \in Seq(Nat) /\ task \in Nat
  /\ walker \in {"walk", "window", "budget", "send", "order"} \union Ending
  /\ walker \in {"window", "budget", "send", "order"} => next <= N

\* What is committed, the task of the caller, what is in the channel and what the walk is
\* at are consecutive.
Consecutive ==
  /\ \A i \in 1 .. Len(committed) : committed[i] = i
  /\ committer = "await" => task = Len(committed) + 1
  /\ Live => /\ \A i \in 1 .. Len(ordered) : ordered[i] = Taken + i
             /\ next = Taken + Len(ordered) + 1

\* A walk that ends without an error has seen all files, and a caller that stops without
\* one has committed them.
AllSeen ==
  /\ walker \in Ending /\ cause = "none" => next = N + 1
  /\ orderedClosed => walker \in Ending
  /\ ~Live /\ result = "none" => Len(committed) = N

IInv == OrderType /\ Consecutive /\ AllSeen

LEMMA InitInv == Init => IInv
<1> SUFFICES ASSUME Init PROVE IInv
  OBVIOUS
<1>1. OrderType
  BY PipelineAssumption DEF Init, OrderType, NoTask
<1>2. Consecutive
  BY DEF Init, Consecutive, Live, Taken
<1>3. AllSeen
  BY DEF Init, AllSeen, Live, Ending
<1> QED
  BY <1>1, <1>2, <1>3 DEF IInv

LEMMA NextInv ==
  ASSUME IInv, [Next]_vars
  PROVE  IInv'
<1> USE PipelineAssumption DEF IInv
<1>0. ASSUME UNCHANGED <<next, committed, ordered, task, walker, committer, cause, orderedClosed, result>>
      PROVE  IInv'
  BY <1>0 DEF OrderType, Consecutive, AllSeen, Live, Taken
\* The walk moves on.
<1>w. ASSUME UNCHANGED <<next, committed, ordered, task, committer, orderedClosed, result>>,
             walker \notin Ending, cause = "none" => cause' = "none" \/ walker' \in Ending,
             \/ walker' \in {"window", "budget", "send", "order"} /\ next <= N
             \/ walker' = "closeOrdered" /\ (cause' # "none" \/ next = N + 1)
      PROVE  IInv'
  <2>1. OrderType'
    BY <1>w DEF OrderType, Ending
  <2>2. Consecutive'
    BY <1>w DEF Consecutive, Live, Taken
  <2>3. AllSeen'
    BY <1>w DEF AllSeen, Live, Ending, OrderType
  <2> QED
    BY <2>1, <2>2, <2>3
<1>1. CASE Visit
  BY <1>1, <1>w DEF Visit, Cancelled, commitVars, Ending
<1>2. CASE WalkDone
  <2>1. next = N + 1
    BY <1>2 DEF WalkDone, OrderType
  <2> QED
    BY <1>2, <1>w, <2>1 DEF WalkDone, commitVars, Ending
<1>3. CASE WalkFails
  BY <1>3, <1>w DEF WalkFails, Cancel, Cancelled, commitVars, Ending
<1>4. CASE EnterWindow \/ AcquireBudget \/ \E w \in Workers : SendJob(w)
  <2>1. walker \in {"window", "budget", "send"} /\ next <= N
    BY <1>4 DEF EnterWindow, AcquireBudget, SendJob, OrderType
  <2> QED
    BY <1>4, <1>w, <2>1 DEF EnterWindow, AcquireBudget, SendJob, commitVars, Ending
<1>5. CASE WalkStops
  BY <1>5, <1>w DEF WalkStops, Cancelled, commitVars, Ending
<1>6. CASE SendOrdered
  <2>1. next \in Nat /\ next <= N /\ ordered' = Append(ordered, next) /\ next' = next + 1 /\ walker' = "walk"
        /\ walker = "order" /\ UNCHANGED <<committed, task, committer, result, cause, orderedClosed>>
    BY <1>6 DEF SendOrdered, OrderType, commitVars
  <2>2. OrderType'
    BY <2>1 DEF OrderType, Ending
  <2>3. Consecutive'
    <3>1. ordered \in Seq(Nat) /\ committed \in Seq(Nat)
      BY DEF OrderType
    <3>2. UNCHANGED <<Live, Taken>>
      BY <2>1 DEF Live, Taken
    <3>a. Taken \in Nat
      BY <3>1 DEF Taken
    <3>b. Live => (\A i \in 1 .. Len(ordered) : ordered[i] = Taken + i) /\ next = Taken + Len(ordered) + 1
      BY DEF Consecutive
    <3>c. /\ Len(ordered') = Len(ordered) + 1 /\ ordered'[Len(ordered) + 1] = next
          /\ \A i \in 1 .. Len(ordered) : ordered'[i] = ordered[i]
      BY <2>1, <3>1
    <3>3. ASSUME Live PROVE \A i \in 1 .. Len(ordered') : ordered'[i] = Taken + i
      <4>1. SUFFICES ASSUME NEW i \in 1 .. Len(ordered') PROVE ordered'[i] = Taken + i
        OBVIOUS
      <4>2. CASE i = Len(ordered) + 1
        BY <2>1, <3>3, <3>a, <3>b, <3>c, <4>2
      <4>3. CASE i # Len(ordered) + 1
        <5>1. i \in 1 .. Len(ordered)
          BY <3>1, <3>c, <4>3
        <5> QED
          BY <3>3, <3>b, <3>c, <5>1
      <4> QED
        BY <4>2, <4>3
    <3>4. Live => next' = Taken + Len(ordered') + 1
      BY <2>1, <3>1, <3>a, <3>b
    <3> QED
      BY <2>1, <3>2, <3>3, <3>4 DEF Consecutive
  <2>4. AllSeen'
    BY <2>1 DEF AllSeen, Live, Ending
  <2> QED
    BY <2>2, <2>3, <2>4
<1>7. CASE Close
  <2>1. UNCHANGED <<next, committed, ordered, task, committer, cause, result>>
        /\ walker \in Ending /\ walker' \in Ending
    BY <1>7 DEF Close, commitVars, Ending
  <2>2. OrderType'
    BY <2>1 DEF OrderType, Ending
  <2>3. Consecutive'
    BY <2>1 DEF Consecutive, Live, Taken
  <2>4. AllSeen'
    BY <2>1 DEF AllSeen, Live
  <2> QED
    BY <2>2, <2>3, <2>4
\* The readers and the progress report only cancel.
<1>8. ASSUME NEW w \in Workers, Work(w) \/ ReadFails(w) \/ TickerExits PROVE IInv'
  <2>1. UNCHANGED <<next, committed, ordered, task, walker, committer, orderedClosed, result>>
    BY <1>8 DEF Work, Prepare, WorkerExits, ReadFails, TickerExits, walkVars, commitVars
  <2>2. cause' = "none" => cause = "none"
    BY <1>8 DEF Work, Prepare, WorkerExits, ReadFails, TickerExits, Cancel, Cancelled
  <2> QED
    BY <2>1, <2>2 DEF OrderType, Consecutive, AllSeen, Live, Taken
<1>9. CASE TakeOrdered
  <2>1. /\ committer = "take" /\ ordered # <<>> /\ task' = Head(ordered) /\ ordered' = Tail(ordered)
        /\ committer' = "await" /\ UNCHANGED <<next, committed, walker, cause, orderedClosed, result>>
    BY <1>9 DEF TakeOrdered, walkVars
  <2>2. ordered \in Seq(Nat) /\ committed \in Seq(Nat) /\ Len(ordered) \in Nat \ {0}
    BY <2>1 DEF OrderType
  <2>3. /\ \A i \in 1 .. Len(ordered) : ordered[i] = Len(committed) + i
        /\ next = Len(committed) + Len(ordered) + 1
    BY <2>1 DEF Consecutive, Live, Taken
  <2>4. task' = ordered[1] /\ task' = Len(committed) + 1
    BY <2>1, <2>2, <2>3
  <2>5. /\ \A i \in 1 .. Len(ordered') : ordered'[i] = Len(committed) + 1 + i
        /\ next = Len(committed) + 1 + Len(ordered') + 1
    BY <2>1, <2>2, <2>3
  <2>6. OrderType'
    BY <2>1, <2>2, <2>4 DEF OrderType
  <2>7. Consecutive'
    BY <2>1, <2>4, <2>5 DEF Consecutive, Live, Taken
  <2>8. AllSeen'
    BY <2>1 DEF AllSeen, Live
  <2> QED
    BY <2>6, <2>7, <2>8
<1>10. CASE Commit(TRUE)
  <2>1. /\ committer = "await" /\ committed' = Append(committed, task) /\ committer' = "take" /\ task' = 0
        /\ UNCHANGED <<next, ordered, walker, cause, orderedClosed, result>>
    BY <1>10 DEF Commit, walkVars, NoTask
  <2>2. committed \in Seq(Nat) /\ task = Len(committed) + 1 /\ Len(committed') = Len(committed) + 1
    BY <2>1 DEF OrderType, Consecutive
  <2>3. \A i \in 1 .. Len(committed') : committed'[i] = i
    BY <2>1, <2>2 DEF Consecutive
  <2>4. OrderType'
    BY <2>1, <2>2 DEF OrderType
  <2>5. Consecutive'
    BY <2>1, <2>2, <2>3 DEF Consecutive, Live, Taken
  <2>6. AllSeen'
    BY <2>1 DEF AllSeen, Live
  <2> QED
    BY <2>4, <2>5, <2>6
\* From here on nothing is committed.
<1>s. ASSUME UNCHANGED <<next, committed, ordered, walker, orderedClosed>>, task' \in Nat,
             cause' = "none" => cause = "none",
             committer' \in {"cancel", "wait", "returned"},
             result' = "none" => Len(committed) = N
      PROVE  IInv'
  BY <1>s DEF OrderType, Consecutive, AllSeen, Live
<1>11. CASE Commit(FALSE)
  BY <1>11, <1>s DEF Commit, walkVars, NoTask
<1>12. CASE Stop
  <2>1. /\ UNCHANGED <<next, committed, ordered, walker, orderedClosed, task, cause>>
        /\ committer' = "cancel" /\ result' = cause
    BY <1>12 DEF Stop, walkVars
  <2>2. ASSUME cause = "none" PROVE Len(committed) = N
    <3>1. committer = "take" /\ Len(ordered) = 0 /\ walker \in Ending
      BY <1>12, <2>2 DEF Stop, Cancelled, AllSeen
    <3>2. next = Len(committed) + 1 /\ next = N + 1
      BY <2>2, <3>1 DEF Consecutive, AllSeen, Live, Taken, OrderType
    <3> QED
      BY <3>2 DEF OrderType
  <2> QED
    BY <1>s, <2>1, <2>2 DEF OrderType
<1>13. CASE CancelAll \/ Join
  <2>1. /\ UNCHANGED <<next, committed, ordered, walker, orderedClosed, task, result>>
        /\ committer \in {"cancel", "wait"} /\ committer' \in {"wait", "returned"}
        /\ (cause' = "none" => cause = "none")
    BY <1>13 DEF CancelAll, Join, Cancel, Cancelled, walkVars
  <2> QED
    BY <1>s, <2>1 DEF OrderType, AllSeen, Live
<1>14. CASE UNCHANGED vars
  BY <1>14, <1>0 DEF vars, walkVars, commitVars
<1>15. ASSUME NEW w \in Workers, Work(w) \/ ReadFails(w) PROVE IInv'
  BY <1>8, <1>15
<1>16. CASE TickerExits
  BY <1>8, <1>16
<1> QED
  BY <1>1, <1>2, <1>3, <1>4, <1>5, <1>6, <1>7, <1>9, <1>10, <1>11, <1>12, <1>13, <1>14, <1>15, <1>16
     DEF Next, Walk, Caller

LEMMA Inductive == Spec => []IInv
  BY InitInv, NextInv, PTL DEF Spec

\* The caller commits the files in the order of the walk, each once, for any number of
\* files and readers and whatever fails.
THEOREM OrderCorrect == Spec => []InOrder
<1>1. IInv => InOrder
  BY DEF IInv, OrderType, Consecutive, InOrder
<1> QED
  BY <1>1, Inductive, PTL

\* streamPreparedFiles returns nil only when every file the walk found is committed.
THEOREM NilCorrect == Spec => []NilMeansAll
<1>1. IInv => NilMeansAll
  BY DEF IInv, AllSeen, Live, NilMeansAll
<1> QED
  BY <1>1, Inductive, PTL

\* Both promises of streamPreparedFiles together.
THEOREM CommitsCorrect == Spec => []CommitsAll
<1>1. InOrder /\ NilMeansAll => CommitsAll
  BY DEF CommitsAll
<1> QED
  BY OrderCorrect, NilCorrect, <1>1, PTL

-----------------------------------------------------------------------------
(* Sums over finite sets.                                                  *)

\* A set that contains a set of tasks as soon as it contains all smaller ones contains all:
\* what budget adds up, one task at a time, is well defined.
LEMMA SubsetInduction ==
  ASSUME NEW D, IsFiniteSet(D), NEW P,
         \A S \in SUBSET D : (\A T \in SUBSET S : T # S => T \in P) => S \in P
  PROVE  SUBSET D \subseteq P
<1> DEFINE Bad == {S \in SUBSET D : S \notin P}
<1> SUFFICES ASSUME Bad # {} PROVE FALSE
  OBVIOUS
<1>1. Bad \subseteq FiniteSubsetsOf(D)
  BY FS_Subset DEF FiniteSubsetsOf
<1>2. PICK S \in Bad : \A T \in Bad : <<T, S>> \notin StrictSubsetOrdering(D)
  <2> HIDE DEF Bad
  <2> QED
    BY <1>1, FS_StrictSubsetOrderingWellFounded, WFMin
<1>3. ASSUME NEW T \in SUBSET S, T # S PROVE T \in P
  <2>1. T \in SUBSET D
    OBVIOUS
  <2>2. T \in Bad => <<T, S>> \in StrictSubsetOrdering(D)
    BY <1>3, <2>1 DEF StrictSubsetOrdering
  <2> QED
    BY <1>2, <2>1, <2>2
<1> QED
  BY <1>3

\* One round of the sum: a first element of U, and g of the others.
Adding(f, g, U) ==
  IF U = {} THEN 0 ELSE f[CHOOSE t \in U : TRUE] + g[U \ {CHOOSE t \in U : TRUE}]

\* g sums f on the subsets of S.
Sums(f, g, S) == g = [U \in SUBSET S |-> Adding(f, g, U)]

\* The operator of the module Functions in these words.
LEMMA SumIs ==
  ASSUME NEW f, NEW S
  PROVE  SumFunctionOnSet(f, S) = (CHOOSE g : Sums(f, g, S))[S]
BY DEF SumFunctionOnSet, FoldFunctionOnSet, MapThenFoldSet, Sums, Adding

\* Two functions that sum f agree where both are defined.
LEMMA SumsUnique ==
  ASSUME NEW f, NEW S, NEW T \in SUBSET S, IsFiniteSet(T), NEW g, NEW h, Sums(f, g, S), Sums(f, h, T)
  PROVE  \A U \in SUBSET T : g[U] = h[U]
<1> DEFINE P == {U \in SUBSET T : g[U] = h[U]}
<1>1. ASSUME NEW U \in SUBSET T, \A V \in SUBSET U : V # U => V \in P
      PROVE  U \in P
  <2>1. g[U] = Adding(f, g, U) /\ h[U] = Adding(f, h, U)
    BY DEF Sums
  <2>2. CASE U = {}
    BY <2>1, <2>2 DEF Adding
  <2>3. CASE U # {}
    <3>1. PICK x \in U : x = CHOOSE t \in U : TRUE
      BY <2>3
    <3>2. U \ {x} \in P
      BY <1>1
    <3>3. g[U \ {x}] = h[U \ {x}]
      BY <3>2
    <3> QED
      BY <2>1, <2>3, <3>1, <3>3 DEF Adding
  <2> QED
    BY <2>2, <2>3
<1>2. SUBSET T \subseteq P
  <2> HIDE DEF P
  <2> QED
    BY <1>1, SubsetInduction
<1> QED
  BY <1>2

\* A function sums f on the subsets of any finite set.
LEMMA SumsExist ==
  ASSUME NEW f, NEW D, IsFiniteSet(D)
  PROVE  \E g : Sums(f, g, D)
<1> DEFINE P == {S \in SUBSET D : \E g : Sums(f, g, S)}
           Sum(S) == (CHOOSE g : Sums(f, g, S))[S]
<1>1. ASSUME NEW S \in SUBSET D, \A T \in SUBSET S : T # S => T \in P
      PROVE  S \in P
  <2> DEFINE g == [U \in SUBSET S |-> IF U = {} THEN 0
                                      ELSE f[CHOOSE t \in U : TRUE] + Sum(U \ {CHOOSE t \in U : TRUE})]
  <2>1. ASSUME NEW V \in SUBSET S, V # S PROVE g[V] = Sum(V)
    <3>1. PICK h : h = CHOOSE e : Sums(f, e, V)
      OBVIOUS
    <3>2. Sums(f, h, V)
      BY <1>1, <2>1, <3>1
    <3>3. h[V] = Adding(f, h, V)
      BY <3>2 DEF Sums
    <3>4. CASE V = {}
      BY <3>1, <3>3, <3>4 DEF Adding
    <3>5. CASE V # {}
      <4>1. PICK x \in V : x = CHOOSE t \in V : TRUE
        BY <3>5
      <4>2. PICK W \in SUBSET V : W = V \ {x}
        OBVIOUS
      <4>3. W \in SUBSET S /\ W # S /\ IsFiniteSet(W)
        BY <4>2, FS_Subset
      <4>4. PICK e : e = CHOOSE d : Sums(f, d, W)
        OBVIOUS
      <4>5. Sums(f, e, W)
        BY <1>1, <4>3, <4>4
      <4>6. h[W] = e[W]
        BY <3>2, <4>3, <4>5, SumsUnique
      <4>7. h[V] = f[x] + Sum(W)
        BY <3>3, <3>5, <4>1, <4>2, <4>4, <4>6 DEF Adding
      <4>8. g[V] = f[x] + Sum(W)
        BY <3>5, <4>1, <4>2
      <4> QED
        BY <3>1, <4>7, <4>8
    <3> QED
      BY <3>4, <3>5
  <2>2. ASSUME NEW U \in SUBSET S PROVE g[U] = Adding(f, g, U)
    <3>1. CASE U = {}
      BY <3>1 DEF Adding
    <3>2. CASE U # {}
      <4>1. PICK x \in U : x = CHOOSE t \in U : TRUE
        BY <3>2
      <4>2. PICK V \in SUBSET S : V = U \ {x}
        OBVIOUS
      <4>3. g[V] = Sum(V)
        BY <2>1, <4>2
      <4>4. g[U] = f[x] + Sum(V)
        BY <3>2, <4>1, <4>2
      <4> HIDE DEF g
      <4> QED
        BY <3>2, <4>1, <4>2, <4>3, <4>4 DEF Adding
    <3> QED
      BY <3>1, <3>2
  <2>3. \E e : e = [U \in SUBSET S |-> Adding(f, e, U)]
    <3>1. g = [U \in SUBSET S |-> g[U]]
      OBVIOUS
    <3> HIDE DEF g
    <3>2. g = [U \in SUBSET S |-> Adding(f, g, U)]
      BY <2>2, <3>1
    <3> QED
      BY <3>2
  <2> QED
    BY <2>3 DEF Sums
<1>2. SUBSET D \subseteq P
  <2> HIDE DEF P
  <2> QED
    BY <1>1, SubsetInduction
<1> QED
  BY <1>2

\* The sum takes an element and goes on with the others.
LEMMA SumUnfold ==
  ASSUME NEW f, NEW S, IsFiniteSet(S)
  PROVE  /\ S = {} => SumFunctionOnSet(f, S) = 0
         /\ S # {} => LET x == CHOOSE t \in S : TRUE
                      IN SumFunctionOnSet(f, S) = f[x] + SumFunctionOnSet(f, S \ {x})
<1>1. PICK g : g = CHOOSE e : Sums(f, e, S)
  OBVIOUS
<1>2. Sums(f, g, S) /\ SumFunctionOnSet(f, S) = g[S]
  BY <1>1, SumsExist, SumIs
<1>3. g[S] = Adding(f, g, S)
  BY <1>2 DEF Sums
<1>4. CASE S = {}
  BY <1>2, <1>3, <1>4 DEF Adding
<1>5. CASE S # {}
  <2>1. PICK x \in S : x = CHOOSE t \in S : TRUE
    BY <1>5
  <2>2. PICK T \in SUBSET S : T = S \ {x}
    OBVIOUS
  <2>3. IsFiniteSet(T)
    BY FS_Subset
  <2>4. PICK h : h = CHOOSE e : Sums(f, e, T)
    OBVIOUS
  <2>5. Sums(f, h, T) /\ SumFunctionOnSet(f, T) = h[T]
    BY <2>3, <2>4, SumsExist, SumIs
  <2>6. g[T] = h[T]
    BY <1>2, <2>3, <2>5, SumsUnique
  <2> QED
    BY <1>2, <1>3, <1>5, <2>1, <2>2, <2>5, <2>6 DEF Adding
<1> QED
  BY <1>4, <1>5

\* A sum of natural numbers is one.
LEMMA SumType ==
  ASSUME NEW D, IsFiniteSet(D), NEW f \in [D -> Nat], NEW S \in SUBSET D
  PROVE  SumFunctionOnSet(f, S) \in Nat
<1> DEFINE P == {T \in SUBSET D : SumFunctionOnSet(f, T) \in Nat}
<1>1. ASSUME NEW T \in SUBSET D, \A U \in SUBSET T : U # T => U \in P
      PROVE  T \in P
  <2>1. IsFiniteSet(T)
    BY FS_Subset
  <2>2. CASE T = {}
    <3>1. SumFunctionOnSet(f, T) = 0
      BY <2>1, <2>2, SumUnfold
    <3> QED
      BY <3>1
  <2>3. CASE T # {}
    <3>1. PICK x \in T : x = CHOOSE t \in T : TRUE
      BY <2>3
    <3>2. T \ {x} \in P /\ f[x] \in Nat
      BY <1>1
    <3>3. SumFunctionOnSet(f, T) = f[x] + SumFunctionOnSet(f, T \ {x})
      BY <2>1, <2>3, <3>1, SumUnfold
    <3> QED
      BY <3>2, <3>3
  <2> QED
    BY <2>2, <2>3
<1>2. SUBSET D \subseteq P
  <2> HIDE DEF P
  <2> QED
    BY <1>1, SubsetInduction
<1> QED
  BY <1>2

\* budget.Release: any element may be taken out, not only the first one.
LEMMA SumRemove ==
  ASSUME NEW D, IsFiniteSet(D), NEW f \in [D -> Nat], NEW S \in SUBSET D, NEW y \in S
  PROVE  SumFunctionOnSet(f, S) = f[y] + SumFunctionOnSet(f, S \ {y})
<1> DEFINE Sum(T) == SumFunctionOnSet(f, T)
           P == {T \in SUBSET D : \A z \in T : Sum(T) = f[z] + Sum(T \ {z})}
<1>1. ASSUME NEW T \in SUBSET D, \A U \in SUBSET T : U # T => U \in P
      PROVE  T \in P
  <2> SUFFICES ASSUME NEW z \in T PROVE Sum(T) = f[z] + Sum(T \ {z})
    OBVIOUS
  <2>1. IsFiniteSet(T)
    BY FS_Subset
  <2>2. PICK x \in T : x = CHOOSE t \in T : TRUE
    OBVIOUS
  <2>3. Sum(T) = f[x] + Sum(T \ {x})
    BY <2>1, <2>2, SumUnfold
  <2>4. CASE z = x
    BY <2>3, <2>4
  <2>5. CASE z # x
    <3>1. PICK U \in SUBSET D : U = (T \ {x}) \ {z}
      OBVIOUS
    <3>2. U = (T \ {z}) \ {x}
      BY <3>1
    <3>3. T \ {x} \in P /\ T \ {z} \in P /\ z \in T \ {x} /\ x \in T \ {z}
      BY <1>1, <2>5
    <3>4. Sum(T \ {x}) = f[z] + Sum(U) /\ Sum(T \ {z}) = f[x] + Sum(U)
      BY <3>1, <3>2, <3>3
    <3>5. Sum(U) \in Nat /\ f[x] \in Nat /\ f[z] \in Nat
      BY SumType
    <3> HIDE DEF Sum
    <3> QED
      BY <2>3, <3>4, <3>5
  <2> QED
    BY <2>4, <2>5
<1>2. SUBSET D \subseteq P
  <2> HIDE DEF P
  <2> QED
    BY <1>1, SubsetInduction
<1> QED
  BY <1>2

\* budget.Acquire: an element is added.
LEMMA SumAdd ==
  ASSUME NEW D, IsFiniteSet(D), NEW f \in [D -> Nat], NEW S \in SUBSET D, NEW y \in D \ S
  PROVE  SumFunctionOnSet(f, S \union {y}) = SumFunctionOnSet(f, S) + f[y]
<1>1. PICK T \in SUBSET D : T = S \union {y}
  OBVIOUS
<1>2. y \in T /\ T \ {y} = S
  BY <1>1
<1>3. SumFunctionOnSet(f, T) = f[y] + SumFunctionOnSet(f, S)
  BY <1>2, SumRemove
<1>4. SumFunctionOnSet(f, S) \in Nat /\ f[y] \in Nat
  BY SumType
<1> QED
  BY <1>1, <1>3, <1>4

\* More elements, and none of them smaller: files against what they reserved.
LEMMA SumGrows ==
  ASSUME NEW D, IsFiniteSet(D), NEW f \in [D -> Nat], NEW g \in [D -> Nat],
         NEW S \in SUBSET D, NEW T \in SUBSET S, \A t \in T : f[t] <= g[t]
  PROVE  SumFunctionOnSet(f, T) <= SumFunctionOnSet(g, S)
<1> DEFINE P == {U \in SUBSET T : \A V \in SUBSET S : U \subseteq V => SumFunctionOnSet(f, U) <= SumFunctionOnSet(g, V)}
<1>0. IsFiniteSet(T)
  BY FS_Subset
<1>1. ASSUME NEW U \in SUBSET T, \A W \in SUBSET U : W # U => W \in P
      PROVE  U \in P
  <2> SUFFICES ASSUME NEW V \in SUBSET S, U \subseteq V PROVE SumFunctionOnSet(f, U) <= SumFunctionOnSet(g, V)
    OBVIOUS
  <2>1. CASE U = {}
    <3>1. SumFunctionOnSet(f, U) = 0
      BY <2>1, SumUnfold, FS_EmptySet
    <3>2. SumFunctionOnSet(g, V) \in Nat
      BY SumType
    <3> QED
      BY <3>1, <3>2
  <2>2. CASE U # {}
    <3>1. PICK x \in U : TRUE
      BY <2>2
    <3>2. PICK A \in SUBSET U : A = U \ {x}
      OBVIOUS
    <3>3. PICK B \in SUBSET S : B = V \ {x}
      OBVIOUS
    <3>4. A \in P /\ A \subseteq B
      BY <1>1, <3>1, <3>2, <3>3
    <3>5. SumFunctionOnSet(f, A) <= SumFunctionOnSet(g, B)
      BY <3>4
    <3>6. U \in SUBSET D /\ V \in SUBSET D /\ A \in SUBSET D /\ B \in SUBSET D /\ x \in V /\ x \in T /\ x \in D
      OBVIOUS
    <3>7. SumFunctionOnSet(f, U) = f[x] + SumFunctionOnSet(f, A)
      BY <3>2, <3>6, SumRemove
    <3>8. SumFunctionOnSet(g, V) = g[x] + SumFunctionOnSet(g, B)
      BY <3>3, <3>6, SumRemove
    <3>9. SumFunctionOnSet(f, A) \in Nat /\ SumFunctionOnSet(g, B) \in Nat /\ f[x] \in Nat /\ g[x] \in Nat /\ f[x] <= g[x]
      BY <3>6, SumType
    <3> QED
      BY <3>5, <3>7, <3>8, <3>9
  <2> QED
    BY <2>1, <2>2
<1>2. SUBSET T \subseteq P
  <2> HIDE DEF P
  <2> QED
    BY <1>0, <1>1, SubsetInduction
<1> QED
  BY <1>2

-----------------------------------------------------------------------------
(* The window and the budget.                                              *)

\* What each file takes from the budget.
Weights == [t \in Tasks |-> Weight(t)]

\* Each file that holds budget holds a place in the window; so does the walk while it waits
\* for budget.
Places ==
  /\ window <= 2 * Cardinality(workers)
  /\ Cardinality(flight) <= window
  /\ walker = "budget" => Cardinality(flight) + 1 <= window

\* The files that hold budget have been sent or are about to be; and what the walk sends,
\* the channel has and the caller waits for holds budget.
Holders ==
  /\ \A t \in flight : t < next \/ (t = next /\ walker \in {"send", "order"} \union Ending)
  /\ walker \in {"send", "order"} => next \in flight
  /\ Live => \A i \in 1 .. Len(ordered) : ordered[i] \in flight
  /\ committer = "await" => task \in flight

\* The budget is what its holders have taken.
Account ==
  /\ used = SumFunctionOnSet(Weights, flight)
  /\ used <= Bytes

BInv == TypeOK /\ Places /\ Holders /\ Account

\* Every file takes at least one byte and at most the whole budget.
LEMMA WeightsType ==
  ASSUME TypeOK
  PROVE  /\ Weights \in [Tasks -> Nat]
         /\ \A t \in Tasks : Weights[t] = Weight(t) /\ Weight(t) >= 1 /\ Weight(t) <= Bytes
<1>1. file \in [1 .. N -> [size : Nat, allowed : BOOLEAN]] /\ Bytes \in Nat \ {0} /\ SizeMax \in Nat
  BY PipelineAssumption DEF TypeOK
<1>2. ASSUME NEW t \in Tasks PROVE Weight(t) \in Nat /\ Weight(t) >= 1 /\ Weight(t) <= Bytes
  <2>1. PICK z \in Nat : z = file[t].size
    BY <1>1 DEF Tasks
  <2> QED
    BY <1>1, <2>1 DEF Weight, Least, Most
<1> QED
  BY <1>2 DEF Weights

\* There are finitely many files, and finitely many readers.
LEMMA Finite ==
  /\ IsFiniteSet(Tasks)
  /\ \A S \in SUBSET Tasks : IsFiniteSet(S) /\ Cardinality(S) \in Nat
  /\ \A W \in SUBSET Workers : IsFiniteSet(W) /\ Cardinality(W) \in Nat
<1>1. IsFiniteSet(Tasks)
  BY PipelineAssumption, FS_Interval DEF Tasks
<1> QED
  BY <1>1, PipelineAssumption, FS_Subset, FS_CardinalityType

LEMMA InitBuffer == Init => BInv
<1> SUFFICES ASSUME Init PROVE BInv
  OBVIOUS
<1>1. TypeOK
  <2>1. next \in 1 .. N + 1
    BY PipelineAssumption DEF Init
  <2>2. worker \in [Workers -> Tasks \union {Idle, Exited}]
    BY DEF Init
  <2>3. /\ workers \in SUBSET Workers /\ file \in Walks /\ window = 0 /\ used = 0
        /\ ordered = <<>> /\ committed = <<>> /\ orderedClosed = FALSE /\ jobsClosed = FALSE
        /\ ready = {} /\ flight = {}
    BY DEF Init
  <2>4. /\ walker = "walk" /\ task = NoTask /\ committer = "take" /\ cause = "none" /\ result = "none"
        /\ ticker \in BOOLEAN
    BY DEF Init
  <2>5. window \in Nat /\ used \in Nat /\ ordered \in Seq(Tasks) /\ committed \in Seq(Tasks)
    BY <2>3
  <2>6. ready \subseteq Tasks /\ flight \subseteq Tasks /\ orderedClosed \in BOOLEAN /\ jobsClosed \in BOOLEAN
    BY <2>3
  <2> QED
    BY <2>1, <2>2, <2>3, <2>4, <2>5, <2>6 DEF TypeOK
<1>2. flight = {} /\ window = 0 /\ used = 0 /\ Cardinality(flight) = 0 /\ Cardinality(workers) \in Nat
  BY Finite, FS_EmptySet DEF Init
<1>3. Places
  BY <1>2 DEF Places, Init
<1>4. Holders
  BY <1>2 DEF Holders, Init
<1>5. SumFunctionOnSet(Weights, flight) = 0
  BY <1>2, SumUnfold, FS_EmptySet
<1>6. Account
  BY <1>2, <1>5, PipelineAssumption DEF Account
<1> QED
  BY <1>1, <1>3, <1>4, <1>6 DEF BInv

\* A step that takes nothing from the budget and gives nothing back leaves the account.
LEMMA KeepAccount ==
  ASSUME Account, UNCHANGED <<file, used, flight>>
  PROVE  Account'
<1>1. Weights' = Weights
  BY DEF Weights, Weight, Skipped
<1>2. SumFunctionOnSet(Weights, flight)' = SumFunctionOnSet(Weights', flight')
  OBVIOUS
<1> QED
  BY <1>1, <1>2 DEF Account

LEMMA NextBuffer ==
  ASSUME IInv, BInv, [Next]_vars
  PROVE  BInv'
<1> USE PipelineAssumption DEF BInv
<1> DEFINE C == Cardinality(flight)
           W == Cardinality(workers)
<1>0. /\ C \in Nat /\ W \in Nat /\ window \in Nat /\ used \in Nat
      /\ next \in 1 .. N + 1 /\ ordered \in Seq(Tasks) /\ committed \in Seq(Tasks)
      /\ window <= 2 * W /\ C <= window /\ (walker = "budget" => C + 1 <= window)
  BY Finite DEF TypeOK, Places
\* The walk moves on, without a new file in flight.
<1>w. ASSUME UNCHANGED <<argVars, next, window, used, worker, ordered, ready, commitVars, ticker, flight>>,
             walker' \in {"walk", "window", "budget", "send", "order"} \union Ending,
             walker' \in {"budget", "send", "order"} => walker' = walker,
             walker \in Ending => walker' \in Ending,
             walker \in {"send", "order"} => walker' \in {"send", "order"} \union Ending,
             orderedClosed' \in BOOLEAN, jobsClosed' \in BOOLEAN,
             cause' \in {"none", "walk", "read", "canceled"}
      PROVE  BInv'
  <2>1. TypeOK'
    BY <1>w DEF TypeOK, argVars, commitVars, Ending
  <2>2. Places'
    BY <1>w, <1>0 DEF Places, argVars
  <2>3. Holders'
    BY <1>w DEF Holders, Live, commitVars
  <2>4. Account'
    BY <1>w, KeepAccount DEF argVars
  <2> QED
    BY <2>1, <2>2, <2>3, <2>4
<1>1. CASE Visit \/ WalkDone \/ WalkStops
  BY <1>1, <1>w DEF Visit, WalkDone, WalkStops, Ending, TypeOK
<1>2. CASE WalkFails
  BY <1>2, <1>w DEF WalkFails, Cancel, Ending, TypeOK
<1>3. CASE Close
  BY <1>3, <1>w DEF Close, Ending, TypeOK
<1>4. CASE EnterWindow
  <2>1. /\ walker = "window" /\ window < 2 * W /\ window' = window + 1 /\ walker' = "budget"
        /\ UNCHANGED <<argVars, next, orderedClosed, jobsClosed, used, worker, ordered, ready, commitVars, cause, ticker, flight>>
    BY <1>4 DEF EnterWindow
  <2>2. TypeOK'
    BY <2>1 DEF TypeOK, argVars, commitVars
  <2>3. Places'
    <3>1. UNCHANGED <<C, W>>
      BY <2>1 DEF argVars
    <3> QED
      BY <2>1, <1>0, <3>1 DEF Places
  <2>4. Holders'
    BY <2>1 DEF Holders, Live, commitVars, Ending
  <2>5. Account'
    BY <2>1, KeepAccount DEF argVars
  <2> QED
    BY <2>2, <2>3, <2>4, <2>5
<1>5. CASE AcquireBudget
  <2>1. /\ walker = "budget" /\ used + Weight(next) <= Bytes
        /\ used' = used + Weight(next) /\ flight' = flight \union {next} /\ walker' = "send"
        /\ UNCHANGED <<argVars, next, orderedClosed, jobsClosed, window, worker, ordered, ready, commitVars, cause, ticker>>
    BY <1>5 DEF AcquireBudget
  <2>2. next \in Tasks /\ next \notin flight /\ flight \in SUBSET Tasks
    BY <2>1 DEF IInv, OrderType, TypeOK, Tasks, Holders, Ending
  <2>3. Weight(next) \in Nat /\ Weights[next] = Weight(next) /\ Weights \in [Tasks -> Nat]
    BY <2>2, WeightsType
  <2>4. TypeOK'
    BY <2>1, <2>2, <2>3 DEF TypeOK, argVars, commitVars
  <2>5. Places'
    <3>1. Cardinality(flight') = C + 1
      BY <2>1, <2>2, Finite, FS_AddElement
    <3>2. W' = W
      BY <2>1 DEF argVars
    <3> QED
      BY <2>1, <1>0, <3>1, <3>2 DEF Places
  <2>6. Holders'
    BY <2>1, <2>2 DEF Holders, Live, commitVars
  <2>7. Account'
    <3>1. Weights' = Weights
      BY <2>1 DEF Weights, Weight, Skipped, argVars
    <3>2. SumFunctionOnSet(Weights, flight \union {next}) = SumFunctionOnSet(Weights, flight) + Weights[next]
      BY <2>2, <2>3, Finite, SumAdd
    <3>3. SumFunctionOnSet(Weights, flight)' = SumFunctionOnSet(Weights', flight')
      OBVIOUS
    <3> QED
      BY <2>1, <2>3, <3>1, <3>2, <3>3 DEF Account
  <2> QED
    BY <2>4, <2>5, <2>6, <2>7
<1>6. ASSUME NEW w \in Workers, SendJob(w)
      PROVE  BInv'
  <2>1. /\ walker = "send" /\ worker' = [worker EXCEPT ![w] = next] /\ walker' = "order"
        /\ UNCHANGED <<argVars, next, orderedClosed, jobsClosed, window, used, ordered, ready, commitVars, cause, ticker, flight>>
    BY <1>6 DEF SendJob
  <2>2. next \in Tasks
    BY <2>1 DEF IInv, OrderType, TypeOK, Tasks
  <2>3. TypeOK'
    BY <2>1, <2>2 DEF TypeOK, argVars, commitVars
  <2>4. Places'
    BY <2>1, <1>0 DEF Places, argVars
  <2>5. Holders'
    BY <2>1 DEF Holders, Live, commitVars
  <2>6. Account'
    BY <2>1, KeepAccount DEF argVars
  <2> QED
    BY <2>3, <2>4, <2>5, <2>6
<1>7. CASE SendOrdered
  <2>1. /\ walker = "order" /\ ordered' = Append(ordered, next) /\ next' = next + 1 /\ walker' = "walk"
        /\ UNCHANGED <<argVars, orderedClosed, jobsClosed, window, used, worker, ready, commitVars, cause, ticker, flight>>
    BY <1>7 DEF SendOrdered
  <2>2. next \in Tasks /\ next \in flight
    BY <2>1 DEF IInv, OrderType, TypeOK, Tasks, Holders
  <2>3. TypeOK'
    BY <2>1, <2>2 DEF TypeOK, argVars, commitVars, Tasks
  <2>4. Places'
    BY <2>1, <1>0 DEF Places, argVars
  <2>5. Holders'
    <3>1. \A t \in flight' : t < next'
      <4>1. \A t \in flight : t \in Nat /\ (t < next \/ t = next)
        BY DEF Holders, TypeOK, Tasks
      <4> QED
        BY <1>0, <2>1, <4>1
    <3>2. Live' => \A i \in 1 .. Len(ordered') : ordered'[i] \in flight'
      <4>1. /\ Len(ordered') = Len(ordered) + 1 /\ ordered'[Len(ordered) + 1] = next
            /\ \A i \in 1 .. Len(ordered) : ordered'[i] = ordered[i]
        BY <1>0, <2>1
      <4>2. \A i \in 1 .. Len(ordered) + 1 : i \in 1 .. Len(ordered) \/ i = Len(ordered) + 1
        BY <1>0
      <4> QED
        BY <2>1, <2>2, <4>1, <4>2 DEF Holders, Live, commitVars
    <3> QED
      BY <2>1, <3>1, <3>2 DEF Holders, commitVars
  <2>6. Account'
    BY <2>1, KeepAccount DEF argVars
  <2> QED
    BY <2>3, <2>4, <2>5, <2>6
\* The readers and the progress report have no part in it.
<1>r. ASSUME UNCHANGED <<argVars, walkVars, window, used, ordered, commitVars, flight>>, TypeOK'
      PROVE  BInv'
  <2>1. Places'
    BY <1>r, <1>0 DEF Places, argVars, walkVars
  <2>2. Holders'
    BY <1>r DEF Holders, Live, commitVars, walkVars
  <2>3. Account'
    BY <1>r, KeepAccount DEF argVars
  <2> QED
    BY <1>r, <2>1, <2>2, <2>3
<1>8. ASSUME NEW w \in Workers, Prepare(w)
      PROVE  BInv'
  <2>1. TypeOK'
    BY <1>8 DEF Prepare, TypeOK, argVars, walkVars, commitVars
  <2> QED
    BY <1>8, <1>r, <2>1 DEF Prepare
<1>9. ASSUME NEW w \in Workers, ReadFails(w)
      PROVE  BInv'
  <2>1. TypeOK'
    BY <1>9 DEF ReadFails, Cancel, TypeOK, argVars, walkVars, commitVars
  <2> QED
    BY <1>9, <1>r, <2>1 DEF ReadFails
<1>10. ASSUME NEW w \in Workers, WorkerExits(w)
       PROVE  BInv'
  <2>1. TypeOK'
    BY <1>10 DEF WorkerExits, TypeOK, argVars, walkVars, commitVars
  <2> QED
    BY <1>10, <1>r, <2>1 DEF WorkerExits
<1>11. CASE TickerExits
  <2>1. TypeOK'
    <3>1. ticker' \in BOOLEAN /\ UNCHANGED <<argVars, walkVars, window, used, worker, ordered, ready, commitVars, cause, flight>>
      BY <1>11 DEF TickerExits
    <3> HIDE <1>11
    <3> QED
      BY <3>1 DEF TypeOK, argVars, walkVars, commitVars
  <2> QED
    BY <1>11, <1>r, <2>1 DEF TickerExits
<1>12. CASE TakeOrdered
  <2>1. /\ committer = "take" /\ ordered # <<>> /\ task' = Head(ordered) /\ ordered' = Tail(ordered)
        /\ committer' = "await"
        /\ UNCHANGED <<argVars, walkVars, window, used, worker, ready, result, committed, cause, ticker, flight>>
    BY <1>12 DEF TakeOrdered
  <2>2. /\ Len(ordered) \in Nat \ {0} /\ Head(ordered) = ordered[1] /\ ordered[1] \in Tasks
        /\ Tail(ordered) \in Seq(Tasks) /\ Len(Tail(ordered)) = Len(ordered) - 1
        /\ \A i \in 1 .. Len(ordered) - 1 : Tail(ordered)[i] = ordered[i + 1]
    BY <1>0, <2>1
  <2>3. \A i \in 1 .. Len(ordered) : ordered[i] \in flight
    BY <2>1 DEF Holders, Live
  <2>4. TypeOK'
    BY <2>1, <2>2 DEF TypeOK, argVars, walkVars
  <2>5. Places'
    BY <2>1, <1>0 DEF Places, argVars, walkVars
  <2>6. Holders'
    <3>1. task' \in flight /\ \A i \in 1 .. Len(ordered) - 1 : Tail(ordered)[i] \in flight
      BY <2>1, <2>2, <2>3
    <3> QED
      BY <2>1, <2>2, <3>1 DEF Holders, walkVars
  <2>7. Account'
    BY <2>1, KeepAccount DEF argVars
  <2> QED
    BY <2>4, <2>5, <2>6, <2>7
<1>13. ASSUME NEW ok \in BOOLEAN, Commit(ok)
       PROVE  BInv'
  <2>1. /\ committer = "await" /\ committed' = IF ok THEN Append(committed, task) ELSE committed
        /\ used' = used - Weight(task) /\ flight' = flight \ {task}
        /\ window' = window - 1 /\ task' = NoTask
        /\ committer' \in {"take", "cancel"} /\ result' \in {result, "commit"}
        /\ UNCHANGED <<argVars, walkVars, worker, ordered, ready, cause, ticker>>
    BY <1>13 DEF Commit
  <2>2. task \in flight /\ task \in Tasks /\ flight \in SUBSET Tasks
    BY <2>1 DEF Holders, TypeOK
  <2>3. /\ Weights \in [Tasks -> Nat] /\ Weights[task] = Weight(task) /\ Weight(task) \in Nat
    BY <2>2, WeightsType
  <2>4. PICK u \in Nat : u = SumFunctionOnSet(Weights, flight \ {task})
    <3>1. flight \ {task} \in SUBSET Tasks
      BY <2>2
    <3> QED
      BY <2>3, <3>1, Finite, SumType
  <2>5. used = Weight(task) + u
    BY <2>2, <2>3, <2>4, Finite, SumRemove DEF Account
  <2>6. used' = u
    BY <2>1, <2>3, <2>4, <2>5
  <2>7. Cardinality(flight') = C - 1 /\ C >= 1
    <3>1. Cardinality(flight \ {task}) = C - 1 /\ Cardinality(flight \ {task}) \in Nat
      BY <2>2, Finite, FS_RemoveElement
    <3> QED
      BY <1>0, <2>1, <3>1
  <2>8. TypeOK'
    <3>1. committed' \in Seq(Tasks)
      BY <1>0, <2>1, <2>2
    <3>2. window' \in Nat
      BY <1>0, <2>1, <2>7
    <3> QED
      BY <2>1, <2>2, <2>6, <3>1, <3>2 DEF TypeOK, argVars, walkVars
  <2>9. Places'
    <3>1. W' = W /\ walker' = walker
      BY <2>1 DEF argVars, walkVars
    <3> QED
      BY <1>0, <2>1, <2>7, <3>1 DEF Places
  <2>10. Holders'
    <3>1. /\ Live /\ task = Len(committed) + 1 /\ next = Len(committed) + 1 + Len(ordered) + 1
          /\ \A i \in 1 .. Len(ordered) : ordered[i] = Len(committed) + 1 + i
      BY <2>1 DEF IInv, Consecutive, Live, Taken
    <3>2. next # task /\ \A i \in 1 .. Len(ordered) : ordered[i] # task
      BY <1>0, <3>1
    <3>3. UNCHANGED <<next, walker, ordered>>
      BY <2>1 DEF walkVars
    <3> QED
      BY <2>1, <3>1, <3>2, <3>3 DEF Holders
  <2>11. Account'
    <3>1. Weights' = Weights
      BY <2>1 DEF Weights, Weight, Skipped, argVars
    <3>2. SumFunctionOnSet(Weights, flight)' = SumFunctionOnSet(Weights', flight')
      OBVIOUS
    <3>3. u <= Bytes
      BY <1>0, <2>3, <2>4, <2>5 DEF Account
    <3> QED
      BY <2>1, <2>4, <2>6, <3>1, <3>2, <3>3 DEF Account
  <2> QED
    BY <2>8, <2>9, <2>10, <2>11
\* The caller stops.
<1>14. CASE Stop \/ CancelAll \/ Join
  <2>1. /\ UNCHANGED <<argVars, walkVars, window, used, worker, ordered, ready, task, committed, ticker, flight>>
        /\ committer' \in {"cancel", "wait", "returned"}
    BY <1>14 DEF Stop, CancelAll, Join
  <2>2. TypeOK'
    <3>1. result' \in {result, cause} /\ cause' \in {cause, "canceled"}
      BY <1>14 DEF Stop, CancelAll, Join, Cancel
    <3> QED
      BY <2>1, <3>1 DEF TypeOK, argVars, walkVars
  <2>3. Places'
    BY <2>1, <1>0 DEF Places, argVars, walkVars
  <2>4. Holders'
    BY <2>1 DEF Holders, Live, walkVars
  <2>5. Account'
    BY <2>1, KeepAccount DEF argVars
  <2> QED
    BY <2>2, <2>3, <2>4, <2>5
<1>15. CASE UNCHANGED vars
  <2>1. TypeOK'
    BY <1>15 DEF TypeOK, vars, argVars, walkVars, commitVars
  <2> QED
    BY <1>15, <1>r, <2>1 DEF vars
<1> QED
  BY <1>1, <1>2, <1>3, <1>4, <1>5, <1>6, <1>7, <1>8, <1>9, <1>10, <1>11, <1>12, <1>13, <1>14, <1>15
     DEF Next, Walk, Work, Caller

\* The window and the budget are kept whatever the goroutines do.
LEMMA BufferInductive == Spec => []BInv
  BY InitBuffer, NextBuffer, Inductive, PTL DEF Spec

\* Every variable of streamPreparedFiles keeps its type: neither the window nor the budget
\* is given back more than was taken.
THEOREM TypeCorrect == Spec => []TypeOK
<1>1. BInv => TypeOK
  BY DEF BInv
<1> QED
  BY <1>1, BufferInductive, PTL

\* At most twice as many files as readers are in flight, and their content fits the budget
\* unless one file, larger than the whole budget, is alone: for any walk, any sizes and any
\* number of readers, and for the results that wait for an earlier file as well.
THEOREM BufferCorrect == Spec => []BufferBounded
<1>1. ASSUME BInv PROVE BufferBounded
  <2>1. /\ flight \in SUBSET Tasks /\ Buffered \in SUBSET flight /\ Bytes \in Nat \ {0}
        /\ Cardinality(flight) \in Nat /\ Cardinality(workers) \in Nat /\ window \in Nat
        /\ file \in [1 .. N -> [size : Nat, allowed : BOOLEAN]]
    BY <1>1, Finite, PipelineAssumption DEF BInv, TypeOK, Buffered
  <2>2. Cardinality(flight) <= 2 * Cardinality(workers)
    BY <1>1, <2>1 DEF BInv, Places
  <2>3. Weights \in [Tasks -> Nat] /\ \A t \in Tasks : Weights[t] = Weight(t) /\ Weight(t) >= 1 /\ Weight(t) <= Bytes
    BY <1>1, WeightsType DEF BInv
  <2>4. Sizes \in [Tasks -> Nat] /\ \A t \in Tasks : Sizes[t] = file[t].size /\ file[t].size \in Nat
    BY <2>1 DEF Sizes, Tasks
  <2>5. PICK u \in Nat : u = SumFunctionOnSet(Weights, flight) /\ u <= Bytes
    BY <1>1, <2>1, <2>3, Finite, SumType DEF BInv, Account
  <2>6. CASE \A t \in Buffered : file[t].size <= Bytes
    <3>1. \A t \in Buffered : Sizes[t] <= Weights[t]
      <4> SUFFICES ASSUME NEW t \in Buffered PROVE Sizes[t] <= Weights[t]
        OBVIOUS
      <4>1. PICK z \in Nat : z = file[t].size /\ z <= Bytes /\ Sizes[t] = z /\ Weights[t] = Weight(t) /\ ~Skipped(t)
        BY <2>1, <2>3, <2>4, <2>6 DEF Buffered
      <4>2. Weight(t) = Least(Bytes, Most(1, z))
        BY <4>1 DEF Weight
      <4> QED
        BY <2>1, <4>1, <4>2 DEF Least, Most
    <3>2. SumFunctionOnSet(Sizes, Buffered) <= SumFunctionOnSet(Weights, flight)
      BY <2>1, <2>3, <2>4, <3>1, Finite, SumGrows
    <3>3. SumFunctionOnSet(Sizes, Buffered) \in Nat
      BY <2>1, <2>4, Finite, SumType
    <3> QED
      BY <2>1, <2>2, <2>5, <3>2, <3>3 DEF BufferBounded
  <2>7. CASE \E t \in Buffered : ~(file[t].size <= Bytes)
    <3>1. PICK t \in Buffered : ~(file[t].size <= Bytes)
      BY <2>7
    <3>2. PICK z \in Nat : z = file[t].size /\ t \in Tasks /\ t \in flight /\ ~Skipped(t)
      BY <2>1, <2>4 DEF Buffered
    <3>3. Weights[t] = Bytes
      <4>1. Weights[t] = Least(Bytes, Most(1, z))
        BY <2>3, <3>2 DEF Weight
      <4> QED
        BY <2>1, <3>1, <3>2, <4>1 DEF Least, Most
    <3>4. PICK v \in Nat : v = SumFunctionOnSet(Weights, flight \ {t})
      BY <2>1, <2>3, Finite, SumType
    <3>5. u = Bytes + v
      BY <2>1, <2>3, <2>5, <3>2, <3>3, <3>4, Finite, SumRemove
    <3>6. v = 0
      BY <2>1, <2>5, <3>4, <3>5
    <3>7. ASSUME NEW s \in flight \ {t} PROVE FALSE
      <4>1. PICK x \in Nat : x = SumFunctionOnSet(Weights, (flight \ {t}) \ {s})
        BY <2>1, <2>3, Finite, SumType
      <4>2. SumFunctionOnSet(Weights, flight \ {t}) = Weights[s] + SumFunctionOnSet(Weights, (flight \ {t}) \ {s})
        BY <2>1, <2>3, <3>7, Finite, SumRemove
      <4>3. Weights[s] \in Nat /\ Weights[s] >= 1
        BY <2>1, <2>3, <3>7
      <4> QED
        BY <3>4, <3>6, <4>1, <4>2, <4>3
    <3>8. flight = {t}
      BY <3>2, <3>7
    <3>9. Cardinality(flight) = 1
      BY <3>8, FS_Singleton
    <3> QED
      BY <2>2, <3>9 DEF BufferBounded
  <2> QED
    BY <2>6, <2>7
<1> QED
  BY <1>1, BufferInductive, PTL

-----------------------------------------------------------------------------
(* Functions defined level by level.                                       *)

\* What holds of 0, and of each number's successor up to n, holds up to n.
LEMMA UpTo ==
  ASSUME NEW n \in Nat, NEW P, 0 \in P, \A i \in 0..n : i # n /\ i \in P => i + 1 \in P
  PROVE  0..n \subseteq P
<1> DEFINE Bad == {i \in 0..n : i \notin P}
<1> SUFFICES ASSUME Bad # {} PROVE FALSE
  OBVIOUS
<1>1. Bad \subseteq Nat
  OBVIOUS
<1>2. PICK i \in Bad : \A j \in Bad : <<j, i>> \notin OpToRel(<, Nat)
  <2> HIDE DEF Bad
  <2> QED
    BY <1>1, NatLessThanWellFounded, WFMin
<1>3. i \in 0..n /\ i # 0
  OBVIOUS
<1>4. i - 1 \in 0..n /\ i - 1 # n
  BY <1>3
<1>5. i - 1 \in Bad => <<i - 1, i>> \in OpToRel(<, Nat)
  BY <1>3 DEF OpToRel
<1>6. i - 1 \in P
  BY <1>2, <1>4, <1>5
<1> QED
  BY <1>3, <1>4, <1>6

\* g holds, up to its m-th element, the members of s strung together so far.
Joined(s, g, i) == IF i = 1 THEN s[i] ELSE g[i - 1] \o s[i]
Joins(s, g, m) == g = [i \in 1..m |-> Joined(s, g, i)]

LEMMA FlattenIs ==
  ASSUME NEW s, Len(s) # 0
  PROVE  FlattenSeq(s) = (CHOOSE g : Joins(s, g, Len(s)))[Len(s)]
BY DEF FlattenSeq, Joins, Joined

LEMMA JoinsMore ==
  ASSUME NEW S, NEW s \in Seq(Seq(S)), NEW m \in Nat, m < Len(s),
         NEW g \in [1..m -> Seq(S)], Joins(s, g, m)
  PROVE  \E h \in [1..(m + 1) -> Seq(S)] : Joins(s, h, m + 1)
<1> DEFINE h == [i \in 1..(m + 1) |-> IF i = m + 1 THEN Joined(s, g, m + 1) ELSE g[i]]
<1>1. s[m + 1] \in Seq(S)
  OBVIOUS
<1>2. Joined(s, g, m + 1) \in Seq(S)
  BY <1>1 DEF Joined
<1>3. h \in [1..(m + 1) -> Seq(S)]
  BY <1>2
<1>4. \A i \in 1..m : h[i] = g[i] /\ g[i] = Joined(s, g, i)
  <2> HIDE DEF h
  <2>1. \A i \in 1..m : g[i] = Joined(s, g, i)
    BY DEF Joins
  <2>2. \A i \in 1..m : h[i] = g[i]
    BY DEF h
  <2> QED
    BY <2>1, <2>2
<1>5. ASSUME NEW i \in 1..(m + 1) PROVE h[i] = Joined(s, h, i)
  <2>1. Joined(s, h, i) = Joined(s, g, i)
    BY <1>4 DEF Joined
  <2>2. CASE i = m + 1
    BY <2>1, <2>2
  <2>3. CASE i # m + 1
    <3>1. i \in 1..m
      BY <2>3
    <3> QED
      BY <1>4, <2>1, <3>1
  <2> QED
    BY <2>2, <2>3
<1> HIDE DEF h
<1>6. h = [i \in 1..(m + 1) |-> Joined(s, h, i)]
  BY <1>3, <1>5
<1> QED
  BY <1>3, <1>6 DEF Joins

\* A sequence of sequences has a flat one, with the elements of its members.
LEMMA FlattenType ==
  ASSUME NEW S, NEW s \in Seq(Seq(S))
  PROVE  FlattenSeq(s) \in Seq(S)
<1>1. CASE s = <<>>
  BY <1>1 DEF FlattenSeq
<1>2. CASE s # <<>>
  <2>1. PICK n \in Nat : n = Len(s)
    OBVIOUS
  <2>2. n # 0 /\ \A i \in 1..n : s[i] \in Seq(S)
    BY <1>2, <2>1
  <2> DEFINE P == {m \in 0..n : \E g \in [1..m -> Seq(S)] : Joins(s, g, m)}
  <2>3. 0 \in P
    <3>1. 1..0 = {}
      OBVIOUS
    <3> DEFINE e == [i \in {} |-> <<>>]
    <3>2. e \in [1..0 -> Seq(S)]
      BY <3>1
    <3>3. Joins(s, e, 0)
      BY <3>1 DEF Joins
    <3>4. \E g \in [1..0 -> Seq(S)] : Joins(s, g, 0)
      BY <3>2, <3>3
    <3>5. 0 \in 0..n
      BY <2>1
    <3> QED
      BY <3>4, <3>5
  <2>4. ASSUME NEW m \in 0..n, m # n, m \in P PROVE m + 1 \in P
    <3>1. PICK g \in [1..m -> Seq(S)] : Joins(s, g, m)
      BY <2>4
    <3>2. m \in Nat /\ m < Len(s) /\ m + 1 \in 0..n
      BY <2>1, <2>4
    <3> QED
      BY <3>1, <3>2, JoinsMore
  <2>5. 0..n \subseteq P
    <3> HIDE DEF P
    <3> QED
      BY <2>1, <2>3, <2>4, UpTo
  <2>6. PICK f : f = CHOOSE g : Joins(s, g, n)
    OBVIOUS
  <2>7. Joins(s, f, n)
    BY <2>5, <2>6
  <2> DEFINE Q == {m \in 0..n : m # 0 => f[m] \in Seq(S)}
  <2>8. ASSUME NEW m \in 0..n, m # n, m \in Q PROVE m + 1 \in Q
    <3>1. m + 1 \in 1..n /\ s[m + 1] \in Seq(S)
      BY <2>1, <2>2, <2>8
    <3>2. f[m + 1] = Joined(s, f, m + 1)
      BY <2>7, <3>1 DEF Joins
    <3>3. CASE m = 0
      BY <3>1, <3>2, <3>3 DEF Joined
    <3>4. CASE m # 0
      <4>1. f[m] \in Seq(S)
        BY <2>8, <3>4
      <4>2. f[m + 1] = f[m] \o s[m + 1]
        <5>1. (m + 1) - 1 = m /\ m + 1 # 1
          BY <2>8, <3>4
        <5> QED
          BY <3>2, <5>1 DEF Joined
      <4>3. f[m] \o s[m + 1] \in Seq(S)
        BY <3>1, <4>1
      <4>4. f[m + 1] \in Seq(S)
        BY <4>2, <4>3
      <4> QED
        BY <3>1, <4>4
    <3> QED
      BY <3>3, <3>4
  <2>9. 0..n \subseteq Q
    <3>1. 0 \in Q
      BY <2>1
    <3> HIDE DEF Q
    <3> QED
      BY <2>1, <2>8, <3>1, UpTo
  <2>10. f[n] \in Seq(S)
    <3>1. n \in 0..n
      BY <2>1
    <3>2. n \in Q
      <4> HIDE DEF Q
      <4> QED
        BY <2>9, <3>1
    <3> QED
      BY <2>2, <3>2
  <2>11. FlattenSeq(s) = f[n]
    <3>1. Len(s) # 0
      BY <2>1, <2>2
    <3> QED
      BY <2>1, <2>6, <3>1, FlattenIs
  <2> QED
    BY <2>10, <2>11
<1> QED
  BY <1>1, <1>2

\* One level more of submodules, with those below in g.
OneLevel(g, n) ==
  [c \in DOMAIN SubTree |->
     OwnKeys(SubTree[c]) \cup
     IF n = 0 THEN {}
     ELSE UNION {Moved(p, g[n - 1][SubTree[c][p].id]) : p \in Entered(SubTree[c], Declared(SubTree[c]))}]
LevelsUp(g, m) == g = [n \in 0..m |-> OneLevel(g, n)]

LEMMA LevelsNat == Levels \in Nat
BY GitAssumption, FS_CardinalityType DEF Levels

LEMMA LevelsUpMore ==
  ASSUME NEW m \in Nat, NEW g, LevelsUp(g, m)
  PROVE  \E h : LevelsUp(h, m + 1)
<1> DEFINE h == [n \in 0..(m + 1) |-> IF n = m + 1 THEN OneLevel(g, m + 1) ELSE g[n]]
<1>1. \A n \in 0..m : g[n] = OneLevel(g, n)
  BY DEF LevelsUp
<1>2. \A n \in 0..m : h[n] = g[n]
  OBVIOUS
<1>3. h[m + 1] = OneLevel(g, m + 1)
  OBVIOUS
<1>4. h = [n \in 0..(m + 1) |-> h[n]]
  OBVIOUS
<1> HIDE DEF h
<1>5. ASSUME NEW n \in 0..(m + 1) PROVE h[n] = OneLevel(h, n)
  <2>1. OneLevel(h, n) = OneLevel(g, n)
    <3>1. CASE n = 0
      BY <3>1 DEF OneLevel
    <3>2. CASE n # 0
      <4>1. h[n - 1] = g[n - 1]
        BY <1>2, <3>2
      <4> QED
        BY <4>1 DEF OneLevel
    <3> QED
      BY <3>1, <3>2
  <2>2. CASE n = m + 1
    BY <1>3, <2>1, <2>2
  <2>3. CASE n # m + 1
    <3>1. n \in 0..m
      BY <2>3
    <3> QED
      BY <1>1, <1>2, <2>1, <3>1
  <2> QED
    BY <2>2, <2>3
<1>6. h = [n \in 0..(m + 1) |-> OneLevel(h, n)]
  BY <1>4, <1>5
<1> QED
  BY <1>6 DEF LevelsUp

\* What SubKeys promises by its definition: it exists.
LEMMA SubKeysIs ==
  \A n \in 0..Levels : SubKeys[n] = OneLevel(SubKeys, n)
<1> DEFINE P == {m \in 0..Levels : \E g : LevelsUp(g, m)}
<1>1. 0 \in P
  <2> DEFINE e == [n \in 0..0 |-> OneLevel(<<>>, 0)]
  <2>1. e = [n \in 0..0 |-> OneLevel(e, n)]
    <3>1. OneLevel(e, 0) = OneLevel(<<>>, 0)
      BY DEF OneLevel
    <3> QED
      BY <3>1
  <2> HIDE DEF e
  <2>2. \E g : LevelsUp(g, 0)
    BY <2>1 DEF LevelsUp
  <2>3. 0 \in 0..Levels
    BY LevelsNat
  <2> QED
    BY <2>2, <2>3
<1>2. ASSUME NEW m \in 0..Levels, m # Levels, m \in P PROVE m + 1 \in P
  <2>1. m \in Nat /\ m + 1 \in 0..Levels
    BY <1>2, LevelsNat
  <2>2. \E h : LevelsUp(h, m + 1)
    BY <1>2, <2>1, LevelsUpMore
  <2> QED
    BY <2>1, <2>2
<1>3. 0..Levels \subseteq P
  <2> HIDE DEF P
  <2> QED
    BY <1>1, <1>2, LevelsNat, UpTo
<1>4. \E g : LevelsUp(g, Levels)
  BY <1>3, LevelsNat
<1>5. SubKeys = CHOOSE g : LevelsUp(g, Levels)
  BY DEF SubKeys, LevelsUp, OneLevel
<1>6. LevelsUp(SubKeys, Levels)
  BY <1>4, <1>5
<1> QED
  BY <1>6 DEF LevelsUp

-----------------------------------------------------------------------------
(* Ways through submodules.                                                *)

AllPaths == Paths \cup UNION {DOMAIN SubTree[c] : c \in DOMAIN SubTree}

\* To the tree itself leads one way, and nothing is passed.
LEMMA NoWay ==
  ASSUME NEW t
  PROVE  WaysTo(t, <<>>) = {<<>>} /\ TreeAt(t, <<>>) = t
<1>1. <<>> \in [DOMAIN <<>> -> DOMAIN SubTree] /\ Leads(t, <<>>, <<>>)
  BY DEF Leads
<1>2. \A cs \in [DOMAIN <<>> -> DOMAIN SubTree] : cs = <<>>
  OBVIOUS
<1> QED
  BY <1>1, <1>2 DEF WaysTo, TreeAt

\* A submodule c of tree t, at path p, is a step further on every way in c's tree.
LEMMA StepsOn ==
  ASSUME NEW S, NEW p \in S, NEW sub \in Seq(S), NEW C, NEW c \in C, NEW cs \in Seq(C), Len(cs) = Len(sub)
  PROVE  /\ <<p>> \o sub \in Seq(S) /\ <<c>> \o cs \in Seq(C)
         /\ Len(<<p>> \o sub) = Len(sub) + 1 /\ Len(<<c>> \o cs) = Len(sub) + 1
         /\ (<<p>> \o sub)[1] = p /\ (<<c>> \o cs)[1] = c
         /\ \A n \in 2..(Len(sub) + 1) : (<<p>> \o sub)[n] = sub[n - 1] /\ (<<c>> \o cs)[n] = cs[n - 1]
OBVIOUS

LEMMA WayOn ==
  ASSUME NEW S, NEW p \in S, NEW sub \in Seq(S), NEW t, NEW c \in DOMAIN SubTree,
         p \in DOMAIN t, t[p] = SubEntry(c), NEW cs \in WaysTo(SubTree[c], sub)
  PROVE  /\ <<c>> \o cs \in WaysTo(t, <<p>> \o sub)
         /\ TreeAt(t, <<c>> \o cs) = TreeAt(SubTree[c], cs)
<1>1. cs \in [1..Len(sub) -> DOMAIN SubTree] /\ Leads(SubTree[c], sub, cs)
  BY DEF WaysTo
<1>2. cs \in Seq(DOMAIN SubTree) /\ Len(cs) = Len(sub) /\ Len(sub) \in Nat /\ DOMAIN sub = 1..Len(sub)
  BY <1>1
<1>3. PICK q \in Seq(S) : q = <<p>> \o sub
  BY <1>2, StepsOn
<1>4. PICK ds \in Seq(DOMAIN SubTree) : ds = <<c>> \o cs
  BY <1>2, StepsOn
<1>5. /\ Len(q) = Len(sub) + 1 /\ Len(ds) = Len(sub) + 1 /\ q[1] = p /\ ds[1] = c
      /\ \A n \in 2..(Len(sub) + 1) : q[n] = sub[n - 1] /\ ds[n] = cs[n - 1]
  BY <1>2, <1>3, <1>4, StepsOn
<1>6. DOMAIN q = 1..(Len(sub) + 1) /\ ds \in [DOMAIN q -> DOMAIN SubTree]
  BY <1>5
<1>7. ASSUME NEW n \in DOMAIN q
      PROVE  LET u == IF n = 1 THEN t ELSE SubTree[ds[n - 1]]
             IN q[n] \in DOMAIN u /\ u[q[n]] = SubEntry(ds[n])
  <2>1. CASE n = 1
    BY <1>5, <2>1
  <2>2. CASE n # 1
    <3>1. n \in 2..(Len(sub) + 1) /\ n - 1 \in DOMAIN sub
      BY <1>2, <1>6, <2>2
    <3> DEFINE u == IF n - 1 = 1 THEN SubTree[c] ELSE SubTree[cs[(n - 1) - 1]]
    <3>2. sub[n - 1] \in DOMAIN u /\ u[sub[n - 1]] = SubEntry(cs[n - 1])
      BY <1>1, <3>1 DEF Leads
    <3>3. ds[n - 1] = IF n - 1 = 1 THEN c ELSE cs[(n - 1) - 1]
      <4>1. CASE n - 1 = 1
        BY <1>5, <4>1
      <4>2. CASE n - 1 # 1
        <5>1. n - 1 \in 2..(Len(sub) + 1)
          BY <1>2, <3>1, <4>2
        <5> QED
          BY <1>5, <4>2, <5>1
      <4> QED
        BY <4>1, <4>2
    <3>4. SubTree[ds[n - 1]] = u
      BY <3>3
    <3> HIDE DEF u
    <3> QED
      BY <1>5, <2>2, <3>1, <3>2, <3>4
  <2> QED
    BY <2>1, <2>2
<1>8. ds \in WaysTo(t, q)
  BY <1>6, <1>7 DEF WaysTo, Leads
<1>9. TreeAt(t, ds) = TreeAt(SubTree[c], cs)
  <2>1. ds # <<>> /\ TreeAt(t, ds) = SubTree[ds[Len(sub) + 1]]
    BY <1>2, <1>5 DEF TreeAt
  <2>2. CASE cs = <<>>
    BY <1>2, <1>5, <2>1, <2>2 DEF TreeAt
  <2>3. CASE cs # <<>>
    <3>1. Len(sub) + 1 \in 2..(Len(sub) + 1)
      BY <1>2, <2>3
    <3>2. ds[Len(sub) + 1] = cs[Len(cs)]
      BY <1>2, <1>5, <3>1
    <3> QED
      BY <2>1, <2>3, <3>2 DEF TreeAt
  <2> QED
    BY <2>2, <2>3
<1> QED
  BY <1>3, <1>4, <1>8, <1>9

LEMMA TailType ==
  ASSUME NEW S, NEW s \in Seq(S), s # <<>>
  PROVE  Tail(s) \in Seq(S)
OBVIOUS

\* A way begins with a submodule of the tree, and goes on in that submodule's tree.
LEMMA WayBack ==
  ASSUME NEW S, NEW sub \in Seq(S), sub # <<>>, NEW t, NEW cs \in WaysTo(t, sub)
  PROVE  /\ cs[1] \in DOMAIN SubTree /\ sub[1] \in DOMAIN t /\ t[sub[1]] = SubEntry(cs[1])
         /\ Tail(cs) \in WaysTo(SubTree[cs[1]], Tail(sub))
         /\ TreeAt(t, cs) = TreeAt(SubTree[cs[1]], Tail(cs))
         /\ AllDeclared(t, sub, cs) => /\ sub[1] \in Declared(t)
                                       /\ AllDeclared(SubTree[cs[1]], Tail(sub), Tail(cs))
<1>1. cs \in [1..Len(sub) -> DOMAIN SubTree] /\ Leads(t, sub, cs) /\ DOMAIN sub = 1..Len(sub)
  BY DEF WaysTo
<1>2. cs \in Seq(DOMAIN SubTree) /\ Len(cs) = Len(sub) /\ Len(sub) \in Nat \ {0} /\ cs # <<>>
  BY <1>1
<1>3. PICK q \in Seq(S) : q = Tail(sub)
  BY TailType
<1>4. PICK ds \in Seq(DOMAIN SubTree) : ds = Tail(cs)
  <2>1. Tail(cs) \in Seq(DOMAIN SubTree)
    BY <1>2, TailType
  <2> QED
    BY <2>1
<1>5. /\ Len(q) = Len(sub) - 1 /\ Len(ds) = Len(sub) - 1
      /\ \A n \in 1..(Len(sub) - 1) : q[n] = sub[n + 1] /\ ds[n] = cs[n + 1]
  BY <1>2, <1>3, <1>4
<1>6. DOMAIN q = 1..(Len(sub) - 1) /\ ds \in [DOMAIN q -> DOMAIN SubTree]
  BY <1>2, <1>5
<1>7. cs[1] \in DOMAIN SubTree /\ sub[1] \in DOMAIN t /\ t[sub[1]] = SubEntry(cs[1])
  BY <1>1, <1>2 DEF Leads
<1> DEFINE From(n) == IF n = 1 THEN SubTree[cs[1]] ELSE SubTree[ds[n - 1]]
<1>8. ASSUME NEW n \in DOMAIN q
      PROVE  From(n) = SubTree[cs[n]] /\ n + 1 \in DOMAIN sub /\ (n + 1) - 1 = n /\ n + 1 # 1
  <2>1. n + 1 \in DOMAIN sub /\ (n + 1) - 1 = n /\ n + 1 # 1
    BY <1>1, <1>2, <1>6
  <2>2. n # 1 => ds[n - 1] = cs[n]
    <3>1. n # 1 => n - 1 \in 1..(Len(sub) - 1) /\ (n - 1) + 1 = n
      BY <1>2, <1>6
    <3> QED
      BY <1>5, <3>1
  <2> QED
    BY <2>1, <2>2
<1> HIDE DEF From
<1>9. ASSUME NEW n \in DOMAIN q PROVE q[n] \in DOMAIN From(n) /\ From(n)[q[n]] = SubEntry(ds[n])
  <2>1. sub[n + 1] \in DOMAIN SubTree[cs[n]] /\ SubTree[cs[n]][sub[n + 1]] = SubEntry(cs[n + 1])
    BY <1>1, <1>8 DEF Leads
  <2> QED
    BY <1>5, <1>6, <1>8, <2>1
<1>10. ds \in WaysTo(SubTree[cs[1]], q)
  BY <1>6, <1>9 DEF WaysTo, Leads, From
<1>11. TreeAt(t, cs) = TreeAt(SubTree[cs[1]], ds)
  <2>1. TreeAt(t, cs) = SubTree[cs[Len(sub)]]
    BY <1>2 DEF TreeAt
  <2>2. CASE Len(sub) = 1
    BY <1>2, <1>5, <2>1, <2>2 DEF TreeAt
  <2>3. CASE Len(sub) # 1
    <3>1. Len(sub) - 1 \in 1..(Len(sub) - 1) /\ (Len(sub) - 1) + 1 = Len(sub)
      BY <1>2, <2>3
    <3>2. ds[Len(ds)] = cs[Len(sub)] /\ ds # <<>>
      BY <1>2, <1>5, <3>1
    <3> QED
      BY <2>1, <3>2 DEF TreeAt
  <2> QED
    BY <2>2, <2>3
<1>12. ASSUME AllDeclared(t, sub, cs)
       PROVE  sub[1] \in Declared(t) /\ AllDeclared(SubTree[cs[1]], q, ds)
  <2>1. sub[1] \in Declared(t)
    BY <1>1, <1>2, <1>12 DEF AllDeclared
  <2>2. ASSUME NEW n \in DOMAIN q PROVE q[n] \in Declared(From(n))
    <3>1. sub[n + 1] \in Declared(SubTree[cs[n]])
      BY <1>8, <1>12 DEF AllDeclared
    <3> QED
      BY <1>5, <1>6, <1>8, <3>1
  <2>3. AllDeclared(SubTree[cs[1]], q, ds)
    <3>1. \A n \in DOMAIN q : From(n) = IF n = 1 THEN SubTree[cs[1]] ELSE SubTree[ds[n - 1]]
      BY DEF From
    <3>2. \A n \in DOMAIN q : q[n] \in Declared(IF n = 1 THEN SubTree[cs[1]] ELSE SubTree[ds[n - 1]])
      BY <2>2, <3>1
    <3> QED
      BY <3>2 DEF AllDeclared
  <2> QED
    BY <2>1, <2>3
<1> QED
  BY <1>3, <1>4, <1>7, <1>10, <1>11, <1>12

\* No two ways lead along the same path.
LEMMA OneWay ==
  ASSUME NEW S, NEW sub \in Seq(S), NEW t, NEW cs \in WaysTo(t, sub), NEW ds \in WaysTo(t, sub)
  PROVE  cs = ds
<1>1. /\ cs \in [1..Len(sub) -> DOMAIN SubTree] /\ Leads(t, sub, cs)
      /\ ds \in [1..Len(sub) -> DOMAIN SubTree] /\ Leads(t, sub, ds)
      /\ DOMAIN sub = 1..Len(sub) /\ Len(sub) \in Nat
  BY DEF WaysTo
<1> DEFINE P == {n \in 0..Len(sub) : n # 0 => cs[n] = ds[n]}
<1>2. ASSUME NEW n \in 0..Len(sub), n # Len(sub), n \in P PROVE n + 1 \in P
  <2>1. n + 1 \in DOMAIN sub /\ (n + 1) - 1 = n /\ (n + 1 # 1 => n # 0)
    <3>1. PICK M \in Nat : M = Len(sub) /\ DOMAIN sub = 1..M
      BY <1>1
    <3>2. n \in 0..M /\ n # M
      BY <1>2, <3>1
    <3> QED
      BY <3>1, <3>2
  <2> DEFINE u == IF n + 1 = 1 THEN t ELSE SubTree[cs[n]]
             v == IF n + 1 = 1 THEN t ELSE SubTree[ds[n]]
  <2>2. u[sub[n + 1]] = SubEntry(cs[n + 1])
    BY <1>1, <2>1 DEF Leads
  <2>3. v[sub[n + 1]] = SubEntry(ds[n + 1])
    BY <1>1, <2>1 DEF Leads
  <2>4. u = v
    BY <1>2, <2>1
  <2> HIDE DEF u, v
  <2>5. cs[n + 1] = ds[n + 1]
    BY <2>2, <2>3, <2>4 DEF SubEntry
  <2> QED
    BY <1>1, <2>1, <2>5
<1>3. 0..Len(sub) \subseteq P
  <2>1. 0 \in P
    BY <1>1
  <2> HIDE DEF P
  <2> QED
    BY <1>1, <1>2, <2>1, UpTo
<1>4. \A n \in 1..Len(sub) : cs[n] = ds[n]
  BY <1>1, <1>3
<1> QED
  BY <1>1, <1>4

-----------------------------------------------------------------------------
(* What a walker finds in submodules.                                      *)

\* The files of tree u that are not ignored, as keys below the submodules of sub.
At(u, sub) == {Key(sub, p, u[p].id) : p \in Files(u) \ Ignored(u)}

LEMMA AtIs ==
  ASSUME NEW u, NEW sub
  PROVE  /\ {[o EXCEPT !.sub = sub] : o \in OwnKeys(u)} = At(u, sub)
         /\ OwnKeys(u) = At(u, <<>>)
<1>1. \A p : [Key(<<>>, p, u[p].id) EXCEPT !.sub = sub] = Key(sub, p, u[p].id)
  BY DEF Key
<1>2. OwnKeys(u) = At(u, <<>>)
  BY DEF At, OwnKeys
<1>3. {[o EXCEPT !.sub = sub] : o \in At(u, <<>>)} = At(u, sub)
  <2>1. ASSUME NEW o \in At(u, <<>>) PROVE [o EXCEPT !.sub = sub] \in At(u, sub)
    BY <1>1 DEF At
  <2>2. ASSUME NEW k \in At(u, sub) PROVE \E o \in At(u, <<>>) : k = [o EXCEPT !.sub = sub]
    <3>1. PICK p \in Files(u) \ Ignored(u) : k = Key(sub, p, u[p].id)
      BY DEF At
    <3>2. Key(<<>>, p, u[p].id) \in At(u, <<>>)
      BY DEF At
    <3> QED
      BY <1>1, <3>1, <3>2
  <2> QED
    BY <2>1, <2>2
<1> QED
  BY <1>2, <1>3

LEMMA ThereIs ==
  ASSUME NEW t, NEW k
  PROVE  IsThere(t, k) <=> \E cs \in WaysTo(t, k.sub) : k \in At(TreeAt(t, cs), k.sub)
BY AtIs DEF IsThere

LEMMA MovedAt ==
  ASSUME NEW p, NEW u, NEW sub
  PROVE  Moved(p, At(u, sub)) = At(u, <<p>> \o sub)
<1>1. PICK new : new = <<p>> \o sub
  OBVIOUS
<1>2. \A id, q : [Key(sub, q, id) EXCEPT !.sub = <<p>> \o @] = Key(new, q, id)
  <2>1. \A id, q : Key(sub, q, id).sub = sub
    BY DEF Key
  <2>2. \A id, q, s : [Key(sub, q, id) EXCEPT !.sub = s] = Key(s, q, id)
    BY DEF Key
  <2>3. ASSUME NEW id, NEW q PROVE [Key(sub, q, id) EXCEPT !.sub = <<p>> \o @] = Key(new, q, id)
    <3>1. PICK s : s = <<p>> \o Key(sub, q, id).sub
      OBVIOUS
    <3>2. s = new
      BY <1>1, <2>1, <3>1
    <3>3. [Key(sub, q, id) EXCEPT !.sub = s] = Key(new, q, id)
      BY <2>2, <3>2
    <3> QED
      BY <3>1, <3>3
  <2> QED
    BY <2>3
<1>3. ASSUME NEW k \in Moved(p, At(u, sub)) PROVE k \in At(u, new)
  <2>1. PICK l \in At(u, sub) : k = [l EXCEPT !.sub = <<p>> \o @]
    BY DEF Moved
  <2>2. PICK q \in Files(u) \ Ignored(u) : l = Key(sub, q, u[q].id)
    BY DEF At
  <2> QED
    BY <1>2, <2>1, <2>2 DEF At
<1>4. ASSUME NEW k \in At(u, new) PROVE k \in Moved(p, At(u, sub))
  <2>1. PICK q \in Files(u) \ Ignored(u) : k = Key(new, q, u[q].id)
    BY DEF At
  <2>2. PICK l : l = Key(sub, q, u[q].id)
    OBVIOUS
  <2>3. l \in At(u, sub) /\ k = [l EXCEPT !.sub = <<p>> \o @]
    BY <1>2, <2>1, <2>2 DEF At
  <2> QED
    BY <2>3 DEF Moved
<1> QED
  BY <1>1, <1>3, <1>4

LEMMA EntryIs ==
  ASSUME NEW e \in Entries, e.k = "sub"
  PROVE  e = SubEntry(e.id)
BY GitAssumption DEF SubEntry

LEMMA SubEntries ==
  ASSUME NEW c \in DOMAIN SubTree, NEW p \in DOMAIN SubTree[c]
  PROVE  SubTree[c][p] \in Entries /\ p \in AllPaths
<1>1. SubTree[c] \in Range(SubTree)
  BY DEF Range
<1> QED
  BY <1>1 DEF Entries, AllPaths

\* A key found in a submodule of t at path p is there in t.
LEMMA MovedThere ==
  ASSUME NEW t, NEW p \in AllPaths, p \in DOMAIN t, t[p] \in Entries, t[p].k = "sub", t[p].id \in DOMAIN SubTree,
         NEW K, \A k \in K : k.sub \in Seq(AllPaths) /\ IsThere(SubTree[t[p].id], k),
         NEW k \in Moved(p, K)
  PROVE  k.sub \in Seq(AllPaths) /\ k.sub # <<>> /\ IsThere(t, k)
<1>1. PICK l \in K : k = [l EXCEPT !.sub = <<p>> \o @]
  BY DEF Moved
<1>2. PICK c \in DOMAIN SubTree : c = t[p].id /\ t[p] = SubEntry(c)
  BY EntryIs
<1>3. PICK sub \in Seq(AllPaths) : sub = l.sub
  OBVIOUS
<1>4. PICK cs \in WaysTo(SubTree[c], sub) : l \in At(TreeAt(SubTree[c], cs), sub)
  BY <1>2, <1>3, ThereIs
<1>5. PICK u : u = TreeAt(SubTree[c], cs)
  OBVIOUS
<1>6. k \in Moved(p, At(u, sub))
  BY <1>1, <1>4, <1>5 DEF Moved
<1>7. k \in At(u, <<p>> \o sub)
  BY <1>6, MovedAt
<1>8. k.sub = <<p>> \o sub
  BY <1>7 DEF At, Key
<1>9. <<c>> \o cs \in WaysTo(t, <<p>> \o sub) /\ TreeAt(t, <<c>> \o cs) = u
  <2> HIDE DEF AllPaths
  <2>1. p \in AllPaths /\ sub \in Seq(AllPaths) /\ p \in DOMAIN t /\ t[p] = SubEntry(c)
        /\ c \in DOMAIN SubTree /\ cs \in WaysTo(SubTree[c], sub)
    BY <1>2
  <2>2. \A x \in DOMAIN SubTree : \A y \in WaysTo(SubTree[x], sub) :
           t[p] = SubEntry(x) => /\ <<x>> \o y \in WaysTo(t, <<p>> \o sub)
                                 /\ TreeAt(t, <<x>> \o y) = TreeAt(SubTree[x], y)
    BY WayOn
  <2> QED
    BY <1>5, <2>1, <2>2
<1>10. <<p>> \o sub \in Seq(AllPaths) /\ <<p>> \o sub # <<>>
  OBVIOUS
<1>11. IsThere(t, k)
  BY <1>7, <1>8, <1>9, ThereIs
<1> QED
  BY <1>8, <1>10, <1>11

\* What is found in a submodule is there.
LEMMA SubKeysThere ==
  \A n \in 0..Levels : \A c \in DOMAIN SubTree : \A k \in SubKeys[n][c] :
     k.sub \in Seq(AllPaths) /\ IsThere(SubTree[c], k)
<1> DEFINE P == {n \in 0..Levels : \A c \in DOMAIN SubTree : \A k \in SubKeys[n][c] :
                                      k.sub \in Seq(AllPaths) /\ IsThere(SubTree[c], k)}
<1>1. ASSUME NEW c \in DOMAIN SubTree, NEW k \in OwnKeys(SubTree[c])
      PROVE  k.sub \in Seq(AllPaths) /\ IsThere(SubTree[c], k)
  <2>1. k \in At(SubTree[c], <<>>)
    BY <1>1, AtIs
  <2>2. k.sub = <<>> /\ k.sub \in Seq(AllPaths)
    <3>1. PICK p : k = Key(<<>>, p, SubTree[c][p].id)
      BY <2>1 DEF At
    <3> QED
      BY <3>1 DEF Key
  <2>3. <<>> \in WaysTo(SubTree[c], k.sub) /\ TreeAt(SubTree[c], <<>>) = SubTree[c]
    BY <2>2, NoWay
  <2> QED
    BY <2>1, <2>2, <2>3, ThereIs
<1>2. 0 \in P
  <2>1. \A c \in DOMAIN SubTree : SubKeys[0][c] = OwnKeys(SubTree[c])
    <3>1. SubKeys[0] = OneLevel(SubKeys, 0)
      BY SubKeysIs, LevelsNat
    <3>2. OneLevel(SubKeys, 0) = [c \in DOMAIN SubTree |-> OwnKeys(SubTree[c])]
      BY DEF OneLevel
    <3> QED
      BY <3>1, <3>2
  <2>2. 0 \in 0..Levels
    BY LevelsNat
  <2> QED
    BY <1>1, <2>1, <2>2
<1>3. ASSUME NEW n \in 0..Levels, n # Levels, n \in P PROVE n + 1 \in P
  <2>1. n + 1 \in 0..Levels /\ (n + 1) - 1 = n /\ n + 1 # 0
    BY <1>3, LevelsNat
  <2>2. ASSUME NEW c \in DOMAIN SubTree, NEW k \in SubKeys[n + 1][c]
        PROVE  k.sub \in Seq(AllPaths) /\ IsThere(SubTree[c], k)
    <3> DEFINE In == Entered(SubTree[c], Declared(SubTree[c]))
    <3>1. SubKeys[n + 1][c] = OwnKeys(SubTree[c]) \cup UNION {Moved(p, SubKeys[n][SubTree[c][p].id]) : p \in In}
      <4>1. SubKeys[n + 1] = OneLevel(SubKeys, n + 1)
        BY <2>1, SubKeysIs
      <4> QED
        BY <2>1, <4>1 DEF OneLevel
    <3>2. CASE k \in OwnKeys(SubTree[c])
      BY <1>1, <3>2
    <3>3. CASE k \notin OwnKeys(SubTree[c])
      <4>1. PICK p \in In : k \in Moved(p, SubKeys[n][SubTree[c][p].id])
        BY <2>2, <3>1, <3>3
      <4>2. p \in DOMAIN SubTree[c] /\ SubTree[c][p].k = "sub" /\ SubTree[c][p].id \in DOMAIN SubTree
        BY <4>1 DEF Entered
      <4>3. SubTree[c][p] \in Entries /\ p \in AllPaths
        BY <4>2, SubEntries
      <4>4. \A l \in SubKeys[n][SubTree[c][p].id] :
               l.sub \in Seq(AllPaths) /\ IsThere(SubTree[SubTree[c][p].id], l)
        BY <1>3, <4>2
      <4> QED
        BY <4>1, <4>2, <4>3, <4>4, MovedThere
    <3> QED
      BY <3>2, <3>3
  <2> QED
    BY <2>1, <2>2
<1>4. 0..Levels \subseteq P
  <2> HIDE DEF P
  <2> QED
    BY <1>2, <1>3, LevelsNat, UpTo
<1> QED
  BY <1>4

\* What is in submodules that are declared is found, as far as the levels go.
LEMMA SubKeysDeclared ==
  \A n \in 0..Levels : \A c \in DOMAIN SubTree : \A sub \in Seq(AllPaths) : \A cs \in WaysTo(SubTree[c], sub) :
     Len(sub) <= n /\ AllDeclared(SubTree[c], sub, cs) => At(TreeAt(SubTree[c], cs), sub) \subseteq SubKeys[n][c]
<1> DEFINE Found(n, c, sub, cs) ==
             Len(sub) <= n /\ AllDeclared(SubTree[c], sub, cs)
               => At(TreeAt(SubTree[c], cs), sub) \subseteq SubKeys[n][c]
           P == {n \in 0..Levels : \A c \in DOMAIN SubTree : \A sub \in Seq(AllPaths) :
                                     \A cs \in WaysTo(SubTree[c], sub) : Found(n, c, sub, cs)}
<1>1. ASSUME NEW n \in 0..Levels, NEW c \in DOMAIN SubTree, NEW cs \in WaysTo(SubTree[c], <<>>)
      PROVE  At(TreeAt(SubTree[c], cs), <<>>) \subseteq SubKeys[n][c]
  <2>1. cs = <<>> /\ TreeAt(SubTree[c], cs) = SubTree[c]
    BY NoWay
  <2>2. SubKeys[n] = OneLevel(SubKeys, n)
    BY SubKeysIs
  <2>3. OwnKeys(SubTree[c]) \subseteq SubKeys[n][c]
    BY <2>2 DEF OneLevel
  <2> QED
    BY <2>1, <2>3, AtIs
<1>2. 0 \in P
  <2>1. ASSUME NEW c \in DOMAIN SubTree, NEW sub \in Seq(AllPaths), NEW cs \in WaysTo(SubTree[c], sub), Len(sub) <= 0
        PROVE  At(TreeAt(SubTree[c], cs), sub) \subseteq SubKeys[0][c]
    <3>1. sub = <<>>
      BY <2>1
    <3> QED
      BY <1>1, <2>1, <3>1, LevelsNat
  <2>2. 0 \in 0..Levels
    BY LevelsNat
  <2> QED
    BY <2>1, <2>2
<1>3. ASSUME NEW n \in 0..Levels, n # Levels, n \in P PROVE n + 1 \in P
  <2>1. n + 1 \in 0..Levels /\ (n + 1) - 1 = n /\ n + 1 # 0
    BY <1>3, LevelsNat
  <2>2. ASSUME NEW c \in DOMAIN SubTree, NEW sub \in Seq(AllPaths), NEW cs \in WaysTo(SubTree[c], sub),
               Len(sub) <= n + 1, AllDeclared(SubTree[c], sub, cs)
        PROVE  At(TreeAt(SubTree[c], cs), sub) \subseteq SubKeys[n + 1][c]
    <3>1. CASE sub = <<>>
      BY <1>1, <2>1, <3>1
    <3>2. CASE sub # <<>>
      <4>1. PICK p, d, rest, ds : p = sub[1] /\ d = cs[1] /\ rest = Tail(sub) /\ ds = Tail(cs)
        OBVIOUS
      <4>2. /\ d \in DOMAIN SubTree /\ p \in DOMAIN SubTree[c] /\ SubTree[c][p] = SubEntry(d)
            /\ ds \in WaysTo(SubTree[d], rest)
            /\ TreeAt(SubTree[c], cs) = TreeAt(SubTree[d], ds)
            /\ p \in Declared(SubTree[c]) /\ AllDeclared(SubTree[d], rest, ds)
        BY <2>2, <3>2, <4>1, WayBack
      <4>3. rest \in Seq(AllPaths) /\ Len(rest) <= n
        <5>1. rest \in Seq(AllPaths)
          BY <3>2, <4>1, TailType
        <5>2. Len(rest) = Len(sub) - 1
          BY <3>2, <4>1
        <5> QED
          BY <2>2, <5>1, <5>2
      <4>4. PICK u : u = TreeAt(SubTree[d], ds)
        OBVIOUS
      <4>5. At(u, rest) \subseteq SubKeys[n][d]
        <5>1. Found(n, d, rest, ds)
          BY <1>3, <4>2, <4>3
        <5> QED
          BY <4>2, <4>3, <4>4, <5>1
      <4>6. p \in Entered(SubTree[c], Declared(SubTree[c])) /\ SubTree[c][p].id = d
        BY <4>2 DEF Entered, SubEntry
      <4>7. Moved(p, SubKeys[n][d]) \subseteq SubKeys[n + 1][c]
        <5>1. SubKeys[n + 1] = OneLevel(SubKeys, n + 1)
          BY <2>1, SubKeysIs
        <5> QED
          BY <2>1, <4>6, <5>1 DEF OneLevel
      <4>8. At(u, <<p>> \o rest) \subseteq Moved(p, SubKeys[n][d])
        <5>1. Moved(p, At(u, rest)) \subseteq Moved(p, SubKeys[n][d])
          BY <4>5 DEF Moved
        <5> QED
          BY <5>1, MovedAt
      <4>9. sub = <<p>> \o rest
        BY <3>2, <4>1
      <4> QED
        BY <4>2, <4>4, <4>7, <4>8, <4>9
    <3> QED
      BY <3>1, <3>2
  <2> QED
    BY <2>1, <2>2
<1>4. 0..Levels \subseteq P
  <2> HIDE DEF P
  <2> QED
    BY <1>2, <1>3, LevelsNat, UpTo
<1> QED
  BY <1>4

-----------------------------------------------------------------------------
(* A walk over all branches.                                               *)

Trees == [Paths -> Entries]

\* Key k is in tree t, where a walker looks.
InTree(t, k) ==
  /\ k.sub \in Seq(AllPaths) /\ IsThere(t, k)
  /\ k.sub = <<>> \/ gitOpts.submodules

\* The files of submodules a walker finds in tree t, with the modules it goes by.
NewKeys(t, mods) ==
  UNION {Moved(p, SubKeys[Levels][t[p].id]) : p \in IF gitOpts.submodules THEN Entered(t, mods) ELSE {}}

\* The modules it goes by.
ModulesIn(rw, t) == IF IsFile(t, GitModules) THEN Declared(t) ELSE rw.mods

\* The files f after a tree is visited for branch b: own and new keys beside the old files.
Adds(f, old, own, new, b) ==
  /\ DOMAIN f = DOMAIN old \cup own \cup new
  /\ \A k \in DOMAIN f : f[k] = IF k \in new THEN {b}
                                ELSE (IF k \in DOMAIN old THEN old[k] ELSE {}) \cup
                                     (IF k \in own THEN {b} ELSE {})

LEMMA CollectIs ==
  ASSUME NEW rw, NEW t, NEW b
  PROVE  Adds(CollectFiles(rw, t, b).files, rw.files, OwnKeys(t), NewKeys(t, ModulesIn(rw, t)), b)
<1>1. PICK f, old, own, new : /\ f = CollectFiles(rw, t, b).files /\ old = rw.files
                              /\ own = OwnKeys(t) /\ new = NewKeys(t, ModulesIn(rw, t))
  OBVIOUS
<1> DEFINE kept == AddBranch(old, own, b)
<1>2. f = [k \in DOMAIN kept \cup new |-> IF k \in new THEN {b} ELSE kept[k]]
  BY <1>1 DEF CollectFiles, NewKeys, ModulesIn
<1>3. /\ DOMAIN kept = DOMAIN old \cup own
      /\ \A k \in DOMAIN kept : kept[k] = (IF k \in DOMAIN old THEN old[k] ELSE {}) \cup
                                          (IF k \in own THEN {b} ELSE {})
  BY DEF AddBranch
<1> HIDE DEF kept
<1>4. DOMAIN f = DOMAIN old \cup own \cup new
  BY <1>2, <1>3
<1>5. ASSUME NEW k \in DOMAIN f
      PROVE  f[k] = IF k \in new THEN {b}
                    ELSE (IF k \in DOMAIN old THEN old[k] ELSE {}) \cup
                         (IF k \in own THEN {b} ELSE {})
  <2>1. f[k] = IF k \in new THEN {b} ELSE kept[k]
    BY <1>2, <1>5
  <2>2. k \notin new => k \in DOMAIN kept
    BY <1>3, <1>4
  <2> QED
    BY <1>3, <2>1, <2>2
<1>6. Adds(f, old, own, new, b)
  BY <1>4, <1>5 DEF Adds
<1> QED
  BY <1>1, <1>6

LEMMA OwnIn ==
  ASSUME NEW t, NEW k \in OwnKeys(t)
  PROVE  k.sub = <<>> /\ InTree(t, k)
<1>1. k \in At(t, <<>>)
  BY AtIs
<1>2. PICK p : k = Key(<<>>, p, t[p].id)
  BY <1>1 DEF At
<1>3. k.sub = <<>> /\ k.sub \in Seq(AllPaths)
  BY <1>2 DEF Key
<1>4. <<>> \in WaysTo(t, k.sub) /\ TreeAt(t, <<>>) = t
  BY <1>3, NoWay
<1> QED
  BY <1>1, <1>3, <1>4, ThereIs DEF InTree

\* All that is found in submodules is there, and all that is declared is found.
LEMMA NewIn ==
  ASSUME NEW t \in Trees, NEW mods, NEW k \in NewKeys(t, mods)
  PROVE  gitOpts.submodules /\ k.sub # <<>> /\ InTree(t, k)
<1>1. PICK p \in Entered(t, mods) : gitOpts.submodules /\ k \in Moved(p, SubKeys[Levels][t[p].id])
  BY DEF NewKeys
<1>2. p \in DOMAIN t /\ t[p].k = "sub" /\ t[p].id \in DOMAIN SubTree
  BY DEF Entered
<1>3. p \in AllPaths /\ t[p] \in Entries
  BY <1>2 DEF Trees, AllPaths
<1>4. \A l \in SubKeys[Levels][t[p].id] : l.sub \in Seq(AllPaths) /\ IsThere(SubTree[t[p].id], l)
  BY <1>2, SubKeysThere, LevelsNat
<1>5. k.sub \in Seq(AllPaths) /\ k.sub # <<>> /\ IsThere(t, k)
  BY <1>1, <1>2, <1>3, <1>4, MovedThere
<1> QED
  BY <1>1, <1>5 DEF InTree

LEMMA NewDeclared ==
  ASSUME NEW t, gitOpts.submodules, NEW rw,
         NEW sub \in Seq(AllPaths), sub # <<>>, Len(sub) <= Levels, NEW cs \in WaysTo(t, sub), AllDeclared(t, sub, cs)
  PROVE  At(TreeAt(t, cs), sub) \subseteq NewKeys(t, ModulesIn(rw, t))
<1>1. PICK p, d, rest, ds : p = sub[1] /\ d = cs[1] /\ rest = Tail(sub) /\ ds = Tail(cs)
  OBVIOUS
<1>2. /\ d \in DOMAIN SubTree /\ p \in DOMAIN t /\ t[p] = SubEntry(d)
      /\ ds \in WaysTo(SubTree[d], rest)
      /\ TreeAt(t, cs) = TreeAt(SubTree[d], ds)
      /\ p \in Declared(t) /\ AllDeclared(SubTree[d], rest, ds)
  BY <1>1, WayBack
<1>3. rest \in Seq(AllPaths) /\ Len(rest) <= Levels
  <2>1. rest \in Seq(AllPaths)
    BY <1>1, TailType
  <2>2. Len(rest) = Len(sub) - 1
    BY <1>1
  <2> QED
    BY <2>1, <2>2, LevelsNat
<1>4. PICK u : u = TreeAt(SubTree[d], ds)
  OBVIOUS
<1>5. At(u, rest) \subseteq SubKeys[Levels][d]
  <2>1. Levels \in 0..Levels
    BY LevelsNat
  <2> QED
    BY <1>2, <1>3, <1>4, <2>1, SubKeysDeclared
<1>6. p \in Entered(t, ModulesIn(rw, t)) /\ t[p].id = d
  <2>1. ModulesIn(rw, t) = Declared(t)
    BY <1>2 DEF ModulesIn, Declared
  <2> QED
    BY <1>2, <2>1 DEF Entered, SubEntry
<1>7. Moved(p, SubKeys[Levels][d]) \subseteq NewKeys(t, ModulesIn(rw, t))
  BY <1>6 DEF NewKeys
<1>8. At(u, <<p>> \o rest) \subseteq Moved(p, SubKeys[Levels][d])
  <2>1. Moved(p, At(u, rest)) \subseteq Moved(p, SubKeys[Levels][d])
    BY <1>5 DEF Moved
  <2> QED
    BY <2>1, MovedAt
<1>9. sub = <<p>> \o rest
  BY <1>1
<1> QED
  BY <1>2, <1>4, <1>7, <1>8, <1>9

\* The walker after each of the branches.
Visited(desc, g, i) ==
  IF i = 0 THEN [files |-> <<>>, mods |-> {}]
  ELSE CollectFiles(g[i - 1], commits[desc[i].version], desc[i].name)
WalkedAs(desc, g, m) == g = [i \in 0..m |-> Visited(desc, g, i)]

LEMMA WalkMore ==
  ASSUME NEW desc, NEW m \in Nat, NEW g, WalkedAs(desc, g, m)
  PROVE  \E h : WalkedAs(desc, h, m + 1)
<1> DEFINE h == [n \in 0..(m + 1) |-> IF n = m + 1 THEN Visited(desc, g, m + 1) ELSE g[n]]
<1>1. \A n \in 0..m : g[n] = Visited(desc, g, n)
  BY DEF WalkedAs
<1>2. \A n \in 0..m : h[n] = g[n]
  OBVIOUS
<1>3. h[m + 1] = Visited(desc, g, m + 1)
  OBVIOUS
<1>4. h = [n \in 0..(m + 1) |-> h[n]]
  OBVIOUS
<1> HIDE DEF h
<1>5. ASSUME NEW n \in 0..(m + 1) PROVE h[n] = Visited(desc, h, n)
  <2>1. Visited(desc, h, n) = Visited(desc, g, n)
    <3>1. CASE n = 0
      BY <3>1 DEF Visited
    <3>2. CASE n # 0
      <4>1. h[n - 1] = g[n - 1]
        BY <1>2, <3>2
      <4> QED
        BY <4>1 DEF Visited
    <3> QED
      BY <3>1, <3>2
  <2>2. CASE n = m + 1
    BY <1>3, <2>1, <2>2
  <2>3. CASE n # m + 1
    <3>1. n \in 0..m
      BY <2>3
    <3> QED
      BY <1>1, <1>2, <2>1, <3>1
  <2> QED
    BY <2>2, <2>3
<1>6. h = [n \in 0..(m + 1) |-> Visited(desc, h, n)]
  BY <1>4, <1>5
<1> QED
  BY <1>6 DEF WalkedAs

LEMMA WalkIs ==
  ASSUME NEW desc, Len(desc) \in Nat
  PROVE  \E g : WalkedAs(desc, g, Len(desc)) /\ prepareNormalBuild(desc) = g[Len(desc)].files
<1>1. PICK M \in Nat : M = Len(desc)
  OBVIOUS
<1> DEFINE P == {m \in 0..M : \E g : WalkedAs(desc, g, m)}
<1>2. 0 \in P
  <2> DEFINE e == [i \in 0..0 |-> Visited(desc, <<>>, 0)]
  <2>1. e = [i \in 0..0 |-> Visited(desc, e, i)]
    <3>1. Visited(desc, e, 0) = Visited(desc, <<>>, 0)
      BY DEF Visited
    <3> QED
      BY <3>1
  <2> HIDE DEF e
  <2>2. \E g : WalkedAs(desc, g, 0)
    BY <2>1 DEF WalkedAs
  <2>3. 0 \in 0..M
    BY <1>1
  <2> QED
    BY <2>2, <2>3
<1>3. ASSUME NEW m \in 0..M, m # M, m \in P PROVE m + 1 \in P
  <2>1. m \in Nat /\ m + 1 \in 0..M
    BY <1>1, <1>3
  <2>2. \E h : WalkedAs(desc, h, m + 1)
    BY <1>3, <2>1, WalkMore
  <2> QED
    BY <2>1, <2>2
<1>4. 0..M \subseteq P
  <2> HIDE DEF P
  <2> QED
    BY <1>1, <1>2, <1>3, UpTo
<1>5. PICK f : f = CHOOSE g : WalkedAs(desc, g, M)
  OBVIOUS
<1>6. WalkedAs(desc, f, M)
  BY <1>1, <1>4, <1>5
<1>7. prepareNormalBuild(desc) = (CHOOSE g : WalkedAs(desc, g, M))[M].files
  BY <1>1 DEF prepareNormalBuild, WalkedAs, Visited
<1> QED
  BY <1>1, <1>5, <1>6, <1>7

\* A description: branches with versions there are, the same for the same branch.
DescribedIn(desc, cm) ==
  /\ Len(desc) \in Nat /\ DOMAIN desc = 1..Len(desc)
  /\ \A i \in DOMAIN desc : desc[i].version \in 1..Len(cm)
  /\ \A i, j \in DOMAIN desc : desc[i].name = desc[j].name => desc[i].version = desc[j].version
Described(desc) == DescribedIn(desc, commits)
TreeOf(desc, i) == commits[desc[i].version]

GitTypeOK ==
  /\ gitOpts \in GitOptions
  /\ commits \in Seq(Trees)
  /\ refs \in [Range(Branches) -> 0..Len(commits)]

\* The files of m branches: they are in the trees, and have all that is to be found there.
OnlyThere(desc, files, m) ==
  \A k \in DOMAIN files : \A b \in files[k] : \E j \in 1..m : b = desc[j].name /\ InTree(TreeOf(desc, j), k)
OwnFound(desc, files, m) ==
  \A j \in 1..m : \A k \in OwnKeys(TreeOf(desc, j)) : k \in DOMAIN files /\ desc[j].name \in files[k]

\* The way is not to the tree itself, and all submodules on it are declared.
Reached(t, sub, cs) == sub # <<>> /\ Len(sub) <= Levels /\ AllDeclared(t, sub, cs)
SubFound(desc, files, m) ==
  gitOpts.submodules =>
    \A j \in 1..m : \A sub \in Seq(AllPaths) : \A cs \in WaysTo(TreeOf(desc, j), sub) :
      Reached(TreeOf(desc, j), sub, cs) =>
        \A k \in At(TreeAt(TreeOf(desc, j), cs), sub) :
          (\A l \in (j + 1)..m : ~IsThere(TreeOf(desc, l), k)) => k \in DOMAIN files /\ desc[j].name \in files[k]
FilesExact(desc, files, m) == OnlyThere(desc, files, m) /\ OwnFound(desc, files, m) /\ SubFound(desc, files, m)

LEMMA TreeType ==
  ASSUME GitTypeOK, NEW desc, Described(desc), NEW i \in DOMAIN desc
  PROVE  TreeOf(desc, i) \in Trees
<1>1. desc[i].version \in 1..Len(commits) /\ commits \in Seq(Trees)
  BY DEF GitTypeOK, Described, DescribedIn
<1> QED
  BY <1>1 DEF TreeOf

\* One more branch.
LEMMA OneMore ==
  ASSUME GitTypeOK, NEW desc, Described(desc), NEW m \in Nat, m + 1 \in DOMAIN desc,
         NEW rw, FilesExact(desc, rw.files, m)
  PROVE  FilesExact(desc, CollectFiles(rw, TreeOf(desc, m + 1), desc[m + 1].name).files, m + 1)
<1>0. PICK b : b = desc[m + 1].name
  OBVIOUS
<1>1. PICK t \in Trees : t = TreeOf(desc, m + 1) /\ b = desc[m + 1].name
  BY <1>0, TreeType
<1>2. PICK new : new = NewKeys(t, ModulesIn(rw, t))
  OBVIOUS
<1>3. PICK f, F : f = rw.files /\ F = CollectFiles(rw, t, b).files
  OBVIOUS
<1>4. /\ DOMAIN F = DOMAIN f \cup OwnKeys(t) \cup new
      /\ \A k \in DOMAIN F : F[k] = IF k \in new THEN {b}
                                    ELSE (IF k \in DOMAIN f THEN f[k] ELSE {}) \cup
                                         (IF k \in OwnKeys(t) THEN {b} ELSE {})
  <2>1. Adds(F, f, OwnKeys(t), new, b)
    BY <1>2, <1>3, CollectIs
  <2> QED
    BY <2>1 DEF Adds
<1>5. \A k \in new : gitOpts.submodules /\ k.sub # <<>> /\ InTree(t, k)
  BY <1>2, NewIn
<1>6. \A k \in OwnKeys(t) : InTree(t, k)
  BY OwnIn
<1>7. \A j \in 1..(m + 1) : j = m + 1 \/ j \in 1..m
  OBVIOUS
<1>8. OnlyThere(desc, F, m + 1)
  <2> SUFFICES ASSUME NEW k \in DOMAIN F, NEW c \in F[k]
               PROVE  \E j \in 1..(m + 1) : c = desc[j].name /\ InTree(TreeOf(desc, j), k)
    BY DEF OnlyThere
  <2>1. CASE k \in new \cup OwnKeys(t) /\ c = b
    <3>1. m + 1 \in 1..(m + 1) /\ c = desc[m + 1].name /\ InTree(TreeOf(desc, m + 1), k)
      BY <1>1, <1>5, <1>6, <2>1
    <3> QED
      BY <3>1
  <2>2. CASE k \in DOMAIN f /\ c \in f[k]
    <3>1. PICK j \in 1..m : c = desc[j].name /\ InTree(TreeOf(desc, j), k)
      BY <1>3, <2>2 DEF FilesExact, OnlyThere
    <3>2. j \in 1..(m + 1)
      OBVIOUS
    <3> QED
      BY <3>1, <3>2
  <2> QED
    BY <1>4, <2>1, <2>2
<1>9. OwnFound(desc, F, m + 1)
  <2> SUFFICES ASSUME NEW j \in 1..(m + 1), NEW k \in OwnKeys(TreeOf(desc, j))
               PROVE  k \in DOMAIN F /\ desc[j].name \in F[k]
    BY DEF OwnFound
  <2>1. k \notin new
    BY <1>5, OwnIn
  <2>2. CASE j = m + 1
    BY <1>1, <1>4, <2>1, <2>2
  <2>3. CASE j \in 1..m
    <3>1. k \in DOMAIN f /\ desc[j].name \in f[k]
      BY <1>3, <2>3 DEF FilesExact, OwnFound
    <3> QED
      BY <1>4, <2>1, <3>1
  <2> QED
    BY <1>7, <2>2, <2>3
<1>10. SubFound(desc, F, m + 1)
  <2> SUFFICES ASSUME gitOpts.submodules,
                      NEW j \in 1..(m + 1), NEW sub \in Seq(AllPaths), NEW cs \in WaysTo(TreeOf(desc, j), sub),
                      Reached(TreeOf(desc, j), sub, cs),
                      NEW k \in At(TreeAt(TreeOf(desc, j), cs), sub),
                      \A l \in (j + 1)..(m + 1) : ~IsThere(TreeOf(desc, l), k)
               PROVE  k \in DOMAIN F /\ desc[j].name \in F[k]
    BY DEF SubFound
  <2>1. CASE j = m + 1
    <3>1. At(TreeAt(t, cs), sub) \subseteq new
      BY <1>1, <1>2, <2>1, NewDeclared DEF Reached
    <3>2. k \in new
      BY <1>1, <2>1, <3>1
    <3> QED
      BY <1>1, <1>4, <2>1, <3>2
  <2>2. CASE j \in 1..m
    <3>1. \A l \in (j + 1)..m : l \in (j + 1)..(m + 1)
      OBVIOUS
    <3>2. k \in DOMAIN f /\ desc[j].name \in f[k]
      BY <1>3, <2>2, <3>1 DEF FilesExact, SubFound
    <3>3. m + 1 \in (j + 1)..(m + 1)
      BY <2>2
    <3>4. k \notin new
      BY <1>1, <1>5, <3>3 DEF InTree
    <3> QED
      BY <1>4, <3>2, <3>4
  <2> QED
    BY <1>7, <2>1, <2>2
<1> QED
  BY <1>1, <1>3, <1>8, <1>9, <1>10 DEF FilesExact

\* What a normal build indexes.
LEMMA NormalFiles ==
  ASSUME GitTypeOK, NEW desc, Described(desc)
  PROVE  FilesExact(desc, prepareNormalBuild(desc), Len(desc))
<1>1. PICK M \in Nat : M = Len(desc) /\ DOMAIN desc = 1..M
  BY DEF Described, DescribedIn
<1>2. PICK g : WalkedAs(desc, g, M) /\ prepareNormalBuild(desc) = g[M].files
  BY <1>1, WalkIs
<1> DEFINE P == {m \in 0..M : FilesExact(desc, g[m].files, m)}
<1>3. 0 \in P
  <2>1. g[0] = [files |-> <<>>, mods |-> {}]
    BY <1>1, <1>2 DEF WalkedAs, Visited
  <2>2. PICK f : f = g[0].files /\ DOMAIN f = {}
    BY <2>1
  <2>3. FilesExact(desc, f, 0)
    BY <2>2 DEF FilesExact, OnlyThere, OwnFound, SubFound
  <2>4. 0 \in 0..M
    BY <1>1
  <2> QED
    BY <2>2, <2>3, <2>4
<1>4. ASSUME NEW m \in 0..M, m # M, m \in P PROVE m + 1 \in P
  <2>1. m \in Nat /\ m + 1 \in 0..M /\ m + 1 \in DOMAIN desc /\ (m + 1) - 1 = m /\ m + 1 # 0
    BY <1>1, <1>4
  <2>2. g[m + 1] = CollectFiles(g[m], TreeOf(desc, m + 1), desc[m + 1].name)
    BY <1>2, <2>1 DEF WalkedAs, Visited, TreeOf
  <2>3. FilesExact(desc, g[m].files, m)
    BY <1>4
  <2>4. FilesExact(desc, g[m + 1].files, m + 1)
    BY <2>1, <2>2, <2>3, OneMore
  <2> QED
    BY <2>1, <2>4
<1>5. 0..M \subseteq P
  <2> HIDE DEF P
  <2> QED
    BY <1>1, <1>3, <1>4, UpTo
<1> QED
  BY <1>1, <1>2, <1>5

-----------------------------------------------------------------------------
(* What the shards have.                                                   *)

\* Document d is a live one of branch b in the i-th of the shards sh.
LiveDoc(sh, b, i, d) ==
  i \in DOMAIN sh /\ d \in sh[i].docs /\ b \in d.branches /\ d.name \notin sh[i].tombs

\* Correct, with only one shard or more.
Match(d, t, one) ==
  \E cs \in WaysTo(t, d.sub) :
    LET u == TreeAt(t, cs)
        p == Last(d.name)
    IN /\ d.name = Append(d.sub, p) /\ IsFile(u, p)
       /\ d.content = createDocument(Key(d.sub, p, u[p].id), d.branches).content
       /\ one => p \notin Ignored(u)

\* What is found on branch b is in its tree t; no name is found twice; each file of t is
\* found; and each file of a submodule, unless a later branch has the same.
Right(sh, b, t, subs) ==
  \A i, d : LiveDoc(sh, b, i, d) => Match(d, t, Len(sh) = 1) /\ (subs \/ d.sub = <<>>)
Once(sh, b) ==
  \A i, j, d, e : LiveDoc(sh, b, i, d) /\ LiveDoc(sh, b, j, e) /\ d.name = e.name => i = j /\ d = e
Whole(sh, b, t) ==
  \A p \in Files(t) \ Ignored(t) : \E i, d : LiveDoc(sh, b, i, d) /\ d.name = <<p>>
SubsWhole(sh, desc, cm) ==
  \A i \in DOMAIN desc : \A sub \in Seq(AllPaths) : \A cs \in WaysTo(cm[desc[i].version], sub) :
    Reached(cm[desc[i].version], sub, cs) =>
      \A k \in At(TreeAt(cm[desc[i].version], cs), sub) :
        (\A l \in (i + 1)..Len(desc) : ~IsThere(cm[desc[l].version], k))
          => \E j, d : LiveDoc(sh, desc[i].name, j, d) /\ d.name = FullPath(k)

IsShard(s) == s = [docs |-> s.docs, tombs |-> s.tombs, branches |-> s.branches, hash |-> s.hash]

\* s is a sequence of length n.
Fills(s, n) == Len(s) = n /\ s = [i \in 1..n |-> s[i]]

\* The shards sh are exact for the commits cm: the invariant of GitSpec.
Exact(sh, cm, subs) ==
  /\ Len(sh) \in Nat \ {0} /\ Fills(sh, Len(sh))
  /\ \A i \in 1..Len(sh) : IsShard(sh[i]) /\ sh[i].branches = sh[1].branches /\ sh[i].hash = sh[1].hash
  /\ DescribedIn(sh[1].branches, cm)
  /\ \A i \in DOMAIN sh[1].branches :
       LET b == sh[1].branches[i].name  t == cm[sh[1].branches[i].version]
       IN Right(sh, b, t, subs) /\ Once(sh, b) /\ Whole(sh, b, t)
  /\ subs => Len(sh) = 1 /\ SubsWhole(sh, sh[1].branches, cm)

LEMMA LastAppend ==
  ASSUME NEW S, NEW s \in Seq(S), NEW p
  PROVE  Last(Append(s, p)) = p
<1>1. s \in Seq(S \cup {p}) /\ p \in S \cup {p}
  OBVIOUS
<1>2. Len(Append(s, p)) = Len(s) + 1 /\ Append(s, p)[Len(s) + 1] = p
  BY <1>1
<1> QED
  BY <1>2 DEF Last

LEMMA AppendInjective ==
  ASSUME NEW S, NEW s \in Seq(S), NEW r \in Seq(S), NEW p, NEW q, Append(s, p) = Append(r, q)
  PROVE  s = r /\ p = q
<1>1. PICK T : T = S \cup {p, q}
  OBVIOUS
<1>2. s \in Seq(T) /\ r \in Seq(T) /\ p \in T /\ q \in T
  BY <1>1
<1>3. Len(Append(s, p)) = Len(s) + 1 /\ Len(Append(r, q)) = Len(r) + 1
  BY <1>2
<1>4. Len(s) = Len(r) /\ Len(s) \in Nat
  BY <1>3
<1>5. p = q
  BY LastAppend
<1>6. \A i \in 1..Len(s) : s[i] = r[i]
  <2>1. \A i \in 1..Len(s) : Append(s, p)[i] = s[i] /\ Append(r, q)[i] = r[i]
    BY <1>2, <1>4
  <2> QED
    BY <2>1
<1> QED
  BY <1>4, <1>5, <1>6

\* A key in a tree stands for a file there that is not ignored.
LEMMA InTreeIs ==
  ASSUME NEW t, NEW k, InTree(t, k)
  PROVE  \E cs \in WaysTo(t, k.sub) : \E p \in Files(TreeAt(t, cs)) \ Ignored(TreeAt(t, cs)) :
           k = Key(k.sub, p, TreeAt(t, cs)[p].id)
<1>1. PICK cs \in WaysTo(t, k.sub) : k \in At(TreeAt(t, cs), k.sub)
  BY ThereIs DEF InTree
<1> QED
  BY <1>1 DEF At

LEMMA DocumentIs ==
  ASSUME NEW k, NEW B
  PROVE  LET d == createDocument(k, B)
         IN d.name = Append(k.sub, k.path) /\ d.sub = k.sub /\ d.branches = B
BY DEF createDocument, FullPath

\* Its document is right.
LEMMA DocumentRight ==
  ASSUME NEW t, NEW k, InTree(t, k), NEW B, NEW d, d = createDocument(k, B), NEW one
  PROVE  Match(d, t, one) /\ (gitOpts.submodules \/ d.sub = <<>>)
<1>1. PICK cs \in WaysTo(t, k.sub) : \E p \in Files(TreeAt(t, cs)) \ Ignored(TreeAt(t, cs)) :
                                        k = Key(k.sub, p, TreeAt(t, cs)[p].id)
  BY InTreeIs
<1>2. PICK u : u = TreeAt(t, cs)
  OBVIOUS
<1>3. PICK p \in Files(u) \ Ignored(u) : k = Key(k.sub, p, u[p].id)
  BY <1>1, <1>2
<1>4. PICK sub \in Seq(AllPaths) : sub = k.sub
  BY DEF InTree
<1>5. k.path = p
  BY <1>3 DEF Key
<1>6. d.name = Append(sub, p) /\ d.sub = sub /\ d.branches = B
  BY <1>4, <1>5, DocumentIs
<1>7. Last(d.name) = p
  BY <1>6, LastAppend
<1>8. IsFile(u, p)
  BY DEF Files, IsFile
<1>9. d.content = createDocument(Key(sub, p, u[p].id), B).content
  BY <1>3, <1>4
<1>10. Match(d, t, one)
  BY <1>2, <1>4, <1>6, <1>7, <1>8, <1>9 DEF Match
<1> QED
  BY <1>4, <1>6, <1>10 DEF InTree

\* Of two keys in one tree, only one has a given name.
LEMMA KeyOnce ==
  ASSUME NEW t, NEW k, NEW l, InTree(t, k), InTree(t, l), Append(k.sub, k.path) = Append(l.sub, l.path)
  PROVE  k = l
<1>1. PICK cs \in WaysTo(t, k.sub) : \E p \in Files(TreeAt(t, cs)) \ Ignored(TreeAt(t, cs)) :
                                        k = Key(k.sub, p, TreeAt(t, cs)[p].id)
  BY InTreeIs
<1>2. PICK ds \in WaysTo(t, l.sub) : \E p \in Files(TreeAt(t, ds)) \ Ignored(TreeAt(t, ds)) :
                                        l = Key(l.sub, p, TreeAt(t, ds)[p].id)
  BY InTreeIs
<1>3. k.sub \in Seq(AllPaths) /\ l.sub \in Seq(AllPaths)
  BY DEF InTree
<1>4. k.sub = l.sub /\ k.path = l.path
  <2>1. PICK s, r, p, q : s = k.sub /\ r = l.sub /\ p = k.path /\ q = l.path
    OBVIOUS
  <2>2. s \in Seq(AllPaths) /\ r \in Seq(AllPaths) /\ Append(s, p) = Append(r, q)
    BY <1>3, <2>1
  <2>3. s = r /\ p = q
    BY <2>2, AppendInjective
  <2> QED
    BY <2>1, <2>3
<1>5. PICK sub \in Seq(AllPaths) : sub = k.sub /\ sub = l.sub
  BY <1>3, <1>4
<1>6. cs = ds
  BY <1>5, OneWay
<1>7. PICK u : u = TreeAt(t, cs)
  OBVIOUS
<1>8. PICK p : k = Key(sub, p, u[p].id)
  BY <1>1, <1>5, <1>7
<1>9. PICK q : l = Key(sub, q, u[q].id)
  BY <1>2, <1>5, <1>6, <1>7
<1>10. k.path = p /\ l.path = q
  BY <1>8, <1>9 DEF Key
<1> QED
  BY <1>4, <1>8, <1>9, <1>10

\* A normal build is exact.
LEMMA NormalExact ==
  ASSUME GitTypeOK, NEW desc, Described(desc), NEW hash,
         NEW sh, sh = <<NewShard(prepareNormalBuild(desc), desc, hash)>>
  PROVE  Exact(sh, commits, gitOpts.submodules)
<1>1. PICK F : F = prepareNormalBuild(desc)
  OBVIOUS
<1>2. PICK M \in Nat : M = Len(desc) /\ DOMAIN desc = 1..M
  BY DEF Described, DescribedIn
<1>3. OnlyThere(desc, F, M) /\ OwnFound(desc, F, M) /\ SubFound(desc, F, M)
  BY <1>1, <1>2, NormalFiles DEF FilesExact
<1>4. /\ Len(sh) = 1 /\ sh = [i \in 1..1 |-> sh[i]] /\ DOMAIN sh = {1}
      /\ sh[1] = [docs |-> Documents(F), tombs |-> {}, branches |-> desc, hash |-> hash]
  BY <1>1 DEF NewShard
<1>5. \A b, i, d : LiveDoc(sh, b, i, d) <=> i = 1 /\ d \in Documents(F) /\ b \in d.branches
  BY <1>4 DEF LiveDoc
<1>6. ASSUME NEW i \in DOMAIN desc, NEW j, NEW d, LiveDoc(sh, desc[i].name, j, d)
      PROVE  \E k \in DOMAIN F : d = createDocument(k, F[k]) /\ InTree(TreeOf(desc, i), k)
  <2>1. PICK k \in DOMAIN F : d = createDocument(k, F[k])
    BY <1>5, <1>6 DEF Documents
  <2>2. desc[i].name \in F[k]
    BY <1>5, <1>6, <2>1, DocumentIs
  <2>3. PICK l \in 1..M : desc[i].name = desc[l].name /\ InTree(TreeOf(desc, l), k)
    BY <1>3, <2>2 DEF OnlyThere
  <2>4. TreeOf(desc, l) = TreeOf(desc, i)
    BY <1>2, <2>3 DEF Described, DescribedIn, TreeOf
  <2> QED
    BY <2>1, <2>3, <2>4
<1>7. ASSUME NEW b, NEW k \in DOMAIN F, b \in F[k]
      PROVE  LiveDoc(sh, b, 1, createDocument(k, F[k]))
  <2>1. createDocument(k, F[k]) \in Documents(F)
    BY DEF Documents
  <2>2. b \in createDocument(k, F[k]).branches
    BY <1>7, DocumentIs
  <2> QED
    BY <1>5, <2>1, <2>2
<1>8. ASSUME NEW i \in DOMAIN desc
      PROVE  /\ Right(sh, desc[i].name, TreeOf(desc, i), gitOpts.submodules)
             /\ Once(sh, desc[i].name)
             /\ Whole(sh, desc[i].name, TreeOf(desc, i))
  <2> DEFINE b == desc[i].name
             t == TreeOf(desc, i)
  <2>1. Right(sh, b, t, gitOpts.submodules)
    <3> SUFFICES ASSUME NEW j, NEW d, LiveDoc(sh, b, j, d)
                 PROVE  Match(d, t, Len(sh) = 1) /\ (gitOpts.submodules \/ d.sub = <<>>)
      BY DEF Right
    <3>1. PICK k \in DOMAIN F : d = createDocument(k, F[k]) /\ InTree(t, k)
      BY <1>6
    <3> QED
      BY <3>1, DocumentRight
  <2>2. Once(sh, b)
    <3> SUFFICES ASSUME NEW j, NEW l, NEW d, NEW e, LiveDoc(sh, b, j, d), LiveDoc(sh, b, l, e), d.name = e.name
                 PROVE  j = l /\ d = e
      BY DEF Once
    <3>1. PICK k \in DOMAIN F : d = createDocument(k, F[k]) /\ InTree(t, k)
      BY <1>6
    <3>2. PICK m \in DOMAIN F : e = createDocument(m, F[m]) /\ InTree(t, m)
      BY <1>6
    <3>3. Append(k.sub, k.path) = Append(m.sub, m.path)
      BY <3>1, <3>2, DocumentIs
    <3>4. k = m
      BY <3>1, <3>2, <3>3, KeyOnce
    <3> QED
      BY <1>5, <3>1, <3>2, <3>4
  <2>3. Whole(sh, b, t)
    <3> SUFFICES ASSUME NEW p \in Files(t) \ Ignored(t)
                 PROVE  \E j, d : LiveDoc(sh, b, j, d) /\ d.name = <<p>>
      BY DEF Whole
    <3>1. PICK k : k = Key(<<>>, p, t[p].id)
      OBVIOUS
    <3>2. k \in OwnKeys(t)
      BY <3>1 DEF OwnKeys
    <3>3. k \in DOMAIN F /\ b \in F[k]
      BY <1>2, <1>3, <3>2 DEF OwnFound
    <3>4. createDocument(k, F[k]).name = <<p>>
      <4>1. k.sub = <<>> /\ k.path = p
        BY <3>1 DEF Key
      <4>2. Append(<<>>, p) = <<p>>
        OBVIOUS
      <4> QED
        BY <4>1, <4>2, DocumentIs
    <3> QED
      BY <1>7, <3>3, <3>4
  <2> QED
    BY <2>1, <2>2, <2>3
<1>9. ASSUME gitOpts.submodules PROVE SubsWhole(sh, desc, commits)
  <2> SUFFICES ASSUME NEW i \in DOMAIN desc, NEW sub \in Seq(AllPaths), NEW cs \in WaysTo(TreeOf(desc, i), sub),
                      Reached(TreeOf(desc, i), sub, cs), NEW k \in At(TreeAt(TreeOf(desc, i), cs), sub),
                      \A l \in (i + 1)..Len(desc) : ~IsThere(TreeOf(desc, l), k)
               PROVE  \E j, d : LiveDoc(sh, desc[i].name, j, d) /\ d.name = FullPath(k)
    BY DEF SubsWhole, TreeOf
  <2>1. k \in DOMAIN F /\ desc[i].name \in F[k]
    BY <1>2, <1>3, <1>9 DEF SubFound
  <2>2. createDocument(k, F[k]).name = FullPath(k)
    BY DEF createDocument
  <2> QED
    BY <1>7, <2>1, <2>2
<1>10. IsShard(sh[1]) /\ sh[1].branches = desc
  BY <1>4 DEF IsShard
<1>11. \A i \in 1..Len(sh) : i = 1
  BY <1>4
<1>12. \A i \in DOMAIN desc : TreeOf(desc, i) = commits[desc[i].version]
  BY DEF TreeOf
<1> QED
  BY <1>4, <1>8, <1>9, <1>10, <1>11, <1>12 DEF Exact, Described, Fills

-----------------------------------------------------------------------------
(* Delta builds.                                                           *)

\* What changed on the i-th branch, and the files of it that were there.
Changed(O, desc, i) == Diff(TreeOf(O, i), TreeOf(desc, i))
DeadOn(O, desc, i) == {p \in Changed(O, desc, i) : IsFile(TreeOf(O, i), p)}

\* A delta build adds, for every branch, the files that changed there and those
\* that are dead on any.
DeltaKey(desc, i, p) == Key(<<>>, p, TreeOf(desc, i)[p].id)
Renewed(O, desc, dead, i) == {p \in Changed(O, desc, i) \cup dead : IsFile(TreeOf(desc, i), p)}

LEMMA DeltaIs ==
  ASSUME NEW desc, NEW O, O = shards[1].branches,
         \A i \in DOMAIN desc : desc[i].version = refs[desc[i].name],
         NEW F, F = prepareDeltaBuild(desc).files, NEW D, D = prepareDeltaBuild(desc).dead
  PROVE  /\ \A p : p \in D <=> \E i \in DOMAIN desc : p \in DeadOn(O, desc, i)
         /\ \A k \in DOMAIN F : \A b \in F[k] : \E i \in DOMAIN desc :
              b = desc[i].name /\ \E p \in Renewed(O, desc, D, i) : k = DeltaKey(desc, i, p)
         /\ \A i \in DOMAIN desc : \A p \in Renewed(O, desc, D, i) :
              DeltaKey(desc, i, p) \in DOMAIN F /\ desc[i].name \in F[DeltaKey(desc, i, p)]
<1> DEFINE Old(i) == commits[shards[1].branches[i].version]
           New(i) == commits[desc[i].version]
           dead(i) == {p \in Diff(Old(i), New(i)) : IsFile(Old(i), p)}
           added(i) == {<<Key(<<>>, p, New(i)[p].id), desc[i].name>> :
                          p \in {q \in Diff(Old(i), New(i)) : IsFile(New(i), q)}}
           all == UNION {added(i) \cup UNION {Readd(p, desc, desc[i].name) : p \in dead(i)} : i \in DOMAIN desc}
<1>1. /\ F = [k \in {x[1] : x \in all} |-> {x[2] : x \in {y \in all : y[1] = k}}]
      /\ D = UNION {dead(i) : i \in DOMAIN desc}
  BY DEF prepareDeltaBuild
<1>2. \A i : Old(i) = TreeOf(O, i) /\ New(i) = TreeOf(desc, i) /\ dead(i) = DeadOn(O, desc, i)
  BY DEF TreeOf, DeadOn, Changed
<1>3. \A p : p \in D <=> \E i \in DOMAIN desc : p \in DeadOn(O, desc, i)
  <2>1. \A p : p \in D <=> \E i \in DOMAIN desc : p \in dead(i)
    <3> HIDE DEF dead, all
    <3> QED
      BY <1>1
  <2> HIDE DEF dead
  <2> QED
    BY <1>2, <2>1
<1>4. ASSUME NEW x \in all
      PROVE  \E i \in DOMAIN desc : \E p \in Renewed(O, desc, D, i) : x = <<DeltaKey(desc, i, p), desc[i].name>>
  <2>1. PICK i \in DOMAIN desc : x \in added(i) \cup UNION {Readd(p, desc, desc[i].name) : p \in dead(i)}
    BY <1>4
  <2>2. CASE x \in added(i)
    <3>1. PICK p \in Diff(Old(i), New(i)) : IsFile(New(i), p) /\ x = <<Key(<<>>, p, New(i)[p].id), desc[i].name>>
      BY <2>2
    <3>2. p \in Renewed(O, desc, D, i)
      BY <1>2, <3>1 DEF Renewed, Changed
    <3>3. x = <<DeltaKey(desc, i, p), desc[i].name>>
      BY <1>2, <3>1 DEF DeltaKey
    <3> QED
      BY <3>2, <3>3
  <2>3. CASE x \notin added(i)
    <3>1. PICK p \in dead(i) : x \in Readd(p, desc, desc[i].name)
      BY <2>1, <2>3
    <3>2. PICK c \in {desc[j].name : j \in DOMAIN desc} :
                 IsFile(commits[refs[c]], p) /\ x = <<Key(<<>>, p, commits[refs[c]][p].id), c>>
      BY <3>1 DEF Readd
    <3>3. PICK j \in DOMAIN desc : c = desc[j].name
      BY <3>2
    <3>4. commits[refs[c]] = TreeOf(desc, j)
      BY <3>3 DEF TreeOf
    <3>5. p \in D
      BY <1>2, <1>3, <3>1
    <3>6. p \in Renewed(O, desc, D, j)
      BY <3>2, <3>4, <3>5 DEF Renewed
    <3>7. x = <<DeltaKey(desc, j, p), desc[j].name>>
      BY <3>2, <3>3, <3>4 DEF DeltaKey
    <3> QED
      BY <3>6, <3>7
  <2> QED
    BY <2>2, <2>3
<1>5. ASSUME NEW i \in DOMAIN desc, NEW p \in Renewed(O, desc, D, i)
      PROVE  <<DeltaKey(desc, i, p), desc[i].name>> \in all
  <2>1. IsFile(TreeOf(desc, i), p) /\ p \in Changed(O, desc, i) \cup D
    BY DEF Renewed
  <2>2. CASE p \in Changed(O, desc, i)
    <3>1. <<DeltaKey(desc, i, p), desc[i].name>> \in added(i)
      BY <1>2, <2>1, <2>2 DEF Changed, DeltaKey
    <3> QED
      BY <3>1
  <2>3. CASE p \in D
    <3>1. PICK j \in DOMAIN desc : p \in dead(j)
      BY <1>2, <1>3, <2>3
    <3>2. commits[refs[desc[i].name]] = TreeOf(desc, i)
      BY DEF TreeOf
    <3>3. <<DeltaKey(desc, i, p), desc[i].name>> \in Readd(p, desc, desc[j].name)
      BY <2>1, <3>2 DEF Readd, DeltaKey
    <3> QED
      BY <3>1, <3>3
  <2> QED
    BY <2>1, <2>2, <2>3
<1> HIDE DEF all
<1>6. ASSUME NEW k \in DOMAIN F, NEW b \in F[k]
      PROVE  \E i \in DOMAIN desc : b = desc[i].name /\ \E p \in Renewed(O, desc, D, i) : k = DeltaKey(desc, i, p)
  <2>1. F[k] = {x[2] : x \in {y \in all : y[1] = k}}
    BY <1>1
  <2>2. PICK x \in all : x[1] = k /\ x[2] = b
    BY <2>1
  <2>3. PICK i \in DOMAIN desc : \E p \in Renewed(O, desc, D, i) : x = <<DeltaKey(desc, i, p), desc[i].name>>
    BY <1>4
  <2> QED
    BY <2>2, <2>3
<1>7. ASSUME NEW i \in DOMAIN desc, NEW p \in Renewed(O, desc, D, i)
      PROVE  DeltaKey(desc, i, p) \in DOMAIN F /\ desc[i].name \in F[DeltaKey(desc, i, p)]
  <2>1. PICK k, x : k = DeltaKey(desc, i, p) /\ x = <<k, desc[i].name>>
    OBVIOUS
  <2>2. x \in all /\ x[1] = k /\ x[2] = desc[i].name
    BY <1>5, <2>1
  <2>3. k \in DOMAIN F
    BY <1>1, <2>2
  <2>4. F[k] = {y[2] : y \in {z \in all : z[1] = k}}
    BY <1>1, <2>3
  <2>5. desc[i].name \in F[k]
    BY <2>2, <2>4
  <2> QED
    BY <2>1, <2>3, <2>5
<1> QED
  BY <1>3, <1>6, <1>7

\* What is right about a document that is in no submodule.
LEMMA MatchOwn ==
  ASSUME NEW d, NEW t, NEW one, d.sub = <<>>
  PROVE  Match(d, t, one) <=>
           \E p : /\ d.name = <<p>> /\ IsFile(t, p)
                  /\ d.content = createDocument(Key(<<>>, p, t[p].id), d.branches).content
                  /\ one => p \notin Ignored(t)
<1>1. WaysTo(t, d.sub) = {<<>>} /\ TreeAt(t, <<>>) = t
  BY NoWay
<1>2. \A p : Append(<<>>, p) = <<p>> /\ Last(<<p>>) = p
  BY DEF Last
<1> QED
  BY <1>1, <1>2 DEF Match

\* g is f with one more element.
Extended(g, f, n, e) == Fills(g, n + 1) /\ g[n + 1] = e /\ \A i \in 1..n : g[i] = f[i]

LEMMA AppendIs ==
  ASSUME NEW n \in Nat, NEW f, Fills(f, n), NEW e, NEW g, g = Append(f, e)
  PROVE  Extended(g, f, n, e)
<1>1. PICK S : S = {f[i] : i \in 1..n} \cup {e}
  OBVIOUS
<1>2. f \in Seq(S) /\ Len(f) = n
  <2>1. f \in [1..n -> S]
    BY <1>1 DEF Fills
  <2> QED
    BY <2>1
<1>3. e \in S
  BY <1>1
<1>4. Fills(g, n + 1) /\ g[n + 1] = e /\ \A i \in 1..n : g[i] = f[i]
  BY <1>2, <1>3 DEF Fills
<1> QED
  BY <1>4 DEF Extended

\* A shard gets dead paths and new commits.
Marked(s, T, desc) == [docs |-> s.docs, tombs |-> s.tombs \cup T, branches |-> desc, hash |-> s.hash]

LEMMA MarkedIs ==
  ASSUME NEW s, IsShard(s), NEW T, NEW desc
  PROVE  [s EXCEPT !.tombs = @ \cup T, !.branches = desc] = Marked(s, T, desc)
<1>1. PICK a, b, c, h : a = s.docs /\ b = s.tombs /\ c = s.branches /\ h = s.hash
  OBVIOUS
<1>2. s = [docs |-> a, tombs |-> b, branches |-> c, hash |-> h]
  BY <1>1 DEF IsShard
<1>3. PICK X : X = s.tombs \cup T
  OBVIOUS
<1>4. [s EXCEPT !.tombs = X, !.branches = desc] = [docs |-> a, tombs |-> X, branches |-> desc, hash |-> h]
  <2>1. PICK r : r = [s EXCEPT !.tombs = X]
    OBVIOUS
  <2>2. r = [docs |-> a, tombs |-> X, branches |-> c, hash |-> h]
    BY <1>2, <2>1
  <2>3. [r EXCEPT !.branches = desc] = [docs |-> a, tombs |-> X, branches |-> desc, hash |-> h]
    BY <2>2
  <2> QED
    BY <2>1, <2>3
<1> QED
  BY <1>1, <1>3, <1>4 DEF Marked

LEMMA MarkedFields ==
  ASSUME NEW s, NEW T, NEW desc, NEW r, r = Marked(s, T, desc)
  PROVE  /\ r.docs = s.docs /\ r.tombs = s.tombs \cup T /\ r.branches = desc /\ r.hash = s.hash
         /\ IsShard(r)
<1>1. PICK a, b, h : a = s.docs /\ b = s.tombs \cup T /\ h = s.hash
  OBVIOUS
<1>2. r = [docs |-> a, tombs |-> b, branches |-> desc, hash |-> h]
  BY <1>1 DEF Marked
<1> QED
  BY <1>1, <1>2 DEF IsShard

LEMMA NamesInjective ==
  ASSUME NEW p, NEW q, <<p>> = <<q>>
  PROVE  p = q
OBVIOUS

\* The shards after a delta build.
Stacks(sh, n, F, T, desc, hash) ==
  /\ \A i \in 1..n : sh[i] = Marked(shards[i], T, desc)
  /\ F = <<>> => Fills(sh, n)
  /\ F # <<>> => Fills(sh, n + 1) /\ sh[n + 1] = NewShard(F, desc, hash)

LEMMA StackedIs ==
  ASSUME NEW n \in Nat, Fills(shards, n), \A i \in 1..n : IsShard(shards[i]),
         NEW delta, NEW desc, NEW hash, NEW sh, sh = Stacked(delta, desc, hash)
  PROVE  Stacks(sh, n, delta.files, {<<p>> : p \in delta.dead}, desc, hash)
<1>1. PICK T : T = {<<p>> : p \in delta.dead}
  OBVIOUS
<1> DEFINE old == [i \in DOMAIN shards |-> [shards[i] EXCEPT !.tombs = @ \cup T, !.branches = desc]]
<1>2. sh = IF delta.files = <<>> THEN old ELSE Append(old, NewShard(delta.files, desc, hash))
  BY <1>1 DEF Stacked
<1>3. DOMAIN shards = 1..n
  BY DEF Fills
<1>4. \A i \in 1..n : old[i] = Marked(shards[i], T, desc)
  BY <1>3, MarkedIs
<1>5. Fills(old, n)
  <2> DEFINE M(i) == [shards[i] EXCEPT !.tombs = @ \cup T, !.branches = desc]
  <2>1. old = [i \in 1..n |-> M(i)]
    BY <1>3
  <2> HIDE DEF old, M
  <2>2. old = [i \in 1..n |-> old[i]] /\ Len(old) = n
    BY <2>1
  <2> QED
    BY <2>2 DEF Fills
<1> HIDE DEF old
<1>6. CASE delta.files = <<>>
  BY <1>1, <1>2, <1>4, <1>5, <1>6 DEF Stacks
<1>7. CASE delta.files # <<>>
  <2>1. PICK e, o : e = NewShard(delta.files, desc, hash) /\ o = old
    OBVIOUS
  <2>2. sh = Append(o, e) /\ Fills(o, n)
    BY <1>2, <1>5, <1>7, <2>1
  <2>3. Fills(sh, n + 1) /\ sh[n + 1] = e /\ \A i \in 1..n : sh[i] = o[i]
    <3>1. Extended(sh, o, n, e)
      BY <2>2, AppendIs
    <3> QED
      BY <3>1 DEF Extended
  <2> QED
    BY <1>1, <1>4, <1>7, <2>1, <2>3 DEF Stacks
<1> QED
  BY <1>6, <1>7

\* Document d is of file p in tree t.
OwnDoc(d, t, p, B) == d.name = <<p>> /\ d.sub = <<>> /\ d.branches = B /\ Match(d, t, FALSE)

\* What is renewed on a branch: a file's key, its document and the document's name.
LEMMA RenewedDocument ==
  ASSUME NEW desc, NEW i, NEW p, IsFile(TreeOf(desc, i), p), NEW B,
         NEW d, d = createDocument(DeltaKey(desc, i, p), B)
  PROVE  OwnDoc(d, TreeOf(desc, i), p, B)
<1>1. PICK k, t : k = DeltaKey(desc, i, p) /\ t = TreeOf(desc, i)
  OBVIOUS
<1>2. k = Key(<<>>, p, t[p].id) /\ k.sub = <<>> /\ k.path = p
  BY <1>1 DEF DeltaKey, Key
<1>3. Append(<<>>, p) = <<p>>
  OBVIOUS
<1>4. d.name = <<p>> /\ d.sub = <<>> /\ d.branches = B
  BY <1>1, <1>2, <1>3, DocumentIs
<1>5. d.content = createDocument(Key(<<>>, p, t[p].id), d.branches).content
  BY <1>1, <1>2, <1>4
<1>6. Match(d, t, FALSE)
  BY <1>1, <1>4, <1>5, MatchOwn
<1> QED
  BY <1>1, <1>4, <1>6 DEF OwnDoc

\* A path whose entry is the same in two trees with the same ignore file.
LEMMA MatchKept ==
  ASSUME NEW d, NEW t, NEW u, d.sub = <<>>, NEW one, Match(d, t, one), NEW two, two => one,
         \A p : d.name = <<p>> /\ IsFile(t, p) => IsFile(u, p) /\ u[p] = t[p],
         Ignored(u) = Ignored(t)
  PROVE  Match(d, u, two)
<1>1. PICK p : /\ d.name = <<p>> /\ IsFile(t, p)
               /\ d.content = createDocument(Key(<<>>, p, t[p].id), d.branches).content
               /\ one => p \notin Ignored(t)
  BY MatchOwn
<1>2. IsFile(u, p) /\ u[p] = t[p]
  BY <1>1
<1> QED
  BY <1>1, <1>2, MatchOwn

\* The ignore file did not change.
LEMMA IgnoredKept ==
  ASSUME NEW t \in Trees, NEW u \in Trees,
         ~(IgnoreFile \in Diff(t, u) /\ (IsFile(t, IgnoreFile) \/ IsFile(u, IgnoreFile)))
  PROVE  Ignored(u) = Ignored(t)
<1>1. DOMAIN t = Paths /\ DOMAIN u = Paths
  BY DEF Trees
<1>2. CASE IgnoreFile \in Diff(t, u)
  BY <1>2 DEF Ignored
<1>3. CASE IgnoreFile \notin Diff(t, u)
  BY <1>1, <1>3 DEF Ignored, IsFile, Diff
<1> QED
  BY <1>2, <1>3

\* Document d is a new one, of path p on the i-th branch.
NewDoc(O, desc, D, F, i, d, p) ==
  /\ d.name = <<p>> /\ d.sub = <<>> /\ Match(d, TreeOf(desc, i), FALSE)
  /\ p \in D \/ p \in Changed(O, desc, i)
  /\ d = createDocument(DeltaKey(desc, i, p), F[DeltaKey(desc, i, p)])

\* A delta build that is not refused keeps the shards exact.
LEMMA DeltaExact ==
  ASSUME GitTypeOK, Exact(shards, commits, gitOpts.submodules),
         NEW desc, Described(desc), \A i \in DOMAIN desc : desc[i].version = refs[desc[i].name],
         NEW hash, NEW gone, ~DeltaRefused(desc, hash, gone),
         NEW sh, sh = Stacked(prepareDeltaBuild(desc), desc, hash)
  PROVE  Exact(sh, commits, gitOpts.submodules)
<1>1. PICK n \in Nat \ {0} : n = Len(shards) /\ Fills(shards, n)
  BY DEF Exact
<1>2. PICK O : O = shards[1].branches
  OBVIOUS
<1>3. /\ \A i \in 1..n : IsShard(shards[i]) /\ shards[i].branches = O /\ shards[i].hash = shards[1].hash
      /\ Described(O)
  BY <1>1, <1>2 DEF Exact, Described
<1>4. /\ ~gitOpts.submodules /\ BranchNamesEqual(O, desc) /\ hash = shards[1].hash
      /\ \A i \in DOMAIN desc : ~(/\ IgnoreFile \in Changed(O, desc, i)
                                  /\ IsFile(TreeOf(O, i), IgnoreFile) \/ IsFile(TreeOf(desc, i), IgnoreFile))
  BY <1>2 DEF DeltaRefused, TreeOf, Changed
<1>5. /\ DOMAIN O = DOMAIN desc /\ DOMAIN desc = 1..Len(desc)
      /\ \A i \in DOMAIN desc : O[i].name = desc[i].name
  BY <1>3, <1>4 DEF BranchNamesEqual, Described, DescribedIn
<1>6. PICK delta, F, D : delta = prepareDeltaBuild(desc) /\ F = delta.files /\ D = delta.dead
  OBVIOUS
<1>7. /\ \A p : p \in D <=> \E i \in DOMAIN desc : p \in DeadOn(O, desc, i)
      /\ \A k \in DOMAIN F : \A b \in F[k] : \E i \in DOMAIN desc :
           b = desc[i].name /\ \E p \in Renewed(O, desc, D, i) : k = DeltaKey(desc, i, p)
      /\ \A i \in DOMAIN desc : \A p \in Renewed(O, desc, D, i) :
           DeltaKey(desc, i, p) \in DOMAIN F /\ desc[i].name \in F[DeltaKey(desc, i, p)]
  BY <1>2, <1>6, DeltaIs
<1>8. PICK T : T = {<<p>> : p \in D}
  OBVIOUS
<1>9. /\ \A i \in 1..n : sh[i] = Marked(shards[i], T, desc)
      /\ F = <<>> => Fills(sh, n)
      /\ F # <<>> => Fills(sh, n + 1) /\ sh[n + 1] = NewShard(F, desc, hash)
  <2>1. Stacks(sh, n, delta.files, {<<p>> : p \in delta.dead}, desc, hash)
    <3>1. n \in Nat /\ (\A i \in 1..n : IsShard(shards[i])) /\ sh = Stacked(delta, desc, hash)
      BY <1>3, <1>6
    <3> QED
      BY <1>1, <3>1, StackedIs
  <2>2. Stacks(sh, n, F, T, desc, hash)
    BY <1>6, <1>8, <2>1
  <2> QED
    BY <2>2 DEF Stacks
<1>10. PICK m \in {n, n + 1} : Len(sh) = m /\ DOMAIN sh = 1..m /\ Fills(sh, m) /\ (m = n <=> F = <<>>)
  BY <1>9 DEF Fills
<1>11. DOMAIN shards = 1..n
  BY <1>1 DEF Fills
\* The live documents: those that are not dead, and the new ones.
<1>12. ASSUME NEW b, NEW j, NEW d
       PROVE  LiveDoc(sh, b, j, d) <=>
                \/ LiveDoc(shards, b, j, d) /\ d.name \notin T
                \/ j = n + 1 /\ m = n + 1 /\ d \in Documents(F) /\ b \in d.branches
  <2>1. CASE j \in 1..n
    <3>1. sh[j].docs = shards[j].docs /\ sh[j].tombs = shards[j].tombs \cup T
      BY <1>9, <2>1, MarkedFields
    <3>2. j \in DOMAIN sh /\ j \in DOMAIN shards /\ j # n + 1
      BY <1>10, <1>11, <2>1
    <3> QED
      BY <3>1, <3>2 DEF LiveDoc
  <2>2. CASE j = n + 1
    <3>1. j \notin DOMAIN shards /\ (j \in DOMAIN sh <=> m = n + 1)
      BY <1>10, <1>11, <2>2
    <3>2. m = n + 1 => sh[j].docs = Documents(F) /\ sh[j].tombs = {}
      BY <1>9, <1>10, <2>2 DEF NewShard
    <3> QED
      BY <2>2, <3>1, <3>2 DEF LiveDoc
  <2>3. CASE j \notin 1..n /\ j # n + 1
    <3>1. j \notin DOMAIN shards /\ j \notin DOMAIN sh
      BY <1>10, <1>11, <2>3
    <3> QED
      BY <2>3, <3>1 DEF LiveDoc
  <2> QED
    BY <2>1, <2>2, <2>3
<1>13. ASSUME NEW i \in DOMAIN desc
       PROVE  /\ TreeOf(O, i) \in Trees /\ TreeOf(desc, i) \in Trees
              /\ Ignored(TreeOf(desc, i)) = Ignored(TreeOf(O, i))
              /\ \A j \in DOMAIN desc : desc[j].name = desc[i].name
                                          => TreeOf(O, j) = TreeOf(O, i) /\ TreeOf(desc, j) = TreeOf(desc, i)
  <2>1. TreeOf(O, i) \in Trees /\ TreeOf(desc, i) \in Trees
    BY <1>3, <1>5, TreeType
  <2>2. Ignored(TreeOf(desc, i)) = Ignored(TreeOf(O, i))
    BY <1>4, <2>1, IgnoredKept DEF Changed
  <2>3. \A j \in DOMAIN desc : desc[j].name = desc[i].name
                                 => TreeOf(O, j) = TreeOf(O, i) /\ TreeOf(desc, j) = TreeOf(desc, i)
    BY <1>3, <1>5 DEF Described, DescribedIn, TreeOf
  <2> QED
    BY <2>1, <2>2, <2>3
\* A path that is not dead has the file it had.
<1>14. ASSUME NEW i \in DOMAIN desc, NEW p, p \notin D, IsFile(TreeOf(O, i), p)
       PROVE  /\ IsFile(TreeOf(desc, i), p) /\ TreeOf(desc, i)[p] = TreeOf(O, i)[p]
              /\ p \notin Changed(O, desc, i)
  <2>1. p \notin Changed(O, desc, i)
    BY <1>7, <1>14 DEF DeadOn
  <2>2. p \in DOMAIN TreeOf(O, i) /\ DOMAIN TreeOf(desc, i) = DOMAIN TreeOf(O, i)
    BY <1>13, <1>14 DEF IsFile, Trees
  <2>3. TreeOf(desc, i)[p] = TreeOf(O, i)[p]
    BY <2>1, <2>2 DEF Changed, Diff
  <2> QED
    BY <1>14, <2>1, <2>2, <2>3 DEF IsFile
\* What there is to know of a new document.
<1>15. ASSUME NEW i \in DOMAIN desc, NEW j, NEW d, LiveDoc(sh, desc[i].name, j, d), j = n + 1
       PROVE  m = n + 1 /\ \E p : NewDoc(O, desc, D, F, i, d, p)
  <2>1. m = n + 1 /\ d \in Documents(F) /\ desc[i].name \in d.branches
    <3>1. ~LiveDoc(shards, desc[i].name, j, d)
      <4>1. j \notin DOMAIN shards
        BY <1>11, <1>15
      <4> QED
        BY <4>1 DEF LiveDoc
    <3> QED
      BY <1>12, <1>15, <3>1
  <2>2. PICK k \in DOMAIN F : d = createDocument(k, F[k])
    BY <2>1 DEF Documents
  <2>3. desc[i].name \in F[k]
    BY <2>1, <2>2, DocumentIs
  <2>4. PICK l \in DOMAIN desc : desc[i].name = desc[l].name /\ \E p \in Renewed(O, desc, D, l) : k = DeltaKey(desc, l, p)
    BY <1>7, <2>3
  <2>5. PICK p \in Renewed(O, desc, D, l) : k = DeltaKey(desc, l, p)
    BY <2>4
  <2>6. TreeOf(O, l) = TreeOf(O, i) /\ TreeOf(desc, l) = TreeOf(desc, i)
    BY <1>13, <2>4
  <2>7. k = DeltaKey(desc, i, p)
    BY <2>5, <2>6 DEF DeltaKey
  <2>8. IsFile(TreeOf(desc, i), p) /\ (p \in D \/ p \in Changed(O, desc, i))
    BY <2>6 DEF Renewed, Changed
  <2>9. d.name = <<p>> /\ d.sub = <<>> /\ Match(d, TreeOf(desc, i), FALSE)
    <3>1. PICK B : B = F[k]
      OBVIOUS
    <3>2. d = createDocument(DeltaKey(desc, i, p), B)
      BY <2>2, <2>7, <3>1
    <3>3. OwnDoc(d, TreeOf(desc, i), p, B)
      BY <2>8, <3>2, RenewedDocument
    <3> QED
      BY <3>3 DEF OwnDoc
  <2>10. NewDoc(O, desc, D, F, i, d, p)
    BY <2>2, <2>7, <2>8, <2>9 DEF NewDoc
  <2> QED
    BY <2>1, <2>10
<1>16. ASSUME NEW i \in DOMAIN desc
       PROVE  /\ Right(shards, desc[i].name, TreeOf(O, i), FALSE) /\ Once(shards, desc[i].name)
              /\ Whole(shards, desc[i].name, TreeOf(O, i))
  BY <1>2, <1>4, <1>5 DEF Exact, TreeOf, Right
<1>17. ASSUME NEW i \in DOMAIN desc
       PROVE  /\ Right(sh, desc[i].name, TreeOf(desc, i), FALSE) /\ Once(sh, desc[i].name)
              /\ Whole(sh, desc[i].name, TreeOf(desc, i))
  <2> DEFINE b == desc[i].name
  <2>1. PICK t \in Trees : t = TreeOf(desc, i)
    BY <1>13
  <2>2. PICK u \in Trees : u = TreeOf(O, i)
    BY <1>13
  <2>3. ASSUME NEW j, NEW d, LiveDoc(sh, b, j, d), j # n + 1
        PROVE  /\ LiveDoc(shards, b, j, d) /\ d.name \notin T /\ d.sub = <<>>
               /\ \E p : d.name = <<p>> /\ p \notin D /\ IsFile(u, p)
    <3>1. LiveDoc(shards, b, j, d) /\ d.name \notin T
      BY <1>12, <2>3
    <3>2. Match(d, u, n = 1) /\ d.sub = <<>>
      BY <1>1, <1>16, <2>2, <3>1 DEF Right
    <3>3. PICK p : d.name = <<p>> /\ IsFile(u, p)
      BY <3>2, MatchOwn
    <3> QED
      BY <1>8, <3>1, <3>2, <3>3
  <2>4. Right(sh, b, t, FALSE)
    <3> SUFFICES ASSUME NEW j, NEW d, LiveDoc(sh, b, j, d)
                 PROVE  Match(d, t, m = 1) /\ d.sub = <<>>
      BY <1>10 DEF Right
    <3>1. CASE j = n + 1
      <4>1. Match(d, t, FALSE) /\ d.sub = <<>> /\ m = n + 1
        BY <1>15, <2>1, <3>1 DEF NewDoc
      <4>2. m # 1
        BY <1>1, <4>1
      <4> QED
        BY <4>1, <4>2, MatchOwn
    <3>2. CASE j # n + 1
      <4>1. /\ LiveDoc(shards, b, j, d) /\ d.sub = <<>>
            /\ \E p : d.name = <<p>> /\ p \notin D /\ IsFile(u, p)
        BY <2>3, <3>2
      <4>2. Match(d, u, n = 1)
        BY <1>1, <1>16, <2>2, <4>1 DEF Right
      <4>3. m = 1 => n = 1
        BY <1>1
      <4>4. \A p : d.name = <<p>> /\ IsFile(u, p) => IsFile(t, p) /\ t[p] = u[p]
        BY <1>14, <2>1, <2>2, <4>1
      <4>5. Ignored(t) = Ignored(u)
        BY <1>13, <2>1, <2>2
      <4> QED
        BY <4>1, <4>2, <4>3, <4>4, <4>5, MatchKept
    <3> QED
      BY <3>1, <3>2
  <2>5. Once(sh, b)
    <3>1. ASSUME NEW j, NEW l, NEW d, NEW e, LiveDoc(sh, b, j, d), LiveDoc(sh, b, l, e), d.name = e.name,
                 l = n + 1
          PROVE  j = l /\ d = e
      <4>0. PICK p : NewDoc(O, desc, D, F, i, e, p)
        BY <1>15, <3>1
      <4>1. /\ e.name = <<p>> /\ (p \in D \/ p \in Changed(O, desc, i))
            /\ e = createDocument(DeltaKey(desc, i, p), F[DeltaKey(desc, i, p)])
        BY <4>0 DEF NewDoc
      <4>2. j = n + 1
        <5> SUFFICES ASSUME j # n + 1 PROVE FALSE
          OBVIOUS
        <5>1. PICK q : d.name = <<q>> /\ q \notin D /\ IsFile(u, q)
          BY <2>3, <3>1
        <5>2. q = p
          BY <3>1, <4>1, <5>1, NamesInjective
        <5>3. q \notin Changed(O, desc, i)
          BY <1>14, <2>2, <5>1
        <5> QED
          BY <4>1, <5>1, <5>2, <5>3
      <4>3. PICK q : NewDoc(O, desc, D, F, i, d, q)
        BY <1>15, <3>1, <4>2
      <4>4. q = p
        BY <3>1, <4>1, <4>3, NamesInjective DEF NewDoc
      <4> QED
        BY <3>1, <4>1, <4>2, <4>3, <4>4 DEF NewDoc
    <3>2. ASSUME NEW j, NEW l, NEW d, NEW e, LiveDoc(sh, b, j, d), LiveDoc(sh, b, l, e), d.name = e.name
          PROVE  j = l /\ d = e
      <4>1. CASE l = n + 1
        BY <3>1, <3>2, <4>1
      <4>2. CASE j = n + 1
        BY <3>1, <3>2, <4>2
      <4>3. CASE j # n + 1 /\ l # n + 1
        <5>1. LiveDoc(shards, b, j, d) /\ LiveDoc(shards, b, l, e)
          BY <2>3, <3>2, <4>3
        <5> QED
          BY <1>16, <3>2, <5>1 DEF Once
      <4> QED
        BY <4>1, <4>2, <4>3
    <3> QED
      BY <3>2 DEF Once
  <2>6. Whole(sh, b, t)
    <3> SUFFICES ASSUME NEW p \in Files(t) \ Ignored(t)
                 PROVE  \E j, d : LiveDoc(sh, b, j, d) /\ d.name = <<p>>
      BY DEF Whole
    <3>1. IsFile(t, p)
      BY DEF Files, IsFile
    <3>2. CASE p \in D \/ p \in Changed(O, desc, i)
      <4>1. p \in Renewed(O, desc, D, i)
        BY <2>1, <3>1, <3>2 DEF Renewed
      <4>2. PICK k : k = DeltaKey(desc, i, p)
        OBVIOUS
      <4>3. k \in DOMAIN F /\ b \in F[k]
        BY <1>7, <4>1, <4>2
      <4>4. PICK d : d = createDocument(k, F[k])
        OBVIOUS
      <4>5. d.name = <<p>> /\ d.branches = F[k]
        <5>1. PICK B : B = F[k] /\ d = createDocument(DeltaKey(desc, i, p), B)
          BY <4>2, <4>4
        <5>2. OwnDoc(d, TreeOf(desc, i), p, B)
          BY <2>1, <3>1, <5>1, RenewedDocument
        <5> QED
          BY <5>1, <5>2 DEF OwnDoc
      <4>6. d \in Documents(F) /\ m = n + 1
        <5>1. F # <<>>
          BY <4>3
        <5> QED
          BY <1>10, <4>3, <4>4, <5>1 DEF Documents
      <4>7. LiveDoc(sh, b, n + 1, d)
        BY <1>12, <4>3, <4>5, <4>6
      <4> QED
        BY <4>5, <4>7
    <3>3. CASE p \notin D /\ p \notin Changed(O, desc, i)
      <4>1. u[p] = t[p] /\ p \in Files(u) \ Ignored(u)
        <5>1. DOMAIN t = Paths /\ DOMAIN u = Paths /\ p \in Paths
          BY <3>1 DEF Trees, IsFile
        <5>2. u[p] = t[p]
          BY <2>1, <2>2, <3>3, <5>1 DEF Changed, Diff
        <5>3. Ignored(t) = Ignored(u)
          BY <1>13, <2>1, <2>2
        <5> QED
          BY <3>1, <5>1, <5>2, <5>3 DEF Files, IsFile
      <4>2. PICK j, d : LiveDoc(shards, b, j, d) /\ d.name = <<p>>
        BY <1>16, <2>2, <4>1 DEF Whole
      <4>3. d.name \notin T
        BY <1>8, <3>3, <4>2
      <4>4. LiveDoc(sh, b, j, d)
        BY <1>12, <4>2, <4>3
      <4> QED
        BY <4>2, <4>4
    <3> QED
      BY <3>2, <3>3
  <2> QED
    BY <2>1, <2>4, <2>5, <2>6
<1>18. ASSUME NEW i \in 1..m
       PROVE  IsShard(sh[i]) /\ sh[i].branches = desc /\ sh[i].hash = hash
  <2>1. CASE i \in 1..n
    <3>1. sh[i] = Marked(shards[i], T, desc) /\ shards[i].hash = hash
      BY <1>3, <1>4, <1>9, <2>1
    <3> QED
      BY <3>1, MarkedFields
  <2>2. CASE i = n + 1
    BY <1>9, <1>10, <1>18, <2>2 DEF NewShard, IsShard
  <2> QED
    BY <1>18, <2>1, <2>2
<1>19. m \in Nat \ {0} /\ 1 \in 1..m
  BY <1>1
<1>20. \A i \in DOMAIN desc : TreeOf(desc, i) = commits[desc[i].version]
  BY DEF TreeOf
<1>21. gitOpts.submodules = FALSE
  BY <1>4, GitAssumption DEF GitTypeOK
<1> QED
  BY <1>10, <1>17, <1>18, <1>19, <1>20, <1>21 DEF Exact, Described

-----------------------------------------------------------------------------
(* The invariant.                                                          *)

GitInv == GitTypeOK /\ (shards # <<>> => Exact(shards, commits, gitOpts.submodules))

\* The branches of a sequence that are there.
LEMMA PresentType ==
  ASSUME NEW bs \in Seq(Range(Branches))
  PROVE  Present(bs) \in Seq({b \in Range(Branches) : refs[b] # 0})
<1>1. PICK n \in Nat : n = Len(bs) /\ DOMAIN bs = 1..n /\ \A i \in 1..n : bs[i] \in Range(Branches)
  OBVIOUS
<1>2. PICK S : S = {b \in Range(Branches) : refs[b] # 0}
  OBVIOUS
<1> DEFINE One(i) == IF refs[bs[i]] # 0 THEN <<bs[i]>> ELSE <<>>
<1>3. ASSUME NEW i \in 1..n PROVE One(i) \in Seq(S)
  <2>1. CASE refs[bs[i]] # 0
    BY <1>1, <1>2, <2>1
  <2>2. CASE refs[bs[i]] = 0
    BY <2>2
  <2> QED
    BY <2>1, <2>2
<1>4. Present(bs) = FlattenSeq([i \in 1..n |-> One(i)])
  BY <1>1 DEF Present
<1> HIDE DEF One
<1>5. [i \in 1..n |-> One(i)] \in Seq(Seq(S))
  BY <1>3
<1> QED
  BY <1>2, <1>4, <1>5, FlattenType

LEMMA expandBranchesType ==
  ASSUME GitTypeOK
  PROVE  expandBranches \in Seq(Range(Branches))
<1>1. PICK bs \in Seq(Range(Branches) \cup {"*"}) : bs = gitOpts.branches
  BY GitAssumption DEF GitTypeOK
<1>2. PICK n \in Nat : n = Len(bs) /\ DOMAIN bs = 1..n /\ \A i \in 1..n : bs[i] \in Range(Branches) \cup {"*"}
  OBVIOUS
<1> DEFINE Expand(b) == IF b = "*" THEN Present(Branches) ELSE <<b>>
<1>3. ASSUME NEW i \in 1..n PROVE Expand(bs[i]) \in Seq(Range(Branches))
  <2>1. CASE bs[i] = "*"
    <3>1. PICK S : S = {b \in Range(Branches) : refs[b] # 0}
      OBVIOUS
    <3>2. Present(Branches) \in Seq(S)
      BY <3>1, GitAssumption, PresentType
    <3>3. S \subseteq Range(Branches)
      BY <3>1
    <3>4. Present(Branches) \in Seq(Range(Branches))
      BY <3>2, <3>3
    <3> QED
      BY <2>1, <3>4
  <2>2. CASE bs[i] # "*"
    BY <1>2, <2>2
  <2> QED
    BY <2>1, <2>2
<1>4. expandBranches = FlattenSeq([i \in 1..n |-> Expand(bs[i])])
  BY <1>1, <1>2 DEF expandBranches
<1> HIDE DEF Expand
<1>5. [i \in 1..n |-> Expand(bs[i])] \in Seq(Seq(Range(Branches)))
  BY <1>3
<1> QED
  BY <1>4, <1>5, FlattenType

\* The description of a build says what the references say.
LEMMA DescriptionIs ==
  ASSUME GitTypeOK, NEW desc, desc = Description
  PROVE  Described(desc) /\ \A i \in DOMAIN desc : desc[i].version = refs[desc[i].name]
<1>1. PICK names : names = Present(expandBranches)
  OBVIOUS
<1>2. PICK S : S = {b \in Range(Branches) : refs[b] # 0}
  OBVIOUS
<1>3. names \in Seq(S)
  BY <1>1, <1>2, expandBranchesType, PresentType
<1>4. PICK n \in Nat : n = Len(names) /\ DOMAIN names = 1..n /\ \A i \in 1..n : names[i] \in S
  BY <1>3
<1>5. desc = [i \in 1..n |-> [name |-> names[i], version |-> refs[names[i]]]]
  BY <1>1, <1>4 DEF Description, getCommit
<1>6. Len(desc) = n /\ DOMAIN desc = 1..n /\ \A i \in 1..n : desc[i].name = names[i] /\ desc[i].version = refs[names[i]]
  BY <1>5
<1>7. \A b \in S : refs[b] \in 1..Len(commits)
  BY <1>2 DEF GitTypeOK
<1> QED
  BY <1>4, <1>6, <1>7 DEF Described, DescribedIn

\* New commits change nothing about old ones.
LEMMA ExactKept ==
  ASSUME NEW sh, NEW subs, NEW cm, NEW cn, Exact(sh, cm, subs), Len(cm) \in Nat, Len(cn) \in Nat, Len(cm) <= Len(cn),
         \A v \in 1..Len(cm) : cn[v] = cm[v]
  PROVE  Exact(sh, cn, subs)
<1>1. PICK desc : desc = sh[1].branches /\ DescribedIn(desc, cm)
  BY DEF Exact
<1>2. \A i \in DOMAIN desc : cn[desc[i].version] = cm[desc[i].version]
  BY <1>1 DEF DescribedIn
<1>3. DescribedIn(desc, cn)
  <2>1. \A i \in DOMAIN desc : desc[i].version \in 1..Len(cn)
    BY <1>1 DEF DescribedIn
  <2> QED
    BY <1>1, <2>1 DEF DescribedIn
<1>4. ASSUME SubsWhole(sh, desc, cm) PROVE SubsWhole(sh, desc, cn)
  <2> SUFFICES ASSUME NEW i \in DOMAIN desc, NEW sub \in Seq(AllPaths), NEW cs \in WaysTo(cn[desc[i].version], sub),
                      Reached(cn[desc[i].version], sub, cs), NEW k \in At(TreeAt(cn[desc[i].version], cs), sub),
                      \A l \in (i + 1)..Len(desc) : ~IsThere(cn[desc[l].version], k)
               PROVE  \E j, d : LiveDoc(sh, desc[i].name, j, d) /\ d.name = FullPath(k)
    BY DEF SubsWhole
  <2>1. \A l \in (i + 1)..Len(desc) : l \in DOMAIN desc
    BY <1>1 DEF DescribedIn
  <2>2. \A l \in (i + 1)..Len(desc) : ~IsThere(cm[desc[l].version], k)
    BY <1>2, <2>1
  <2>3. PICK t : t = cm[desc[i].version] /\ t = cn[desc[i].version]
    BY <1>2
  <2>4. /\ cs \in WaysTo(cm[desc[i].version], sub) /\ Reached(cm[desc[i].version], sub, cs)
        /\ k \in At(TreeAt(cm[desc[i].version], cs), sub)
    BY <2>3
  <2>5. \A x \in WaysTo(cm[desc[i].version], sub) :
          Reached(cm[desc[i].version], sub, x) =>
            \A y \in At(TreeAt(cm[desc[i].version], x), sub) :
              (\A l \in (i + 1)..Len(desc) : ~IsThere(cm[desc[l].version], y))
                => \E j, d : LiveDoc(sh, desc[i].name, j, d) /\ d.name = FullPath(y)
    BY <1>4 DEF SubsWhole
  <2> QED
    BY <2>2, <2>4, <2>5
<1> QED
  BY <1>1, <1>2, <1>3, <1>4 DEF Exact

\* The steps.
LEMMA GitInitInv == GitInit => GitInv
<1> SUFFICES ASSUME GitInit PROVE GitInv
  OBVIOUS
<1>1. commits \in Seq(Trees) /\ Len(commits) = 1
  BY GitAssumption DEF GitInit, Trees
<1>2. refs \in [Range(Branches) -> 0..1]
  BY DEF GitInit
<1> QED
  BY <1>1, <1>2 DEF GitInit, GitInv, GitTypeOK

LEMMA CommitToInv ==
  ASSUME GitInv, NEW b \in DOMAIN refs, NEW e \in Edits, CommitTo(b, e)
  PROVE  GitInv'
<1>1. /\ gitOpts' = gitOpts /\ shards' = shards /\ refs[b] # 0
      /\ commits' = Append(commits, [commits[refs[b]] EXCEPT ![e.path] = e.entry])
      /\ refs' = [refs EXCEPT ![b] = Len(commits) + 1]
  BY DEF CommitTo
<1>2. commits \in Seq(Trees) /\ refs \in [Range(Branches) -> 0..Len(commits)] /\ gitOpts \in GitOptions
  BY DEF GitInv, GitTypeOK
<1>3. PICK n \in Nat : n = Len(commits)
  BY <1>2
<1>4. commits[refs[b]] \in Trees
  <2>1. refs[b] \in 1..n
    BY <1>1, <1>2, <1>3
  <2> QED
    BY <1>2, <1>3, <2>1
<1>5. PICK t \in Trees : t = [commits[refs[b]] EXCEPT ![e.path] = e.entry]
  <2>1. e.entry \in Entries
    BY DEF Entries
  <2> QED
    BY <1>4, <2>1 DEF Trees
<1>6. PICK cn : cn = commits'
  OBVIOUS
<1>7. cn \in Seq(Trees) /\ Len(cn) = n + 1 /\ \A v \in 1..n : cn[v] = commits[v]
  BY <1>1, <1>2, <1>3, <1>5, <1>6
<1>8. refs' \in [Range(Branches) -> 0..(n + 1)]
  BY <1>1, <1>2, <1>3
<1>9. GitTypeOK'
  BY <1>1, <1>2, <1>6, <1>7, <1>8 DEF GitTypeOK
<1>10. ASSUME shards # <<>> PROVE Exact(shards, cn, gitOpts.submodules)
  <2>1. Exact(shards, commits, gitOpts.submodules)
    BY <1>10 DEF GitInv
  <2>2. Len(commits) \in Nat /\ Len(cn) \in Nat /\ Len(commits) <= Len(cn) /\ \A v \in 1..Len(commits) : cn[v] = commits[v]
    BY <1>3, <1>7
  <2> QED
    BY <2>1, <2>2, ExactKept
<1> QED
  BY <1>1, <1>6, <1>9, <1>10 DEF GitInv

LEMMA MoveBranchInv ==
  ASSUME GitInv, NEW b \in DOMAIN refs, NEW v \in Range(refs) \cup {0}, MoveBranch(b, v)
  PROVE  GitInv'
<1>1. gitOpts' = gitOpts /\ commits' = commits /\ shards' = shards /\ refs' = [refs EXCEPT ![b] = v]
  BY DEF MoveBranch
<1>2. refs \in [Range(Branches) -> 0..Len(commits)] /\ Len(commits) \in Nat
  BY DEF GitInv, GitTypeOK
<1>3. v \in 0..Len(commits)
  BY <1>2 DEF Range
<1>4. refs' \in [Range(Branches) -> 0..Len(commits)]
  BY <1>1, <1>2, <1>3
<1> QED
  BY <1>1, <1>4 DEF GitInv, GitTypeOK

LEMMA IndexGitRepoInv ==
  ASSUME GitInv, NEW isDelta, NEW hash, NEW gone, IndexGitRepo(isDelta, hash, gone)
  PROVE  GitInv'
<1>1. PICK desc, sh : desc = Description /\ sh = shards'
  OBVIOUS
<1>2. /\ gitOpts' = gitOpts /\ commits' = commits /\ refs' = refs
      /\ sh = IF isDelta /\ ~DeltaRefused(desc, hash, gone)
              THEN Stacked(prepareDeltaBuild(desc), desc, hash)
              ELSE <<NewShard(prepareNormalBuild(desc), desc, hash)>>
  BY <1>1 DEF IndexGitRepo
<1>3. GitTypeOK /\ Described(desc) /\ \A i \in DOMAIN desc : desc[i].version = refs[desc[i].name]
  BY <1>1, DescriptionIs DEF GitInv
<1>4. Exact(sh, commits, gitOpts.submodules)
  <2>1. CASE isDelta /\ ~DeltaRefused(desc, hash, gone)
    <3>1. shards # <<>>
      BY <2>1 DEF DeltaRefused
    <3>2. Exact(shards, commits, gitOpts.submodules)
      BY <3>1 DEF GitInv
    <3>3. sh = Stacked(prepareDeltaBuild(desc), desc, hash)
      BY <1>2, <2>1
    <3> QED
      BY <1>3, <2>1, <3>2, <3>3, DeltaExact
  <2>2. CASE ~(isDelta /\ ~DeltaRefused(desc, hash, gone))
    <3>1. sh = <<NewShard(prepareNormalBuild(desc), desc, hash)>>
      BY <1>2, <2>2
    <3> QED
      BY <1>3, <3>1, NormalExact
  <2> QED
    BY <2>1, <2>2
<1>5. GitTypeOK'
  BY <1>2, <1>3 DEF GitTypeOK
<1> QED
  BY <1>1, <1>2, <1>4, <1>5 DEF GitInv

LEMMA GitNextInv == GitInv /\ [GitNext]_gitVars => GitInv'
<1> SUFFICES ASSUME GitInv, [GitNext]_gitVars PROVE GitInv'
  OBVIOUS
<1>1. ASSUME NEW b \in DOMAIN refs, NEW e \in Edits, CommitTo(b, e) PROVE GitInv'
  BY <1>1, CommitToInv
<1>2. ASSUME NEW b \in DOMAIN refs, NEW v \in Range(refs) \cup {0}, MoveBranch(b, v) PROVE GitInv'
  BY <1>2, MoveBranchInv
<1>3. ASSUME NEW isDelta, NEW hash, NEW gone, IndexGitRepo(isDelta, hash, gone) PROVE GitInv'
  BY <1>3, IndexGitRepoInv
<1>4. CASE UNCHANGED gitVars
  BY <1>4 DEF gitVars, GitInv, GitTypeOK
<1> QED
  BY <1>1, <1>2, <1>3, <1>4 DEF GitNext

-----------------------------------------------------------------------------
(* What the invariant says of the documents that are found.                *)

LEMMA LiveOnIs ==
  ASSUME NEW b, NEW x
  PROVE  x \in LiveOn(b) <=> \E i, d : x = <<i, d>> /\ LiveDoc(shards, b, i, d)
BY DEF LiveOn, LiveDoc

LEMMA SubPathsType ==
  ASSUME NEW sub \in SubPaths
  PROVE  sub \in Seq(AllPaths) /\ sub # <<>> /\ Len(sub) <= Levels
<1>1. PICK n \in 1..Levels : sub \in [1..n -> Mounts]
  BY DEF SubPaths
<1>2. n \in Nat /\ n # 0 /\ n <= Levels
  BY <1>1, LevelsNat
<1>3. Mounts \subseteq AllPaths
  <2>1. \A e \in Edits : e.path \in AllPaths
    BY GitAssumption DEF AllPaths
  <2>2. DOMAIN FirstTree \subseteq AllPaths
    BY GitAssumption DEF AllPaths
  <2>3. \A t \in Range(SubTree) : DOMAIN t \subseteq AllPaths
    BY DEF Range, AllPaths
  <2> QED
    BY <2>1, <2>2, <2>3 DEF Mounts
<1>4. sub \in Seq(AllPaths) /\ Len(sub) = n
  BY <1>1, <1>2, <1>3
<1> QED
  BY <1>2, <1>4

\* What GitExact says of the i-th branch.
FoundOn(desc, i) ==
  /\ \A x \in LiveOn(desc[i].name) :
       /\ Correct(x[2], TreeOf(desc, i))
       /\ \A y \in LiveOn(desc[i].name) : x[2].name = y[2].name => x = y
  /\ \A p \in Files(TreeOf(desc, i)) \ Ignored(TreeOf(desc, i)) :
       \E x \in LiveOn(desc[i].name) : x[2].name = <<p>>
  /\ gitOpts.submodules =>
       \A sub \in SubPaths : \A cs \in WaysTo(TreeOf(desc, i), sub) :
         AllDeclared(TreeOf(desc, i), sub, cs) =>
           \A o \in OwnKeys(TreeAt(TreeOf(desc, i), cs)) :
             LET k == [o EXCEPT !.sub = sub]
             IN (\A j \in (i + 1)..Len(desc) : ~IsThere(TreeOf(desc, j), k))
                  => \E x \in LiveOn(desc[i].name) : x[2].name = FullPath(k)

LEMMA FoundIs ==
  ASSUME GitInv, shards # <<>>, NEW desc, desc = shards[1].branches
  PROVE  /\ \A i \in DOMAIN shards : shards[i].branches = desc /\ shards[i].hash = shards[1].hash
         /\ \A i \in DOMAIN desc : FoundOn(desc, i)
<1>1. Exact(shards, commits, gitOpts.submodules)
  BY DEF GitInv
<1>2. desc = shards[1].branches
  OBVIOUS
<1>3. \A i \in DOMAIN shards : shards[i].branches = desc /\ shards[i].hash = shards[1].hash
  BY <1>1, <1>2 DEF Exact, Fills
<1>4. ASSUME NEW i \in DOMAIN desc
      PROVE  /\ Right(shards, desc[i].name, TreeOf(desc, i), gitOpts.submodules)
             /\ Once(shards, desc[i].name) /\ Whole(shards, desc[i].name, TreeOf(desc, i))
  BY <1>1, <1>2 DEF Exact, TreeOf
<1>5. ASSUME NEW i \in DOMAIN desc, NEW x \in LiveOn(desc[i].name)
      PROVE  /\ Correct(x[2], TreeOf(desc, i))
             /\ \A y \in LiveOn(desc[i].name) : x[2].name = y[2].name => x = y
  <2>1. PICK j, d : x = <<j, d>> /\ LiveDoc(shards, desc[i].name, j, d)
    BY LiveOnIs
  <2>2. x[2] = d /\ Match(d, TreeOf(desc, i), Len(shards) = 1)
    BY <1>4, <2>1 DEF Right
  <2>3. Correct(x[2], TreeOf(desc, i))
    BY <2>2 DEF Correct, Match
  <2>4. ASSUME NEW y \in LiveOn(desc[i].name), x[2].name = y[2].name PROVE x = y
    <3>1. PICK l, e : y = <<l, e>> /\ LiveDoc(shards, desc[i].name, l, e)
      BY LiveOnIs
    <3>2. j = l /\ d = e
      BY <1>4, <2>1, <2>4, <3>1 DEF Once
    <3> QED
      BY <2>1, <3>1, <3>2
  <2> QED
    BY <2>3, <2>4
<1>6. ASSUME NEW i \in DOMAIN desc, NEW name, \E j, d : LiveDoc(shards, desc[i].name, j, d) /\ d.name = name
      PROVE  \E x \in LiveOn(desc[i].name) : x[2].name = name
  <2>1. PICK j, d : LiveDoc(shards, desc[i].name, j, d) /\ d.name = name
    BY <1>6
  <2>2. PICK x : x = <<j, d>>
    OBVIOUS
  <2>3. x \in LiveOn(desc[i].name)
    BY <2>1, <2>2, LiveOnIs
  <2>4. x[2] = d
    BY <2>2
  <2> QED
    BY <2>1, <2>3, <2>4
<1>7. ASSUME NEW i \in DOMAIN desc, NEW p \in Files(TreeOf(desc, i)) \ Ignored(TreeOf(desc, i))
      PROVE  \E x \in LiveOn(desc[i].name) : x[2].name = <<p>>
  <2>1. \E j, d : LiveDoc(shards, desc[i].name, j, d) /\ d.name = <<p>>
    BY <1>4 DEF Whole
  <2> QED
    BY <1>6, <2>1
<1>8. ASSUME gitOpts.submodules, NEW i \in DOMAIN desc, NEW sub \in SubPaths,
             NEW cs \in WaysTo(TreeOf(desc, i), sub), AllDeclared(TreeOf(desc, i), sub, cs),
             NEW o \in OwnKeys(TreeAt(TreeOf(desc, i), cs)),
             \A j \in (i + 1)..Len(desc) : ~IsThere(TreeOf(desc, j), [o EXCEPT !.sub = sub])
      PROVE  \E x \in LiveOn(desc[i].name) : x[2].name = FullPath([o EXCEPT !.sub = sub])
  <2>1. PICK k : k = [o EXCEPT !.sub = sub]
    OBVIOUS
  <2>2. k \in At(TreeAt(TreeOf(desc, i), cs), sub)
    BY <2>1, AtIs
  <2>3. sub \in Seq(AllPaths) /\ Reached(TreeOf(desc, i), sub, cs)
    BY <1>8, SubPathsType DEF Reached
  <2>4. SubsWhole(shards, desc, commits)
    BY <1>1, <1>2, <1>8 DEF Exact
  <2>5. \A l \in (i + 1)..Len(desc) : ~IsThere(TreeOf(desc, l), k)
    BY <1>8, <2>1
  <2>6. \E j, d : LiveDoc(shards, desc[i].name, j, d) /\ d.name = FullPath(k)
    BY <2>2, <2>3, <2>4, <2>5 DEF SubsWhole, TreeOf
  <2>7. \E x \in LiveOn(desc[i].name) : x[2].name = FullPath(k)
    BY <1>6, <2>6
  <2> QED
    BY <2>1, <2>7
<1>9. ASSUME NEW i \in DOMAIN desc
      PROVE  /\ \A x \in LiveOn(desc[i].name) :
                  /\ Correct(x[2], TreeOf(desc, i))
                  /\ \A y \in LiveOn(desc[i].name) : x[2].name = y[2].name => x = y
             /\ \A p \in Files(TreeOf(desc, i)) \ Ignored(TreeOf(desc, i)) :
                  \E x \in LiveOn(desc[i].name) : x[2].name = <<p>>
  BY <1>5, <1>7
<1>10. ASSUME gitOpts.submodules, NEW i \in DOMAIN desc
       PROVE  \A sub \in SubPaths : \A cs \in WaysTo(TreeOf(desc, i), sub) :
                AllDeclared(TreeOf(desc, i), sub, cs) =>
                  \A o \in OwnKeys(TreeAt(TreeOf(desc, i), cs)) :
                    LET k == [o EXCEPT !.sub = sub]
                    IN (\A j \in (i + 1)..Len(desc) : ~IsThere(TreeOf(desc, j), k))
                         => \E x \in LiveOn(desc[i].name) : x[2].name = FullPath(k)
  BY <1>8, <1>10
<1> QED
  BY <1>3, <1>9, <1>10 DEF FoundOn

LEMMA ExactIs == GitInv => GitExact
<1> SUFFICES ASSUME GitInv, shards # <<>> PROVE GitExact
  BY DEF GitExact
<1>1. \A desc : desc = shards[1].branches =>
        /\ \A i \in DOMAIN shards : shards[i].branches = desc /\ shards[i].hash = shards[1].hash
        /\ \A i \in DOMAIN desc : FoundOn(desc, i)
  BY FoundIs
<1>2. /\ \A i \in DOMAIN shards :
           shards[i].branches = shards[1].branches /\ shards[i].hash = shards[1].hash
      /\ \A i \in DOMAIN shards[1].branches : FoundOn(shards[1].branches, i)
  BY <1>1
<1> QED
  BY <1>2, Zenon DEF GitExact, FoundOn, TreeOf

\* However builds, delta builds, commits and branches follow each other, each file of
\* each indexed branch is found once, as it is at the commit the shards say, and nothing
\* else is found (indexGitRepo, prepareNormalBuild, prepareDeltaBuild).
THEOREM GitExactCorrect == GitSpec => []GitExact
<1>1. GitSpec => []GitInv
  BY GitInitInv, GitNextInv, PTL DEF GitSpec
<1> QED
  BY <1>1, ExactIs, PTL
=============================================================================
