--------------------------- MODULE SchedulerProofs --------------------------
(***************************************************************************)
(* Scheduler for any finite set of searches, any capacity and any          *)
(* batchdiv: tokens are neither lost nor returned twice.                   *)
(***************************************************************************)
EXTENDS Scheduler, FiniteSetTheorems, TLAPS

Holding == {"granted", "acquired", "running"}

\* Whoever is in a queue is waiting, for that semaphore, and is there once: the
\* head of the queue is not a holder yet when a token is handed to it.
QueueOK ==
  \A s \in Sems :
    /\ \A i \in DOMAIN waiters[s] : pc[waiters[s][i]] = "queued" /\ sem[waiters[s][i]] = s
    /\ \A i, j \in DOMAIN waiters[s] : waiters[s][i] = waiters[s][j] => i = j

\* pc and sem agree about who has not asked for batch yet.
SemOK ==
  \A p \in Procs : /\ pc[p] = "idle" => sem[p] = "interactive"
                   /\ pc[p] \in {"yielding", "detached"} => sem[p] = "batch"

\* No more tokens are out than there are.
CurBounded == \A s \in Sems : cur[s] <= Cap(s)

IInv == TypeOK /\ QueueOK /\ SemOK /\ TokensExact /\ CurBounded

LEMMA CapType == \A s \in Sems : Cap(s) \in Nat \ {0}
  BY SchedAssumption DEF Cap, BatchCap

LEMMA HoldersFinite ==
  \A s \in Sems : IsFiniteSet(Holders(s)) /\ Cardinality(Holders(s)) \in Nat
  BY SchedAssumption, FS_Subset, FS_CardinalityType DEF Holders

LEMMA InitInv == Init => IInv
<1> SUFFICES ASSUME Init PROVE IInv
  OBVIOUS
<1>1. TypeOK /\ QueueOK /\ SemOK /\ CurBounded
  BY CapType DEF Init, TypeOK, States, Sems, QueueOK, SemOK, CurBounded
<1>2. \A s \in Sems : Holders(s) = {}
  BY DEF Init, Holders
<1> QED
  BY <1>1, <1>2, FS_EmptySet DEF IInv, TokensExact, Init

-----------------------------------------------------------------------------
(* What a call of the semaphore preserves, stated of the state "after the  *)
(* caller has moved": f is that pc, g that sem.                            *)

HoldersOf(s, f, g) == {p \in Procs : g[p] = s /\ f[p] \in Holding}

QueueOf(q, s, f, g) ==
  /\ \A i \in DOMAIN q : f[q[i]] = "queued" /\ g[q[i]] = s
  /\ \A i, j \in DOMAIN q : q[i] = q[j] => i = j

LEMMA HoldersNow == \A s \in Sems : Holders(s) = HoldersOf(s, pc, sem)
  BY DEF Holders, HoldersOf, Holding

LEMMA HoldersNext == \A s \in Sems : Holders(s)' = HoldersOf(s, pc', sem')
  BY DEF Holders, HoldersOf, Holding

\* notifyWaiters hands over at most the tokens there are.
LEMMA NotifyStep ==
  ASSUME TypeOK,
         NEW s \in Sems, NEW n \in Nat, NEW q \in Seq(Procs),
         NEW f \in [Procs -> States], NEW g \in [Procs -> Sems],
         n = Cardinality(HoldersOf(s, f, g)), n <= Cap(s),
         QueueOf(q, s, f, g),
         \A t \in Sems \ {s} : /\ cur[t] = Cardinality(HoldersOf(t, f, g))
                               /\ cur[t] <= Cap(t)
                               /\ QueueOf(waiters[t], t, f, g),
         Notify(s, n, q, f), sem' = g
  PROVE  /\ TokensExact' /\ QueueOK' /\ CurBounded'
         /\ cur' \in [Sems -> Nat] /\ waiters' \in [Sems -> Seq(Procs)]
         /\ pc' \in [Procs -> States]
         /\ \A p \in Procs : pc'[p] = f[p] \/ pc'[p] = "granted"
<1>0. Cap(s) \in Nat
  BY CapType
<1>1. CASE ~(q # <<>> /\ n < Cap(s))
  <2>1. /\ cur' = [cur EXCEPT ![s] = n]
        /\ waiters' = [waiters EXCEPT ![s] = q]
        /\ pc' = f
    BY <1>1 DEF Notify
  <2>2. TokensExact'
    BY <2>1, HoldersNext DEF TokensExact, TypeOK
  <2>3. QueueOK' /\ CurBounded'
    BY <2>1 DEF QueueOK, QueueOf, CurBounded, TypeOK, Cap
  <2> QED
    BY <2>1, <2>2, <2>3 DEF TypeOK
<1>2. CASE q # <<>> /\ n < Cap(s)
  <2> DEFINE h == Head(q)
  <2>1. /\ cur' = [cur EXCEPT ![s] = n + 1]
        /\ waiters' = [waiters EXCEPT ![s] = Tail(q)]
        /\ pc' = [f EXCEPT ![h] = "granted"]
    BY <1>2 DEF Notify
  <2>2. /\ h \in Procs /\ f[h] = "queued" /\ g[h] = s
        /\ Tail(q) \in Seq(Procs)
        /\ Len(Tail(q)) = Len(q) - 1
        /\ \A i \in DOMAIN Tail(q) : i + 1 \in DOMAIN q /\ Tail(q)[i] = q[i + 1]
                                     /\ Tail(q)[i] # h
    BY <1>2 DEF QueueOf
  <2> HIDE DEF h
  <2>3. \A t \in Sems \ {s} : Holders(t)' = HoldersOf(t, f, g)
    BY <2>1, <2>2, HoldersNext DEF HoldersOf
  <2>4. Holders(s)' = HoldersOf(s, f, g) \cup {h} /\ h \notin HoldersOf(s, f, g)
    BY <2>1, <2>2, HoldersNext DEF HoldersOf, Holding
  <2>5. IsFiniteSet(HoldersOf(s, f, g))
    BY SchedAssumption, FS_Subset DEF HoldersOf
  <2>6. Cardinality(Holders(s)') = n + 1
    BY <2>4, <2>5, FS_AddElement
  <2>7. TokensExact'
    BY <2>1, <2>3, <2>6 DEF TokensExact, TypeOK
  <2>8. CurBounded'
    <3>1. /\ cur'[s] = n + 1 /\ n + 1 <= Cap(s)
          /\ \A t \in Sems \ {s} : cur'[t] = cur[t]
      BY <1>0, <1>2, <2>1 DEF TypeOK
    <3> QED
      BY <3>1 DEF CurBounded, Cap
  <2>9. QueueOf(Tail(q), s, pc', sem')
    <3>1. \A i \in DOMAIN Tail(q) : f[Tail(q)[i]] = "queued" /\ g[Tail(q)[i]] = s
      BY <2>2 DEF QueueOf
    <3>2. \A i \in DOMAIN Tail(q) : Tail(q)[i] \in Procs
      BY <2>2
    <3>3. \A i \in DOMAIN Tail(q) : pc'[Tail(q)[i]] = "queued"
      BY <2>1, <2>2, <3>1, <3>2
    <3>4. ASSUME NEW i \in DOMAIN Tail(q), NEW j \in DOMAIN Tail(q),
                 Tail(q)[i] = Tail(q)[j]
          PROVE  i = j
      <4>1. q[i + 1] = q[j + 1] /\ i + 1 \in DOMAIN q /\ j + 1 \in DOMAIN q
        BY <2>2, <3>4
      <4>2. i + 1 = j + 1 /\ i \in Nat /\ j \in Nat
        BY <2>2, <4>1 DEF QueueOf
      <4> QED
        BY <4>2
    <3> QED
      BY <3>1, <3>3, <3>4 DEF QueueOf
  <2>10. \A t \in Sems \ {s} : QueueOf(waiters[t], t, pc', sem')
    <3> SUFFICES ASSUME NEW t \in Sems \ {s} PROVE QueueOf(waiters[t], t, pc', sem')
      OBVIOUS
    <3>1. \A i \in DOMAIN waiters[t] : waiters[t][i] \in Procs
      BY DEF TypeOK
    <3>2. \A i \in DOMAIN waiters[t] : waiters[t][i] # h
      BY <2>2 DEF QueueOf
    <3>3. \A i \in DOMAIN waiters[t] : pc'[waiters[t][i]] = f[waiters[t][i]]
      BY <2>1, <2>2, <3>1, <3>2
    <3> QED
      BY <3>3 DEF QueueOf
  <2>11. QueueOK'
    <3>1. waiters'[s] = Tail(q) /\ \A t \in Sems \ {s} : waiters'[t] = waiters[t]
      BY <2>1 DEF TypeOK
    <3>2. \A t \in Sems : QueueOf(waiters'[t], t, pc', sem')
      BY <2>9, <2>10, <3>1
    <3> QED
      BY <3>2 DEF QueueOK, QueueOf
  <2>12. pc' \in [Procs -> States]
    BY <2>1, <2>2 DEF States
  <2>13. \A p \in Procs : pc'[p] = f[p] \/ pc'[p] = "granted"
    BY <2>1, <2>2
  <2>14. cur' \in [Sems -> Nat] /\ waiters' \in [Sems -> Seq(Procs)]
    BY <2>1, <2>2 DEF TypeOK
  <2> QED
    BY <2>7, <2>8, <2>11, <2>12, <2>13, <2>14
<1> QED
  BY <1>1, <1>2

\* Facts about the present state in the terms of NotifyStep.
LEMMA Now ==
  ASSUME IInv
  PROVE  \A s \in Sems : /\ cur[s] = Cardinality(HoldersOf(s, pc, sem))
                         /\ cur[s] \in Nat /\ cur[s] <= Cap(s)
                         /\ QueueOf(waiters[s], s, pc, sem)
  BY HoldersNow DEF IInv, TokensExact, CurBounded, QueueOK, QueueOf, TypeOK

LEMMA TokensNext ==
  ASSUME \A s \in Sems : cur'[s] = Cardinality(HoldersOf(s, pc', sem'))
  PROVE  TokensExact'
  BY HoldersNext DEF TokensExact

LEMMA QueueNext ==
  ASSUME \A s \in Sems : QueueOf(waiters'[s], s, pc', sem')
  PROVE  QueueOK'
  BY DEF QueueOK, QueueOf

\* A process that is not queued can move without disturbing a queue.
LEMMA QueueFrame ==
  ASSUME TypeOK, NEW s \in Sems, QueueOf(waiters[s], s, pc, sem),
         NEW p \in Procs, pc[p] # "queued", NEW x \in States, NEW y \in Sems
  PROVE  QueueOf(waiters[s], s, [pc EXCEPT ![p] = x], [sem EXCEPT ![p] = y])
<1>1. \A i \in DOMAIN waiters[s] : waiters[s][i] \in Procs /\ waiters[s][i] # p
  BY DEF TypeOK, QueueOf
<1> QED
  BY <1>1 DEF QueueOf, TypeOK

\* Releasing the token that p holds: Weighted.Release, whatever p does next.
LEMMA ReleaseStep ==
  ASSUME IInv, NEW p \in Procs, pc[p] \in Holding,
         NEW x \in States \ (Holding \cup {"queued"}), NEW y \in Sems,
         SemRelease(sem[p], [pc EXCEPT ![p] = x]), sem' = [sem EXCEPT ![p] = y]
  PROVE  /\ TokensExact' /\ QueueOK' /\ CurBounded'
         /\ cur' \in [Sems -> Nat] /\ waiters' \in [Sems -> Seq(Procs)]
         /\ pc' \in [Procs -> States]
         /\ \A r \in Procs : pc'[r] = [pc EXCEPT ![p] = x][r] \/ pc'[r] = "granted"
<1> DEFINE s == sem[p]
           f == [pc EXCEPT ![p] = x]
           g == [sem EXCEPT ![p] = y]
<1>1. s \in Sems /\ f \in [Procs -> States] /\ g \in [Procs -> Sems] /\ TypeOK
  BY DEF IInv, TypeOK
<1>2. HoldersOf(s, f, g) = HoldersOf(s, pc, sem) \ {p} /\ p \in HoldersOf(s, pc, sem)
  BY <1>1 DEF HoldersOf, Holding, TypeOK, States
<1>3. \A t \in Sems \ {s} : HoldersOf(t, f, g) = HoldersOf(t, pc, sem)
  BY <1>1 DEF HoldersOf, Holding, TypeOK, States
<1>4. IsFiniteSet(HoldersOf(s, pc, sem))
  BY SchedAssumption, FS_Subset DEF HoldersOf
<1>5. /\ cur[s] - 1 = Cardinality(HoldersOf(s, f, g))
      /\ cur[s] - 1 \in Nat /\ cur[s] - 1 <= Cap(s)
  <2>1. Cardinality(HoldersOf(s, f, g)) = Cardinality(HoldersOf(s, pc, sem)) - 1
    BY <1>2, <1>4, FS_RemoveElement
  <2>2. Cardinality(HoldersOf(s, f, g)) \in Nat
    BY <1>2, <1>4, FS_RemoveElement, FS_CardinalityType
  <2> QED
    BY <1>1, <2>1, <2>2, Now, CapType
<1>6. \A t \in Sems : QueueOf(waiters[t], t, f, g)
  BY <1>1, Now, QueueFrame DEF Holding
<1>7. waiters[s] \in Seq(Procs)
  BY <1>1 DEF TypeOK
<1>8. Notify(s, cur[s] - 1, waiters[s], f)
  BY DEF SemRelease
<1>9. \A t \in Sems \ {s} : cur[t] = Cardinality(HoldersOf(t, f, g)) /\ cur[t] <= Cap(t)
  BY <1>3, Now
<1>10. sem' = g
  OBVIOUS
<1> DEFINE n == cur[s] - 1
<1>11. n \in Nat /\ n = Cardinality(HoldersOf(s, f, g)) /\ n <= Cap(s) /\ Notify(s, n, waiters[s], f)
  BY <1>5, <1>8
<1> HIDE DEF s, f, g, n
<1>12. /\ TokensExact' /\ QueueOK' /\ CurBounded'
       /\ cur' \in [Sems -> Nat] /\ waiters' \in [Sems -> Seq(Procs)]
       /\ pc' \in [Procs -> States]
       /\ \A r \in Procs : pc'[r] = f[r] \/ pc'[r] = "granted"
  BY <1>1, <1>6, <1>7, <1>9, <1>10, <1>11, NotifyStep
<1> QED
  BY <1>12 DEF f

\* Weighted.Acquire up to the point where it returns or waits, for a process
\* that holds nothing and waits for nothing.
LEMMA AcquireStep ==
  ASSUME IInv, NEW p \in Procs, NEW s \in Sems, sem[p] = s,
         pc[p] \notin Holding \cup {"queued"},
         NEW x \in States \ (Holding \cup {"queued"}),
         SemAcquire(p, s, x), sem' = sem
  PROVE  /\ TokensExact' /\ QueueOK' /\ CurBounded'
         /\ cur' \in [Sems -> Nat] /\ waiters' \in [Sems -> Seq(Procs)]
         /\ \/ pc' = [pc EXCEPT ![p] = x]
            \/ pc' = [pc EXCEPT ![p] = "acquired"]
            \/ pc' = [pc EXCEPT ![p] = "queued"]
<1>0. TypeOK /\ Cap(s) \in Nat /\ cur[s] \in Nat
  BY CapType DEF IInv, TypeOK
<1>1. ASSUME NEW z \in States \ Holding, pc' = [pc EXCEPT ![p] = z]
      PROVE  \A t \in Sems : HoldersOf(t, pc', sem') = HoldersOf(t, pc, sem)
  BY <1>0, <1>1 DEF HoldersOf, TypeOK
<1>2. ASSUME NEW z \in States, pc' = [pc EXCEPT ![p] = z]
      PROVE  \A t \in Sems : QueueOf(waiters[t], t, pc', sem')
  <2> SUFFICES ASSUME NEW t \in Sems PROVE QueueOf(waiters[t], t, pc', sem')
    OBVIOUS
  <2>1. sem' = [sem EXCEPT ![p] = s]
    BY <1>0 DEF TypeOK
  <2>2. QueueOf(waiters[t], t, pc, sem) /\ pc[p] # "queued"
    BY Now
  <2>3. QueueOf(waiters[t], t, [pc EXCEPT ![p] = z], [sem EXCEPT ![p] = s])
    BY <1>0, <2>2, QueueFrame
  <2> QED
    BY <1>2, <2>1, <2>3
<1>3. CASE pc' = [pc EXCEPT ![p] = x] /\ UNCHANGED <<cur, waiters>>
  <2>1. TokensExact'
    BY <1>1, <1>3, Now, TokensNext
  <2>2. QueueOK'
    BY <1>2, <1>3, QueueNext
  <2> QED
    BY <1>0, <1>3, <2>1, <2>2 DEF IInv, CurBounded, TypeOK, Cap
<1>4. CASE /\ cur[s] < Cap(s)
           /\ cur' = [cur EXCEPT ![s] = @ + 1]
           /\ pc' = [pc EXCEPT ![p] = "acquired"]
           /\ UNCHANGED waiters
  <2>1. /\ HoldersOf(s, pc', sem') = HoldersOf(s, pc, sem) \cup {p}
        /\ p \notin HoldersOf(s, pc, sem)
        /\ \A t \in Sems \ {s} : HoldersOf(t, pc', sem') = HoldersOf(t, pc, sem)
    BY <1>0, <1>4 DEF HoldersOf, Holding, TypeOK
  <2>2. IsFiniteSet(HoldersOf(s, pc, sem))
    BY SchedAssumption, FS_Subset DEF HoldersOf
  <2>3. Cardinality(HoldersOf(s, pc', sem')) = cur[s] + 1
    BY <2>1, <2>2, Now, FS_AddElement
  <2>4. \A t \in Sems : cur'[t] = Cardinality(HoldersOf(t, pc', sem'))
    BY <1>0, <1>4, <2>1, <2>3, Now DEF TypeOK
  <2>5. TokensExact'
    BY <2>4, TokensNext
  <2>6. QueueOK'
    BY <1>2, <1>4, QueueNext DEF States
  <2> QED
    BY <1>0, <1>4, <2>5, <2>6 DEF IInv, CurBounded, TypeOK, Cap
<1>5. CASE /\ waiters' = [waiters EXCEPT ![s] = Append(@, p)]
           /\ pc' = [pc EXCEPT ![p] = "queued"]
           /\ UNCHANGED cur
  <2>1. TokensExact'
    BY <1>1, <1>5, Now, TokensNext DEF States, Holding
  <2>2. \A t \in Sems : QueueOf(waiters[t], t, pc', sem')
    BY <1>2, <1>5 DEF States
  <2> DEFINE w == waiters[s]
  <2>3. /\ w \in Seq(Procs) /\ Append(w, p) \in Seq(Procs)
        /\ \A i \in DOMAIN w : w[i] # p
    BY <1>0, Now DEF QueueOf, TypeOK
  <2>4. QueueOf(w, s, pc', sem') /\ pc'[p] = "queued" /\ sem'[p] = s
    BY <1>0, <1>5, <2>2 DEF TypeOK
  <2> HIDE DEF w
  <2>5. QueueOf(Append(w, p), s, pc', sem')
    <3>1. \A i \in DOMAIN Append(w, p) :
            \/ i \in DOMAIN w /\ Append(w, p)[i] = w[i]
            \/ i = Len(w) + 1 /\ Append(w, p)[i] = p
      BY <2>3
    <3> QED
      BY <2>3, <2>4, <3>1 DEF QueueOf
  <2>6. /\ waiters'[s] = Append(w, p)
        /\ \A t \in Sems \ {s} : waiters'[t] = waiters[t]
    BY <1>0, <1>5 DEF TypeOK, w
  <2>7. \A t \in Sems : QueueOf(waiters'[t], t, pc', sem')
    BY <2>2, <2>5, <2>6
  <2>8. QueueOK'
    BY <2>7, QueueNext
  <2>9. waiters' \in [Sems -> Seq(Procs)]
    BY <1>0, <1>5, <2>3 DEF TypeOK, w
  <2> QED
    BY <1>0, <1>5, <2>1, <2>8, <2>9 DEF IInv, CurBounded, TypeOK, Cap
<1> QED
  BY <1>3, <1>4, <1>5 DEF SemAcquire

-----------------------------------------------------------------------------
LEMMA CancelStep ==
  ASSUME IInv, NEW p \in Procs, CancelWait(p)
  PROVE  IInv'
<1> DEFINE s == sem[p]
           w == waiters[s]
           f == [pc EXCEPT ![p] = Failed(p)]
<1>1. TypeOK /\ s \in Sems /\ w \in Seq(Procs) /\ cur[s] \in Nat /\ pc[p] = "queued"
  BY DEF IInv, TypeOK, CancelWait
<1>2. /\ Failed(p) \in States \ (Holding \cup {"queued"})
      /\ Failed(p) = "idle" => s = "interactive"
      /\ Failed(p) = "detached" => s = "batch"
      /\ Failed(p) # "yielding"
  BY <1>1 DEF Failed, States, Holding, Sems
<1>3. /\ sem' = sem /\ UNCHANGED <<timer, expired>>
  BY DEF CancelWait
<1>4. PICK k \in DOMAIN w :
        /\ w[k] = p
        /\ \/ Notify(s, cur[s], Without(w, k), f)
           \/ waiters' = [waiters EXCEPT ![s] = Without(w, k)] /\ pc' = f /\ UNCHANGED cur
  BY DEF CancelWait
<1> DEFINE q == Without(w, k)
<1>5. /\ q \in Seq(Procs) /\ Len(q) = Len(w) - 1
      /\ \A i \in DOMAIN q : q[i] = IF i < k THEN w[i] ELSE w[i + 1]
  <2>1. Len(w) - 1 \in Nat /\ \A i \in 1..(Len(w) - 1) : w[i] \in Procs /\ w[i + 1] \in Procs
    BY <1>1
  <2>2. q = [i \in 1..(Len(w) - 1) |-> IF i < k THEN w[i] ELSE w[i + 1]]
    BY DEF Without
  <2> HIDE DEF q
  <2> QED
    BY <2>1, <2>2
<1>6. f \in [Procs -> States] /\ \A r \in Procs \ {p} : f[r] = pc[r]
  BY <1>1, <1>2 DEF TypeOK
<1> HIDE DEF q, f
<1>7. \A i \in DOMAIN q : \E j \in DOMAIN w : j # k /\ q[i] = w[j] /\ j = IF i < k THEN i ELSE i + 1
  BY <1>1, <1>5
<1>8. QueueOf(q, s, f, sem)
  <2>1. QueueOf(w, s, pc, sem)
    BY <1>1, Now
  <2>2. \A i \in DOMAIN q : q[i] \in Procs /\ q[i] # p
    BY <1>1, <1>4, <1>5, <1>7, <2>1 DEF QueueOf
  <2>3. \A i \in DOMAIN q : f[q[i]] = "queued" /\ sem[q[i]] = s
    BY <1>6, <1>7, <2>1, <2>2 DEF QueueOf
  <2>4. \A i, j \in DOMAIN q : q[i] = q[j] => i = j
    <3> SUFFICES ASSUME NEW i \in DOMAIN q, NEW j \in DOMAIN q, q[i] = q[j] PROVE i = j
      OBVIOUS
    <3>1. PICK a \in DOMAIN w : a # k /\ q[i] = w[a] /\ a = IF i < k THEN i ELSE i + 1
      BY <1>7
    <3>2. PICK b \in DOMAIN w : b # k /\ q[j] = w[b] /\ b = IF j < k THEN j ELSE j + 1
      BY <1>7
    <3>3. a = b
      BY <2>1, <3>1, <3>2 DEF QueueOf
    <3>4. i \in Nat /\ j \in Nat /\ k \in Nat
      BY <1>1, <1>5
    <3> QED
      BY <3>1, <3>2, <3>3, <3>4
  <2> QED
    BY <2>3, <2>4 DEF QueueOf
<1>9. \A t \in Sems : HoldersOf(t, f, sem) = HoldersOf(t, pc, sem)
  BY <1>1, <1>2, <1>6 DEF HoldersOf, Holding, TypeOK, f
<1>10. \A t \in Sems \ {s} : QueueOf(waiters[t], t, f, sem)
  <2> SUFFICES ASSUME NEW t \in Sems \ {s} PROVE QueueOf(waiters[t], t, f, sem)
    OBVIOUS
  <2>1. QueueOf(waiters[t], t, pc, sem)
    BY Now
  <2>2. \A i \in DOMAIN waiters[t] : waiters[t][i] \in Procs /\ waiters[t][i] # p
    BY <1>1, <2>1 DEF QueueOf, TypeOK
  <2> QED
    BY <1>6, <2>1, <2>2 DEF QueueOf
<1>11. /\ TokensExact' /\ QueueOK' /\ CurBounded'
       /\ cur' \in [Sems -> Nat] /\ waiters' \in [Sems -> Seq(Procs)]
       /\ pc' \in [Procs -> States]
       /\ \A r \in Procs : pc'[r] = f[r] \/ pc'[r] = "granted"
  <2>1. CASE Notify(s, cur[s], q, f)
    <3>1. /\ cur[s] = Cardinality(HoldersOf(s, f, sem)) /\ cur[s] <= Cap(s)
          /\ \A t \in Sems \ {s} : /\ cur[t] = Cardinality(HoldersOf(t, f, sem))
                                   /\ cur[t] <= Cap(t)
      BY <1>1, <1>9, Now
    <3>2. sem \in [Procs -> Sems]
      BY <1>1 DEF TypeOK
    <3> HIDE DEF s
    <3> QED
      BY <1>1, <1>3, <1>5, <1>6, <1>8, <1>10, <2>1, <3>1, <3>2, NotifyStep
  <2>2. CASE waiters' = [waiters EXCEPT ![s] = q] /\ pc' = f /\ UNCHANGED cur
    <3>1. TokensExact'
      BY <1>3, <1>9, <2>2, HoldersNext, HoldersNow DEF IInv, TokensExact
    <3>2. \A t \in Sems : QueueOf(waiters'[t], t, pc', sem')
      BY <1>1, <1>3, <1>8, <1>10, <2>2 DEF TypeOK
    <3>3. QueueOK'
      BY <3>2 DEF QueueOK, QueueOf
    <3> QED
      BY <1>1, <1>5, <1>6, <2>2, <3>1, <3>3 DEF IInv, CurBounded, TypeOK, Cap
  <2> QED
    BY <1>4, <2>1, <2>2 DEF q
<1>12. SemOK'
  BY <1>1, <1>2, <1>3, <1>6, <1>11 DEF IInv, SemOK, f, TypeOK
<1> QED
  BY <1>1, <1>3, <1>11, <1>12 DEF IInv, TypeOK

LEMMA NextInv == IInv /\ [Next]_vars => IInv'
<1> SUFFICES ASSUME IInv, [Next]_vars PROVE IInv'
  OBVIOUS
<1>0. TypeOK /\ SemOK
  BY DEF IInv
<1>1. CASE UNCHANGED vars
  BY <1>1 DEF vars, IInv, TypeOK, QueueOK, SemOK, TokensExact, Holders, CurBounded, Cap
<1>2. ASSUME NEW p \in Procs, Acquire(p) PROVE IInv'
  <2>1. /\ pc[p] \notin Holding \cup {"queued"} /\ sem[p] = "interactive" /\ sem' = sem
        /\ "interactive" \in Sems /\ "idle" \in States \ (Holding \cup {"queued"})
        /\ SemAcquire(p, "interactive", "idle") /\ UNCHANGED <<timer, expired>>
    BY <1>2 DEF Acquire, Holding, Sems, States
  <2>2. /\ TokensExact' /\ QueueOK' /\ CurBounded'
        /\ cur' \in [Sems -> Nat] /\ waiters' \in [Sems -> Seq(Procs)]
        /\ \/ pc' = [pc EXCEPT ![p] = "idle"]
           \/ pc' = [pc EXCEPT ![p] = "acquired"]
           \/ pc' = [pc EXCEPT ![p] = "queued"]
    BY <2>1, AcquireStep
  <2> QED
    BY <1>0, <2>1, <2>2 DEF IInv, TypeOK, SemOK, States
<1>3. ASSUME NEW p \in Procs, AcquireBatch(p) PROVE IInv'
  <2>1. /\ pc[p] \notin Holding \cup {"queued"} /\ sem[p] = "batch" /\ sem' = sem
        /\ "batch" \in Sems /\ "detached" \in States \ (Holding \cup {"queued"})
        /\ SemAcquire(p, "batch", "detached") /\ UNCHANGED <<timer, expired>>
    BY <1>0, <1>3 DEF AcquireBatch, Holding, Sems, States, SemOK
  <2>2. /\ TokensExact' /\ QueueOK' /\ CurBounded'
        /\ cur' \in [Sems -> Nat] /\ waiters' \in [Sems -> Seq(Procs)]
        /\ \/ pc' = [pc EXCEPT ![p] = "detached"]
           \/ pc' = [pc EXCEPT ![p] = "acquired"]
           \/ pc' = [pc EXCEPT ![p] = "queued"]
    BY <2>1, AcquireStep
  <2> QED
    BY <1>0, <2>1, <2>2 DEF IInv, TypeOK, SemOK, States
<1>4. ASSUME NEW p \in Procs, CancelWait(p) PROVE IInv'
  BY <1>4, CancelStep
\* A step that leaves every token and every queue where it is.
<1>5. ASSUME NEW p \in Procs, NEW x \in States, pc' = [pc EXCEPT ![p] = x],
             pc[p] # "queued", x # "queued", pc[p] \in Holding <=> x \in Holding,
             sem' \in [Procs -> Sems], \A r \in Procs \ {p} : sem'[r] = sem[r],
             sem'[p] = sem[p] \/ x \notin Holding,
             UNCHANGED <<cur, waiters>>
      PROVE  TokensExact' /\ QueueOK' /\ CurBounded'
  <2>1. \A t \in Sems : HoldersOf(t, pc', sem') = HoldersOf(t, pc, sem)
    BY <1>0, <1>5 DEF HoldersOf, TypeOK
  <2>2. TokensExact'
    BY <1>5, <2>1, Now, TokensNext
  <2>3. sem' = [sem EXCEPT ![p] = sem'[p]]
    BY <1>0, <1>5 DEF TypeOK
  <2>4. \A t \in Sems : QueueOf(waiters[t], t, pc', sem')
    <3> SUFFICES ASSUME NEW t \in Sems PROVE QueueOf(waiters[t], t, pc', sem')
      OBVIOUS
    <3>1. \A i \in DOMAIN waiters[t] : waiters[t][i] \in Procs /\ waiters[t][i] # p
      BY <1>0, <1>5, Now DEF QueueOf, TypeOK
    <3> QED
      BY <1>0, <1>5, <3>1, Now DEF QueueOf, TypeOK
  <2>5. QueueOK'
    BY <1>5, <2>4, QueueNext
  <2> QED
    BY <1>5, <2>2, <2>5 DEF IInv, CurBounded, Cap
<1>6. ASSUME NEW p \in Procs, Wake(p) PROVE IInv'
  <2>1. CASE expired[p]
    <3>1. /\ pc[p] \in Holding /\ Failed(p) \in States \ (Holding \cup {"queued"})
          /\ SemRelease(sem[p], [pc EXCEPT ![p] = Failed(p)])
          /\ sem' = [sem EXCEPT ![p] = sem[p]] /\ sem[p] \in Sems /\ sem' = sem
          /\ UNCHANGED <<timer, expired>>
      BY <1>0, <1>6, <2>1 DEF Wake, Holding, Failed, States, TypeOK
    <3>2. /\ TokensExact' /\ QueueOK' /\ CurBounded'
          /\ cur' \in [Sems -> Nat] /\ waiters' \in [Sems -> Seq(Procs)]
          /\ pc' \in [Procs -> States]
          /\ \A r \in Procs : pc'[r] = [pc EXCEPT ![p] = Failed(p)][r] \/ pc'[r] = "granted"
      BY <3>1, ReleaseStep
    <3>3. SemOK'
      BY <1>0, <3>1, <3>2 DEF SemOK, Failed, TypeOK, Sems
    <3> QED
      BY <1>0, <3>1, <3>2, <3>3 DEF IInv, TypeOK
  <2>2. CASE ~expired[p]
    <3>1. /\ pc' = [pc EXCEPT ![p] = "acquired"] /\ pc[p] = "granted"
          /\ UNCHANGED <<cur, waiters, sem, timer, expired>>
      BY <1>6, <2>2 DEF Wake
    <3>2. TokensExact' /\ QueueOK' /\ CurBounded'
      BY <1>0, <1>5, <3>1 DEF Holding, States, TypeOK
    <3> QED
      BY <1>0, <3>1, <3>2 DEF IInv, TypeOK, SemOK, States
  <2> QED
    BY <2>1, <2>2
<1>7. ASSUME NEW p \in Procs, Acquired(p) PROVE IInv'
  <2>1. TokensExact' /\ QueueOK' /\ CurBounded'
    BY <1>0, <1>5, <1>7 DEF Acquired, Holding, States, TypeOK
  <2> QED
    BY <1>0, <1>7, <2>1 DEF Acquired, IInv, TypeOK, SemOK, States
<1>8. ASSUME NEW p \in Procs, Yield(p) PROVE IInv'
  <2>0. sem' = [sem EXCEPT ![p] = "batch"] /\ "batch" \in Sems /\ UNCHANGED <<timer, expired>>
    BY <1>8 DEF Yield, Sems
  <2>1. CASE pc[p] = "running"
    <3>1. /\ pc[p] \in Holding /\ "yielding" \in States \ (Holding \cup {"queued"})
          /\ SemRelease(sem[p], [pc EXCEPT ![p] = "yielding"])
      BY <1>8, <2>1 DEF Yield, Holding, States
    <3>2. /\ TokensExact' /\ QueueOK' /\ CurBounded'
          /\ cur' \in [Sems -> Nat] /\ waiters' \in [Sems -> Seq(Procs)]
          /\ pc' \in [Procs -> States]
          /\ \A r \in Procs : pc'[r] = [pc EXCEPT ![p] = "yielding"][r] \/ pc'[r] = "granted"
      BY <2>0, <3>1, ReleaseStep
    <3>3. SemOK'
      BY <1>0, <2>0, <3>2 DEF SemOK, TypeOK
    <3> QED
      BY <1>0, <2>0, <3>2, <3>3 DEF IInv, TypeOK
  <2>2. CASE pc[p] = "detached"
    <3>1. pc' = [pc EXCEPT ![p] = "yielding"] /\ UNCHANGED <<cur, waiters>>
      BY <1>8, <2>2 DEF Yield
    <3>2. TokensExact' /\ QueueOK' /\ CurBounded'
      BY <1>0, <1>5, <2>0, <2>2, <3>1 DEF Holding, States, TypeOK
    <3> QED
      BY <1>0, <2>0, <3>1, <3>2 DEF IInv, TypeOK, SemOK, States
  <2> QED
    BY <1>8, <2>1, <2>2 DEF Yield
<1>9. ASSUME NEW p \in Procs, Release(p) PROVE IInv'
  <2>0. /\ sem' = [sem EXCEPT ![p] = "interactive"] /\ "interactive" \in Sems
        /\ timer' \in [Procs -> {"armed", "fired", "nil"}] /\ expired' \in [Procs -> BOOLEAN]
    BY <1>0, <1>9 DEF Release, Sems, TypeOK
  <2>1. CASE pc[p] = "running"
    <3>1. /\ pc[p] \in Holding /\ "idle" \in States \ (Holding \cup {"queued"})
          /\ SemRelease(sem[p], [pc EXCEPT ![p] = "idle"])
      BY <1>9, <2>1 DEF Release, Holding, States
    <3>2. /\ TokensExact' /\ QueueOK' /\ CurBounded'
          /\ cur' \in [Sems -> Nat] /\ waiters' \in [Sems -> Seq(Procs)]
          /\ pc' \in [Procs -> States]
          /\ \A r \in Procs : pc'[r] = [pc EXCEPT ![p] = "idle"][r] \/ pc'[r] = "granted"
      BY <2>0, <3>1, ReleaseStep
    <3>3. SemOK'
      BY <1>0, <2>0, <3>2 DEF SemOK, TypeOK
    <3> QED
      BY <1>0, <2>0, <3>2, <3>3 DEF IInv, TypeOK
  <2>2. CASE pc[p] = "detached"
    <3>1. pc' = [pc EXCEPT ![p] = "idle"] /\ UNCHANGED <<cur, waiters>>
      BY <1>9, <2>2 DEF Release
    <3>2. TokensExact' /\ QueueOK' /\ CurBounded'
      BY <1>0, <1>5, <2>0, <2>2, <3>1 DEF Holding, States, TypeOK
    <3> QED
      BY <1>0, <2>0, <3>1, <3>2 DEF IInv, TypeOK, SemOK, States
  <2> QED
    BY <1>9, <2>1, <2>2 DEF Release
<1>10. ASSUME NEW p \in Procs, TimerFires(p) \/ Expire(p) \/ NewRequest(p) PROVE IInv'
  <2>1. UNCHANGED <<cur, waiters, pc, sem>>
    BY <1>10 DEF TimerFires, Expire, NewRequest
  <2>2. TokensExact' /\ QueueOK' /\ CurBounded' /\ SemOK'
    BY <2>1 DEF IInv, TokensExact, Holders, QueueOK, CurBounded, Cap, SemOK
  <2> QED
    BY <1>0, <1>10, <2>1, <2>2 DEF IInv, TypeOK, TimerFires, Expire, NewRequest
<1> QED
  BY <1>1, <1>2, <1>3, <1>4, <1>6, <1>7, <1>8, <1>9, <1>10 DEF Next

LEMMA Invariance == Spec => []IInv
  BY InitInv, NextInv, PTL DEF Spec

\* Every variable of the scheduler keeps its type; in particular no semaphore
\* is ever released more often than it was acquired.
THEOREM TypeCorrect == Spec => []TypeOK
<1>1. IInv => TypeOK
  BY DEF IInv
<1> QED
  BY Invariance, <1>1, PTL

\* Exactly one token is out for each process that runs or is about to, through
\* every cancellation and every failed yield: sched.go:136-137, 146-169.
THEOREM TokensCorrect == Spec => []TokensExact
<1>1. IInv => TokensExact
  BY DEF IInv
<1> QED
  BY Invariance, <1>1, PTL

\* The scheduler keeps to its two limits: sched.go:61-68, 104.
THEOREM CapacityCorrect == Spec => []CapacityRespected
<1>1. IInv => CapacityRespected
  BY DEF IInv, TokensExact, CurBounded, CapacityRespected
<1> QED
  BY Invariance, <1>1, PTL

-----------------------------------------------------------------------------
\* A process that runs on a batch token has stopped its timer: it has no deadline to yield
\* at any more.
NoDeadline == \A p \in Procs : pc[p] = "running" /\ sem[p] = "batch" => timer[p] = "nil"

\* Whoever gets a token from a call of the semaphore waited for it; everyone but the caller
\* and that one stays where it is.
LEMMA NotifyOthers ==
  ASSUME IInv, NEW s \in Sems, NEW n \in Nat, NEW q \in Seq(Procs), NEW f \in [Procs -> States],
         \A i \in DOMAIN q : f[q[i]] = "queued", Notify(s, n, q, f)
  PROVE  \A r \in Procs : pc'[r] = f[r] \/ (f[r] = "queued" /\ pc'[r] = "granted")
<1>1. CASE ~(q # <<>> /\ n < Cap(s))
  BY <1>1 DEF Notify
<1>2. CASE q # <<>> /\ n < Cap(s)
  <2>1. pc' = [f EXCEPT ![Head(q)] = "granted"]
    BY <1>2 DEF Notify
  <2>2. Head(q) \in Procs /\ f[Head(q)] = "queued"
    BY <1>2
  <2> QED
    BY <2>1, <2>2
<1> QED
  BY <1>1, <1>2

\* Only its own Release takes a running process off its token, and its own Yield.
LEMMA RunningStays ==
  ASSUME IInv, Next, NEW r \in Procs, pc[r] = "running"
  PROVE  \/ pc'[r] = "running" /\ sem'[r] = sem[r] /\ timer'[r] \in {timer[r], "fired"}
            /\ (timer'[r] = "fired" => timer[r] # "nil")
         \/ Release(r) /\ pc'[r] = "idle"
         \/ Yield(r)
<1>0. TypeOK /\ QueueOK
  BY DEF IInv
<1>1. PICK p \in Procs :
        \/ Acquire(p) \/ Wake(p) \/ CancelWait(p) \/ Acquired(p)
        \/ Yield(p) \/ AcquireBatch(p) \/ Release(p)
        \/ TimerFires(p) \/ Expire(p) \/ NewRequest(p)
  BY DEF Next
\* A token of s is released by p, which goes on at x.
<1>2. ASSUME NEW s \in Sems, NEW x \in States, SemRelease(s, [pc EXCEPT ![p] = x]), pc[p] # "queued",
             cur[s] >= 1
      PROVE  \A t \in Procs : pc'[t] = [pc EXCEPT ![p] = x][t] \/ (t # p /\ pc[t] = "queued") \/ x = "queued"
  <2>1. PICK f : f = [pc EXCEPT ![p] = x]
    OBVIOUS
  <2>2. /\ cur[s] - 1 \in Nat /\ waiters[s] \in Seq(Procs) /\ f \in [Procs -> States]
        /\ \A i \in DOMAIN waiters[s] : f[waiters[s][i]] = "queued"
    BY <1>0, <1>2, <2>1 DEF TypeOK, QueueOK
  <2>3. Notify(s, cur[s] - 1, waiters[s], f)
    BY <1>2, <2>1 DEF SemRelease
  <2>4. \A t \in Procs : pc'[t] = f[t] \/ (f[t] = "queued" /\ pc'[t] = "granted")
    <3>1. PICK n \in Nat : n = cur[s] - 1
      BY <2>2
    <3> QED
      BY <2>2, <2>3, <3>1, NotifyOthers
  <2>5. \A t \in Procs : f[t] = [pc EXCEPT ![p] = x][t] /\ f[t] = IF t = p THEN x ELSE pc[t]
    BY <1>0, <2>1 DEF TypeOK
  <2> QED
    BY <2>4, <2>5
\* A process that holds a token is counted.
<1>3. ASSUME pc[p] \in Holding PROVE sem[p] \in Sems /\ cur[sem[p]] >= 1
  <2>1. sem[p] \in Sems /\ p \in Holders(sem[p])
    BY <1>0, <1>3 DEF TypeOK, Holders, Holding
  <2>2. IsFiniteSet(Holders(sem[p])) /\ Cardinality(Holders(sem[p])) # 0 /\ Cardinality(Holders(sem[p])) \in Nat
    BY <2>1, HoldersFinite, FS_EmptySet
  <2>3. cur[sem[p]] = Cardinality(Holders(sem[p]))
    BY <2>1 DEF IInv, TokensExact
  <2> QED
    BY <2>1, <2>2, <2>3
<1>4. CASE Acquire(p) \/ AcquireBatch(p)
  <2>1. pc[p] \in {"idle", "yielding"} /\ r # p /\ UNCHANGED <<sem, timer>>
    BY <1>4 DEF Acquire, AcquireBatch
  <2>2. pc'[r] = pc[r]
    BY <1>0, <1>4, <2>1 DEF Acquire, AcquireBatch, SemAcquire, TypeOK
  <2> QED
    BY <2>1, <2>2
<1>5. CASE Wake(p)
  <2>1. pc[p] = "granted" /\ r # p /\ UNCHANGED <<sem, timer>>
    BY <1>5 DEF Wake
  <2>2. CASE expired[p]
    <3>1. SemRelease(sem[p], [pc EXCEPT ![p] = Failed(p)]) /\ Failed(p) \in States /\ Failed(p) # "queued"
      BY <1>5, <2>2 DEF Wake, Failed, States
    <3>2. sem[p] \in Sems /\ cur[sem[p]] >= 1
      BY <1>3, <2>1 DEF Holding
    <3>3. pc'[r] = [pc EXCEPT ![p] = Failed(p)][r]
      BY <1>2, <2>1, <3>1, <3>2
    <3>4. pc'[r] = pc[r]
      BY <1>0, <2>1, <3>3 DEF TypeOK
    <3> QED
      BY <2>1, <3>4
  <2>3. CASE ~expired[p]
    BY <1>0, <1>5, <2>1, <2>3 DEF Wake, TypeOK
  <2> QED
    BY <2>2, <2>3
<1>6. CASE CancelWait(p)
  <2> DEFINE s == sem[p]
             f == [pc EXCEPT ![p] = Failed(p)]
  <2>1. /\ pc[p] = "queued" /\ r # p /\ UNCHANGED <<sem, timer>> /\ s \in Sems
        /\ waiters[s] \in Seq(Procs) /\ cur[s] \in Nat /\ f \in [Procs -> States]
    BY <1>0, <1>6 DEF CancelWait, Failed, TypeOK, States
  <2>2. PICK k \in DOMAIN waiters[s] :
          /\ waiters[s][k] = p
          /\ \/ k = 1 /\ Notify(s, cur[s], Without(waiters[s], k), f)
             \/ pc' = f
    BY <1>6 DEF CancelWait
  <2>3. CASE pc' = f
    BY <1>0, <2>1, <2>3 DEF TypeOK
  <2>4. CASE k = 1 /\ Notify(s, cur[s], Without(waiters[s], k), f)
    <3>1. PICK q : q = Without(waiters[s], 1)
      OBVIOUS
    <3>2. /\ q \in Seq(Procs)
          /\ \A i \in DOMAIN q : i + 1 \in DOMAIN waiters[s] /\ q[i] = waiters[s][i + 1] /\ i + 1 # 1
      BY <2>1, <2>4, <3>1 DEF Without
    <3>3. \A i \in DOMAIN q : f[q[i]] = "queued"
      <4> SUFFICES ASSUME NEW i \in DOMAIN q PROVE f[q[i]] = "queued"
        OBVIOUS
      <4>1. /\ waiters[s][i + 1] \in Procs /\ pc[waiters[s][i + 1]] = "queued"
            /\ waiters[s][i + 1] # waiters[s][1]
        BY <1>0, <2>1, <2>4, <3>2 DEF QueueOK
      <4> QED
        BY <2>2, <2>4, <3>2, <4>1
    <3>4. pc'[r] = f[r] \/ (f[r] = "queued" /\ pc'[r] = "granted")
      <4> HIDE DEF f, s
      <4> QED
        BY <2>1, <2>4, <3>1, <3>2, <3>3, NotifyOthers
    <3>5. f[r] = "running"
      BY <1>0, <2>1 DEF TypeOK
    <3> QED
      BY <2>1, <3>4, <3>5
  <2> QED
    BY <2>2, <2>3, <2>4
<1>7. CASE Acquired(p)
  BY <1>0, <1>7 DEF Acquired, TypeOK
<1>8. CASE Yield(p) /\ p # r
  <2>1. sem'[r] = sem[r] /\ timer' = timer
    BY <1>0, <1>8 DEF Yield, TypeOK
  <2>2. pc'[r] = pc[r]
    <3>1. CASE pc[p] = "running"
      <4>1. SemRelease(sem[p], [pc EXCEPT ![p] = "yielding"]) /\ "yielding" \in States
        BY <1>8, <3>1 DEF Yield, States
      <4>2. sem[p] \in Sems /\ cur[sem[p]] >= 1
        BY <1>3, <3>1 DEF Holding
      <4>3. pc'[r] = [pc EXCEPT ![p] = "yielding"][r]
        BY <1>2, <3>1, <4>1, <4>2
      <4> QED
        BY <1>0, <1>8, <4>3 DEF TypeOK
    <3>2. CASE pc[p] = "detached"
      BY <1>0, <1>8, <3>2 DEF Yield, TypeOK
    <3> QED
      BY <1>8, <3>1, <3>2 DEF Yield
  <2> QED
    BY <2>1, <2>2
<1>9. CASE Release(p)
  <2>1. CASE pc[p] = "running"
    <3>1. SemRelease(sem[p], [pc EXCEPT ![p] = "idle"]) /\ "idle" \in States
      BY <1>9, <2>1 DEF Release, States
    <3>2. sem[p] \in Sems /\ cur[sem[p]] >= 1
      BY <1>3, <2>1 DEF Holding
    <3>3. pc'[r] = [pc EXCEPT ![p] = "idle"][r]
      BY <1>2, <2>1, <3>1, <3>2
    <3> QED
      BY <1>0, <1>9, <3>3 DEF Release, TypeOK
  <2>2. CASE pc[p] = "detached"
    BY <1>0, <1>9, <2>2 DEF Release, TypeOK
  <2> QED
    BY <1>9, <2>1, <2>2 DEF Release
<1>10. CASE TimerFires(p) \/ Expire(p) \/ NewRequest(p)
  BY <1>0, <1>10 DEF TimerFires, Expire, NewRequest, TypeOK
<1> QED
  BY <1>1, <1>4, <1>5, <1>6, <1>7, <1>8, <1>9, <1>10

LEMMA NextNoDeadline ==
  ASSUME IInv, NoDeadline, [Next]_vars
  PROVE  NoDeadline'
<1>1. CASE UNCHANGED vars
  BY <1>1 DEF vars, NoDeadline
<1>2. CASE Next
  <2> SUFFICES ASSUME NEW r \in Procs, pc'[r] = "running", sem'[r] = "batch" PROVE timer'[r] = "nil"
    BY DEF NoDeadline
  <2>0. TypeOK
    BY DEF IInv
  <2>1. CASE pc[r] = "running"
    <3>1. ~Yield(r)
      <4>1. ASSUME Yield(r) PROVE FALSE
        <5>1. pc[r] = "running" /\ SemRelease(sem[r], [pc EXCEPT ![r] = "yielding"]) /\ sem' = [sem EXCEPT ![r] = "batch"]
          BY <2>1, <4>1 DEF Yield
        <5>2. /\ pc[r] \in Holding /\ "yielding" \in States \ (Holding \cup {"queued"}) /\ sem[r] \in Sems
              /\ "batch" \in Sems
          BY <2>0, <5>1 DEF Holding, States, TypeOK, Sems
        <5>3. pc'[r] = [pc EXCEPT ![r] = "yielding"][r] \/ pc'[r] = "granted"
          BY <5>1, <5>2, ReleaseStep
        <5> QED
          BY <2>0, <5>3 DEF TypeOK
      <4> QED
        BY <4>1
    <3>2. pc'[r] = "running" /\ sem'[r] = sem[r] /\ timer'[r] \in {timer[r], "fired"} /\ (timer'[r] = "fired" => timer[r] # "nil")
      BY <1>2, <2>1, <3>1, RunningStays
    <3> QED
      BY <2>1, <3>2 DEF NoDeadline
  <2>2. CASE pc[r] # "running"
    <3>1. Acquired(r)
      <4>1. PICK p \in Procs :
              \/ Acquire(p) \/ Wake(p) \/ CancelWait(p) \/ Acquired(p)
              \/ Yield(p) \/ AcquireBatch(p) \/ Release(p)
              \/ TimerFires(p) \/ Expire(p) \/ NewRequest(p)
        BY <1>2 DEF Next
      <4>2. ~(Acquire(p) \/ AcquireBatch(p))
        BY <2>0, <2>2 DEF Acquire, AcquireBatch, SemAcquire, TypeOK
      <4>3. ~(Wake(p) \/ Yield(p) \/ Release(p) \/ CancelWait(p))
        BY <2>0, <2>2 DEF Wake, Yield, Release, CancelWait, SemRelease, Notify, Failed, TypeOK, Sems
      <4>4. ~(TimerFires(p) \/ Expire(p) \/ NewRequest(p))
        BY <2>2 DEF TimerFires, Expire, NewRequest
      <4>5. Acquired(p)
        BY <4>1, <4>2, <4>3, <4>4
      <4> QED
        BY <2>0, <2>2, <4>5 DEF Acquired, TypeOK
    <3> QED
      BY <2>0, <3>1 DEF Acquired, TypeOK
  <2> QED
    BY <2>1, <2>2
<1> QED
  BY <1>1, <1>2

\* A search that has moved to the batch semaphore runs to its end on that token: it yields
\* once and never goes back (sched.go:151-160).
THEOREM BatchCorrect == Spec => BatchForGood
<1>1. Init => NoDeadline
  BY DEF Init, NoDeadline
<1>2. Spec => []NoDeadline
  BY <1>1, InitInv, NextInv, NextNoDeadline, PTL DEF Spec
<1>3. ASSUME IInv, NoDeadline, [Next]_vars
      PROVE  [\A p \in Procs : pc[p] = "running" /\ sem[p] = "batch" => pc'[p] \in {"running", "idle"}]_vars
  <2>1. CASE UNCHANGED vars
    BY <2>1
  <2>2. CASE Next
    <3>1. ASSUME NEW p \in Procs, pc[p] = "running", sem[p] = "batch" PROVE pc'[p] \in {"running", "idle"}
      <4>1. timer[p] = "nil" /\ ~Yield(p)
        BY <1>3, <3>1 DEF NoDeadline, Yield
      <4> QED
        BY <1>3, <2>2, <3>1, <4>1, RunningStays
    <3> QED
      BY <3>1
  <2> QED
    BY <1>3, <2>1, <2>2
<1> QED
  BY <1>2, <1>3, Invariance, PTL DEF Spec, BatchForGood
=============================================================================
