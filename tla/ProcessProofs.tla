--------------------------- MODULE ProcessProofs ---------------------------
(***************************************************************************)
(* Proofs about the run queue, for any number of processes and objects.    *)
(***************************************************************************)
EXTENDS Process, ListLemmas, FiniteSetTheorems, SequenceTheorems, TLAPS

\* The types of the variables other than the queue; that no count is below
\* -1 follows from RefBalance.
Types ==
  /\ refs \in [Object -> Int]
  /\ held \in [Object -> BOOLEAN]
  /\ executing \in Proc \cup {NoProc}
  /\ waited \in [Proc -> Nat]

\* BoundedWait, with the queue and the waiting times as parameters.
Bounded(q, w) == \A k \in 1 .. Len(q) : w[q[k]] + k <= Cardinality(Proc)

\* The processes of object o on the queue q.
On(q, o) == {p \in Proc : Member(q, p) /\ ObjOf[p] = o}

\* Process e of object o is being executed.
Runs(e, o) == e # NoProc /\ ObjOf[e] = o

\* RefBalance, with the state as parameters.
Balance(q, r, h, e) ==
  \A o \in Object :
    r[o] + 1 = Cardinality(On(q, o)) + OneIf(h[o]) + OneIf(Runs(e, o))

\* The queue holds processes, each once and none waiting too long.
QueueInv ==
  /\ run_queue \in Seq(Proc)
  /\ Once(run_queue)
  /\ Bounded(run_queue, waited)

\* The inductive invariant.
IInv == Types /\ QueueInv /\ Balance(run_queue, refs, held, executing)
-----------------------------------------------------------------------------
LEMMA QueueDef ==
  ASSUME run_queue \in Seq(Proc)
  PROVE  /\ QueuedOnce <=> Once(run_queue)
         /\ BoundedWait <=> Bounded(run_queue, waited)
         /\ \A p : Queued(p) <=> Member(run_queue, p)
<1>1. DOMAIN run_queue = 1 .. Len(run_queue)
  BY LenProperties
<1> QED BY <1>1, Zenon DEF QueuedOnce, Once, BoundedWait, Bounded, Queued, Member

LEMMA BalanceDef ==
  ASSUME run_queue \in Seq(Proc)
  PROVE  RefBalance <=> Balance(run_queue, refs, held, executing)
<1>1. ASSUME NEW o \in Object PROVE QueuedOf(o) = On(run_queue, o)
  BY QueueDef, Zenon DEF QueuedOf, On
<1> QED BY <1>1, Zenon DEF RefBalance, Balance, Runs

\* The sets On(q, o) are finite.
LEMMA OnFinite ==
  ASSUME NEW q, NEW o
  PROVE  IsFiniteSet(On(q, o)) /\ Cardinality(On(q, o)) \in Nat
<1>1. On(q, o) \in SUBSET Proc
  BY DEF On
<1> QED BY <1>1, FS_Subset, FS_CardinalityType, ConstantsAssumption

\* How many processes of each object there are on a queue with one more
\* process, ...
LEMMA OnAdd ==
  ASSUME NEW q, NEW d, NEW p \in Proc, ~Member(q, p),
         \A x : Member(d, x) <=> Member(q, x) \/ x = p, NEW o
  PROVE  Cardinality(On(d, o)) = Cardinality(On(q, o)) + OneIf(ObjOf[p] = o)
<1>1. CASE ObjOf[p] = o
  <2>1. On(d, o) = On(q, o) \cup {p} /\ p \notin On(q, o)
    BY <1>1 DEF On
  <2>2. Cardinality(On(q, o) \cup {p}) = Cardinality(On(q, o)) + 1
    BY Zenon, <2>1, OnFinite, FS_AddElement
  <2> QED BY <1>1, <2>1, <2>2 DEF OneIf
<1>2. CASE ObjOf[p] # o
  <2>1. On(d, o) = On(q, o)
    BY <1>2 DEF On
  <2> QED BY <1>2, <2>1, OnFinite DEF OneIf
<1> QED BY <1>1, <1>2

\* ... and on one with one process less.
LEMMA OnDel ==
  ASSUME NEW q, NEW d, NEW p \in Proc, Member(q, p),
         \A x : Member(d, x) <=> Member(q, x) /\ x # p, NEW o
  PROVE  Cardinality(On(d, o)) = Cardinality(On(q, o)) - OneIf(ObjOf[p] = o)
<1>1. CASE ObjOf[p] = o
  <2>1. On(d, o) = On(q, o) \ {p} /\ p \in On(q, o)
    BY <1>1 DEF On
  <2>2. Cardinality(On(q, o) \ {p}) = Cardinality(On(q, o)) - 1
    BY Zenon, <2>1, OnFinite, FS_RemoveElement
  <2> QED BY <1>1, <2>1, <2>2 DEF OneIf
<1>2. CASE ObjOf[p] # o
  <2>1. On(d, o) = On(q, o)
    BY <1>2 DEF On
  <2> QED BY <1>2, <2>1, OnFinite DEF OneIf
<1> QED BY <1>1, <1>2

\* A process that is appended finds room within the bound.
LEMMA AppendBounded ==
  ASSUME NEW q \in Seq(Proc), NEW p \in Proc, Once(q), ~Member(q, p),
         NEW w, w[p] = 0, Bounded(q, w)
  PROVE  Bounded(Append(q, p), w)
<1> DEFINE n == Len(q)
           d == Append(q, p)
<1>1. n \in Nat
  BY LenProperties
<1>2. /\ d \in Seq(Proc)
      /\ Len(d) = n + 1
      /\ \A k \in 1 .. n : d[k] = q[k]
      /\ d[n + 1] = p
  BY AppendProperties
<1>3. Once(d)
  BY AppendOnce
<1>4. n + 1 <= Cardinality(Proc)
  <2>1. Len(d) <= Cardinality(Proc)
    BY Zenon, <1>2, <1>3, OnceBound, ConstantsAssumption
  <2> QED BY <1>2, <2>1
<1>5. \A k \in 1 .. n : w[q[k]] + k <= Cardinality(Proc)
  BY DEF Bounded
<1> HIDE DEF n, d
<1>6. ASSUME NEW k \in 1 .. n + 1 PROVE w[d[k]] + k <= Cardinality(Proc)
  <2>1. CASE k \in 1 .. n
    BY <1>2, <1>5, <2>1
  <2>2. CASE k = n + 1
    BY <1>1, <1>2, <1>4, <2>2
  <2> QED BY <1>1, <2>1, <2>2
<1> QED BY <1>2, <1>6 DEF d, Bounded
-----------------------------------------------------------------------------
LEMMA InitInv == Init => IInv
<1> SUFFICES ASSUME Init PROVE IInv
  OBVIOUS
<1> DEFINE n == Cardinality(Permanent)
<1>1. Permanent \in SUBSET Proc /\ IsFiniteSet(Proc)
  BY ConstantsAssumption
<1>2. IsFiniteSet(Permanent) /\ n \in Nat /\ n <= Cardinality(Proc)
  BY <1>1, FS_Subset, FS_CardinalityType
<1>3. run_queue \in [1 .. n -> Permanent] /\ DOMAIN run_queue = 1 .. n
  BY DEF Init
<1>4. run_queue \in Seq(Proc) /\ Len(run_queue) = n
  BY <1>1, <1>2, <1>3
<1>5. \A p \in Permanent : \E k \in 1 .. n : run_queue[k] = p
  BY <1>3, Zenon DEF Init, Queued
<1>6. Once(run_queue)
  <2>1. run_queue \in Surjection(1 .. n, Permanent)
    BY <1>3, <1>5, Zenon DEF Surjection
  <2>2. IsFiniteSet(1 .. n) /\ Cardinality(1 .. n) = n
    BY <1>2, FS_Interval
  <2>3. run_queue \in Injection(1 .. n, Permanent)
    BY <2>1, <2>2, FS_SurjSameCardinalityImpliesInj
  <2>4. \A j, k \in 1 .. n : run_queue[j] = run_queue[k] => j = k
    BY <1>3, <2>3, Zenon DEF Injection, IsInjective
  <2> QED BY <1>4, <2>4 DEF Once
<1>7. Types
  <2>1. ASSUME NEW o \in Object
        PROVE  Cardinality({p \in Permanent : ObjOf[p] = o}) \in Int
    <3>1. {p \in Permanent : ObjOf[p] = o} \in SUBSET Permanent
      OBVIOUS
    <3> QED BY <1>2, <3>1, FS_Subset, FS_CardinalityType
  <2> QED BY <2>1 DEF Init, Types
<1>8. Bounded(run_queue, waited)
  <2>1. ASSUME NEW k \in 1 .. n PROVE waited[run_queue[k]] + k <= Cardinality(Proc)
    <3>1. run_queue[k] \in Proc
      BY <1>1, <1>3
    <3>2. waited[run_queue[k]] = 0
      BY <3>1 DEF Init
    <3>3. Cardinality(Proc) \in Nat
      BY <1>1, FS_CardinalityType
    <3> QED BY <1>2, <3>2, <3>3
  <2> QED BY <1>4, <2>1 DEF Bounded
<1>9. Balance(run_queue, refs, held, executing)
  <2> SUFFICES ASSUME NEW o \in Object
               PROVE  refs[o] + 1 = Cardinality(On(run_queue, o))
                                    + OneIf(held[o]) + OneIf(Runs(executing, o))
    BY DEF Balance
  <2>1. On(run_queue, o) = {p \in Permanent : ObjOf[p] = o}
    <3>1. \A p \in Proc : Member(run_queue, p) <=> p \in Permanent
      BY <1>3, <1>4, <1>5, Zenon DEF Member
    <3> QED BY <1>1, <3>1 DEF On
  <2>2. refs[o] = Cardinality(On(run_queue, o)) /\ held[o] /\ executing = NoProc
    BY <2>1 DEF Init
  <2> QED BY <2>2, OnFinite DEF OneIf, Runs
<1> QED BY SMTT(30), <1>4, <1>6, <1>7, <1>8, <1>9 DEF IInv, QueueInv

LEMMA AddInv ==
  ASSUME IInv, NEW p \in Proc, process_add(p)
  PROVE  IInv'
<1>1. run_queue \in Seq(Proc) /\ Once(run_queue) /\ Bounded(run_queue, waited)
  BY DEF IInv, QueueInv
<1>2. ~Member(run_queue, p)
  BY <1>1, QueueDef DEF process_add
<1>3. /\ run_queue' = Append(run_queue, p)
      /\ refs' = [refs EXCEPT ![ObjOf[p]] = @ + 1]
      /\ waited' = [waited EXCEPT ![p] = 0]
      /\ held' = held /\ executing' = executing
  BY DEF process_add
<1>4. Types /\ ObjOf[p] \in Object
  BY ConstantsAssumption DEF IInv
<1>5. Types'
  BY <1>3, <1>4 DEF Types
<1>6. /\ Append(run_queue, p) \in Seq(Proc)
      /\ Once(Append(run_queue, p))
      /\ \A x : Member(Append(run_queue, p), x) <=> Member(run_queue, x) \/ x = p
  BY <1>1, <1>2, AppendProperties, AppendOnce
<1>7. Bounded(Append(run_queue, p), waited')
  <2>1. waited'[p] = 0
    BY <1>3, <1>4 DEF Types
  <2>2. ASSUME NEW k \in 1 .. Len(run_queue)
        PROVE  waited'[run_queue[k]] = waited[run_queue[k]]
    <3>1. run_queue[k] \in Proc /\ run_queue[k] # p
      BY <1>1, <1>2, ElementOfSeq DEF Member
    <3> QED BY <1>3, <1>4, <3>1 DEF Types
  <2>3. Bounded(run_queue, waited')
    BY <1>1, <2>2, Zenon DEF Bounded
  <2> QED BY SMTT(30), <1>1, <1>2, <2>1, <2>3, AppendBounded
<1>8. QueueInv'
  BY <1>3, <1>6, <1>7, Zenon DEF QueueInv
<1>9. Balance(Append(run_queue, p), refs', held, executing)
  <2> SUFFICES ASSUME NEW o \in Object
               PROVE  refs'[o] + 1 = Cardinality(On(Append(run_queue, p), o))
                                     + OneIf(held[o]) + OneIf(Runs(executing, o))
    BY DEF Balance
  <2> DEFINE c == Cardinality(On(run_queue, o))
             d == Cardinality(On(Append(run_queue, p), o))
             h == OneIf(held[o])
             e == OneIf(Runs(executing, o))
  <2>1. refs[o] + 1 = c + h + e
    BY DEF IInv, Balance
  <2>2. d = c + OneIf(ObjOf[p] = o)
    BY SMTT(30), <1>2, <1>6, OnAdd
  <2>3. c \in Nat /\ h \in Nat /\ e \in Nat
    BY OnFinite DEF OneIf
  <2>4. refs'[o] = refs[o] + OneIf(ObjOf[p] = o) /\ refs[o] \in Int
    BY <1>3, <1>4 DEF Types, OneIf
  <2> HIDE DEF c, d, h, e
  <2>5. OneIf(ObjOf[p] = o) \in Nat
    BY DEF OneIf
  <2>6. refs'[o] + 1 = d + h + e
    BY SMTT(30), <2>1, <2>2, <2>3, <2>4, <2>5
  <2> QED BY <2>6 DEF d, h, e
<1> QED BY <1>3, <1>5, <1>8, <1>9, Zenon DEF IInv

LEMMA DelInv ==
  ASSUME IInv, NEW p \in Proc, process_del(p)
  PROVE  IInv'
<1> DEFINE n == Len(run_queue)
           l == list_del(run_queue, p)
<1>1. run_queue \in Seq(Proc) /\ Once(run_queue) /\ Bounded(run_queue, waited)
  BY DEF IInv, QueueInv
<1>2. Member(run_queue, p)
  BY <1>1, QueueDef DEF process_del
<1>3. /\ run_queue' = l
      /\ refs' = [refs EXCEPT ![ObjOf[p]] = @ - 1]
      /\ waited' = waited /\ held' = held /\ executing' = executing
  BY DEF process_del
<1>4. Types /\ ObjOf[p] \in Object
  BY ConstantsAssumption DEF IInv
<1>5. Types'
  BY <1>3, <1>4 DEF Types
<1>6. Once(l) /\ \A x : Member(l, x) <=> Member(run_queue, x) /\ x # p
  BY SMTT(30), <1>1, <1>2, DelOnce
<1>7. PICK i \in 1 .. n :
        /\ l \in Seq(Proc)
        /\ Len(l) = n - 1
        /\ \A k \in 1 .. n - 1 :
             l[k] = IF k < i THEN run_queue[k] ELSE run_queue[k + 1]
  BY SMTT(30), <1>1, <1>2, ListDelFacts DEF Member
<1>8. Bounded(l, waited)
  <2>1. /\ n \in Nat
        /\ Cardinality(Proc) \in Nat
        /\ \A k \in 1 .. n : waited[run_queue[k]] \in Nat
    BY SMTT(30), <1>1, <1>4, LenProperties, ElementOfSeq, FS_CardinalityType,
       ConstantsAssumption DEF Types
  <2>2. \A k \in 1 .. n : waited[run_queue[k]] + k <= Cardinality(Proc)
    BY <1>1 DEF Bounded
  <2> HIDE DEF n, l
  <2>3. ASSUME NEW k \in 1 .. n - 1 PROVE waited[l[k]] + k <= Cardinality(Proc)
    <3>1. CASE k < i
      BY SMTT(30), <1>7, <2>1, <2>2, <3>1
    <3>2. CASE ~(k < i)
      <4>1. l[k] = run_queue[k + 1] /\ k + 1 \in 1 .. n
        BY SMTT(30), <1>7, <2>1, <3>2
      <4> QED BY <2>1, <2>2, <4>1
    <3> QED BY <3>1, <3>2
  <2> QED BY <1>7, <2>3 DEF Bounded
<1> HIDE DEF n, l
<1>9. QueueInv'
  BY <1>3, <1>6, <1>7, <1>8, Zenon DEF QueueInv
<1>10. Balance(l, refs', held, executing)
  <2> SUFFICES ASSUME NEW o \in Object
               PROVE  refs'[o] + 1 = Cardinality(On(l, o))
                                     + OneIf(held[o]) + OneIf(Runs(executing, o))
    BY DEF Balance
  <2> DEFINE c == Cardinality(On(run_queue, o))
             d == Cardinality(On(l, o))
             h == OneIf(held[o])
             e == OneIf(Runs(executing, o))
  <2>1. refs[o] + 1 = c + h + e
    BY DEF IInv, Balance
  <2>2. d = c - OneIf(ObjOf[p] = o)
    BY SMTT(30), <1>2, <1>6, OnDel
  <2>3. c \in Nat /\ h \in Nat /\ e \in Nat
    BY OnFinite DEF OneIf
  <2>4. refs'[o] = refs[o] - OneIf(ObjOf[p] = o) /\ refs[o] \in Int
    BY <1>3, <1>4 DEF Types, OneIf
  <2> HIDE DEF c, d, h, e
  <2>5. OneIf(ObjOf[p] = o) \in Nat
    BY DEF OneIf
  <2>6. refs'[o] + 1 = d + h + e
    BY SMTT(30), <2>1, <2>2, <2>3, <2>4, <2>5
  <2> QED BY <2>6 DEF d, h, e
<1> QED BY <1>3, <1>5, <1>9, <1>10, Zenon DEF IInv

\* Calling the first process: every other process moves up by one position
\* while it waits for one more call.
LEMMA TailBounded ==
  ASSUME IInv, run_queue # << >>
  PROVE  Bounded(Tail(run_queue), Waiting(Head(run_queue)))
<1> DEFINE n == Len(run_queue)
           q == Tail(run_queue)
           p == Head(run_queue)
           C == Cardinality(Proc)
<1>1. run_queue \in Seq(Proc) /\ Bounded(run_queue, waited) /\ Types
  BY DEF IInv, QueueInv
<1>2. n \in Nat /\ n > 0 /\ C \in Nat
  BY SMTT(30), <1>1, LenProperties, EmptySeq, FS_CardinalityType, ConstantsAssumption
<1>3. Len(q) = n - 1 /\ \A k \in 1 .. n - 1 : q[k] = run_queue[k + 1]
  BY <1>1, HeadTailProperties
<1>4. \A k \in 1 .. n : run_queue[k] \in Proc
  BY <1>1, ElementOfSeq
<1>5. \A k \in 1 .. n : waited[run_queue[k]] + k <= C
  BY <1>1 DEF Bounded
<1> HIDE DEF n, q, p, C
<1>6. ASSUME NEW k \in 1 .. n - 1 PROVE Waiting(p)[q[k]] + k <= C
  <2> DEFINE x == run_queue[k + 1]
  <2>1. k + 1 \in 1 .. n /\ q[k] = x
    BY <1>2, <1>3
  <2>2. x \in Proc /\ waited[x] + (k + 1) <= C
    BY <1>4, <1>5, <2>1
  <2> HIDE DEF x
  <2>3. waited[x] \in Nat
    BY <1>1, <2>2 DEF Types
  <2>4. Waiting(p)[x] \in {0, waited[x], waited[x] + 1}
    BY <2>2 DEF Waiting
  <2> QED BY SMTT(30), <1>2, <2>1, <2>2, <2>3, <2>4
<1> QED BY <1>3, <1>6 DEF Bounded, q, p, C

LEMMA StepInv ==
  ASSUME IInv, step
  PROVE  IInv'
<1> DEFINE q == Tail(run_queue)
           p == Head(run_queue)
           w == Waiting(p)
<1>1. /\ run_queue \in Seq(Proc) /\ Once(run_queue) /\ Types
      /\ run_queue # << >>
  BY DEF IInv, QueueInv, step
<1>2. p \in Proc /\ q \in Seq(Proc)
  BY <1>1, HeadTailProperties
<1>3. Once(q) /\ \A x : Member(q, x) <=> Member(run_queue, x) /\ x # p
  BY <1>1, TailOnce
<1>4. Member(run_queue, p)
  <2>1. Len(run_queue) \in Nat \ {0} /\ p = run_queue[1]
    BY <1>1, EmptySeq
  <2> QED BY <2>1 DEF Member
<1>5. Bounded(q, w)
  BY <1>1, TailBounded
<1>6. w \in [Proc -> Nat] /\ w[p] = 0
  BY <1>1, <1>2 DEF Waiting, Types
<1>7. /\ executing = NoProc /\ executing' = p
      /\ held' = held /\ waited' = w
      /\ run_queue' = IF p \in Reschedule THEN Append(q, p) ELSE q
      /\ refs' = IF p \in Reschedule THEN [refs EXCEPT ![ObjOf[p]] = @ + 1]
                 ELSE refs
  BY DEF step
<1>8. ObjOf[p] \in Object /\ p # NoProc
  BY <1>2, ConstantsAssumption
<1> HIDE DEF p, q, w
<1>9. Types'
  BY SMTT(30), <1>1, <1>2, <1>6, <1>7, <1>8 DEF Types
<1>10. ASSUME NEW o \in Object
       PROVE  /\ Runs(p, o) <=> ObjOf[p] = o
              /\ refs[o] + 1 = Cardinality(On(run_queue, o)) + OneIf(held[o])
              /\ Cardinality(On(run_queue, o)) \in Nat
              /\ OneIf(held[o]) \in Nat
              /\ OneIf(ObjOf[p] = o) \in Nat
              /\ refs[o] \in Int
  <2>1. ~Runs(executing, o) /\ (Runs(p, o) <=> ObjOf[p] = o)
    BY <1>7, <1>8 DEF Runs
  <2>2. /\ OneIf(held[o]) \in Nat /\ OneIf(ObjOf[p] = o) \in Nat
        /\ OneIf(Runs(executing, o)) = 0
    BY <2>1 DEF OneIf
  <2>3. Cardinality(On(run_queue, o)) \in Nat /\ refs[o] \in Int
    BY <1>1, OnFinite DEF Types
  <2>4. refs[o] + 1 = Cardinality(On(run_queue, o)) + OneIf(held[o])
                      + OneIf(Runs(executing, o))
    BY DEF IInv, Balance
  <2> QED BY <2>1, <2>2, <2>3, <2>4
<1>11. CASE p \in Reschedule
  <2> DEFINE d == Append(q, p)
  <2>1. ~Member(q, p)
    BY <1>3
  <2>2. /\ d \in Seq(Proc) /\ Once(d)
        /\ \A x : Member(d, x) <=> Member(q, x) \/ x = p
    BY SMTT(30), <1>2, <1>3, <2>1, AppendProperties, AppendOnce
  <2>3. Bounded(d, w)
    BY SMTT(30), <1>2, <1>3, <1>5, <1>6, <2>1, AppendBounded
  <2> HIDE DEF d
  <2>4. run_queue' = d /\ refs' = [refs EXCEPT ![ObjOf[p]] = @ + 1]
    BY <1>7, <1>11 DEF d
  <2>5. QueueInv'
    BY <1>7, <2>2, <2>3, <2>4, Zenon DEF QueueInv
  <2>6. Balance(d, refs', held, p)
    <3> SUFFICES ASSUME NEW o \in Object
                 PROVE  refs'[o] + 1 = Cardinality(On(d, o)) + OneIf(held[o])
                                       + OneIf(Runs(p, o))
      BY DEF Balance
    <3>1. \A x : Member(d, x) <=> Member(run_queue, x)
      BY <1>3, <1>4, <2>2
    <3>2. On(d, o) = On(run_queue, o)
      BY <3>1 DEF On
    <3>3. refs'[o] = refs[o] + OneIf(ObjOf[p] = o)
      BY <1>1, <1>8, <2>4 DEF Types, OneIf
    <3>4. OneIf(Runs(p, o)) = OneIf(ObjOf[p] = o)
      BY <1>10, Zenon DEF OneIf
    <3> QED BY SMTT(30), <1>10, <3>2, <3>3, <3>4
  <2> QED BY <1>7, <1>9, <2>4, <2>5, <2>6, Zenon DEF IInv
<1>12. CASE p \notin Reschedule
  <2>1. run_queue' = q /\ refs' = refs
    BY <1>7, <1>12
  <2>2. QueueInv'
    BY <1>2, <1>3, <1>5, <1>7, <2>1, Zenon DEF QueueInv
  <2>3. Balance(q, refs, held, p)
    <3> SUFFICES ASSUME NEW o \in Object
                 PROVE  refs[o] + 1 = Cardinality(On(q, o)) + OneIf(held[o])
                                      + OneIf(Runs(p, o))
      BY DEF Balance
    <3>1. Cardinality(On(q, o))
            = Cardinality(On(run_queue, o)) - OneIf(ObjOf[p] = o)
      BY SMTT(30), <1>2, <1>3, <1>4, OnDel
    <3>2. OneIf(Runs(p, o)) = OneIf(ObjOf[p] = o)
      BY <1>10, Zenon DEF OneIf
    <3> QED BY SMTT(30), <1>10, <3>1, <3>2
  <2> QED BY <1>7, <1>9, <2>1, <2>2, <2>3, Zenon DEF IInv
<1> QED BY <1>11, <1>12

LEMMA ReturnInv ==
  ASSUME IInv, step_return
  PROVE  IInv'
<1>1. Types /\ executing \in Proc /\ ObjOf[executing] \in Object
  BY ConstantsAssumption DEF IInv, Types, step_return
<1>2. /\ refs' = [refs EXCEPT ![ObjOf[executing]] = @ - 1]
      /\ executing' = NoProc /\ executing # NoProc
      /\ run_queue' = run_queue /\ held' = held /\ waited' = waited
  BY DEF step_return
<1>3. Types'
  BY <1>1, <1>2 DEF Types
<1>4. QueueInv'
  BY <1>2, Zenon DEF IInv, QueueInv
<1>5. Balance(run_queue, refs', held, NoProc)
  <2> SUFFICES ASSUME NEW o \in Object
               PROVE  refs'[o] + 1 = Cardinality(On(run_queue, o))
                                     + OneIf(held[o]) + OneIf(Runs(NoProc, o))
    BY DEF Balance
  <2>1. refs[o] + 1 = Cardinality(On(run_queue, o)) + OneIf(held[o])
                      + OneIf(Runs(executing, o))
    BY DEF IInv, Balance
  <2>2. refs'[o] = refs[o] - OneIf(Runs(executing, o)) /\ refs[o] \in Int
    BY SMTT(30), <1>1, <1>2 DEF Types, OneIf, Runs
  <2>3. /\ OneIf(held[o]) \in Nat /\ OneIf(Runs(executing, o)) \in Nat
        /\ OneIf(Runs(NoProc, o)) = 0
    BY DEF OneIf, Runs
  <2> QED BY SMTT(30), <2>1, <2>2, <2>3, OnFinite
<1> QED BY <1>2, <1>3, <1>4, <1>5, Zenon DEF IInv

LEMMA ReleaseInv ==
  ASSUME IInv, NEW r \in Object, Release(r)
  PROVE  IInv'
<1>1. Types
  BY DEF IInv
<1>2. /\ refs' = [refs EXCEPT ![r] = @ - 1]
      /\ held[r] /\ held' = [held EXCEPT ![r] = FALSE]
      /\ run_queue' = run_queue /\ executing' = executing /\ waited' = waited
  BY DEF Release
<1>3. Types'
  BY <1>1, <1>2 DEF Types
<1>4. QueueInv'
  BY <1>2, Zenon DEF IInv, QueueInv
<1>5. Balance(run_queue, refs', held', executing)
  <2> SUFFICES ASSUME NEW o \in Object
               PROVE  refs'[o] + 1 = Cardinality(On(run_queue, o))
                                     + OneIf(held'[o]) + OneIf(Runs(executing, o))
    BY DEF Balance
  <2>1. refs[o] + 1 = Cardinality(On(run_queue, o)) + OneIf(held[o])
                      + OneIf(Runs(executing, o))
    BY DEF IInv, Balance
  <2>2. refs'[o] - OneIf(held'[o]) = refs[o] - OneIf(held[o])
    BY <1>1, <1>2 DEF Types, OneIf
  <2>3. refs[o] \in Int /\ refs'[o] \in Int
    BY SMTT(30), <1>1, <1>3 DEF Types
  <2>4. /\ OneIf(held[o]) \in Nat /\ OneIf(held'[o]) \in Nat
        /\ OneIf(Runs(executing, o)) \in Nat
    BY DEF OneIf
  <2> QED BY SMTT(30), <2>1, <2>2, <2>3, <2>4, OnFinite
<1> QED BY <1>2, <1>3, <1>4, <1>5, Zenon DEF IInv
-----------------------------------------------------------------------------
\* Every step of core/process.c and of its callers preserves the inductive
\* invariant.
THEOREM IInvHolds == Spec => []IInv
<1>1. Init => IInv
  BY InitInv
<1>2. IInv /\ [Next]_vars => IInv'
  <2> SUFFICES ASSUME IInv, [Next]_vars PROVE IInv'
    OBVIOUS
  <2>1. ASSUME NEW p \in Proc, process_add(p) PROVE IInv'
    BY <2>1, AddInv
  <2>2. ASSUME NEW p \in Proc, process_del(p) PROVE IInv'
    BY <2>2, DelInv
  <2>3. CASE step
    BY <2>3, StepInv
  <2>4. CASE step_return
    BY <2>4, ReturnInv
  <2>5. ASSUME NEW o \in Object, Release(o) PROVE IInv'
    BY <2>5, ReleaseInv
  <2>6. CASE UNCHANGED vars
    BY <2>6, Zenon DEF vars, IInv, Types, QueueInv
  <2> QED BY <2>1, <2>2, <2>3, <2>4, <2>5, <2>6, Zenon DEF Next
<1> QED BY <1>1, <1>2, PTL DEF Spec

\* The reference counts are exact in every reachable state: process_add,
\* process_del and step() take and drop one reference each, where they should.
THEOREM RefsExact == Spec => []RefBalance
<1>1. IInv => RefBalance
  BY BalanceDef DEF IInv, QueueInv
<1> QED BY <1>1, IInvHolds, PTL

\* Type correctness; a reference count never falls below that of a freed
\* object, so that no object is freed twice.
THEOREM TypeCorrect == Spec => []TypeOK
<1>1. IInv => TypeOK
  <2> SUFFICES ASSUME IInv PROVE TypeOK
    OBVIOUS
  <2>1. ASSUME NEW o \in Object PROVE refs[o] \in {-1} \cup Nat
    <3>1. refs[o] + 1 = Cardinality(On(run_queue, o)) + OneIf(held[o])
                        + OneIf(Runs(executing, o))
      BY DEF IInv, Balance
    <3>2. OneIf(held[o]) \in Nat /\ OneIf(Runs(executing, o)) \in Nat
      BY DEF OneIf
    <3>3. refs[o] \in Int
      BY DEF IInv, Types
    <3>4. refs[o] >= -1
      BY SMTT(30), <3>1, <3>2, <3>3, OnFinite
    <3>5. refs[o] = -1 \/ refs[o] \in Nat
      BY <3>3, <3>4
    <3> QED BY SMTT(30), <3>5
  <2>2. refs \in [Object -> {-1} \cup Nat]
    BY SMTT(30), <2>1 DEF IInv, Types
  <2> QED BY <2>2, Zenon DEF IInv, Types, QueueInv, TypeOK
<1> QED BY <1>1, IInvHolds, PTL

\* No process is linked into the run queue twice.
THEOREM NeverQueuedTwice == Spec => []QueuedOnce
<1>1. IInv => QueuedOnce
  BY SMTT(30), QueueDef DEF IInv, QueueInv
<1> QED BY <1>1, IInvHolds, PTL

\* A process on the queue, or one that executes, belongs to an object that
\* has not been freed.
THEOREM NoUseAfterFree == Spec => []NoProcessOfFreedObject
<1>1. IInv => NoProcessOfFreedObject
  <2> SUFFICES ASSUME IInv, NEW p \in Proc, Queued(p) \/ executing = p
               PROVE  refs[ObjOf[p]] >= 0
    BY DEF NoProcessOfFreedObject
  <2> DEFINE o == ObjOf[p]
             c == Cardinality(On(run_queue, o))
  <2>1. o \in Object /\ p # NoProc
    BY ConstantsAssumption
  <2>2. refs[o] + 1 = c + OneIf(held[o]) + OneIf(Runs(executing, o))
    BY <2>1 DEF IInv, Balance
  <2>3. /\ refs[o] \in Int /\ c \in Nat
        /\ OneIf(held[o]) \in Nat /\ OneIf(Runs(executing, o)) \in Nat
    BY <2>1, OnFinite DEF IInv, Types, OneIf
  <2>4. CASE Queued(p)
    <3>1. Member(run_queue, p)
      BY <2>4, QueueDef DEF IInv, QueueInv
    <3>2. On(run_queue, o) # {}
      BY <3>1 DEF On
    <3>3. c # 0
      BY SMTT(30), <3>2, OnFinite, FS_EmptySet
    <3> HIDE DEF o, c
    <3>4. refs[o] >= 0
      BY SMTT(30), <2>2, <2>3, <3>3
    <3> QED BY <3>4 DEF o
  <2>5. CASE executing = p
    <3>1. OneIf(Runs(executing, o)) = 1
      BY SMTT(30), <2>1, <2>5 DEF OneIf, Runs
    <3> HIDE DEF o, c
    <3>2. refs[o] >= 0
      BY SMTT(30), <2>2, <2>3, <3>1
    <3> QED BY <3>2 DEF o
  <2> QED BY SMTT(30), <2>4, <2>5
<1> QED BY <1>1, IInvHolds, PTL

\* The queue, the counts and the objects' lives, together.
THEOREM Consistency == Spec => []QueueConsistent
BY TypeCorrect, NeverQueuedTwice, RefsExact, NoUseAfterFree, PTL
   DEF QueueConsistent

\* A process on the queue waits for fewer calls than there are other
\* processes, however many processes there are and whatever they do.
THEOREM RoundRobin == Spec => []BoundedWait
<1>1. IInv => BoundedWait
  BY QueueDef DEF IInv, QueueInv
<1> QED BY <1>1, IInvHolds, PTL
=============================================================================
