---------------------------- MODULE RetryProofs ----------------------------
(***************************************************************************)
(* Proofs about the retry timers, for any number of timers and objects,    *)
(* any timeouts and any clock width.                                       *)
(***************************************************************************)
EXTENDS Retry, ListLemmas, FiniteSetTheorems, SequenceTheorems, TLAPS

\* The part of the inductive invariant about backing off: a run started by
\* start_timer has a timeout longer than the streak of expiries before it,
\* and a streak that has begun never left the timer's maximum behind.
BackoffInv ==
  \A t \in Timer :
    /\ streak[t] >= -1
    /\ running[t] /\ streak[t] >= 0 => streak[t] < timeout[t]
    /\ streak[t] > 0 => streak[t] < timeout[t] /\ timeout[t] <= TMax[t]

\* The part about the clock: the elapsed time computed from the wrapping
\* clock never exceeds the time that has really passed.
ClockInv == \A t \in Timer : running[t] => Used(t) <= ran[t]

\* The inductive invariant.
IInv == /\ TypeOK /\ ListIsRunningTimers /\ RefBalance
        /\ BackoffInv /\ ClockInv
-----------------------------------------------------------------------------
(***************************************************************************)
(* Arithmetic and lists                                                    *)
(***************************************************************************)
\* The remainder of a number that is already reduced, of the next one, and of
\* a difference of two reduced numbers.
LEMMA ModFacts ==
  ASSUME NEW M \in Nat \ {0}, NEW a \in 0 .. M - 1, NEW b \in 0 .. M - 1
  PROVE  /\ a % M = a
         /\ (a + 1) % M = IF a + 1 = M THEN 0 ELSE a + 1
         /\ (a - b) % M = IF b <= a THEN a - b ELSE a - b + M
OBVIOUS

\* The list and the set of running timers agree: ListIsRunningTimers with the
\* list and the flags as parameters.
Agree(l, r) ==
  /\ \A t \in Timer : r[t] <=> \E i \in 1 .. Len(l) : l[i] = t
  /\ \A i, j \in 1 .. Len(l) : l[i] = l[j] => i = j

LEMMA AgreeDef ==
  ASSUME timers \in Seq(Timer)
  PROVE  ListIsRunningTimers <=> Agree(timers, running)
<1>1. DOMAIN timers = 1 .. Len(timers)
  BY LenProperties
<1> QED BY <1>1, Zenon DEF Agree, ListIsRunningTimers

\* What stop_timer and timer_expired leave of the list of timers.
LEMMA ListDel ==
  ASSUME TypeOK, ListIsRunningTimers, NEW t \in Timer, running[t]
  PROVE  /\ list_del(timers, t) \in Seq(Timer)
         /\ Agree(list_del(timers, t), [running EXCEPT ![t] = FALSE])
<1> DEFINE n == Len(timers)
           d == list_del(timers, t)
<1>1. /\ n \in Nat
      /\ DOMAIN timers = 1 .. n
      /\ \A k \in 1 .. n : timers[k] \in Timer
  BY LenProperties, ElementOfSeq DEF TypeOK
<1>2. \E k \in 1 .. n : timers[k] = t
  BY <1>1 DEF ListIsRunningTimers
<1>3. timers \in Seq(Timer)
  BY DEF TypeOK
<1>4. PICK i \in 1 .. n :
        /\ timers[i] = t
        /\ d \in Seq(Timer)
        /\ Len(d) = n - 1
        /\ \A k \in 1 .. n - 1 : d[k] = IF k < i THEN timers[k] ELSE timers[k + 1]
  BY <1>2, <1>3, ListDelFacts
<1> HIDE DEF d
<1>5. d \in Seq(Timer) /\ Len(d) = n - 1
  BY <1>4
<1>6. \A k \in 1 .. n - 1 : d[k] = IF k < i THEN timers[k] ELSE timers[k + 1]
  BY <1>4
<1>7. /\ \A u \in Timer : running[u] <=> \E k \in 1 .. n : timers[k] = u
      /\ \A j, k \in 1 .. n : timers[j] = timers[k] => j = k
  BY SMTT(30), <1>1 DEF ListIsRunningTimers
<1> HIDE DEF n
<1>8. ASSUME NEW u \in Timer
      PROVE  running[u] /\ u # t <=> \E k \in 1 .. n - 1 : d[k] = u
  <2>1. ASSUME NEW k \in 1 .. n - 1, d[k] = u PROVE running[u] /\ u # t
    BY SMTT(30), <1>1, <1>4, <1>6, <1>7, <2>1
  <2>2. ASSUME running[u], u # t PROVE \E k \in 1 .. n - 1 : d[k] = u
    <3>1. PICK k \in 1 .. n : timers[k] = u
      BY <1>7, <2>2
    <3>2. CASE k < i
      BY SMTT(30), <1>1, <1>4, <1>6, <3>1, <3>2
    <3>3. CASE k > i
      <4>1. k - 1 \in 1 .. n - 1 /\ d[k - 1] = u
        BY SMTT(30), <1>1, <1>4, <1>6, <3>1, <3>3
      <4> QED BY SMTT(30), <4>1
    <3> QED BY <1>1, <1>4, <2>2, <3>1, <3>2, <3>3
  <2> QED BY <2>1, <2>2
<1>9. \A j, k \in 1 .. n - 1 : d[j] = d[k] => j = k
  BY SMTT(30), <1>1, <1>4, <1>6, <1>7
<1> QED BY Zenon, <1>5, <1>8, <1>9 DEF d, Agree, TypeOK

\* What start_timer_fixed makes of the list of timers.
LEMMA ListAdd ==
  ASSUME TypeOK, ListIsRunningTimers, NEW t \in Timer, ~running[t]
  PROVE  /\ <<t>> \o timers \in Seq(Timer)
         /\ Agree(<<t>> \o timers, [running EXCEPT ![t] = TRUE])
<1> DEFINE n == Len(timers)
           d == <<t>> \o timers
<1>1. /\ n \in Nat
      /\ DOMAIN timers = 1 .. n
      /\ timers \in Seq(Timer)
      /\ \A k \in 1 .. n : timers[k] \in Timer
  BY LenProperties, ElementOfSeq DEF TypeOK
<1>2. <<t>> \in Seq(Timer) /\ Len(<<t>>) = 1 /\ <<t>>[1] = t
  OBVIOUS
<1>3. /\ d \in Seq(Timer)
      /\ Len(d) = n + 1
      /\ d[1] = t
      /\ \A k \in 1 .. n : d[k + 1] = timers[k]
  BY <1>1, <1>2, ConcatProperties
<1> HIDE DEF d, n
<1>4. \A k \in 2 .. n + 1 : k - 1 \in 1 .. n /\ d[k] = timers[k - 1]
  <2> TAKE k \in 2 .. n + 1
  <2>1. k - 1 \in 1 .. n /\ (k - 1) + 1 = k
    BY <1>1
  <2> QED BY <1>3, <2>1, Zenon
<1>5. ASSUME NEW u \in Timer
      PROVE  running[u] \/ u = t <=> \E k \in 1 .. n + 1 : d[k] = u
  <2>1. ASSUME NEW k \in 1 .. n + 1, d[k] = u PROVE running[u] \/ u = t
    <3>1. CASE k = 1
      BY <1>3, <2>1, <3>1
    <3>2. CASE k \in 2 .. n + 1
      BY Zenon, <1>1, <1>4, <2>1, <3>2 DEF ListIsRunningTimers
    <3> QED BY <1>1, <3>1, <3>2
  <2>2. ASSUME running[u] PROVE \E k \in 1 .. n + 1 : d[k] = u
    <3>1. PICK k \in 1 .. n : timers[k] = u
      BY <1>1, <2>2 DEF ListIsRunningTimers
    <3>2. k + 1 \in 1 .. n + 1 /\ d[k + 1] = u
      BY SMTT(30), <1>1, <1>3, <3>1
    <3> QED BY <3>2
  <2>3. ASSUME u = t PROVE \E k \in 1 .. n + 1 : d[k] = u
    BY SMTT(30), <1>1, <1>3, <2>3
  <2> QED BY SMTT(30), <2>1, <2>2, <2>3
<1>6. \A k \in 1 .. n : timers[k] # t
  BY <1>1 DEF ListIsRunningTimers
<1>7. ASSUME NEW j \in 1 .. n + 1, NEW k \in 1 .. n + 1, d[j] = d[k]
      PROVE  j = k
  <2>1. CASE j = 1 /\ k = 1
    BY <2>1
  <2>2. CASE j \in 2 .. n + 1 /\ k \in 2 .. n + 1
    <3>1. timers[j - 1] = timers[k - 1]
      BY SMTT(30), <1>4, <1>7, <2>2
    <3>2. j - 1 = k - 1
      <4>1. j - 1 \in DOMAIN timers /\ k - 1 \in DOMAIN timers
        BY SMTT(30), <1>1, <1>4, <2>2
      <4> QED BY <3>1, <4>1, Zenon DEF ListIsRunningTimers
    <3> QED BY SMTT(30), <1>1, <3>2
  <2>3. CASE j = 1 /\ k \in 2 .. n + 1
    BY SMTT(30), <1>3, <1>4, <1>6, <1>7, <2>3
  <2>4. CASE k = 1 /\ j \in 2 .. n + 1
    BY SMTT(30), <1>3, <1>4, <1>6, <1>7, <2>4
  <2> QED BY SMTT(30), <1>1, <2>1, <2>2, <2>3, <2>4
<1> QED BY ZenonT(30), <1>3, <1>5, <1>7 DEF d, Agree, TypeOK

\* The number of running timers of an object is a natural number.
LEMMA RunningFinite ==
  ASSUME NEW o
  PROVE  IsFiniteSet(RunningOf(o)) /\ Cardinality(RunningOf(o)) \in Nat
<1>1. RunningOf(o) \in SUBSET Timer
  BY DEF RunningOf
<1>2. IsFiniteSet(RunningOf(o))
  BY SMTT(30), <1>1, ConstantsAssumption, FS_Subset
<1> QED BY <1>2, FS_CardinalityType

\* The number of running timers of each object when one timer starts or stops.
LEMMA RunningCount ==
  ASSUME TypeOK, NEW t \in Timer, NEW o \in Object
  PROVE  /\ ~running[t] /\ running' = [running EXCEPT ![t] = TRUE] =>
              Cardinality(RunningOf(o)')
                = Cardinality(RunningOf(o)) + OneIf(ObjOf[t] = o)
         /\ running[t] /\ running' = [running EXCEPT ![t] = FALSE] =>
              Cardinality(RunningOf(o)')
                = Cardinality(RunningOf(o)) - OneIf(ObjOf[t] = o)
<1> DEFINE R == RunningOf(o)
<1>1. IsFiniteSet(R)
  BY RunningFinite
<1>2. Cardinality(R) \in Nat
  BY RunningFinite
<1>3. ASSUME ~running[t], running' = [running EXCEPT ![t] = TRUE]
      PROVE  Cardinality(RunningOf(o)') = Cardinality(R) + OneIf(ObjOf[t] = o)
  <2>1. CASE ObjOf[t] = o
    <3>1. RunningOf(o)' = R \cup {t} /\ t \notin R
      BY SMTT(30), <1>3, <2>1 DEF RunningOf, TypeOK
    <3> QED BY Zenon, <1>1, <2>1, <3>1, FS_AddElement DEF OneIf
  <2>2. CASE ObjOf[t] # o
    <3>1. RunningOf(o)' = R
      BY SMTT(30), <1>3, <2>2 DEF RunningOf, TypeOK
    <3> QED BY <1>2, <2>2, <3>1 DEF OneIf
  <2> QED BY <2>1, <2>2
<1>4. ASSUME running[t], running' = [running EXCEPT ![t] = FALSE]
      PROVE  Cardinality(RunningOf(o)') = Cardinality(R) - OneIf(ObjOf[t] = o)
  <2>1. CASE ObjOf[t] = o
    <3>1. RunningOf(o)' = R \ {t} /\ t \in R
      BY SMTT(30), <1>4, <2>1 DEF RunningOf, TypeOK
    <3> QED BY Zenon, <1>1, <2>1, <3>1, FS_RemoveElement DEF OneIf
  <2>2. CASE ObjOf[t] # o
    <3>1. RunningOf(o)' = R
      BY SMTT(30), <1>4, <2>2 DEF RunningOf, TypeOK
    <3> QED BY <1>2, <2>2, <3>1 DEF OneIf
  <2> QED BY <2>1, <2>2
<1> QED BY <1>3, <1>4
-----------------------------------------------------------------------------
(***************************************************************************)
(* Preservation, conjunct by conjunct                                      *)
(***************************************************************************)
\* A poll either changes nothing but "gap" or expires a timer that is due.
LEMMA PollCases ==
  ASSUME TypeOK, ListIsRunningTimers, retry_poll
  PROVE  /\ cb = NoTimer
         /\ gap' = 0
         /\ \/ \E t \in Timer : Due(t) /\ timer_expired(t)
            \/ UNCHANGED <<now, timers, running, timeout, start, count, refs,
                           held, cb, streak, ran>>
<1>1. \A i \in DOMAIN timers : timers[i] \in Timer
  BY LenProperties, ElementOfSeq DEF TypeOK
<1> QED BY <1>1, Zenon DEF retry_poll

\* Smoothing yields a natural number, and keeps seven ticks or more.
LEMMA SmoothFacts ==
  ASSUME NEW ticks \in Nat, NEW r \in Nat
  PROVE  /\ Smooth(ticks, r) \in Nat
         /\ ticks >= 7 => Smooth(ticks, r) >= 7
BY DEF Smooth

\* The type invariant without the list.
Types ==
  /\ now \in 0 .. ClockMod - 1
  /\ running \in [Timer -> BOOLEAN]
  /\ timeout \in [Timer -> Nat]
  /\ start \in [Timer -> 0 .. ClockMod - 1]
  /\ count \in [Timer -> Nat]
  /\ refs \in [Object -> Int]
  /\ held \in [Object -> BOOLEAN]
  /\ cb \in Timer \cup {NoTimer}
  /\ gap \in Nat
  /\ streak \in [Timer -> Int]
  /\ ran \in [Timer -> Nat]

LEMMA TypeSplit == TypeOK <=> timers \in Seq(Timer) /\ Types
BY Zenon DEF TypeOK, Types

\* The elapsed time is a number below the width of the clock.
LEMMA UsedType ==
  ASSUME Types, NEW t \in Timer
  PROVE  Used(t) \in 0 .. ClockMod - 1
<1>1. ClockMod \in Nat \ {0} /\ now \in Int /\ start[t] \in Int
  BY ConstantsAssumption DEF Types
<1> QED BY <1>1 DEF Used

LEMMA TypeStep ==
  ASSUME TypeOK, ListIsRunningTimers, [Next]_vars
  PROVE  TypeOK'
<1>t. timers \in Seq(Timer)
  BY TypeSplit
<1>0. Types
  BY TypeSplit
<1>a. ASSUME timers' \in Seq(Timer), Types' PROVE TypeOK'
  BY <1>a, Zenon DEF TypeOK, Types
<1>c. ObjOf \in [Timer -> Object]
  BY ConstantsAssumption
<1>b. ClockMod \in Nat \ {0} /\ FixedTimeouts \subseteq Nat /\ MIN_TIMEOUT \in Nat
      /\ TMin \in [Timer -> Nat] /\ TMax \in [Timer -> Nat]
  BY ConstantsAssumption
<1>1. ASSUME NEW t \in Timer, NEW ticks \in Nat, RunTimer(t, ticks),
             streak' \in [Timer -> Int]
      PROVE  TypeOK'
  <2>1. timers' \in Seq(Timer)
    <3>1. CASE running[t]
      BY <1>t, <1>1, <3>1, Zenon DEF RunTimer
    <3>2. CASE ~running[t]
      BY <1>1, <3>2, ListAdd, Zenon DEF RunTimer
    <3> QED BY <3>1, <3>2
  <2>2. Types'
    <3>1. refs' \in [Object -> Int] /\ running' \in [Timer -> BOOLEAN]
      <4>1. CASE running[t]
        BY SMTT(30), <1>0, <1>1, <4>1 DEF RunTimer, Types
      <4>2. CASE ~running[t]
        <5>1. /\ refs' = [refs EXCEPT ![ObjOf[t]] = @ + 1]
              /\ running' = [running EXCEPT ![t] = TRUE]
          BY <1>1, <4>2, Zenon DEF RunTimer, ref_get
        <5> QED BY <1>0, <1>c, <5>1 DEF Types
      <4> QED BY SMTT(30), <4>1, <4>2
    <3>2. /\ start' = [start EXCEPT ![t] = now]
          /\ timeout' = [timeout EXCEPT ![t] = ticks]
          /\ ran' = [ran EXCEPT ![t] = 0]
          /\ UNCHANGED <<now, count, held, cb, gap>>
      BY <1>1, Zenon DEF RunTimer
    <3> QED BY SMTT(30), <1>0, <1>1, <3>1, <3>2 DEF Types
  <2> QED BY <1>a, <2>1, <2>2
<1>2. ASSUME NEW t \in Timer, start_timer(t) PROVE TypeOK'
  <2>1. Max2(timeout[t], Max2(TMin[t], MIN_TIMEOUT)) \in Nat
    BY SMTT(30), <1>0, <1>b DEF Max2, Types
  <2>2. streak' \in [Timer -> Int]
    BY <1>0, <1>2 DEF start_timer, Types
  <2> QED BY <1>1, <1>2, <2>1, <2>2, Zenon DEF start_timer
<1>3. ASSUME NEW t \in Timer, NEW ticks \in FixedTimeouts,
             start_timer_fixed(t, ticks)
      PROVE  TypeOK'
  <2>1. streak' \in [Timer -> Int]
    BY SMTT(30), <1>0, <1>3 DEF start_timer_fixed, Types
  <2>2. ticks \in Nat
    BY SMTT(30), <1>b
  <2> QED BY <1>1, <1>3, <2>1, <2>2, Zenon DEF start_timer_fixed
<1>4. ASSUME NEW t \in Timer, stop_timer(t) PROVE TypeOK'
  <2>1. timers' \in Seq(Timer)
    BY <1>4, ListDel, Zenon DEF stop_timer
  <2>2. Smooth(timeout[t], Used(t)) \in Nat
    <3>1. Used(t) \in Nat
      BY <1>0, <1>b, UsedType
    <3>2. timeout[t] \in Nat
      BY <1>0 DEF Types
    <3> QED BY Zenon, <3>1, <3>2, SmoothFacts
  <2>3. timeout' \in [Timer -> Nat] /\ count' \in [Timer -> Nat]
    BY SMTT(30), <1>0, <1>4, <2>2 DEF stop_timer, Types
  <2>4. /\ running' = [running EXCEPT ![t] = FALSE]
        /\ refs' = [refs EXCEPT ![ObjOf[t]] = @ - 1]
        /\ streak' = [streak EXCEPT ![t] = 0]
        /\ UNCHANGED <<now, start, held, cb, gap, ran>>
    BY <1>4 DEF stop_timer, ref_put
  <2>5. Types'
    BY SMTT(30), <1>0, <1>c, <2>3, <2>4 DEF Types
  <2> QED BY SMTT(30), <1>a, <2>1, <2>5
<1>5. ASSUME retry_poll PROVE TypeOK'
  <2>1. ASSUME NEW t \in Timer, Due(t), timer_expired(t), gap' = 0 PROVE TypeOK'
    <3>1. timers' \in Seq(Timer)
      BY <2>1, ListDel, Zenon DEF timer_expired, Due
    <3>2. Types'
      BY <1>0, <1>b, <2>1 DEF timer_expired, Types
    <3> QED BY <1>a, <3>1, <3>2
  <2>2. ASSUME gap' = 0,
               UNCHANGED <<now, timers, running, timeout, start, count, refs,
                           held, cb, streak, ran>>
        PROVE  TypeOK'
    <3>1. timers' \in Seq(Timer)
      BY <1>t, <2>2, Zenon
    <3>2. Types'
      BY SMTT(30), <1>0, <2>2 DEF Types
    <3> QED BY <1>a, <3>1, <3>2
  <2> QED BY SMTT(30), <1>5, <2>1, <2>2, PollCases
<1>6. ASSUME timer_expired_return PROVE TypeOK'
  <2>1. timers' \in Seq(Timer)
    BY <1>t, <1>6, Zenon DEF timer_expired_return
  <2>2. Types'
    BY SMTT(30), <1>0, <1>6, <1>c DEF timer_expired_return, ref_put, Types
  <2> QED BY <1>a, <2>1, <2>2
<1>7. ASSUME NEW o \in Object, Release(o) PROVE TypeOK'
  <2>1. timers' \in Seq(Timer)
    BY <1>t, <1>7, Zenon DEF Release
  <2>2. Types'
    BY SMTT(30), <1>0, <1>7 DEF Release, ref_put, Types
  <2> QED BY <1>a, <2>1, <2>2
<1>8. ASSUME Tick PROVE TypeOK'
  <2>1. now' \in 0 .. ClockMod - 1
    BY <1>0, <1>b, <1>8 DEF Tick, Types
  <2>2. timers' \in Seq(Timer)
    BY <1>t, <1>8, Zenon DEF Tick
  <2>3. Types'
    BY SMTT(30), <1>0, <1>8, <2>1 DEF Tick, Types
  <2> QED BY <1>a, <2>2, <2>3
<1>9. ASSUME UNCHANGED vars PROVE TypeOK'
  BY <1>9, Zenon DEF vars, TypeOK
<1> QED BY SMTT(30), <1>2, <1>3, <1>4, <1>5, <1>6, <1>7, <1>8, <1>9 DEF Next

LEMMA ListStep ==
  ASSUME TypeOK, ListIsRunningTimers, [Next]_vars
  PROVE  ListIsRunningTimers'
<1>1. TypeOK'
  BY TypeStep
<1>2. timers' \in Seq(Timer)
  BY <1>1 DEF TypeOK
<1>3. ListIsRunningTimers' <=> Agree(timers', running')
  <2>1. DOMAIN timers' = 1 .. Len(timers')
    BY <1>2, LenProperties
  <2> QED BY <2>1, Zenon DEF Agree, ListIsRunningTimers
<1>4. ListIsRunningTimers <=> Agree(timers, running)
  BY AgreeDef DEF TypeOK
<1>5. SUFFICES Agree(timers', running')
  BY <1>3
<1>6. ASSUME NEW t \in Timer, NEW ticks, RunTimer(t, ticks)
      PROVE  Agree(timers', running')
  BY <1>4, <1>6, ListAdd, Zenon DEF RunTimer
<1>7. ASSUME NEW t \in Timer, stop_timer(t) PROVE Agree(timers', running')
  BY <1>7, ListDel, Zenon DEF stop_timer
<1>8. ASSUME UNCHANGED <<timers, running>> PROVE Agree(timers', running')
  BY <1>4, <1>8, Zenon
<1>9. ASSUME retry_poll PROVE Agree(timers', running')
  <2>1. ASSUME NEW t \in Timer, Due(t), timer_expired(t)
        PROVE  Agree(timers', running')
    BY <2>1, ListDel, Zenon DEF timer_expired, Due
  <2>2. CASE \E t \in Timer : Due(t) /\ timer_expired(t)
    BY <2>1, <2>2
  <2>3. CASE UNCHANGED <<timers, running>>
    BY SMTT(30), <1>8, <2>3
  <2> QED BY SMTT(30), <1>9, <2>2, <2>3, PollCases
<1> QED BY SMTT(30), <1>6, <1>7, <1>8, <1>9
      DEF Next, vars, start_timer, start_timer_fixed, timer_expired_return,
          Release, Tick

LEMMA RefStep ==
  ASSUME TypeOK, ListIsRunningTimers, RefBalance, [Next]_vars
  PROVE  RefBalance'
<1> USE DEF OneIf
<1>0. Types
  BY TypeSplit
<1>c. ObjOf \in [Timer -> Object] /\ NoTimer \notin Timer
  BY SMTT(30), ConstantsAssumption
<1> SUFFICES ASSUME NEW o \in Object
             PROVE  refs'[o] + 1 = Cardinality(RunningOf(o)') + OneIf(held'[o])
                                   + OneIf(cb' # NoTimer /\ ObjOf[cb'] = o)
  BY SMTT(30) DEF RefBalance
<1> DEFINE goal == refs'[o] + 1 = Cardinality(RunningOf(o)') + OneIf(held'[o])
                                  + OneIf(cb' # NoTimer /\ ObjOf[cb'] = o)
           n == Cardinality(RunningOf(o))
           n2 == Cardinality(RunningOf(o)')
<1>d. /\ refs[o] + 1 = n + OneIf(held[o]) + OneIf(cb # NoTimer /\ ObjOf[cb] = o)
      /\ refs[o] \in Int
  BY <1>0 DEF RefBalance, Types
<1>n. n \in Nat
  BY RunningFinite
<1>u. ASSUME running' = running PROVE n2 = n
  BY <1>u DEF RunningOf
<1>add. ASSUME NEW t \in Timer, ~running[t], running' = [running EXCEPT ![t] = TRUE]
        PROVE  n2 = n + OneIf(ObjOf[t] = o)
  BY <1>add, RunningCount, Zenon
<1>del. ASSUME NEW t \in Timer, running[t], running' = [running EXCEPT ![t] = FALSE]
        PROVE  n2 = n - OneIf(ObjOf[t] = o)
  BY <1>del, RunningCount, Zenon
<1> HIDE DEF n, n2
<1>1. ASSUME NEW t \in Timer, NEW ticks, RunTimer(t, ticks) PROVE goal
  <2>1. CASE running[t]
    <3>1. UNCHANGED <<refs, running, held, cb>>
      BY <1>1, <2>1, ZenonT(30) DEF RunTimer
    <3> QED BY SMTT(30), <1>d, <1>n, <1>u, <3>1 DEF n2
  <2>2. CASE ~running[t]
    <3>1. /\ refs' = [refs EXCEPT ![ObjOf[t]] = @ + 1]
          /\ running' = [running EXCEPT ![t] = TRUE]
          /\ UNCHANGED <<held, cb>>
      BY <1>1, <2>2, Zenon DEF RunTimer, ref_get
    <3>2. refs'[o] = refs[o] + OneIf(ObjOf[t] = o)
      BY SMTT(30), <1>0, <1>c, <3>1 DEF Types
    <3>3. n2 = n + OneIf(ObjOf[t] = o)
      BY Zenon, <1>add, <2>2, <3>1
    <3> QED BY SMTT(30), <1>d, <1>n, <3>1, <3>2, <3>3 DEF n2
  <2> QED BY SMTT(30), <2>1, <2>2
<1>2. ASSUME NEW t \in Timer, stop_timer(t) PROVE goal
  <2>1. /\ refs' = [refs EXCEPT ![ObjOf[t]] = @ - 1]
        /\ running[t]
        /\ running' = [running EXCEPT ![t] = FALSE]
        /\ UNCHANGED <<held, cb>>
    BY <1>2, Zenon DEF stop_timer, ref_put
  <2>2. refs'[o] = refs[o] - OneIf(ObjOf[t] = o)
    BY SMTT(30), <1>0, <1>c, <2>1 DEF Types
  <2>3. n2 = n - OneIf(ObjOf[t] = o)
    BY Zenon, <1>del, <2>1
  <2> QED BY SMTT(30), <1>d, <1>n, <2>1, <2>2, <2>3 DEF n2
<1>3. ASSUME retry_poll PROVE goal
  <2>1. ASSUME NEW t \in Timer, Due(t), timer_expired(t), cb = NoTimer PROVE goal
    <3>1. /\ running[t]
          /\ running' = [running EXCEPT ![t] = FALSE]
          /\ cb' = t
          /\ UNCHANGED <<refs, held>>
      BY <2>1, Zenon DEF timer_expired, Due
    <3>2. n2 = n - OneIf(ObjOf[t] = o)
      BY Zenon, <1>del, <3>1
    <3> QED BY SMTT(30), <1>c, <1>d, <1>n, <2>1, <3>1, <3>2 DEF n2
  <2>2. ASSUME UNCHANGED <<refs, running, held, cb>> PROVE goal
    BY SMTT(30), <1>d, <1>u, <2>2 DEF n2
  <2> QED BY SMTT(30), <1>3, <2>1, <2>2, PollCases
<1>4. ASSUME timer_expired_return PROVE goal
  <2>1. /\ cb # NoTimer /\ cb \in Timer /\ cb' = NoTimer
        /\ refs' = [refs EXCEPT ![ObjOf[cb]] = @ - 1]
        /\ UNCHANGED <<running, held>>
    BY SMTT(30), <1>0, <1>4 DEF timer_expired_return, ref_put, Types
  <2>2. refs'[o] = refs[o] - OneIf(ObjOf[cb] = o)
    BY SMTT(30), <1>0, <1>c, <2>1 DEF Types
  <2> QED BY SMTT(30), <1>d, <1>n, <1>u, <2>1, <2>2 DEF n2
<1>5. ASSUME NEW p \in Object, Release(p) PROVE goal
  <2>1. /\ held[p] /\ held' = [held EXCEPT ![p] = FALSE]
        /\ refs' = [refs EXCEPT ![p] = @ - 1]
        /\ UNCHANGED <<running, cb>>
    BY <1>5 DEF Release, ref_put
  <2>2. /\ refs'[o] = refs[o] - OneIf(p = o)
        /\ OneIf(held'[o]) = OneIf(held[o]) - OneIf(p = o)
    BY SMTT(30), <1>0, <2>1 DEF Types
  <2> QED BY SMTT(30), <1>d, <1>n, <1>u, <2>1, <2>2 DEF n2
<1>6. ASSUME Tick PROVE goal
  BY SMTT(30), <1>6, <1>d, <1>u DEF Tick, n2
<1>7. ASSUME UNCHANGED vars PROVE goal
  BY SMTT(30), <1>7, <1>d, <1>u DEF vars, n2
<1> QED BY SMTT(30), <1>1, <1>2, <1>3, <1>4, <1>5, <1>6, <1>7
      DEF Next, start_timer, start_timer_fixed

LEMMA BackoffStep ==
  ASSUME TypeOK, ListIsRunningTimers, BackoffInv, [Next]_vars
  PROVE  BackoffInv'
<1>0. Types
  BY TypeSplit
<1>c. /\ TMin \in [Timer -> Nat] /\ TMax \in [Timer -> Nat]
      /\ MIN_TIMEOUT \in Nat \ {0}
      /\ \A t \in Timer : MIN_TIMEOUT <= TMax[t] /\ TMin[t] <= TMax[t]
  BY SMTT(30), ConstantsAssumption
<1>1. ASSUME NEW t \in Timer, start_timer(t) PROVE BackoffInv'
  <2> DEFINE ticks == Max2(timeout[t], Max2(TMin[t], MIN_TIMEOUT))
  <2>1. /\ timeout' = [timeout EXCEPT ![t] = ticks]
        /\ streak' = streak
        /\ \A u \in Timer : u # t => running'[u] = running[u]
    BY SMTT(30), <1>0, <1>1 DEF start_timer, RunTimer, Types
  <2>2. /\ ticks \in Nat /\ timeout[t] <= ticks /\ ticks > 0
        /\ timeout[t] <= TMax[t] => ticks <= TMax[t]
    BY SMTT(30), <1>0, <1>c DEF Max2, Types
  <2> HIDE DEF ticks
  <2> QED BY SMTT(30), <1>0, <2>1, <2>2 DEF BackoffInv, Types
<1>2. ASSUME NEW t \in Timer, NEW ticks, start_timer_fixed(t, ticks)
      PROVE  BackoffInv'
  <2>1. /\ timeout' = [timeout EXCEPT ![t] = ticks]
        /\ streak' = [streak EXCEPT ![t] = -1]
        /\ \A u \in Timer : u # t => running'[u] = running[u]
    BY SMTT(30), <1>0, <1>2 DEF start_timer_fixed, RunTimer, Types
  <2> QED BY SMTT(30), <1>0, <2>1 DEF BackoffInv, Types
<1>3. ASSUME NEW t \in Timer, stop_timer(t) PROVE BackoffInv'
  <2>1. /\ \A u \in Timer : u # t => timeout'[u] = timeout[u]
        /\ streak' = [streak EXCEPT ![t] = 0]
        /\ running' = [running EXCEPT ![t] = FALSE]
    BY SMTT(30), <1>0, <1>3 DEF stop_timer, Types
  <2> QED BY SMTT(30), <1>0, <2>1 DEF BackoffInv, Types
<1>4. ASSUME retry_poll PROVE BackoffInv'
  <2>1. ASSUME NEW t \in Timer, Due(t), timer_expired(t) PROVE BackoffInv'
    <3>1. /\ running[t]
          /\ running' = [running EXCEPT ![t] = FALSE]
          /\ timeout' = [timeout EXCEPT ![t] = IF 2 * timeout[t] > TMax[t]
                                               THEN TMax[t] ELSE 2 * timeout[t]]
          /\ streak' = [streak EXCEPT ![t] = IF 2 * timeout[t] > TMax[t]
                                             THEN 0 ELSE streak[t] + 1]
      BY SMTT(30), <2>1 DEF timer_expired, Due
    <3> QED BY SMTT(30), <1>0, <1>c, <3>1 DEF BackoffInv, Types
  <2>2. ASSUME UNCHANGED <<running, timeout, streak>> PROVE BackoffInv'
    BY SMTT(30), <2>2 DEF BackoffInv
  <2> QED BY SMTT(30), <1>4, <2>1, <2>2, PollCases
<1>5. ASSUME UNCHANGED <<running, timeout, streak>> PROVE BackoffInv'
  BY SMTT(30), <1>5 DEF BackoffInv
<1> QED BY SMTT(30), <1>1, <1>2, <1>3, <1>4, <1>5
      DEF Next, vars, timer_expired_return, Release, Tick

LEMMA ClockStep ==
  ASSUME TypeOK, ListIsRunningTimers, ClockInv, [Next]_vars
  PROVE  ClockInv'
<1>0. Types
  BY TypeSplit
<1>c. ClockMod \in Nat \ {0}
  BY ConstantsAssumption
<1>1. ASSUME NEW t \in Timer, NEW ticks, RunTimer(t, ticks) PROVE ClockInv'
  <2>1. /\ now' = now
        /\ start' = [start EXCEPT ![t] = now]
        /\ ran' = [ran EXCEPT ![t] = 0]
        /\ \A u \in Timer : u # t => running'[u] = running[u]
    BY SMTT(30), <1>0, <1>1 DEF RunTimer, Types
  <2>2. (now - now) % ClockMod = 0
    BY SMTT(30), <1>0, <1>c, ModFacts DEF Types
  <2>3. \A u \in Timer : u # t => start'[u] = start[u] /\ ran'[u] = ran[u]
    BY SMTT(30), <1>0, <2>1 DEF Types
  <2>4. start'[t] = now /\ ran'[t] = 0
    BY SMTT(30), <1>0, <2>1 DEF Types
  <2> SUFFICES ASSUME NEW u \in Timer, running'[u]
               PROVE  (now - start'[u]) % ClockMod <= ran'[u]
    BY SMTT(30), <2>1 DEF ClockInv, Used
  <2>5. CASE u = t
    BY SMTT(30), <2>2, <2>4, <2>5
  <2>6. CASE u # t
    BY SMTT(30), <2>1, <2>3, <2>6 DEF ClockInv, Used
  <2> QED BY SMTT(30), <2>5, <2>6
<1>2. ASSUME Tick PROVE ClockInv'
  <2> SUFFICES ASSUME NEW u \in Timer, running[u]
               PROVE  (now' - start[u]) % ClockMod <= ran'[u]
    BY SMTT(30), <1>2 DEF ClockInv, Used, Tick
  <2>1. /\ now \in 0 .. ClockMod - 1 /\ start[u] \in 0 .. ClockMod - 1
        /\ ran[u] \in Nat
    BY <1>0 DEF Types
  <2>2. now' \in 0 .. ClockMod - 1
        /\ now' = IF now + 1 = ClockMod THEN 0 ELSE now + 1
    <3>1. (now + 1) % ClockMod = IF now + 1 = ClockMod THEN 0 ELSE now + 1
      BY Zenon, <1>c, <2>1, ModFacts
    <3>2. now' = (now + 1) % ClockMod
      BY SMTT(30), <1>2 DEF Tick
    <3> QED BY SMTT(30), <1>c, <2>1, <3>1, <3>2
  <2>3. Used(u) = IF start[u] <= now THEN now - start[u]
                  ELSE now - start[u] + ClockMod
    <3> DEFINE a == now
               b == start[u]
    <3>1. a \in 0 .. ClockMod - 1 /\ b \in 0 .. ClockMod - 1
      BY SMTT(30), <2>1
    <3>2. Used(u) = (a - b) % ClockMod
      BY DEF Used
    <3> HIDE DEF a, b
    <3>3. (a - b) % ClockMod = IF b <= a THEN a - b ELSE a - b + ClockMod
      BY ZenonT(30), <1>c, <3>1, ModFacts
    <3> QED BY SMTT(30), <3>2, <3>3 DEF a, b
  <2>4. (now' - start[u]) % ClockMod = IF start[u] <= now' THEN now' - start[u]
                                       ELSE now' - start[u] + ClockMod
    <3> DEFINE a == now'
               b == start[u]
    <3>1. a \in 0 .. ClockMod - 1 /\ b \in 0 .. ClockMod - 1
      BY <2>1, <2>2
    <3> HIDE DEF a, b
    <3>2. (a - b) % ClockMod = IF b <= a THEN a - b ELSE a - b + ClockMod
      BY ZenonT(30), <1>c, <3>1, ModFacts
    <3> QED BY <3>2 DEF a, b
  <2>5. ran'[u] = IF ran[u] < ClockMod THEN ran[u] + 1 ELSE ran[u]
    BY <1>2 DEF Tick
  <2>6. Used(u) <= ran[u]
    BY DEF ClockInv
  <2> QED BY SMTT(30), <1>c, <2>1, <2>2, <2>3, <2>4, <2>5, <2>6
<1>3. ASSUME UNCHANGED <<now, start, ran>>,
             \A u \in Timer : running'[u] => running[u]
      PROVE  ClockInv'
  BY SMTT(30), <1>3 DEF ClockInv, Used
<1>4. ASSUME NEW t \in Timer, stop_timer(t) PROVE ClockInv'
  BY SMTT(30), <1>0, <1>3, <1>4 DEF stop_timer, Types
<1>5. ASSUME retry_poll PROVE ClockInv'
  <2>1. ASSUME NEW t \in Timer, timer_expired(t) PROVE ClockInv'
    BY <1>0, <1>3, <2>1 DEF timer_expired, Types
  <2> QED BY SMTT(30), <1>3, <1>5, <2>1, PollCases
<1> QED BY SMTT(30), <1>1, <1>2, <1>3, <1>4, <1>5
      DEF Next, vars, start_timer, start_timer_fixed, timer_expired_return, Release
-----------------------------------------------------------------------------
(***************************************************************************)
(* The theorems                                                            *)
(***************************************************************************)
LEMMA InitIInv == Init => IInv
<1> SUFFICES ASSUME Init PROVE IInv
  OBVIOUS
<1>1. TypeOK
  <2>1. timers \in Seq(Timer)
    BY DEF Init
  <2>2. Types
    BY ConstantsAssumption DEF Init, Types
  <2> QED BY SMTT(30), <2>1, <2>2, TypeSplit
<1>2. ListIsRunningTimers
  BY DEF Init, ListIsRunningTimers
<1>3. RefBalance
  <2>1. \A o : RunningOf(o) = {}
    BY DEF Init, RunningOf
  <2>2. \A o : Cardinality(RunningOf(o)) = 0
    BY SMTT(30), <2>1, FS_EmptySet
  <2> QED BY <2>2 DEF Init, RefBalance, OneIf
<1>4. BackoffInv
  BY DEF Init, BackoffInv
<1>5. ClockInv
  BY DEF Init, ClockInv
<1> QED BY SMTT(30), <1>1, <1>2, <1>3, <1>4, <1>5 DEF IInv

LEMMA IInvStep == IInv /\ [Next]_vars => IInv'
BY SMTT(30), TypeStep, ListStep, RefStep, BackoffStep, ClockStep DEF IInv

\* The inductive invariant holds of every execution.
THEOREM IInvHolds == Spec => []IInv
BY InitIInv, IInvStep, PTL DEF Spec

\* Type correctness of the timers, the list and the reference counts.
THEOREM TypeCorrect == Spec => []TypeOK
<1>1. IInv => TypeOK
  BY SMTT(30) DEF IInv
<1> QED BY <1>1, IInvHolds, PTL

\* The list that retry_poll walks holds exactly the running timers, each once,
\* whatever start_timer, stop_timer and the expiry callbacks do.
THEOREM ListCorrect == Spec => []ListIsRunningTimers
<1>1. IInv => ListIsRunningTimers
  BY DEF IInv
<1> QED BY <1>1, IInvHolds, PTL

\* The reference count of every object is exact.
THEOREM RefsExact == Spec => []RefBalance
<1>1. IInv => RefBalance
  BY SMTT(30) DEF IInv
<1> QED BY <1>1, IInvHolds, PTL

\* No timer of a freed object runs or has its callback in progress.
THEOREM NoUseAfterFree == Spec => []NoTimerOfFreedObject
<1>1. ASSUME IInv, NEW t \in Timer, running[t] \/ cb = t
      PROVE  refs[ObjOf[t]] >= 0
  <2> DEFINE o == ObjOf[t]
             n == Cardinality(RunningOf(o))
  <2>1. o \in Object /\ NoTimer \notin Timer
    BY ConstantsAssumption
  <2>2. n \in Nat /\ IsFiniteSet(RunningOf(o))
    BY SMTT(30), RunningFinite
  <2>3. running[t] => n > 0
    <3>1. running[t] => t \in RunningOf(o)
      BY SMTT(30) DEF RunningOf
    <3> QED BY SMTT(30), <2>2, <3>1, FS_EmptySet
  <2>4. refs[o] \in Int
    BY SMTT(30), <1>1, <2>1 DEF IInv, TypeOK
  <2>5. refs[o] + 1 = n + OneIf(held[o]) + OneIf(cb # NoTimer /\ ObjOf[cb] = o)
    BY SMTT(30), <1>1, <2>1 DEF IInv, RefBalance
  <2> HIDE DEF n
  <2> QED BY SMTT(30), <1>1, <2>1, <2>2, <2>3, <2>4, <2>5 DEF OneIf
<1>2. IInv => NoTimerOfFreedObject
  BY SMTT(30), <1>1 DEF NoTimerOfFreedObject
<1> QED BY <1>2, IInvHolds, PTL

\* Exponential backoff ends in a permanent failure, for all timeout limits.
THEOREM BackoffEnds == Spec => []BackoffEndsInFailure
<1>1. IInv => BackoffEndsInFailure
  BY DEF IInv, BackoffInv, BackoffEndsInFailure
<1> QED BY <1>1, IInvHolds, PTL

\* The list, the counts, the objects' lives and the back-off, together.
THEOREM Consistency == Spec => []TimersConsistent
BY TypeCorrect, ListCorrect, RefsExact, NoUseAfterFree, BackoffEnds, PTL
   DEF TimersConsistent

\* A timer never expires early: the wrapping clock of currticks() may make an
\* expiry late, by a whole number of wraps, but never early.
THEOREM NoEarlyExpiry == Spec => NeverEarly
<1> DEFINE A == \A t \in Timer : cb' = t /\ cb # t => ran[t] >= timeout[t]
<1>1. ASSUME IInv, [Next]_vars PROVE [A]_vars
  <2> SUFFICES ASSUME NEW t \in Timer, cb' = t, cb # t
               PROVE  ran[t] >= timeout[t]
    OBVIOUS
  <2>0. NoTimer \notin Timer /\ TypeOK /\ ListIsRunningTimers /\ ClockInv
    BY SMTT(30), <1>1, ConstantsAssumption DEF IInv
  <2>1. retry_poll
    BY Zenon, <1>1, <2>0 DEF Next, vars, start_timer, start_timer_fixed, RunTimer,
         stop_timer, timer_expired_return, Release, Tick
  <2>2. PICK u \in Timer : Due(u) /\ timer_expired(u)
    BY SMTT(30), <2>0, <2>1, PollCases
  <2>3. u = t
    BY SMTT(30), <2>2 DEF timer_expired
  <2>4. Used(t) >= timeout[t] /\ Used(t) <= ran[t]
    BY SMTT(30), <2>0, <2>2, <2>3 DEF Due, ClockInv
  <2>5. Used(t) \in Int /\ timeout[t] \in Int /\ ran[t] \in Int
    <3>1. Types
      BY SMTT(30), <2>0, TypeSplit
    <3>2. ClockMod \in Nat \ {0}
      BY ConstantsAssumption
    <3> QED BY SMTT(30), <3>1, <3>2, UsedType DEF Types
  <2> QED BY SMTT(30), <2>4, <2>5
<1> QED BY <1>1, IInvHolds, PTL DEF Spec, NeverEarly

\* Smoothing does not bring a timeout below seven ticks: the comment that
\* justifies MIN_TIMEOUT.
THEOREM SmoothingBound == Spec => SmoothingKeepsSevenTicks
<1> DEFINE A == \A t \in Timer :
                  running[t] /\ ~running'[t] /\ cb' = cb /\ timeout[t] >= 7 =>
                    timeout'[t] >= 7
<1>1. ASSUME IInv, [Next]_vars PROVE [A]_vars
  <2> SUFFICES ASSUME NEW t \in Timer, running[t], ~running'[t], cb' = cb,
                      timeout[t] >= 7
               PROVE  timeout'[t] >= 7
    BY SMTT(30)
  <2>0. NoTimer \notin Timer /\ TypeOK /\ ListIsRunningTimers
    BY SMTT(30), <1>1, ConstantsAssumption DEF IInv
  <2>a. Types
    BY SMTT(30), <2>0, TypeSplit
  <2>1. ASSUME NEW u \in Timer, NEW ticks, RunTimer(u, ticks) PROVE FALSE
    <3>1. running' = running \/ running' = [running EXCEPT ![u] = TRUE]
      BY <2>1, ZenonT(30) DEF RunTimer
    <3> QED BY <2>a, <3>1 DEF Types
  <2>2. ASSUME retry_poll PROVE FALSE
    <3>1. CASE \E u \in Timer : timer_expired(u)
      BY SMTT(30), <2>0, <2>2, <3>1, PollCases DEF timer_expired
    <3>2. CASE running' = running
      BY SMTT(30), <3>2
    <3> QED BY SMTT(30), <2>0, <2>2, <3>1, <3>2, PollCases
  <2>3. ASSUME NEW u \in Timer, stop_timer(u) PROVE timeout'[t] >= 7
    <3>1. running' = [running EXCEPT ![u] = FALSE]
      BY Zenon, <2>3 DEF stop_timer
    <3>2. u = t
      BY SMTT(30), <2>a, <3>1 DEF Types
    <3>3. timeout'[t] = timeout[t] \/ timeout'[t] = Smooth(timeout[t], Used(t))
      BY SMTT(30), <2>3, <2>a, <3>2 DEF stop_timer, Types
    <3>4. Used(t) \in Nat /\ timeout[t] \in Nat
      BY SMTT(30), <2>a, ConstantsAssumption, UsedType DEF Types
    <3> QED BY ZenonT(30), <3>3, <3>4, SmoothFacts
  <2>4. ASSUME running' = running PROVE FALSE
    BY <2>4
  <2> QED BY SMTT(30), <1>1, <2>1, <2>2, <2>3, <2>4
        DEF Next, vars, start_timer, start_timer_fixed, timer_expired_return,
            Release, Tick
<1> QED BY <1>1, IInvHolds, PTL DEF Spec, SmoothingKeepsSevenTicks
=============================================================================
