------------------------------- MODULE Retry -------------------------------
(***************************************************************************)
(* Retry timers: net/retry.c and include/ipxe/retry.h.                     *)
(*                                                                         *)
(* A timer belongs to a reference-counted object (core/refcnt.c).  While   *)
(* it runs it sits on the global list "timers" and holds one reference to  *)
(* its object.  The permanent process retry_process polls the list; one    *)
(* poll expires at most one timer, and the expiry callback may start and   *)
(* stop any timer, including the one that has just expired, and may drop   *)
(* the last other reference to the timer's object.                         *)
(*                                                                         *)
(* The expiry of a timer is two steps here, retry_poll (up to the call of  *)
(* timer->expired) and timer_expired_return (after it), so that whatever   *)
(* the callback does to timers and references happens in between.          *)
(***************************************************************************)
EXTENDS Integers, Sequences, FiniteSets, Lists

CONSTANTS
  Timer,          \* struct retry_timer instances
  NoTimer,        \* no timer
  Object,         \* the reference-counted objects that contain them
  ObjOf,          \* [Timer -> Object]: timer->refcnt
  MIN_TIMEOUT,    \* retry.c:49
  TMin, TMax,     \* [Timer -> ticks]: the effective min and max of a timer
  FixedTimeouts,  \* the arguments clients give to start_timer_fixed
  ClockMod,       \* currticks() wraps at this value
  MaxGap,         \* bound: clock ticks between two polls of the list
  MaxTicks,       \* bound: the longest smoothed timeout
  MaxCount        \* bound: expiries not balanced by a stop are counted up to
                  \* this, which stands for this many or more

ASSUME ConstantsAssumption ==
  /\ IsFiniteSet(Timer)
  /\ NoTimer \notin Timer
  /\ ObjOf \in [Timer -> Object]
  /\ MIN_TIMEOUT \in Nat \ {0}
  /\ TMin \in [Timer -> Nat]
  /\ TMax \in [Timer -> Nat]
  /\ \A t \in Timer : MIN_TIMEOUT <= TMax[t] /\ TMin[t] <= TMax[t]
  /\ FixedTimeouts \subseteq Nat
  /\ ClockMod \in Nat \ {0}
  /\ MaxGap \in Nat
  /\ MaxTicks \in Nat
  /\ MaxCount \in Nat \ {0}

VARIABLES
  now,      \* currticks()
  timers,   \* the list of running timers, head first
  running,  \* timer->running
  timeout,  \* timer->timeout
  start,    \* timer->start
  count,    \* timer->count
  refs,     \* refcnt->count of every object: 0 is one reference, -1 is freed
  held,     \* the rest of the program still holds its reference to the object
  cb,       \* the timer whose expiry callback is executing, or NoTimer
  gap,      \* ticks since the list was last polled
  streak,   \* history: expiries in a row of runs started by start_timer, none
            \* reported as a permanent failure; -1 in a fixed-timeout run
  ran       \* history: ticks the current run has lasted, counted up to ClockMod

vars == <<now, timers, running, timeout, start, count, refs, held, cb, gap,
          streak, ran>>

Max2(a, b) == IF a < b THEN b ELSE a

\* used = ( now - timer->start ), in unsigned arithmetic
Used(t) == (now - start[t]) % ClockMod

Due_by_deadline(t) == running[t] /\ now >= (start[t] + timeout[t]) % ClockMod
Due(t) == running[t] /\ Used(t) >= timeout[t]

\* Some code that can reach timer t is running: it owns a reference to the
\* object, or it is the expiry callback of one of the object's timers.
Reachable(t) ==
  held[ObjOf[t]] \/ (cb # NoTimer /\ ObjOf[cb] = ObjOf[t])

ref_get(o) == refs' = [refs EXCEPT ![o] = @ + 1]

ref_put(o) == refs' = [refs EXCEPT ![o] = @ - 1]

Init ==
  /\ now = 0
  /\ timers = << >>
  /\ running = [t \in Timer |-> FALSE]
  /\ timeout = [t \in Timer |-> 0]
  /\ start = [t \in Timer |-> 0]
  /\ count = [t \in Timer |-> 0]
  /\ refs = [o \in Object |-> 0]
  /\ held = [o \in Object |-> TRUE]
  /\ cb = NoTimer
  /\ gap = 0
  /\ streak = [t \in Timer |-> 0]
  /\ ran = [t \in Timer |-> 0]
-----------------------------------------------------------------------------
(***************************************************************************)
(* Operations                                                              *)
(***************************************************************************)
\* The part of start_timer_fixed that all the ways of starting share.
RunTimer_rereferences(t, ticks) ==
  /\ timers' = IF running[t] THEN timers ELSE <<t>> \o timers
  /\ ref_get(ObjOf[t])
  /\ running' = [running EXCEPT ![t] = TRUE]
  /\ start' = [start EXCEPT ![t] = now]
  /\ timeout' = [timeout EXCEPT ![t] = ticks]
  /\ ran' = [ran EXCEPT ![t] = 0]
  /\ UNCHANGED <<now, count, held, cb, gap>>
RunTimer(t, ticks) ==
  /\ IF running[t]
       THEN UNCHANGED <<timers, refs, running>>
       ELSE /\ timers' = <<t>> \o timers
            /\ ref_get(ObjOf[t])
            /\ running' = [running EXCEPT ![t] = TRUE]
  /\ start' = [start EXCEPT ![t] = now]
  /\ timeout' = [timeout EXCEPT ![t] = ticks]
  /\ ran' = [ran EXCEPT ![t] = 0]
  /\ UNCHANGED <<now, count, held, cb, gap>>

start_timer_fixed(t, ticks) ==
  /\ Reachable(t)
  /\ RunTimer(t, ticks)
  /\ streak' = [streak EXCEPT ![t] = -1]

start_timer(t) ==
  /\ Reachable(t)
  /\ RunTimer(t, Max2(timeout[t], Max2(TMin[t], MIN_TIMEOUT)))
  /\ UNCHANGED streak

\* The new timeout of a timer that ran for r ticks: 7/8 of it plus r/2.
Smooth(ticks, r) == (ticks - ticks \div 8) + r \div 2

\* MaxTicks bounds the timeouts that are looked at.
stop_timer(t) ==
  /\ Reachable(t)
  /\ running[t]
  /\ Smooth(timeout[t], Used(t)) <= MaxTicks
  /\ timers' = list_del(timers, t)
  /\ running' = [running EXCEPT ![t] = FALSE]
  /\ IF count[t] > 0
       THEN /\ \/ count' = [count EXCEPT ![t] = @ - 1]
               \/ count[t] = MaxCount /\ UNCHANGED count
            /\ UNCHANGED timeout
       ELSE /\ timeout' = [timeout EXCEPT ![t] = Smooth(@, Used(t))]
            /\ UNCHANGED count
  /\ ref_put(ObjOf[t])
  /\ streak' = [streak EXCEPT ![t] = 0]
  /\ UNCHANGED <<now, start, held, cb, gap, ran>>

\* timer_expired up to the callback: the reference that the running timer
\* held is kept for the duration of the callback.
timer_expired(t) ==
  LET doubled == 2 * timeout[t]
      fail    == doubled > TMax[t]
  IN  /\ timers' = list_del(timers, t)
      /\ running' = [running EXCEPT ![t] = FALSE]
      /\ count' = [count EXCEPT ![t] = IF @ < MaxCount THEN @ + 1 ELSE @]
      /\ timeout' = [timeout EXCEPT ![t] = IF fail THEN TMax[t] ELSE doubled]
      /\ streak' = [streak EXCEPT ![t] = IF fail THEN 0 ELSE @ + 1]
      /\ cb' = t
      /\ UNCHANGED <<now, start, refs, held, ran>>

\* One poll: the first timer of the list that is due, if any, expires.
retry_poll_head_only ==
  /\ cb = NoTimer
  /\ gap' = 0
  /\ IF timers # << >> /\ Due(Head(timers))
       THEN timer_expired(Head(timers))
       ELSE UNCHANGED <<now, timers, running, timeout, start, count, refs,
                        held, cb, streak, ran>>
retry_poll ==
  /\ cb = NoTimer
  /\ gap' = 0
  /\ \/ \E i \in DOMAIN timers :
          /\ Due(timers[i])
          /\ \A j \in 1 .. i - 1 : ~Due(timers[j])
          /\ timer_expired(timers[i])
     \/ /\ \A i \in DOMAIN timers : ~Due(timers[i])
        /\ UNCHANGED <<now, timers, running, timeout, start, count, refs,
                       held, cb, streak, ran>>

\* The callback returns and timer_expired drops the timer's reference.
timer_expired_return ==
  /\ cb # NoTimer
  /\ ref_put(ObjOf[cb])
  /\ cb' = NoTimer
  /\ UNCHANGED <<now, timers, running, timeout, start, count, held, gap,
                 streak, ran>>

\* The rest of the program drops its reference to an object (external: the
\* owner of the timer, e.g. the list of TCP connections).
Release(o) ==
  /\ held[o]
  /\ held' = [held EXCEPT ![o] = FALSE]
  /\ ref_put(o)
  /\ UNCHANGED <<now, timers, running, timeout, start, count, cb, gap,
                 streak, ran>>

\* The clock advances (external: the platform timer behind currticks()).
Tick ==
  /\ gap < MaxGap
  /\ gap' = gap + 1
  /\ now' = (now + 1) % ClockMod
  /\ ran' = [t \in Timer |-> IF running[t] /\ ran[t] < ClockMod
                             THEN ran[t] + 1 ELSE ran[t]]
  /\ UNCHANGED <<timers, running, timeout, start, count, refs, held, cb,
                 streak>>

Next ==
  \/ \E t \in Timer :
       \/ start_timer(t)
       \/ stop_timer(t)
       \/ \E ticks \in FixedTimeouts : start_timer_fixed(t, ticks)
  \/ retry_poll
  \/ timer_expired_return
  \/ \E o \in Object : Release(o)
  \/ Tick

Spec == Init /\ [][Next]_vars

\* retry_process is a permanent process of a round-robin run queue, so the
\* list is polled again and again, a callback returns, and the clock advances.
FairSpec ==
  Spec /\ WF_vars(retry_poll) /\ WF_vars(timer_expired_return) /\ WF_vars(Tick)
-----------------------------------------------------------------------------
(***************************************************************************)
(* Properties                                                              *)
(***************************************************************************)
\* Type invariant of the timer state.
TypeOK ==
  /\ now \in 0 .. ClockMod - 1
  /\ timers \in Seq(Timer)
  /\ running \in [Timer -> BOOLEAN]
  /\ timeout \in [Timer -> Nat]
  /\ start \in [Timer -> 0 .. ClockMod - 1]
  /\ count \in [Timer -> Nat]
  /\ refs \in [Object -> Int]
  /\ held \in [Object -> BOOLEAN]
  /\ cb \in Timer \cup {NoTimer}
  /\ gap \in Nat
  /\ streak \in [Timer -> Int]
  /\ ran \in [Timer -> Nat]

\* The list that retry_poll walks holds every running timer exactly once and
\* no stopped one, whatever a callback started and stopped in the meantime.
ListIsRunningTimers ==
  /\ \A t \in Timer : running[t] <=> \E i \in DOMAIN timers : timers[i] = t
  /\ \A i, j \in DOMAIN timers : timers[i] = timers[j] => i = j

OneIf(b) == IF b THEN 1 ELSE 0

RunningOf(o) == {t \in Timer : running[t] /\ ObjOf[t] = o}

\* An object's reference count is exact: one reference for the program, one
\* for every running timer, one for an expiry callback in progress.  Neither
\* restarting a running timer nor stopping a stopped one disturbs it.
RefBalance ==
  \A o \in Object :
    refs[o] + 1 = Cardinality(RunningOf(o)) + OneIf(held[o])
                  + OneIf(cb # NoTimer /\ ObjOf[cb] = o)

\* No timer of a freed object is on the list, and the object of the timer
\* whose callback executes is not freed before the callback returns, even
\* when the callback drops the last other reference.
NoTimerOfFreedObject ==
  \A t \in Timer : running[t] \/ cb = t => refs[ObjOf[t]] >= 0

\* A timer that is only ever restarted by start_timer backs off until the
\* expiry callback is told of a permanent failure: the number of expiries in
\* a row that are not reported as failures is below the timer's maximum.
BackoffEndsInFailure ==
  \A t \in Timer : streak[t] > 0 => streak[t] < timeout[t] /\ timeout[t] <= TMax[t]

\* What start_timer, stop_timer and timer_expired keep true between them: the
\* list is exact, the reference counts are exact, no timer outlives its object
\* and the back-off ends in a reported failure.
TimersConsistent ==
  /\ TypeOK
  /\ ListIsRunningTimers
  /\ RefBalance
  /\ NoTimerOfFreedObject
  /\ BackoffEndsInFailure

\* The comment at retry.c:45: the smoothing in stop_timer cannot bring a
\* timeout of at least seven ticks below seven ticks.
SmoothingKeepsSevenTicks ==
  [][\A t \in Timer :
       running[t] /\ ~running'[t] /\ cb' = cb /\ timeout[t] >= 7 =>
         timeout'[t] >= 7]_vars

\* A timer never expires early, also when the clock has wrapped since it was
\* started: the callback begins only if the ticks counted by "ran" reached
\* the timeout.
NeverEarly ==
  [][\A t \in Timer : cb' = t /\ cb # t => ran[t] >= timeout[t]]_vars

\* A timer that is due does not wait for ever: it is expired, stopped or
\* started afresh, although a poll expires only the first due timer and a
\* restarted timer goes to the head of the list.
DueTimerIsServed == \A t \in Timer : Due(t) ~> (~running[t] \/ ran[t] = 0)
=============================================================================
