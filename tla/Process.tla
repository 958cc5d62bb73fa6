------------------------------ MODULE Process ------------------------------
(***************************************************************************)
(* Cooperative multitasking: core/process.c.                               *)
(*                                                                         *)
(* Processes wait in one run queue.  step() moves the first process to the *)
(* end of the queue, or takes it off if it runs once each time it is       *)
(* added, and calls it.  The code of a process may add and remove any      *)
(* process, and may drop the last other reference to the object that       *)
(* contains the process.  The call is two steps here, step and             *)
(* step_return, so that all of this happens in between.  Code that runs    *)
(* outside step() (before monojob_wait, say) may do the same.              *)
(***************************************************************************)
EXTENDS Integers, Sequences, FiniteSets, Lists

CONSTANTS
  Proc,        \* struct process instances
  NoProc,      \* no process
  Object,      \* the reference-counted objects that contain them
  ObjOf,       \* [Proc -> Object]: process->refcnt
  Reschedule,  \* the processes whose descriptor says "reschedule"
  Permanent    \* PERMANENT_PROCESSES

ASSUME ConstantsAssumption ==
  /\ IsFiniteSet(Proc)
  /\ NoProc \notin Proc
  /\ ObjOf \in [Proc -> Object]
  /\ Reschedule \subseteq Proc
  /\ Permanent \subseteq Reschedule

VARIABLES
  run_queue,  \* the run queue, first process first
  refs,       \* refcnt->count of every object: 0 is one reference, -1 is freed
  held,       \* the rest of the program still holds its reference to the object
  executing,  \* the process that step() is calling, or NoProc
  waited      \* history: calls of other processes since a process was last
              \* called or put on the queue

vars == <<run_queue, refs, held, executing, waited>>

Queued(p) == \E i \in DOMAIN run_queue : run_queue[i] = p

\* Some code that can reach process p is running.
Reachable(p) ==
  held[ObjOf[p]] \/ (executing # NoProc /\ ObjOf[executing] = ObjOf[p])

\* The permanent processes are on the queue after init_processes, in some
\* order.  They are not part of any object that is freed.
Init ==
  /\ run_queue \in [1 .. Cardinality(Permanent) -> Permanent]
  /\ \A p \in Permanent : Queued(p)
  /\ refs = [o \in Object |-> Cardinality({p \in Permanent : ObjOf[p] = o})]
  /\ held = [o \in Object |-> TRUE]
  /\ executing = NoProc
  /\ waited = [p \in Proc |-> 0]
-----------------------------------------------------------------------------
process_add_at_head(p) ==
  /\ Reachable(p)
  /\ ~Queued(p)
  /\ refs' = [refs EXCEPT ![ObjOf[p]] = @ + 1]
  /\ run_queue' = <<p>> \o run_queue
  /\ waited' = [waited EXCEPT ![p] = 0]
  /\ UNCHANGED <<held, executing>>
process_add(p) ==
  /\ Reachable(p)
  /\ ~Queued(p)
  /\ refs' = [refs EXCEPT ![ObjOf[p]] = @ + 1]
  /\ run_queue' = Append(run_queue, p)
  /\ waited' = [waited EXCEPT ![p] = 0]
  /\ UNCHANGED <<held, executing>>

process_del(p) ==
  /\ Reachable(p)
  /\ p \notin Permanent
  /\ Queued(p)
  /\ run_queue' = list_del(run_queue, p)
  /\ refs' = [refs EXCEPT ![ObjOf[p]] = @ - 1]
  /\ UNCHANGED <<held, executing, waited>>

\* How long each process has waited when p is called, up to the number of
\* processes.
Waiting(p) ==
  [q \in Proc |-> IF q = p \/ ~Queued(q) THEN 0
                  ELSE IF waited[q] < Cardinality(Proc) THEN waited[q] + 1
                  ELSE waited[q]]

\* step() up to the call of desc->step.
step_unreferenced ==
  LET p == Head(run_queue)
  IN  /\ executing = NoProc
      /\ run_queue # << >>
      /\ run_queue' = IF p \in Reschedule THEN Append(Tail(run_queue), p)
                      ELSE Tail(run_queue)
      /\ refs' = IF p \in Reschedule THEN refs
                 ELSE [refs EXCEPT ![ObjOf[p]] = @ - 1]
      /\ executing' = p
      /\ waited' = Waiting(p)
      /\ UNCHANGED held
step_stays_first ==
  LET p == Head(run_queue)
  IN  /\ executing = NoProc
      /\ run_queue # << >>
      /\ run_queue' = IF p \in Reschedule THEN run_queue ELSE Tail(run_queue)
      /\ refs' = IF p \in Reschedule THEN [refs EXCEPT ![ObjOf[p]] = @ + 1]
                 ELSE refs
      /\ executing' = p
      /\ waited' = Waiting(p)
      /\ UNCHANGED held
step ==
  LET p == Head(run_queue)
  IN  /\ executing = NoProc
      /\ run_queue # << >>
      /\ run_queue' = IF p \in Reschedule THEN Append(Tail(run_queue), p)
                      ELSE Tail(run_queue)
      /\ refs' = IF p \in Reschedule THEN [refs EXCEPT ![ObjOf[p]] = @ + 1]
                 ELSE refs
      /\ executing' = p
      /\ waited' = Waiting(p)
      /\ UNCHANGED held

\* The process returns and step() allows its destruction.
step_return ==
  /\ executing # NoProc
  /\ refs' = [refs EXCEPT ![ObjOf[executing]] = @ - 1]
  /\ executing' = NoProc
  /\ UNCHANGED <<run_queue, held, waited>>

\* The rest of the program drops its reference to an object (external).
Release(o) ==
  /\ held[o]
  /\ \A p \in Permanent : ObjOf[p] # o
  /\ held' = [held EXCEPT ![o] = FALSE]
  /\ refs' = [refs EXCEPT ![o] = @ - 1]
  /\ UNCHANGED <<run_queue, executing, waited>>

Next ==
  \/ \E p \in Proc : process_add(p) \/ process_del(p)
  \/ step
  \/ step_return
  \/ \E o \in Object : Release(o)

Spec == Init /\ [][Next]_vars

\* The program calls step() again and again while it waits for anything
\* (monojob_wait and the other waiting loops), and a process returns.
FairSpec == Spec /\ WF_vars(step) /\ WF_vars(step_return)
-----------------------------------------------------------------------------
\* Type invariant of the run queue; no object is freed twice.
TypeOK ==
  /\ run_queue \in Seq(Proc)
  /\ refs \in [Object -> {-1} \cup Nat]
  /\ held \in [Object -> BOOLEAN]
  /\ executing \in Proc \cup {NoProc}
  /\ waited \in [Proc -> Nat]

\* No process is on the run queue twice: a list_add_tail of a process that is
\* already linked would corrupt the list.
QueuedOnce ==
  \A i, j \in DOMAIN run_queue : run_queue[i] = run_queue[j] => i = j

QueuedOf(o) == {p \in Proc : Queued(p) /\ ObjOf[p] = o}

OneIf(b) == IF b THEN 1 ELSE 0

\* An object's reference count is exact: one for the program, one for each of
\* its processes on the queue, one for the process being executed.
RefBalance ==
  \A o \in Object :
    refs[o] + 1 = Cardinality(QueuedOf(o)) + OneIf(held[o])
                  + OneIf(executing # NoProc /\ ObjOf[executing] = o)

\* No process of a freed object is on the queue, and the object is not freed
\* under a process that executes, whatever the process does ("Inhibit
\* destruction mid-step").
NoProcessOfFreedObject ==
  \A p \in Proc : Queued(p) \/ executing = p => refs[ObjOf[p]] >= 0

\* What process_add, process_del and step keep true between them: the queue is
\* a list without repetition, the counts are exact and no process outlives its
\* object.
QueueConsistent ==
  /\ TypeOK
  /\ QueuedOnce
  /\ RefBalance
  /\ NoProcessOfFreedObject

\* Round robin: however processes are added and removed, a process on the
\* queue waits for no more calls than there are other processes.  This is what
\* the fairness of the other modules rests on.
BoundedWait ==
  \A i \in DOMAIN run_queue :
    waited[run_queue[i]] + i <= Cardinality(Proc)

\* A process on the queue is eventually called, or removed.
QueuedIsCalled == \A p \in Proc : Queued(p) ~> (executing = p \/ ~Queued(p))
=============================================================================
