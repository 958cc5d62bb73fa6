------------------------------ MODULE Monojob -------------------------------
(***************************************************************************)
(* The single foreground job, core/monojob.c: a static interface that the  *)
(* object doing the job is plugged into, and a function that runs the      *)
(* event loop until the interface is closed.                               *)
(***************************************************************************)
EXTENDS Interface

CONSTANT Mono   \* the static object that owns the interface

VARIABLES
  monojob_rc,   \* the status of the job, "none" for -EINPROGRESS
  waiting       \* monojob_wait is running

monoVars == <<monojob_rc, waiting>>

monojob == <<Mono, "job">>

MonojobInit == monojob_rc = "none" /\ waiting = FALSE

\* The job is attached to the interface, and monojob_wait is called.
monojob_wait_begins == monojob_rc' = "none" /\ waiting' = TRUE

\* The intf_close method of the interface.
monojob_close ==
  /\ Executing("method") /\ Top.a = monojob
  /\ monojob_rc' = Top.rc
  /\ Call(<<Restart(monojob, Top.rc)>>)
  /\ UNCHANGED <<dest, blocked, refs, waiting>>

\* The end of monojob_wait: the job has finished, or the user has pressed
\* Ctrl-C or the timeout has passed (perhaps just as the job has finished).
monojob_wait ==
  /\ Idle /\ waiting
  /\ waiting' = FALSE
  /\ monojob_rc' \in {"cancelled"} \cup ({monojob_rc} \ {"none"})
  /\ stack' = <<Restart(monojob, monojob_rc')>>
  /\ UNCHANGED <<dest, blocked, refs>>
=============================================================================
