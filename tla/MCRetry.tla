------------------------------ MODULE MCRetry ------------------------------
(***************************************************************************)
(* Retry timers on a small instance: the two timers of one TCP connection  *)
(* (timer and wait), with short timeouts and a clock that wraps soon.      *)
(***************************************************************************)
EXTENDS Retry, TLC

CONSTANTS t1, t2, o1

MCShared == t1 :> o1 @@ t2 :> o1
MCMin == [t \in Timer |-> 0]
MCMax == [t \in Timer |-> 3]
=============================================================================
