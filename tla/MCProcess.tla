----------------------------- MODULE MCProcess -----------------------------
(***************************************************************************)
(* Two permanent processes, and an object with a process that is           *)
(* rescheduled and one that runs once each time it is added.               *)
(***************************************************************************)
EXTENDS Process, TLC

CONSTANTS retry, net, http, tcp, o1, o2

MCObjOf == (retry :> o1) @@ (net :> o1) @@ (http :> o2) @@ (tcp :> o2)
=============================================================================
