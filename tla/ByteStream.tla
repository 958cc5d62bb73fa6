----------------------------- MODULE ByteStream -----------------------------
(***************************************************************************)
(* What a stream connection promises to the application that plugs its     *)
(* data transfer interface into it: the bytes of the remote end, in order  *)
(* and without gaps, until either side ends it; and an end without error   *)
(* (intf_close with rc = 0) only when the whole stream has been received.  *)
(***************************************************************************)
EXTENDS Integers, Sequences

CONSTANT Length  \* the number of bytes that the remote end sends

VARIABLES
  received,  \* the offsets of the bytes received so far
  status     \* new, open, or how the stream ended

vars == <<received, status>>

Prefix(n) == [i \in 1 .. n |-> i - 1]

Init == received = << >> /\ status = "new"

Open == status = "new" /\ status' = "open" /\ UNCHANGED received

Receive ==
  /\ status = "open"
  /\ \E n \in Len(received) + 1 .. Length : received' = Prefix(n)
  /\ UNCHANGED status

EndOfStream ==
  /\ status = "open" /\ Len(received) = Length
  /\ status' = "eof"
  /\ UNCHANGED received

Abort ==
  /\ status = "open"
  /\ status' \in {"app", "error"}
  /\ UNCHANGED received

Next == Open \/ Receive \/ EndOfStream \/ Abort

Spec == Init /\ [][Next]_vars
=============================================================================
