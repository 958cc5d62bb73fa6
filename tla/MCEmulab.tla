------------------------------ MODULE MCEmulab ------------------------------
(* Memory for one query, one event and one socket, which are used again and  *)
(* again.                                                                    *)
EXTENDS Emulab

CONSTANTS b1, e1, s1

MCBootinfo == {b1}
MCEvent == {e1}
MCSocket == {s1}
MCObject == {Mono, b1, e1, s1}
MCStatic == {Mono}
MCIntf ==
  {<<Mono, "job">>, <<b1, "request">>, <<b1, "socket">>,
   <<e1, "request">>, <<e1, "socket">>, <<s1, "xfer">>}
=============================================================================
