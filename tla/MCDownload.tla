----------------------------- MODULE MCDownload -----------------------------
(* One downloader at a time, one named socket and resolver; memory for two  *)
(* HTTP requests and two TCP connections where the server redirects (it     *)
(* needs both), for one of each where it has the request tried again (the   *)
(* connection is opened again once the first has gone, or cannot be).       *)
EXTENDS Download

CONSTANTS d1, h1, h2, n1, m1, t1, t2

MCDownloader == {d1}
MCHttp == {h1, h2}
MCNamed == {n1}
MCMux == {m1}
MCTcp == {t1, t2}
MCObject == {Mono, d1, h1, h2, n1, m1, t1, t2}
MCStatic == {Mono}
MCIntf ==
  {<<Mono, "job">>, <<Mono, "tmp">>, <<d1, "job">>, <<d1, "xfer">>,
   <<h1, "xfer">>, <<h1, "socket">>, <<h2, "xfer">>, <<h2, "socket">>,
   <<n1, "xfer">>, <<n1, "resolv">>, <<m1, "parent">>, <<t1, "xfer">>, <<t2, "xfer">>}
MCSetups ==
  {[server |-> "redirects", memory |-> MCObject],
   [server |-> "tries_again", memory |-> MCObject \ {h2, t2}]}
=============================================================================
