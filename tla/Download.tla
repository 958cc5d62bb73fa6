------------------------------ MODULE Download ------------------------------
(***************************************************************************)
(* An image download, from the foreground job to the TCP connection:       *)
(* core/downloader.c, core/xfer.c, core/open.c (and core/monojob.c),       *)
(* core/resolv.c, and the object life cycles of net/tcp/httpcore.c and     *)
(* net/tcp.c.                                                              *)
(*                                                                         *)
(*    monojob -- job(downloader)xfer -- xfer(http)socket -- xfer(tcp)      *)
(*                                                                         *)
(* A named socket stands where the TCP connection will be until a resolver *)
(* has found the address.  Memory is finite and is reused.                 *)
(***************************************************************************)
EXTENDS Monojob, FiniteSets

CONSTANTS
  Downloader, Http, Named, Mux, Tcp,  \* memory for objects of each type
  Setups,      \* the set-ups considered: what the HTTP server may ask for
               \* beside giving a response, and the memory that is available
  MaxStack     \* the depth that the C stack has to allow for

ASSUME DownloadAssumption ==
  /\ Static = {Mono}
  /\ Object = {Mono} \cup Downloader \cup Http \cup Named \cup Mux \cup Tcp
  /\ Intf = ({Mono} \X {"job", "tmp"}) \cup (Downloader \X {"job", "xfer"})
            \cup (Http \X {"xfer", "socket"}) \cup (Named \X {"xfer", "resolv"})
            \cup (Mux \X {"parent"}) \cup (Tcp \X {"xfer"})
  /\ Setups \subseteq [server : {"redirects", "tries_again"}, memory : SUBSET Object]
  /\ MaxStack \in Nat

tmp == <<Mono, "tmp">>  \* the temporary interface of xfer_vredirect

VARIABLES
  setup,       \* the set-up; it does not change
  ret,         \* the value that the last call returned
  rx_state,    \* [Http -> {"rx", "idle", "dead"}]
  try_again,   \* [Http -> BOOLEAN]: HTTP_TRY_AGAIN
  keepalive,   \* [Http -> BOOLEAN]: HTTP_SERVER_KEEPALIVE
  reopen,      \* [Http -> BOOLEAN]: HTTP_REOPEN_SOCKET
  tx_pending,  \* the requests that wait to be transmitted: HTTP_TX_PENDING
  process,     \* the requests whose process is in the run queue
  timer,       \* the requests whose retry timer is running
  resolving,   \* the multiplexers whose child resolver has not finished
  tcp_conns,   \* the TCP connections in the list of connections
  syn_rcvd,    \* those of them that have received a SYN
  stalled,     \* those that wait for the peer without any timer running
  why,         \* history: [Downloader -> status]: the first reason that the
               \* downloader was finished for
  reconnected  \* history: a retry timer has reopened a request that was closed

flagVars == <<try_again, keepalive, reopen, tx_pending>>
httpVars == <<rx_state, flagVars, process, timer>>
tcpVars == <<tcp_conns, syn_rcvd, stalled>>
histVars == <<why, reconnected>>
objVars == <<httpVars, tcpVars, monoVars, resolving, histVars>>
vars == <<intfVars, ret, objVars, setup>>

Init ==
  /\ setup \in Setups
  /\ dest = [i \in Intf |-> Null]
  /\ blocked = [i \in Intf |-> i = tmp \/ Owner(i) \in Mux]
  /\ refs = [o \in Object |-> IF o = Mono THEN 0 ELSE -1]
  /\ stack = << >>
  /\ ret = "ok"
  /\ MonojobInit
  /\ rx_state = [h \in Http |-> "dead"]
  /\ try_again = [h \in Http |-> FALSE]
  /\ keepalive = [h \in Http |-> FALSE]
  /\ reopen = [h \in Http |-> FALSE]
  /\ tx_pending = {} /\ process = {} /\ timer = {} /\ resolving = {}
  /\ tcp_conns = {} /\ syn_rcvd = {} /\ stalled = {}
  /\ why = [d \in Downloader |-> "none"] /\ reconnected = FALSE

\* Functions of this module, as instructions.
downloader_finished(d, rc) == Instr("downloader_finished", d, Null, rc)
http_close(h, rc) == Instr("http_close", h, Null, rc)
http_done(h) == Instr("http_done", h, Null, "ok")
named_close(n, rc) == <<Shutdown(<<n, "resolv">>, rc), Shutdown(<<n, "xfer">>, rc)>>
tcp_close(t, rc) == <<Shutdown(<<t, "xfer">>, rc), Instr("tcp_closed", t, Null, rc)>>
OpenHttp(i) == Instr("http_open", i, Null, "ok")
OpenNamed(i) == Instr("named_open", i, Null, "ok")
OpenResolv(i) == Instr("resolv", i, Null, "ok")
OpenTcp(i) == Instr("tcp_open", i, Null, "ok")
Redirect(i, open) == Instr("xfer_vredirect", i, open, "ok")

\* zalloc, ref_init and intf_init of an object with references "n".
Alloc(o, n) ==
  /\ refs' = [refs EXCEPT ![o] = n - 1]
  /\ dest' = [i \in Intf |-> IF Owner(i) = o THEN Null ELSE dest[i]]
  /\ blocked' = [i \in Intf |-> IF Owner(i) = o THEN o \in Mux ELSE blocked[i]]

\* A function that allocates may run out of memory, or fail for a reason of
\* its own before it has told anyone.
Fails ==
  /\ ret' = "failed"
  /\ Return
  /\ UNCHANGED <<dest, blocked, refs, objVars>>

\* What zalloc may return: it does not matter which of several pieces of memory.
Free(objects) ==
  LET free == {o \in objects \cap setup.memory : ~Live(o)}
  IN  IF free = {} THEN {} ELSE {CHOOSE o \in free : TRUE}
-----------------------------------------------------------------------------
(***************************************************************************)
(* Opening                                                                 *)
(***************************************************************************)
\* http_open_filter: the socket is opened first, the parent attached last.
http_open ==
  /\ Executing("http_open")
  /\ \/ \E h \in Free(Http) :
          /\ Alloc(h, 1)
          /\ rx_state' = [rx_state EXCEPT ![h] = "rx"]
          /\ try_again' = [try_again EXCEPT ![h] = FALSE]
          /\ keepalive' = [keepalive EXCEPT ![h] = FALSE]
          /\ reopen' = [reopen EXCEPT ![h] = FALSE]
          /\ tx_pending' = tx_pending \cup {h}
          /\ Call(<<OpenNamed(<<h, "socket">>), Instr("http_opened", h, Top.a, "ok")>>)
          /\ UNCHANGED <<ret, process, timer, tcpVars, monoVars, resolving, histVars>>
     \/ Fails

http_opened ==
  /\ Executing("http_opened")
  /\ Call((IF ret = "ok" THEN PlugPlug(<<Top.a, "xfer">>, Top.b)
                         ELSE <<http_close(Top.a, ret)>>) \o <<Put(Top.a)>>)
  /\ UNCHANGED <<dest, blocked, refs, ret, objVars>>

\* xfer_open_named_socket
named_open ==
  /\ Executing("named_open")
  /\ \/ \E n \in Free(Named) :
          /\ Alloc(n, 1)
          /\ Call(<<OpenResolv(<<n, "resolv">>), Instr("named_opened", n, Top.a, "ok")>>)
          /\ UNCHANGED <<ret, objVars>>
     \/ Fails

named_opened ==
  /\ Executing("named_opened")
  /\ Call((IF ret = "ok" THEN PlugPlug(<<Top.a, "xfer">>, Top.b) ELSE << >>)
          \o <<Put(Top.a)>>)
  /\ UNCHANGED <<dest, blocked, refs, ret, objVars>>

\* resolv: the child resolver holds the second reference.
resolv ==
  /\ Executing("resolv")
  /\ \/ \E m \in Free(Mux) :
          /\ Alloc(m, 2)
          /\ resolving' = resolving \cup {m}
          /\ ret' = "ok"
          /\ Call(PlugPlug(<<m, "parent">>, Top.a) \o <<Put(m)>>)
          /\ UNCHANGED <<httpVars, tcpVars, monoVars, histVars>>
     \/ Fails

\* tcp_open: the reference is transferred to the list of connections.
tcp_open ==
  /\ Executing("tcp_open")
  /\ \/ \E t \in Free(Tcp) :
          /\ Alloc(t, 1)
          /\ tcp_conns' = tcp_conns \cup {t}
          /\ ret' = "ok"
          /\ Call(PlugPlug(<<t, "xfer">>, Top.a))
          /\ UNCHANGED <<syn_rcvd, stalled, httpVars, monoVars, resolving, histVars>>
     \/ Fails

\* xfer_vredirect and xfer_vreopen: the interface that we are plugged into is
\* restarted and opens another location.  Neither end has anything to send yet
\* when xfer_window_changed is called.
xfer_vredirect ==
  LET j == dest[Top.a]
  IN  /\ Executing("xfer_vredirect")
      /\ j # Null
      /\ refs' = Get(refs, Owner(j))
      /\ Call(<<Plug(tmp, j), Restart(j, "ok"),
                IF Top.b = "http" THEN OpenHttp(j) ELSE OpenTcp(j),
                Unplug(tmp), Put(Owner(j))>>)
      /\ UNCHANGED <<dest, blocked, ret, objVars>>
-----------------------------------------------------------------------------
(***************************************************************************)
(* Closing                                                                 *)
(***************************************************************************)
\* The intf_close methods of the interfaces.
CloseMethod(o, name, rc) ==
  CASE o \in Downloader -> <<downloader_finished(o, rc)>>
    [] o \in Named -> named_close(o, rc)
    [] o \in Tcp -> tcp_close(o, rc)
    [] o \in Http /\ (name = "xfer" \/ rc # "ok") -> <<http_close(o, rc)>>
    [] o \in Http /\ name = "socket" /\ rc = "ok" -> <<http_done(o)>>

method ==
  \/ /\ monojob_close
     /\ UNCHANGED <<ret, httpVars, tcpVars, resolving, histVars>>
  \/ /\ Executing("method") /\ Top.a # monojob
     /\ Call(CloseMethod(Owner(Top.a), Top.a[2], Top.rc))
     /\ UNCHANGED <<dest, blocked, refs, ret, objVars>>

DownloaderFinished_loses_rc ==
  /\ Executing("downloader_finished")
  /\ why' = [why EXCEPT ![Top.a] = IF @ = "none" THEN Top.rc ELSE @]
  /\ Call(<<Shutdown(<<Top.a, "xfer">>, Top.rc), Shutdown(<<Top.a, "job">>, "ok")>>)
  /\ UNCHANGED <<dest, blocked, refs, ret, httpVars, tcpVars, monoVars, resolving,
                 reconnected>>
DownloaderFinished ==
  /\ Executing("downloader_finished")
  /\ why' = [why EXCEPT ![Top.a] = IF @ = "none" THEN Top.rc ELSE @]
  /\ Call(<<Shutdown(<<Top.a, "xfer">>, Top.rc), Shutdown(<<Top.a, "job">>, Top.rc)>>)
  /\ UNCHANGED <<dest, blocked, refs, ret, httpVars, tcpVars, monoVars, resolving,
                 reconnected>>

\* process_del, then the shutdown of the interfaces; the retry timer is not
\* stopped.  Only http_retry, which sets HTTP_TX_PENDING, can still have
\* http_step called, so that the flag is of no interest any more.
HttpClose_forgets_socket ==
  LET h == Top.a
  IN  /\ Executing("http_close")
      /\ rx_state' = [rx_state EXCEPT ![h] = "dead"]
      /\ process' = process \ {h} /\ tx_pending' = tx_pending \ {h}
      /\ refs' = IF h \in process THEN Drop(refs, h) ELSE refs
      /\ Call(<<Shutdown(<<h, "xfer">>, Top.rc)>>)
      /\ UNCHANGED <<dest, blocked, ret, try_again, keepalive, reopen, timer, tcpVars,
                     monoVars, resolving, histVars>>
HttpClose ==
  LET h == Top.a
  IN  /\ Executing("http_close")
      /\ rx_state' = [rx_state EXCEPT ![h] = "dead"]
      /\ process' = process \ {h} /\ tx_pending' = tx_pending \ {h}
      /\ refs' = IF h \in process THEN Drop(refs, h) ELSE refs
      /\ Call(<<Shutdown(<<h, "socket">>, Top.rc), Shutdown(<<h, "xfer">>, Top.rc)>>)
      /\ UNCHANGED <<dest, blocked, ret, try_again, keepalive, reopen, timer, tcpVars,
                     monoVars, resolving, histVars>>

\* http_done: the response is complete, or the server closed the connection,
\* which is an error in the middle of a response but not when idle.  The
\* request ends or is to be tried again, and then the socket is closed unless
\* the server has said that it keeps it alive.
HttpDone ==
  LET h == Top.a
  IN  /\ Executing("http_done")
      /\ \/ /\ rx_state[h] = "rx"
            /\ Call(<<http_close(h, "failed")>>)
            /\ UNCHANGED rx_state
         \/ /\ rx_state' = [rx_state EXCEPT ![h] = "idle"]
            /\ Call(IF ~try_again[h] THEN <<http_close(h, "ok")>>
                    ELSE IF keepalive[h]
                    THEN <<Instr("start_timer", h, Null, "keepalive")>>
                    ELSE <<Restart(<<h, "socket">>, "ok"),
                           Instr("start_timer", h, Null, "reopen")>>)
      /\ UNCHANGED <<dest, blocked, refs, ret, flagVars, process, timer, tcpVars,
                     monoVars, resolving, histVars>>

\* The end of http_done.
HttpStartTimer ==
  LET h == Top.a
  IN  /\ Executing("start_timer")
      /\ reopen' = [reopen EXCEPT ![h] = @ \/ Top.rc = "reopen"]
      /\ refs' = IF h \in timer THEN refs ELSE Get(refs, h)
      /\ timer' = timer \cup {h}
      /\ Return
      /\ UNCHANGED <<dest, blocked, ret, rx_state, try_again, keepalive, tx_pending,
                     process, tcpVars, monoVars, resolving, histVars>>

\* The rest of tcp_close: a connection that has not received a SYN is deleted.
TcpClosed_keeps_reference ==
  LET t == Top.a
  IN  /\ Executing("tcp_closed")
      /\ tcp_conns' = IF t \in syn_rcvd THEN tcp_conns ELSE tcp_conns \ {t}
      /\ stalled' = stalled \cap tcp_conns'
      /\ Return
      /\ UNCHANGED <<dest, blocked, refs, ret, syn_rcvd, httpVars, monoVars,
                     resolving, histVars>>
TcpClosed ==
  LET t == Top.a
  IN  /\ Executing("tcp_closed")
      /\ IF t \in syn_rcvd
           THEN /\ Return
                /\ UNCHANGED <<tcp_conns, stalled>>
           ELSE /\ tcp_conns' = tcp_conns \ {t}
                /\ stalled' = stalled \ {t}
                /\ Call(<<Put(t)>>)
      /\ UNCHANGED <<dest, blocked, refs, ret, syn_rcvd, httpVars, monoVars,
                     resolving, histVars>>
-----------------------------------------------------------------------------
(***************************************************************************)
(* The foreground job                                                      *)
(***************************************************************************)
\* imgdownload: create_downloader, then monojob_wait if it succeeds.
create_downloader(d) ==
  /\ Idle /\ ~waiting
  /\ ~Live(d)
  /\ Alloc(d, 1)
  /\ why' = [why EXCEPT ![d] = "none"]
  /\ stack' = <<OpenHttp(<<d, "xfer">>), Instr("create_downloader", d, Null, "ok")>>
  /\ ret' = "ok"
  /\ UNCHANGED <<httpVars, tcpVars, monoVars, resolving, reconnected>>

downloader_created ==
  LET d == Top.a
  IN  /\ Executing("create_downloader")
      /\ IF ret = "ok"
           THEN /\ Call(PlugPlug(<<d, "job">>, monojob) \o <<Put(d)>>)
                /\ monojob_wait_begins
           ELSE /\ Call(<<downloader_finished(d, ret), Put(d)>>)
                /\ UNCHANGED monoVars
      /\ UNCHANGED <<dest, blocked, refs, ret, httpVars, tcpVars, resolving, histVars>>

job_finished ==
  /\ monojob_wait
  /\ UNCHANGED <<ret, httpVars, tcpVars, resolving, histVars>>
-----------------------------------------------------------------------------
(***************************************************************************)
(* Name resolution                                                         *)
(***************************************************************************)
\* The last child resolver finishes: resmux_child_resolv_done if it found the
\* address, then resmux_child_close.
ResolverDone(m, rc) ==
  LET j == dest[<<m, "parent">>]
  IN  /\ Idle /\ m \in resolving
      /\ resolving' = resolving \ {m}
      /\ IF rc = "ok" /\ j # Null
           THEN /\ refs' = Get(refs, Owner(j))
                /\ stack' = (IF blocked[j] THEN << >>
                             ELSE <<Instr("named_resolv_done", Owner(j), Null, rc)>>)
                            \o <<Put(Owner(j)), Shutdown(<<m, "parent">>, rc), Put(m)>>
           ELSE /\ stack' = <<Shutdown(<<m, "parent">>, rc), Put(m)>>
                /\ UNCHANGED refs
      /\ UNCHANGED <<dest, blocked, ret, httpVars, tcpVars, monoVars, histVars>>

\* The data transfer interface is nullified first, so that the restart in
\* xfer_vreopen does not unplug it and a failure can still be reported.
named_resolv_done_not_nullified ==
  LET n == Top.a
  IN  /\ Executing("named_resolv_done")
      /\ Call(<<Redirect(<<n, "xfer">>, "tcp"), Instr("named_redirected", n, Null, "ok")>>)
      /\ UNCHANGED <<dest, blocked, refs, ret, objVars>>
named_resolv_done ==
  LET n == Top.a
  IN  /\ Executing("named_resolv_done")
      /\ Call(<<Nullify(<<n, "xfer">>), Redirect(<<n, "xfer">>, "tcp"),
                Instr("named_redirected", n, Null, "ok")>>)
      /\ UNCHANGED <<dest, blocked, refs, ret, objVars>>

named_redirected ==
  LET n == Top.a
  IN  /\ Executing("named_redirected")
      /\ Call((IF ret = "ok" THEN <<Unplug(<<n, "xfer">>)>> ELSE << >>)
              \o named_close(n, ret))
      /\ UNCHANGED <<dest, blocked, refs, ret, objVars>>
-----------------------------------------------------------------------------
(***************************************************************************)
(* HTTP and TCP                                                            *)
(***************************************************************************)
\* The request that data on a connection is delivered to.
Receiver(t) == Owner(dest[<<t, "xfer">>])

Delivers(t) ==
  /\ Idle /\ t \in syn_rcvd
  /\ dest[<<t, "xfer">>] # Null /\ ~blocked[dest[<<t, "xfer">>]]
  /\ rx_state[Receiver(t)] # "dead"

\* http_socket_deliver: what the server sends are headers that ask to try again
\* or promise to keep the connection, or it completes the response, redirects,
\* or is an error, as anything is that arrives when idle.  The caller holds a
\* reference.  A delivery of several parts is several of these.
http_socket_deliver(t) ==
  LET h == Receiver(t)
      Runs(body) == /\ refs' = Get(refs, h)
                    /\ stack' = body \o <<Put(h)>>
  IN  /\ Delivers(t)
      /\ \/ /\ Runs(<<http_close(h, "failed")>>)
            /\ UNCHANGED <<try_again, keepalive>>
         \/ /\ rx_state[h] = "rx" /\ setup.server = "tries_again"
            /\ Runs(<< >>)
            /\ \/ try_again' = [try_again EXCEPT ![h] = TRUE] /\ UNCHANGED keepalive
               \/ keepalive' = [keepalive EXCEPT ![h] = TRUE] /\ UNCHANGED try_again
         \/ /\ rx_state[h] = "rx"
            /\ Runs(<<http_done(h)>>)
            /\ UNCHANGED <<try_again, keepalive>>
         \/ /\ rx_state[h] = "rx" /\ setup.server = "redirects"
            /\ Runs(<<Redirect(<<h, "xfer">>, "http"),
                      Instr("http_redirected", h, Null, "ok")>>)
            /\ UNCHANGED <<try_again, keepalive>>
      /\ UNCHANGED <<dest, blocked, ret, rx_state, reopen, tx_pending, process, timer,
                     tcpVars, monoVars, resolving, histVars>>

\* The end of http_rx_location and of http_socket_deliver.
http_redirected ==
  /\ Executing("http_redirected")
  /\ IF ret = "ok" THEN Return ELSE Call(<<http_close(Top.a, ret)>>)
  /\ UNCHANGED <<dest, blocked, refs, ret, objVars>>

\* The request passes data on, but downloader_xfer_deliver cannot extend the
\* image: the downloader finishes, and then the delivery fails.  Either
\* xfer_deliver holds a reference.
DeliveryFails_unreferenced(t) ==
  LET h == Receiver(t)
      j == dest[<<h, "xfer">>]
  IN  /\ Delivers(t) /\ rx_state[h] = "rx" /\ ~try_again[h] /\ ~blocked[j]
      /\ stack' = <<downloader_finished(Owner(j), "failed"), http_close(h, "failed")>>
      /\ UNCHANGED <<dest, blocked, refs, ret, objVars>>
DeliveryFails(t) ==
  LET h == Receiver(t)
      j == dest[<<h, "xfer">>]
  IN  /\ Delivers(t) /\ rx_state[h] = "rx" /\ ~try_again[h] /\ ~blocked[j]
      /\ refs' = Get(Get(refs, h), Owner(j))
      /\ stack' = <<downloader_finished(Owner(j), "failed"), Put(Owner(j)),
                    http_close(h, "failed"), Put(h)>>
      /\ UNCHANGED <<dest, blocked, ret, objVars>>

\* http_retry, the callback of the retry timer, which holds the reference of
\* the timer until it returns.
http_retry(h) ==
  /\ Idle /\ h \in timer
  /\ timer' = timer \ {h}
  /\ reopen' = [reopen EXCEPT ![h] = FALSE]
  /\ reconnected' = (reconnected \/ (reopen[h] /\ blocked[<<h, "socket">>]))
  /\ ret' = "ok"
  /\ stack' = (IF reopen[h] THEN <<OpenNamed(<<h, "socket">>)>> ELSE << >>)
              \o <<Instr("http_retried", h, Null, "ok"), Put(h)>>
  /\ UNCHANGED <<dest, blocked, refs, rx_state, try_again, keepalive, tx_pending,
                 process, tcpVars, monoVars, resolving, why>>

\* A download is only ever here because it is to be tried again.
http_retried ==
  LET h == Top.a
  IN  /\ Executing("http_retried")
      /\ \/ /\ ret # "ok"
            /\ Call(<<http_close(h, ret)>>)
            /\ UNCHANGED <<refs, try_again, rx_state, tx_pending, process>>
         \/ /\ ret = "ok" /\ try_again[h]
            /\ try_again' = [try_again EXCEPT ![h] = FALSE]
            /\ tx_pending' = tx_pending \cup {h}
            /\ rx_state' = [rx_state EXCEPT ![h] = "rx"]
            /\ process' = process \cup {h}
            /\ refs' = IF h \in process THEN refs ELSE Get(refs, h)
            /\ Return
      /\ UNCHANGED <<dest, blocked, ret, keepalive, reopen, timer, tcpVars, monoVars,
                     resolving, histVars>>

\* The body of http_step: nothing is done without a pending request or window,
\* and otherwise it is sent or cannot be.  A socket that is gone or has been
\* closed at its other end has an unlimited window and takes nothing.
http_step(h) ==
  LET s == dest[<<h, "socket">>]
      gone == s \notin {i \in Intf : ~blocked[i]}
      connected == ~gone /\ Owner(s) \in syn_rcvd
  IN  \/ /\ h \notin tx_pending \/ ~gone
         /\ stack' = <<Put(h)>>
         /\ UNCHANGED tx_pending
      \/ /\ h \in tx_pending /\ connected
         /\ tx_pending' = tx_pending \ {h}
         /\ stack' = <<Put(h)>>
      \/ /\ h \in tx_pending /\ (gone \/ connected)
         /\ tx_pending' = tx_pending \ {h}
         /\ stack' = <<http_close(h, "failed"), Put(h)>>

\* step calls it: the reference of the run queue is kept until it returns.
HttpProcess(h) ==
  /\ Idle /\ h \in process
  /\ process' = process \ {h}
  /\ http_step(h)
  /\ UNCHANGED <<dest, blocked, refs, ret, rx_state, try_again, keepalive, reopen,
                 timer, tcpVars, monoVars, resolving, histVars>>

\* TCP reports that its window has changed.
TcpWindowChanged(t) ==
  /\ Delivers(t)
  /\ Receiver(t) \in tx_pending
  /\ refs' = Get(refs, Receiver(t))
  /\ http_step(Receiver(t))
  /\ UNCHANGED <<dest, blocked, ret, rx_state, try_again, keepalive, reopen, process,
                 timer, tcpVars, monoVars, resolving, histVars>>

\* A SYN arrives.
TcpConnects(t) ==
  /\ Idle /\ t \in tcp_conns
  /\ syn_rcvd' = syn_rcvd \cup {t}
  /\ UNCHANGED <<intfVars, ret, tcp_conns, stalled, httpVars, monoVars, resolving,
                 histVars>>

\* A FIN arrives, and tcp_close is called.
TcpFin(t) ==
  /\ Idle /\ t \in syn_rcvd
  /\ stalled' = stalled \ {t}
  /\ stack' = tcp_close(t, "ok")
  /\ UNCHANGED <<dest, blocked, refs, ret, tcp_conns, syn_rcvd, httpVars, monoVars,
                 resolving, histVars>>

\* A connection that has been closed comes to wait for its peer with no timer
\* running, in FIN_WAIT_2 or with data to send and no window, or waits no more.
TcpStalls(t) ==
  /\ Idle /\ t \in syn_rcvd /\ blocked[<<t, "xfer">>]
  /\ stalled' = IF t \in stalled THEN stalled \ {t} ELSE stalled \cup {t}
  /\ UNCHANGED <<intfVars, ret, tcp_conns, syn_rcvd, httpVars, monoVars, resolving,
                 histVars>>

\* A RST arrives or a timer, if one is running, gives up or ends the wait: the
\* state becomes TCP_CLOSED, and tcp_close is called.
TcpAborts(t) ==
  /\ Idle /\ t \in tcp_conns
  /\ syn_rcvd' = syn_rcvd \ {t}
  /\ stack' = tcp_close(t, "failed")
  /\ UNCHANGED <<dest, blocked, refs, ret, tcp_conns, stalled, httpVars, monoVars,
                 resolving, histVars>>
-----------------------------------------------------------------------------
Step ==
  \/ InterfaceStep /\ UNCHANGED <<ret, objVars>>
  \/ http_open \/ http_opened \/ named_open \/ named_opened \/ resolv \/ tcp_open
  \/ xfer_vredirect \/ method \/ DownloaderFinished \/ HttpClose \/ HttpDone
  \/ HttpStartTimer \/ TcpClosed \/ downloader_created \/ named_resolv_done
  \/ named_redirected \/ http_redirected \/ http_retried

Next ==
  /\ UNCHANGED setup
  /\ \/ Step
     \/ \E d \in Downloader : create_downloader(d)
     \/ job_finished
     \/ \E m \in Mux, rc \in {"ok", "failed"} : ResolverDone(m, rc)
     \/ \E t \in Tcp :
          \/ http_socket_deliver(t)
          \/ DeliveryFails(t)
          \/ TcpConnects(t)
          \/ TcpWindowChanged(t)
          \/ TcpFin(t)
          \/ TcpStalls(t)
          \/ TcpAborts(t)
     \/ \E h \in Http : http_retry(h) \/ HttpProcess(h)

Spec == Init /\ [][Next]_vars

\* The processor executes the stack.  A resolver gives up in the end, the
\* timer of a closed connection expires if it is running, the retry timer too,
\* and a queued process is called: between two events the run queue gets its
\* turn again, hence strong fairness.  Peers need not send anything.
FairSpec ==
  /\ Spec
  /\ WF_vars(UNCHANGED setup /\ Step)
  /\ \A m \in Mux : SF_vars(UNCHANGED setup /\ \E rc \in {"ok", "failed"} : ResolverDone(m, rc))
  /\ \A t \in Tcp : SF_vars(/\ UNCHANGED setup
                            /\ blocked[<<t, "xfer">>] /\ t \notin stalled
                            /\ TcpAborts(t))
  /\ SF_vars(UNCHANGED setup /\ \E h \in Http : http_retry(h))
  /\ SF_vars(UNCHANGED setup /\ \E h \in Http : HttpProcess(h))
-----------------------------------------------------------------------------
(***************************************************************************)
(* Properties                                                              *)
(***************************************************************************)
Status == {"ok", "failed", "cancelled"}

\* Type invariant of the plugs, the counts and the objects' own state.
TypeOK ==
  /\ dest \in [Intf -> Intf \cup {Null}]
  /\ blocked \in [Intf -> BOOLEAN]
  /\ refs \in [Object -> -1 .. Cardinality(Intf)]
  /\ ret \in Status
  /\ monojob_rc \in Status \cup {"none"} /\ waiting \in BOOLEAN
  /\ rx_state \in [Http -> {"rx", "idle", "dead"}]
  /\ try_again \in [Http -> BOOLEAN] /\ keepalive \in [Http -> BOOLEAN]
  /\ reopen \in [Http -> BOOLEAN]
  /\ tx_pending \subseteq Http /\ process \subseteq Http /\ timer \subseteq Http
  /\ resolving \subseteq Mux
  /\ syn_rcvd \subseteq tcp_conns /\ stalled \subseteq tcp_conns /\ tcp_conns \subseteq Tcp
  /\ why \in [Downloader -> Status \cup {"none"}] /\ reconnected \in BOOLEAN

\* What an instruction refers to.
ObjectOf(x) == IF x = Null THEN {} ELSE IF x \in Object THEN {x} ELSE {Owner(x)}

Mentions(k) ==
  ObjectOf(stack[k].a)
  \cup (IF stack[k].op = "xfer_vredirect" THEN {} ELSE ObjectOf(stack[k].b))

\* The instructions that end in dropping the reference to an object that its
\* creator or its caller holds.
Holds(k, o) ==
  /\ stack[k].a = o
  /\ stack[k].op \in {"ref_put", "http_opened", "named_opened", "create_downloader"}

\* The reference count of every object is the number of interfaces plugged
\* into it, plus the references held by the functions on the stack, by the
\* list of TCP connections, by the retry timer, the run queue and the resolver.
RefsExact ==
  \A o \in Object \ Static :
    refs[o] + 1 = Cardinality({i \in Intf : dest[i] # Null /\ Owner(dest[i]) = o})
                  + Cardinality({k \in DOMAIN stack : Holds(k, o)})
                  + (IF o \in tcp_conns \cup timer \cup resolving THEN 1 ELSE 0)
                  + (IF o \in process THEN 1 ELSE 0)

\* No function that is still to return, and no interface, refers to an object
\* whose memory has been freed, however the objects close each other.
NoUseAfterFree ==
  /\ \A k \in DOMAIN stack : \A o \in Mentions(k) : Live(o)
  /\ \A i \in Intf : dest[i] # Null => Live(Owner(dest[i]))

\* An object that is freed is not plugged into anything any more: the free
\* methods do not unplug, so that a plug left behind is a reference leaked.
FreedIsUnplugged ==
  \A i \in Intf : dest[i] # Null => Live(Owner(i))

\* The two ends of a link stop to talk together: between events, if an
\* interface is plugged into one that is not plugged into it, then one of the
\* two is blocked, and no operation goes one way only.
OneWayIsBlocked ==
  Idle => \A i \in Intf :
            dest[i] # Null /\ dest[dest[i]] # i => blocked[i] \/ blocked[dest[i]]

\* The two sides of a link do not call each other recursively for ever: the
\* depth of the stack is bounded, see the comment in intf_restart.
RecursionIsBounded == Len(stack) <= MaxStack

\* While the foreground job waits, it is attached to a downloader until the
\* status is known, and the status is the first reason for which the
\* downloader finished, not a later one that arrives as things are torn down.
JobStatusIsReason ==
  Idle /\ waiting =>
    IF monojob_rc = "none"
      THEN dest[monojob] # Null /\ why[Owner(dest[monojob])] = "none"
      ELSE dest[monojob] = Null /\ \E d \in Downloader : why[d] = monojob_rc

\* An interface that is plugged into one that is plugged into it and listens.
Attached(i) == dest[i] # Null /\ dest[dest[i]] = i /\ ~blocked[dest[i]]

\* "If an error is returned, the download will be aborted": between events, a
\* downloader that has not finished is attached to a request.
DownloadHasRequest ==
  Idle => \A d \in Downloader :
            Live(d) /\ why[d] = "none" => Attached(<<d, "xfer">>)

\* Between events, a request that has not been closed is attached to a socket,
\* or its retry timer or its process is about to find out that it is not, so
\* that somebody is left to deliver the data or to report an error.  The server
\* may have closed a connection that it had promised to keep.
RequestHasSocket ==
  Idle => \A h \in Http :
            Live(h) /\ ~blocked[<<h, "socket">>]
            => Attached(<<h, "socket">>) \/ h \in timer \cup process

\* http_close "prevents reconnection": between events, a request that has been
\* closed has no socket.
NoReconnection ==
  Idle => \A h \in Http :
            Live(h) /\ blocked[<<h, "xfer">>] => dest[<<h, "socket">>] = Null

\* The links between the objects are consistent however they close each other,
\* and, until an expired retry timer reopens the socket of a request that has
\* been closed, the counts are exact and nothing is left behind.
LinksConsistent ==
  /\ TypeOK
  /\ OneWayIsBlocked
  /\ ~reconnected => RefsExact /\ FreedIsUnplugged /\ NoReconnection

\* The calls on the C stack are safe: they do not refer to freed objects, and
\* there are not too many of them.
CallsAreSafe == NoUseAfterFree /\ RecursionIsBounded

\* A download always has somebody left to finish it, also while its request
\* waits to be tried again or finds that the server has closed the connection;
\* one whose redirection fails has not.
TransferSurvives ==
  /\ RequestHasSocket
  /\ setup.server # "redirects" => DownloadHasRequest

\* An object all of whose interfaces have been shut down is freed in the end,
\* whatever order things are torn down in and whatever the servers do, except
\* for a TCP connection that waits for its peer without a timer; unless a
\* closed request has reconnected.
EverythingIsFreed ==
  \A o \in Object \ Static :
    Live(o) /\ ~reconnected /\ (\A i \in Intf : Owner(i) = o => blocked[i])
    ~> ~Live(o) \/ o \in stalled \/ reconnected
=============================================================================
