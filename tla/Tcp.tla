-------------------------------- MODULE Tcp --------------------------------
(***************************************************************************)
(* One TCP connection: net/tcp.c and include/ipxe/tcp.h.                   *)
(*                                                                         *)
(* The connection is a record; every function of tcp.c that updates the    *)
(* connection is an operator from record to record, and every entry point  *)
(* (segment received, timer expired, process stepped, application call,    *)
(* memory pressure, shutdown) is an action that composes them in the order *)
(* of the code.  iPXE is single-threaded, so entry points do not overlap,  *)
(* with one exception: tcp_rx_data hands data to the application, and the  *)
(* application may send, close, or allocate memory (and so run             *)
(* tcp_discard) before it returns.  The variable "rx" records how far      *)
(* tcp_rx has got, so that those calls happen in the middle of it.         *)
(*                                                                         *)
(* The peer and the network are the environment: at any time the peer's    *)
(* SYN, any slice of its byte stream, its FIN or an RST may arrive, in any *)
(* order and any number of times, acknowledging anything this end has ever *)
(* transmitted and advertising any window.                                 *)
(***************************************************************************)
EXTENDS Integers, Sequences, FiniteSets

CONSTANTS
  SeqMod,           \* sequence numbers are taken modulo SeqMod (2^32 in C)
  Iss, PeerIss,     \* initial sequence numbers of this end and of the peer
  PathMtu,          \* TCP_PATH_MTU
  MaxWindow,        \* TCP_MAX_WINDOW_SIZE
  WinAlign,         \* the window is rounded down to a multiple of this
  AppWins,          \* values that bound the receive window: xfer_window() of
                    \* the application, and what the header can represent
  PeerLen,          \* number of bytes in the peer's stream
  PeerWins,         \* windows the peer advertises
  XmitResults,      \* what may become of a transmission, see tcp_xmit
  BareSyn,          \* when a SYN without ACK may arrive: "never", "crossed"
                    \* (after our SYN was transmitted), or "early" (before)
  MaxWrite,         \* bound: bytes the application sends
  MaxRxQueue,       \* bound: buffers held in the receive queue
  MaxTries          \* bound: expiries in a row before one is permanent

ASSUME ConstantsAssumption ==
  /\ SeqMod \in Nat \ {0} /\ PathMtu \in Nat \ {0}
  /\ MaxWindow \in Nat \ {0} /\ WinAlign \in Nat \ {0}
  /\ Iss \in 0 .. SeqMod - 1 /\ PeerIss \in 0 .. SeqMod - 1
  /\ AppWins \subseteq Nat /\ PeerWins \subseteq Nat
  /\ PeerLen \in Nat /\ MaxWrite \in Nat /\ MaxRxQueue \in Nat
  /\ MaxTries \in Nat
  /\ XmitResults \subseteq {"sent", "noiob", "txerr"}
  /\ BareSyn \in {"never", "crossed", "early"}

VARIABLES
  tcp,  \* the connection
  rx    \* progress of tcp_rx: the step and the buffer being processed

vars == <<tcp, rx>>

Flags == {"SYN", "ACK", "FIN", "RST"}

MinOf(a, b) == IF a < b THEN a ELSE b
MaxOf(a, b) == IF a < b THEN b ELSE a
-----------------------------------------------------------------------------
(***************************************************************************)
(* Sequence numbers and the state word                                     *)
(***************************************************************************)
\* The difference of two sequence numbers as an unsigned word.
SeqSub(a, b) == (a - b) % SeqMod

\* The difference as a signed word: negative if seq1 is before seq2.
tcp_cmp(seq1, seq2) ==
  LET d == SeqSub(seq1, seq2) IN IF d < SeqMod \div 2 THEN d ELSE d - SeqMod

tcp_in_window(seq, start, len) == SeqSub(seq, start) < len

\* TCP_FLAGS_SENDING
Sending(c) == c.sent \ c.acked

TCP_CAN_SEND_DATA(c) == "SYN" \in c.acked /\ "FIN" \notin c.sent

TCP_HAS_BEEN_ESTABLISHED(c) == "SYN" \in c.acked /\ "SYN" \in c.rcvd

TCP_CLOSED_GRACEFULLY(c) == "FIN" \in c.acked /\ "FIN" \in c.rcvd

InState(c, sent, acked, rcvd) ==
  c.sent = sent /\ c.acked = acked /\ c.rcvd = rcvd

TCP_SYN_SENT(c) == InState(c, {"SYN"}, {}, {})
TCP_SYN_RCVD(c) == InState(c, {"SYN", "ACK"}, {}, {"SYN"})
TCP_ESTABLISHED(c) == InState(c, {"SYN", "ACK"}, {"SYN"}, {"SYN"})
TCP_FIN_WAIT_1(c) == InState(c, {"SYN", "ACK", "FIN"}, {"SYN"}, {"SYN"})
TCP_FIN_WAIT_2(c) == InState(c, {"SYN", "ACK", "FIN"}, {"SYN", "FIN"}, {"SYN"})
TCP_CLOSING_OR_LAST_ACK(c) ==
  InState(c, {"SYN", "ACK", "FIN"}, {"SYN"}, {"SYN", "FIN"})
TCP_TIME_WAIT(c) ==
  InState(c, {"SYN", "ACK", "FIN"}, {"SYN", "FIN"}, {"SYN", "FIN"})
TCP_CLOSE_WAIT(c) == InState(c, {"SYN", "ACK"}, {"SYN"}, {"SYN", "FIN"})

\* tcp_state = TCP_CLOSED
Closed(c) == [c EXCEPT !.sent = {"RST"}, !.acked = {}, !.rcvd = {}]

(***************************************************************************)
(* The connection.  The transmit queue is kept by stream offsets: "tx" is  *)
(* the set of the offsets at which its buffers end, una the offset of its  *)
(* first byte and written the offset after its last byte.  "tries" counts  *)
(* the expiries in a row of the retransmission timer.  The last three      *)
(* fields are history: the number of sequence numbers ever transmitted,    *)
(* the offsets in the peer's stream of the bytes handed to the             *)
(* application, and how the application's interface was closed: "app" by   *)
(* itself, "eof" or "error" by tcp_close with or without success.          *)
(***************************************************************************)
NoConnection ==
  [alive |-> FALSE, opened |-> FALSE,
   sent |-> {"RST"}, acked |-> {}, rcvd |-> {},
   snd_seq |-> 0, snd_sent |-> 0, snd_win |-> 0,
   rcv_ack |-> 0, rcv_win |-> 0, max_rcv_win |-> 0,
   ack_pending |-> FALSE, xfer_closed |-> FALSE,
   tx |-> {}, una |-> 0, written |-> 0, rx_queue |-> << >>,
   process |-> FALSE, timer |-> FALSE, wait |-> FALSE, tries |-> 0,
   pending_flags |-> 0, pending_data |-> 0,
   transmitted |-> 0, delivered |-> << >>, xfer_rc |-> "none"]

Idle == [at |-> "idle", seq |-> 0, len |-> 0, fin |-> FALSE]

Init ==
  /\ tcp = NoConnection
  /\ rx = Idle

\* What a new connection looks like after tcp_open.
Opened ==
  [NoConnection EXCEPT
     !.alive = TRUE, !.opened = TRUE, !.sent = {"SYN"},
     !.snd_seq = Iss, !.max_rcv_win = MaxWindow,
     !.timer = TRUE, !.pending_flags = 1]

TxLen(c) == c.written - c.una

\* The number of sequence numbers that the peer has acknowledged.
Position(c) ==
  c.una + (IF "SYN" \in c.acked THEN 1 ELSE 0)
        + (IF "FIN" \in c.acked THEN 1 ELSE 0)
-----------------------------------------------------------------------------
(***************************************************************************)
(* Transmit path                                                           *)
(***************************************************************************)
tcp_xmit_win(c) ==
  IF TCP_CAN_SEND_DATA(c) THEN MinOf(c.snd_win, PathMtu) ELSE 0

\* The window offered to the application.
tcp_xfer_window(c) == IF c.tx # {} THEN 0 ELSE tcp_xmit_win(c)

SendingFlag(c) == Sending(c) \cap {"SYN", "FIN"} # {}

XmitLen(c) == MinOf(tcp_xmit_win(c), TxLen(c))

\* seq_len: the sequence space that tcp_xmit wants to transmit.
XmitSeqLen_data_only(c) == XmitLen(c)
XmitSeqLen(c) == XmitLen(c) + (IF SendingFlag(c) THEN 1 ELSE 0)

\* The window that can be offered, given the application's.
RcvLimit(c, app_win) ==
  LET limit == IF c.xfer_closed THEN c.max_rcv_win
               ELSE MinOf(c.max_rcv_win, app_win)
  IN  limit - (limit % WinAlign)

\* "Expand receive window if possible"
ExpandWindow_shrinking(c, app_win) == RcvLimit(c, app_win)
ExpandWindow(c, app_win) == MaxOf(c.rcv_win, RcvLimit(c, app_win))

\* What becomes of a transmission: the packet is sent, or no buffer can be
\* allocated for it, or the network layer refuses it.
XmitOutcome == [result : XmitResults, app_win : AppWins]

\* tcp_xmit and tcp_xmit_sack.  The retransmission timer is started before
\* the buffer is allocated, and the ACK stays pending if either step fails.
tcp_xmit_timer_after_alloc(c, o) ==
  IF c.timer \/ (XmitSeqLen(c) = 0 /\ ~c.ack_pending) \/ o.result = "noiob"
    THEN c
  ELSE [c EXCEPT !.snd_sent = XmitSeqLen(c), !.timer = XmitSeqLen(c) > 0,
                 !.rcv_win = ExpandWindow(c, o.app_win), !.ack_pending = FALSE,
                 !.transmitted = MaxOf(@, Position(c) + XmitSeqLen(c))]
tcp_xmit(c, o) ==
  LET seq_len  == XmitSeqLen(c)
      armed    == [c EXCEPT !.snd_sent = seq_len, !.timer = seq_len > 0]
      expanded == [armed EXCEPT !.rcv_win = ExpandWindow(c, o.app_win)]
  IN  IF c.timer THEN c
      ELSE IF (seq_len = 0 /\ ~c.ack_pending) \/ o.result = "noiob"
        THEN armed
      ELSE IF o.result = "txerr" THEN expanded
      ELSE [expanded EXCEPT
              !.ack_pending = FALSE,
              !.transmitted = MaxOf(@, Position(c) + seq_len)]
-----------------------------------------------------------------------------
(***************************************************************************)
(* Acknowledgements and closing                                            *)
(***************************************************************************)
\* pending_put
Put(n) == IF n > 0 THEN n - 1 ELSE 0

StopTimer(c) == [c EXCEPT !.timer = FALSE, !.tries = IF c.timer THEN 0 ELSE @]

SendFin_not_pending(c) ==
  IF c.tx = {} /\ c.xfer_closed /\ "FIN" \notin c.sent
    THEN [c EXCEPT !.sent = @ \cup {"FIN"}]
    ELSE c
SendFin(c) ==
  IF c.tx = {} /\ c.xfer_closed /\ "FIN" \notin c.sent
    THEN [c EXCEPT !.sent = @ \cup {"FIN"}, !.pending_flags = @ + 1]
    ELSE c

\* tcp_process_tx_queue with "remove": the first len bytes leave the queue.
Dequeue(c, len) ==
  LET una  == c.una + MinOf(len, TxLen(c))
      done == {e \in c.tx : e <= una}
  IN  [c EXCEPT !.una = una, !.tx = @ \ done,
                !.pending_data = @ - Cardinality(done)]

\* The bytes among ack_len acknowledged sequence numbers.
AckedBytes_with_flag(c, ack_len) == ack_len
AckedBytes(c, ack_len) == IF SendingFlag(c) THEN ack_len - 1 ELSE ack_len

AckInRange(c, ack) == SeqSub(ack, c.snd_seq) <= c.snd_sent

\* A duplicate ACK changes the window but does not stop the timer.
DuplicateAck(c, win) == [c EXCEPT !.snd_win = win]

tcp_rx_ack(c, ack, win) ==
  LET ack_len == SeqSub(ack, c.snd_seq)
      flags   == Sending(c) \cap {"SYN", "FIN"}
      stopped == StopTimer([c EXCEPT !.snd_win = win])
      acked   == [stopped EXCEPT
                    !.pending_flags = IF flags # {} THEN Put(@) ELSE @,
                    !.snd_seq = ack, !.snd_sent = 0,
                    !.acked = @ \cup flags]
  IN  IF ~AckInRange(c, ack) THEN c
      ELSE IF ack_len = 0 THEN DuplicateAck(c, win)
      ELSE SendFin(Dequeue(acked, AckedBytes(c, ack_len)))

\* The connection is removed from the list and freed.
Delete(c) ==
  [Closed(c) EXCEPT
     !.alive = FALSE, !.rx_queue = << >>, !.tx = {}, !.written = c.una,
     !.pending_data = @ - Cardinality(c.tx),
     !.pending_flags = Put(Put(@)),
     !.process = FALSE, !.timer = FALSE, !.wait = FALSE, !.tries = 0]

tcp_close(c, rc) ==
  LET shut    == [c EXCEPT !.xfer_closed = TRUE,
                           !.xfer_rc = IF c.xfer_closed THEN @ ELSE rc]
      pretend == IF "SYN" \in c.acked THEN shut
                 ELSE tcp_rx_ack(shut, (c.snd_seq + 1) % SeqMod, 0)
  IN  IF "SYN" \notin c.rcvd THEN Delete(shut) ELSE SendFin(pretend)
-----------------------------------------------------------------------------
(***************************************************************************)
(* Receive path                                                            *)
(***************************************************************************)
tcp_rx_seq(c, seq_len) ==
  [c EXCEPT !.rcv_ack = (@ + seq_len) % SeqMod,
            !.rcv_win = IF @ > seq_len THEN @ - seq_len ELSE 0,
            !.ack_pending = TRUE]

tcp_rx_syn(c, seq) ==
  LET synced == IF "SYN" \in c.rcvd THEN c ELSE [c EXCEPT !.rcv_ack = seq]
  IN  IF seq # synced.rcv_ack THEN c
      ELSE [tcp_rx_seq(synced, 1) EXCEPT !.sent = @ \cup {"ACK"},
                                         !.rcvd = @ \cup {"SYN"}]

\* Whether tcp_rx_rst accepts the RST.
RstAccepted(c, seq) ==
  IF "SYN" \in c.rcvd THEN tcp_in_window(seq, c.rcv_ack, c.rcv_win)
  ELSE "SYN" \in c.acked

tcp_rx_fin(c, seq) ==
  IF seq # c.rcv_ack THEN c
  ELSE LET taken == tcp_rx_seq(c, 1)
       IN  tcp_close([taken EXCEPT !.rcvd = @ \cup {"FIN"}], "eof")

Discarded(c, seq, seq_len) ==
  \/ "SYN" \notin c.rcvd
  \/ tcp_cmp(seq, (c.rcv_ack + c.rcv_win) % SeqMod) >= 0
  \/ tcp_cmp((seq + seq_len) % SeqMod, c.rcv_ack) < 0
  \/ seq_len = 0

\* The buffer goes before the first queued buffer that starts after it.
tcp_rx_enqueue(c, buf) ==
  LET q == c.rx_queue
      n == IF \E k \in DOMAIN q : tcp_cmp(buf.seq, q[k].seq) < 0
             THEN CHOOSE k \in DOMAIN q :
                    /\ tcp_cmp(buf.seq, q[k].seq) < 0
                    /\ \A j \in 1 .. k - 1 : tcp_cmp(buf.seq, q[j].seq) >= 0
             ELSE Len(q) + 1
  IN  IF Discarded(c, buf.seq, buf.len + (IF buf.fin THEN 1 ELSE 0)) THEN c
      ELSE [c EXCEPT !.rx_queue =
                SubSeq(q, 1, n - 1) \o <<buf>> \o SubSeq(q, n, Len(q))]

\* The bytes of a buffer that the application has not had before, as offsets
\* into the peer's stream.
NewBytes_not_pulled(c, buf) ==
  [i \in 1 .. buf.len - SeqSub(c.rcv_ack, buf.seq) |-> buf.off + i - 1]
NewBytes(c, buf) ==
  LET already == SeqSub(c.rcv_ack, buf.seq)
  IN  [i \in 1 .. buf.len - already |-> buf.off + already + i - 1]

\* tcp_rx_data up to the call of the application.
tcp_rx_data(c, buf) ==
  LET already == SeqSub(c.rcv_ack, buf.seq)
      taken   == tcp_rx_seq(c, buf.len - already)
  IN  IF already >= buf.len THEN c
      ELSE IF c.xfer_closed THEN taken
      ELSE [taken EXCEPT !.delivered = @ \o NewBytes(c, buf)]
-----------------------------------------------------------------------------
(***************************************************************************)
(* Segments a peer may send.  "pos" is the position of the segment in the  *)
(* peer's sequence space (0 is its SYN, 1 + i byte i, 1 + PeerLen its FIN) *)
(* and "ack" the number of our sequence numbers that it acknowledges.      *)
(***************************************************************************)
PeerSeq(pos) == (PeerIss + pos) % SeqMod

Segments(c) ==
  LET acks   == 1 .. c.transmitted
      slices == {p \in (0 .. PeerLen) \X (0 .. PeerLen) : p[1] <= p[2]}
      none == [syn |-> FALSE, rst |-> FALSE, fin |-> FALSE, pos |-> 0,
               len |-> 0, is_ack |-> FALSE, ack |-> 0, win |-> 0]
      with_ack(s) == {[s EXCEPT !.is_ack = TRUE, !.ack = a, !.win = w] :
                        a \in acks, w \in PeerWins}
      syn  == [none EXCEPT !.syn = TRUE]
      data(i, j) == [none EXCEPT !.pos = 1 + i, !.len = j - i]
      fin(i) == [none EXCEPT !.pos = 1 + i, !.len = PeerLen - i, !.fin = TRUE]
      rst(p) == [none EXCEPT !.pos = p, !.rst = TRUE]
  IN  with_ack(syn)
      \cup (IF BareSyn = "early" \/ (BareSyn = "crossed" /\ acks # {})
              THEN {syn} ELSE {})
      \cup UNION {with_ack(data(p[1], p[2])) : p \in slices}
      \cup UNION {with_ack(fin(i)) : i \in 0 .. PeerLen}
      \cup {rst(p) : p \in 0 .. PeerLen + 2}
      \cup UNION {with_ack(rst(p)) : p \in 0 .. PeerLen + 2}
-----------------------------------------------------------------------------
(***************************************************************************)
(* Entry points                                                            *)
(***************************************************************************)
\* iPXE executes no handler of this connection, so another may be entered.
Quiet == rx.at = "idle" /\ tcp.alive

\* The application may call the connection: from its own code, or while
\* data is being delivered to it.
AppMayCall == rx.at \in {"idle", "deliver"} /\ tcp.alive /\ ~tcp.xfer_closed

tcp_open ==
  /\ ~tcp.opened
  /\ tcp' = Opened
  /\ UNCHANGED rx

\* The application closes the connection.  If that deletes the connection,
\* the tcp_xmit that follows finds nothing to transmit.
tcp_xfer_close ==
  /\ AppMayCall
  /\ \E o \in XmitOutcome :
       LET c == tcp_close(tcp, "app")
       IN  tcp' = IF c.alive THEN tcp_xmit(c, o) ELSE c
  /\ UNCHANGED rx

\* The application sends a buffer of len bytes.
tcp_xfer_deliver(len) ==
  /\ AppMayCall
  /\ tcp.written + len <= MaxWrite
  /\ \E o \in XmitOutcome :
       tcp' = tcp_xmit([tcp EXCEPT !.written = @ + len,
                                   !.tx = @ \cup {tcp.written + len},
                                   !.pending_data = @ + 1], o)
  /\ UNCHANGED rx

\* The retransmission timer expires, for good or not.
tcp_expired_successfully(over) ==
  /\ Quiet
  /\ tcp.timer
  /\ over \/ tcp.tries < MaxTries
  /\ LET c == [tcp EXCEPT !.timer = FALSE, !.tries = @ + 1]
     IN  IF over THEN tcp' = tcp_close(Closed(c), "eof")
         ELSE \E o \in XmitOutcome : tcp' = tcp_xmit(c, o)
  /\ UNCHANGED rx
tcp_expired(over) ==
  /\ Quiet
  /\ tcp.timer
  /\ over \/ tcp.tries < MaxTries
  /\ LET c == [tcp EXCEPT !.timer = FALSE, !.tries = @ + 1]
     IN  IF over THEN tcp' = tcp_close(Closed(c), "error")
         ELSE \E o \in XmitOutcome : tcp' = tcp_xmit(c, o)
  /\ UNCHANGED rx

tcp_wait_expired ==
  /\ Quiet
  /\ tcp.wait
  /\ tcp' = tcp_close(Closed([tcp EXCEPT !.wait = FALSE]), "eof")
  /\ UNCHANGED rx

\* A step of the connection's process, which runs once each time it is added.
tcp_process_step ==
  /\ Quiet
  /\ tcp.process
  /\ \E o \in XmitOutcome : tcp' = tcp_xmit([tcp EXCEPT !.process = FALSE], o)
  /\ UNCHANGED rx

\* tcp_rx up to tcp_rx_enqueue.  An ACK that is out of range is answered with
\* an RST, and the rest of the segment ignored, until both SYNs are exchanged.
tcp_rx(s) ==
  LET ack == (Iss + s.ack) % SeqMod
      seq == PeerSeq(s.pos)
      c1  == IF s.is_ack THEN tcp_rx_ack(tcp, ack, s.win) ELSE tcp
      c2  == IF "SYN" \in c1.rcvd /\ seq # c1.rcv_ack
               THEN [c1 EXCEPT !.ack_pending = TRUE] ELSE c1
      c3  == IF s.syn THEN tcp_rx_syn(c2, seq) ELSE c2
      nxt == IF s.syn THEN PeerSeq(s.pos + 1) ELSE seq
      buf == [seq |-> nxt, len |-> s.len, off |-> s.pos - 1, fin |-> s.fin]
  IN  /\ Quiet
      /\ \/ /\ s.is_ack /\ ~AckInRange(tcp, ack)
            /\ ~TCP_HAS_BEEN_ESTABLISHED(tcp)
            /\ UNCHANGED vars
         \/ /\ s.is_ack => AckInRange(tcp, ack) \/ TCP_HAS_BEEN_ESTABLISHED(tcp)
            /\ IF s.rst /\ RstAccepted(c3, nxt)
                 THEN tcp' = tcp_close(Closed(c3), "error") /\ UNCHANGED rx
                 ELSE /\ tcp' = tcp_rx_enqueue(c3, buf)
                      /\ Len(tcp'.rx_queue) <= MaxRxQueue
                      /\ rx' = [Idle EXCEPT !.at = "queue", !.seq = nxt]

\* The first buffer of the receive queue, if it leaves no gap.
InOrder == /\ tcp.rx_queue # << >>
           /\ tcp_cmp(Head(tcp.rx_queue).seq, tcp.rcv_ack) <= 0

\* One turn of the loop of tcp_process_rx_queue, up to the call of the
\* application.
tcp_process_rx_queue ==
  /\ rx.at = "queue"
  /\ InOrder
  /\ tcp' = tcp_rx_data([tcp EXCEPT !.rx_queue = Tail(@)], Head(tcp.rx_queue))
  /\ LET buf == Head(tcp.rx_queue)
     IN  rx' = [at |-> IF tcp'.delivered = tcp.delivered THEN "fin"
                       ELSE "deliver",
                seq |-> buf.seq, len |-> buf.len, fin |-> buf.fin]

\* The rest of that turn, after the application has returned if it was
\* called: the FIN, if there is one.
tcp_process_rx_queue_fin ==
  /\ rx.at \in {"deliver", "fin"}
  /\ tcp' = IF rx.fin THEN tcp_rx_fin(tcp, (rx.seq + rx.len) % SeqMod) ELSE tcp
  /\ rx' = [Idle EXCEPT !.at = "queue"]

\* tcp_rx after the receive queue has been processed.
tcp_rx_end_acks_nothing ==
  /\ rx.at = "queue"
  /\ ~InOrder
  /\ \E o \in XmitOutcome :
       LET c == IF tcp.rx_queue = << >>
                  THEN [tcp EXCEPT !.process = @ \/ Sending(tcp) # {"ACK"}]
                  ELSE tcp_xmit(tcp, o)
       IN  tcp' = [c EXCEPT !.wait = @ \/ TCP_CLOSED_GRACEFULLY(c)]
  /\ rx' = Idle
tcp_rx_end ==
  /\ rx.at = "queue"
  /\ ~InOrder
  /\ \E o \in XmitOutcome :
       LET c == IF tcp.rx_queue = << >> THEN [tcp EXCEPT !.process = TRUE]
                ELSE tcp_xmit(tcp, o)
       IN  tcp' = [c EXCEPT !.wait = @ \/ TCP_CLOSED_GRACEFULLY(c)]
  /\ rx' = Idle

\* An allocation finds no memory and drops the last buffer of the receive
\* queue.  While tcp_rx runs, only the application allocates.
tcp_discard ==
  /\ AppMayCall \/ Quiet
  /\ tcp.rx_queue # << >>
  /\ LET q   == tcp.rx_queue
         max == SeqSub(q[Len(q)].seq, tcp.rcv_ack)
     IN  tcp' = [tcp EXCEPT !.max_rcv_win = MinOf(@, max),
                            !.rx_queue = SubSeq(q, 1, Len(q) - 1)]
  /\ UNCHANGED rx

tcp_shutdown ==
  /\ Quiet
  /\ tcp' = tcp_close(Closed(tcp), "error")
  /\ UNCHANGED rx

Next ==
  \/ tcp_open
  \/ tcp_xfer_close
  \/ \E len \in 1 .. MaxWrite : tcp_xfer_deliver(len)
  \/ \E over \in BOOLEAN : tcp_expired(over)
  \/ tcp_wait_expired
  \/ tcp_process_step
  \/ \E s \in Segments(tcp) : tcp_rx(s)
  \/ tcp_process_rx_queue
  \/ tcp_process_rx_queue_fin
  \/ tcp_rx_end
  \/ tcp_discard
  \/ tcp_shutdown

Spec == Init /\ [][Next]_vars

\* A handler that has been entered runs to its end.  Between handlers the
\* run queue lets the timer list and the connection's process have their
\* turn, however many segments arrive.  The shutdown timer is restarted by
\* every segment that arrives in TIME_WAIT, so its fairness also assumes that
\* the peer is silent for 2 MSL at some time.  Nothing else is assumed of the
\* peer, the network or the application.
FairSpec ==
  /\ Spec
  /\ WF_vars(\/ tcp_process_rx_queue \/ tcp_process_rx_queue_fin
             \/ tcp_rx_end)
  /\ SF_vars(\E over \in BOOLEAN : tcp_expired(over))
  /\ SF_vars(tcp_process_step)
  /\ SF_vars(tcp_wait_expired)
-----------------------------------------------------------------------------
(***************************************************************************)
(* Properties                                                              *)
(***************************************************************************)
Buffers == [seq : 0 .. SeqMod - 1, len : Nat, off : Int, fin : BOOLEAN]

\* Type invariant of the connection.
TypeOK ==
  /\ tcp \in [alive : BOOLEAN, opened : BOOLEAN,
              sent : SUBSET Flags, acked : SUBSET {"SYN", "FIN"},
              rcvd : SUBSET {"SYN", "FIN"},
              snd_seq : 0 .. SeqMod - 1, snd_sent : Nat, snd_win : Nat,
              rcv_ack : 0 .. SeqMod - 1, rcv_win : Nat, max_rcv_win : Nat,
              ack_pending : BOOLEAN, xfer_closed : BOOLEAN,
              tx : SUBSET Nat, una : Nat, written : Nat,
              rx_queue : Seq(Buffers),
              process : BOOLEAN, timer : BOOLEAN, wait : BOOLEAN, tries : Nat,
              pending_flags : Nat, pending_data : Int,
              transmitted : Nat, delivered : Seq(Int),
              xfer_rc : {"none", "app", "eof", "error"}]
  /\ rx \in [at : {"idle", "queue", "deliver", "fin"}, seq : 0 .. SeqMod - 1,
             len : Nat, fin : BOOLEAN]

\* The application receives the peer's byte stream: each byte once, in order,
\* with no gap, however segments are lost, duplicated, reordered, overlap or
\* are discarded from the receive queue, and wherever sequence numbers wrap.
StreamInOrder ==
  \A i \in DOMAIN tcp.delivered : tcp.delivered[i] = i - 1

\* What has been received in sequence is what has been delivered, until the
\* application closes its side.
ReceivedIsDelivered ==
  tcp.alive /\ "SYN" \in tcp.rcvd /\ ~tcp.xfer_closed =>
    tcp.rcv_ack = PeerSeq(1 + Len(tcp.delivered))

\* Retransmissions carry the same bytes under the same sequence numbers: the
\* sequence number of the first unacknowledged byte is determined by the
\* number of bytes that have left the transmit queue and the flags that have
\* been acknowledged.
SeqMatchesQueue ==
  tcp.alive => tcp.snd_seq = (Iss + Position(tcp)) % SeqMod

\* Pending operations are exact: one for a SYN or FIN that is not yet
\* acknowledged, one for every buffer of the transmit queue.  A connection
\* that is deleted leaves none behind for the "sync" command to wait for.
PendingExact ==
  /\ tcp.pending_flags = Cardinality(Sending(tcp) \cap {"SYN", "FIN"})
  /\ tcp.pending_data = Cardinality(tcp.tx)

\* A FIN is sent only after the application has closed and everything it sent
\* has been acknowledged, so data never follows a FIN in sequence space.
FinAfterData ==
  "FIN" \in tcp.sent => tcp.tx = {} /\ tcp.una = tcp.written /\ tcp.xfer_closed

\* The assertion at tcp.c:641: SYN and FIN are never sent together.
SynFinAssertion == ~({"SYN", "FIN"} \subseteq Sending(tcp))

\* The assertion at tcp.c:788: the states in which the retransmission timer
\* may expire.
ExpiryAssertion ==
  Quiet /\ tcp.timer =>
    \/ TCP_SYN_SENT(tcp) \/ TCP_SYN_RCVD(tcp) \/ TCP_ESTABLISHED(tcp)
    \/ TCP_FIN_WAIT_1(tcp) \/ TCP_CLOSE_WAIT(tcp)
    \/ TCP_CLOSING_OR_LAST_ACK(tcp)

\* The assertion at tcp.c:818: the shutdown timer runs only in TIME_WAIT.
WaitAssertion == tcp.wait => TCP_TIME_WAIT(tcp)

\* Something waits to be sent or acknowledged.
Outstanding(c) == c.tx # {} \/ SendingFlag(c)

\* No lost wake-up: between entry points, a connection that has data, SYN or
\* FIN outstanding has its retransmission timer running or its process
\* scheduled.  The one exception is a peer that has closed its window: there
\* is no persist timer, and the connection waits for a window update.
NoSilentStall ==
  Quiet /\ Outstanding(tcp) =>
    tcp.timer \/ tcp.process \/ (TCP_CAN_SEND_DATA(tcp) /\ tcp.snd_win = 0)

\* Between entry points, an acknowledgement that is owed to the peer will be
\* sent: by the connection's process, or with the next retransmission.  This
\* is of a connection whose packets can always be allocated and sent: an
\* acknowledgement that fails is not tried again by itself.
AckNotForgotten ==
  Quiet /\ tcp.ack_pending => tcp.timer \/ tcp.process

\* The comment on snd_sent in struct tcp_connection: it is "equivalent to
\* (SND.NXT-SND.UNA)", the number of sequence numbers that have been
\* transmitted and not acknowledged.
SndSentIsUnacknowledged ==
  Quiet /\ ~tcp.process /\ ~SendingFlag(tcp) =>
    Position(tcp) + tcp.snd_sent = tcp.transmitted

\* A deleted connection is inert: nothing will run on its behalf.
DeletedIsInert ==
  ~tcp.alive => ~tcp.timer /\ ~tcp.wait /\ ~tcp.process /\ rx.at = "idle"

\* What tcp_rx keeps true of the received stream, and tcp_close of the
\* connection, at every point where the application may be called.
StreamConsistent ==
  TypeOK /\ StreamInOrder /\ ReceivedIsDelivered /\ DeletedIsInert


\* The right edge of the receive window never moves back, whatever happens to
\* the application's window and to the maximum window of tcp_discard.
WindowNeverShrinks ==
  [][tcp.alive /\ tcp'.alive /\ "SYN" \in tcp.rcvd =>
       tcp_cmp(tcp'.rcv_ack + tcp'.rcv_win, tcp.rcv_ack + tcp.rcv_win) >= 0]_vars

\* Every SYN and FIN is eventually acknowledged or given up: the pending
\* operation it holds is released although the peer may never answer, or
\* may answer with segments that acknowledge nothing.
FlagsResolve == SendingFlag(tcp) ~> ~SendingFlag(tcp)

\* Data does not stay in the transmit queue for ever, unless the peer keeps
\* its window closed.
DataResolves == tcp.tx # {} ~> (tcp.tx = {} \/ tcp.snd_win = 0)

\* A connection that has been closed in both directions is deleted.
TimeWaitEnds == TCP_TIME_WAIT(tcp) ~> ~tcp.alive

\* What the connection has started comes to an end although segments of either
\* side are lost for ever: SYN and FIN are acknowledged or given up, data too
\* unless the peer keeps its window closed, and TIME_WAIT ends if the peer is
\* silent for two MSLs in the end.  FIN_WAIT_2, which has no timer, may last for
\* ever.
ConnectionResolves == FlagsResolve /\ DataResolves /\ TimeWaitEnds
-----------------------------------------------------------------------------
(***************************************************************************)
(* What the application sees of the connection is a byte stream.           *)
(***************************************************************************)
Stream == INSTANCE ByteStream WITH
  Length <- PeerLen,
  received <- tcp.delivered,
  status <- IF ~tcp.opened THEN "new"
            ELSE IF ~tcp.xfer_closed THEN "open" ELSE tcp.xfer_rc

\* The connection implements the byte stream that its application relies on:
\* bytes arrive in order, none after the end, and the end is reported as
\* success only after the last byte.
ImplementsByteStream == Stream!Spec
=============================================================================
