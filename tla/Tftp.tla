-------------------------------- MODULE Tftp --------------------------------
(***************************************************************************)
(* One request of the TFTP client, net/udp/tftp.c, with its block bitmap,  *)
(* core/bitmap.c: plain TFTP, TFTP with the multicast option ("tftm"), and *)
(* MTFTP with its fallback to plain TFTP.                                  *)
(*                                                                         *)
(* Every request that reaches the server starts a session with a port (a   *)
(* TID) of its own, which answers the socket that sent the request.  The   *)
(* network loses, repeats and delays datagrams; what a session has sent    *)
(* may still arrive after it has sent the next block.  Lengths and offsets *)
(* are in units smaller than a block, and block numbers wrap on the wire.  *)
(***************************************************************************)
EXTENDS Naturals, Sequences, FiniteSets

CONSTANTS
  Downloads,     \* pairs <<mode, length of the file>>
  DefaultBlk,    \* TFTP_DEFAULT_BLKSIZE
  OptionBlk,     \* the block size that a server with options agrees to
  WireMod,       \* 2^16: one more than the largest block number on the wire
  MTFTP_MAX_TIMEOUTS,
  MaxTries,      \* expiries until the retry timer fails
  MaxSessions,   \* requests that reach the server
  MaxRx          \* datagrams that the server's sessions get through

Modes == {"tftp", "tftm", "mtftp"}

ASSUME TftpAssumption ==
  /\ Downloads \subseteq Modes \X Nat
  /\ {DefaultBlk, OptionBlk, WireMod, MaxTries} \subseteq Nat \ {0}
  /\ {MTFTP_MAX_TIMEOUTS, MaxSessions, MaxRx} \subseteq Nat

VARIABLES
  job,       \* the download: <<mode, length of the file>>
  flags,     \* the TFTP_FL_ flags
  blksize, tsize, filesize, mtftp_timeouts,
  peer,      \* the session whose datagrams are accepted, 0 if there is none yet
  bitmap,    \* [length, set, first_gap]
  socket,    \* the number of the socket: each has a port of its own
  link,      \* "resolving" the server's name, "open", or "none": it has no address
  mc_socket, \* whether the multicast socket is open
  timer,     \* whether the retransmission timer is running
  tries,     \* how far it has backed off
  status,    \* "open", "ok", "failed" or "crashed"
  sessions,  \* the server: a sequence of [socket, blksize, oack, mc, sent]
  rx,        \* the number of datagrams received
  got,       \* history: the units of the file that have been delivered
  misplaced, \* history: something was delivered at a wrong offset
  repeated,  \* history: a block has been received twice
  discarded  \* history: the bitmap was discarded when the file size was known

fileVars == <<blksize, tsize, filesize, bitmap>>
history == <<got, misplaced, repeated, discarded>>
vars == <<job, flags, fileVars, mtftp_timeouts, peer, socket, link, mc_socket, timer, tries, status,
          sessions, rx, history>>

Mode == job[1]
FileLen == job[2]

NoBits == [length |-> 0, set |-> {}, first_gap |-> 0]

\* tftp_open, tftm_open and mtftp_open
OpenFlags(mode) ==
  CASE mode = "tftp"  -> {"RRQ_SIZES"}
    [] mode = "tftm"  -> {"RRQ_SIZES", "RRQ_MULTICAST"}
    [] mode = "mtftp" -> {"MTFTP_RECOVERY"}

Init ==
  /\ job \in Downloads
  /\ flags = OpenFlags(Mode)
  /\ blksize = DefaultBlk /\ tsize = 0 /\ filesize = 0 /\ mtftp_timeouts = 0
  /\ peer = 0 /\ socket = 1 /\ link = "resolving" /\ bitmap = NoBits
  /\ mc_socket = (Mode = "mtftp")
  /\ timer = TRUE /\ tries = 0 /\ status = "open"
  /\ sessions = << >> /\ rx = 0
  /\ got = {} /\ misplaced = FALSE /\ repeated = FALSE /\ discarded = FALSE
-----------------------------------------------------------------------------
\* The server.  It may or may not know options; a file ends with a block that
\* is not full.
LastBlock(size) == FileLen \div size + 1

Sessions(f) ==
  {[socket |-> socket',
    blksize |-> IF options THEN OptionBlk ELSE DefaultBlk,
    oack |-> options,
    mc |-> "MTFTP_RECOVERY" \in f \/ (options /\ "RRQ_MULTICAST" \in f),
    sent |-> IF options THEN 0 ELSE 1]
   : options \in IF "RRQ_SIZES" \in f THEN BOOLEAN ELSE {FALSE}}

\* What tftp_send_rrq can lead to.
Requested(f) ==
  {sessions} \cup IF Len(sessions) < MaxSessions
                    THEN {Append(sessions, s) : s \in Sessions(f)} ELSE {}

\* What tftp_send_ack to a session can lead to.
Acknowledged(t, bits) ==
  LET s == sessions[t]
  IN  {sessions} \cup
      IF bits.first_gap % WireMod = s.sent % WireMod /\ s.sent < LastBlock(s.blksize)
        THEN {[sessions EXCEPT ![t].sent = @ + 1]} ELSE {}

\* The datagram of tftp_send_packet, if there is one, is lost or reaches the
\* server.
Transmit(f, p, bits) ==
  sessions' \in CASE link' = "open" /\ p = 0 -> Requested(f)
                  [] link' = "open" /\ p # 0 /\ "SEND_ACK" \in f -> Acknowledged(p, bits)
                  [] OTHER -> {sessions}

\* tftp_send_packet.  While the name is being resolved the window is zero, and the
\* timer is started without delay, which forgets how far it had backed off; it
\* otherwise backs off as far as backedoff allows.
tftp_send_packet(f, p, bits, backedoff) ==
  /\ timer' = TRUE
  /\ tries' \in IF link' = "resolving" THEN {0} ELSE backedoff
  /\ Transmit(f, p, bits)

Cap(n) == IF n > MaxTries THEN MaxTries ELSE n

\* stop_timer of a running timer: smoothing brings the timeout down, or up, by
\* less than an expiry does, if the answer took long.
Smoothed == 0 .. Cap(tries + 1)

tftp_done(rc) ==
  /\ status' = rc
  /\ timer' = FALSE /\ mc_socket' = FALSE
  /\ UNCHANGED tries
-----------------------------------------------------------------------------
bitmap_resize(bits, length) == [bits EXCEPT !.length = length]

\* bitmap_set.  A bitmap without bits has no memory either: the write through
\* NULL stops the machine or is lost.
WriteFaults(bits) == IF bits.length = 0 THEN BOOLEAN ELSE {FALSE}

bitmap_set(bits, b) ==
  LET set == IF bits.length = 0 THEN bits.set ELSE bits.set \cup {b}
  IN  [bits EXCEPT
         !.set = set,
         !.first_gap = CHOOSE g \in @ .. bits.length :
                         /\ g \notin set \/ g = bits.length
                         /\ (@ .. (g - 1)) \subseteq set]

bitmap_full(bits) == bits.first_gap = bits.length

\* tftp_presize: the file size and the bitmap.
Presized_whole_blocks(fs, bits, size, min) ==
  IF min <= fs THEN [filesize |-> fs, bitmap |-> bits]
  ELSE [filesize |-> min, bitmap |-> bitmap_resize(bits, (min + size - 1) \div size)]
Presized(fs, bits, size, min) ==
  IF min <= fs THEN [filesize |-> fs, bitmap |-> bits]
  ELSE [filesize |-> min, bitmap |-> bitmap_resize(bits, min \div size + 1)]

\* The block that a number on the wire stands for.
BlockBase == ((bitmap.first_gap + 1) \div WireMod) * WireMod

Length(k, size) == IF k < LastBlock(size) THEN size ELSE FileLen % size

Units(first, len) == {u \in 0 .. FileLen : first <= u /\ u < first + len}

\* The ACK of a block that has been marked, and the end of the last one's.
DataTaken(t, f, bits) ==
  IF bitmap_full(bits)
    THEN Transmit(f, t, bits) /\ tftp_done("ok")
    ELSE tftp_send_packet(f, t, bits, Smoothed) /\ UNCHANGED <<status, mc_socket>>

\* tftp_rx_data of block k of the file, as session s divides it.
tftp_rx_data(t, k, f) ==
  LET s == sessions[t]
      number == k % WireMod
      block == BlockBase + number - 1
      offset == block * blksize
      len == Length(k, s.blksize)
      right == offset = (k - 1) * s.blksize
      sized == Presized(filesize, bitmap, blksize, offset + len)
      bits == bitmap_set(sized.bitmap, block)
  IN  IF (number = 0 /\ BlockBase = 0) \/ len > blksize
      THEN tftp_done("failed") /\ UNCHANGED <<fileVars, sessions, history>>
      ELSE \/ \E crash \in WriteFaults(sized.bitmap) :
                /\ got' = IF right THEN got \cup Units(offset, len) ELSE got
                /\ misplaced' = (misplaced \/ ~right)
                /\ repeated' = (repeated \/ Units((k - 1) * s.blksize, len) \cap got # {})
                /\ filesize' = sized.filesize
                /\ IF crash
                     THEN tftp_done("crashed") /\ UNCHANGED <<bitmap, sessions>>
                     ELSE bitmap' = bits /\ DataTaken(t, f, bits)
                /\ UNCHANGED <<blksize, tsize, discarded>>
           \/ \* the recipient refuses the data, or there is no memory
              tftp_done("failed") /\ UNCHANGED <<fileVars, sessions, history>>

\* tftp_rx_oack: the block size, the file size if the server tells it, and the
\* multicast address and whether this is the master client.
tftp_rx_oack(t, f) ==
  \/ \E ts \in {0, FileLen} : \E master \in IF sessions[t].mc THEN BOOLEAN ELSE {TRUE} :
       LET size == sessions[t].blksize
           told == IF ts = 0 THEN tsize ELSE ts
           sized == Presized(filesize, bitmap, size, told)
           f2 == IF master THEN f ELSE f \ {"SEND_ACK"}
       IN  /\ flags' = f2
           /\ blksize' = size /\ tsize' = told
           /\ filesize' = sized.filesize /\ bitmap' = sized.bitmap
           /\ mc_socket' = (mc_socket \/ sessions[t].mc)
           /\ tftp_send_packet(f2, t, sized.bitmap, Smoothed)
           /\ UNCHANGED <<status, history>>
  \/ /\ tftp_done("failed") \* an option is malformed, or there is no memory
     /\ flags' = f
     /\ UNCHANGED <<fileVars, sessions, history>>

\* Datagrams that session t may deliver: blocks that it has sent lately, or any
\* block by multicast.
Unicast(t) ==
  LET s == sessions[t]
  IN  IF s.mc /\ s.oack THEN {} ELSE {k \in 1 .. s.sent : k + 1 >= s.sent}

\* tftp_rx accepts the datagrams of one session: that of the first response.
Accepts_anyone(t) == t \in DOMAIN sessions
Accepts(t) == peer \in {0, t}

Receives(t) ==
  /\ status = "open" /\ rx < MaxRx
  /\ rx' = rx + 1
  /\ UNCHANGED <<job, socket, link, mtftp_timeouts>>

tftp_socket_deliver(t) ==
  LET f == flags \cup {"SEND_ACK"}
  IN  /\ Receives(t) /\ sessions[t].socket = socket /\ link = "open"
      /\ Accepts(t) /\ peer' = t
      /\ \/ sessions[t].oack /\ tftp_rx_oack(t, f)
         \/ \E k \in Unicast(t) : tftp_rx_data(t, k, f) /\ flags' = f
         \/ /\ tftp_done("failed") \* tftp_rx_error
            /\ flags' = f
            /\ UNCHANGED <<fileVars, sessions, history>>

tftp_mc_deliver(t) ==
  /\ Receives(t) /\ Accepts(t) /\ peer' = t
  /\ mc_socket /\ sessions[t].mc
  /\ \E k \in 1 .. LastBlock(sessions[t].blksize) : tftp_rx_data(t, k, flags)
  /\ UNCHANGED flags

\* A datagram of another session is dropped, but if it comes by unicast ACKs
\* are sent from then on.
tftp_rx_wrong_source(t) ==
  /\ Receives(t) /\ sessions[t].socket = socket /\ link = "open" /\ ~Accepts(t)
  /\ flags' = flags \cup {"SEND_ACK"}
  /\ UNCHANGED <<fileVars, peer, mc_socket, timer, tries, status, sessions, history>>

\* tftp_timer_expired.  tftp_reopen, in MTFTP, resets the peer; after several
\* timeouts without a response the request falls back to plain TFTP.
\* The name is resolved once more for every socket.
tftp_reopen(f) ==
  /\ flags' = f \ {"SEND_ACK"}
  /\ peer' = 0 /\ socket' = socket + 1 /\ link' = "resolving"
  /\ tftp_send_packet(f \ {"SEND_ACK"}, 0, bitmap, {0})

MtftpRetry ==
  /\ "MTFTP_RECOVERY" \in flags
  /\ \/ peer # 0 /\ tftp_reopen(flags) /\ UNCHANGED mtftp_timeouts
     \/ /\ peer = 0 /\ mtftp_timeouts < MTFTP_MAX_TIMEOUTS
        /\ mtftp_timeouts' = mtftp_timeouts + 1
        /\ UNCHANGED <<flags, peer, socket, link>>
        /\ tftp_send_packet(flags, 0, bitmap, {Cap(tries + 1)})
  /\ UNCHANGED <<fileVars, mc_socket, status, history>>

MtftpFallback ==
  /\ "MTFTP_RECOVERY" \in flags /\ peer = 0 /\ mtftp_timeouts = MTFTP_MAX_TIMEOUTS
  /\ mtftp_timeouts' = mtftp_timeouts + 1
  /\ mc_socket' = FALSE
  /\ bitmap' = NoBits
  /\ discarded' = (discarded \/ filesize > 0)
  /\ tftp_reopen({"RRQ_SIZES"})
  /\ UNCHANGED <<blksize, tsize, filesize, status, got, misplaced, repeated>>

TftpRetry ==
  /\ "MTFTP_RECOVERY" \notin flags /\ tries + 1 < MaxTries
  /\ UNCHANGED <<socket, link>>
  /\ tftp_send_packet(flags, peer, bitmap, {tries + 1})
  /\ UNCHANGED <<flags, peer, mtftp_timeouts, fileVars, mc_socket, status, history>>

\* The timer has failed, or a socket could not be opened.
GiveUp ==
  /\ \/ "MTFTP_RECOVERY" \notin flags /\ tries + 1 >= MaxTries
     \/ "MTFTP_RECOVERY" \in flags /\ (peer # 0 \/ mtftp_timeouts = MTFTP_MAX_TIMEOUTS)
  /\ tftp_done("failed")
  /\ UNCHANGED <<flags, peer, socket, link, mtftp_timeouts, fileVars, sessions, history>>

tftp_timer_expired_ignores_fail ==
  /\ status = "open" /\ timer
  /\ \/ MtftpRetry \/ MtftpFallback \/ TftpRetry
     \/ /\ "MTFTP_RECOVERY" \notin flags /\ tries + 1 >= MaxTries
        /\ UNCHANGED <<flags, peer, socket, link, mtftp_timeouts, fileVars, mc_socket, status,
                       history>>
        /\ tftp_send_packet(flags, peer, bitmap, {tries})
  /\ UNCHANGED <<job, rx>>
tftp_timer_expired ==
  /\ status = "open" /\ timer
  /\ MtftpRetry \/ MtftpFallback \/ TftpRetry \/ GiveUp
  /\ UNCHANGED <<job, rx>>

\* The resolver finishes: named_resolv_done puts the socket in the place of the
\* named socket, or closing that leaves the request with a socket to nowhere,
\* whose window is not zero.
ResolverDone ==
  /\ status = "open" /\ link = "resolving"
  /\ link' \in {"open", "none"}
  /\ UNCHANGED <<job, flags, fileVars, mtftp_timeouts, peer, socket, mc_socket, timer, tries,
                 status, sessions, rx, history>>

\* The parent closes the request.
tftp_close ==
  /\ status = "open"
  /\ tftp_done("failed")
  /\ UNCHANGED <<job, flags, fileVars, mtftp_timeouts, peer, socket, link, sessions, rx,
                 history>>

Finished == status # "open" /\ UNCHANGED vars

Next ==
  \/ \E t \in DOMAIN sessions :
       tftp_socket_deliver(t) \/ tftp_mc_deliver(t) \/ tftp_rx_wrong_source(t)
  \/ tftp_timer_expired \/ ResolverDone \/ tftp_close \/ Finished

Spec == Init /\ [][Next]_vars

\* Timers expire: retry_step polls them for ever.  Resolvers finish, or the
\* request waits for ever: its timer never backs off before that.
FairSpec == Spec /\ WF_vars(tftp_timer_expired) /\ WF_vars(ResolverDone)
-----------------------------------------------------------------------------
TypeOK ==
  /\ flags \subseteq {"SEND_ACK", "RRQ_SIZES", "RRQ_MULTICAST", "MTFTP_RECOVERY"}
  /\ peer \in 0 .. Len(sessions)
  /\ bitmap.first_gap \in 0 .. bitmap.length /\ bitmap.set \subseteq 0 .. (bitmap.length - 1)
  /\ mtftp_timeouts \in 0 .. MTFTP_MAX_TIMEOUTS + 1
  /\ status \in {"open", "ok", "failed", "crashed"}
  /\ link \in {"resolving", "open", "none"}
  /\ timer = (status = "open")

WholeFile == got = 0 .. (FileLen - 1) /\ filesize = FileLen

\* "If all blocks have been received, finish": a request that ends with success
\* has delivered every part of the file and nothing else.
SuccessIsWholeFile == status = "ok" => WholeFile

\* The same, as long as nothing has been delivered at a wrong place and no
\* fallback from MTFTP has discarded the bitmap of a file whose size had become
\* known.
SuccessIsWhole == status = "ok" /\ ~discarded /\ ~misplaced => WholeFile

\* A block that is marked in the bitmap has been delivered, so that an ACK, which
\* carries the first gap, never acknowledges data that the recipient lacks.
MarkedIsDelivered ==
  ~misplaced => \A b \in bitmap.set : Units(b * blksize, blksize) \cap 0 .. (FileLen - 1) \subseteq got

\* The server has multicast a file whose block numbers wrap: a client that joins
\* late, or misses blocks, takes the first block after the wrap for block 1.
Wrapping ==
  \E t \in DOMAIN sessions : sessions[t].mc /\ LastBlock(sessions[t].blksize) >= WireMod

\* Data is delivered at its place in the file, whichever of several sessions it
\* comes from, and on both sides of the wrap of the block number as long as no
\* block arrives twice and the file is not multicast.
DataInPlace == misplaced => repeated \/ Wrapping

\* The bitmap, the data at the recipient and the place of the data agree.
BlocksConsistent == TypeOK /\ MarkedIsDelivered /\ DataInPlace

\* What is recorded as the known minimum size never exceeds the file.
FilesizeIsMinimum == filesize <= FileLen

\* No bit is set in a bitmap that has no memory.
NoCrash == status # "crashed"

\* With finitely many datagrams from the server every request ends, once its
\* resolvers do: also while its name is being resolved, when the timer runs
\* without delay and never fails.
TftpEnds == <>(status # "open")
=============================================================================
