------------------------------- MODULE Emulab -------------------------------
(***************************************************************************)
(* The Emulab clients, emulab/bootinfo.c and emulab/event.c.               *)
(*                                                                         *)
(*    monojob -- request(client)socket -- xfer(socket)                     *)
(*                                                                         *)
(* "bootinfo" asks the server over UDP what to boot and turns the answer   *)
(* into settings; "event" reports a state to the server over TCP.  Both    *)
(* repeat what they send whenever their retry timer expires, until         *)
(* anything is received, the socket closes or the timer gives up.          *)
(*                                                                         *)
(* Datagrams are lost, repeated and delayed, also from one query to the    *)
(* next: the local port is fixed and nothing in a reply identifies the     *)
(* query.  The socket of a client stands for a named socket and the        *)
(* connection that replaces it; until then what is sent is dropped.        *)
(***************************************************************************)
EXTENDS Monojob, FiniteSets, TLC

CONSTANTS
  Bootinfo, Event,  \* memory for requests of the two clients
  Socket,           \* memory for sockets
  MaxTries          \* expiries of a retry timer up to the one that fails

Client == Bootinfo \cup Event

ASSUME EmulabAssumption ==
  /\ Static = {Mono}
  /\ Object = {Mono} \cup Client \cup Socket
  /\ Intf = {monojob} \cup (Client \X {"request", "socket"}) \cup (Socket \X {"xfer"})
  /\ MaxTries \in Nat \ {0}

VARIABLES
  settings,  \* the names of the bootinfo settings that are set
  timer,     \* the clients whose retry timer is running
  tries,     \* [Client -> Nat]: how often it has expired
  connected, \* the sockets whose name has been resolved
  queried,   \* a bootinfo request has reached the network
  reply,     \* history: the last reply taken
  orphans    \* history: the requests whose socket could not be opened

clientVars == <<settings, timer, tries, connected, queried, reply, orphans>>
vars == <<intfVars, monoVars, clientVars>>

\* The types of answers, and the settings that describe each.
Reply == {"part", "part_cmdline", "wait", "reboot", "auto", "mfs", "other"}

Describes(r) ==
  CASE r = "part" -> {"type_part", "part"}
    [] r = "part_cmdline" -> {"type_part", "part", "cmdline"}
    [] r = "wait" -> {"type_wait"}
    [] r = "reboot" -> {"type_reboot"}
    [] r = "auto" -> {"type_auto"}
    [] r = "mfs" -> {"type_mfs", "mfs"}
    [] OTHER -> {}

AllSettings == UNION {Describes(r) : r \in Reply}

\* bootinfo_clear_all_settings
Cleared_keeps_cmdline ==
  {"type_part", "part", "type_reboot", "type_auto", "type_mfs", "mfs"}
Cleared ==
  {"type_part", "part", "cmdline", "type_reboot", "type_auto", "type_mfs", "mfs"}
-----------------------------------------------------------------------------
done(c, rc) == Instr("done", c, Null, rc)

\* The socket that a client is plugged into.
Peer(c) == IF dest[<<c, "socket">>] = Null THEN Null ELSE Owner(dest[<<c, "socket">>])

Init ==
  /\ dest = [i \in Intf |-> Null]
  /\ blocked = [i \in Intf |-> FALSE]
  /\ refs = [o \in Object |-> IF o = Mono THEN 0 ELSE -1]
  /\ stack = << >>
  /\ MonojobInit
  /\ settings = {} /\ queried = FALSE /\ reply = "none"
  /\ timer = {} /\ tries = [c \in Client |-> 0]
  /\ connected = {} /\ orphans = {}

\* zalloc, ref_init and intf_init of an object.
Alloc(objects, references) ==
  /\ refs' = [o \in Object |-> IF o \in objects THEN references[o] - 1 ELSE refs[o]]
  /\ dest' = [i \in Intf |-> IF Owner(i) \in objects THEN Null ELSE dest[i]]
  /\ blocked' = [i \in Intf |-> Owner(i) \notin objects /\ blocked[i]]

\* create_bootinfo_query or create_event, and then monojob_wait.  The running
\* timer holds the second reference to the request, which is mortal at the end.
create(c, s) ==
  /\ Idle /\ ~waiting /\ ~Live(c) /\ ~Live(s)
  /\ Alloc({c, s}, (c :> 2) @@ (s :> 1))
  /\ timer' = timer \cup {c}
  /\ tries' = [tries EXCEPT ![c] = 0]
  /\ stack' = PlugPlug(<<s, "xfer">>, <<c, "socket">>)
              \o PlugPlug(<<c, "request">>, monojob) \o <<Put(c)>>
  /\ monojob_wait_begins
  /\ UNCHANGED <<settings, connected, queried, reply, orphans>>

\* zalloc fails, and the command with it.
create_nomem == Idle /\ ~waiting /\ UNCHANGED vars

\* The socket cannot be opened: the function returns, and nobody is left to
\* drop the reference.
create_failed(c) ==
  /\ Idle /\ ~waiting /\ ~Live(c)
  /\ Alloc({c}, c :> 1)
  /\ orphans' = orphans \cup {c}
  /\ UNCHANGED <<stack, monoVars, settings, timer, tries, connected, queried, reply>>

\* The retry timer expires, and its reference is dropped after the callback,
\* which starts the timer again and sends, or gives up.
timer_expired_sends_only(c) ==
  /\ Idle /\ c \in timer
  /\ tries' = [tries EXCEPT ![c] = @ + 1]
  /\ timer' = timer \ {c}
  /\ stack' = (IF tries'[c] = MaxTries THEN <<done(c, "timeout")>> ELSE << >>) \o <<Put(c)>>
  /\ queried' = (queried \/ c \in Bootinfo)
  /\ UNCHANGED <<dest, blocked, refs, monoVars, settings, connected, reply, orphans>>
timer_expired(c) ==
  LET fail == tries[c] + 1 = MaxTries
  IN  /\ Idle /\ c \in timer
      /\ tries' = [tries EXCEPT ![c] = @ + 1]
      /\ IF fail
           THEN /\ timer' = timer \ {c}
                /\ stack' = <<done(c, "timeout"), Put(c)>>
                /\ UNCHANGED <<refs, queried>>
           ELSE /\ refs' = Get(refs, c)
                /\ stack' = <<Put(c)>>
                /\ queried' = (queried \/ (c \in Bootinfo /\ Peer(c) \in connected))
                /\ UNCHANGED timer
      /\ UNCHANGED <<dest, blocked, monoVars, settings, connected, reply, orphans>>

\* bootinfo_done and event_done
Done_keeps_socket ==
  /\ Executing("done")
  /\ timer' = timer \ {Top.a}
  /\ tries' = [tries EXCEPT ![Top.a] = 0]
  /\ refs' = IF Top.a \in timer THEN Drop(refs, Top.a) ELSE refs
  /\ Call(<<Shutdown(<<Top.a, "request">>, Top.rc)>>)
  /\ UNCHANGED <<dest, blocked, monoVars, settings, connected, queried, reply, orphans>>
Done ==
  /\ Executing("done")
  /\ timer' = timer \ {Top.a}
  /\ tries' = [tries EXCEPT ![Top.a] = 0]
  /\ refs' = IF Top.a \in timer THEN Drop(refs, Top.a) ELSE refs
  /\ Call(<<Shutdown(<<Top.a, "socket">>, Top.rc), Shutdown(<<Top.a, "request">>, Top.rc)>>)
  /\ UNCHANGED <<dest, blocked, monoVars, settings, connected, queried, reply, orphans>>

\* The intf_close methods.  A bootinfo socket never closes successfully; the
\* end of the stream of an event does count as success.
CloseMethod(o, name, rc) ==
  CASE o \in Socket -> <<Shutdown(<<o, "xfer">>, rc), Put(o)>>
    [] o \in Bootinfo /\ name = "socket" -> <<done(o, IF rc = "ok" THEN "aborted" ELSE rc)>>
    [] o \in Event /\ name = "socket" -> <<done(o, IF rc = "ok" THEN "ok" ELSE "aborted")>>
    [] OTHER -> <<done(o, rc)>>

method ==
  \/ monojob_close /\ UNCHANGED clientVars
  \/ /\ Executing("method") /\ Top.a # monojob
     /\ Call(CloseMethod(Owner(Top.a), Top.a[2], Top.rc))
     /\ connected' = connected \ {Owner(Top.a)}
     /\ UNCHANGED <<dest, blocked, refs, monoVars, settings, timer, tries, queried, reply, orphans>>

\* The name has been resolved, and for an event the connection is up.
SocketConnects(s) ==
  /\ Idle /\ Live(s)
  /\ connected' = connected \cup {s}
  /\ UNCHANGED <<intfVars, monoVars, settings, timer, tries, queried, reply, orphans>>

\* The name cannot be resolved, or the connection is reset or ends.
SocketCloses(s, rc) ==
  /\ Idle /\ Live(s) /\ dest[<<s, "xfer">>] # Null
  /\ rc = "ok" => s \in connected /\ Owner(dest[<<s, "xfer">>]) \in Event
  /\ connected' = connected \ {s}
  /\ stack' = <<Shutdown(<<s, "xfer">>, rc), Put(s)>>
  /\ UNCHANGED <<dest, blocked, refs, monoVars, settings, timer, tries, queried, reply, orphans>>

Delivers(s, clients) ==
  /\ Idle /\ s \in connected /\ Live(s) /\ dest[<<s, "xfer">>] # Null
  /\ Owner(dest[<<s, "xfer">>]) \in clients /\ ~blocked[dest[<<s, "xfer">>]]

\* A reply arrives: the old settings are cleared, the new ones stored (each of
\* which may fail for want of memory), and the query is done.
bootinfo_xfer_deliver(s, r) ==
  LET b == Owner(dest[<<s, "xfer">>])
  IN  /\ Delivers(s, Bootinfo) /\ queried
      /\ \E stored \in SUBSET Describes(r) : settings' = (settings \ Cleared) \cup stored
      /\ reply' = r
      /\ refs' = Get(refs, b)
      /\ stack' = <<done(b, "ok"), Put(b)>>
      /\ UNCHANGED <<dest, blocked, monoVars, timer, tries, connected, queried, orphans>>

event_xfer_deliver(s) ==
  LET e == Owner(dest[<<s, "xfer">>])
  IN  /\ Delivers(s, Event)
      /\ refs' = Get(refs, e)
      /\ stack' = <<done(e, "ok"), Put(e)>>
      /\ UNCHANGED <<dest, blocked, monoVars, clientVars>>
-----------------------------------------------------------------------------
Step ==
  \/ InterfaceStep /\ UNCHANGED <<monoVars, clientVars>>
  \/ Done
  \/ method

Next ==
  \/ Step
  \/ \E c \in Client, s \in Socket : create(c, s)
  \/ create_nomem
  \/ \E c \in Client : create_failed(c) \/ timer_expired(c)
  \/ \E s \in Socket :
       \/ SocketConnects(s)
       \/ \E rc \in {"ok", "failed"} : SocketCloses(s, rc)
       \/ \E r \in Reply : bootinfo_xfer_deliver(s, r)
       \/ event_xfer_deliver(s)
  \/ monojob_wait /\ UNCHANGED clientVars

Spec == Init /\ [][Next]_vars

\* The processor executes the stack, and running timers expire: retry_poll is
\* a permanent process of the loop in monojob_wait.
FairSpec ==
  /\ Spec
  /\ WF_vars(Step)
  /\ \A c \in Client : WF_vars(timer_expired(c))
-----------------------------------------------------------------------------
(***************************************************************************)
(* Properties                                                              *)
(***************************************************************************)
Status == {"ok", "failed", "cancelled", "timeout", "aborted"}

\* Type invariant of the plugs, the counts, the timers and the settings.
TypeOK ==
  /\ dest \in [Intf -> Intf \cup {Null}]
  /\ blocked \in [Intf -> BOOLEAN]
  /\ refs \in [Object -> -1 .. 4]
  /\ monojob_rc \in Status \cup {"none"} /\ waiting \in BOOLEAN
  /\ settings \subseteq AllSettings /\ reply \in Reply \cup {"none"}
  /\ timer \subseteq Client /\ tries \in [Client -> 0 .. MaxTries]
  /\ connected \subseteq Socket /\ queried \in BOOLEAN /\ orphans \subseteq Client

\* No setting of an earlier reply survives a later one in which it does not
\* occur, except type_wait: a stale partition, command line or file system
\* would be booted.
NoStaleSetting ==
  reply # "none" => settings \ {"type_wait"} \subseteq Describes(reply)

\* "Clear bootinfo related settings": what is set after a reply describes that
\* reply and nothing else.
SettingsDescribeReply == reply # "none" => settings \subseteq Describes(reply)

\* One query takes one reply: a duplicate or a late reply never changes the
\* settings once a status has been reported to the foreground job, nor while
\* no query is being made.
SettledOnceReported ==
  [][settings' # settings \/ reply' # reply => waiting /\ monojob_rc = "none"]_vars

\* Between events a request is in memory exactly while the foreground job
\* waits for it, or because its socket could not be opened: only the latter
\* are leaked.
OnlyOrphansLeak ==
  Idle => \A c \in Client :
            Live(c) <=> \/ c \in orphans
                       \/ dest[monojob] = <<c, "request">>

\* The requests of both clients: types, and what is in memory.
RequestsConsistent == TypeOK /\ OnlyOrphansLeak

\* A client that waits for an answer that never comes gives up: the status of
\* the job is known in the end.
EmulabEnds == waiting /\ monojob_rc = "none" ~> monojob_rc # "none"
=============================================================================
