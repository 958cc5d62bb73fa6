-------------------------------- MODULE Dhcp --------------------------------
(***************************************************************************)
(* The DHCP client, net/udp/dhcp.c, with what starts it and waits for it:  *)
(* the configurations of network devices, net/netdevice.c, ifconf in       *)
(* usr/ifmgmt.c and pxebs in usr/dhcpmgmt.c.                               *)
(*                                                                         *)
(* A session is a DHCP session of a device or a PXE boot server discovery. *)
(* Both bind the one UDP port of a DHCP client, so at most one is alive:   *)
(* the variables of the session describe that one.  The packets that may   *)
(* arrive for it come at any time, in any order and any number of times; a *)
(* packet for another session has another transaction identifier or        *)
(* hardware address and is dropped.                                        *)
(*                                                                         *)
(* The settings that ProxyDHCP and boot servers register under names of    *)
(* their own are left out: only start_pxebs reads them, and it may find    *)
(* any of PxebsLists in them.  register_settings never fails.              *)
(*                                                                         *)
(* A device has one configurator, DHCP.  ifconf of several configurators,  *)
(* which waits until none of them is in progress any more, is left out,    *)
(* and so are replies for a boot server type that was not asked for, which *)
(* dhcp_pxebs_rx drops.                                                    *)
(*                                                                         *)
(* Time is counted in quarters of a second.  A timer is served at most     *)
(* MaxLate after it is due.                                                *)
(***************************************************************************)
EXTENDS Naturals, Sequences, FiniteSets

CONSTANTS
  Device,
  Packets,          \* the packets that servers send
  PxebsLists,       \* pairs: servers to attempt, and those to accept or Any
  Any, None,
  Timings,          \* choices of the timeouts of config/dhcp.h
  DEFAULT_MIN_TIMEOUT,
  MaxLate

States == {"discover", "request", "proxy", "pxebs"}

(* A choice of timeouts has the limits of the retry timer in each state, and *)
(*   disc_proxy  DHCP_DISC_PROXY_TIMEOUT_SEC                                 *)
(*   req_proxy   DHCP_REQ_PROXY_TIMEOUT_SEC                                  *)
(*   pxebs_max   PXEBS_MAX_TIMEOUT_SEC                                       *)
ASSUME DhcpAssumption ==
  /\ Timings \subseteq [limits : [States -> [min : Nat, max : Nat]],
                        disc_proxy : Nat, req_proxy : Nat, pxebs_max : Nat]
  /\ DEFAULT_MIN_TIMEOUT \in Nat \ {0} /\ MaxLate \in Nat
  /\ "monojob" # None /\ {"monojob", None} \cap Device = {}
  /\ None \notin States /\ None \notin Packets

VARIABLES
  timing,   \* the timeouts that were configured
  state,    \* dhcp->state, or None without a session
  job,      \* what the session's job interface is plugged into:
            \* the configuration of a device, or "monojob"
  elapsed,  \* currticks() - dhcp->start
  timeout,  \* the timeout of the running retry timer
  running,  \* for how long it has been running
  offer,    \* dhcp->offer, server, priority and no_pxedhcp
  proxy,    \* dhcp->proxy_offer, proxy_server and proxy_priority
  attempt,  \* dhcp->pxe_attempt: the servers still to be tried
  accept,   \* dhcp->pxe_accept
  config,   \* [Device -> status]: config->rc, "failed" for every error
  waiting,  \* the device that ifconf waits for, "monojob", or None
  rc,       \* history: how the session that ended last has ended
  lease     \* [Device -> packet]: the registered DHCP settings block

sessionVars == <<state, job, elapsed, timeout, running, offer, proxy, attempt, accept>>
userVars == <<config, waiting>>
vars == <<timing, sessionVars, userVars, rc, lease>>

NoOffer == [ip |-> None, server |-> None, priority |-> 0, no_pxedhcp |-> FALSE]
NoProxy == [packet |-> None, server |-> None, priority |-> 0]

Init ==
  /\ timing \in Timings
  /\ state = None /\ job = None /\ elapsed = 0 /\ timeout = 0 /\ running = 0
  /\ offer = NoOffer /\ proxy = NoProxy /\ attempt = <<>> /\ accept = Any
  /\ config = [d \in Device |-> "failed"] /\ waiting = None
  /\ rc = "none" /\ lease = [d \in Device |-> None]
-----------------------------------------------------------------------------
\* dhcp_set_state: the timer is started to expire at once.
dhcp_set_state(s) ==
  /\ state' = s /\ elapsed' = 0
  /\ timeout' = 0 /\ running' = 0

(* dhcp_finished: the timer is stopped, the socket is closed and the job     *)
(* interface tells the configuration (netdev_config_close) or the monojob.   *)
(* Whatever the session knew is freed with it (dhcp_free).                   *)
SessionEnds(status) ==
  /\ rc' = status
  /\ state' = None /\ job' = None /\ elapsed' = 0 /\ timeout' = 0 /\ running' = 0
  /\ offer' = NoOffer /\ proxy' = NoProxy /\ attempt' = <<>> /\ accept' = Any

ConfigRc(status) == IF status = "ok" THEN "ok" ELSE "failed"

dhcp_finished(status) ==
  /\ SessionEnds(status)
  /\ config' = IF job \in Device THEN [config EXCEPT ![job] = ConfigRc(status)] ELSE config
  /\ waiting' = IF job = "monojob" THEN None ELSE waiting

\* start_timer: at least the minimum of the state's limits.
AtLeastMin(t, s) ==
  LET min == IF timing.limits[s].min = 0 THEN DEFAULT_MIN_TIMEOUT ELSE timing.limits[s].min
  IN  IF t < min THEN min ELSE t

(* dhcp_tx: the timer is started first, so that a packet that could not be   *)
(* allocated or sent is retried.                                             *)
dhcp_tx(backedOff) ==
  /\ timeout' = AtLeastMin(backedOff, state) /\ running' = 0
  /\ UNCHANGED <<state, elapsed>>
-----------------------------------------------------------------------------
(* dhcp_timer_expired and the expired methods of the states.  The timeout    *)
(* has been doubled by then; the session fails when it exceeds the maximum.  *)

GiveUpProxy_never == FALSE
GiveUpProxy == elapsed > timing.req_proxy

dhcp_discovery_expired(backedOff) ==
  /\ state = "discover"
  /\ IF offer.ip # None /\ elapsed > timing.disc_proxy
     THEN dhcp_set_state("request")
     ELSE dhcp_tx(backedOff)
  /\ UNCHANGED <<job, offer, proxy, attempt, accept, userVars, rc>>

dhcp_request_expired(backedOff) ==
  /\ state = "request"
  /\ dhcp_tx(backedOff)
  /\ UNCHANGED <<job, offer, proxy, attempt, accept, userVars, rc>>

dhcp_proxy_expired(backedOff) ==
  /\ state = "proxy"
  /\ IF GiveUpProxy
     THEN dhcp_finished("ok")
     ELSE dhcp_tx(backedOff) /\ UNCHANGED <<job, offer, proxy, attempt, accept, userVars, rc>>

dhcp_pxebs_expired(backedOff) ==
  /\ state = "pxebs"
  /\ IF elapsed > timing.pxebs_max
     THEN IF Len(attempt) > 1
          THEN /\ attempt' = Tail(attempt)
               /\ dhcp_set_state("pxebs")
               /\ UNCHANGED <<job, offer, proxy, accept, userVars, rc>>
          ELSE dhcp_finished("timed out")
     ELSE dhcp_tx(backedOff) /\ UNCHANGED <<job, offer, proxy, attempt, accept, userVars, rc>>

dhcp_timer_expired ==
  /\ state # None /\ running >= timeout
  /\ LET backedOff == 2 * timeout IN
     IF backedOff > timing.limits[state].max THEN dhcp_finished("timed out")
     ELSE \/ dhcp_discovery_expired(backedOff)
          \/ dhcp_request_expired(backedOff)
          \/ dhcp_proxy_expired(backedOff)
          \/ dhcp_pxebs_expired(backedOff)
  /\ UNCHANGED lease
-----------------------------------------------------------------------------
(* dhcp_deliver and the rx methods of the states.  A packet is              *)
(*   [type, port, ip, server, pxeclient, pxeopts, priority, nopxe, peer].    *)
(* "server" is its server identifier, or None; "peer" the sender.            *)

\* register_settings of the acknowledgement, in place of an earlier one.
Registered(p) == lease' = [lease EXCEPT ![job] = p]
SessionContinues == UNCHANGED <<job, attempt, accept, userVars, rc>>

\* Select as DHCP offer and as ProxyDHCP offer, if applicable.
Selected(p) ==
  IF p.ip # None /\ p.port = "bootps" /\ p.type \in {"offer", "bootp"}
       /\ p.priority >= offer.priority
  THEN [ip |-> p.ip, server |-> p.server, priority |-> p.priority, no_pxedhcp |-> p.nopxe]
  ELSE offer
SelectedProxy(p) ==
  IF p.server # None /\ p.pxeclient /\ p.priority >= proxy.priority
  THEN [packet |-> p, server |-> p.server, priority |-> p.priority]
  ELSE proxy

dhcp_discovery_rx(p) ==
  /\ state = "discover"
  /\ offer' = Selected(p) /\ proxy' = SelectedProxy(p)
  /\ IF offer'.ip # None /\ (offer'.no_pxedhcp \/ proxy'.packet # None
                               \/ elapsed > timing.disc_proxy)
     THEN dhcp_set_state("request")
     ELSE UNCHANGED <<state, elapsed, timeout, running>>
  /\ SessionContinues /\ UNCHANGED lease

\* The acknowledgement of the offer that was selected.
Acknowledges_anyone(p) == p.port = "bootps" /\ p.type \in {"bootp", "ack"}
Acknowledges(p) ==
  /\ p.port = "bootps" /\ p.type \in {"bootp", "ack"}
  /\ p.server = offer.server /\ p.ip = offer.ip

UsesProxy == proxy.packet # None /\ ~offer.no_pxedhcp

dhcp_request_rx(p) ==
  /\ state = "request" /\ Acknowledges(p)
  /\ Registered(p)
  /\ CASE ~UsesProxy ->
            dhcp_finished("ok")
       [] UsesProxy /\ proxy.packet.pxeopts ->
            dhcp_finished("ok")
       [] OTHER ->
            /\ dhcp_set_state("proxy")
            /\ SessionContinues /\ UNCHANGED <<offer, proxy>>

dhcp_proxy_rx(p) ==
  /\ state = "proxy"
  /\ p.port = "pxe" /\ p.type \in {"offer", "ack"}
  /\ p.server \in {None, proxy.server}
  /\ dhcp_finished("ok") /\ UNCHANGED lease

dhcp_pxebs_accept(server) == accept # Any => server \in accept

dhcp_pxebs_rx(p) ==
  /\ state = "pxebs"
  /\ p.port \in {"bootps", "pxe"} /\ p.type = "ack"
  /\ dhcp_pxebs_accept(IF p.server = None THEN p.peer ELSE p.server)
  /\ dhcp_finished("ok") /\ UNCHANGED lease

dhcp_deliver(p) ==
  dhcp_discovery_rx(p) \/ dhcp_request_rx(p) \/ dhcp_proxy_rx(p) \/ dhcp_pxebs_rx(p)
-----------------------------------------------------------------------------
(* start_dhcp and start_pxebs: with the port in use, or without memory, the  *)
(* session ends before it is plugged into its job.                           *)
StartSession(s, j) ==
  /\ state' = s /\ job' = j
  /\ elapsed' = 0 /\ timeout' = 0 /\ running' = 0
  /\ offer' = NoOffer /\ proxy' = NoProxy
  /\ rc' = "none"

(* netdev_configure, called by ifconf on an open device.  An ongoing         *)
(* session of this device is terminated first; nothing of that is reported,  *)
(* since intf_restart takes the configuration out of reach.                  *)
netdev_configure(d) ==
  \/ /\ state = None \/ job = d
     /\ config' = [config EXCEPT ![d] = "in progress"]
     /\ StartSession("discover", d) /\ UNCHANGED <<attempt, accept>>
  \/ /\ config' = [config EXCEPT ![d] = "failed"]
     /\ IF job = d THEN SessionEnds("cancelled") ELSE UNCHANGED <<sessionVars, rc>>

\* ifconf, once the device is open and its link is up: starts the
\* configuration and waits for it.
ifconf(d) ==
  /\ waiting = None
  /\ netdev_configure(d)
  /\ waiting' = IF config'[d] = "in progress" THEN d ELSE None
  /\ UNCHANGED lease

ifconf_progress_on_success ==
  /\ waiting \in Device /\ config[waiting] = "ok"
  /\ waiting' = None
  /\ UNCHANGED <<sessionVars, config, rc, lease>>
ifconf_progress ==
  /\ waiting \in Device /\ config[waiting] # "in progress"
  /\ waiting' = None
  /\ UNCHANGED <<sessionVars, config, rc, lease>>

\* Ctrl-C in monojob_wait: ifconf leaves the session running, pxebs ends it.
Interrupt ==
  /\ waiting # None
  /\ IF waiting = "monojob"
     THEN SessionEnds("cancelled")
     ELSE UNCHANGED <<sessionVars, rc>>
  /\ waiting' = None
  /\ UNCHANGED <<config, lease>>

(* pxebs: the lists come from the settings; without a server to attempt, or  *)
(* with the port in use, start_pxebs fails.                                  *)
pxebs ==
  /\ waiting = None /\ state = None
  /\ \E l \in PxebsLists :
       /\ l[1] # <<>>
       /\ StartSession("pxebs", "monojob")
       /\ attempt' = l[1] /\ accept' = l[2]
  /\ waiting' = "monojob"
  /\ UNCHANGED <<config, lease>>

(* netdev_close: the ongoing configuration is cancelled by intf_close, so    *)
(* that the cancellation is reported back.  A device that is not open has    *)
(* none.                                                                     *)
netdev_close_by_restart(d) ==
  /\ job = d
  /\ SessionEnds("cancelled")
  /\ UNCHANGED <<config, waiting, lease>>
netdev_close(d) ==
  /\ job = d
  /\ dhcp_finished("cancelled")
  /\ UNCHANGED lease

Tick ==
  /\ state # None /\ running < timeout + MaxLate
  /\ elapsed' = elapsed + 1 /\ running' = running + 1
  /\ UNCHANGED <<state, job, timeout, offer, proxy, attempt, accept, userVars, rc, lease>>

Next ==
  /\ \/ dhcp_timer_expired
     \/ \E p \in Packets : dhcp_deliver(p)
     \/ \E d \in Device : ifconf(d) \/ netdev_close(d)
     \/ ifconf_progress \/ Interrupt \/ pxebs
     \/ Tick
  /\ UNCHANGED timing

Spec == Init /\ [][Next]_vars
(* Time passes, retry_poll serves the timer, and monojob_wait polls the      *)
(* progress of the job it waits for.                                         *)
FairSpec ==
  /\ Spec
  /\ WF_vars(Tick /\ UNCHANGED timing)
  /\ WF_vars(dhcp_timer_expired /\ UNCHANGED timing)
  /\ WF_vars(ifconf_progress /\ UNCHANGED timing)
-----------------------------------------------------------------------------
(* Type invariant of the session, the configurations and the user's job.     *)
TypeOK ==
  /\ timing \in Timings
  /\ state \in States \cup {None} /\ job \in Device \cup {"monojob", None}
  /\ elapsed \in Nat /\ timeout \in Nat /\ running \in Nat
  /\ config \in [Device -> {"in progress", "ok", "failed"}]
  /\ waiting \in Device \cup {"monojob", None}
  /\ lease \in [Device -> Packets \cup {None}]

(* A configuration is marked as being in progress exactly while a session    *)
(* that will report to it is alive, whoever starts, restarts, interrupts or  *)
(* closes what (netdev_configure, netdev_config_close, netdev_close).        *)
InProgressIsLive ==
  \A d \in Device : config[d] = "in progress" <=> state # None /\ job = d

(* A live session has one owner that will be told of its end: a boot server  *)
(* discovery the user's job, and any other the configuration of its device.  *)
SessionHasOwner ==
  /\ state = None <=> job = None
  /\ state = "pxebs" <=> job = "monojob"
  /\ waiting = "monojob" <=> job = "monojob"

(* A device in the ProxyDHCP stage has the lease of the offer that was       *)
(* selected: the stage begins with the acknowledgement (dhcp_request_rx).    *)
LeaseBeforeProxy ==
  state = "proxy" => /\ lease[job] # None
                     /\ lease[job].ip = offer.ip
                     /\ lease[job].server = offer.server

(* What every entry point of the DHCP client and of netdev_configure,        *)
(* netdev_close, ifconf and pxebs keeps true.                                *)
SessionConsistent ==
  TypeOK /\ InProgressIsLive /\ SessionHasOwner /\ LeaseBeforeProxy

(* While a device waits for ProxyDHCP it already holds the lease it was      *)
(* offered: its settings are those of the acknowledgement from the server    *)
(* and for the address that were selected last in discovery, and when the    *)
(* session ends well they still are (dhcp_request_rx, dhcp_proxy_expired).   *)
LeaseIsOffered ==
  [][/\ state \in {"request", "proxy"}
     /\ state' = "proxy" \/ (state' = None /\ rc' = "ok")
     => /\ lease'[job] # None
        /\ lease'[job].ip = offer.ip
        /\ lease'[job].server = offer.server]_vars

(* "A ProxyDHCP request timeout should not induce a failure condition, so we *)
(* always want to break before the above set of timers expire"               *)
(* (config/dhcp.h): a session times out only without any offer, or without   *)
(* an acknowledgement of its offer, or after the last boot server of its     *)
(* list (dhcp_timer_expired, dhcp_discovery_expired, dhcp_proxy_expired,     *)
(* dhcp_pxebs_expired).                                                      *)
BreaksBeforeFailure ==
  [][state # None /\ state' = None /\ rc' = "timed out" =>
       \/ state = "discover" /\ offer.ip = None
       \/ state = "request"
       \/ state = "pxebs" /\ Len(attempt) = 1]_vars

(* A user who waits for a configuration or a boot server gets the prompt     *)
(* back, also when packets cannot be sent, none arrives, or the device is    *)
(* closed meanwhile (dhcp_tx starts the timer first; ifconf_progress).       *)
WaitEnds == waiting # None ~> waiting = None
=============================================================================
