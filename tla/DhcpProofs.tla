----------------------------- MODULE DhcpProofs -----------------------------
(***************************************************************************)
(* For any number of devices, any servers and packets and any timeouts: a  *)
(* configuration is in progress exactly while a session that will report   *)
(* to it is alive, and the lease a device ends up with is the one that the *)
(* server it selected has acknowledged.                                    *)
(*                                                                         *)
(* SessionConsistent is inductive.  InProgressIsLive alone is not: ending  *)
(* a boot server discovery must not end the session of a device, which is  *)
(* what SessionHasOwner adds.                                              *)
(***************************************************************************)
EXTENDS Dhcp, TLAPS

-----------------------------------------------------------------------------
\* What the constants are, for the provers.
LEMMA Constants ==
  /\ "monojob" # None /\ "monojob" \notin Device /\ None \notin Device
  /\ None \notin Packets
  /\ \A s \in States : s # None
  /\ DEFAULT_MIN_TIMEOUT \in Nat
BY DhcpAssumption DEF States

\* The timeout that start_timer sets is a number of ticks.
LEMMA MinType ==
  ASSUME TypeOK, NEW t \in Nat, NEW s \in States
  PROVE  AtLeastMin(t, s) \in Nat
<1>1. timing.limits[s].min \in Nat
  BY Zenon, DhcpAssumption DEF TypeOK
<1> QED BY <1>1, Constants DEF AtLeastMin

LEMMA InitHolds == Init => SessionConsistent
BY Constants DEF Init, SessionConsistent, TypeOK, InProgressIsLive,
     SessionHasOwner, LeaseBeforeProxy, States

-----------------------------------------------------------------------------
\* A session that ends, with its owner told, leaves everything consistent.
LEMMA FinishedStep ==
  ASSUME SessionConsistent, NEW status, state # None, dhcp_finished(status),
         lease' \in [Device -> Packets \cup {None}], timing' = timing
  PROVE  SessionConsistent'
<1>1. TypeOK'
  BY Zenon, Constants DEF SessionConsistent, TypeOK, dhcp_finished, SessionEnds, ConfigRc
<1>2. InProgressIsLive'
  BY Zenon, Constants DEF SessionConsistent, TypeOK, InProgressIsLive, dhcp_finished,
       SessionEnds, ConfigRc
<1>3. SessionHasOwner'
  BY Constants DEF SessionConsistent, SessionHasOwner, dhcp_finished,
       SessionEnds, States
<1>4. LeaseBeforeProxy'
  BY Constants DEF LeaseBeforeProxy, dhcp_finished, SessionEnds, States
<1> QED BY <1>1, <1>2, <1>3, <1>4 DEF SessionConsistent

\* A step in which the session of the same owner goes on.
LEMMA ContinuesStep ==
  ASSUME SessionConsistent, state # None, state' \in States,
         state' = "pxebs" <=> state = "pxebs",
         UNCHANGED <<timing, job, config, waiting>>,
         elapsed' \in Nat, timeout' \in Nat, running' \in Nat,
         lease' \in [Device -> Packets \cup {None}], LeaseBeforeProxy'
  PROVE  SessionConsistent'
<1>1. TypeOK'
  BY Zenon DEF SessionConsistent, TypeOK
<1>2. InProgressIsLive'
  BY Zenon, Constants DEF SessionConsistent, InProgressIsLive
<1>3. SessionHasOwner'
  BY Constants DEF SessionConsistent, SessionHasOwner
<1> QED BY <1>1, <1>2, <1>3 DEF SessionConsistent

\* dhcp_tx and dhcp_set_state while the session goes on, with the same lease
\* and the same offer unless the ProxyDHCP stage is left.
LEMMA TxStep ==
  ASSUME SessionConsistent, NEW t \in Nat, state # None, dhcp_tx(t),
         UNCHANGED <<timing, job, offer, userVars, lease>>
  PROVE  SessionConsistent'
<1>1. state \in States /\ TypeOK
  BY Zenon DEF SessionConsistent, TypeOK
<1>2. AtLeastMin(t, state) \in Nat
  BY <1>1, MinType
<1>3. LeaseBeforeProxy'
  BY DEF SessionConsistent, LeaseBeforeProxy, dhcp_tx
<1> HIDE DEF AtLeastMin
<1> QED BY Zenon, <1>1, <1>2, <1>3, ContinuesStep DEF dhcp_tx, userVars, TypeOK

LEMMA SetStateStep ==
  ASSUME SessionConsistent, state # None, NEW s \in States \ {"proxy"},
         s = "pxebs" <=> state = "pxebs", dhcp_set_state(s),
         UNCHANGED <<timing, job, userVars, lease>>
  PROVE  SessionConsistent'
<1>1. LeaseBeforeProxy'
  BY Constants DEF LeaseBeforeProxy, dhcp_set_state
<1> QED BY Zenon, <1>1, ContinuesStep DEF dhcp_set_state, userVars, SessionConsistent, TypeOK

-----------------------------------------------------------------------------
\* dhcp_timer_expired, in every state.
LEMMA ExpiredStep ==
  ASSUME SessionConsistent, dhcp_timer_expired, timing' = timing
  PROVE  SessionConsistent'
<1> DEFINE t == 2 * timeout
<1>0. timeout \in Nat
  BY Zenon DEF SessionConsistent, TypeOK
<1>1. t \in Nat /\ state # None /\ lease' = lease
  <2>1. t \in Nat
    BY <1>0
  <2>2. state # None /\ lease' = lease
    BY Zenon DEF dhcp_timer_expired
  <2> QED BY <2>1, <2>2
<1>2. lease' \in [Device -> Packets \cup {None}]
  BY Zenon, <1>1 DEF SessionConsistent, TypeOK
<1>3. CASE dhcp_finished("timed out")
  BY Zenon, <1>1, <1>2, <1>3, FinishedStep
<1>4. CASE dhcp_discovery_expired(t)
  BY <1>1, <1>4, TxStep, SetStateStep DEF dhcp_discovery_expired, States
<1>5. CASE dhcp_request_expired(t)
  BY <1>1, <1>5, TxStep DEF dhcp_request_expired
<1>6. CASE dhcp_proxy_expired(t)
  BY <1>1, <1>2, <1>6, TxStep, FinishedStep DEF dhcp_proxy_expired
<1>7. CASE dhcp_pxebs_expired(t)
  BY Zenon, <1>1, <1>2, <1>7, TxStep, SetStateStep, FinishedStep
     DEF dhcp_pxebs_expired, States
<1> HIDE DEF t
<1> QED BY Zenon, <1>3, <1>4, <1>5, <1>6, <1>7 DEF dhcp_timer_expired, t

-----------------------------------------------------------------------------
\* dhcp_deliver, in every state.  An acknowledgement is registered in the name
\* of the device whose session it belongs to.
LEMMA DeliverStep ==
  ASSUME SessionConsistent, NEW p \in Packets, dhcp_deliver(p), timing' = timing
  PROVE  SessionConsistent'
<1>0. /\ TypeOK /\ p # None
      /\ lease \in [Device -> Packets \cup {None}]
  BY Zenon, Constants DEF SessionConsistent, TypeOK
<1>1. CASE dhcp_discovery_rx(p)
  <2>1. state # None /\ state # "pxebs"
    BY <1>1, Constants DEF dhcp_discovery_rx, States
  <2>2. CASE dhcp_set_state("request")
    BY <1>1, <2>1, <2>2, SetStateStep
       DEF dhcp_discovery_rx, SessionContinues, States
  <2>3. CASE UNCHANGED <<state, elapsed, timeout, running>>
    <3>1. LeaseBeforeProxy'
      BY <1>1, <2>3, Constants DEF dhcp_discovery_rx, LeaseBeforeProxy, States
    <3>2. /\ state' \in States /\ UNCHANGED <<job, config, waiting>>
          /\ elapsed' \in Nat /\ timeout' \in Nat /\ running' \in Nat
          /\ lease' \in [Device -> Packets \cup {None}]
      BY Zenon, <1>0, <1>1, <2>1, <2>3
         DEF dhcp_discovery_rx, SessionContinues, userVars, TypeOK
    <3> QED BY <2>1, <2>3, <3>1, <3>2, ContinuesStep
  <2> QED BY <1>1, <2>2, <2>3 DEF dhcp_discovery_rx
<1>2. CASE dhcp_request_rx(p)
  <2>1. state = "request" /\ state # None /\ Registered(p) /\ Acknowledges(p)
    BY <1>2, Constants DEF dhcp_request_rx, States
  <2>2. job \in Device
    BY Zenon, <1>0, <2>1, Constants DEF SessionConsistent, SessionHasOwner, TypeOK, States
  <2>3. lease' \in [Device -> Packets \cup {None}] /\ lease'[job] = p
    BY <1>0, <2>1, <2>2 DEF Registered
  <2>4. CASE dhcp_finished("ok")
    BY <2>1, <2>3, <2>4, FinishedStep
  <2>5. CASE /\ dhcp_set_state("proxy") /\ SessionContinues
             /\ UNCHANGED <<offer, proxy>>
    <3>1. LeaseBeforeProxy'
      BY <1>0, <2>1, <2>3, <2>5
         DEF LeaseBeforeProxy, SessionContinues, Acknowledges
    <3> QED BY <2>1, <2>3, <2>5, <3>1, ContinuesStep
            DEF dhcp_set_state, SessionContinues, userVars, States
  <2> QED BY <1>2, <2>4, <2>5 DEF dhcp_request_rx
<1>3. CASE dhcp_proxy_rx(p)
  BY <1>0, <1>3, Constants, FinishedStep DEF dhcp_proxy_rx, States
<1>4. CASE dhcp_pxebs_rx(p)
  BY <1>0, <1>4, Constants, FinishedStep DEF dhcp_pxebs_rx, States
<1> QED BY <1>1, <1>2, <1>3, <1>4 DEF dhcp_deliver

-----------------------------------------------------------------------------
\* netdev_configure through ifconf: an ongoing session of the device is
\* replaced, one of another owner is left alone.
LEMMA ConfigureStep ==
  ASSUME SessionConsistent, NEW d \in Device, ifconf(d), timing' = timing
  PROVE  SessionConsistent'
<1>0. /\ waiting = None /\ lease' = lease
      /\ waiting' = IF config'[d] = "in progress" THEN d ELSE None
  BY Zenon DEF ifconf
<1>1. d # None /\ d # "monojob" /\ job # "monojob"
  BY Zenon, <1>0, Constants DEF SessionConsistent, SessionHasOwner
<1>2. CASE /\ state = None \/ job = d
           /\ config' = [config EXCEPT ![d] = "in progress"]
           /\ StartSession("discover", d)
  <2>1. TypeOK'
    BY Zenon, <1>0, <1>2 DEF SessionConsistent, TypeOK, StartSession, States
  <2>2. InProgressIsLive'
    BY Zenon, <1>2, Constants
       DEF SessionConsistent, TypeOK, InProgressIsLive, StartSession, States
  <2>3. SessionHasOwner'
    BY Zenon, <1>0, <1>1, <1>2, Constants DEF SessionHasOwner, StartSession, States
  <2>4. LeaseBeforeProxy'
    BY Zenon, <1>2 DEF LeaseBeforeProxy, StartSession
  <2> QED BY <2>1, <2>2, <2>3, <2>4 DEF SessionConsistent
<1>3. CASE /\ config' = [config EXCEPT ![d] = "failed"]
           /\ job = d /\ SessionEnds("cancelled")
  <2>1. TypeOK'
    BY Zenon, <1>0, <1>3 DEF SessionConsistent, TypeOK, SessionEnds
  <2>2. InProgressIsLive'
    BY Zenon, <1>3, Constants DEF SessionConsistent, TypeOK, InProgressIsLive, SessionEnds
  <2>3. SessionHasOwner'
    BY Zenon, <1>0, <1>1, <1>3, Constants DEF SessionHasOwner, SessionEnds, States
  <2>4. LeaseBeforeProxy'
    BY <1>3, Constants DEF LeaseBeforeProxy, SessionEnds, States
  <2> QED BY <2>1, <2>2, <2>3, <2>4 DEF SessionConsistent
<1>4. CASE /\ config' = [config EXCEPT ![d] = "failed"]
           /\ job # d /\ UNCHANGED <<sessionVars, rc>>
  <2>1. TypeOK'
    BY Zenon, <1>0, <1>4 DEF SessionConsistent, TypeOK, sessionVars
  <2>2. InProgressIsLive'
    BY Zenon, <1>4 DEF SessionConsistent, TypeOK, InProgressIsLive, sessionVars
  <2>3. SessionHasOwner'
    BY Zenon, <1>0, <1>1, <1>4 DEF SessionConsistent, SessionHasOwner, sessionVars
  <2>4. LeaseBeforeProxy'
    BY Zenon, <1>0, <1>4 DEF SessionConsistent, LeaseBeforeProxy, sessionVars
  <2> QED BY <2>1, <2>2, <2>3, <2>4 DEF SessionConsistent
<1> QED BY Zenon, <1>2, <1>3, <1>4 DEF ifconf, netdev_configure

\* The user's job: ifconf's wait ends, or is interrupted, or pxebs begins; and
\* the device is closed.
LEMMA UserStep ==
  ASSUME SessionConsistent, timing' = timing,
         \/ ifconf_progress \/ Interrupt \/ pxebs
         \/ \E d \in Device : netdev_close(d)
  PROVE  SessionConsistent'
<1>1. CASE \/ ifconf_progress
           \/ Interrupt /\ waiting # "monojob"
  <2>1. /\ waiting # "monojob" /\ waiting' = None
        /\ UNCHANGED <<sessionVars, config, lease>>
    BY Zenon, <1>1, Constants DEF ifconf_progress, Interrupt
  <2>2. TypeOK'
    BY Zenon, <2>1 DEF SessionConsistent, TypeOK, sessionVars
  <2>3. InProgressIsLive' /\ LeaseBeforeProxy'
    BY Zenon, <2>1 DEF SessionConsistent, InProgressIsLive, LeaseBeforeProxy, sessionVars
  <2>4. SessionHasOwner'
    BY <2>1, Constants DEF SessionConsistent, SessionHasOwner, sessionVars
  <2> QED BY <2>2, <2>3, <2>4 DEF SessionConsistent
<1>2. CASE Interrupt /\ waiting = "monojob"
  <2>1. /\ SessionEnds("cancelled") /\ waiting' = None
        /\ config' = config /\ lease' = lease /\ job = "monojob"
    BY <1>2 DEF Interrupt, SessionConsistent, SessionHasOwner
  <2>2. TypeOK'
    BY Zenon, <2>1 DEF SessionConsistent, TypeOK, SessionEnds
  <2>3. InProgressIsLive'
    BY Zenon, <2>1, Constants DEF SessionConsistent, InProgressIsLive, SessionEnds
  <2>4. SessionHasOwner' /\ LeaseBeforeProxy'
    BY <2>1, Constants DEF SessionHasOwner, LeaseBeforeProxy, SessionEnds, States
  <2> QED BY <2>2, <2>3, <2>4 DEF SessionConsistent
<1>3. CASE pxebs
  <2>1. /\ state = None /\ StartSession("pxebs", "monojob")
        /\ waiting' = "monojob" /\ config' = config /\ lease' = lease
    BY <1>3 DEF pxebs
  <2>2. TypeOK'
    BY Zenon, <2>1 DEF SessionConsistent, TypeOK, StartSession, States
  <2>3. InProgressIsLive'
    BY Zenon, <2>1, Constants DEF SessionConsistent, InProgressIsLive, StartSession
  <2>4. SessionHasOwner' /\ LeaseBeforeProxy'
    BY <2>1, Constants DEF SessionHasOwner, LeaseBeforeProxy, StartSession, States
  <2> QED BY <2>2, <2>3, <2>4 DEF SessionConsistent
<1>4. ASSUME NEW d \in Device, netdev_close(d) PROVE SessionConsistent'
  <2>1. state # None
    BY <1>4, Constants DEF netdev_close, SessionConsistent, SessionHasOwner
  <2>2. lease' \in [Device -> Packets \cup {None}]
    BY Zenon, <1>4 DEF netdev_close, SessionConsistent, TypeOK
  <2> QED BY <1>4, <2>1, <2>2, FinishedStep DEF netdev_close
<1> QED BY <1>1, <1>2, <1>3, <1>4

LEMMA TickStep ==
  ASSUME SessionConsistent, Tick, timing' = timing
  PROVE  SessionConsistent'
<1>0. elapsed \in Nat /\ running \in Nat
  BY Zenon DEF SessionConsistent, TypeOK
<1>1. /\ state # None /\ elapsed' \in Nat /\ running' \in Nat
      /\ UNCHANGED <<state, job, timeout, offer, config, waiting, lease>>
  <2>1. /\ state # None /\ elapsed' = elapsed + 1 /\ running' = running + 1
        /\ UNCHANGED <<state, job, timeout, offer, config, waiting, lease>>
    BY Zenon DEF Tick, userVars
  <2> QED BY <1>0, <2>1
<1>2. LeaseBeforeProxy'
  BY <1>1 DEF SessionConsistent, LeaseBeforeProxy
<1> QED BY Zenon, <1>1, <1>2, ContinuesStep DEF SessionConsistent, TypeOK

-----------------------------------------------------------------------------
\* Sessions, configurations and the user's job stay consistent, whatever is
\* started, interrupted, closed, received or timed out in whatever order.
THEOREM Consistency == Spec => []SessionConsistent
<1>1. SessionConsistent /\ [Next]_vars => SessionConsistent'
  <2> SUFFICES ASSUME SessionConsistent, [Next]_vars PROVE SessionConsistent'
    OBVIOUS
  <2>1. CASE UNCHANGED vars
    BY Zenon, <2>1 DEF vars, sessionVars, userVars, SessionConsistent, TypeOK,
         InProgressIsLive, SessionHasOwner, LeaseBeforeProxy
  <2>2. CASE Next
    BY <2>2, ExpiredStep, DeliverStep, ConfigureStep, UserStep, TickStep DEF Next
  <2> QED BY <2>1, <2>2
<1> QED BY <1>1, InitHolds, PTL DEF Spec

\* A configuration is in progress exactly while its session is alive.
THEOREM ProgressIsLive == Spec => []InProgressIsLive
<1>1. SessionConsistent => InProgressIsLive
  BY DEF SessionConsistent
<1> QED BY <1>1, Consistency, PTL

-----------------------------------------------------------------------------
\* What the step of a session in the request or proxy stage that goes on to
\* ProxyDHCP, or ends well, does to the lease.
LeaseStep ==
  /\ state \in {"request", "proxy"}
  /\ state' = "proxy" \/ (state' = None /\ rc' = "ok")
  => /\ lease'[job] # None
     /\ lease'[job].ip = offer.ip
     /\ lease'[job].server = offer.server

\* A step that leaves the lease alone, and that only the proxy stage takes.
LEMMA KeepsLease ==
  ASSUME SessionConsistent, lease' = lease,
         state = "request" => state' # "proxy" /\ ~(state' = None /\ rc' = "ok")
  PROVE  LeaseStep
BY DEF SessionConsistent, LeaseBeforeProxy, LeaseStep

\* A session that ends for another reason gives no lease.
LEMMA EndsBadly ==
  ASSUME SessionConsistent, NEW status \in {"timed out", "cancelled"},
         SessionEnds(status)
  PROVE  LeaseStep
BY Zenon, Constants DEF SessionEnds, LeaseStep, States

LEMMA LeaseNext ==
  ASSUME SessionConsistent, Next
  PROVE  LeaseStep
<1>1. CASE dhcp_timer_expired
  <2>1. lease' = lease
    BY <1>1, Zenon DEF dhcp_timer_expired
  <2>2. CASE dhcp_finished("timed out")
    BY Zenon, <2>2, EndsBadly DEF dhcp_finished
  <2>3. CASE state # "request"
    BY <2>1, <2>3, KeepsLease
  <2>4. CASE dhcp_request_expired(2 * timeout)
    BY <2>1, <2>4, KeepsLease, Constants
       DEF dhcp_request_expired, dhcp_tx, States
  <2> QED BY Zenon, <1>1, <2>2, <2>3, <2>4
          DEF dhcp_timer_expired, dhcp_discovery_expired, dhcp_proxy_expired,
              dhcp_pxebs_expired
<1>2. ASSUME NEW p \in Packets, dhcp_deliver(p) PROVE LeaseStep
  <2>1. CASE state # "request"
    <3>1. lease' = lease
      BY <1>2, <2>1 DEF dhcp_deliver, dhcp_discovery_rx, dhcp_request_rx,
           dhcp_proxy_rx, dhcp_pxebs_rx
    <3> QED BY <2>1, <3>1, KeepsLease
  <2>2. CASE state = "request"
    <3>1. Registered(p) /\ Acknowledges(p)
      BY <1>2, <2>2 DEF dhcp_deliver, dhcp_discovery_rx, dhcp_request_rx,
           dhcp_proxy_rx, dhcp_pxebs_rx
    <3>2. job \in Device /\ lease \in [Device -> Packets \cup {None}]
      BY Zenon, <2>2, Constants DEF SessionConsistent, SessionHasOwner, TypeOK, States
    <3> QED BY <3>1, <3>2, Constants DEF Registered, Acknowledges, LeaseStep
  <2> QED BY <2>1, <2>2
<1>3. ASSUME NEW d \in Device, ifconf(d) PROVE LeaseStep
  <2>1. CASE StartSession("discover", d)
    BY <2>1, Constants DEF StartSession, LeaseStep, States
  <2>2. CASE SessionEnds("cancelled")
    BY <2>2, EndsBadly
  <2>3. CASE UNCHANGED <<sessionVars, rc>>
    BY Zenon, <1>3, <2>3, KeepsLease, Constants DEF ifconf, sessionVars, States
  <2> QED BY Zenon, <1>3, <2>1, <2>2, <2>3 DEF ifconf, netdev_configure
<1>4. ASSUME NEW d \in Device, netdev_close(d) PROVE LeaseStep
  BY <1>4, EndsBadly DEF netdev_close, dhcp_finished
<1>5. CASE Interrupt
  <2>1. CASE SessionEnds("cancelled")
    BY <2>1, EndsBadly
  <2>2. CASE UNCHANGED <<sessionVars, rc>>
    BY <1>5, <2>2, KeepsLease, Constants DEF Interrupt, sessionVars, States
  <2> QED BY <1>5, <2>1, <2>2 DEF Interrupt
<1>6. CASE pxebs
  BY <1>6, Constants DEF pxebs, LeaseStep, States
<1>7. CASE ifconf_progress
  BY Zenon, <1>7, KeepsLease, Constants DEF ifconf_progress, sessionVars, States
<1>8. CASE Tick
  <2>1. state' = state /\ lease' = lease
    BY <1>8, Zenon DEF Tick
  <2> QED BY <2>1, KeepsLease, Constants DEF States
<1> QED BY <1>1, <1>2, <1>3, <1>4, <1>5, <1>6, <1>7, <1>8 DEF Next

\* A device that goes on to ProxyDHCP, or whose configuration ends well, holds
\* the lease that was offered to it, for all servers, packets and timeouts.
THEOREM LeaseCorrect == Spec => LeaseIsOffered
<1>1. ASSUME SessionConsistent, [Next]_vars PROVE [LeaseStep]_vars
  BY <1>1, LeaseNext
<1>2. [LeaseStep]_vars =>
        [/\ state \in {"request", "proxy"}
         /\ state' = "proxy" \/ (state' = None /\ rc' = "ok")
         => /\ lease'[job] # None
            /\ lease'[job].ip = offer.ip
            /\ lease'[job].server = offer.server]_vars
  BY DEF LeaseStep
<1> QED BY <1>1, <1>2, Consistency, PTL DEF Spec, LeaseIsOffered
=============================================================================
