----------------------------- MODULE Neighbour ------------------------------
(***************************************************************************)
(* Neighbour discovery, net/neighbour.c and the requests of net/arp.c,     *)
(* composed with the network devices.                                      *)
(*                                                                         *)
(* Packets for a neighbour whose link-layer address is not known wait in   *)
(* its cache entry, which repeats a request until it is answered or the    *)
(* retry timer gives up.  An entry is removed when its timer gives up, when *)
(* any device is closed, and whenever memory is short, also while one of   *)
(* its own functions is running: the variable "pc" is the function of this *)
(* file that is in progress when the allocator or the driver is called.    *)
(***************************************************************************)
EXTENDS NetDevice

CONSTANTS
  Neighbour,   \* network-layer addresses, each reached through one device
  Dev,         \* [Neighbour -> Device]
  None,
  MaxPackets,  \* packets sent in a behaviour
  MaxTries     \* expiries of a timer up to the one that fails

ASSUME NeighbourAssumption ==
  /\ IsFiniteSet(Neighbour) /\ None \notin Neighbour
  /\ Dev \in [Neighbour -> Device]
  /\ MaxPackets \in Nat /\ MaxTries \in Nat \ {0}

VARIABLES
  neighbours,  \* the cache: a sequence of Neighbour, most recently used first
  known,       \* the entries whose ll_dest has been filled in
  timer,       \* the entries whose retry timer is running
  tries,       \* [Neighbour -> Nat]: how often it has expired
  waiting,     \* [Neighbour -> Seq(Nat)]: the tx_queue of the entry
  nrefs,       \* [Neighbour -> Nat]: references to the entry, 0 if it is freed
  pc,          \* the function in progress and its entry
  dest,        \* history: Seq(Neighbour): the neighbour that each packet is for
  leaked       \* history: the packets that neighbour_tx failed for

entryVars == <<neighbours, known, timer, tries, waiting, nrefs>>
vars == <<deviceVars, entryVars, pc, dest, leaked>>

In(op, n) == [op |-> op, n |-> n]
Idle == In("idle", None)

Cached(n) == n \in Elements(neighbours)

\* neighbour_find moves the entry to the start of the cache.
Found(n) == <<n>> \o list_del(neighbours, n)

Init ==
  /\ NetDeviceInit
  /\ neighbours = << >> /\ known = {} /\ timer = {}
  /\ tries = [n \in Neighbour |-> 0]
  /\ waiting = [n \in Neighbour |-> << >>]
  /\ nrefs = [n \in Neighbour |-> 0]
  /\ pc = Idle /\ dest = << >> /\ leaked = {}

\* An entry that has no reference left is freed, and drops its device.
Dropped(count, d) ==
  Cardinality({n \in Neighbour : Dev[n] = d /\ nrefs[n] > 0 /\ count[n] = 0})

PutEntry(count) ==
  /\ nrefs' = count
  /\ drefs' = [d \in Device |-> drefs[d] - Dropped(count, d)]

One(b) == IF b THEN 1 ELSE 0
-----------------------------------------------------------------------------
\* The entry after neighbour_create, neighbour_discover and the enqueueing.
neighbour_create(n, p) ==
  /\ nrefs' = [nrefs EXCEPT ![n] = 2]
  /\ drefs' = [drefs EXCEPT ![Dev[n]] = @ + 1]
  /\ neighbours' = <<n>> \o neighbours
  /\ timer' = timer \cup {n}
  /\ tries' = [tries EXCEPT ![n] = 0]
  /\ waiting' = [waiting EXCEPT ![n] = <<p>>]

\* An allocation fails only when no cache is left to discard.
NothingToDiscard == NothingDeferred /\ neighbours = << >>

neighbour_tx(n) ==
  LET p == Len(dest) + 1
  IN  /\ pc = Idle /\ Dev[n] \in open /\ p <= MaxPackets
      /\ dest' = Append(dest, n)
      /\ \/ /\ Cached(n) /\ n \notin timer
            /\ netdev_tx(Dev[n], p)
            /\ neighbours' = Found(n)
            /\ UNCHANGED <<open, registered, driven, drefs, timer, known, tries, waiting, nrefs, leaked>>
         \/ /\ Cached(n) /\ n \in timer
            /\ waiting' = [waiting EXCEPT ![n] = Append(@, p)]
            /\ neighbours' = Found(n)
            /\ UNCHANGED <<deviceVars, timer, known, tries, nrefs, leaked>>
         \/ /\ ~Cached(n)
            /\ neighbour_create(n, p)
            /\ UNCHANGED <<open, registered, driven, queueVars, known, leaked>>
         \/ /\ ~Cached(n) /\ NothingToDiscard
            /\ leaked' = leaked \cup {p}
            /\ UNCHANGED <<deviceVars, entryVars>>
      /\ UNCHANGED pc

\* neighbour_update, of an ARP packet or a neighbour advertisement, up to the
\* loop of neighbour_discovered.
neighbour_update(n) ==
  /\ pc = Idle /\ Dev[n] \in open /\ Cached(n)
  /\ neighbours' = Found(n)
  /\ known' = known \cup {n}
  /\ timer' = timer \ {n}
  /\ nrefs' = [nrefs EXCEPT ![n] = @ - One(n \in timer) + 1]
  /\ pc' = In("discovered", n)
  /\ UNCHANGED <<deviceVars, tries, waiting, dest, leaked>>

\* neighbour_define of an address that is not in the cache: the source of a
\* neighbour solicitation or a router advertisement.
neighbour_define(n) ==
  /\ pc = Idle /\ Dev[n] \in open /\ ~Cached(n)
  /\ nrefs' = [nrefs EXCEPT ![n] = 1]
  /\ drefs' = [drefs EXCEPT ![Dev[n]] = @ + 1]
  /\ neighbours' = <<n>> \o neighbours
  /\ known' = known \cup {n}
  /\ UNCHANGED <<open, registered, driven, queueVars, timer, tries, waiting, pc, dest, leaked>>

\* The loop of neighbour_discovered: one packet, or the end of the function.
neighbour_discovered ==
  LET n == pc.n
  IN  /\ pc.op = "discovered"
      /\ \/ /\ waiting[n] # << >>
            /\ waiting' = [waiting EXCEPT ![n] = Tail(@)]
            /\ netdev_tx(Dev[n], Head(waiting[n]))
            /\ UNCHANGED <<drefs, nrefs, pc>>
         \/ /\ waiting[n] = << >>
            /\ PutEntry([nrefs EXCEPT ![n] = @ - 1])
            /\ pc' = Idle
            /\ UNCHANGED <<queueVars, waiting>>
      /\ UNCHANGED <<open, registered, driven, neighbours, known, timer, tries, dest, leaked>>
-----------------------------------------------------------------------------
\* neighbour_destroy of one entry or of all of them, with the others left in
\* the cache: the queues are discarded, and the cache and the timer drop their
\* references.
neighbour_destroy_keeps_queue(entries, left) ==
  /\ neighbours' = left
  /\ timer' = timer \ entries
  /\ UNCHANGED waiting
  /\ known' = known \ entries
  /\ tries' = [n \in Neighbour |-> IF n \in entries THEN 0 ELSE tries[n]]
neighbour_destroy(entries, left) ==
  /\ neighbours' = left
  /\ timer' = timer \ entries
  /\ waiting' = [n \in Neighbour |-> IF n \in entries THEN << >> ELSE waiting[n]]
  /\ known' = known \ entries
  /\ tries' = [n \in Neighbour |-> IF n \in entries THEN 0 ELSE tries[n]]

\* The references that the entries lose, and the packets that are freed.
Released(entries) ==
  [n \in Neighbour |-> nrefs[n] - One(n \in entries) - One(n \in entries \cap timer)]
Discarded(entries) == UNION {Elements(waiting[n]) : n \in entries}

\* timer_expired and neighbour_expired, up to the call of tx_request.
neighbour_expired_ignores_fail(n) ==
  /\ pc = Idle /\ n \in timer
  /\ nrefs' = [nrefs EXCEPT ![n] = @ + 1]
  /\ pc' = In("expired", n)
  /\ UNCHANGED <<deviceVars, neighbours, known, timer, tries, waiting, dest, leaked>>
neighbour_expired(n) ==
  /\ pc = Idle /\ n \in timer
  /\ \/ /\ tries[n] + 1 >= MaxTries
        /\ neighbour_destroy({n}, list_del(neighbours, n))
        /\ PutEntry(Released({n}))
        /\ freed' = freed \cup Discarded({n})
        /\ UNCHANGED <<open, registered, driven, tx_queue, tx_deferred, wire, pc>>
     \/ /\ tries[n] + 1 < MaxTries
        /\ tries' = [tries EXCEPT ![n] = @ + 1]
        /\ nrefs' = [nrefs EXCEPT ![n] = @ + 1]
        /\ pc' = In("expired", n)
        /\ UNCHANGED <<deviceVars, neighbours, known, timer, waiting>>
  /\ UNCHANGED <<dest, leaked>>

\* The rest: the request is transmitted, or there is no memory for it, and
\* timer_expired drops the reference that the timer held.
tx_request_then_starts_timer ==
  /\ pc.op = "expired"
  /\ \/ netdev_tx(Dev[pc.n], 0)
     \/ NothingToDiscard /\ UNCHANGED queueVars
  /\ PutEntry([nrefs EXCEPT ![pc.n] = @ - One(pc.n \in timer)])
  /\ timer' = timer \cup {pc.n}
  /\ pc' = Idle
  /\ UNCHANGED <<open, registered, driven, neighbours, known, tries, waiting, dest, leaked>>
tx_request ==
  /\ pc.op = "expired"
  /\ \/ netdev_tx(Dev[pc.n], 0)
     \/ NothingToDiscard /\ UNCHANGED queueVars
  /\ PutEntry([nrefs EXCEPT ![pc.n] = @ - 1])
  /\ pc' = Idle
  /\ UNCHANGED <<open, registered, driven, neighbours, known, timer, tries, waiting, dest, leaked>>

\* discard_cache: an allocation anywhere finds memory short.  The discarders
\* run in the order of their cost, until one has discarded something.
discard_deferred ==
  /\ net_discard
  /\ UNCHANGED <<entryVars, pc, dest, leaked>>

neighbour_discard ==
  LET last == neighbours[Len(neighbours)]
  IN  /\ NothingDeferred /\ neighbours # << >>
      /\ neighbour_destroy({last}, list_del(neighbours, last))
      /\ PutEntry(Released({last}))
      /\ freed' = freed \cup Discarded({last})
      /\ UNCHANGED <<open, registered, driven, tx_queue, tx_deferred, wire, pc, dest, leaked>>

\* netdev_close: neighbour_flush is notified, then the queues are flushed.
netdev_close(d) ==
  /\ pc = Idle /\ d \in open
  /\ neighbour_destroy(Elements(neighbours), << >>)
  /\ PutEntry(Released(Elements(neighbours)))
  /\ Close(d)
  /\ freed' = freed \cup Discarded(Elements(neighbours)) \cup (Flushed(d) \ {0})
  /\ UNCHANGED <<registered, driven, pc, dest, leaked>>

\* unregister_netdev of a closed device (the remove callback flushes the
\* neighbours again), and the driver's netdev_put that follows it.
unregister_netdev(d) ==
  LET all == Elements(neighbours)
  IN  /\ pc = Idle /\ d \in driven \ open
      /\ neighbour_destroy(all, << >>)
      /\ nrefs' = Released(all)
      /\ drefs' = [e \in Device |-> drefs[e] - Dropped(Released(all), e) - 2 * One(e = d)]
      /\ registered' = registered \ {d} /\ driven' = driven \ {d}
      /\ freed' = freed \cup Discarded(all)
      /\ UNCHANGED <<open, tx_queue, tx_deferred, wire, pc, dest, leaked>>

\* register_netdev fails after the remove callbacks of the network drivers have
\* been called, and with them that of this file.
RegistrationFails(d) ==
  LET all == Elements(neighbours)
  IN  /\ pc = Idle /\ drefs[d] = 0
      /\ neighbour_destroy(all, << >>)
      /\ nrefs' = Released(all)
      /\ drefs' = [e \in Device |-> drefs[e] - Dropped(Released(all), e) + One(e = d)]
      /\ registered' = registered \cup {d}
      /\ freed' = freed \cup Discarded(all)
      /\ UNCHANGED <<open, driven, tx_queue, tx_deferred, wire, pc, dest, leaked>>

Complete(d) ==
  /\ pc = Idle /\ netdev_tx_complete_next(d)
  /\ UNCHANGED <<entryVars, pc, dest, leaked>>

DeviceArrives(d) ==
  /\ pc = Idle
  /\ netdev_open(d) \/ register_netdev(d)
  /\ UNCHANGED <<entryVars, pc, dest, leaked>>

Next ==
  \/ \E n \in Neighbour :
       neighbour_tx(n) \/ neighbour_update(n) \/ neighbour_define(n) \/ neighbour_expired(n)
  \/ neighbour_discovered \/ tx_request \/ discard_deferred \/ neighbour_discard
  \/ \E d \in Device :
       \/ Complete(d) \/ netdev_close(d) \/ unregister_netdev(d)
       \/ RegistrationFails(d) \/ DeviceArrives(d)

Spec == Init /\ [][Next]_vars

\* Every function returns, timers expire (retry_step polls them for ever), and
\* hardware completes what it has been given while its device is open.
FairSpec ==
  /\ Spec
  /\ WF_vars(neighbour_discovered \/ tx_request)
  /\ \A n \in Neighbour : SF_vars(neighbour_expired(n))
  /\ \A d \in {Dev[n] : n \in Neighbour} : SF_vars(Complete(d))
-----------------------------------------------------------------------------
Packet == DOMAIN dest

\* Type invariant of the devices' counts and of the cache.
TypeOK ==
  /\ open \subseteq driven /\ driven \subseteq registered /\ registered \subseteq Device
  /\ drefs \in [Device -> Nat]
  /\ neighbours \in Seq(Neighbour)
  /\ \A j, k \in DOMAIN neighbours : neighbours[j] = neighbours[k] => j = k
  /\ known \cup timer \subseteq Elements(neighbours)
  /\ tries \in [Neighbour -> Nat] /\ nrefs \in [Neighbour -> Nat]
  /\ waiting \in [Neighbour -> Seq(Nat)] /\ dest \in Seq(Neighbour)
  /\ pc \in {Idle} \cup {In(op, n) : op \in {"expired", "discovered"}, n \in Neighbour}

Places(p) ==
  UNION {{<<n, k>> : k \in {j \in DOMAIN waiting[n] : waiting[n][j] = p}} : n \in Neighbour}
  \cup UNION {{<<d, "tx", k>> : k \in {j \in DOMAIN tx_queue[d] : tx_queue[d][j] = p}}
              : d \in Device}
  \cup UNION {{<<d, "deferred", k>> : k \in {j \in DOMAIN tx_deferred[d] : tx_deferred[d][j] = p}}
              : d \in Device}

\* A packet buffer is in exactly one queue, or has been freed, or is one that
\* neighbour_tx could not create an entry for: none is freed while it is still
\* linked, and none is lost on any path of discovery, discarding or closing.
OnePlace ==
  \A p \in Packet : Cardinality(Places(p)) + One(p \in freed) + One(p \in leaked) = 1

\* Packets for one neighbour reach the hardware in the order in which they were
\* sent, whether they waited for discovery, for space in the ring, or neither.
InOrder ==
  \A d \in Device : \A j, k \in DOMAIN wire[d] :
    j < k /\ dest[wire[d][j]] = dest[wire[d][k]] => wire[d][j] < wire[d][k]

\* The assertions of netdev_tx_flush: a device that is closed has no packets,
\* although the loop ends when tx_queue, and not tx_deferred, is empty.
FlushAssertion ==
  \A d \in Device \ open : tx_queue[d] = << >> /\ tx_deferred[d] = << >>

\* Every entry has one reference of the cache, one of its running timer and one
\* of the function that is using it: an entry that memory pressure destroys
\* inside its own callback is freed when the callback has returned, and not
\* before.  Every device has one reference of the list, one of its driver and
\* those of its entries; a failed registration leaves that of the list.
RefsExact ==
  /\ \A n \in Neighbour :
       nrefs[n] = One(Cached(n)) + One(n \in timer) + One(pc.n = n)
  /\ \A d \in Device :
       drefs[d] = One(d \in registered) + One(d \in driven)
                  + Cardinality({n \in Neighbour : Dev[n] = d /\ nrefs[n] > 0})

\* Every buffer is accounted for on every path of neighbour.c and netdevice.c.
BuffersAccountedFor ==
  freed \cup leaked \subseteq Packet /\ OnePlace /\ FlushAssertion

\* An entry of the cache knows the address of its neighbour or is asking for it
\* (neighbour_has_ll_dest takes a stopped timer for a known address), and only
\* one that is asking, or has just been answered, has packets waiting.
KnownOrAsking ==
  \A n \in Neighbour :
    /\ Cached(n) => (n \in known <=> n \notin timer)
    /\ waiting[n] # << >> => n \in timer \/ pc = In("discovered", n)

\* The life of a cache entry: what every function of neighbour.c, and every
\* call back into it when memory is short, keeps true of all entries.
EntriesConsistent == TypeOK /\ RefsExact /\ KnownOrAsking

\* Every packet is freed in the end, sent or not, unless it has been leaked:
\* after the last one has been sent, the queues drain.
EveryPacketEnds == Packet # freed \cup leaked ~> Packet = freed \cup leaked
=============================================================================
