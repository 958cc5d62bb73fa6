----------------------------- MODULE NetDevice ------------------------------
(***************************************************************************)
(* Network devices, net/netdevice.c: the transmit queues of every device,  *)
(* opening, closing, registration and reference counts.                    *)
(*                                                                         *)
(* A driver accepts a packet while its transmit ring has space, fails, or  *)
(* defers the packet when the ring is full (drivers/net/realtek.c,         *)
(* drivers/net/efi/snpnet.c and drivers/net/efi/nii.c do).  It frees the   *)
(* space in the ring before it reports a completion, so that the ring      *)
(* holds exactly the packets in tx_queue.                                  *)
(*                                                                         *)
(* Packets are numbered in the order in which they are sent; 0 stands for  *)
(* any neighbour discovery request.                                        *)
(***************************************************************************)
EXTENDS Naturals, Sequences, FiniteSets, Lists

CONSTANTS
  Device,
  RingSize   \* the size of a transmit ring

ASSUME NetDeviceAssumption == RingSize \in Nat \ {0}

VARIABLES
  open,         \* the devices that are open
  registered,   \* the devices in the list of network devices
  driven,       \* the devices whose drivers hold a reference
  drefs,        \* [Device -> Nat]: references to a device, 0 if it is freed
  tx_queue,     \* [Device -> Seq(Nat)]: packets that the driver holds
  tx_deferred,  \* [Device -> Seq(Nat)]: packets that wait for space
  wire,         \* history: [Device -> Seq(Nat)]: packets given to the hardware
  freed         \* history: the packets whose buffers have been freed

queueVars == <<tx_queue, tx_deferred, wire, freed>>
deviceVars == <<open, registered, driven, drefs, queueVars>>

Elements(s) == {s[k] : k \in DOMAIN s}

NetDeviceInit ==
  /\ open = {} /\ registered = Device /\ driven = Device
  /\ drefs = [d \in Device |-> 2]
  /\ tx_queue = [d \in Device |-> << >>]
  /\ tx_deferred = [d \in Device |-> << >>]
  /\ wire = [d \in Device |-> << >>]
  /\ freed = {}

\* The queues of a device, and what happens to packets of it in a call.
Queues(tx, deferred, sent, gone) ==
  [tx |-> tx, deferred |-> deferred, sent |-> sent, gone |-> gone]

\* The end of netdev_tx_complete_err: the first deferred packet is transmitted,
\* and if that fails the next one, and so on.  The results that are possible.
RetryDeferred(d, tx, deferred) ==
  IF deferred = << >>
    THEN {Queues(tx, deferred, << >>, {})}
  ELSE IF d \notin open
    THEN {Queues(tx, << >>, << >>, Elements(deferred))}
  ELSE IF Len(tx) >= RingSize
    THEN {Queues(tx, Append(Tail(deferred), Head(deferred)), << >>, {})}
  ELSE {Queues(tx, << >>, << >>, Elements(deferred))}
       \cup {Queues(Append(tx, deferred[k]), SubSeq(deferred, k + 1, Len(deferred)),
                    <<deferred[k]>>, {deferred[j] : j \in 1 .. (k - 1)})
             : k \in DOMAIN deferred}

\* netdev_tx_complete_err of packet "p", which is not in tx any more.
Completed(d, tx, deferred, p) ==
  {[r EXCEPT !.gone = @ \cup {p}] : r \in RetryDeferred(d, tx, deferred)}

\* netdev_tx
Transmitted_defers_in_front(d, p) ==
  LET tx == tx_queue[d]
      deferred == tx_deferred[d]
  IN  IF d \in open /\ Len(tx) >= RingSize
        THEN {Queues(tx, <<p>> \o deferred, << >>, {})}
        ELSE (IF d \in open THEN {Queues(Append(tx, p), deferred, <<p>>, {})} ELSE {})
             \cup Completed(d, tx, deferred, p)
Transmitted(d, p) ==
  LET tx == tx_queue[d]
      deferred == tx_deferred[d]
  IN  IF d \in open /\ Len(tx) >= RingSize
        THEN {Queues(tx, Append(deferred, p), << >>, {})}
        ELSE (IF d \in open THEN {Queues(Append(tx, p), deferred, <<p>>, {})} ELSE {})
             \cup Completed(d, tx, deferred, p)

Becomes(d, r) ==
  /\ tx_queue' = [tx_queue EXCEPT ![d] = r.tx]
  /\ tx_deferred' = [tx_deferred EXCEPT ![d] = r.deferred]
  /\ wire' = [wire EXCEPT ![d] = @ \o SelectSeq(r.sent, LAMBDA p : p # 0)]

netdev_tx(d, p) ==
  \E r \in Transmitted(d, p) :
    /\ Becomes(d, r)
    /\ freed' = freed \cup (r.gone \ {0})

\* The driver's poll method finds that the oldest packet has been sent, and
\* calls netdev_tx_complete_next.
netdev_tx_complete_next(d) ==
  /\ d \in open /\ tx_queue[d] # << >>
  /\ \E r \in Completed(d, Tail(tx_queue[d]), tx_deferred[d], Head(tx_queue[d])) :
       /\ Becomes(d, r)
       /\ freed' = freed \cup (r.gone \ {0})
  /\ UNCHANGED <<open, registered, driven, drefs>>

\* net_discard: memory is short, and every device drops a deferred packet.
NothingDeferred == \A d \in Device : tx_deferred[d] = << >>

net_discard ==
  /\ ~NothingDeferred
  /\ tx_deferred' = [d \in Device |-> IF tx_deferred[d] = << >> THEN << >>
                                      ELSE Tail(tx_deferred[d])]
  /\ freed' = freed \cup ({Head(tx_deferred[d]) : d \in {e \in Device : tx_deferred[e] # << >>}} \ {0})
  /\ UNCHANGED <<open, registered, driven, drefs, tx_queue, wire>>

\* A device without a driver has been nullified, and cannot be opened.
netdev_open(d) ==
  /\ d \in registered \ open
  /\ open' = IF d \in driven THEN open \cup {d} ELSE open
  /\ UNCHANGED <<registered, driven, drefs, queueVars>>

\* netdev_close, except for the notification of the upper layers.  Completing
\* the packets of tx_queue in netdev_tx_flush transmits the deferred packets,
\* which fails as the device is closed.
Flushed(d) ==
  IF tx_queue[d] = << >> THEN {}
  ELSE Elements(tx_queue[d]) \cup Elements(tx_deferred[d])

Close(d) ==
  /\ open' = open \ {d}
  /\ tx_queue' = [tx_queue EXCEPT ![d] = << >>]
  /\ tx_deferred' = [tx_deferred EXCEPT ![d] = IF tx_queue[d] = << >> THEN @ ELSE << >>]
  /\ UNCHANGED wire

\* alloc_netdev and register_netdev: one reference is that of the driver, and
\* one that of the list.  If the settings cannot be registered or a network
\* driver fails to probe the device, it is left in the list, and the driver
\* nullifies it and drops the reference of its own.
register_netdev(d) ==
  /\ drefs[d] = 0
  /\ registered' = registered \cup {d}
  /\ \/ driven' = driven \cup {d} /\ drefs' = [drefs EXCEPT ![d] = 2]
     \/ UNCHANGED driven /\ drefs' = [drefs EXCEPT ![d] = 1]
  /\ UNCHANGED <<open, queueVars>>
=============================================================================
