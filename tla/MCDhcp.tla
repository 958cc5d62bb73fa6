------------------------------- MODULE MCDhcp -------------------------------
(* Two devices, two DHCP servers, a ProxyDHCP server with and one without   *)
(* PXE options in its offers, and both sets of timeouts of config/dhcp.h.   *)
EXTENDS Dhcp

CONSTANTS d1, d2

Packet(type, port, ip, server) ==
  [type |-> type, port |-> port, ip |-> ip, server |-> server, peer |-> server,
   pxeclient |-> FALSE, pxeopts |-> FALSE, priority |-> 0, nopxe |-> FALSE]

MCPackets ==
  {Packet("offer", "bootps", "ip1", "A"), Packet("ack", "bootps", "ip1", "A"),
   [Packet("offer", "bootps", "ip2", "B") EXCEPT !.priority = 1, !.nopxe = TRUE],
   Packet("ack", "bootps", "ip2", "B"),
   [Packet("offer", "bootps", None, "P") EXCEPT !.pxeclient = TRUE],
   Packet("ack", "pxe", None, "P"),
   [Packet("offer", "bootps", None, "Q") EXCEPT !.pxeclient = TRUE, !.pxeopts = TRUE],
   Packet("nak", "bootps", None, "A")}

MCPxebsLists == {<<<<"broadcast", "P", "Q">>, {"P", "Q"}>>, <<<<"Q">>, Any>>, <<<<>>, Any>>}

Seconds(min, max) == [min |-> 4 * min, max |-> 4 * max]

\* In quarters of a second: the defaults, and the values "as per PXE spec".
MCTimings ==
  {[limits |-> [discover |-> Seconds(1, 10), request |-> Seconds(0, 10),
                proxy |-> Seconds(0, 10), pxebs |-> Seconds(1, 10)],
    disc_proxy |-> 8, req_proxy |-> 8, pxebs_max |-> 12],
   [limits |-> [discover |-> Seconds(4, 32), request |-> Seconds(0, 4),
                proxy |-> Seconds(0, 8), pxebs |-> Seconds(0, 8)],
    disc_proxy |-> 44, req_proxy |-> 28, pxebs_max |-> 28]}
=============================================================================
