------------------------------- MODULE MCDns -------------------------------
(* A host that is an alias in the second domain of the search list and has  *)
(* an address without a suffix, an alias of an alias, aliases that form a   *)
(* loop, an alias whose target cannot be parsed, and a name that is too     *)
(* long with the second domain of the search list.                          *)
EXTENDS Dns

MCName == {"h.s1", "h.s2", "h", "t", "u", "l", "m", "b"}
MCZone ==
  [n \in MCName |->
     CASE n = "h.s1" -> {[type |-> "TXT", data |-> "text"]}
       [] n = "h.s2" -> {[type |-> "CNAME", data |-> "t"]}
       [] n = "t" -> {[type |-> "CNAME", data |-> "u"]}
       [] n = "u" -> {[type |-> "A", data |-> "address of u"]}
       [] n = "h" -> {[type |-> "AAAA", data |-> "address of h"]}
       [] n = "l" -> {[type |-> "CNAME", data |-> "m"]}
       [] n = "m" -> {[type |-> "CNAME", data |-> "l"]}
       [] n = "b" -> {[type |-> "CNAME", data |-> Malformed]}]
MCGlue == {[name |-> "ns", type |-> "A", data |-> "address of ns"]}
MCRequests == {<<"h.s1", "h.s2", "h">>, <<"h.s1", "h">>, <<"t">>, <<"l">>, <<"b">>, <<"h.s1">>,
               <<"h.s1", Malformed, "h">>}

\* The alias of an alias, which has an address.
MCAlias == {<<"h.s1", "h.s2", "h">>}
=============================================================================
