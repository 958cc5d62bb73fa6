-------------------------------- MODULE Dns --------------------------------
(***************************************************************************)
(* The DNS resolver, net/udp/dns.c: one request, from dns_resolv until     *)
(* its interface to the requester is shut down.                            *)
(*                                                                         *)
(* A name is tried with each suffix of the search list and at last as it   *)
(* stands: these are the candidates.  Each is asked for an AAAA record (if *)
(* the nameserver has an IPv6 address), an A record and a CNAME record.  A *)
(* response is searched for records of the name asked for, and is searched *)
(* again from the start for the new name whenever a CNAME was found.       *)
(*                                                                         *)
(* Encoded names and resource records are values here.  Datagrams are      *)
(* lost, repeated and delayed.  Every query that is sent takes a new       *)
(* random identifier, taken to be different from the ones before, so only  *)
(* responses to the query sent last are looked at.                         *)
(***************************************************************************)
EXTENDS Naturals, Sequences, FiniteSets, SequencesExt

CONSTANTS
  Name,          \* the names that exist or are asked for
  Zone,          \* [Name -> SUBSET [type, data]]: what the nameserver knows
  Glue,          \* records of other names that a response may carry
  Requests,      \* sequences of candidates; a name that is too long is Malformed
  MaxRecursion,  \* DNS_MAX_CNAME_RECURSION
  MaxTimeout,    \* expiries of the retry timer up to the one that fails
  Malformed      \* a record or a name that cannot be parsed

Types == {"AAAA", "A", "CNAME", "TXT"}
Nothing == <<>>

ASSUME DnsAssumption ==
  /\ DOMAIN Zone = Name
  /\ \A n \in Name : \A z \in Zone[n] : z.type \in Types
  /\ Requests \subseteq Seq(Name \cup {Malformed}) \ {<<>>}
  /\ \A r \in Requests : r[1] \in Name
  /\ MaxRecursion \in Nat /\ MaxTimeout \in Nat \ {0}

VARIABLES
  candidates, \* the name with each suffix of the search list, and without
  first,      \* dns->qtype: the type asked for first
  search,     \* dns->search.offset, as the place of a candidate
  name,       \* dns->name
  qtype,      \* dns->question->qtype
  recursion,  \* dns->recursion
  timer,      \* 0: stopped; otherwise how often it has backed off, plus 1
  query,      \* the query sent last, or Nothing when it could not be sent
  older,      \* the queries sent before
  denied,     \* history: the queries that a response had no answer to
  rc,         \* "running", or the status the requester is given
  address     \* dns->address, or Nothing

vars == <<candidates, first, search, name, qtype, recursion, timer,
          query, older, denied, rc, address>>
-----------------------------------------------------------------------------
(* The nameserver.  A response holds every record it has of the name and    *)
(* type, and may follow CNAME records, add records of other names, list     *)
(* them in any order and be damaged at its end.                             *)

RecordsOf(n, t) ==
  {[name |-> n, type |-> z.type, data |-> z.data] :
     z \in {z \in Zone[n] : z.type \in {t, "CNAME"}}}

Followed(n, t) ==
  UNION {RecordsOf(z.data, t) : z \in {z \in Zone[n] : z.type = "CNAME" /\ z.data \in Name}}

Responses ==
  [q \in Name \X {"AAAA", "A", "CNAME"} |->
     LET sure == RecordsOf(q[1], q[2])
         more == (Followed(q[1], q[2]) \cup Glue) \ sure
         whole == UNION {SetToSeqs(sure \cup m) : m \in SUBSET more}
     IN  whole \cup {Append(r, Malformed) : r \in whole}]
-----------------------------------------------------------------------------
(* dns_question: the name with the suffix at the current place of the       *)
(* search list, asked for the first type.  At the end of the list the name  *)
(* stands as it is.                                                         *)
AtEnd(place) == place = Len(candidates)

Init ==
  /\ candidates \in Requests
  /\ first \in {"A", "AAAA"}
  /\ search = 1 /\ name = candidates[1] /\ qtype = first
  /\ recursion = 0 /\ timer = 1
  /\ query = Nothing /\ older = {} /\ denied = {}
  /\ rc = "running" /\ address = Nothing

\* dns_done: the timer is stopped and both interfaces are shut down.
dns_done(status) ==
  /\ rc' = status
  /\ timer' = 0 /\ query' = Nothing

\* dns_send_packet: the timer is started and a new identifier is taken, also
\* when the query then cannot be sent.
dns_send_packet_timer_last(n, t, timeout) ==
  /\ older' = older \cup ({query} \ {Nothing})
  /\ \/ query' = <<n, t>> /\ timer' = timeout
     \/ query' = Nothing /\ timer' = 0
dns_send_packet(n, t, timeout) ==
  /\ timer' = timeout
  /\ older' = older \cup ({query} \ {Nothing})
  /\ query' \in {<<n, t>>, Nothing}

dns_timer_expired ==
  /\ rc = "running" /\ timer > 0
  /\ IF timer > MaxTimeout
     THEN dns_done("timed out") /\ UNCHANGED older
     ELSE dns_send_packet(name, qtype, timer + 1) /\ UNCHANGED rc
  /\ UNCHANGED <<candidates, first, search, name, qtype, recursion, denied, address>>
-----------------------------------------------------------------------------
(* The loop of dns_xfer_deliver over the records of a response.             *)

Matches_any(record, n) == TRUE
Matches(record, n) == record.name = n

RECURSIVE Scan(_, _, _)
Scan(records, i, at) ==
  IF i > Len(records) THEN [at EXCEPT !.found = "nothing"]
  ELSE LET record == records[i] IN
    CASE record = Malformed -> [at EXCEPT !.found = "malformed"]
      [] record # Malformed /\ ~Matches(record, at.name) -> Scan(records, i + 1, at)
      [] record # Malformed /\ Matches(record, at.name) ->
           CASE record.type \in {"A", "AAAA"} ->
                  [at EXCEPT !.found = "address", !.data = record.data]
             [] record.type = "CNAME" ->
                  IF at.recursion + 1 > MaxRecursion
                  THEN [at EXCEPT !.found = "recursion exceeded"]
                  ELSE IF record.data = Malformed
                  THEN [at EXCEPT !.found = "bad question"]
                  ELSE Scan(records, 1, [at EXCEPT !.recursion = @ + 1,
                                           !.name = record.data,
                                           !.search = Len(candidates),
                                           !.qtype = first])
             [] record.type = "TXT" -> Scan(records, i + 1, at)

\* The place after the current one in the search list.
dns_skip_search(place) == place + 1

\* What a response without an address leads to, by the type asked for:
\* AAAA, A, CNAME, then the next suffix, with which the name may be too long.
NextQuestion(asked, at) ==
  CASE asked = "AAAA" -> [at EXCEPT !.qtype = "A"]
    [] asked = "A" -> [at EXCEPT !.qtype = "CNAME"]
    [] asked = "CNAME" /\ asked = first -> at
    [] asked = "CNAME" /\ AtEnd(at.search) -> [at EXCEPT !.found = "no record"]
    [] OTHER ->
         LET next == dns_skip_search(at.search)
         IN  IF candidates[next] = Malformed
             THEN [at EXCEPT !.search = next, !.found = "bad question"]
             ELSE [at EXCEPT !.search = next, !.name = candidates[next], !.qtype = first]

\* The identifier of a response is that of the query sent last.
IdMatches_unchecked(last) == TRUE
IdMatches(last) == last

(* dns_xfer_deliver of a response to query q, the last one or an older one.  *)
(* A malformed response is dropped, but a CNAME found before the malformed   *)
(* record has already changed the question.  A timer that is stopped by a    *)
(* response keeps about the timeout that it had backed off to.               *)
dns_xfer_deliver(q, last) ==
  /\ rc = "running"
  /\ IF ~IdMatches(last) THEN UNCHANGED vars ELSE
     \E records \in Responses[q] :
       LET at == Scan(records, 1, [name |-> name, search |-> search, qtype |-> qtype,
                                   recursion |-> recursion, found |-> "", data |-> Nothing])
           to == IF at.found = "nothing" THEN NextQuestion(qtype, at) ELSE at
       IN  /\ name' = to.name /\ search' = to.search /\ qtype' = to.qtype
           /\ recursion' = to.recursion
           /\ denied' = IF at.found = "nothing" THEN denied \cup {q} ELSE denied
           /\ address' = to.data
           /\ CASE to.found = "address" -> dns_done("resolved") /\ UNCHANGED older
                [] to.found \in {"recursion exceeded", "bad question", "no record"} ->
                     dns_done(to.found) /\ UNCHANGED older
                [] to.found = "malformed" -> UNCHANGED <<rc, timer, query, older>>
                [] to.found = "nothing" ->
                     /\ \E timeout \in 1..(MaxTimeout + 1) :
                          dns_send_packet(to.name, to.qtype, timeout)
                     /\ UNCHANGED rc
           /\ UNCHANGED <<candidates, first>>

\* The requester shuts down its interface, or the socket is closed.
Cancel ==
  /\ rc = "running"
  /\ dns_done("cancelled")
  /\ UNCHANGED <<candidates, first, search, name, qtype, recursion, older, denied, address>>

Finished == rc # "running" /\ UNCHANGED vars

Next ==
  \/ dns_timer_expired
  \/ query # Nothing /\ dns_xfer_deliver(query, TRUE)
  \/ \E q \in older : dns_xfer_deliver(q, FALSE)
  \/ Cancel
  \/ Finished

Spec == Init /\ [][Next]_vars
\* retry_poll serves every timer that has run for its timeout.
FairSpec == Spec /\ WF_vars(dns_timer_expired)
-----------------------------------------------------------------------------
\* The names that CNAME records lead to from a set of names.
RECURSIVE Aliases(_)
Aliases(names) ==
  LET more == names \cup {z.data : z \in {z \in UNION {Zone[n] : n \in names} :
                                          z.type = "CNAME" /\ z.data \in Name}}
  IN  IF more = names THEN names ELSE Aliases(more)

(* The address given to the requester is recorded for the name that was      *)
(* asked for last, and that name was reached from a candidate by CNAME       *)
(* records only: neither a record of another name in the same response nor   *)
(* a response to an earlier question is taken (dns_xfer_deliver).            *)
AddressOfName ==
  rc = "resolved" =>
    /\ name \in Aliases({candidates[i] : i \in 1..Len(candidates)} \cap Name)
    /\ \E z \in Zone[name] : z.type \in {"A", "AAAA"} /\ z.data = address

(* As long as no CNAME was followed, the search list is worked through in    *)
(* order: a candidate is left behind, and the lookup is ended for want of a  *)
(* record, only after responses to its questions of every type had no        *)
(* answer, whatever was lost, repeated or came late                          *)
(* (dns_xfer_deliver, dns_send_packet).                                      *)
SearchedInOrder ==
  recursion = 0 =>
    \A i \in 1..Len(candidates) :
      i < search \/ rc = "no record" =>
        \A t \in {first, "A", "CNAME"} : <<candidates[i], t>> \in denied

(* A request ends: with an address, an error or a timeout.  CNAME records    *)
(* that form a loop, responses that are dropped and queries that cannot be   *)
(* sent do not keep it going (dns_send_packet starts the timer first).       *)
DnsEnds == <>(rc # "running")

(* net/udp/dns.c, dns_xfer_deliver: "We asked for a CNAME record.  If we got *)
(* a response (i.e. if the next AAAA/A query is already set up), then issue  *)
(* it."  A response that holds the CNAME record asked for does not end the   *)
(* lookup with "DNS name does not exist".                                    *)
CnameIsFollowed ==
  [][qtype = "CNAME" /\ recursion' > recursion => rc' # "no record"]_vars
=============================================================================
