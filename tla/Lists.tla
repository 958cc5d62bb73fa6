------------------------------- MODULE Lists -------------------------------
(***************************************************************************)
(* The linked lists of include/ipxe/list.h, as sequences of the structures *)
(* that are linked.                                                        *)
(***************************************************************************)
EXTENDS Naturals, Sequences

\* The sequence s without its i-th element.
Without(s, i) == SubSeq(s, 1, i - 1) \o SubSeq(s, i + 1, Len(s))

\* The list without its element e.
list_del(list, e) == Without(list, CHOOSE k \in DOMAIN list : list[k] = e)
=============================================================================
