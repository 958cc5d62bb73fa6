-------------------------- MODULE NeighbourProofs ---------------------------
(***************************************************************************)
(* For any number of devices and neighbours: every cache entry and every   *)
(* device has exactly the references that it should have, and an entry     *)
(* knows its neighbour's address or is asking for it, although memory      *)
(* pressure may destroy an entry in the middle of its own functions.       *)
(*                                                                         *)
(* The inductive invariant IInv is EntriesConsistent with its conjuncts     *)
(* grouped by what the steps disturb.                                      *)
(***************************************************************************)
EXTENDS Neighbour, ListLemmas

\* The entries of a device that have references.
HeldOf(count, d) == {n \in Neighbour : Dev[n] = d /\ count[n] > 0}

\* The counts of the devices, and those of the entries.
DeviceRefs ==
  \A d \in Device :
    drefs[d] = One(d \in registered) + One(d \in driven) + Cardinality(HeldOf(nrefs, d))

EntryRefs ==
  \A n \in Neighbour :
    nrefs[n] = One(Cached(n)) + One(n \in timer) + One(pc.n = n)

\* The cache and the state of its entries.
CacheInv ==
  /\ neighbours \in Seq(Neighbour) /\ Once(neighbours)
  /\ known \cup timer \subseteq Elements(neighbours)

DeviceInv ==
  /\ open \subseteq driven /\ driven \subseteq registered /\ registered \subseteq Device
  /\ drefs \in [Device -> Nat] /\ nrefs \in [Neighbour -> Nat]
  /\ DeviceRefs

EntryInv ==
  /\ CacheInv
  /\ tries \in [Neighbour -> Nat]
  /\ waiting \in [Neighbour -> Seq(Nat)] /\ dest \in Seq(Neighbour)
  /\ pc \in {Idle} \cup {In(op, n) : op \in {"expired", "discovered"}, n \in Neighbour}
  /\ EntryRefs /\ KnownOrAsking

IInv == DeviceInv /\ EntryInv

\* The inductive invariant gives the property.
LEMMA IInvImplies == IInv => EntriesConsistent
<1> SUFFICES ASSUME IInv PROVE EntriesConsistent
  BY Zenon
<1>1. RefsExact
  BY DEF IInv, DeviceInv, EntryInv, RefsExact, EntryRefs, DeviceRefs, HeldOf
<1>2. \A j, k \in DOMAIN neighbours : neighbours[j] = neighbours[k] => j = k
  <2>1. DOMAIN neighbours = 1 .. Len(neighbours)
    BY LenProperties DEF IInv, EntryInv, CacheInv
  <2> QED BY <2>1 DEF IInv, EntryInv, CacheInv, Once
<1>3. TypeOK
  BY SMTT(30), <1>2 DEF TypeOK, IInv, DeviceInv, EntryInv, CacheInv
<1> QED BY <1>1, <1>3 DEF EntriesConsistent, IInv, EntryInv

-----------------------------------------------------------------------------
\* An entry that is put in front of the cache.
LEMMA FrontFacts ==
  ASSUME NEW s \in Seq(Neighbour), Once(s), NEW n \in Neighbour, n \notin Elements(s)
  PROVE  /\ <<n>> \o s \in Seq(Neighbour) /\ Once(<<n>> \o s)
         /\ Elements(<<n>> \o s) = Elements(s) \cup {n}
<1> DEFINE t == <<n>> \o s
           l == Len(s)
<1>1. l \in Nat /\ DOMAIN s = 1 .. l
  BY Zenon, LenProperties
<1>2. t \in Seq(Neighbour) /\ Len(t) = l + 1
  <2>1. <<n>> \in Seq(Neighbour) /\ Len(<<n>>) = 1
    OBVIOUS
  <2> QED BY <1>1, <2>1, ConcatProperties
<1>3. DOMAIN t = 1 .. (l + 1)
  BY Zenon, <1>2, LenProperties
<1>4. t[1] = n /\ \A k \in 2 .. (l + 1) : t[k] = s[k - 1] /\ k - 1 \in 1 .. l
  <2>1. <<n>> \in Seq(Neighbour) /\ Len(<<n>>) = 1 /\ <<n>>[1] = n
    OBVIOUS
  <2>2. \A k \in 1 .. (1 + l) : t[k] = IF k <= 1 THEN <<n>>[k] ELSE s[k - 1]
    BY <1>1, <2>1, ConcatProperties
  <2> HIDE DEF t
  <2> QED BY SMTT(30), <1>1, <2>1, <2>2
<1> HIDE DEF t
<1>5. \A k \in 1 .. l : t[k + 1] = s[k]
  BY <1>1, <1>4
<1> HIDE DEF l
<1>6. \A k \in 1 .. l : s[k] # n
  BY Zenon, <1>1 DEF Elements
<1>7. Once(t)
  <2>1. \A j, k \in 1 .. l : s[j] = s[k] => j = k
    BY Zenon DEF Once, l
  <2> SUFFICES ASSUME NEW j \in 1 .. (l + 1), NEW k \in 1 .. (l + 1), t[j] = t[k]
               PROVE  j = k
    BY Zenon, <1>2 DEF Once
  <2>2. CASE j = 1
    BY SMTT(30), <1>1, <1>4, <1>6, <2>2
  <2>3. CASE k = 1
    BY SMTT(30), <1>1, <1>4, <1>6, <2>3
  <2>4. CASE j # 1 /\ k # 1
    <3>1. j - 1 \in 1 .. l /\ k - 1 \in 1 .. l /\ s[j - 1] = s[k - 1]
      BY SMTT(30), <1>1, <1>4, <2>4
    <3>2. j - 1 = k - 1
      BY Zenon, <2>1, <3>1
    <3> QED BY <1>1, <3>2
  <2> QED BY Zenon, <2>2, <2>3, <2>4
<1>8. Elements(t) = Elements(s) \cup {n}
  <2>1. ASSUME NEW x \in Elements(t) PROVE x \in Elements(s) \cup {n}
    <3>1. PICK k \in 1 .. (l + 1) : x = t[k]
      BY Zenon, <1>3, <2>1 DEF Elements
    <3>2. CASE k = 1
      BY Zenon, <1>4, <3>1, <3>2
    <3>3. CASE k # 1
      <4>1. k - 1 \in DOMAIN s /\ x = s[k - 1]
        BY <1>1, <1>4, <3>1, <3>3
      <4> QED BY Zenon, <4>1 DEF Elements
    <3> QED BY Zenon, <3>2, <3>3
  <2>2. n \in Elements(t)
    <3>1. 1 \in DOMAIN t
      BY SMTT(30), <1>1, <1>3
    <3> QED BY Zenon, <1>4, <3>1 DEF Elements
  <2>3. ASSUME NEW x \in Elements(s) PROVE x \in Elements(t)
    <3>1. PICK k \in 1 .. l : x = s[k]
      BY Zenon, <1>1, <2>3 DEF Elements
    <3>2. k + 1 \in DOMAIN t /\ x = t[k + 1]
      BY SMTT(30), <1>1, <1>3, <1>5, <3>1
    <3> QED BY Zenon, <3>2 DEF Elements
  <2> QED BY Zenon, <2>1, <2>2, <2>3
<1> QED BY Zenon, <1>2, <1>7, <1>8 DEF t

\* The cache without one of its entries.
LEMMA DelFacts ==
  ASSUME NEW s \in Seq(Neighbour), Once(s), NEW n, n \in Elements(s)
  PROVE  /\ list_del(s, n) \in Seq(Neighbour) /\ Once(list_del(s, n))
         /\ Elements(list_del(s, n)) = Elements(s) \ {n}
<1>1. ASSUME NEW t \in Seq(Neighbour) PROVE \A x : x \in Elements(t) <=> Member(t, x)
  <2>1. DOMAIN t = 1 .. Len(t)
    BY Zenon, LenProperties
  <2> QED BY Zenon, <2>1 DEF Elements, Member
<1>2. Member(s, n)
  BY Zenon, <1>1
<1>3. list_del(s, n) \in Seq(Neighbour)
  BY Zenon, <1>2, ListDelFacts DEF Member
<1>4. /\ Once(list_del(s, n))
      /\ \A x : Member(list_del(s, n), x) <=> Member(s, x) /\ x # n
  BY Zenon, <1>2, DelOnce
<1>5. Elements(list_del(s, n)) = Elements(s) \ {n}
  BY Zenon, <1>1, <1>3, <1>4
<1> QED BY Zenon, <1>3, <1>4, <1>5

\* neighbour_find: the entry moves to the front, and the cache is the same.
LEMMA FoundFacts ==
  ASSUME CacheInv, NEW n \in Neighbour, Cached(n)
  PROVE  /\ Found(n) \in Seq(Neighbour) /\ Once(Found(n))
         /\ Elements(Found(n)) = Elements(neighbours)
<1> DEFINE d == list_del(neighbours, n)
<1>1. /\ d \in Seq(Neighbour) /\ Once(d) /\ Elements(d) = Elements(neighbours) \ {n}
  BY Zenon, DelFacts DEF CacheInv, Cached
<1> HIDE DEF d
<1>2. /\ <<n>> \o d \in Seq(Neighbour) /\ Once(<<n>> \o d)
      /\ Elements(<<n>> \o d) = Elements(d) \cup {n}
  BY Zenon, <1>1, FrontFacts
<1> QED BY Zenon, <1>1, <1>2 DEF d, Found, Cached

-----------------------------------------------------------------------------
LEMMA HeldFinite ==
  ASSUME NEW count, NEW d
  PROVE  IsFiniteSet(HeldOf(count, d)) /\ Cardinality(HeldOf(count, d)) \in Nat
BY Zenon, NeighbourAssumption, FS_Subset, FS_CardinalityType DEF HeldOf

\* The counts of devices depend only on which entries have references.
LEMMA SameHeld ==
  ASSUME DeviceInv, nrefs' \in [Neighbour -> Nat], UNCHANGED <<open, registered, driven, drefs>>,
         \A n \in Neighbour : nrefs[n] > 0 <=> nrefs'[n] > 0
  PROVE  DeviceInv'
<1>1. \A d \in Device : HeldOf(nrefs', d) = HeldOf(nrefs, d)
  BY Zenon DEF HeldOf
<1> QED BY Zenon, <1>1 DEF DeviceInv, DeviceRefs

\* An entry without references is created with some.
LEMMA NewHeld ==
  ASSUME DeviceInv, NEW n \in Neighbour, NEW c \in Nat \ {0}, nrefs[n] = 0,
         nrefs' = [nrefs EXCEPT ![n] = c],
         drefs' = [drefs EXCEPT ![Dev[n]] = @ + 1],
         UNCHANGED <<open, registered, driven>>
  PROVE  DeviceInv'
<1>0. Dev[n] \in Device
  BY Zenon, NeighbourAssumption
<1>1. nrefs' \in [Neighbour -> Nat] /\ drefs' \in [Device -> Nat]
  BY <1>0 DEF DeviceInv
<1>2. ASSUME NEW d \in Device
      PROVE  drefs'[d] = One(d \in registered') + One(d \in driven') + Cardinality(HeldOf(nrefs', d))
  <2>0. drefs[d] = One(d \in registered) + One(d \in driven) + Cardinality(HeldOf(nrefs, d))
    BY Zenon DEF DeviceInv, DeviceRefs
  <2>1. IsFiniteSet(HeldOf(nrefs, d)) /\ Cardinality(HeldOf(nrefs, d)) \in Nat
    BY Zenon, HeldFinite
  <2>2. CASE d = Dev[n]
    <3>1. HeldOf(nrefs', d) = HeldOf(nrefs, d) \cup {n} /\ n \notin HeldOf(nrefs, d)
      BY <2>2 DEF HeldOf, DeviceInv
    <3>2. Cardinality(HeldOf(nrefs', d)) = Cardinality(HeldOf(nrefs, d)) + 1
      <4> DEFINE S == HeldOf(nrefs, d)
      <4>1. IsFiniteSet(S) /\ n \notin S
        BY Zenon, <2>1, <3>1
      <4> HIDE DEF S
      <4>2. Cardinality(S \cup {n}) = Cardinality(S) + 1
        BY Zenon, <4>1, FS_AddElement
      <4> QED BY Zenon, <3>1, <4>2 DEF S
    <3>3. drefs'[d] = drefs[d] + 1
      BY Zenon, <2>2 DEF DeviceInv
    <3> QED BY SMTT(30), <2>0, <2>1, <3>2, <3>3 DEF One
  <2>3. CASE d # Dev[n]
    <3>1. HeldOf(nrefs', d) = HeldOf(nrefs, d)
      BY Zenon, <2>3 DEF HeldOf, DeviceInv
    <3>2. drefs'[d] = drefs[d]
      BY Zenon, <2>3, <1>0 DEF DeviceInv
    <3> QED BY Zenon, <2>0, <3>1, <3>2
  <2> QED BY Zenon, <2>2, <2>3
<1> QED BY Zenon, <1>1, <1>2 DEF DeviceInv, DeviceRefs

\* Dropping references: the entries that lose the last one drop their device.
LEMMA DroppedCard ==
  ASSUME DeviceInv, NEW count \in [Neighbour -> Nat], NEW d \in Device,
         \A n \in Neighbour : count[n] <= nrefs[n]
  PROVE  /\ Dropped(count, d) \in Nat
         /\ Cardinality(HeldOf(count, d)) + Dropped(count, d) = Cardinality(HeldOf(nrefs, d))
<1> DEFINE A == HeldOf(nrefs, d)
           B == {n \in Neighbour : Dev[n] = d /\ nrefs[n] > 0 /\ count[n] = 0}
           C == HeldOf(count, d)
<1>1. IsFiniteSet(A) /\ Cardinality(A) \in Nat /\ Cardinality(C) \in Nat
  BY Zenon, HeldFinite
<1>2. C = A \ B /\ B \subseteq A
  BY DEF HeldOf, DeviceInv
<1>3. IsFiniteSet(B) /\ Cardinality(B) \in Nat
  BY SMTT(30), <1>1, <1>2, FS_Subset, FS_CardinalityType
<1>4. A \cap B = B
  BY Zenon, <1>2
<1>5. Cardinality(A \ B) = Cardinality(A) - Cardinality(A \cap B)
  BY Zenon, <1>1, FS_Difference
<1>6. Dropped(count, d) = Cardinality(B)
  BY Zenon DEF Dropped
<1> HIDE DEF A, B, C
<1>7. Cardinality(C) + Cardinality(B) = Cardinality(A)
  <2>1. Cardinality(C) = Cardinality(A \ B) /\ Cardinality(A \cap B) = Cardinality(B)
    BY Zenon, <1>2, <1>4
  <2> QED BY SMTT(30), <1>1, <1>3, <1>5, <2>1
<1> QED BY Zenon, <1>3, <1>6, <1>7 DEF A, C

LEMMA PutHeld ==
  ASSUME DeviceInv, NEW count \in [Neighbour -> Nat],
         \A n \in Neighbour : count[n] <= nrefs[n],
         PutEntry(count), UNCHANGED <<registered, driven>>, open' \subseteq open
  PROVE  DeviceInv'
<1>1. ASSUME NEW d \in Device
      PROVE  /\ drefs'[d] \in Nat
             /\ drefs'[d] = One(d \in registered') + One(d \in driven') + Cardinality(HeldOf(nrefs', d))
  <2>0. drefs[d] = One(d \in registered) + One(d \in driven) + Cardinality(HeldOf(nrefs, d))
    BY Zenon DEF DeviceInv, DeviceRefs
  <2>1. /\ Dropped(count, d) \in Nat
        /\ Cardinality(HeldOf(count, d)) + Dropped(count, d) = Cardinality(HeldOf(nrefs, d))
    BY Zenon, DroppedCard
  <2>2. Cardinality(HeldOf(count, d)) \in Nat
    BY Zenon, HeldFinite
  <2>3. drefs'[d] = drefs[d] - Dropped(count, d) /\ nrefs' = count
    BY Zenon DEF PutEntry
  <2> QED BY SMTT(30), <2>0, <2>1, <2>2, <2>3 DEF One
<1>2. drefs' \in [Device -> Nat] /\ nrefs' \in [Neighbour -> Nat]
  BY Zenon, <1>1 DEF PutEntry
<1> QED BY Zenon, <1>1, <1>2 DEF DeviceInv, DeviceRefs

-----------------------------------------------------------------------------
\* The function in progress.
LEMMA PcFacts ==
  /\ Idle.op = "idle" /\ Idle.n = None /\ None \notin Neighbour
  /\ \A op, n : In(op, n).op = op /\ In(op, n).n = n
BY Zenon, NeighbourAssumption DEF Idle, In

LEMMA PcCases ==
  ASSUME EntryInv
  PROVE  /\ pc = Idle => \A n \in Neighbour : pc.n # n
         /\ pc.op \in {"expired", "discovered"} => pc = In(pc.op, pc.n) /\ pc.n \in Neighbour
<1>1. pc \in {Idle} \cup {In(op, n) : op \in {"expired", "discovered"}, n \in Neighbour}
  BY DEF EntryInv
<1>2. CASE pc = Idle
  BY Zenon, <1>2, PcFacts
<1>3. CASE pc # Idle
  <2>1. PICK op \in {"expired", "discovered"}, n \in Neighbour : pc = In(op, n)
    BY SMTT(30), <1>1, <1>3
  <2> QED BY SMTT(30), <1>3, <2>1, PcFacts
<1> QED BY <1>2, <1>3

LEMMA InitHolds == Init => IInv
<1> SUFFICES ASSUME Init PROVE IInv
  BY Zenon
<1>0. Elements(<< >>) = {} /\ << >> \in Seq(Neighbour) /\ Once(<< >>)
  BY DEF Elements, Once
<1>1. \A d \in Device : Cardinality(HeldOf(nrefs, d)) = 0
  <2> SUFFICES ASSUME NEW d \in Device PROVE Cardinality(HeldOf(nrefs, d)) = 0
    BY Zenon
  <2>1. HeldOf(nrefs, d) = {}
    BY DEF Init, HeldOf
  <2> QED BY Zenon, <2>1, FS_EmptySet
<1>2. DeviceInv
  BY <1>1 DEF Init, NetDeviceInit, DeviceInv, DeviceRefs, One
<1>3. EntryInv
  <2>1. CacheInv /\ EntryRefs
    BY SMTT(30), <1>0, PcFacts DEF Init, CacheInv, EntryRefs, Cached, One
  <2>2. KnownOrAsking
    BY Zenon, <1>0 DEF Init, KnownOrAsking, Cached
  <2> QED BY SMTT(30), <1>0, <2>1, <2>2 DEF Init, EntryInv
<1> QED BY Zenon, <1>2, <1>3 DEF IInv

-----------------------------------------------------------------------------
\* neighbour_destroy, of one entry or of all.
LEMMA DestroyStep ==
  ASSUME IInv, NEW entries \in SUBSET Elements(neighbours), NEW left \in Seq(Neighbour),
         Once(left), Elements(left) = Elements(neighbours) \ entries,
         neighbour_destroy(entries, left), nrefs' = Released(entries),
         UNCHANGED <<pc, dest>>
  PROVE  /\ EntryInv'
         /\ Released(entries) \in [Neighbour -> Nat]
         /\ \A n \in Neighbour : Released(entries)[n] <= nrefs[n]
<1> DEFINE R == Released(entries)
<1>1. /\ CacheInv /\ EntryRefs /\ KnownOrAsking
      /\ tries \in [Neighbour -> Nat] /\ waiting \in [Neighbour -> Seq(Nat)]
      /\ nrefs \in [Neighbour -> Nat]
  BY DEF IInv, DeviceInv, EntryInv
<1>2. ASSUME NEW n \in Neighbour
      PROVE  /\ R[n] \in Nat /\ R[n] <= nrefs[n]
             /\ R[n] = One(Cached(n)') + One(n \in timer') + One(pc'.n = n)
  <2>1. nrefs[n] = One(Cached(n)) + One(n \in timer) + One(pc.n = n)
    BY Zenon, <1>1 DEF EntryRefs
  <2>2. R[n] = nrefs[n] - One(n \in entries) - One(n \in entries \cap timer)
    BY Zenon DEF Released
  <2>3. /\ Cached(n)' <=> Cached(n) /\ n \notin entries
        /\ n \in timer' <=> n \in timer /\ n \notin entries
        /\ n \in entries => Cached(n)
        /\ n \in timer => Cached(n)
        /\ pc' = pc
    BY Zenon, <1>1 DEF neighbour_destroy, Cached, CacheInv
  <2> QED BY <2>1, <2>2, <2>3 DEF One
<1>3. R \in [Neighbour -> Nat]
  <2>1. R = [n \in Neighbour |-> R[n]]
    BY Zenon DEF Released
  <2> QED BY <1>2, <2>1
<1>4. CacheInv'
  BY Zenon, <1>1 DEF CacheInv, neighbour_destroy
<1>5. EntryRefs'
  BY Zenon, <1>2 DEF EntryRefs
<1>6. KnownOrAsking'
  <2> SUFFICES ASSUME NEW n \in Neighbour
               PROVE  /\ Cached(n)' => (n \in known' <=> n \notin timer')
                      /\ waiting'[n] # << >> => n \in timer' \/ pc' = In("discovered", n)
    BY Zenon DEF KnownOrAsking
  <2>1. /\ Cached(n) => (n \in known <=> n \notin timer)
        /\ waiting[n] # << >> => n \in timer \/ pc = In("discovered", n)
    BY Zenon, <1>1 DEF KnownOrAsking
  <2>2. Cached(n)' <=> Cached(n) /\ n \notin entries
    BY Zenon DEF neighbour_destroy, Cached
  <2> QED BY SMTT(30), <1>1, <2>1, <2>2 DEF neighbour_destroy
<1>7. tries' \in [Neighbour -> Nat] /\ waiting' \in [Neighbour -> Seq(Nat)]
  BY <1>1 DEF neighbour_destroy
<1>8. EntryInv'
  BY SMTT(30), <1>4, <1>5, <1>6, <1>7 DEF EntryInv, IInv
<1> QED BY Zenon, <1>2, <1>3, <1>8

LEMMA AllEntries ==
  /\ << >> \in Seq(Neighbour) /\ Once(<< >>)
  /\ Elements(<< >>) = Elements(neighbours) \ Elements(neighbours)
BY DEF Elements, Once

\* One entry is destroyed: it has given up, or memory is short.
LEMMA DestroyOneStep ==
  ASSUME IInv, NEW n \in Neighbour, Cached(n),
         neighbour_destroy({n}, list_del(neighbours, n)), PutEntry(Released({n})),
         UNCHANGED <<open, registered, driven, pc, dest>>
  PROVE  IInv'
<1>1. /\ list_del(neighbours, n) \in Seq(Neighbour) /\ Once(list_del(neighbours, n))
      /\ Elements(list_del(neighbours, n)) = Elements(neighbours) \ {n}
  BY DelFacts DEF IInv, EntryInv, CacheInv, Cached
<1>2. {n} \in SUBSET Elements(neighbours) /\ nrefs' = Released({n})
  BY Zenon DEF Cached, PutEntry
<1>3. /\ EntryInv' /\ Released({n}) \in [Neighbour -> Nat]
      /\ \A m \in Neighbour : Released({n})[m] <= nrefs[m]
  BY Zenon, <1>1, <1>2, DestroyStep
<1>4. DeviceInv'
  BY Zenon, <1>3, PutHeld DEF IInv
<1> QED BY Zenon, <1>3, <1>4 DEF IInv

\* All entries are destroyed: some device is closed or removed.
LEMMA CloseStep ==
  ASSUME IInv, NEW d \in Device, netdev_close(d)
  PROVE  IInv'
<1> DEFINE all == Elements(neighbours)
<1>1. /\ neighbour_destroy(all, << >>) /\ PutEntry(Released(all))
      /\ open' \subseteq open /\ UNCHANGED <<registered, driven, pc, dest>>
      /\ nrefs' = Released(all)
  BY Zenon DEF netdev_close, Close, PutEntry
<1>2. /\ EntryInv' /\ Released(all) \in [Neighbour -> Nat]
      /\ \A m \in Neighbour : Released(all)[m] <= nrefs[m]
  BY Zenon, <1>1, AllEntries, DestroyStep
<1> HIDE DEF all
<1>3. DeviceInv'
  BY SMTT(30), <1>1, <1>2, PutHeld DEF IInv
<1> QED BY <1>2, <1>3 DEF IInv

LEMMA UnregisterStep ==
  ASSUME IInv, NEW d \in Device, unregister_netdev(d)
  PROVE  IInv'
<1> DEFINE all == Elements(neighbours)
           R == Released(all)
<1>1. /\ neighbour_destroy(all, << >>) /\ nrefs' = R
      /\ UNCHANGED <<open, pc, dest>>
      /\ d \in driven /\ d \notin open
      /\ registered' = registered \ {d} /\ driven' = driven \ {d}
      /\ drefs' = [e \in Device |-> drefs[e] - Dropped(R, e) - 2 * One(e = d)]
  BY Zenon DEF unregister_netdev
<1>0. d \in registered
  BY <1>1 DEF IInv, DeviceInv
<1>2. /\ EntryInv' /\ R \in [Neighbour -> Nat]
      /\ \A m \in Neighbour : R[m] <= nrefs[m]
  BY Zenon, <1>1, AllEntries, DestroyStep
<1> HIDE DEF R, all
<1>3. ASSUME NEW e \in Device
      PROVE  /\ drefs'[e] \in Nat
             /\ drefs'[e] = One(e \in registered') + One(e \in driven') + Cardinality(HeldOf(nrefs', e))
  <2>0. drefs[e] = One(e \in registered) + One(e \in driven) + Cardinality(HeldOf(nrefs, e))
    BY Zenon DEF IInv, DeviceInv, DeviceRefs
  <2>1. /\ Dropped(R, e) \in Nat
        /\ Cardinality(HeldOf(R, e)) + Dropped(R, e) = Cardinality(HeldOf(nrefs, e))
    BY <1>2, DroppedCard DEF IInv
  <2>2. Cardinality(HeldOf(R, e)) \in Nat
    BY HeldFinite
  <2>3. drefs'[e] = drefs[e] - Dropped(R, e) - 2 * One(e = d) /\ nrefs' = R
    BY Zenon, <1>1
  <2>4. CASE e = d
    <3>1. /\ One(e = d) = 1 /\ One(e \in registered) = 1 /\ One(e \in registered') = 0
          /\ One(e \in driven) = 1 /\ One(e \in driven') = 0
      BY SMTT(30), <1>0, <1>1, <2>4 DEF One
    <3> QED BY SMTT(30), <2>0, <2>1, <2>2, <2>3, <3>1
  <2>5. CASE e # d
    BY SMTT(30), <1>1, <2>0, <2>1, <2>2, <2>3, <2>5 DEF One
  <2> QED BY <2>4, <2>5
<1>4. drefs' \in [Device -> Nat] /\ nrefs' \in [Neighbour -> Nat]
  BY SMTT(30), <1>1, <1>2, <1>3
<1>5. DeviceInv'
  BY SMTT(30), <1>1, <1>3, <1>4 DEF DeviceInv, DeviceRefs, IInv
<1> QED BY SMTT(30), <1>2, <1>5 DEF IInv

\* A device whose count is zero is not in the list, and has no driver.
LEMMA NotListed ==
  ASSUME DeviceInv, NEW d \in Device, drefs[d] = 0
  PROVE  d \notin registered /\ d \notin driven
<1>1. drefs[d] = One(d \in registered) + One(d \in driven) + Cardinality(HeldOf(nrefs, d))
  BY Zenon DEF DeviceInv, DeviceRefs
<1>2. Cardinality(HeldOf(nrefs, d)) \in Nat
  BY SMTT(30), HeldFinite
<1> QED BY <1>1, <1>2 DEF One

\* All entries are destroyed because a device cannot be registered.
LEMMA FailureStep ==
  ASSUME IInv, NEW d \in Device, RegistrationFails(d)
  PROVE  IInv'
<1> DEFINE all == Elements(neighbours)
           R == Released(all)
<1>1. /\ neighbour_destroy(all, << >>) /\ nrefs' = R
      /\ UNCHANGED <<open, driven, pc, dest>>
      /\ drefs[d] = 0 /\ registered' = registered \cup {d}
      /\ drefs' = [e \in Device |-> drefs[e] - Dropped(R, e) + One(e = d)]
  BY Zenon DEF RegistrationFails
<1>0. d \notin registered
  BY <1>1, NotListed DEF IInv
<1>2. /\ EntryInv' /\ R \in [Neighbour -> Nat]
      /\ \A m \in Neighbour : R[m] <= nrefs[m]
  BY Zenon, <1>1, AllEntries, DestroyStep
<1> HIDE DEF R, all
<1>3. ASSUME NEW e \in Device
      PROVE  /\ drefs'[e] \in Nat
             /\ drefs'[e] = One(e \in registered') + One(e \in driven') + Cardinality(HeldOf(nrefs', e))
  <2>0. drefs[e] = One(e \in registered) + One(e \in driven) + Cardinality(HeldOf(nrefs, e))
    BY SMTT(30) DEF IInv, DeviceInv, DeviceRefs
  <2>1. /\ Dropped(R, e) \in Nat
        /\ Cardinality(HeldOf(R, e)) + Dropped(R, e) = Cardinality(HeldOf(nrefs, e))
    BY <1>2, DroppedCard DEF IInv
  <2>2. Cardinality(HeldOf(R, e)) \in Nat
    BY HeldFinite
  <2>3. drefs'[e] = drefs[e] - Dropped(R, e) + One(e = d) /\ nrefs' = R
    BY Zenon, <1>1
  <2>4. CASE e = d
    <3>1. /\ One(e = d) = 1 /\ One(e \in registered) = 0 /\ One(e \in registered') = 1
          /\ One(e \in driven') = One(e \in driven) /\ One(e \in driven) \in Nat
      BY SMTT(30), <1>0, <1>1, <2>4 DEF One
    <3> QED BY SMTT(30), <2>0, <2>1, <2>2, <2>3, <3>1
  <2>5. CASE e # d
    BY SMTT(30), <1>1, <2>0, <2>1, <2>2, <2>3, <2>5 DEF One
  <2> QED BY <2>4, <2>5
<1>4. drefs' \in [Device -> Nat] /\ nrefs' \in [Neighbour -> Nat]
  BY SMTT(30), <1>1, <1>2, <1>3
<1>5. DeviceInv'
  BY SMTT(30), <1>1, <1>3, <1>4 DEF DeviceInv, DeviceRefs, IInv
<1> QED BY <1>2, <1>5 DEF IInv

-----------------------------------------------------------------------------
\* A step that leaves the cache's set of entries, its timers and counts alone,
\* and gives packets only to an entry that is asking.
LEMMA QuietStep ==
  ASSUME IInv, neighbours' \in Seq(Neighbour), Once(neighbours'),
         Elements(neighbours') = Elements(neighbours),
         UNCHANGED <<open, registered, driven, drefs, known, timer, tries, nrefs, pc>>,
         dest' \in Seq(Neighbour), waiting' \in [Neighbour -> Seq(Nat)],
         \A n \in Neighbour : waiting'[n] # << >> => waiting[n] # << >> \/ n \in timer
  PROVE  IInv'
<1>1. DeviceInv'
  BY SMTT(30), SameHeld DEF IInv, DeviceInv
<1>2. CacheInv' /\ EntryRefs'
  BY DEF IInv, EntryInv, CacheInv, EntryRefs, Cached
<1>3. KnownOrAsking'
  BY SMTT(30) DEF IInv, EntryInv, KnownOrAsking, Cached
<1>4. EntryInv'
  BY <1>2, <1>3 DEF IInv, EntryInv
<1> QED BY SMTT(30), <1>1, <1>4 DEF IInv

LEMMA TxStep ==
  ASSUME IInv, NEW n \in Neighbour, neighbour_tx(n)
  PROVE  IInv'
<1> DEFINE p == Len(dest) + 1
<1>0. /\ CacheInv /\ EntryInv /\ waiting \in [Neighbour -> Seq(Nat)]
      /\ dest \in Seq(Neighbour) /\ p \in Nat
      /\ pc = Idle /\ pc' = pc /\ dest' \in Seq(Neighbour)
  BY SMTT(30) DEF neighbour_tx, IInv, EntryInv
<1>1. CASE /\ Cached(n) /\ neighbours' = Found(n)
           /\ UNCHANGED <<open, registered, driven, drefs, timer, known, tries, waiting, nrefs>>
  BY SMTT(30), <1>0, <1>1, FoundFacts, QuietStep
<1>2. CASE /\ Cached(n) /\ n \in timer /\ neighbours' = Found(n)
           /\ waiting' = [waiting EXCEPT ![n] = Append(@, p)]
           /\ UNCHANGED <<open, registered, driven, drefs, timer, known, tries, nrefs>>
  <2>1. waiting' \in [Neighbour -> Seq(Nat)]
    BY <1>0, <1>2
  <2>2. \A m \in Neighbour : waiting'[m] # << >> => waiting[m] # << >> \/ m \in timer
    BY Zenon, <1>0, <1>2
  <2> HIDE DEF p
  <2> QED BY SMTT(30), <1>0, <1>2, <2>1, <2>2, FoundFacts, QuietStep
<1>3. CASE /\ ~Cached(n) /\ neighbour_create(n, p)
           /\ UNCHANGED <<open, registered, driven, known>>
  <2>1. n \notin timer /\ n \notin known /\ nrefs[n] = 0 /\ \A m \in Neighbour : pc.n # m
    <3>1. n \notin timer /\ n \notin known /\ \A m \in Neighbour : pc.n # m
      BY SMTT(30), <1>0, <1>3, PcCases DEF CacheInv, Cached
    <3>2. nrefs[n] = One(Cached(n)) + One(n \in timer) + One(pc.n = n)
      BY SMTT(30), <1>0 DEF EntryInv, EntryRefs
    <3>3. nrefs[n] = 0
      BY SMTT(30), <1>3, <3>1, <3>2 DEF One
    <3> QED BY SMTT(30), <3>1, <3>3
  <2>2. DeviceInv'
    <3>1. /\ nrefs' = [nrefs EXCEPT ![n] = 2] /\ 2 \in Nat \ {0}
          /\ drefs' = [drefs EXCEPT ![Dev[n]] = @ + 1]
      BY SMTT(30), <1>3 DEF neighbour_create
    <3> QED BY ZenonT(30), <1>3, <2>1, <3>1, NewHeld DEF IInv
  <2>3. /\ neighbours' \in Seq(Neighbour) /\ Once(neighbours')
        /\ Elements(neighbours') = Elements(neighbours) \cup {n}
    BY SMTT(30), <1>0, <1>3, FrontFacts DEF neighbour_create, CacheInv, Cached
  <2>4. CacheInv'
    BY ZenonT(30), <1>0, <1>3, <2>3 DEF neighbour_create, CacheInv
  <2>5. EntryRefs'
    <3> SUFFICES ASSUME NEW m \in Neighbour
                 PROVE  nrefs'[m] = One(Cached(m)') + One(m \in timer') + One(pc'.n = m)
      BY Zenon DEF EntryRefs
    <3>1. nrefs[m] = One(Cached(m)) + One(m \in timer) + One(pc.n = m)
      BY SMTT(30), <1>0 DEF EntryInv, EntryRefs
    <3>2. nrefs \in [Neighbour -> Nat]
      BY Zenon DEF IInv, DeviceInv
    <3>3. CASE m = n
      <4>1. nrefs'[n] = 2 /\ n \in timer' /\ Cached(n)' /\ pc'.n # n
        BY ZenonT(30), <1>0, <1>3, <2>1, <2>3, <3>2 DEF neighbour_create, Cached
      <4> QED BY <3>3, <4>1 DEF One
    <3>4. CASE m # n
      <4>1. nrefs'[m] = nrefs[m] /\ pc' = pc
        BY SMTT(30), <1>0, <1>3, <3>2, <3>4 DEF neighbour_create
      <4>2. (Cached(m)' <=> Cached(m)) /\ (m \in timer' <=> m \in timer)
        BY SMTT(30), <1>3, <2>3, <3>4 DEF neighbour_create, Cached
      <4> QED BY SMTT(30), <3>1, <4>1, <4>2 DEF One
    <3> QED BY SMTT(30), <3>3, <3>4
  <2>6. KnownOrAsking'
    <3> SUFFICES ASSUME NEW m \in Neighbour
                 PROVE  /\ Cached(m)' => (m \in known' <=> m \notin timer')
                        /\ waiting'[m] # << >> => m \in timer' \/ pc' = In("discovered", m)
      BY Zenon DEF KnownOrAsking
    <3>1. /\ Cached(m) => (m \in known <=> m \notin timer)
          /\ waiting[m] # << >> => m \in timer \/ pc = In("discovered", m)
      BY <1>0 DEF EntryInv, KnownOrAsking
    <3>2. Cached(m)' <=> Cached(m) \/ m = n
      BY SMTT(30), <2>3 DEF Cached
    <3>3. CASE m = n
      BY SMTT(30), <1>3, <2>1, <3>3 DEF neighbour_create
    <3>4. CASE m # n
      <4>1. waiting'[m] = waiting[m] /\ (m \in timer' <=> m \in timer) /\ known' = known
        BY SMTT(30), <1>0, <1>3, <3>4 DEF neighbour_create
      <4> QED BY SMTT(30), <1>0, <3>1, <3>2, <3>4, <4>1
    <3> QED BY SMTT(30), <3>3, <3>4
  <2>7. tries' \in [Neighbour -> Nat] /\ waiting' \in [Neighbour -> Seq(Nat)]
    BY SMTT(30), <1>0, <1>3 DEF EntryInv, neighbour_create
  <2>8. EntryInv'
    BY SMTT(30), <1>0, <2>4, <2>5, <2>6, <2>7 DEF EntryInv
  <2> QED BY Zenon, <2>2, <2>8 DEF IInv
<1>4. CASE UNCHANGED <<deviceVars, entryVars>>
  BY SMTT(30), <1>0, <1>4, QuietStep DEF deviceVars, entryVars, CacheInv
<1> HIDE DEF p
<1> QED BY SMTT(30), <1>1, <1>2, <1>3, <1>4 DEF neighbour_tx, deviceVars, p

-----------------------------------------------------------------------------
\* neighbour_update takes a reference for as long as neighbour_discovered runs,
\* and stops the timer, which drops another.
LEMMA UpdateStep ==
  ASSUME IInv, NEW n \in Neighbour, neighbour_update(n)
  PROVE  IInv'
<1>0. /\ CacheInv /\ EntryInv /\ Cached(n) /\ pc = Idle /\ nrefs \in [Neighbour -> Nat]
      /\ \A m \in Neighbour : pc.n # m
      /\ neighbours' = Found(n) /\ known' = known \cup {n} /\ timer' = timer \ {n}
      /\ nrefs' = [nrefs EXCEPT ![n] = @ - One(n \in timer) + 1]
      /\ pc' = In("discovered", n)
      /\ UNCHANGED <<deviceVars, tries, waiting, dest>>
  BY SMTT(30), PcCases DEF neighbour_update, IInv, EntryInv, DeviceInv
<1>1. /\ neighbours' \in Seq(Neighbour) /\ Once(neighbours')
      /\ Elements(neighbours') = Elements(neighbours)
  BY SMTT(30), <1>0, FoundFacts
<1>2. CacheInv'
  BY SMTT(30), <1>0, <1>1 DEF CacheInv, Cached
<1>3. ASSUME NEW m \in Neighbour
      PROVE  /\ nrefs'[m] = One(Cached(m)') + One(m \in timer') + One(pc'.n = m)
             /\ nrefs'[m] \in Nat
             /\ nrefs[m] > 0 <=> nrefs'[m] > 0
  <2>1. nrefs[m] = One(Cached(m)) + One(m \in timer) + One(pc.n = m)
    BY <1>0 DEF EntryInv, EntryRefs
  <2>2. Cached(m)' <=> Cached(m)
    BY ZenonT(30), <1>1 DEF Cached
  <2>3. CASE m = n
    <3>1. nrefs'[n] = nrefs[n] - One(n \in timer) + 1 /\ n \notin timer' /\ pc'.n = n
      BY ZenonT(30), <1>0, PcFacts
    <3> QED BY SMTT(30), <1>0, <2>1, <2>2, <2>3, <3>1 DEF One
  <2>4. CASE m # n
    <3>1. nrefs'[m] = nrefs[m] /\ (m \in timer' <=> m \in timer) /\ pc'.n # m
      BY SMTT(30), <1>0, <2>4, PcFacts
    <3> QED BY SMTT(30), <1>0, <2>1, <2>2, <3>1 DEF One
  <2> QED BY SMTT(30), <2>3, <2>4
<1>4. nrefs' \in [Neighbour -> Nat]
  <2>1. nrefs' = [m \in Neighbour |-> nrefs'[m]]
    BY ZenonT(30), <1>0
  <2> QED BY <1>3, <2>1
<1>5. DeviceInv'
  BY SMTT(30), <1>0, <1>3, <1>4, SameHeld DEF IInv, deviceVars
<1>6. KnownOrAsking'
  <2> SUFFICES ASSUME NEW m \in Neighbour
               PROVE  /\ Cached(m)' => (m \in known' <=> m \notin timer')
                      /\ waiting'[m] # << >> => m \in timer' \/ pc' = In("discovered", m)
    BY DEF KnownOrAsking
  <2>1. /\ Cached(m) => (m \in known <=> m \notin timer)
        /\ waiting[m] # << >> => m \in timer \/ pc = In("discovered", m)
    BY <1>0 DEF EntryInv, KnownOrAsking
  <2>2. Cached(m)' <=> Cached(m)
    BY SMTT(30), <1>1 DEF Cached
  <2>3. pc # In("discovered", m)
    BY SMTT(30), <1>0, PcFacts
  <2> QED BY SMTT(30), <1>0, <2>1, <2>2, <2>3
<1>7. EntryInv'
  BY SMTT(30), <1>0, <1>2, <1>3, <1>6 DEF EntryInv, EntryRefs
<1> QED BY SMTT(30), <1>5, <1>7 DEF IInv

\* neighbour_define of a new entry.
LEMMA DefineStep ==
  ASSUME IInv, NEW n \in Neighbour, neighbour_define(n)
  PROVE  IInv'
<1>0. /\ CacheInv /\ EntryInv /\ ~Cached(n) /\ pc = Idle /\ nrefs \in [Neighbour -> Nat]
      /\ \A m \in Neighbour : pc.n # m
      /\ neighbours' = <<n>> \o neighbours /\ known' = known \cup {n}
      /\ nrefs' = [nrefs EXCEPT ![n] = 1]
      /\ drefs' = [drefs EXCEPT ![Dev[n]] = @ + 1]
      /\ UNCHANGED <<open, registered, driven, timer, tries, waiting, pc, dest>>
  BY SMTT(30), PcCases DEF neighbour_define, IInv, EntryInv, DeviceInv
<1>1. n \notin timer /\ n \notin known
  BY SMTT(30), <1>0 DEF CacheInv, Cached
<1>2. nrefs[n] = 0
  <2>1. nrefs[n] = One(Cached(n)) + One(n \in timer) + One(pc.n = n)
    BY <1>0 DEF EntryInv, EntryRefs
  <2> QED BY SMTT(30), <1>0, <1>1, <2>1 DEF One
<1>3. DeviceInv'
  <2>1. 1 \in Nat \ {0}
    BY SMTT(30)
  <2> QED BY ZenonT(30), <1>0, <1>2, <2>1, NewHeld DEF IInv
<1>4. /\ neighbours' \in Seq(Neighbour) /\ Once(neighbours')
      /\ Elements(neighbours') = Elements(neighbours) \cup {n}
  BY SMTT(30), <1>0, FrontFacts DEF CacheInv, Cached
<1>5. CacheInv'
  BY SMTT(30), <1>0, <1>4 DEF CacheInv
<1>6. ASSUME NEW m \in Neighbour
      PROVE  /\ nrefs'[m] = One(Cached(m)') + One(m \in timer') + One(pc'.n = m)
             /\ Cached(m)' => (m \in known' <=> m \notin timer')
  <2>1. /\ nrefs[m] = One(Cached(m)) + One(m \in timer) + One(pc.n = m)
        /\ Cached(m) => (m \in known <=> m \notin timer)
    BY SMTT(30), <1>0 DEF EntryInv, EntryRefs, KnownOrAsking
  <2>2. Cached(m)' <=> Cached(m) \/ m = n
    BY <1>4 DEF Cached
  <2>3. CASE m = n
    <3>1. nrefs'[n] = 1 /\ n \notin timer' /\ Cached(n)' /\ pc'.n # n /\ n \in known'
      BY SMTT(30), <1>0, <1>1, <2>2, <2>3
    <3> QED BY SMTT(30), <2>3, <3>1 DEF One
  <2>4. CASE m # n
    <3>1. /\ nrefs'[m] = nrefs[m] /\ timer' = timer /\ pc' = pc
          /\ m \in known' <=> m \in known
      BY SMTT(30), <1>0, <2>4
    <3> QED BY SMTT(30), <2>1, <2>2, <2>4, <3>1 DEF One
  <2> QED BY SMTT(30), <2>3, <2>4
<1>7. KnownOrAsking'
  BY SMTT(30), <1>0, <1>6 DEF EntryInv, KnownOrAsking
<1>8. EntryInv'
  BY SMTT(30), <1>0, <1>5, <1>6, <1>7 DEF EntryInv, EntryRefs
<1> QED BY <1>3, <1>8 DEF IInv

-----------------------------------------------------------------------------
\* A function of neighbour.c returns, and drops the reference that it held.
LEMMA ReturnStep ==
  ASSUME IInv, NEW n \in Neighbour, pc.n = n, pc' = Idle,
         PutEntry([nrefs EXCEPT ![n] = @ - 1]),
         pc = In("discovered", n) => waiting[n] = << >>,
         UNCHANGED <<open, registered, driven, neighbours, known, timer, tries, waiting, dest>>
  PROVE  IInv'
<1> DEFINE R == [nrefs EXCEPT ![n] = @ - 1]
<1>0. EntryInv /\ CacheInv /\ nrefs \in [Neighbour -> Nat] /\ nrefs' = R
  BY SMTT(30) DEF IInv, EntryInv, DeviceInv, PutEntry
<1>1. ASSUME NEW m \in Neighbour
      PROVE  /\ R[m] \in Nat /\ R[m] <= nrefs[m]
             /\ R[m] = One(Cached(m)') + One(m \in timer') + One(pc'.n = m)
  <2>1. nrefs[m] = One(Cached(m)) + One(m \in timer) + One(pc.n = m)
    BY SMTT(30), <1>0 DEF EntryInv, EntryRefs
  <2>2. (Cached(m)' <=> Cached(m)) /\ timer' = timer /\ pc'.n # m
    BY SMTT(30), PcFacts DEF Cached
  <2>3. CASE m = n
    <3>1. R[m] = nrefs[m] - 1
      BY SMTT(30), <1>0, <2>3
    <3> HIDE DEF R
    <3> QED BY SMTT(30), <2>1, <2>2, <2>3, <3>1 DEF One
  <2>4. CASE m # n
    <3>1. R[m] = nrefs[m] /\ nrefs[m] \in Nat
      BY SMTT(30), <1>0, <2>4
    <3> HIDE DEF R
    <3> QED BY SMTT(30), <2>1, <2>2, <2>4, <3>1 DEF One
  <2> QED BY SMTT(30), <2>3, <2>4
<1>2. R \in [Neighbour -> Nat]
  <2>1. R = [m \in Neighbour |-> R[m]]
    BY Zenon, <1>0
  <2> HIDE DEF R
  <2> QED BY Zenon, <1>1, <2>1
<1>3. PutEntry(R)
  BY Zenon
<1> HIDE DEF R
<1>4. DeviceInv'
  BY SMTT(30), <1>1, <1>2, <1>3, PutHeld DEF IInv
<1>5. EntryRefs'
  BY Zenon, <1>0, <1>1 DEF EntryRefs
<1>6. KnownOrAsking'
  <2> SUFFICES ASSUME NEW m \in Neighbour
               PROVE  /\ Cached(m)' => (m \in known' <=> m \notin timer')
                      /\ waiting'[m] # << >> => m \in timer' \/ pc' = In("discovered", m)
    BY Zenon DEF KnownOrAsking
  <2>1. /\ Cached(m) => (m \in known <=> m \notin timer)
        /\ waiting[m] # << >> => m \in timer \/ pc = In("discovered", m)
    BY SMTT(30), <1>0 DEF EntryInv, KnownOrAsking
  <2>2. pc = In("discovered", m) => m = n
    BY SMTT(30), PcFacts
  <2> QED BY Zenon, <2>1, <2>2 DEF Cached
<1>7. EntryInv'
  BY SMTT(30), <1>0, <1>5, <1>6 DEF EntryInv, CacheInv
<1> QED BY ZenonT(30), <1>4, <1>7 DEF IInv

LEMMA DiscoveredStep ==
  ASSUME IInv, neighbour_discovered
  PROVE  IInv'
<1> DEFINE n == pc.n
<1>0. /\ EntryInv /\ CacheInv /\ waiting \in [Neighbour -> Seq(Nat)]
      /\ n \in Neighbour /\ pc = In("discovered", n)
      /\ UNCHANGED <<open, registered, driven, neighbours, known, timer, tries, dest>>
  BY SMTT(30), PcCases DEF neighbour_discovered, IInv, EntryInv
<1>1. CASE /\ waiting[n] # << >> /\ waiting' = [waiting EXCEPT ![n] = Tail(@)]
           /\ UNCHANGED <<drefs, nrefs, pc>>
  <2>1. waiting' \in [Neighbour -> Seq(Nat)]
    BY <1>0, <1>1
  <2>2. \A m \in Neighbour : waiting'[m] # << >> => waiting[m] # << >> \/ m \in timer
    BY Zenon, <1>0, <1>1
  <2> HIDE DEF n
  <2> QED BY SMTT(30), <1>0, <1>1, <2>1, <2>2, QuietStep DEF EntryInv, CacheInv
<1>2. CASE /\ waiting[n] = << >> /\ PutEntry([nrefs EXCEPT ![n] = @ - 1])
           /\ pc' = Idle /\ waiting' = waiting
  BY Zenon, <1>0, <1>2, ReturnStep
<1> QED BY ZenonT(30), <1>1, <1>2 DEF neighbour_discovered

LEMMA RequestStep ==
  ASSUME IInv, tx_request
  PROVE  IInv'
<1>1. /\ pc.n \in Neighbour /\ pc = In("expired", pc.n)
      /\ PutEntry([nrefs EXCEPT ![pc.n] = @ - 1]) /\ pc' = Idle
      /\ UNCHANGED <<open, registered, driven, neighbours, known, timer, tries, waiting, dest>>
  BY Zenon, PcCases DEF tx_request, IInv
<1>2. pc # In("discovered", pc.n)
  BY <1>1, PcFacts
<1> QED BY SMTT(30), <1>1, <1>2, ReturnStep

\* timer_expired gives up, or takes a reference and asks again.
LEMMA ExpiredStep ==
  ASSUME IInv, NEW n \in Neighbour, neighbour_expired(n)
  PROVE  IInv'
<1>0. /\ EntryInv /\ CacheInv /\ pc = Idle /\ n \in timer /\ Cached(n)
      /\ nrefs \in [Neighbour -> Nat] /\ tries \in [Neighbour -> Nat]
      /\ dest' = dest /\ \A m \in Neighbour : pc.n # m
  BY SMTT(30), PcCases DEF neighbour_expired, IInv, EntryInv, CacheInv, DeviceInv, Cached
<1>1. CASE /\ neighbour_destroy({n}, list_del(neighbours, n))
           /\ PutEntry(Released({n})) /\ UNCHANGED <<open, registered, driven, pc>>
  BY ZenonT(30), <1>0, <1>1, DestroyOneStep
<1>2. CASE /\ tries' = [tries EXCEPT ![n] = @ + 1]
           /\ nrefs' = [nrefs EXCEPT ![n] = @ + 1]
           /\ pc' = In("expired", n)
           /\ UNCHANGED <<deviceVars, neighbours, known, timer, waiting>>
  <2>1. nrefs' \in [Neighbour -> Nat] /\ tries' \in [Neighbour -> Nat]
    BY SMTT(30), <1>0, <1>2
  <2>2. ASSUME NEW m \in Neighbour
        PROVE  /\ nrefs'[m] = One(Cached(m)') + One(m \in timer') + One(pc'.n = m)
               /\ nrefs[m] > 0 <=> nrefs'[m] > 0
    <3>1. nrefs[m] = One(Cached(m)) + One(m \in timer) + One(pc.n = m)
      BY <1>0 DEF EntryInv, EntryRefs
    <3>2. (Cached(m)' <=> Cached(m)) /\ timer' = timer
      BY Zenon, <1>2 DEF Cached
    <3>3. CASE m = n
      <4>1. nrefs'[m] = nrefs[m] + 1 /\ pc'.n = m /\ pc.n # m /\ Cached(m)
        BY SMTT(30), <1>0, <1>2, <3>3, PcFacts
      <4> QED BY SMTT(30), <3>1, <3>2, <4>1 DEF One
    <3>4. CASE m # n
      <4>1. nrefs'[m] = nrefs[m] /\ pc'.n # m /\ pc.n # m
        BY SMTT(30), <1>0, <1>2, <3>4, PcFacts
      <4> QED BY SMTT(30), <3>1, <3>2, <4>1 DEF One
    <3> QED BY Zenon, <3>3, <3>4
  <2>3. DeviceInv'
    BY ZenonT(30), <1>2, <2>1, <2>2, SameHeld DEF IInv, deviceVars
  <2>4. KnownOrAsking'
    <3>1. \A m \in Neighbour : pc # In("discovered", m)
      BY SMTT(30), <1>0, PcFacts
    <3> QED BY SMTT(30), <1>0, <1>2, <3>1 DEF EntryInv, KnownOrAsking, Cached
  <2>5. EntryInv'
    BY SMTT(30), <1>0, <1>2, <2>1, <2>2, <2>4 DEF EntryInv, EntryRefs, CacheInv
  <2> QED BY <2>3, <2>5 DEF IInv
<1> QED BY ZenonT(30), <1>1, <1>2 DEF neighbour_expired

LEMMA DiscardStep ==
  ASSUME IInv, neighbour_discard
  PROVE  IInv'
<1> DEFINE last == neighbours[Len(neighbours)]
<1>1. neighbours \in Seq(Neighbour) /\ neighbours # << >>
  BY DEF neighbour_discard, IInv, EntryInv, CacheInv
<1>2. Len(neighbours) \in DOMAIN neighbours /\ last \in Neighbour
  BY SMTT(30), <1>1, LenProperties, EmptySeq
<1>3. Cached(last)
  BY Zenon, <1>2 DEF Cached, Elements
<1>4. /\ neighbour_destroy({last}, list_del(neighbours, last))
      /\ PutEntry(Released({last})) /\ UNCHANGED <<open, registered, driven, pc, dest>>
  BY Zenon DEF neighbour_discard
<1> HIDE DEF last
<1> QED BY Zenon, <1>2, <1>3, <1>4, DestroyOneStep

\* The steps of the devices alone.
LEMMA DeviceStep ==
  ASSUME IInv, \/ discard_deferred
               \/ \E d \in Device : Complete(d) \/ DeviceArrives(d)
  PROVE  IInv'
<1>0. UNCHANGED <<entryVars, pc, dest>>
  BY SMTT(30) DEF discard_deferred, Complete, DeviceArrives
<1>1. EntryInv'
  BY SMTT(30), <1>0 DEF IInv, EntryInv, CacheInv, EntryRefs, KnownOrAsking, Cached, entryVars
<1>2. DeviceInv'
  <2>1. CASE UNCHANGED <<open, registered, driven, drefs>>
    BY SMTT(30), <1>0, <2>1 DEF IInv, DeviceInv, DeviceRefs, HeldOf, entryVars
  <2>2. ASSUME NEW d \in Device, netdev_open(d) PROVE DeviceInv'
    BY SMTT(30), <1>0, <2>2 DEF netdev_open, IInv, DeviceInv, DeviceRefs, HeldOf, entryVars
  <2>3. ASSUME NEW d \in Device, register_netdev(d) PROVE DeviceInv'
    <3>1. /\ drefs[d] = 0 /\ registered' = registered \cup {d} /\ open' = open /\ nrefs' = nrefs
          /\ \/ driven' = driven \cup {d} /\ drefs' = [drefs EXCEPT ![d] = 2]
             \/ driven' = driven /\ drefs' = [drefs EXCEPT ![d] = 1]
      BY SMTT(30), <1>0, <2>3 DEF register_netdev, entryVars
    <3>0. d \notin registered /\ d \notin driven
      BY <3>1, NotListed DEF IInv
    <3>2. drefs \in [Device -> Nat]
      BY Zenon DEF IInv, DeviceInv
    <3>3. ASSUME NEW e \in Device
          PROVE  drefs'[e] = One(e \in registered') + One(e \in driven') + Cardinality(HeldOf(nrefs', e))
      <4>1. drefs[e] = One(e \in registered) + One(e \in driven) + Cardinality(HeldOf(nrefs, e))
        BY Zenon DEF IInv, DeviceInv, DeviceRefs
      <4>2. Cardinality(HeldOf(nrefs, e)) \in Nat /\ HeldOf(nrefs', e) = HeldOf(nrefs, e)
        BY SMTT(30), <3>1, HeldFinite
      <4>3. CASE e = d
        <5>1. drefs[e] = 0 /\ drefs'[e] = 1 + One(e \in driven') /\ e \in registered'
          BY SMTT(30), <3>0, <3>1, <3>2, <4>3 DEF One
        <5> QED BY SMTT(30), <4>1, <4>2, <5>1 DEF One
      <4>4. CASE e # d
        <5>1. /\ drefs'[e] = drefs[e]
              /\ e \in registered' <=> e \in registered
              /\ e \in driven' <=> e \in driven
          BY SMTT(30), <3>1, <3>2, <4>4
        <5> QED BY Zenon, <4>1, <4>2, <5>1 DEF One
      <4> QED BY <4>3, <4>4
    <3>4. drefs' \in [Device -> Nat]
      BY SMTT(30), <3>1, <3>2
    <3> QED BY SMTT(30), <3>1, <3>3, <3>4 DEF IInv, DeviceInv, DeviceRefs
  <2> QED BY SMTT(30), <2>1, <2>2, <2>3 DEF discard_deferred, net_discard, Complete,
               netdev_tx_complete_next, DeviceArrives
<1> QED BY Zenon, <1>1, <1>2 DEF IInv

-----------------------------------------------------------------------------
\* Whatever is sent, answered, lost, discarded, closed or removed, in whatever
\* order and in the middle of whichever function, the cache entries and the
\* devices have the references that they should have, and every entry knows
\* its neighbour's address or is asking for it.
THEOREM Consistency == Spec => []EntriesConsistent
<1>1. IInv /\ [Next]_vars => IInv'
  <2> SUFFICES ASSUME IInv, [Next]_vars PROVE IInv'
    BY SMTT(30)
  <2>1. CASE UNCHANGED vars
    <3>1. UNCHANGED <<deviceVars, entryVars, pc, dest>>
      BY SMTT(30), <2>1 DEF vars
    <3> QED BY SMTT(30), <3>1, QuietStep DEF deviceVars, entryVars, IInv, EntryInv, CacheInv
  <2>2. CASE Next
    BY SMTT(30), <2>2, TxStep, UpdateStep, DefineStep, ExpiredStep, DiscoveredStep, RequestStep,
       DiscardStep, DeviceStep, CloseStep, UnregisterStep, FailureStep DEF Next
  <2> QED BY Zenon, <2>1, <2>2
<1> QED BY <1>1, InitHolds, IInvImplies, PTL DEF Spec
=============================================================================
