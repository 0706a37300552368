---------------------------- MODULE AfCan_proofs ----------------------------
(***************************************************************************)
(* The lists of af_can.c keep the promise of a filter, for every width of  *)
(* identifiers; and raw sockets get what they asked for and leave nothing  *)
(* behind, for any sockets, devices and filters.                           *)
(***************************************************************************)
EXTENDS AfCan, FiniteSetTheorems, TLAPS

----------------------------------------------------------------------------
(* The filters.                                                            *)

\* The mask of a subscription holds the bits that are compared
\* (find_rcv_list, the "paranoic operations").
LEMMA MaskIsCompared ==
  ASSUME NEW fl \in Filters
  PROVE  MaskOf(fl) = Compared(fl)
BY DEF MaskOf, Compared, Flags

\* A flag the filter has set in its can_id and mask is compared, and so are
\* only the flags it has set.
LEMMA FlagsCompared ==
  ASSUME NEW fl \in Filters, NEW flag \in {EFF, RTR}
  PROVE  /\ flag \in MaskOf(fl) <=> (flag \in fl.id /\ flag \in fl.mask)
         /\ flag \in IdOf(fl) <=> flag \in MaskOf(fl)
<1>1. flag \notin EffMask /\ flag \notin SffMask
  BY BitsAssumption
<1> QED
  BY <1>1 DEF MaskOf, IdOf, Flags

\* A filter asks for one SFF identifier iff it is without flags and compares
\* the SFF bits: what find_rcv_list tests before it takes the array rx_sff.
LEMMA OneSffIdIsSffExact ==
  ASSUME NEW fl \in Filters
  PROVE  OneSffId(fl) <=> (EFF \notin IdOf(fl) /\ RTR \notin IdOf(fl) /\ SffExact(fl))
<1>1. EFF \in IdOf(fl) <=> (EFF \in fl.id /\ EFF \in fl.mask)
  BY FlagsCompared
<1>2. RTR \in IdOf(fl) <=> (RTR \in fl.id /\ RTR \in fl.mask)
  BY FlagsCompared
<1> QED
  BY <1>1, <1>2, MaskIsCompared DEF OneSffId, SffExact

\* No subscription is kept in the list of exact EFF identifiers: its mask
\* would have to hold CAN_EFF_FLAG, and CAN_EFF_MASK does not
\* (find_rcv_list compares the mask with CAN_EFF_MASK).
THEOREM NeverRxEff ==
  ASSUME NEW fl \in Filters
  PROVE  Subscription(fl).list # "rx_eff"
<1>1. ASSUME EFF \in IdOf(fl), MaskOf(fl) = EffMask
      PROVE  FALSE
  <2>1. EFF \in MaskOf(fl)
    BY <1>1 DEF IdOf
  <2> QED
    BY <1>1, <2>1, BitsAssumption
<1> QED
  BY <1>1 DEF Subscription, ListOf

\* find_rcv_list() and can_rcv_filter() together: a subscription gets a frame
\* iff the filter it was made from wants it, whatever list it is kept in.
THEOREM FiltersKeepPromise ==
  ASSUME NEW fl \in Filters, NEW f \in SUBSET Bits
  PROVE  Gets(Subscription(fl), f) <=> Wants(fl, f)
<1> DEFINE Matches == f \cap MaskOf(fl) = IdOf(fl)
<1>1. Matches <=> f \cap Compared(fl) = fl.id \cap Compared(fl)
  BY MaskIsCompared DEF IdOf
<1>2. Subscription(fl).list = ListOf(fl) /\ Subscription(fl).id = IdOf(fl)
        /\ Subscription(fl).mask = MaskOf(fl)
  BY DEF Subscription
<1> HIDE DEF Matches
<1>3. CASE fl.inv
  <2>1. ListOf(fl) = "rx_inv"
    BY <1>3 DEF ListOf
  <2>2. Gets(Subscription(fl), f) <=> ~Matches
    BY <1>2, <2>1 DEF Gets, Matches
  <2> QED
    BY <1>1, <1>3, <2>2 DEF Wants
<1>4. CASE ~fl.inv /\ ListOf(fl) = "rx_fil"
  <2>1. Gets(Subscription(fl), f) <=> Matches
    BY <1>2, <1>4 DEF Gets, Matches
  <2>2. ~OneSffId(fl)
    <3>1. ASSUME EFF \notin IdOf(fl), RTR \notin IdOf(fl), SffExact(fl)
          PROVE  FALSE
      <4>1. MaskOf(fl) # {}
        BY <3>1, BitsAssumption DEF SffExact
      <4> QED
        BY <1>4, <3>1, <4>1 DEF ListOf
    <3> QED
      BY <3>1, OneSffIdIsSffExact
  <2> QED
    BY <1>1, <1>4, <2>1, <2>2 DEF Wants
<1>5. CASE ~fl.inv /\ ListOf(fl) = "rx_all"
  <2>1. MaskOf(fl) = {}
    BY <1>5 DEF ListOf
  <2>2. Matches
    BY <2>1 DEF Matches, IdOf
  <2>3. ~OneSffId(fl)
    BY <2>1, MaskIsCompared, BitsAssumption DEF OneSffId
  <2>4. Gets(Subscription(fl), f)
    BY <1>2, <1>5 DEF Gets
  <2> QED
    BY <1>1, <1>5, <2>2, <2>3, <2>4 DEF Wants
<1>6. CASE ~fl.inv /\ ListOf(fl) = "rx_sff"
  <2>1. EFF \notin IdOf(fl) /\ RTR \notin IdOf(fl) /\ SffExact(fl)
    BY <1>6 DEF ListOf
  <2>2. OneSffId(fl)
    BY <2>1, OneSffIdIsSffExact
  <2>3. Gets(Subscription(fl), f) <=> (EFF \notin f /\ Matches)
    BY <1>2, <1>6, <2>1 DEF Gets, Matches, SffExact
  <2> QED
    BY <1>1, <1>6, <2>2, <2>3 DEF Wants
<1>7. ListOf(fl) # "rx_eff"
  BY NeverRxEff, <1>2
<1> QED
  BY <1>3, <1>4, <1>5, <1>6, <1>7 DEF ListOf
----------------------------------------------------------------------------
(* The inductive invariant.                                                *)

\* What a socket has in a receive list, or in the list of those who are told.
OfSock(l, s) == [e \in {e \in BagToSet(l) : e.sock = s} |-> l[e]]

\* Where a socket is registered.
At(s, p) == life[s] = "open" /\ bound[s] /\ p = DevOf(asked[s])

\* A socket has the entries of its filters where it is registered, and nothing
\* elsewhere.
Listed(s) ==
  \A p \in Places :
    OfSock(lists[p], s) = IF At(s, p) THEN Entries(s, filter[s]) ELSE EmptyBag

\* It is told of the device it is bound to, once.
Noted(s) ==
  OfSock(nlist, s) = IF \E d \in Devs : At(s, d)
                     THEN SetToBag({[dev |-> DevOf(asked[s]), sock |-> s]}) ELSE EmptyBag

\* It is bound to what it asked for, and the device is there.
BoundAsAsked(s) ==
  /\ boundIndex[s] = asked[s]
  /\ ~bound[s] => asked[s] = NoIndex
  /\ life[s] = "open" /\ bound[s] /\ asked[s] # NoIndex => \E d \in Devs : ifindex[d] = asked[s]

SockInv(s) == Listed(s) /\ Noted(s) /\ BoundAsAsked(s)

\* No two devices have the same ifindex, and none gets one that was in use.
IndexInv ==
  /\ \A d \in Devs : ifindex[d] <= lastIndex
  /\ \A d, e \in Devs : ifindex[d] = ifindex[e] => d = e \/ ifindex[d] = NoIndex
  /\ \A s \in Socks : asked[s] <= lastIndex

IInv == TypeOK /\ IndexInv /\ \A s \in Socks \ orphans : SockInv(s)

----------------------------------------------------------------------------
(* Bags.                                                                   *)

\* Bags of the entries of one socket, of the entries of receivers and of the
\* list of those who are told of a device.
OnlyOf(m, s) == IsABag(m) /\ \A e \in BagToSet(m) : e.sock = s

\* What is added for one socket is its own.
LEMMA AddOwn ==
  ASSUME NEW l, NEW m, NEW s, IsABag(l), OnlyOf(m, s)
  PROVE  /\ IsABag(l (+) m) /\ BagToSet(l (+) m) = BagToSet(l) \cup BagToSet(m)
         /\ OfSock(l, s) = EmptyBag => OfSock(l (+) m, s) = m
<1>1. IsABag(l (+) m) /\ BagToSet(l (+) m) = BagToSet(l) \cup BagToSet(m)
  BY DEF IsABag, (+), BagToSet, OnlyOf
<1>2. ASSUME OfSock(l, s) = EmptyBag
      PROVE  OfSock(l (+) m, s) = m
  <2>1. {e \in DOMAIN l : e.sock = s} = {}
    BY <1>2 DEF OfSock, EmptyBag, SetToBag, BagToSet
  <2>2. \A e \in DOMAIN m : e \notin DOMAIN l
    BY <2>1 DEF OnlyOf, BagToSet
  <2>3. {e \in DOMAIN (l (+) m) : e.sock = s} = DOMAIN m
    BY <1>1, <2>1 DEF OnlyOf, BagToSet
  <2>4. \A e \in DOMAIN m : (l (+) m)[e] = m[e]
    BY <2>2 DEF (+), OnlyOf, IsABag, BagToSet
  <2>5. m = [e \in DOMAIN m |-> m[e]]
    BY DEF OnlyOf, IsABag
  <2> QED BY <2>3, <2>4, <2>5 DEF OfSock, BagToSet
<1> QED BY <1>1, <1>2

\* What is added for one socket is nothing to another.
LEMMA AddOther ==
  ASSUME NEW l, NEW m, NEW s, NEW t, s # t, IsABag(l), OnlyOf(m, s)
  PROVE  OfSock(l (+) m, t) = OfSock(l, t)
<1>1. \A e \in DOMAIN m : e.sock # t
  BY DEF OnlyOf, BagToSet
<1>2. {e \in DOMAIN (l (+) m) : e.sock = t} = {e \in DOMAIN l : e.sock = t}
  BY <1>1 DEF (+)
<1>3. \A e \in DOMAIN l : e.sock = t => (l (+) m)[e] = l[e]
  BY <1>1 DEF (+), IsABag
<1> QED BY <1>2, <1>3 DEF OfSock, BagToSet

\* What one socket had, and only that, can be taken away.
LEMMA RemoveOwn ==
  ASSUME NEW l, NEW m, NEW s, IsABag(l), OnlyOf(m, s)
  PROVE  /\ IsABag(l (-) m) /\ BagToSet(l (-) m) \subseteq BagToSet(l)
         /\ OfSock(l, s) = m => OfSock(l (-) m, s) = EmptyBag
<1>1. IsABag(l (-) m) /\ BagToSet(l (-) m) \subseteq BagToSet(l)
  BY DEF IsABag, (-), BagToSet, OnlyOf
<1>2. ASSUME OfSock(l, s) = m
      PROVE  OfSock(l (-) m, s) = EmptyBag
  <2>1. \A e \in DOMAIN l : e.sock = s => e \in DOMAIN m /\ m[e] = l[e] /\ l[e] \in Nat
    BY <1>2 DEF OfSock, BagToSet, IsABag
  <2>2. {e \in DOMAIN (l (-) m) : e.sock = s} = {}
    BY <2>1 DEF (-)
  <2> QED BY <2>2 DEF OfSock, BagToSet, EmptyBag, SetToBag
<1> QED BY <1>1, <1>2

\* What is taken away for one socket is nothing to another.
LEMMA RemoveOther ==
  ASSUME NEW l, NEW m, NEW s, NEW t, s # t, IsABag(l), OnlyOf(m, s)
  PROVE  OfSock(l (-) m, t) = OfSock(l, t)
<1>1. \A e \in DOMAIN m : e.sock # t
  BY DEF OnlyOf, BagToSet
<1>2. {e \in DOMAIN (l (-) m) : e.sock = t} = {e \in DOMAIN l : e.sock = t}
  BY <1>1 DEF (-), IsABag
<1>3. \A e \in DOMAIN l : e.sock = t => (l (-) m)[e] = l[e]
  BY <1>1 DEF (-), IsABag
<1> QED BY <1>2, <1>3 DEF OfSock, BagToSet

\* The filters in force are some filters.
LEMMA InForceTypes ==
  ASSUME NEW fs \in FilterSets \cup {<<>>}
  PROVE  /\ InForce(fs) \in Seq(Filters)
         /\ DOMAIN InForce(fs) = 1 .. Len(InForce(fs)) /\ Len(InForce(fs)) \in Nat
<1>1. Everything \in Filters
  BY DEF Everything, Filters
<1>2. fs = <<>> \/ fs \in Seq(Filters)
  BY AfCanAssumption
<1>3. <<Everything>> \in Seq(Filters)
  BY <1>1
<1>4. InForce(fs) \in Seq(Filters)
  BY <1>2, <1>3, Zenon DEF InForce
<1> QED BY <1>4

\* raw_add_filters() makes a bag of entries that a frame can match.
LEMMA EntriesOwn ==
  ASSUME NEW s, NEW fs \in FilterSets \cup {<<>>}
  PROVE  /\ OnlyOf(Entries(s, fs), s)
         /\ \A e \in BagToSet(Entries(s, fs)) : e.sub.id \subseteq e.sub.mask /\ e.sub.mask \subseteq Bits
<1> DEFINE n == Len(InForce(fs))
           entry == [i \in 1 .. n |-> [sock |-> s, sub |-> Subscription(InForce(fs)[i])]]
<1>1. n \in Nat /\ IsFiniteSet(1 .. n) /\ \A i \in 1 .. n : InForce(fs)[i] \in Filters
  BY InForceTypes, FS_Interval
<1>2. Entries(s, fs) = ToBag(entry)
  BY InForceTypes DEF Entries
<1>3. \A i \in 1 .. n : /\ entry[i].sock = s
                        /\ entry[i].sub.id \subseteq entry[i].sub.mask
                        /\ entry[i].sub.mask \subseteq Bits
  BY <1>1, BitsAssumption DEF Subscription, IdOf, MaskOf, Flags, Filters, Bits
<1> HIDE DEF n, entry
<1>4. DOMAIN entry = 1 .. n
  BY DEF entry
<1>5. ASSUME NEW i \in 1 .. n
      PROVE  Cardinality({j \in DOMAIN entry : entry[j] = entry[i]}) \in {k \in Nat : k > 0}
  <2>1. IsFiniteSet({j \in DOMAIN entry : entry[j] = entry[i]})
    BY <1>1, <1>4, FS_Subset
  <2>2. i \in {j \in DOMAIN entry : entry[j] = entry[i]}
    BY <1>4
  <2> QED BY <2>1, <2>2, FS_CardinalityType, FS_EmptySet
<1>6. DOMAIN ToBag(entry) = {entry[i] : i \in 1 .. n}
  BY <1>4 DEF ToBag, Range
<1>7. IsABag(ToBag(entry))
  BY <1>4, <1>5, <1>6 DEF IsABag, ToBag, Range
<1> QED BY <1>2, <1>3, <1>6, <1>7 DEF OnlyOf, BagToSet

----------------------------------------------------------------------------
(* Counting.                                                               *)

\* The k-th of the slots of an array that hold the same as slot i.
RankIn(a, i) == Cardinality({j \in 1 .. i : a[j] = a[i]})

\* The copies of some members of a bag, one by one.
CopiesOf(b, S) == UNION {{e} \X (1 .. b[e]) : e \in S}

\* Whether a slot of an array is in W depends on what it holds alone.
ByContents(W, a, n) == \A i \in W, j \in 1 .. n : a[j] = a[i] => j \in W

\* Of the things that an array holds, as many pairs <<thing, copy>> are wanted as
\* there are slots with a wanted thing.
LEMMA CopiesAreSlots ==
  ASSUME NEW n \in Nat, NEW a, DOMAIN a = 1 .. n, NEW W \in SUBSET (1 .. n),
         ByContents(W, a, n), NEW S, S = {a[i] : i \in W}
  PROVE  Cardinality(CopiesOf(ToBag(a), S)) = Cardinality(W)
<1> DEFINE Same(i) == {j \in 1 .. n : a[j] = a[i]}
           Upto(i) == {j \in 1 .. i : a[j] = a[i]}
           T == UNION {{e} \X (1 .. ToBag(a)[e]) : e \in {a[i] : i \in W}}
           f == [i \in W |-> <<a[i], RankIn(a, i)>>]
<1>1. ASSUME NEW i \in 1 .. n
      PROVE  /\ IsFiniteSet(Same(i)) /\ IsFiniteSet(Upto(i)) /\ Cardinality(Same(i)) \in Nat
             /\ RankIn(a, i) \in 1 .. Cardinality(Same(i))
             /\ ToBag(a)[a[i]] = Cardinality(Same(i))
  <2>1. IsFiniteSet(1 .. n)
    BY FS_Interval
  <2>2. IsFiniteSet(Same(i)) /\ Upto(i) \subseteq Same(i)
    BY <2>1, FS_Subset
  <2>3. IsFiniteSet(Upto(i)) /\ Cardinality(Upto(i)) <= Cardinality(Same(i))
    BY <2>2, FS_Subset
  <2>4. Cardinality(Upto(i)) \in Nat /\ Cardinality(Same(i)) \in Nat
    BY <2>2, <2>3, FS_CardinalityType
  <2>5. i \in Upto(i)
    OBVIOUS
  <2>6. Cardinality(Upto(i)) # 0
    BY <2>3, <2>5, FS_EmptySet
  <2>7. ToBag(a)[a[i]] = Cardinality(Same(i))
    BY DEF ToBag, Range
  <2> QED BY <2>2, <2>3, <2>4, <2>6, <2>7 DEF RankIn
<1>2. ASSUME NEW i \in 1 .. n, NEW k \in 1 .. n, i < k, a[i] = a[k]
      PROVE  RankIn(a, i) < RankIn(a, k)
  <2>1. Upto(i) \cup {k} \subseteq Upto(k) /\ k \notin Upto(i)
    BY <1>2
  <2>2. IsFiniteSet(Upto(i)) /\ IsFiniteSet(Upto(k))
    BY <1>1
  <2>3. Cardinality(Upto(i) \cup {k}) = Cardinality(Upto(i)) + 1
    BY <2>1, <2>2, FS_AddElement
  <2>4. Cardinality(Upto(i) \cup {k}) <= Cardinality(Upto(k))
    BY <2>1, <2>2, FS_Subset
  <2>5. Cardinality(Upto(i)) \in Nat /\ Cardinality(Upto(k)) \in Nat
    BY <2>2, FS_CardinalityType
  <2> QED BY <2>3, <2>4, <2>5 DEF RankIn
<1> HIDE DEF Same, Upto, T, f
<1>3. ASSUME NEW i \in 1 .. n, NEW k \in 1 .. n, a[i] = a[k], RankIn(a, i) = RankIn(a, k)
      PROVE  i = k
  <2>1. RankIn(a, i) \in Int /\ RankIn(a, k) \in Int
    BY <1>1
  <2> QED BY <1>2, <1>3, <2>1
<1>4. ASSUME NEW i \in W, NEW c \in 1 .. Cardinality(Same(i))
      PROVE  \E j \in W : a[j] = a[i] /\ RankIn(a, j) = c
  <2> DEFINE m == Cardinality(Same(i))
             g == [j \in Same(i) |-> RankIn(a, j)]
  <2>1. m \in Nat /\ IsFiniteSet(Same(i)) /\ IsFiniteSet(1 .. m) /\ Cardinality(1 .. m) = m
    <3>1. m \in Nat /\ IsFiniteSet(Same(i))
      BY <1>1
    <3> HIDE DEF m
    <3>2. IsFiniteSet(1 .. m) /\ Cardinality(1 .. m) = IF 1 > m THEN 0 ELSE m - 1 + 1
      BY <3>1, FS_Interval
    <3> QED BY <3>1, <3>2
  <2>2. g \in [Same(i) -> 1 .. m]
    <3>1. ASSUME NEW j \in Same(i)
          PROVE  RankIn(a, j) \in 1 .. m
      <4>1. j \in 1 .. n /\ Same(j) = Same(i)
        BY DEF Same
      <4> QED BY <1>1, <4>1
    <3> QED BY <3>1
  <2>3. g \in Injection(Same(i), 1 .. m)
    <3>1. \A j, k \in Same(i) : g[j] = g[k] => j = k
      BY <1>3 DEF Same
    <3> HIDE DEF g
    <3> QED BY <2>2, <3>1 DEF Injection, IsInjective
  <2>4. g \in Surjection(Same(i), 1 .. m)
    <3> HIDE DEF g, m
    <3>1. Cardinality(Same(i)) = Cardinality(1 .. m)
      BY <2>1 DEF m
    <3> QED BY <2>1, <2>3, <3>1, FS_Injection
  <2>5. PICK j \in Same(i) : g[j] = c
    <3> HIDE DEF g
    <3> QED BY <2>4 DEF Surjection, m
  <2> QED BY <2>5 DEF ByContents, Same
<1>5. IsFiniteSet(W)
  <2>1. IsFiniteSet(1 .. n)
    BY FS_Interval
  <2> QED BY <2>1, FS_Subset
<1>6. f \in Bijection(W, T)
  <2>1. f \in [W -> T]
    <3>1. ASSUME NEW i \in W
          PROVE  <<a[i], RankIn(a, i)>> \in {a[i]} \X (1 .. ToBag(a)[a[i]])
      BY <1>1
    <3> QED BY <3>1 DEF f, T
  <2>2. \A i, k \in W : f[i] = f[k] => i = k
    BY <1>3 DEF f
  <2>3. ASSUME NEW t \in T
        PROVE  \E j \in W : f[j] = t
    <3>1. PICK i \in W : t \in {a[i]} \X (1 .. ToBag(a)[a[i]])
      BY DEF T
    <3>2. ToBag(a)[a[i]] = Cardinality(Same(i))
      BY <1>1
    <3>3. PICK c \in 1 .. Cardinality(Same(i)) : t = <<a[i], c>>
      BY <3>1, <3>2
    <3>4. PICK j \in W : a[j] = a[i] /\ RankIn(a, j) = c
      BY <1>4
    <3> QED BY <3>3, <3>4 DEF f
  <2>4. f \in Injection(W, T)
    BY <2>1, <2>2 DEF Injection, IsInjective
  <2>5. f \in Surjection(W, T)
    BY <2>1, <2>3 DEF Surjection
  <2> QED BY <2>4, <2>5 DEF Bijection
<1>7. Cardinality(T) = Cardinality(W)
  BY <1>5, <1>6, FS_Bijection DEF ExistsBijection
<1> QED BY <1>7 DEF T, CopiesOf

----------------------------------------------------------------------------
(* Devices and sockets.                                                    *)

\* dev_get_by_index() finds the device that has the index, if there is one.
LEMMA DevOfIndex ==
  ASSUME NEW index
  PROVE  /\ DevOf(index) \in Places
         /\ DevOf(index) \in Devs => ifindex[DevOf(index)] = index /\ index # NoIndex
         /\ DevOf(NoIndex) = AnyDev
         /\ \A d \in Devs : index # NoIndex /\ ifindex[d] = index => DevOf(index) \in Devs
<1>1. CASE \E d \in Devs : index # NoIndex /\ ifindex[d] = index
  <2>1. DevOf(index) = CHOOSE d \in Devs : ifindex[d] = index
    BY <1>1 DEF DevOf
  <2>2. DevOf(index) \in Devs /\ ifindex[DevOf(index)] = index
    BY <1>1, <2>1
  <2> QED BY <1>1, <2>2 DEF Places, DevOf
<1>2. CASE ~\E d \in Devs : index # NoIndex /\ ifindex[d] = index
  BY <1>2, AfCanAssumption DEF DevOf, Places
<1> QED BY <1>1, <1>2

\* That device is the only one.
LEMMA DevOfOne ==
  ASSUME IndexInv, NEW d \in Devs, ifindex[d] # NoIndex
  PROVE  DevOf(ifindex[d]) = d
<1>1. DevOf(ifindex[d]) \in Devs /\ ifindex[DevOf(ifindex[d])] = ifindex[d]
  BY DevOfIndex
<1> QED BY <1>1 DEF IndexInv

\* A socket that a step does not concern keeps what is its own.
LEMMA OthersKeep ==
  ASSUME NEW t, SockInv(t), ifindex' = ifindex,
         life'[t] = life[t], bound'[t] = bound[t], boundIndex'[t] = boundIndex[t],
         asked'[t] = asked[t], filter'[t] = filter[t],
         \A p \in Places : OfSock(lists'[p], t) = OfSock(lists[p], t),
         OfSock(nlist', t) = OfSock(nlist, t)
  PROVE  SockInv(t)'
<1>1. \A i : DevOf(i)' = DevOf(i)
  BY DEF DevOf
<1>2. \A p : At(t, p)' = At(t, p)
  BY <1>1 DEF At
<1>3. Listed(t)'
  <2>1. \A p \in Places : OfSock(lists[p], t)' = OfSock(lists'[p], t)
    BY DEF OfSock
  <2>2. Entries(t, filter[t])' = Entries(t, filter[t])
    BY DEF Entries
  <2> QED BY <1>2, <2>1, <2>2 DEF SockInv, Listed
<1>4. Noted(t)'
  <2>1. OfSock(nlist, t)' = OfSock(nlist', t)
    BY DEF OfSock
  <2> QED BY <1>1, <1>2, <2>1 DEF SockInv, Noted
<1>5. BoundAsAsked(t)'
  BY DEF SockInv, BoundAsAsked
<1> QED BY <1>3, <1>4, <1>5 DEF SockInv

\* The types of the entries that a socket adds, and of what is told.
LEMMA NoteOwn ==
  ASSUME NEW s, NEW d
  PROVE  OnlyOf(SetToBag({[dev |-> d, sock |-> s]}), s)
BY DEF OnlyOf, SetToBag, IsABag, BagToSet

\* The entries in the lists have their types.
ListTypes(l) ==
  /\ IsABag(l)
  /\ \A e \in BagToSet(l) :
       e.sock \in Socks /\ e.sub.id \subseteq e.sub.mask /\ e.sub.mask \subseteq Bits

\* So has the list of those who are told.
NoteTypes(l) == IsABag(l) /\ BagToSet(l) \subseteq [dev : Devs, sock : Socks]

\* raw_add_filters() and raw_remove_filters() keep the types of a list, leave the
\* entries of other sockets alone, and undo each other.
LEMMA ListChanges ==
  ASSUME NEW s \in Socks, NEW fs \in FilterSets \cup {<<>>}, NEW l, ListTypes(l)
  PROVE  /\ ListTypes(AddFilters(l, s, fs)) /\ ListTypes(RemoveFilters(l, s, fs))
         /\ OfSock(l, s) = EmptyBag => OfSock(AddFilters(l, s, fs), s) = Entries(s, fs)
         /\ OfSock(l, s) = Entries(s, fs) => OfSock(RemoveFilters(l, s, fs), s) = EmptyBag
         /\ \A t : t # s => /\ OfSock(AddFilters(l, s, fs), t) = OfSock(l, t)
                            /\ OfSock(RemoveFilters(l, s, fs), t) = OfSock(l, t)
<1> DEFINE m == Entries(s, fs)
<1>1. /\ OnlyOf(m, s)
      /\ \A e \in BagToSet(m) : e.sub.id \subseteq e.sub.mask /\ e.sub.mask \subseteq Bits
  BY EntriesOwn
<1> HIDE DEF m
<1>2. /\ IsABag(l (+) m) /\ BagToSet(l (+) m) = BagToSet(l) \cup BagToSet(m)
      /\ OfSock(l, s) = EmptyBag => OfSock(l (+) m, s) = m
  BY <1>1, AddOwn DEF ListTypes
<1>3. /\ IsABag(l (-) m) /\ BagToSet(l (-) m) \subseteq BagToSet(l)
      /\ OfSock(l, s) = m => OfSock(l (-) m, s) = EmptyBag
  BY <1>1, RemoveOwn DEF ListTypes
<1>4. ASSUME NEW t, t # s
      PROVE  OfSock(l (+) m, t) = OfSock(l, t) /\ OfSock(l (-) m, t) = OfSock(l, t)
  BY <1>1, <1>4, AddOther, RemoveOther DEF ListTypes
<1>5. ListTypes(l (+) m) /\ ListTypes(l (-) m)
  BY <1>1, <1>2, <1>3 DEF ListTypes, OnlyOf
<1>6. AddFilters(l, s, fs) = l (+) m /\ RemoveFilters(l, s, fs) = l (-) m
  BY DEF AddFilters, RemoveFilters, m
<1> QED BY <1>2, <1>3, <1>4, <1>5, <1>6 DEF m

\* can_dev_register() and can_dev_unregister() do the same to the list of those
\* who are told.
LEMMA NoteChanges ==
  ASSUME NEW s \in Socks, NEW d \in Devs, NEW l, NoteTypes(l), NEW m, m = SetToBag({[dev |-> d, sock |-> s]})
  PROVE  /\ NoteTypes(l (+) m) /\ NoteTypes(l (-) m)
         /\ OfSock(l, s) = EmptyBag => OfSock(l (+) m, s) = m
         /\ OfSock(l, s) = m => OfSock(l (-) m, s) = EmptyBag
         /\ \A t : t # s => OfSock(l (+) m, t) = OfSock(l, t) /\ OfSock(l (-) m, t) = OfSock(l, t)
<1>1. OnlyOf(m, s) /\ BagToSet(m) \subseteq [dev : Devs, sock : Socks]
  BY NoteOwn DEF SetToBag, BagToSet
<1>2. /\ IsABag(l (+) m) /\ BagToSet(l (+) m) = BagToSet(l) \cup BagToSet(m)
      /\ OfSock(l, s) = EmptyBag => OfSock(l (+) m, s) = m
  BY <1>1, AddOwn DEF NoteTypes
<1>3. /\ IsABag(l (-) m) /\ BagToSet(l (-) m) \subseteq BagToSet(l)
      /\ OfSock(l, s) = m => OfSock(l (-) m, s) = EmptyBag
  BY <1>1, RemoveOwn DEF NoteTypes
<1>4. ASSUME NEW t, t # s
      PROVE  OfSock(l (+) m, t) = OfSock(l, t) /\ OfSock(l (-) m, t) = OfSock(l, t)
  BY <1>1, <1>4, AddOther, RemoveOther DEF NoteTypes
<1> QED BY <1>1, <1>2, <1>3, <1>4 DEF NoteTypes

----------------------------------------------------------------------------
(* The steps.                                                              *)

\* At first there is no device and nobody is bound.
LEMMA InitInv == Init => IInv
<1> SUFFICES ASSUME Init PROVE IInv
  OBVIOUS
<1>1. IsABag(EmptyBag) /\ BagToSet(EmptyBag) = {}
  BY DEF EmptyBag, SetToBag, IsABag, BagToSet
<1>2. \A s : OfSock(EmptyBag, s) = EmptyBag
  BY DEF EmptyBag, SetToBag, BagToSet, OfSock
<1> HIDE DEF EmptyBag
<1>3. \A p \in Places : lists[p] = EmptyBag
  BY DEF Init
<1>4. TypeOK
  BY <1>1, <1>3, AfCanAssumption DEF Init, TypeOK, NoIndex
<1>5. IndexInv
  BY DEF Init, IndexInv, NoIndex
<1>6. \A s \in Socks : SockInv(s)
  BY <1>2, <1>3 DEF Init, SockInv, Listed, Noted, BoundAsAsked, At
<1> QED BY <1>4, <1>5, <1>6 DEF IInv

\* raw_bind() adds the filters of the socket where it had nothing.
LEMMA StepBind ==
  ASSUME IInv, NEW s \in Socks, NEW index \in {NoIndex} \cup {ifindex[d] : d \in Devs}, RawBind(s, index)
  PROVE  IInv'
<1> DEFINE d == DevOf(index)
           L == AddFilters(lists[d], s, filter[s])
           N == SetToBag({[dev |-> d, sock |-> s]})
<1>1. d \in Places /\ (d = AnyDev => d \notin Devs) /\ (d # AnyDev => d \in Devs)
  BY DevOfIndex, AfCanAssumption DEF Places
<1>2. TypeOK
  BY DEF IInv
<1>3. /\ life[s] = "open" /\ ~bound[s] /\ nlist' = IF d = AnyDev THEN nlist ELSE nlist (+) N
      /\ boundIndex' = [boundIndex EXCEPT ![s] = index] /\ asked' = [asked EXCEPT ![s] = index]
      /\ lists' = [lists EXCEPT ![d] = L] /\ bound' = [bound EXCEPT ![s] = TRUE]
      /\ ifindex' = ifindex /\ up' = up /\ lastIndex' = lastIndex /\ life' = life /\ filter' = filter
      /\ orphans' = orphans
  BY DEF RawBind
<1>4. /\ filter[s] \in FilterSets \cup {<<>>} /\ NoteTypes(nlist)
      /\ \A p \in Places : ListTypes(lists[p])
  BY <1>2 DEF TypeOK, NoteTypes, ListTypes
<1>5. /\ ListTypes(L) /\ (OfSock(lists[d], s) = EmptyBag => OfSock(L, s) = Entries(s, filter[s]))
      /\ \A t : t # s => OfSock(L, t) = OfSock(lists[d], t)
  BY <1>1, <1>4, ListChanges
<1>6. /\ NoteTypes(nlist') /\ \A t : t # s => OfSock(nlist', t) = OfSock(nlist, t)
      /\ OfSock(nlist, s) = EmptyBag => OfSock(nlist', s) = IF d = AnyDev THEN EmptyBag ELSE N
  BY <1>1, <1>3, <1>4, NoteChanges
<1> HIDE DEF d, L, N
<1>7. lists' = [p \in Places |-> IF p = d THEN L ELSE lists[p]]
  BY <1>1, <1>2, <1>3 DEF TypeOK
<1>8. TypeOK'
  <2>1. index \in 0 .. MaxIndex
    BY <1>2, AfCanAssumption DEF TypeOK, NoIndex
  <2>2. \A p \in Places : ListTypes(lists'[p])
    BY <1>4, <1>5, <1>7
  <2>3. boundIndex' \in [Socks -> 0 .. MaxIndex] /\ asked' \in [Socks -> 0 .. MaxIndex]
        /\ bound' \in [Socks -> BOOLEAN]
    BY <1>2, <1>3, <2>1 DEF TypeOK
  <2>4. lists' = [p \in Places |-> lists'[p]]
    BY <1>7
  <2> QED BY <1>2, <1>3, <1>6, <2>2, <2>3, <2>4 DEF TypeOK, ListTypes, NoteTypes
<1>9. IndexInv'
  <2>1. IndexInv /\ index <= lastIndex
    BY <1>2 DEF IInv, IndexInv, NoIndex, TypeOK
  <2> QED BY <1>2, <1>3, <2>1 DEF IndexInv, TypeOK
<1>10. ASSUME NEW t \in Socks \ orphans', t # s
       PROVE  SockInv(t)'
  <2>1. SockInv(t)
    BY <1>3, <1>10 DEF IInv
  <2>2. \A p \in Places : OfSock(lists'[p], t) = OfSock(lists[p], t)
    BY <1>5, <1>7, <1>10
  <2>3. life'[t] = life[t] /\ bound'[t] = bound[t] /\ boundIndex'[t] = boundIndex[t]
        /\ asked'[t] = asked[t] /\ filter'[t] = filter[t] /\ ifindex' = ifindex
    BY <1>2, <1>3, <1>10 DEF TypeOK
  <2>4. OfSock(nlist', t) = OfSock(nlist, t)
    BY <1>6, <1>10
  <2> QED BY <2>1, <2>2, <2>3, <2>4, OthersKeep
<1>11. ASSUME s \notin orphans'
       PROVE  SockInv(s)'
  <2>1. SockInv(s)
    BY <1>3, <1>11 DEF IInv
  <2>2. (\A p \in Places : OfSock(lists[p], s) = EmptyBag) /\ OfSock(nlist, s) = EmptyBag
    BY <1>3, <2>1 DEF SockInv, Listed, Noted, At
  <2>3. life'[s] = "open" /\ bound'[s] = TRUE /\ boundIndex'[s] = index /\ asked'[s] = index
        /\ filter'[s] = filter[s]
    BY <1>2, <1>3 DEF TypeOK
  <2>4. \A i : DevOf(i)' = DevOf(i)
    BY <1>3 DEF DevOf
  <2>5. \A p : At(s, p)' <=> p = d
    BY <2>3, <2>4 DEF At, d
  <2>6. Listed(s)'
    <3>1. \A p \in Places : OfSock(lists'[p], s) = IF p = d THEN Entries(s, filter[s]) ELSE EmptyBag
      BY <1>1, <1>5, <1>7, <2>2
    <3>2. \A p \in Places : OfSock(lists[p], s)' = OfSock(lists'[p], s)
      BY DEF OfSock
    <3>3. Entries(s, filter[s])' = Entries(s, filter[s])
      BY <1>3 DEF Entries
    <3> QED BY <2>5, <3>1, <3>2, <3>3 DEF Listed
  <2>7. Noted(s)'
    <3>1. OfSock(nlist, s)' = IF d = AnyDev THEN EmptyBag ELSE N
      BY <1>6, <2>2 DEF OfSock
    <3>2. (\E e \in Devs : At(s, e)') <=> d # AnyDev
      BY <1>1, <2>5
    <3>3. DevOf(asked[s])' = d
      BY <2>3, <2>4 DEF d
    <3> QED BY <3>1, <3>2, <3>3 DEF Noted, N
  <2>8. BoundAsAsked(s)'
    BY <1>3, <2>3 DEF BoundAsAsked
  <2> QED BY <2>6, <2>7, <2>8 DEF SockInv
<1> QED BY <1>8, <1>9, <1>10, <1>11 DEF IInv

\* raw_setsockopt() and raw_release() find the socket where raw_bind() registered it.
LEMMA FindsItself ==
  ASSUME NEW s \in Socks, SockInv(s), life[s] = "open"
  PROVE  /\ \A p : At(s, p) <=> bound[s] /\ p = DevOf(boundIndex[s])
         /\ ~bound[s] => DevOf(boundIndex[s]) = AnyDev
<1>1. boundIndex[s] = asked[s] /\ (~bound[s] => asked[s] = NoIndex)
  BY DEF SockInv, BoundAsAsked
<1> QED BY <1>1, DevOfIndex DEF At

\* raw_setsockopt() replaces the entries of the old filters by those of the new ones.
LEMMA StepSetFilter ==
  ASSUME IInv, NEW s \in Socks, NEW fs \in FilterSets, RawSetFilter(s, fs)
  PROVE  IInv'
<1> DEFINE d == DevOf(boundIndex[s])
           R == RemoveFilters(lists[d], s, filter[s])
           L == AddFilters(R, s, fs)
<1>1. d \in Places
  BY DevOfIndex
<1>2. TypeOK
  BY DEF IInv
<1>3. /\ life[s] = "open" /\ filter' = [filter EXCEPT ![s] = fs]
      /\ lists' = IF bound[s] THEN [lists EXCEPT ![d] = L] ELSE lists
      /\ ifindex' = ifindex /\ up' = up /\ lastIndex' = lastIndex /\ nlist' = nlist /\ life' = life
      /\ bound' = bound /\ boundIndex' = boundIndex /\ asked' = asked /\ orphans' = orphans
  BY DEF RawSetFilter
<1>4. /\ filter[s] \in FilterSets \cup {<<>>} /\ \A p \in Places : ListTypes(lists[p])
  BY <1>2 DEF TypeOK, ListTypes
<1>5. /\ ListTypes(R) /\ (OfSock(lists[d], s) = Entries(s, filter[s]) => OfSock(R, s) = EmptyBag)
      /\ \A t : t # s => OfSock(R, t) = OfSock(lists[d], t)
  BY <1>1, <1>4, ListChanges
<1>6. /\ ListTypes(L) /\ (OfSock(R, s) = EmptyBag => OfSock(L, s) = Entries(s, fs))
      /\ \A t : t # s => OfSock(L, t) = OfSock(R, t)
  <2> HIDE DEF R
  <2> QED BY <1>5, ListChanges
<1> HIDE DEF d, R, L
<1>7. lists' = [p \in Places |-> IF bound[s] /\ p = d THEN L ELSE lists[p]]
  BY <1>1, <1>2, <1>3 DEF TypeOK
<1>8. TypeOK'
  <2>1. \A p \in Places : ListTypes(lists'[p])
    BY <1>4, <1>6, <1>7
  <2>2. lists' = [p \in Places |-> lists'[p]]
    BY <1>7
  <2>3. filter' \in [Socks -> FilterSets \cup {<<>>}]
    BY <1>2, <1>3 DEF TypeOK
  <2> QED BY <1>2, <1>3, <2>1, <2>2, <2>3 DEF TypeOK, ListTypes
<1>9. IndexInv'
  BY <1>3 DEF IInv, IndexInv
<1>10. ASSUME NEW t \in Socks \ orphans', t # s
       PROVE  SockInv(t)'
  <2>1. SockInv(t)
    BY <1>3, <1>10 DEF IInv
  <2>2. \A p \in Places : OfSock(lists'[p], t) = OfSock(lists[p], t)
    BY <1>5, <1>6, <1>7, <1>10
  <2>3. life'[t] = life[t] /\ bound'[t] = bound[t] /\ boundIndex'[t] = boundIndex[t]
        /\ asked'[t] = asked[t] /\ filter'[t] = filter[t] /\ ifindex' = ifindex /\ nlist' = nlist
    BY <1>2, <1>3, <1>10 DEF TypeOK
  <2> QED BY <2>1, <2>2, <2>3, OthersKeep
<1>11. ASSUME s \notin orphans'
       PROVE  SockInv(s)'
  <2>1. SockInv(s)
    BY <1>3, <1>11 DEF IInv
  <2>2. \A p : At(s, p) <=> bound[s] /\ p = d
    BY <1>3, <2>1, FindsItself DEF d
  <2>3. \A i : DevOf(i)' = DevOf(i)
    BY <1>3 DEF DevOf
  <2>4. \A p : At(s, p)' <=> At(s, p)
    BY <1>3, <2>3 DEF At
  <2>5. Listed(s)'
    <3>1. \A p \in Places : OfSock(lists'[p], s) = IF At(s, p) THEN Entries(s, fs) ELSE EmptyBag
      <4>1. \A p \in Places : OfSock(lists[p], s) = IF At(s, p) THEN Entries(s, filter[s]) ELSE EmptyBag
        BY <2>1 DEF SockInv, Listed
      <4> QED BY <1>1, <1>5, <1>6, <1>7, <2>2, <4>1
    <3>2. \A p \in Places : OfSock(lists[p], s)' = OfSock(lists'[p], s)
      BY DEF OfSock
    <3>3. Entries(s, filter[s])' = Entries(s, fs)
      BY <1>2, <1>3 DEF Entries, TypeOK
    <3> QED BY <2>4, <3>1, <3>2, <3>3 DEF Listed
  <2>6. Noted(s)'
    <3>1. OfSock(nlist, s)' = OfSock(nlist, s)
      BY <1>3 DEF OfSock
    <3> QED BY <1>3, <2>1, <2>3, <2>4, <3>1 DEF SockInv, Noted
  <2>7. BoundAsAsked(s)'
    BY <1>3, <2>1 DEF SockInv, BoundAsAsked
  <2> QED BY <2>5, <2>6, <2>7 DEF SockInv
<1> QED BY <1>8, <1>9, <1>10, <1>11 DEF IInv

\* raw_release() takes everything away.
LEMMA StepRelease ==
  ASSUME IInv, NEW s \in Socks, RawRelease(s)
  PROVE  IInv'
<1> DEFINE d == DevOf(boundIndex[s])
           R == RemoveFilters(lists[d], s, filter[s])
           N == SetToBag({[dev |-> d, sock |-> s]})
<1>1. d \in Places /\ (d = AnyDev => d \notin Devs) /\ (d # AnyDev => d \in Devs)
  BY DevOfIndex, AfCanAssumption DEF Places
<1>2. TypeOK
  BY DEF IInv
<1>3. /\ life[s] = "open" /\ life' = [life EXCEPT ![s] = "freed"]
      /\ lists' = IF bound[s] THEN [lists EXCEPT ![d] = R] ELSE lists
      /\ nlist' = IF d = AnyDev THEN nlist ELSE nlist (-) N
      /\ ifindex' = ifindex /\ up' = up /\ lastIndex' = lastIndex /\ filter' = filter
      /\ bound' = bound /\ boundIndex' = boundIndex /\ asked' = asked /\ orphans' = orphans
  BY DEF RawRelease
<1>4. /\ filter[s] \in FilterSets \cup {<<>>} /\ NoteTypes(nlist)
      /\ \A p \in Places : ListTypes(lists[p])
  BY <1>2 DEF TypeOK, ListTypes, NoteTypes
<1>5. /\ ListTypes(R) /\ (OfSock(lists[d], s) = Entries(s, filter[s]) => OfSock(R, s) = EmptyBag)
      /\ \A t : t # s => OfSock(R, t) = OfSock(lists[d], t)
  BY <1>1, <1>4, ListChanges
<1>6. /\ NoteTypes(nlist') /\ \A t : t # s => OfSock(nlist', t) = OfSock(nlist, t)
      /\ OfSock(nlist, s) = (IF d = AnyDev THEN EmptyBag ELSE N) => OfSock(nlist', s) = EmptyBag
  BY <1>1, <1>3, <1>4, NoteChanges
<1> HIDE DEF d, R, N
<1>7. lists' = [p \in Places |-> IF bound[s] /\ p = d THEN R ELSE lists[p]]
  BY <1>1, <1>2, <1>3 DEF TypeOK
<1>8. TypeOK'
  <2>1. \A p \in Places : ListTypes(lists'[p])
    BY <1>4, <1>5, <1>7
  <2>2. lists' = [p \in Places |-> lists'[p]]
    BY <1>7
  <2>3. life' \in [Socks -> {"open", "freed"}]
    BY <1>2, <1>3 DEF TypeOK
  <2> QED BY <1>2, <1>3, <1>6, <2>1, <2>2, <2>3 DEF TypeOK, ListTypes, NoteTypes
<1>9. IndexInv'
  BY <1>3 DEF IInv, IndexInv
<1>10. ASSUME NEW t \in Socks \ orphans', t # s
       PROVE  SockInv(t)'
  <2>1. SockInv(t)
    BY <1>3, <1>10 DEF IInv
  <2>2. \A p \in Places : OfSock(lists'[p], t) = OfSock(lists[p], t)
    BY <1>5, <1>7, <1>10
  <2>3. life'[t] = life[t] /\ bound'[t] = bound[t] /\ boundIndex'[t] = boundIndex[t]
        /\ asked'[t] = asked[t] /\ filter'[t] = filter[t] /\ ifindex' = ifindex
    BY <1>2, <1>3, <1>10 DEF TypeOK
  <2>4. OfSock(nlist', t) = OfSock(nlist, t)
    BY <1>6, <1>10
  <2> QED BY <2>1, <2>2, <2>3, <2>4, OthersKeep
<1>11. ASSUME s \notin orphans'
       PROVE  SockInv(s)'
  <2>1. SockInv(s)
    BY <1>3, <1>11 DEF IInv
  <2>2. (\A p : At(s, p) <=> bound[s] /\ p = d) /\ (~bound[s] => d = AnyDev)
    BY <1>3, <2>1, FindsItself DEF d
  <2>3. \A p : ~At(s, p)'
    BY <1>2, <1>3 DEF At, TypeOK
  <2>4. Listed(s)'
    <3>1. \A p \in Places : OfSock(lists'[p], s) = EmptyBag
      <4>1. \A p \in Places : OfSock(lists[p], s) = IF At(s, p) THEN Entries(s, filter[s]) ELSE EmptyBag
        BY <2>1 DEF SockInv, Listed
      <4> QED BY <1>1, <1>5, <1>7, <2>2, <4>1
    <3>2. \A p \in Places : OfSock(lists[p], s)' = OfSock(lists'[p], s)
      BY DEF OfSock
    <3> QED BY <2>3, <3>1, <3>2 DEF Listed
  <2>5. Noted(s)'
    <3>1. OfSock(nlist, s) = IF d = AnyDev THEN EmptyBag ELSE N
      <4>1. (\E e \in Devs : At(s, e)) <=> d # AnyDev
        BY <1>1, <2>2
      <4>2. d # AnyDev => DevOf(asked[s]) = d
        BY <2>1 DEF SockInv, BoundAsAsked, d
      <4> QED BY <2>1, <4>1, <4>2 DEF SockInv, Noted, N
    <3>2. OfSock(nlist, s)' = EmptyBag
      BY <1>6, <3>1 DEF OfSock
    <3> QED BY <2>3, <3>2 DEF Noted
  <2>6. BoundAsAsked(s)'
    BY <1>2, <1>3, <2>1 DEF SockInv, BoundAsAsked, TypeOK
  <2> QED BY <2>4, <2>5, <2>6 DEF SockInv
<1> QED BY <1>8, <1>9, <1>10, <1>11 DEF IInv

\* Sockets that are not concerned keep what is theirs when devices come and go.
LEMMA SocketsKeep ==
  ASSUME NEW s, SockInv(s), IndexInv, asked[s] <= lastIndex,
         lists' = lists, nlist' = nlist, life' = life, bound' = bound, filter' = filter, asked' = asked,
         boundIndex'[s] = boundIndex[s],
         life[s] = "open" /\ bound[s] => DevOf(asked[s])' = DevOf(asked[s]),
         life[s] = "open" /\ bound[s] /\ asked[s] # NoIndex => \E d \in Devs : ifindex'[d] = asked[s]
  PROVE  SockInv(s)'
<1>1. \A p : At(s, p)' <=> At(s, p)
  BY DEF At
<1>2. \A p : OfSock(lists[p], s)' = OfSock(lists[p], s)
  BY DEF OfSock
<1>3. OfSock(nlist, s)' = OfSock(nlist, s) /\ Entries(s, filter[s])' = Entries(s, filter[s])
  BY DEF OfSock, Entries
<1>4. Listed(s)'
  BY <1>1, <1>2, <1>3 DEF SockInv, Listed
<1>5. Noted(s)'
  <2>1. (\E d \in Devs : At(s, d)) => life[s] = "open" /\ bound[s]
    BY DEF At
  <2> QED BY <1>1, <1>3, <2>1 DEF SockInv, Noted
<1>6. BoundAsAsked(s)'
  BY DEF SockInv, BoundAsAsked
<1> QED BY <1>4, <1>5, <1>6 DEF SockInv

\* A device that appears has an index that nobody asked for.
LEMMA StepAppears ==
  ASSUME IInv, NEW d \in Devs, DevAppears(d)
  PROVE  IInv'
<1>1. TypeOK /\ IndexInv /\ lastIndex \in Nat /\ MaxIndex \in Nat
  BY AfCanAssumption DEF IInv, TypeOK
<1>2. /\ ifindex[d] = NoIndex /\ lastIndex < MaxIndex /\ lastIndex' = lastIndex + 1
      /\ ifindex' = [ifindex EXCEPT ![d] = lastIndex + 1]
      /\ up' = up /\ lists' = lists /\ nlist' = nlist /\ life' = life /\ bound' = bound
      /\ boundIndex' = boundIndex /\ filter' = filter /\ asked' = asked /\ orphans' = orphans
  BY DEF DevAppears
<1>3. TypeOK'
  <2>1. ifindex' \in [Devs -> 0 .. MaxIndex] /\ lastIndex' \in 0 .. MaxIndex
    BY <1>1, <1>2 DEF TypeOK
  <2> QED BY <1>1, <1>2, <2>1 DEF TypeOK
<1>4. \A e \in Devs : ifindex[e] \in Nat /\ ifindex[e] <= lastIndex /\ ifindex'[e] = IF e = d THEN lastIndex + 1 ELSE ifindex[e]
  BY <1>1, <1>2 DEF TypeOK, IndexInv
<1>5. IndexInv'
  <2>1. \A s \in Socks : asked[s] \in Nat /\ asked[s] <= lastIndex
    BY <1>1 DEF TypeOK, IndexInv
  <2> QED BY <1>1, <1>2, <1>4, <2>1 DEF IndexInv, NoIndex
<1>6. ASSUME NEW s \in Socks \ orphans
      PROVE  SockInv(s)'
  <2>1. SockInv(s) /\ asked[s] <= lastIndex /\ asked[s] \in Nat
    BY <1>1 DEF IInv, IndexInv, TypeOK
  <2>2. CASE asked[s] = NoIndex
    <3>1. DevOf(asked[s])' = DevOf(asked[s])
      BY <1>2, <2>2 DEF DevOf
    <3> QED BY <1>1, <1>2, <2>1, <2>2, <3>1, SocketsKeep
  <2>3. CASE asked[s] # NoIndex
    <3>1. \A e \in Devs : ifindex'[e] = asked[s] <=> ifindex[e] = asked[s]
      BY <1>1, <1>2, <1>4, <2>1, <2>3 DEF NoIndex
    <3>2. ASSUME life[s] = "open", bound[s]
          PROVE  DevOf(asked[s])' = DevOf(asked[s])
      <4>1. PICK e \in Devs : ifindex[e] = asked[s]
        BY <2>1, <2>3, <3>2 DEF SockInv, BoundAsAsked
      <4>2. DevOf(asked[s]) = e
        BY <1>1, <2>3, <4>1, DevOfOne
      <4>3. \A g \in Devs : ifindex'[g] = asked[s] => g = e
        BY <1>1, <2>3, <3>1, <4>1 DEF IndexInv
      <4>4. DevOf(asked[s])' = e
        BY <1>2, <2>3, <3>1, <4>1, <4>3 DEF DevOf
      <4> QED BY <4>2, <4>4
    <3>3. life[s] = "open" /\ bound[s] => \E e \in Devs : ifindex'[e] = asked[s]
      BY <2>1, <2>3, <3>1 DEF SockInv, BoundAsAsked
    <3> QED BY <1>1, <1>2, <2>1, <3>2, <3>3, SocketsKeep
  <2> QED BY <2>2, <2>3
<1> QED BY <1>2, <1>3, <1>5, <1>6 DEF IInv

\* Those who are bound to a device that vanishes are told, and become orphans.
LEMMA StepVanishes ==
  ASSUME IInv, NEW d \in Devs, DevVanishes(d)
  PROVE  IInv'
<1>1. TypeOK /\ IndexInv
  BY DEF IInv
<1>2. /\ ifindex[d] # NoIndex /\ ifindex' = [ifindex EXCEPT ![d] = NoIndex]
      /\ boundIndex' = [s \in Socks |-> IF s \in Told(d) THEN NoIndex ELSE boundIndex[s]]
      /\ orphans' = orphans \cup Told(d)
      /\ up' = up /\ lastIndex' = lastIndex /\ lists' = lists /\ nlist' = nlist /\ life' = life
      /\ bound' = bound /\ filter' = filter /\ asked' = asked
  BY DEF DevVanishes
<1>3. \A e \in Devs : ifindex'[e] = IF e = d THEN NoIndex ELSE ifindex[e]
  BY <1>1, <1>2 DEF TypeOK
<1>4. TypeOK'
  <2>1. ifindex' \in [Devs -> 0 .. MaxIndex] /\ boundIndex' \in [Socks -> 0 .. MaxIndex]
    BY <1>1, <1>2, AfCanAssumption DEF TypeOK, NoIndex
  <2>2. Told(d) \subseteq Socks
    BY <1>1 DEF TypeOK, Told
  <2> QED BY <1>1, <1>2, <2>1, <2>2 DEF TypeOK
<1>5. IndexInv'
  BY <1>1, <1>2, <1>3 DEF IndexInv, TypeOK, NoIndex
<1>6. ASSUME NEW s \in Socks \ orphans'
      PROVE  SockInv(s)'
  <2>1. SockInv(s) /\ asked[s] <= lastIndex /\ s \notin Told(d) /\ boundIndex'[s] = boundIndex[s]
    BY <1>1, <1>2 DEF IInv, IndexInv
  <2>2. ASSUME life[s] = "open", bound[s]
        PROVE  asked[s] # ifindex[d]
    <3>1. SUFFICES ASSUME asked[s] = ifindex[d] PROVE FALSE
      OBVIOUS
    <3>2. DevOf(asked[s]) = d
      BY <1>1, <1>2, <3>1, DevOfOne
    <3>3. OfSock(nlist, s) = SetToBag({[dev |-> d, sock |-> s]})
      BY <2>1, <2>2, <3>2 DEF SockInv, Noted, At
    <3>4. [dev |-> d, sock |-> s] \in DOMAIN OfSock(nlist, s)
      BY <3>3 DEF SetToBag
    <3>5. [dev |-> d, sock |-> s] \in BagToSet(nlist)
      BY <3>4 DEF OfSock
    <3>6. s \in Told(d)
      <4>1. \E q \in BagToSet(nlist) : q.dev = d /\ q.sock = s
        BY <3>5
      <4> QED BY <4>1 DEF Told
    <3> QED BY <2>1, <3>6
  <2>3. CASE asked[s] = NoIndex
    <3>1. DevOf(asked[s])' = DevOf(asked[s])
      BY <1>2, <2>3 DEF DevOf
    <3> QED BY <1>1, <1>2, <2>1, <2>3, <3>1, SocketsKeep
  <2>4. CASE asked[s] # NoIndex /\ life[s] = "open" /\ bound[s]
    <3>1. \A e \in Devs : ifindex'[e] = asked[s] <=> ifindex[e] = asked[s]
      BY <1>3, <2>2, <2>4
    <3>2. DevOf(asked[s])' = DevOf(asked[s])
      <4>1. PICK e \in Devs : ifindex[e] = asked[s]
        BY <2>1, <2>4 DEF SockInv, BoundAsAsked
      <4>2. DevOf(asked[s]) = e
        BY <1>1, <2>4, <4>1, DevOfOne
      <4>3. \A g \in Devs : ifindex'[g] = asked[s] => g = e
        BY <1>1, <2>4, <3>1, <4>1 DEF IndexInv
      <4>4. DevOf(asked[s])' = e
        BY <1>2, <2>4, <3>1, <4>1, <4>3 DEF DevOf
      <4> QED BY <4>2, <4>4
    <3>3. \E e \in Devs : ifindex'[e] = asked[s]
      BY <2>1, <2>4, <3>1 DEF SockInv, BoundAsAsked
    <3> QED BY <1>1, <1>2, <2>1, <3>2, <3>3, SocketsKeep
  <2>5. CASE ~(life[s] = "open" /\ bound[s])
    BY <1>1, <1>2, <2>1, <2>5, SocketsKeep
  <2> QED BY <2>3, <2>4, <2>5
<1> QED BY <1>4, <1>5, <1>6 DEF IInv

\* Nothing depends on whether a device is up, nor does a step that changes nothing.
LEMMA StepUpDown ==
  ASSUME IInv, up' \in [Devs -> BOOLEAN],
         UNCHANGED <<ifindex, lastIndex, lists, nlist, life, bound, boundIndex, filter, asked, orphans>>
  PROVE  IInv'
<1>1. TypeOK'
  BY DEF IInv, TypeOK
<1>2. IndexInv'
  BY DEF IInv, IndexInv
<1>3. ASSUME NEW s \in Socks \ orphans
      PROVE  SockInv(s)'
  <2>1. DevOf(asked[s])' = DevOf(asked[s])
    BY DEF DevOf
  <2>2. SockInv(s) /\ IndexInv /\ asked[s] <= lastIndex
    BY DEF IInv, IndexInv
  <2>3. life[s] = "open" /\ bound[s] /\ asked[s] # NoIndex => \E d \in Devs : ifindex'[d] = asked[s]
    BY <2>2 DEF SockInv, BoundAsAsked
  <2> QED BY <2>1, <2>2, <2>3, SocketsKeep
<1> QED BY <1>1, <1>2, <1>3 DEF IInv

\* IInv is inductive.
LEMMA Invariance == Spec => []IInv
<1>1. ASSUME IInv, Next
      PROVE  IInv'
  <2>1. CASE \E s \in Socks, index \in {NoIndex} \cup {ifindex[d] : d \in Devs} : RawBind(s, index)
    BY <1>1, <2>1, StepBind
  <2>2. CASE \E s \in Socks, fs \in FilterSets : RawSetFilter(s, fs)
    BY <1>1, <2>2, StepSetFilter
  <2>3. CASE \E s \in Socks : RawRelease(s)
    BY <1>1, <2>3, StepRelease
  <2>4. CASE \E d \in Devs : DevAppears(d)
    BY <1>1, <2>4, StepAppears
  <2>5. CASE \E d \in Devs : DevVanishes(d)
    BY <1>1, <2>5, StepVanishes
  <2>6. CASE \E d \in Devs : DevUp(d) \/ DevDown(d)
    <3>1. PICK d \in Devs : DevUp(d) \/ DevDown(d)
      BY <2>6
    <3>2. up \in [Devs -> BOOLEAN]
      BY <1>1 DEF IInv, TypeOK
    <3>3. up' \in [Devs -> BOOLEAN]
      BY <3>1, <3>2 DEF DevUp, DevDown
    <3> QED BY <1>1, <3>1, <3>3, StepUpDown DEF DevUp, DevDown
  <2> QED BY <1>1, <2>1, <2>2, <2>3, <2>4, <2>5, <2>6, Zenon DEF Next
<1>2. ASSUME IInv, UNCHANGED vars
      PROVE  IInv'
  <2>1. up' \in [Devs -> BOOLEAN]
    BY <1>2 DEF IInv, TypeOK, vars
  <2> QED BY <1>2, <2>1, StepUpDown DEF vars
<1> QED BY <1>1, <1>2, InitInv, PTL DEF Spec

----------------------------------------------------------------------------
(* What sockets get.                                                       *)

\* raw_release() and raw_setsockopt() leave nothing behind, for any filters and
\* devices, unless the device vanished first; and every entry is normalised.
THEOREM NothingIsLeft == Spec => []NothingLeftBehind
<1>1. ASSUME IInv
      PROVE  NothingLeftBehind
  <2>1. TypeOK
    BY <1>1 DEF IInv
  <2>2. ASSUME NEW p \in Places, NEW e \in BagToSet(lists[p]), e.sock \notin orphans
        PROVE  life[e.sock] = "open"
    <3>1. e.sock \in Socks /\ SockInv(e.sock)
      BY <1>1, <2>1, <2>2 DEF IInv, TypeOK
    <3>2. e \in DOMAIN OfSock(lists[p], e.sock)
      BY DEF OfSock
    <3>3. At(e.sock, p)
      BY <3>1, <3>2 DEF SockInv, Listed, EmptyBag, SetToBag
    <3> QED BY <3>3 DEF At
  <2>3. ASSUME NEW n \in BagToSet(nlist), n.sock \notin orphans
        PROVE  life[n.sock] = "open"
    <3>1. n.sock \in Socks /\ SockInv(n.sock)
      BY <1>1, <2>1, <2>3 DEF IInv, TypeOK
    <3>2. n \in DOMAIN OfSock(nlist, n.sock)
      BY DEF OfSock
    <3>3. \E d \in Devs : At(n.sock, d)
      BY <3>1, <3>2 DEF SockInv, Noted, EmptyBag, SetToBag
    <3> QED BY <3>3 DEF At
  <2> QED BY <2>1, <2>2, <2>3 DEF NothingLeftBehind
<1> QED BY <1>1, Invariance, PTL

\* can_rcv_filter() of a list looks at each socket by itself.
LEMMA DeliveriesOwn ==
  ASSUME NEW l, NEW s, NEW f
  PROVE  Deliveries(l, s, f)
           = CopiesOf(OfSock(l, s), {e \in BagToSet(OfSock(l, s)) : Gets(e.sub, f)})
<1>1. {e \in BagToSet(l) : e.sock = s /\ Gets(e.sub, f)} = {e \in BagToSet(OfSock(l, s)) : Gets(e.sub, f)}
  BY DEF OfSock, BagToSet
<1>2. \A e \in BagToSet(OfSock(l, s)) : OfSock(l, s)[e] = l[e]
  BY DEF OfSock, BagToSet
<1> HIDE DEF OfSock, BagToSet
<1> QED BY <1>1, <1>2 DEF Deliveries, CopiesOf

\* From the entries of some filters a socket gets a copy for each that wants a frame.
LEMMA CopiesAreWanted ==
  ASSUME NEW l, NEW s, NEW fs \in FilterSets \cup {<<>>}, NEW f \in Frames,
         OfSock(l, s) = Entries(s, fs)
  PROVE  Cardinality(Deliveries(l, s, f)) = Cardinality({i \in DOMAIN InForce(fs) : Wants(InForce(fs)[i], f)})
<1> DEFINE n == Len(InForce(fs))
           a == [i \in 1 .. n |-> [sock |-> s, sub |-> Subscription(InForce(fs)[i])]]
           W == {i \in 1 .. n : Wants(InForce(fs)[i], f)}
<1>1. n \in Nat /\ DOMAIN InForce(fs) = 1 .. n /\ \A i \in 1 .. n : InForce(fs)[i] \in Filters
  BY InForceTypes
<1>2. Entries(s, fs) = ToBag(a)
  BY <1>1 DEF Entries
<1>3. \A i \in 1 .. n : Gets(a[i].sub, f) <=> i \in W
  <2>1. f \in SUBSET Bits
    BY AfCanAssumption
  <2> QED BY <1>1, <2>1, FiltersKeepPromise
<1>4. DOMAIN a = 1 .. n /\ W \subseteq 1 .. n
  OBVIOUS
<1> HIDE DEF n, a, W
<1>5. BagToSet(ToBag(a)) = {a[i] : i \in 1 .. n}
  BY <1>4 DEF ToBag, Range, BagToSet
<1>6. {e \in BagToSet(ToBag(a)) : Gets(e.sub, f)} = {a[i] : i \in W}
  BY <1>3, <1>4, <1>5
<1> DEFINE S == {a[i] : i \in W}
<1>7. Deliveries(l, s, f) = CopiesOf(ToBag(a), S)
  BY <1>2, <1>6, DeliveriesOwn
<1>8. \A i \in W, j \in 1 .. n : a[j] = a[i] => j \in W
  BY <1>3, <1>4
<1>9. Cardinality(CopiesOf(ToBag(a), S)) = Cardinality(W)
  <2>1. n \in Nat /\ W \in SUBSET (1 .. n) /\ ByContents(W, a, n) /\ S = {a[i] : i \in W}
    BY <1>1, <1>4, <1>8 DEF ByContents
  <2> HIDE DEF S
  <2> QED BY <2>1, <1>4, CopiesAreSlots
<1> QED BY <1>1, <1>7, <1>9 DEF W

\* can_rcv(): a socket that has nothing in a list gets nothing from it.
LEMMA NoCopies ==
  ASSUME NEW l, NEW s, NEW f, OfSock(l, s) = EmptyBag
  PROVE  Cardinality(Deliveries(l, s, f)) = 0
<1>1. Deliveries(l, s, f) = {}
  BY DeliveriesOwn DEF CopiesOf, EmptyBag, SetToBag, BagToSet
<1> QED BY <1>1, FS_EmptySet

\* Whatever is set, bound and closed and whichever devices come and go, a socket
\* gets each frame once for each of its filters that wants it (can_rcv,
\* find_rcv_list, raw_add_filters, raw_remove_filters), for any filters and
\* identifiers of any width, unless its device has vanished.
THEOREM SocketsGetTheirs == Spec => []DeliveredAsAsked
<1>1. ASSUME IInv
      PROVE  DeliveredAsAsked
  <2> SUFFICES ASSUME NEW d \in Devs, NEW s \in Socks \ orphans, NEW f \in Frames, ifindex[d] # NoIndex
               PROVE  Copies(d, s, f) = Due(d, s, f)
    BY DEF DeliveredAsAsked
  <2> DEFINE wanted == Cardinality({i \in DOMAIN InForce(filter[s]) : Wants(InForce(filter[s])[i], f)})
             Of(p) == Cardinality(Deliveries(lists[p], s, f))
  <2>1. /\ SockInv(s) /\ IndexInv /\ filter[s] \in FilterSets \cup {<<>>}
        /\ d \in Places /\ AnyDev \in Places /\ d # AnyDev
    BY <1>1, AfCanAssumption DEF IInv, TypeOK, Places
  <2>2. ASSUME NEW p \in Places
        PROVE  Of(p) = IF At(s, p) THEN wanted ELSE 0
    <3>1. OfSock(lists[p], s) = IF At(s, p) THEN Entries(s, filter[s]) ELSE EmptyBag
      BY <2>1 DEF SockInv, Listed
    <3>2. CASE At(s, p)
      BY <2>1, <3>1, <3>2, CopiesAreWanted
    <3>3. CASE ~At(s, p)
      BY <3>1, <3>3, NoCopies
    <3> QED BY <3>2, <3>3
  <2>3. wanted \in Nat
    <3>1. DOMAIN InForce(filter[s]) = 1 .. Len(InForce(filter[s])) /\ Len(InForce(filter[s])) \in Nat
      BY <2>1, InForceTypes
    <3>2. IsFiniteSet(DOMAIN InForce(filter[s]))
      BY <3>1, FS_Interval
    <3>3. IsFiniteSet({i \in DOMAIN InForce(filter[s]) : Wants(InForce(filter[s])[i], f)})
      BY <3>2, FS_Subset
    <3> QED BY <3>3, FS_CardinalityType
  <2>4. Due(d, s, f) = IF life[s] = "open" /\ bound[s] /\ asked[s] \in {NoIndex, ifindex[d]} THEN wanted ELSE 0
    BY DEF Due
  <2>5. Copies(d, s, f) = Of(AnyDev) + Of(d)
    BY DEF Copies
  <2> HIDE DEF wanted, Of
  <2>6. At(s, d) <=> life[s] = "open" /\ bound[s] /\ asked[s] = ifindex[d]
    BY <2>1, DevOfIndex, DevOfOne DEF At
  <2>7. At(s, AnyDev) <=> life[s] = "open" /\ bound[s] /\ asked[s] = NoIndex
    BY <2>1, DevOfIndex, AfCanAssumption DEF At, SockInv, BoundAsAsked
  <2> QED BY <2>1, <2>2, <2>3, <2>4, <2>5, <2>6, <2>7
<1> QED BY <1>1, Invariance, PTL

=============================================================================
