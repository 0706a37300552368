------------------------------- MODULE AfCan -------------------------------
(***************************************************************************)
(* The core of the framework (af_can.c) with raw sockets (raw.c) on top:   *)
(* the receive lists of the devices, the list of those who want to hear of *)
(* a device, and devices that come and go.                                 *)
(*                                                                         *)
(* A device is its struct net_device, whose memory may be used again for   *)
(* another device, with another ifindex.  A list is a bag: only the order  *)
(* of deliveries is lost.  Registering is atomic (rcv_lists_lock).         *)
(***************************************************************************)
EXTENDS CanFilter, SequencesExt

CONSTANTS
  Socks,       \* raw sockets
  Devs,        \* struct net_device addresses
  FilterSets,  \* what CAN_RAW_FILTER may set: arrays of filters
  Frames,      \* identifiers of frames
  Unpluggable, \* devices that may vanish
  MaxIndex     \* bound: devices that are ever registered

NoIndex == 0              \* ifindex 0: all devices
AnyDev == "rx_alldev_list"
Places == Devs \cup {AnyDev}

ASSUME AfCanAssumption == 
  /\ AnyDev \notin Devs /\ MaxIndex \in Nat /\ FilterSets \subseteq Seq(Filters)
  /\ Frames \subseteq SUBSET Bits /\ Unpluggable \subseteq Devs

VARIABLES
  ifindex,     \* of the device at an address; NoIndex when there is none
  up,          \* the device is up (IFF_UP)
  lastIndex,   \* bound: devices registered so far
  lists,       \* the rcv_dev_list of each device, and rx_alldev_list
  nlist,       \* who is told of which device: [dev, sock]
  life,        \* a socket: "open", or "freed"
  bound, boundIndex, filter, \* struct canraw_opt
  asked,       \* history: the index a socket was bound to
  orphans      \* history: sockets whose device has vanished

vars == <<ifindex, up, lastIndex, lists, nlist, life, bound, boundIndex, filter,
          asked, orphans>>

\* dev_get_by_index(), or no device for index 0 and for one that is gone.
DevOf(index) ==
  IF \E d \in Devs : index # NoIndex /\ ifindex[d] = index
  THEN CHOOSE d \in Devs : ifindex[d] = index
  ELSE AnyDev

\* What a socket without filters registers for: can_id 0, mask 0.
Everything == [id |-> {}, mask |-> {}, inv |-> FALSE]

\* The filters in force: the count filters, or everything.
InForce(fs) == IF fs = <<>> THEN <<Everything>> ELSE fs

\* raw_add_filters(): an entry for each filter, so equal ones may occur.
Entries(s, fs) ==
  ToBag([i \in DOMAIN InForce(fs) |-> [sock |-> s, sub |-> Subscription(InForce(fs)[i])]])

Init ==
  /\ ifindex = [d \in Devs |-> NoIndex] /\ up = [d \in Devs |-> FALSE]
  /\ lastIndex = 0
  /\ lists = [p \in Places |-> EmptyBag]
  /\ nlist = EmptyBag
  /\ life = [s \in Socks |-> "open"]
  /\ bound = [s \in Socks |-> FALSE] /\ boundIndex = [s \in Socks |-> NoIndex]
  /\ filter = [s \in Socks |-> <<>>]
  /\ asked = [s \in Socks |-> NoIndex] /\ orphans = {}

----------------------------------------------------------------------------
(* can_rx_register() and can_rx_unregister() for all filters of a socket.  *)

\* Mutant: the entry is looked for with the can_id and mask of the caller.
RemoveFiltersUnadjusted(l, s, fs) ==
  LET Entry(fl) == [sock |-> s, sub |-> [list |-> ListOf(fl), id |-> fl.id, mask |-> fl.mask]]
  IN  l (-) ToBag([i \in DOMAIN InForce(fs) |-> Entry(InForce(fs)[i])])

RemoveFilters(l, s, fs) == l (-) Entries(s, fs)
AddFilters(l, s, fs) == l (+) Entries(s, fs)

\* raw_bind() to an index, 0 for all devices.  Nothing is done when the
\* device is down.
RawBind(s, index) ==
  LET d == DevOf(index) IN
  /\ life[s] = "open" /\ ~bound[s]
  /\ d # AnyDev => up[d]
  /\ nlist' = IF d = AnyDev THEN nlist ELSE nlist (+) SetToBag({[dev |-> d, sock |-> s]})
  /\ boundIndex' = [boundIndex EXCEPT ![s] = index]
  /\ asked' = [asked EXCEPT ![s] = index]
  /\ lists' = [lists EXCEPT ![d] = AddFilters(@, s, filter[s])]
  /\ bound' = [bound EXCEPT ![s] = TRUE]
  /\ UNCHANGED <<ifindex, up, lastIndex, life, filter, orphans>>

\* raw_setsockopt(), CAN_RAW_FILTER: remove the filters in force, add others.
RawSetFilter(s, fs) ==
  LET d == DevOf(boundIndex[s]) IN
  /\ life[s] = "open"
  /\ filter' = [filter EXCEPT ![s] = fs]
  /\ lists' = IF bound[s]
              THEN [lists EXCEPT ![d] = AddFilters(RemoveFilters(@, s, filter[s]), s, fs)]
              ELSE lists
  /\ UNCHANGED <<ifindex, up, lastIndex, nlist, life, bound, boundIndex, asked, orphans>>

\* raw_release()
RawRelease(s) ==
  LET d == DevOf(boundIndex[s]) IN
  /\ life[s] = "open"
  /\ life' = [life EXCEPT ![s] = "freed"]
  /\ lists' = IF bound[s] THEN [lists EXCEPT ![d] = RemoveFilters(@, s, filter[s])] ELSE lists
  /\ nlist' = IF d = AnyDev THEN nlist ELSE nlist (-) SetToBag({[dev |-> d, sock |-> s]})
  /\ UNCHANGED <<ifindex, up, lastIndex, bound, boundIndex, filter, asked, orphans>>

----------------------------------------------------------------------------
(* Devices.                                                                *)

\* A new device, perhaps at an address that another one had.
DevAppears(d) ==
  /\ ifindex[d] = NoIndex /\ lastIndex < MaxIndex
  /\ lastIndex' = lastIndex + 1
  /\ ifindex' = [ifindex EXCEPT ![d] = lastIndex + 1]
  /\ UNCHANGED <<up, lists, nlist, life, bound, boundIndex, filter, asked, orphans>>

DevUp(d) ==
  /\ ifindex[d] # NoIndex /\ ~up[d]
  /\ up' = [up EXCEPT ![d] = TRUE]
  /\ UNCHANGED <<ifindex, lastIndex, lists, nlist, life, bound, boundIndex, filter, asked, orphans>>

\* NETDEV_DOWN: the sockets see ENETDOWN and stay bound.
DevDown(d) ==
  /\ up[d]
  /\ up' = [up EXCEPT ![d] = FALSE]
  /\ UNCHANGED <<ifindex, lastIndex, lists, nlist, life, bound, boundIndex, filter, asked, orphans>>

Told(d) == {p.sock : p \in {q \in BagToSet(nlist) : q.dev = d}}

\* NETDEV_UNREGISTER: can_notifier() calls raw_notifier() for all it finds.
DevVanishes(d) ==
  /\ ifindex[d] # NoIndex /\ ~up[d] /\ d \in Unpluggable
  /\ boundIndex' = [s \in Socks |-> IF s \in Told(d) THEN NoIndex ELSE boundIndex[s]]
  /\ ifindex' = [ifindex EXCEPT ![d] = NoIndex]
  /\ orphans' = orphans \cup Told(d)
  /\ UNCHANGED <<up, lastIndex, lists, nlist, life, bound, filter, asked>>

Next ==
  \/ \E s \in Socks :
       \/ \E index \in {NoIndex} \cup {ifindex[d] : d \in Devs} : RawBind(s, index)
       \/ \E fs \in FilterSets : RawSetFilter(s, fs)
       \/ RawRelease(s)
  \/ \E d \in Devs : DevAppears(d) \/ DevUp(d) \/ DevDown(d) \/ DevVanishes(d)

Spec == Init /\ [][Next]_vars

----------------------------------------------------------------------------
(* Receiving, and the properties.                                          *)

\* can_rcv_filter() of one list: the entries of a socket that get a frame, one
\* by one.
Deliveries(l, s, f) ==
  UNION {{e} \X (1 .. l[e]) : e \in {e \in BagToSet(l) : e.sock = s /\ Gets(e.sub, f)}}

\* can_rcv(): the copies of a frame from device d that socket s gets.
Copies(d, s, f) ==
  Cardinality(Deliveries(lists[AnyDev], s, f)) + Cardinality(Deliveries(lists[d], s, f))

\* The copies it asked for.
Due(d, s, f) ==
  LET fs == InForce(filter[s]) IN
  IF life[s] = "open" /\ bound[s] /\ asked[s] \in {NoIndex, ifindex[d]}
  THEN Cardinality({i \in DOMAIN fs : Wants(fs[i], f)})
  ELSE 0

\* Every variable has its type; every entry of a list is one that a frame
\* can match (find_rcv_list).
TypeOK ==
  /\ ifindex \in [Devs -> 0 .. MaxIndex] /\ up \in [Devs -> BOOLEAN]
  /\ lastIndex \in 0 .. MaxIndex
  /\ lists = [p \in Places |-> lists[p]]
  /\ \A p \in Places :
       /\ IsABag(lists[p])
       /\ \A e \in BagToSet(lists[p]) :
            e.sock \in Socks /\ e.sub.id \subseteq e.sub.mask /\ e.sub.mask \subseteq Bits
  /\ IsABag(nlist) /\ BagToSet(nlist) \subseteq [dev : Devs, sock : Socks]
  /\ life \in [Socks -> {"open", "freed"}] /\ bound \in [Socks -> BOOLEAN]
  /\ boundIndex \in [Socks -> 0 .. MaxIndex]
  /\ asked \in [Socks -> 0 .. MaxIndex] /\ orphans \subseteq Socks
  /\ filter \in [Socks -> FilterSets \cup {<<>>}]

\* Whatever was set, bound and closed before and whatever devices come and
\* go, a socket gets a frame once for each of its filters that wants it, from
\* the device it is bound to or from all (can_rcv_filter, find_rcv_list,
\* raw_add_filters, raw_remove_filters), as long as that device is there.
DeliveredAsAsked ==
  \A d \in Devs, s \in Socks \ orphans, f \in Frames :
    ifindex[d] # NoIndex => Copies(d, s, f) = Due(d, s, f)

\* raw_setsockopt() and raw_release() "remove current filters & unregister":
\* no list and no notifier keeps what a closed socket left, unless its device
\* vanished before it was closed; and every entry is normalised (TypeOK).
NothingLeftBehind ==
  /\ TypeOK
  /\ \A p \in Places : \A e \in BagToSet(lists[p]) :
       life[e.sock] = "open" \/ e.sock \in orphans
  /\ \A n \in BagToSet(nlist) : life[n.sock] = "open" \/ n.sock \in orphans
=============================================================================
