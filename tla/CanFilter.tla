----------------------------- MODULE CanFilter -----------------------------
(***************************************************************************)
(* The receive filters of af_can.c.  A can_id, a mask and the can_id of a  *)
(* frame are sets of bits, so that & is the intersection: the two flags    *)
(* CAN_EFF_FLAG and CAN_RTR_FLAG, the bits of an SFF identifier and the    *)
(* further bits of an EFF identifier.                                      *)
(***************************************************************************)

CONSTANTS
  EFF, RTR,     \* CAN_EFF_FLAG, CAN_RTR_FLAG
  SffMask,      \* the bits of CAN_SFF_MASK
  EffMask       \* the bits of CAN_EFF_MASK

Bits == EffMask \cup {EFF, RTR}

ASSUME BitsAssumption ==
  /\ SffMask \subseteq EffMask /\ SffMask # {}
  /\ EFF # RTR /\ {EFF, RTR} \cap EffMask = {}

\* A struct can_filter; inv is the flag CAN_INV_FILTER of its can_id.
Filters == [id : SUBSET Bits, mask : SUBSET Bits, inv : BOOLEAN]

\* Mutant: the flag is looked for in the mask only.
FlagsUnmasked(fl) == fl.mask \cap {EFF, RTR}

\* The flags that both the can_id and the mask have.
Flags(fl) == fl.id \cap fl.mask \cap {EFF, RTR}

\* find_rcv_list(): the mask after the "paranoic operations".
MaskOf(fl) ==
  fl.mask \cap ((IF EFF \in fl.id THEN EffMask ELSE SffMask) \cup Flags(fl))

\* The can_id without the bits that are not compared.
IdOf(fl) == fl.id \cap MaskOf(fl)

\* The filter is for exactly one SFF identifier.
SffExact(fl) == MaskOf(fl) = SffMask

\* find_rcv_list(): the list a subscription is kept in.
ListOf(fl) ==
  IF fl.inv THEN "rx_inv"
  ELSE IF RTR \in IdOf(fl) THEN "rx_fil"
  ELSE IF MaskOf(fl) = {} THEN "rx_all"
  ELSE IF EFF \in IdOf(fl)
       THEN IF MaskOf(fl) = EffMask THEN "rx_eff" ELSE "rx_fil"
       ELSE IF SffExact(fl) THEN "rx_sff" ELSE "rx_fil"

\* What find_rcv_list() makes of a filter: the list, and the can_id and mask
\* that are kept in it.
Subscription(fl) == [list |-> ListOf(fl), id |-> IdOf(fl), mask |-> MaskOf(fl)]

\* can_rcv_filter(): the subscription gets a frame with identifier f.
Gets(sub, f) ==
  \/ sub.list = "rx_all"
  \/ sub.list = "rx_fil" /\ f \cap sub.mask = sub.id
  \/ sub.list = "rx_inv" /\ f \cap sub.mask # sub.id
  \/ sub.list = "rx_eff" /\ EFF \in f /\ f = sub.id
  \/ sub.list = "rx_sff" /\ EFF \notin f /\ f \cap SffMask = sub.id

----------------------------------------------------------------------------
\* The promise, without lists: the bits of the mask that the kind of filter
\* has a use for are compared.  Flags count when the filter has them set.
\* Only an SFF filter on all bits tells SFF from EFF frames by itself.
Compared(fl) ==
  (fl.mask \cap IF EFF \in fl.id THEN EffMask ELSE SffMask)
    \cup (fl.mask \cap fl.id \cap {EFF, RTR})

OneSffId(fl) ==
  /\ {EFF, RTR} \cap fl.id \cap fl.mask = {}
  /\ Compared(fl) = SffMask

Wants(fl, f) ==
  IF fl.inv THEN f \cap Compared(fl) # fl.id \cap Compared(fl)
  ELSE /\ f \cap Compared(fl) = fl.id \cap Compared(fl)
       /\ OneSffId(fl) => EFF \notin f
=============================================================================
