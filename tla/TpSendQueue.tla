---------------------------- MODULE TpSendQueue ----------------------------
(***************************************************************************)
(* The transmit queue of a channel (txstate.tx_queue): a linked list that  *)
(* the process in tp20_sendmsg() extends at its tail while the softirq in  *)
(* tp_tx_data() removes its head, without a lock, and the break handling   *)
(* that removes the whole list.  A process may be interrupted by a softirq *)
(* between any two accesses to the list; a softirq is atomic.              *)
(*                                                                         *)
(* Messages fit one DT frame and their cells are never reused, so that a   *)
(* freed cell stays recognisable.                                          *)
(***************************************************************************)
EXTENDS Naturals

CONSTANT
  MaxMsgs      \* bound: messages submitted in a behaviour

ASSUME QueueAssumption == MaxMsgs \in Nat

Cells == 1 .. MaxMsgs
NULL == 0

VARIABLES
  tx_queue,      \* head of the list
  next,          \* the next field of each struct tx_buf
  cell,          \* what became of the message in each cell
  txState,
  breakMode,     \* TP_BREAK_MODE
  break2usr,     \* TP_BREAK_2USR
  pc, txb, p,    \* where sendmsg is, and its local variables
  badAccess,     \* history: a freed cell or NULL was read or written
  overtaken      \* history: a softirq took away the cell sendmsg was about to
                 \* use, or a break came while sendmsg was appending

queueVars == <<tx_queue, next, cell, txState, breakMode, break2usr, pc, txb, p,
               badAccess, overtaken>>
locals == <<pc, txb, p>>

\* A set of cells that has the head of the list and what its cells point to.
Closed(S) == /\ tx_queue # NULL => tx_queue \in S
             /\ \A c \in S : next[c] # NULL => next[c] \in S

\* The cells that following next from the head meets: the least such set.
Listed == {c \in Cells : \A S \in SUBSET Cells : Closed(S) => c \in S}

QueueInit ==
  /\ tx_queue = NULL /\ next = [c \in Cells |-> NULL]
  /\ cell = [c \in Cells |-> "unused"]
  /\ txState = "TX_IDLE" /\ breakMode = FALSE /\ break2usr = FALSE
  /\ pc = "user" /\ txb = NULL /\ p = NULL
  /\ badAccess = FALSE /\ overtaken = FALSE

----------------------------------------------------------------------------
(* The engine, at the end of sendmsg and in softirqs.                      *)

\* tp_tx_wakeup() when the head of the list is q: in break mode the queue is
\* left to the user.
TxWakeup(q) ==
  IF breakMode
  THEN breakMode' = FALSE /\ txState' = "TX_IDLE"
  ELSE /\ txState' = IF q = NULL THEN "TX_IDLE" ELSE "TX_WAIT_AK"
       /\ UNCHANGED breakMode

\* tp_tx_data(): the message is complete and its cell is freed.
AckComplete ==
  /\ txState = "TX_WAIT_AK" /\ tx_queue # NULL
  /\ tx_queue' = next[tx_queue]
  /\ cell' = [cell EXCEPT ![tx_queue] = "complete"]
  /\ badAccess' = (badAccess \/ cell[tx_queue] # "queued")
  /\ overtaken' = (overtaken \/ (pc \in {"walk", "link"} /\ p = tx_queue))
  /\ TxWakeup(next[tx_queue])
  /\ UNCHANGED <<next, break2usr, locals>>

\* tp_tx_data() reads tx_queue->size of a list that is gone.
AckCrashes ==
  /\ txState = "TX_WAIT_AK" /\ tx_queue = NULL
  /\ badAccess' = TRUE
  /\ txState' = "TX_IDLE"
  /\ UNCHANGED <<tx_queue, next, cell, breakMode, break2usr, locals, overtaken>>

\* tp20_tx_break(): a BR frame arrives.
TxBreak ==
  /\ txState # "TX_IDLE"
  /\ breakMode' = TRUE /\ break2usr' = TRUE
  /\ overtaken' = (overtaken \/ pc # "user")
  /\ UNCHANGED <<tx_queue, next, cell, txState, locals, badAccess>>

----------------------------------------------------------------------------
(* tp20_sendmsg().                                                         *)

Complete(c) == cell[c] \in {"complete", "removed"}

\* The application submits the next message.
MaySubmit(c) ==
  /\ cell[c] = "unused"
  /\ \A d \in Cells : d < c => cell[d] # "unused"

\* No break: kmalloc() and fill the cell.
SendBegin ==
  /\ pc = "user" /\ ~breakMode /\ ~break2usr
  /\ \E c \in Cells :
       /\ MaySubmit(c)
       /\ txb' = c
       /\ cell' = [cell EXCEPT ![c] = "filled"]
       /\ next' = [next EXCEPT ![c] = NULL]
  /\ pc' = "head"
  /\ UNCHANGED <<tx_queue, txState, breakMode, break2usr, p, badAccess>>

\* if (ud->txstate.tx_queue): start at its head.
FindHead ==
  /\ pc = "head"
  /\ IF tx_queue # NULL THEN pc' = "walk" /\ p' = tx_queue
                        ELSE pc' = "first" /\ UNCHANGED p
  /\ UNCHANGED <<tx_queue, next, cell, txState, breakMode, break2usr, txb, badAccess>>

\* A cell that kfree() has taken back.
Freed(c) == Complete(c)

\* Mutant: the message is connected to the first cell.
AtEndFirst == TRUE

\* !p->next
AtEnd == next[p] = NULL

\* for (p = ud->txstate.tx_queue; p->next; p = p->next)
Walk ==
  /\ pc = "walk"
  /\ IF AtEnd THEN pc' = "link" /\ UNCHANGED p
              ELSE p' = next[p] /\ UNCHANGED pc
  /\ badAccess' = (badAccess \/ Freed(p))
  /\ UNCHANGED <<tx_queue, next, cell, txState, breakMode, break2usr, txb>>

\* p->next = txb
Link ==
  /\ pc = "link"
  /\ next' = [next EXCEPT ![p] = txb]
  /\ cell' = [cell EXCEPT ![txb] = "queued"]
  /\ badAccess' = (badAccess \/ Freed(p))
  /\ pc' = "wake"
  /\ UNCHANGED <<tx_queue, txState, breakMode, break2usr, txb, p>>

\* ud->txstate.tx_queue = txb
First ==
  /\ pc = "first"
  /\ tx_queue' = txb
  /\ cell' = [cell EXCEPT ![txb] = "queued"]
  /\ pc' = "wake"
  /\ UNCHANGED <<next, txState, breakMode, break2usr, txb, p, badAccess>>

\* Mutant: the engine is left as it is.
StartsNever == FALSE

\* An idle engine is started.
Starts == txState = "TX_IDLE"

\* tp_tx_wakeup() starts an idle engine, and sendmsg returns.
Wake ==
  /\ pc = "wake"
  /\ pc' = "user"
  /\ IF Starts THEN TxWakeup(tx_queue) ELSE UNCHANGED <<txState, breakMode>>
  /\ UNCHANGED <<tx_queue, next, cell, break2usr, txb, p, badAccess>>

\* Mutant: the list is freed as soon as the break is known.
BreakSeenAlways == TRUE

\* The engine has stopped at the break.
BreakSeen == ~breakMode

\* Break handling, first half: the engine has seen the break, free the list.
BreakFree ==
  /\ pc = "user" /\ break2usr /\ BreakSeen
  /\ cell' = [c \in Cells |-> IF c \in Listed THEN "removed" ELSE cell[c]]
  /\ badAccess' = (badAccess \/ \E c \in Listed : Freed(c))
  /\ pc' = "break"
  /\ UNCHANGED <<tx_queue, next, txState, breakMode, break2usr, txb, p>>

EmptyQueue == tx_queue' = NULL

\* Break handling, second half: mark the queue empty and return -EAGAIN.
BreakDone ==
  /\ pc = "break"
  /\ EmptyQueue
  /\ break2usr' = FALSE
  /\ pc' = "user"
  /\ UNCHANGED <<next, cell, txState, breakMode, txb, p, badAccess>>

SendMsg ==
  /\ SendBegin \/ FindHead \/ Walk \/ Link \/ First \/ Wake \/ BreakFree \/ BreakDone
  /\ UNCHANGED overtaken

QueueNext == SendMsg \/ AckComplete \/ AckCrashes \/ TxBreak

QueueSpec == QueueInit /\ [][QueueNext]_queueVars

\* The process goes on and ACKs arrive.
QueueFairSpec == QueueSpec /\ WF_queueVars(SendMsg) /\ WF_queueVars(AckComplete)

----------------------------------------------------------------------------
(* Properties.                                                             *)

\* sendmsg removes the tx buffers of a broken transmission "when
\* TP_BREAK_MODE is cleared by tp_tx_wakeup() the tx statemachine is TX_IDLE -
\* so we can safely remove the tx buffers": the engine does not use the list
\* while sendmsg takes it apart, unless the break met sendmsg as it appended.
BreakIsSafe ==
  (pc = "break" \/ (break2usr /\ ~breakMode)) => (txState = "TX_IDLE" \/ overtaken)

\* A message that sendmsg took stays in the list until it is complete, or
\* removed by a break: "connect to end of tx_buf" connects it, whatever
\* softirqs come between the accesses, unless one takes the last cell away.
NoMessageLost == overtaken \/ {c \in Cells : cell[c] = "queued"} \subseteq Listed

\* The loop of sendmsg stops at the last cell of whatever list it walks, and
\* neither the process nor the softirq uses a cell that is freed, or a list
\* that is gone, but for these two races, and breaks are safe.
NoUseAfterFree ==
  /\ BreakIsSafe
  /\ (pc \in {"walk", "link"}) => p # NULL
  /\ badAccess => overtaken

\* A message is completed, or removed by a break that the application is
\* told of (-EAGAIN): no message is left behind in an idle engine.
NoneLeftBehind ==
  \A c \in Cells : (cell[c] = "queued") ~> (Complete(c) \/ break2usr \/ overtaken)
=============================================================================
