------------------------------- MODULE PcanFifo -------------------------------
(***************************************************************************)
(* The message FIFOs of the PEAK driver (pcan_fifo.c): a ring of nCount    *)
(* cells with a read and a write position and a count of the messages      *)
(* stored.  A FIFO is a value here; the actions that use it put and get in *)
(* one step, which is what set_lock() and release_lock() achieve between   *)
(* process code and interrupt handlers of one processor: the lock disables *)
(* interrupts, and a handler that finds itself in atomic context needs no  *)
(* lock because nothing runs beside it.                                    *)
(***************************************************************************)
EXTENDS Integers, Sequences

(***************************************************************************)
(* pcan_fifo_init() and pcan_fifo_reset().  A cell that is not stored in   *)
(* is never read; it is `blank' here, so that FIFOs that differ in such    *)
(* cells only are one value.                                               *)
(***************************************************************************)
pcan_fifo_init(n, blank) ==
    [cells |-> [i \in 0 .. n - 1 |-> blank], r |-> 0, w |-> 0, nStored |-> 0,
     nCount |-> n, blank |-> blank]

pcan_fifo_reset(f) == pcan_fifo_init(f.nCount, f.blank)

\* The increment both positions share: from the last cell back to the first.
StepOnShort(f, pos) == IF pos < f.nCount - 2 THEN pos + 1 ELSE 0    \* a mutant
StepOn(f, pos) == IF pos < f.nCount - 1 THEN pos + 1 ELSE 0

Refuses(f) == f.nStored >= f.nCount             \* pcan_fifo_put(): -ENOSPC

pcan_fifo_put(f, m) ==
    IF Refuses(f)
    THEN f
    ELSE [f EXCEPT !.cells[f.w] = m, !.w = StepOn(f, @), !.nStored = @ + 1]

\* pcan_fifo_get() of a FIFO that is not empty: what it returns, what it leaves.
FirstOf(f) == f.cells[f.r]
pcan_fifo_get(f) ==
    [f EXCEPT !.cells[f.r] = f.blank, !.r = StepOn(f, @), !.nStored = @ - 1]

\* What n calls of it, one after the other, leave.
GetMany(f, n) ==
    LET after[i \in 0 .. n] == IF i = 0 THEN f ELSE pcan_fifo_get(after[i - 1])
    IN  after[n]

(***************************************************************************)
(* The two tests say the contrary of their names: near_full() is true      *)
(* while the FIFO has room, empty() while it holds something.              *)
(***************************************************************************)
pcan_fifo_near_full(f) == f.nStored < f.nCount - 1
pcan_fifo_empty(f) == f.nStored > 0

\* The messages stored, oldest first.
Contents(f) == [i \in 1 .. f.nStored |-> f.cells[(f.r + i - 1) % f.nCount]]
===============================================================================
