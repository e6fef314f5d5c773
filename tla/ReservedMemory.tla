--------------------------- MODULE ReservedMemory ---------------------------
(***************************************************************************)
(* What load-reserved and store-conditional promise over a shared memory,  *)
(* without devices or epochs. A hart holds a set of reserved cells. Any    *)
(* store takes the stored cells out of every reservation and may take away *)
(* more; a store-conditional writes only cells that are still reserved.    *)
(* SystemBus implements it.                                                *)
(***************************************************************************)
CONSTANTS
  Harts,
  Cells,
  Blocks,  \* the sets of cells one access reaches
  Values,
  Fill     \* what a cell holds before the first store

VARIABLES
  mem,        \* per cell, the value stored last
  valid,      \* per hart, the cells its reservation still covers
  succeeded   \* per hart, whether its last store-conditional stored

vars == <<mem, valid, succeeded>>

Init ==
  /\ mem = [c \in Cells |-> Fill]
  /\ valid = [h \in Harts |-> {}]
  /\ succeeded = [h \in Harts |-> FALSE]

Stored(cells, v) == [c \in Cells |-> IF c \in cells THEN v ELSE mem[c]]

\* Reservations shrink, and lose every cell in `cells'.
Shrunk(cells) ==
  /\ valid' \in [Harts -> SUBSET Cells]
  /\ \A h \in Harts : valid'[h] \subseteq valid[h] \ cells

Store(cells, v) ==
  /\ UNCHANGED succeeded
  /\ mem' = Stored(cells, v)
  /\ Shrunk(cells)

LoadReserved(h, cells) ==
  /\ UNCHANGED <<mem, succeeded>>
  /\ valid' = [valid EXCEPT ![h] = cells]

StoreConditional(h, cells, v) ==
  /\ succeeded' = [succeeded EXCEPT ![h] = TRUE]
  /\ cells # {}
  /\ cells \subseteq valid[h]
  /\ mem' = Stored(cells, v)
  /\ Shrunk(cells)
  /\ valid'[h] = {}

FailStoreConditional(h) ==
  /\ UNCHANGED mem
  /\ succeeded' = [succeeded EXCEPT ![h] = FALSE]
  /\ Shrunk({})
  /\ valid'[h] = {}

Lose ==
  /\ UNCHANGED <<mem, succeeded>>
  /\ Shrunk({})

Next ==
  \/ \E h \in Harts, cells \in Blocks : LoadReserved(h, cells)
  \/ \E h \in Harts, cells \in Blocks, v \in Values : StoreConditional(h, cells, v)
  \/ Lose
  \/ \E h \in Harts : FailStoreConditional(h)
  \/ \E cells \in Blocks, v \in Values : Store(cells, v)

Spec == Init /\ [][Next]_vars
=============================================================================
