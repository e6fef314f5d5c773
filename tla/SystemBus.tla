------------------------------ MODULE SystemBus ------------------------------
(***************************************************************************)
(* The system bus (common/src/system_bus.cpp): the map from physical       *)
(* addresses to devices with its one-entry lookup cache, plain accesses of *)
(* the hart, the page-table walker and the DMA devices, and the            *)
(* load-reserved / store-conditional protocol, in which one counter of     *)
(* successful writes, write_epoch, stands for all reservation tracking.    *)
(*                                                                         *)
(* The word and doubleword variants of an operation differ in their width  *)
(* and alignment only and are one action. A cell of memory holds a tag of  *)
(* the store that wrote it; what an AMO computes is left open.             *)
(***************************************************************************)
EXTENDS Integers, FiniteSets

CONSTANTS
  Devices,       \* the devices that add_device may be called with
  Base, Size,    \* their address ranges
  Ram,           \* the devices that accept every access inside their range
  AddressLimit,  \* the largest physical address (2^64 - 1)
  Widths,        \* access widths in bytes
  AtomicWidths,  \* widths of LR, SC and AMO
  Harts,
  Values,        \* tags of stored values
  MaxWrites,     \* bound on write_epoch
  NoDevice       \* the null device pointer

ASSUME SystemBusAssumption ==
  /\ IsFiniteSet(Devices)
  /\ Base \in [Devices -> Nat]
  /\ Size \in [Devices -> Nat]
  /\ AddressLimit \in Nat
  /\ Widths \subseteq Nat \ {0}
  /\ AtomicWidths \subseteq Widths
  /\ 0 \in Values
  /\ MaxWrites \in Nat
  /\ NoDevice \notin Devices

Cells == 0 .. AddressLimit

VARIABLES
  devices,       \* the installed devices
  last_device,   \* the device the last successful lookup found, or NoDevice
  mem,           \* per cell, the value the devices hold
  reservations,  \* the harts' reservations, a partial function
  write_epoch,   \* the number of successful writes
  succeeded      \* per hart, the result of its last store-conditional

vars == <<devices, last_device, mem, reservations, write_epoch, succeeded>>

NoReservations == [h \in {} |-> 0]

Footprint(a, w) == a .. (a + w - 1)

-----------------------------------------------------------------------------
(* The address map. *)

contains(d, a, w) ==
  /\ Size[d] # 0
  /\ w <= Size[d]
  /\ a >= Base[d]
  /\ a - Base[d] <= Size[d] - w

end_exclusive(d) == (Base[d] + Size[d]) % (AddressLimit + 1)

overlaps(d, e) ==
  /\ Size[d] # 0 /\ Size[e] # 0
  /\ Base[d] < end_exclusive(e)
  /\ Base[e] < end_exclusive(d)

\* Mutant: a refused device is found too.
CandidateRefused(a) ==
  LET below == {d \in Devices : Base[d] <= a}
  IN  IF below = {} THEN NoDevice
      ELSE CHOOSE d \in below : \A e \in below : Base[e] <= Base[d]

\* upper_bound on the devices sorted by base, less one: the installed device
\* with the largest base that is not above the address.
Candidate(a) ==
  LET below == {d \in devices : Base[d] <= a}
  IN  IF below = {} THEN NoDevice
      ELSE CHOOSE d \in below : \A e \in below : Base[e] <= Base[d]

find_device(a, w) ==
  IF last_device # NoDevice /\ contains(last_device, a, w) THEN last_device
  ELSE LET d == Candidate(a)
       IN  IF d # NoDevice /\ contains(d, a, w) THEN d ELSE NoDevice

\* The lookup's side effect: a device found is remembered, a miss is not.
Remember(d) == last_device' = IF d = NoDevice THEN last_device ELSE d

\* Mutant: any device is installed.
AddDeviceUnchecked(d) ==
  /\ d \notin devices
  /\ devices' = devices \cup {d}
  /\ last_device' = NoDevice
  /\ UNCHANGED <<mem, reservations, write_epoch, succeeded>>

\* An empty range, one that reaches the last address, and one that overlaps an
\* installed device are refused with an exception.
add_device(d) ==
  /\ d \notin devices
  /\ Size[d] # 0
  /\ Size[d] <= AddressLimit - Base[d]
  /\ \A e \in devices : ~overlaps(d, e)
  /\ devices' = devices \cup {d}
  /\ last_device' = NoDevice
  /\ UNCHANGED <<mem, reservations, write_epoch, succeeded>>

-----------------------------------------------------------------------------
(* Accesses. `accepted' is the device's own verdict: RAM accepts every       *)
(* access inside its range, a register device may fault.                     *)

Verdicts(d) == IF d \in Ram THEN {TRUE} ELSE BOOLEAN

Stored(a, w, v) == [c \in Cells |-> IF c \in Footprint(a, w) THEN v ELSE mem[c]]

\* Mutant: the epoch does not count the write.
WriteDeviceUncounted(d, a, w, v, accepted) ==
  /\ d # NoDevice /\ accepted \in Verdicts(d)
  /\ mem' = IF accepted THEN Stored(a, w, v) ELSE mem
  /\ UNCHANGED write_epoch

\* write() past the lookup: only a write the device accepts counts.
WriteDevice(d, a, w, v, accepted) ==
  /\ d # NoDevice /\ accepted \in Verdicts(d)
  /\ mem' = IF accepted THEN Stored(a, w, v) ELSE mem
  /\ write_epoch' = IF accepted THEN write_epoch + 1 ELSE write_epoch

\* Loads, fetches, page-table reads and dma_read: only the lookup leaves a trace.
read(a, w) ==
  /\ Remember(find_device(a, w))
  /\ UNCHANGED <<devices, mem, reservations, write_epoch, succeeded>>

\* Stores, AMOs, the walker's accessed and dirty updates, and dma_write.
write(a, w, v, accepted) ==
  LET d == find_device(a, w)
  IN  /\ write_epoch < MaxWrites
      /\ WriteDevice(d, a, w, v, accepted)
      /\ Remember(d)
      /\ UNCHANGED <<devices, reservations, succeeded>>

\* An AMO reads and then writes the same location, in one step of the bus; when
\* the read faults nothing is written.
atomic(a, w, v, accepted) ==
  /\ a % w = 0
  /\ \/ write(a, w, v, accepted)
     \/ find_device(a, w) \notin Ram /\ read(a, w)

load_reserved(h, a, w, accepted) ==
  LET d == find_device(a, w)
      reservation == [address |-> a, width |-> w, write_epoch |-> write_epoch]
  IN  /\ a % w = 0
      /\ accepted \in (IF d = NoDevice THEN {FALSE} ELSE Verdicts(d))
      /\ Remember(d)
      /\ reservations' =
           IF accepted
           THEN [g \in DOMAIN reservations \cup {h} |->
                   IF g = h THEN reservation ELSE reservations[g]]
           ELSE reservations
      /\ UNCHANGED <<devices, mem, write_epoch, succeeded>>

Matches(h, a, w) ==
  /\ h \in DOMAIN reservations
  /\ reservations[h].address = a
  /\ reservations[h].width = w
  /\ reservations[h].write_epoch = write_epoch

\* The reservation goes whether or not it matches; an address no device
\* answers faults even then; without a match nothing is stored. A misaligned
\* store-conditional returns before it looks at the reservation.
store_conditional(h, a, w, v, accepted) ==
  LET d == find_device(a, w)
      stores == d # NoDevice /\ Matches(h, a, w)
  IN  /\ a % w = 0
      /\ stores => write_epoch < MaxWrites
      /\ reservations' = [g \in DOMAIN reservations \ {h} |-> reservations[g]]
      /\ Remember(d)
      /\ IF stores THEN WriteDevice(d, a, w, v, accepted)
                   ELSE ~accepted /\ UNCHANGED <<mem, write_epoch>>
      /\ succeeded' = [succeeded EXCEPT ![h] = stores /\ accepted]
      /\ UNCHANGED devices

\* Machine reset; the epoch keeps counting.
clear_reservations ==
  /\ reservations' = NoReservations
  /\ UNCHANGED <<devices, last_device, mem, write_epoch, succeeded>>

Init ==
  /\ devices = {}
  /\ last_device = NoDevice
  /\ mem = [c \in Cells |-> 0]
  /\ reservations = NoReservations
  /\ write_epoch = 0
  /\ succeeded = [h \in Harts |-> FALSE]

Next ==
  \/ \E d \in Devices : add_device(d)
  \/ \E a \in Cells, w \in Widths : read(a, w)
  \/ \E a \in Cells, w \in Widths, v \in Values, accepted \in BOOLEAN :
       write(a, w, v, accepted)
  \/ \E a \in Cells, w \in AtomicWidths, v \in Values, accepted \in BOOLEAN :
       atomic(a, w, v, accepted)
  \/ \E h \in Harts, a \in Cells, w \in AtomicWidths, accepted \in BOOLEAN :
       load_reserved(h, a, w, accepted)
  \/ \E h \in Harts, a \in Cells, w \in AtomicWidths, v \in Values, accepted \in BOOLEAN :
       store_conditional(h, a, w, v, accepted)
  \/ clear_reservations

Spec == Init /\ [][Next]_vars

-----------------------------------------------------------------------------
Reservation == [address : Cells, width : AtomicWidths, write_epoch : Nat]

\* The remembered device is an installed one and a reservation names cells
\* that a device has answered for.
TypeOK ==
  /\ devices \subseteq Devices
  /\ last_device \in devices \cup {NoDevice}
  /\ mem \in [Cells -> Values]
  /\ DOMAIN reservations \subseteq Harts
  /\ reservations \in [DOMAIN reservations -> Reservation]
  /\ write_epoch \in Nat
  /\ succeeded \in [Harts -> BOOLEAN]

\* The lookup is exact whatever was looked up before: it returns the installed
\* device whose range holds the whole access, there is at most one, and it
\* returns none only when there is none. The cache and the search on bases both
\* rest on the refusal of overlapping and overflowing ranges
\* (system_bus.cpp:16-33, 450-478).
LookupExact ==
  \A a \in Cells, w \in Widths :
    LET holders == {d \in devices : contains(d, a, w)}
    IN  holders = IF find_device(a, w) = NoDevice THEN {} ELSE {find_device(a, w)}

\* The cells a hart's reservation still covers: all of them while its epoch is
\* the current one, none after.
ValidCells(h) ==
  IF h \in DOMAIN reservations /\ reservations[h].write_epoch = write_epoch
  THEN Footprint(reservations[h].address, reservations[h].width) \cap Cells
  ELSE {}

AccessBlocks == {Footprint(a, w) \cap Cells : a \in Cells, w \in Widths}

\* The LR/SC contract: every operation of the bus is an operation of
\* ReservedMemory, with a reservation valid while its epoch is current. So a
\* store-conditional succeeds only if no store of any hart, page-table walk or
\* DMA device reached its cells since the load-reserved, and one that fails
\* stores nothing (system_bus.cpp:115-206, 274-338).
Contract == INSTANCE ReservedMemory WITH
  Fill <- 0,
  Blocks <- AccessBlocks,
  valid <- [h \in Harts |-> ValidCells(h)]

\* The bus implements the LR/SC contract (see Contract).
LrScContract == Contract!Spec
=============================================================================
