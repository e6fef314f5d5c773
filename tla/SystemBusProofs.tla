-------------------------- MODULE SystemBusProofs --------------------------
(***************************************************************************)
(* Proofs about the system bus, for every address map, every set of access *)
(* widths and every number of harts.                                       *)
(***************************************************************************)
EXTENDS SystemBus, WellOrder, TLAPS

\* The installed ranges are nonempty, end before the last address and do not
\* meet: what add_device checks, kept.
Separated ==
  \A d \in devices :
    /\ Size[d] # 0
    /\ Base[d] + Size[d] <= AddressLimit
    /\ \A e \in devices : d # e =>
         Base[d] + Size[d] <= Base[e] \/ Base[e] + Size[e] <= Base[d]

\* A reservation is never newer than the last write: an older one cannot match
\* again once a write has passed it.
NoFutureReservation ==
  \A h \in DOMAIN reservations : reservations[h].write_epoch <= write_epoch

IInv == TypeOK /\ Separated /\ NoFutureReservation

-----------------------------------------------------------------------------
(* The address map. *)

\* The search for the largest base not above an address finds it.
LEMMA CandidateIsLargest ==
  ASSUME TypeOK, NEW a \in Cells, {d \in devices : Base[d] <= a} # {}
  PROVE  LET below == {d \in devices : Base[d] <= a}
         IN  Candidate(a) \in below /\ \A e \in below : Base[e] <= Base[Candidate(a)]
<1> DEFINE below == {d \in devices : Base[d] <= a}
           gaps == {a - Base[d] : d \in below}
<1>1. a \in Nat /\ \A d \in below : Base[d] \in Nat /\ Base[d] <= a
  BY SystemBusAssumption DEF TypeOK, Cells
<1>2. gaps \in SUBSET Nat /\ gaps # {}
  <2>1. \A d \in below : a - Base[d] \in Nat  BY <1>1
  <2>. QED  BY <2>1
<1>3. PICK g \in gaps : \A h \in gaps : g <= h
  <2> HIDE DEF gaps
  <2>. QED  BY <1>2, LeastNat
<1>4. PICK m \in below : g = a - Base[m]  BY <1>3
<1>5. \A e \in below : Base[e] <= Base[m]
  <2> TAKE e \in below
  <2>1. a - Base[m] <= a - Base[e]  BY <1>3, <1>4
  <2>. QED  BY <1>1, <2>1
<1>6. \E d \in below : \A e \in below : Base[e] <= Base[d]  BY <1>5
<1>7. Candidate(a) = CHOOSE d \in below : \A e \in below : Base[e] <= Base[d]
  BY Zenon DEF Candidate
<1> HIDE DEF below
<1>8. Candidate(a) \in below /\ \A e \in below : Base[e] <= Base[Candidate(a)]
  BY <1>6, <1>7, Zenon
<1>. QED  BY <1>8 DEF below

\* Two installed devices never hold the same access.
LEMMA OneHolder ==
  ASSUME TypeOK, Separated, NEW a \in Cells, NEW w \in Widths,
         NEW d \in devices, NEW e \in devices, contains(d, a, w),
         Base[e] <= a, a < Base[e] + Size[e]
  PROVE  d = e
<1>1. /\ a \in Nat /\ w \in Nat \ {0}
      /\ Base[d] \in Nat /\ Size[d] \in Nat /\ Base[e] \in Nat /\ Size[e] \in Nat
  BY SystemBusAssumption DEF TypeOK, Cells
<1>. QED  BY <1>1 DEF Separated, contains

\* Whatever the cache remembers, the lookup returns the holder of an access.
LEMMA FindsHolder ==
  ASSUME TypeOK, Separated, NEW a \in Cells, NEW w \in Widths
  PROVE  /\ find_device(a, w) \in devices \cup {NoDevice}
         /\ find_device(a, w) # NoDevice => contains(find_device(a, w), a, w)
         /\ \A d \in devices : contains(d, a, w) => find_device(a, w) = d
<1>1. /\ a \in Nat /\ w \in Nat \ {0}
      /\ \A d \in devices : Base[d] \in Nat /\ Size[d] \in Nat
  BY SystemBusAssumption DEF TypeOK, Cells
<1>2. NoDevice \notin devices  BY SystemBusAssumption DEF TypeOK
<1>3. ASSUME NEW d \in devices, contains(d, a, w)
      PROVE  Base[d] <= a /\ a < Base[d] + Size[d]
  BY <1>1, <1>3 DEF contains
<1>4. CASE last_device # NoDevice /\ contains(last_device, a, w)
  <2>1. find_device(a, w) = last_device /\ last_device \in devices
    BY <1>4 DEF find_device, TypeOK
  <2>2. \A d \in devices : contains(d, a, w) => d = last_device
    BY <1>3, <1>4, <2>1, OneHolder
  <2>. QED  BY <1>4, <2>1, <2>2
<1>5. CASE ~(last_device # NoDevice /\ contains(last_device, a, w))
  <2> DEFINE below == {d \in devices : Base[d] <= a}
  <2>1. find_device(a, w) =
          IF Candidate(a) # NoDevice /\ contains(Candidate(a), a, w) THEN Candidate(a)
                                                                   ELSE NoDevice
    BY <1>5, Zenon DEF find_device
  <2>2. CASE below = {}
    <3>1. Candidate(a) = NoDevice  BY <2>2 DEF Candidate
    <3>2. find_device(a, w) = NoDevice  BY <2>1, <3>1
    <3>. QED  BY <1>3, <2>2, <3>2
  <2>3. CASE below # {}
    <3>1. Candidate(a) \in below /\ \A e \in below : Base[e] <= Base[Candidate(a)]
      BY <2>3, CandidateIsLargest
    <3>2. find_device(a, w) \in devices \cup {NoDevice}
      BY <2>1, <3>1
    <3>3. find_device(a, w) # NoDevice => contains(find_device(a, w), a, w)
      BY <2>1
    <3>4. ASSUME NEW d \in devices, contains(d, a, w)
          PROVE  find_device(a, w) = d
      <4>1. d \in below /\ Base[d] <= a /\ a < Base[d] + Size[d]  BY <1>3, <3>4
      <4>2. Base[d] <= Base[Candidate(a)] /\ Base[Candidate(a)] <= a
        BY <3>1, <4>1
      <4>3. Candidate(a) = d
        BY <1>1, <3>1, <4>1, <4>2, SystemBusAssumption DEF Separated
      <4>. QED  BY <1>2, <2>1, <3>4, <4>3
    <3>. QED  BY <3>2, <3>3, <3>4
  <2>. QED  BY <2>2, <2>3
<1>. QED  BY <1>4, <1>5
-----------------------------------------------------------------------------
(* The inductive invariant. *)

LEMMA InitIInv == Init => IInv
<1> SUFFICES ASSUME Init PROVE IInv  OBVIOUS
<1>1. TypeOK  BY SystemBusAssumption DEF Init, TypeOK, NoReservations
<1>2. Separated  BY DEF Init, Separated
<1>3. NoFutureReservation  BY DEF Init, NoFutureReservation, NoReservations
<1>. QED  BY <1>1, <1>2, <1>3 DEF IInv

\* What add_device refuses is exactly what would break the separation.
LEMMA AddDeviceIInv ==
  ASSUME IInv, NEW d \in Devices, add_device(d)
  PROVE  IInv'
<1> USE SystemBusAssumption DEF IInv
<1>1. TypeOK'  BY DEF add_device, TypeOK
<1>2. Base[d] \in Nat /\ Size[d] \in Nat /\ AddressLimit \in Nat
      /\ Size[d] # 0 /\ Base[d] + Size[d] <= AddressLimit
  BY DEF add_device
<1>3. ASSUME NEW e \in devices
      PROVE  /\ Base[e] \in Nat /\ Size[e] \in Nat
             /\ Base[d] + Size[d] <= Base[e] \/ Base[e] + Size[e] <= Base[d]
  <2>1. Base[e] \in Nat /\ Size[e] \in Nat  BY DEF TypeOK
  <2>2. Size[e] # 0 /\ Base[e] + Size[e] <= AddressLimit  BY DEF Separated
  <2>3. end_exclusive(d) = Base[d] + Size[d] /\ end_exclusive(e) = Base[e] + Size[e]
    BY <1>2, <2>1, <2>2 DEF end_exclusive
  <2>4. ~overlaps(d, e)  BY DEF add_device
  <2>. QED  BY <1>2, <2>1, <2>2, <2>3, <2>4 DEF overlaps
<1>4. devices' = devices \cup {d}  BY DEF add_device
<1>5. Separated'
  BY <1>2, <1>3, <1>4 DEF Separated
<1>6. NoFutureReservation'  BY DEF add_device, NoFutureReservation
<1>. QED  BY <1>1, <1>5, <1>6

\* Remembering the device of a lookup keeps the cache among the installed ones.
LEMMA RememberType ==
  ASSUME IInv, NEW a \in Cells, NEW w \in Widths, Remember(find_device(a, w))
  PROVE  last_device' \in devices \cup {NoDevice}
  BY FindsHolder DEF IInv, TypeOK, Remember

LEMMA ReadIInv ==
  ASSUME IInv, NEW a \in Cells, NEW w \in Widths, read(a, w)
  PROVE  IInv'
<1>1. last_device' \in devices \cup {NoDevice}  BY RememberType DEF read
<1>. QED  BY <1>1 DEF read, IInv, TypeOK, Separated, NoFutureReservation

\* What a write that reaches its device does to memory and epoch.
LEMMA WriteDeviceType ==
  ASSUME IInv, NEW d, NEW a, NEW w, NEW v \in Values, NEW accepted \in BOOLEAN,
         WriteDevice(d, a, w, v, accepted)
  PROVE  mem' \in [Cells -> Values] /\ write_epoch' \in Nat /\ write_epoch <= write_epoch'
<1>1. Stored(a, w, v) \in [Cells -> Values]  BY DEF Stored, IInv, TypeOK
<1>. QED  BY <1>1 DEF WriteDevice, IInv, TypeOK

LEMMA WriteIInv ==
  ASSUME IInv, NEW a \in Cells, NEW w \in Widths, NEW v \in Values,
         NEW accepted \in BOOLEAN, write(a, w, v, accepted)
  PROVE  IInv'
<1>1. last_device' \in devices \cup {NoDevice}  BY RememberType DEF write
<1>2. mem' \in [Cells -> Values] /\ write_epoch' \in Nat /\ write_epoch <= write_epoch'
  BY WriteDeviceType DEF write
<1>3. TypeOK'  BY <1>1, <1>2 DEF write, IInv, TypeOK
<1>4. Separated'  BY DEF write, IInv, Separated
<1>5. NoFutureReservation'
  BY <1>2 DEF write, IInv, TypeOK, Reservation, NoFutureReservation
<1>. QED  BY <1>3, <1>4, <1>5 DEF IInv

LEMMA AtomicIInv ==
  ASSUME IInv, NEW a \in Cells, NEW w \in AtomicWidths, NEW v \in Values,
         NEW accepted \in BOOLEAN, atomic(a, w, v, accepted)
  PROVE  IInv'
  BY SystemBusAssumption, WriteIInv, ReadIInv DEF atomic

LEMMA LoadReservedIInv ==
  ASSUME IInv, NEW h \in Harts, NEW a \in Cells, NEW w \in AtomicWidths,
         NEW accepted \in BOOLEAN, load_reserved(h, a, w, accepted)
  PROVE  IInv'
<1> DEFINE r == [address |-> a, width |-> w, write_epoch |-> write_epoch]
<1>1. w \in Widths  BY SystemBusAssumption
<1>2. last_device' \in devices \cup {NoDevice}
  BY <1>1, RememberType DEF load_reserved
<1>3. UNCHANGED <<devices, mem, write_epoch, succeeded>>  BY DEF load_reserved
<1>4. CASE ~accepted
  BY <1>2, <1>3, <1>4 DEF load_reserved, IInv, TypeOK, Separated, NoFutureReservation
<1>5. CASE accepted
  <2>1. reservations' = [g \in DOMAIN reservations \cup {h} |->
                           IF g = h THEN r ELSE reservations[g]]
    BY <1>5 DEF load_reserved
  <2>2. r \in Reservation  BY DEF Reservation, IInv, TypeOK
  <2>3. r.write_epoch = write_epoch  OBVIOUS
  <2> HIDE DEF r
  <2>4. TypeOK'  BY <1>2, <1>3, <2>1, <2>2 DEF IInv, TypeOK
  <2>5. Separated'  BY <1>3 DEF IInv, Separated
  <2>6. NoFutureReservation'
    BY <1>3, <2>1, <2>3 DEF IInv, TypeOK, NoFutureReservation
  <2>. QED  BY <2>4, <2>5, <2>6 DEF IInv
<1>. QED  BY <1>4, <1>5

LEMMA StoreConditionalIInv ==
  ASSUME IInv, NEW h \in Harts, NEW a \in Cells, NEW w \in AtomicWidths, NEW v \in Values,
         NEW accepted \in BOOLEAN, store_conditional(h, a, w, v, accepted)
  PROVE  IInv'
<1> DEFINE stores == find_device(a, w) # NoDevice /\ Matches(h, a, w)
<1>1. w \in Widths  BY SystemBusAssumption
<1>2. last_device' \in devices \cup {NoDevice}
  BY <1>1, RememberType DEF store_conditional
<1>3. mem' \in [Cells -> Values] /\ write_epoch' \in Nat /\ write_epoch <= write_epoch'
  <2>1. CASE stores
    <3>1. WriteDevice(find_device(a, w), a, w, v, accepted)
      BY <2>1 DEF store_conditional
    <3>. QED  BY <3>1, WriteDeviceType
  <2>2. CASE ~stores  BY <2>2 DEF store_conditional, IInv, TypeOK
  <2>. QED  BY <2>1, <2>2
<1>4. /\ reservations' = [g \in DOMAIN reservations \ {h} |-> reservations[g]]
      /\ succeeded' \in [Harts -> BOOLEAN]
      /\ UNCHANGED devices
  BY DEF store_conditional, IInv, TypeOK
<1>5. TypeOK'  BY <1>2, <1>3, <1>4 DEF IInv, TypeOK
<1>6. Separated'  BY <1>4 DEF IInv, Separated
<1>7. NoFutureReservation'
  BY <1>3, <1>4 DEF IInv, TypeOK, Reservation, NoFutureReservation
<1>. QED  BY <1>5, <1>6, <1>7 DEF IInv

LEMMA ClearReservationsIInv ==
  ASSUME IInv, clear_reservations
  PROVE  IInv'
  BY DEF clear_reservations, NoReservations, IInv, TypeOK, Separated, NoFutureReservation

LEMMA NextIInv == IInv /\ [Next]_vars => IInv'
<1> SUFFICES ASSUME IInv, [Next]_vars PROVE IInv'  OBVIOUS
<1>1. CASE Next
  BY <1>1, AddDeviceIInv, ReadIInv, WriteIInv, AtomicIInv, LoadReservedIInv,
     StoreConditionalIInv, ClearReservationsIInv DEF Next
<1>2. CASE UNCHANGED vars
  BY <1>2 DEF vars, IInv, TypeOK, Separated, NoFutureReservation
<1>. QED  BY <1>1, <1>2

\* The bus state stays well formed: in particular the cached device is always an
\* installed one (system_bus.cpp:476).
THEOREM TypeCorrect == Spec => []TypeOK
<1>1. IInv => TypeOK  BY DEF IInv
<1>. QED  BY <1>1, InitIInv, NextIInv, PTL DEF Spec

\* LookupExact holds always, for every address map that add_device accepts and
\* every history of lookups (system_bus.cpp:16-33, 450-478).
THEOREM LookupAlwaysExact == Spec => []LookupExact
<1>1. IInv => LookupExact
  <2> SUFFICES ASSUME IInv, NEW a \in Cells, NEW w \in Widths
               PROVE  {d \in devices : contains(d, a, w)} =
                        IF find_device(a, w) = NoDevice THEN {} ELSE {find_device(a, w)}
    BY DEF LookupExact
  <2>1. NoDevice \notin devices  BY SystemBusAssumption DEF IInv, TypeOK
  <2>. QED  BY <2>1, FindsHolder DEF IInv
<1>. QED  BY <1>1, InitIInv, NextIInv, PTL DEF Spec
-----------------------------------------------------------------------------
(* Refinement: the bus implements the LR/SC contract. *)

Block(a, w) == Footprint(a, w) \cap Cells

\* Every access reaches a block of the contract, and at least one cell.
LEMMA BlockFacts ==
  ASSUME NEW a \in Cells, NEW w \in Widths
  PROVE  /\ Block(a, w) \in AccessBlocks
         /\ Block(a, w) \in SUBSET Cells
         /\ a \in Block(a, w)
<1>1. w \in Nat \ {0} /\ a \in Int  BY SystemBusAssumption DEF Cells
<1>. QED  BY <1>1 DEF Block, AccessBlocks, Footprint

\* Valid cells are cells.
LEMMA ValidCellsType ==
  /\ [h \in Harts |-> ValidCells(h)] \in [Harts -> SUBSET Cells]
  /\ [h \in Harts |-> ValidCells(h)'] \in [Harts -> SUBSET Cells]
  BY DEF ValidCells

\* Steps that leave memory, reservations, epoch and results alone stutter.
LEMMA ContractStutter ==
  ASSUME UNCHANGED <<mem, reservations, write_epoch, succeeded>>
  PROVE  UNCHANGED Contract!vars
<1>1. \A h \in Harts : ValidCells(h)' = ValidCells(h)  BY DEF ValidCells
<1>. QED  BY <1>1 DEF Contract!vars

\* A counted write leaves no reservation valid.
LEMMA WriteEndsAll ==
  ASSUME IInv, write_epoch' = write_epoch + 1, NEW h,
         h \in DOMAIN reservations' =>
           h \in DOMAIN reservations /\ reservations'[h] = reservations[h]
  PROVE  ValidCells(h)' = {}
<1>1. h \in DOMAIN reservations =>
        reservations[h].write_epoch \in Nat /\ reservations[h].write_epoch <= write_epoch
  BY DEF IInv, TypeOK, Reservation, NoFutureReservation
<1>2. write_epoch \in Nat  BY DEF IInv, TypeOK
<1>. QED  BY <1>1, <1>2 DEF ValidCells

LEMMA ContractWrite ==
  ASSUME IInv, NEW a \in Cells, NEW w \in Widths, NEW v \in Values,
         NEW accepted \in BOOLEAN, write(a, w, v, accepted)
  PROVE  [Contract!Next]_(Contract!vars)
<1>1. CASE ~accepted
  BY <1>1, ContractStutter DEF write, WriteDevice
<1>2. CASE accepted
  <2>1. /\ mem' = Stored(a, w, v)
        /\ write_epoch' = write_epoch + 1
        /\ UNCHANGED <<reservations, succeeded>>
    BY <1>2 DEF write, WriteDevice
  <2>2. \A h \in Harts : ValidCells(h)' = {}  BY <2>1, WriteEndsAll
  <2>3. Contract!Stored(Block(a, w), v) = Stored(a, w, v)
    BY DEF Contract!Stored, Stored, Block
  <2>4. Contract!Store(Block(a, w), v)
    BY <2>1, <2>2, <2>3 DEF Contract!Store, Contract!Shrunk
  <2>. QED  BY <2>4, BlockFacts DEF Contract!Next
<1>. QED  BY <1>1, <1>2

LEMMA ContractLoadReserved ==
  ASSUME IInv, NEW h \in Harts, NEW a \in Cells, NEW w \in AtomicWidths,
         NEW accepted \in BOOLEAN, load_reserved(h, a, w, accepted)
  PROVE  [Contract!Next]_(Contract!vars)
<1>1. CASE ~accepted
  BY <1>1, ContractStutter DEF load_reserved
<1>2. CASE accepted
  <2> DEFINE r == [address |-> a, width |-> w, write_epoch |-> write_epoch]
  <2>1. /\ reservations' = [g \in DOMAIN reservations \cup {h} |->
                              IF g = h THEN r ELSE reservations[g]]
        /\ UNCHANGED <<mem, write_epoch, succeeded>>
    BY <1>2 DEF load_reserved
  <2>2. ValidCells(h)' = Block(a, w)  BY <2>1 DEF ValidCells, Block
  <2> HIDE DEF r
  <2>3. \A g \in Harts \ {h} : ValidCells(g)' = ValidCells(g)
    BY <2>1 DEF ValidCells
  <2>4. Contract!LoadReserved(h, Block(a, w))
    BY <2>1, <2>2, <2>3 DEF Contract!LoadReserved
  <2>5. w \in Widths  BY SystemBusAssumption
  <2>. QED  BY <2>4, <2>5, BlockFacts DEF Contract!Next
<1>. QED  BY <1>1, <1>2

LEMMA ContractStoreConditional ==
  ASSUME IInv, NEW h \in Harts, NEW a \in Cells, NEW w \in AtomicWidths, NEW v \in Values,
         NEW accepted \in BOOLEAN, store_conditional(h, a, w, v, accepted)
  PROVE  [Contract!Next]_(Contract!vars)
<1> DEFINE stores == find_device(a, w) # NoDevice /\ Matches(h, a, w)
<1>1. /\ reservations' = [g \in DOMAIN reservations \ {h} |-> reservations[g]]
      /\ succeeded' = [succeeded EXCEPT ![h] = stores /\ accepted]
      /\ IF stores THEN WriteDevice(find_device(a, w), a, w, v, accepted)
                   ELSE ~accepted /\ UNCHANGED <<mem, write_epoch>>
  BY DEF store_conditional
<1>2. w \in Widths  BY SystemBusAssumption
<1>3. ValidCells(h)' = {}  BY <1>1 DEF ValidCells
<1>4. CASE stores /\ accepted
  <2>1. /\ mem' = Stored(a, w, v)
        /\ write_epoch' = write_epoch + 1
        /\ succeeded' = [succeeded EXCEPT ![h] = TRUE]
    BY <1>1, <1>4 DEF WriteDevice
  <2>2. \A g \in Harts : ValidCells(g)' = {}  BY <1>1, <2>1, WriteEndsAll
  <2>3. ValidCells(h) = Block(a, w)
    BY <1>4 DEF Matches, ValidCells, Block
  <2>4. Contract!Stored(Block(a, w), v) = Stored(a, w, v)
    BY DEF Contract!Stored, Stored, Block
  <2>5. Block(a, w) # {}  BY <1>2, BlockFacts
  <2>6. Contract!StoreConditional(h, Block(a, w), v)
    BY <2>1, <2>2, <2>3, <2>4, <2>5 DEF Contract!StoreConditional, Contract!Shrunk
  <2>. QED  BY <1>2, <2>6, BlockFacts DEF Contract!Next
<1>5. CASE ~(stores /\ accepted)
  <2>1. UNCHANGED <<mem, write_epoch>> /\ succeeded' = [succeeded EXCEPT ![h] = FALSE]
    BY <1>1, <1>5 DEF WriteDevice
  <2>2. \A g \in Harts : ValidCells(g)' \in SUBSET ValidCells(g)
    BY <1>1, <2>1 DEF ValidCells
  <2>3. Contract!FailStoreConditional(h)
    BY <1>3, <2>1, <2>2, ValidCellsType DEF Contract!FailStoreConditional, Contract!Shrunk
  <2>. QED  BY <2>3 DEF Contract!Next
<1>. QED  BY <1>4, <1>5

LEMMA ContractClear ==
  ASSUME IInv, clear_reservations
  PROVE  [Contract!Next]_(Contract!vars)
<1>1. \A h \in Harts : ValidCells(h)' = {}
  BY DEF clear_reservations, NoReservations, ValidCells
<1>2. Contract!Lose
  BY <1>1 DEF clear_reservations, Contract!Lose, Contract!Shrunk
<1>. QED  BY <1>2 DEF Contract!Next

\* The bus implements the LR/SC contract (LrScContract): a store-conditional
\* that succeeds has seen no store to its cells since its load-reserved, by any
\* hart, walker or DMA device (system_bus.cpp:115-206, 274-338).
THEOREM ImplementsContract == Spec => LrScContract
<1>1. Init => Contract!Init
  <2> SUFFICES ASSUME Init PROVE Contract!Init  OBVIOUS
  <2>1. \A h \in Harts : ValidCells(h) = {}
    BY DEF Init, NoReservations, ValidCells
  <2>. QED  BY <2>1 DEF Init, Contract!Init
<1>2. IInv /\ [Next]_vars => [Contract!Next]_(Contract!vars)
  <2> SUFFICES ASSUME IInv, [Next]_vars PROVE [Contract!Next]_(Contract!vars)  OBVIOUS
  <2>1. ASSUME NEW d \in Devices, add_device(d)
        PROVE  [Contract!Next]_(Contract!vars)
    BY <2>1, ContractStutter DEF add_device
  <2>2. ASSUME NEW a \in Cells, NEW w \in Widths, read(a, w)
        PROVE  [Contract!Next]_(Contract!vars)
    BY <2>2, ContractStutter DEF read
  <2>3. ASSUME NEW a \in Cells, NEW w \in AtomicWidths, NEW v \in Values,
               NEW accepted \in BOOLEAN, atomic(a, w, v, accepted)
        PROVE  [Contract!Next]_(Contract!vars)
    <3>1. w \in Widths  BY SystemBusAssumption
    <3>. QED  BY <2>2, <2>3, <3>1, ContractWrite DEF atomic
  <2>4. CASE UNCHANGED vars  BY <2>4, ContractStutter DEF vars
  <2>. QED
    BY <2>1, <2>2, <2>3, <2>4, ContractWrite, ContractLoadReserved,
       ContractStoreConditional, ContractClear DEF Next
<1>. QED  BY <1>1, <1>2, InitIInv, NextIInv, PTL DEF Spec, LrScContract, Contract!Spec
=============================================================================
