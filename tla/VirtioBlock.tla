---------------------------- MODULE VirtioBlock ----------------------------
(***************************************************************************)
(* The virtio block device (devices/src/virtio_block.cpp) with its storage *)
(* (devices/src/block_storage.cpp) and the driver that shares the ring.    *)
(*                                                                         *)
(* Machine::step ticks the devices before every instruction, so an         *)
(* instruction of the guest never meets a pending notification: what the   *)
(* device has to do it does first. A data descriptor carries one sector.   *)
(***************************************************************************)
EXTENDS VirtioRing, Sequences

CONSTANTS
  SectorCount,   \* capacity of the storage
  Data,          \* contents of a sector
  Chains,        \* the descriptor chains the driver submits
  FaultSets,     \* which parts of guest memory the bus refuses
  Malformed,     \* a chain that process_request rejects before it acts
  None

Sectors == 0 .. SectorCount - 1

\* A well-formed chain: header, data descriptors, status byte.
Descriptors == [write : BOOLEAN, value : Data]

ASSUME BlockAssumption ==
  /\ SectorCount \in Nat \ {0}
  /\ \A c \in Chains \ {Malformed} :
       /\ c.type \in {"read", "write", "other"}
       /\ c.sector \in Nat
       /\ c.data \in Seq(Descriptors)

\* The DMA accesses that can fault: reads of the available index and entries,
\* data buffers, the status byte, used elements and the used index.
DmaSites == {"avail_idx", "avail", "data", "status", "used", "used_idx"}

\* The host's file under the storage can fail too.
FaultSites == DmaSites \cup {"storage"}

ASSUME FaultAssumption == FaultSets \subseteq SUBSET FaultSites

\* What process_queue keeps between two chains.
Services == [until : Indices, processed : 0 .. QueueNum]

ASSUME NoneAssumption == None \notin Services

VARIABLES
  registers,            \* guest_page_size_, queue_select_, queue_num_, queue_align_, queue_pfn_:
                        \* the ones that hold a usable value
  last_available_index, \* device
  used_index,
  notification_pending,
  interrupt_status,
  serving,              \* None, or the available index that process_queue read and
                        \* how many chains it has processed
  disk, disk_dirty,     \* the storage
  saved,                \* what the host has after the last flush
  ring, chains,         \* guest memory: the rings and the chain of each head
  faults,               \* guest memory that the bus refuses, and a storage that fails
  driver                \* the driver: its phase, heads it has in flight, whether it owes a
                        \* notification, whether its handler is taking used heads back

device == <<last_available_index, used_index, notification_pending, interrupt_status, serving>>
storage == <<disk, disk_dirty, saved>>
vars == <<registers, device, storage, ring, chains, faults, driver>>

-----------------------------------------------------------------------------
(* Registers. *)

QueueRegisters == {"page_size", "select", "num", "align", "pfn"}

queue_configured == registers = QueueRegisters

\* Between two steps of the guest the device is done.
Quiet == ~notification_pending /\ serving = None

\* A write of one of the queue's registers, usable or not (select: zero or
\* not). The ring addresses follow from the registers. The driver makes them
\* while it sets the queue up.
WriteQueueRegister(r, usable) ==
  /\ Quiet /\ driver.phase = "setup"
  /\ registers' = IF usable THEN registers \cup {r} ELSE registers \ {r}
  /\ UNCHANGED <<device, storage, ring, chains, faults, driver>>

\* The driver notifies what it has submitted. During setup a notification is
\* rejected until the queue is configured.
WriteNotify ==
  /\ Quiet /\ (driver.owes \/ driver.phase = "setup")
  /\ notification_pending' = queue_configured
  /\ driver' = [driver EXCEPT !.owes = FALSE]
  /\ UNCHANGED <<registers, last_available_index, used_index, interrupt_status, serving,
                 storage, ring, chains, faults>>

\* The handler acknowledges first and then takes the used heads back.
WriteAck ==
  /\ Quiet /\ interrupt_status = 1 /\ ~driver.reaping
  /\ interrupt_status' = 0
  /\ driver' = [driver EXCEPT !.reaping = TRUE]
  /\ UNCHANGED <<registers, last_available_index, used_index, notification_pending, serving,
                 storage, ring, chains, faults>>

Idle == [phase |-> "setup", flight |-> {}, owes |-> FALSE, reaping |-> FALSE]

\* Mutant: a status reset keeps the device's indices.
WriteStatusZeroKeepsIndices ==
  /\ Quiet
  /\ registers' = (registers \cap {"page_size"}) \cup {"select", "align"}
  /\ notification_pending' = FALSE /\ interrupt_status' = 0 /\ serving' = None
  /\ ring' = EmptyRing /\ driver' = Idle
  /\ UNCHANGED <<last_available_index, used_index, storage, chains, faults>>

\* A write of zero to the status register: reset() except for the page size.
\* The driver starts over with cleared rings.
WriteStatusZero ==
  /\ Quiet
  /\ registers' = (registers \cap {"page_size"}) \cup {"select", "align"}
  /\ last_available_index' = 0 /\ used_index' = 0
  /\ notification_pending' = FALSE /\ interrupt_status' = 0 /\ serving' = None
  /\ ring' = EmptyRing /\ driver' = Idle
  /\ UNCHANGED <<storage, chains, faults>>

-----------------------------------------------------------------------------
(* The driver's other steps. *)

\* The driver has written its registers, pointing the queue somewhere.
Start(f) ==
  /\ Quiet /\ driver.phase = "setup" /\ queue_configured
  /\ faults' = f
  /\ driver' = [driver EXCEPT !.phase = "running"]
  /\ UNCHANGED <<registers, device, storage, ring, chains>>

Submit(head, chain) ==
  /\ Quiet /\ driver.phase = "running"
  /\ head \notin driver.flight
  /\ chains' = [chains EXCEPT ![head] = chain]
  /\ ring' = Publish(ring, head)
  /\ driver' = [driver EXCEPT !.flight = @ \cup {head}, !.owes = TRUE]
  /\ UNCHANGED <<registers, device, storage, faults>>

\* The handler takes a head back, or finds no more and returns.
TakeUsed ==
  /\ Quiet /\ driver.reaping
  /\ IF Unseen(ring)
     THEN /\ ring' = Reap(ring)
          /\ driver' = [driver EXCEPT !.flight = @ \ {NextUsed(ring)}]
     ELSE /\ driver' = [driver EXCEPT !.reaping = FALSE]
          /\ UNCHANGED ring
  /\ UNCHANGED <<registers, device, storage, chains, faults>>

-----------------------------------------------------------------------------
(* process_request: what one chain does to the storage. *)

\* The transfer of the i-th data descriptor goes through: sector within the
\* storage, direction as the request says, buffer reachable, and the storage
\* itself reads or writes. A write that it fails leaves the sector as it was.
Transfers(c, i) ==
  /\ c.type \in {"read", "write"}
  /\ c.sector + i - 1 < SectorCount
  /\ c.data[i].write = (c.type = "read")
  /\ "data" \notin faults /\ "storage" \notin faults

\* The transfer loop stops at the first descriptor that fails.
Done(c) == {i \in DOMAIN c.data : \A k \in 1 .. i : Transfers(c, k)}

\* Later descriptors of a chain go to later sectors.
Stored(c) ==
  [s \in Sectors |->
     IF /\ c # Malformed /\ c.type = "write"
        /\ \E i \in Done(c) : s = c.sector + i - 1
     THEN c.data[s - c.sector + 1].value
     ELSE disk[s]]

\* Mutant: only a request that succeeds as a whole marks the storage dirty.
process_requestDirtyAtEnd(c) ==
  /\ disk' = Stored(c)
  /\ disk_dirty' = (disk_dirty \/ (c # Malformed /\ c.type = "write"
                                     /\ Done(c) = DOMAIN c.data))
  /\ UNCHANGED saved

process_request(c) ==
  /\ disk' = Stored(c)
  /\ disk_dirty' = (disk_dirty \/ (c # Malformed /\ c.type = "write" /\ Done(c) # {}))
  /\ UNCHANGED saved

-----------------------------------------------------------------------------
(* tick and process_queue. *)

\* Mutant: a new notification drops the interrupt of earlier requests.
tickClearsInterrupt ==
  /\ notification_pending
  /\ notification_pending' = FALSE /\ interrupt_status' = 0
  /\ serving' = IF queue_configured /\ "avail_idx" \notin faults
                THEN [until |-> ring.avail_idx, processed |-> 0]
                ELSE None
  /\ UNCHANGED <<registers, last_available_index, used_index,
                 storage, ring, chains, faults, driver>>

\* The device starts on a notification.
tick ==
  /\ notification_pending
  /\ notification_pending' = FALSE
  /\ serving' = IF queue_configured /\ "avail_idx" \notin faults
                THEN [until |-> ring.avail_idx, processed |-> 0]
                ELSE None
  /\ UNCHANGED <<registers, last_available_index, used_index, interrupt_status,
                 storage, ring, chains, faults, driver>>

\* Mutant: one request fewer than the queue holds.
MoreOneShort ==
  /\ serving # None
  /\ last_available_index # serving.until
  /\ serving.processed + 1 < QueueNum
  /\ "avail" \notin faults

More ==
  /\ serving # None
  /\ last_available_index # serving.until
  /\ serving.processed < QueueNum
  /\ "avail" \notin faults

\* The loop ends: everything available is served, or an entry is unreadable.
Finish ==
  /\ serving # None /\ ~More
  /\ serving' = None
  /\ UNCHANGED <<registers, last_available_index, used_index, notification_pending,
                 interrupt_status, storage, ring, chains, faults, driver>>

\* Mutant: an index wider than sixteen bits.
AdvanceUnwrapped(i) == i + 1

Advance(i) == Next16(i)

CurrentHead == ring.avail[last_available_index % QueueNum]

\* The loop body. Whatever the request came to, it is put in the used ring.
Serve ==
  /\ More
  /\ process_request(chains[CurrentHead])
  /\ UNCHANGED <<registers, notification_pending, chains, faults, driver>>
  /\ \/ /\ "used" \in faults
        /\ serving' = None
        /\ UNCHANGED <<last_available_index, used_index, interrupt_status, ring>>
     \/ /\ "used" \notin faults /\ "used_idx" \in faults
        /\ ring' = [ring EXCEPT !.used[used_index % QueueNum] = CurrentHead]
        /\ used_index' = Advance(used_index)
        /\ serving' = None
        /\ UNCHANGED <<last_available_index, interrupt_status>>
     \/ /\ faults \cap {"used", "used_idx"} = {}
        /\ used_index' = Advance(used_index)
        /\ ring' = [ring EXCEPT !.used[used_index % QueueNum] = CurrentHead,
                                !.used_idx = used_index']
        /\ last_available_index' = Advance(last_available_index)
        /\ serving' = [serving EXCEPT !.processed = @ + 1]
        /\ interrupt_status' = 1

\* The host flushes the storage if it is dirty; a flush that fails changes nothing.
SaveDisk ==
  /\ Quiet /\ disk_dirty
  /\ saved' = disk /\ disk_dirty' = FALSE
  /\ UNCHANGED <<registers, device, disk, ring, chains, faults, driver>>

-----------------------------------------------------------------------------

Init ==
  /\ registers = {"select", "align"}
  /\ last_available_index = 0 /\ used_index = 0
  /\ notification_pending = FALSE /\ interrupt_status = 0 /\ serving = None
  /\ disk \in [Sectors -> Data] /\ disk_dirty = FALSE /\ saved = disk
  /\ ring = EmptyRing /\ chains = [h \in Heads |-> Malformed]
  /\ faults = {} /\ driver = Idle

Driver ==
  \/ \E r \in QueueRegisters, usable \in BOOLEAN : WriteQueueRegister(r, usable)
  \/ WriteNotify \/ WriteAck \/ WriteStatusZero
  \/ \E f \in FaultSets : Start(f)
  \/ \E head \in Heads, chain \in Chains : Submit(head, chain)
  \/ TakeUsed

Device == tick \/ Serve \/ Finish

Next == Driver \/ Device \/ SaveDisk

\* The device works in every step of the machine; the driver notifies what it
\* has submitted and its handler runs and returns.
Fairness ==
  /\ WF_vars(Device)
  /\ WF_vars(driver.owes /\ WriteNotify) /\ WF_vars(WriteAck) /\ WF_vars(TakeUsed)

Spec == Init /\ [][Next]_vars /\ Fairness

-----------------------------------------------------------------------------
(* Properties. *)

\* Registers and indices keep their width, the loop never serves more chains
\* than the queue has, and the driver has no more heads in flight than it.
TypeOK ==
  /\ registers \subseteq QueueRegisters
  /\ last_available_index \in Indices /\ used_index \in Indices
  /\ notification_pending \in BOOLEAN /\ interrupt_status \in {0, 1}
  /\ serving = None \/ serving \in Services
  /\ disk \in [Sectors -> Data] /\ disk_dirty \in BOOLEAN /\ saved \in [Sectors -> Data]
  /\ ring \in Rings /\ chains \in [Heads -> Chains \cup {Malformed}]
  /\ faults \in FaultSets \cup {{}}
  /\ driver \in [phase : {"setup", "running"}, flight : SUBSET Heads,
                  owes : BOOLEAN, reaping : BOOLEAN]

RingFaults == faults \ {"data", "status", "storage"}

\* No request is stranded and no completion goes unheard, unless the bus refuses
\* the rings themselves: an available chain waits for a notification the driver
\* still owes or the device is at it, and a used head the driver has not taken
\* back has the interrupt raised or the handler running.
NothingStranded ==
  RingFaults = {} =>
    /\ last_available_index # ring.avail_idx
         => driver.owes \/ notification_pending \/ serving # None
    /\ Unseen(ring) => interrupt_status = 1 \/ driver.reaping

\* What the host saved is what the guest wrote unless the storage is marked
\* dirty: also after requests that failed half way.
CleanDiskIsSaved == ~disk_dirty => saved = disk

\* The heads between two indices of a ring.
HeadsFrom(slots, i, j) ==
  [k \in 1 .. Distance(i, j) |-> slots[(i + k - 1) % QueueNum]]

\* The requests the device has not served, and the heads the driver has not taken back.
Pending ==
  LET heads == HeadsFrom(ring.avail, last_available_index, ring.avail_idx)
  IN  [k \in DOMAIN heads |-> [head |-> heads[k], chain |-> chains[heads[k]]]]

Finished == HeadsFrom(ring.used, ring.last_used, ring.used_idx)

\* What the device promises, over the requests themselves.
Requests == INSTANCE BlockRequests WITH
  pending <- Pending, finished <- Finished, broken <- faults # {}

\* The device implements that promise: requests complete in order, once each,
\* and a sound request on reachable memory is executed as a whole.
RequestSpec == Requests!Spec

\* Every submitted request comes back to the driver, if the bus reaches the rings.
RequestsReturn ==
  \A h \in Heads :
    (h \in driver.flight /\ RingFaults = {}) ~> (h \notin driver.flight)
=============================================================================
