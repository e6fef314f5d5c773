----------------------------- MODULE VirtioNet -----------------------------
(***************************************************************************)
(* The virtio network device (devices/src/virtio_net.cpp) between a guest  *)
(* driver and the slirp backend. A ring is the sequence of chains between  *)
(* two indices: VirtioBlock is about the indices themselves. A chain is a  *)
(* receive buffer, a frame to send, or one the device cannot use.          *)
(*                                                                         *)
(* Between two instructions of the guest the device runs one tick, here in *)
(* phases: poll the backend, collect its frames, transmit, receive.        *)
(***************************************************************************)
EXTENDS SlirpBackend

CONSTANTS
  QueueNum,      \* size of both queues
  MaxPending,    \* maximum_pending_frames (256)
  GuestFrames,   \* the frames the guest sends
  FaultSets,     \* per queue, the parts of guest memory the bus refuses
  Fit, Unfit, Spoilt

ASSUME NetAssumption ==
  /\ QueueNum \in Nat \ {0} /\ MaxPending \in Nat \ {0}
  /\ GuestFrames \subseteq FrameIds

Queues == {"rx", "tx"}

\* The DMA accesses that can fault: the available index and entries,
\* descriptors and buffers, the used ring.
DmaSites == {"avail", "chain", "used"}

ASSUME FaultAssumption == FaultSets \subseteq [Queues -> SUBSET DmaSites]

VARIABLES
  page_size,               \* guest_page_size_ is usable
  queue_select,
  registers,               \* per queue, whether its size, alignment and page frame are usable
  notification_pending,
  interrupt_status,
  pending_receive_frames,
  attached,                \* backend_ is set
  backend_tick_cycles,
  backend_poll_requested,
  phase, processed,        \* where tick is, and how many chains its loop has completed
  avail, used,             \* guest memory: chains available and used
  faults,
  driver,                  \* its phase, whether it owes a notification, whether it reaps
  wire                     \* history: the last frame given to the backend

setup == <<page_size, queue_select, registers>>
polling == <<attached, backend_tick_cycles, backend_poll_requested>>
loop == <<phase, processed>>
memory == <<avail, used, faults>>
vars == <<slirp, setup, notification_pending, interrupt_status, pending_receive_frames,
          polling, loop, memory, driver, wire>>

-----------------------------------------------------------------------------
(* Registers: instructions of the guest. *)

queue_configured(q) == page_size /\ registers[q]

\* The guest executes an instruction only after the tick that follows the last.
Guest == phase = "guest" /\ \A q \in Queues : ~notification_pending[q]

WritePageSize(usable) ==
  /\ Guest /\ driver.phase = "setup"
  /\ page_size' = usable
  /\ UNCHANGED <<slirp, queue_select, registers, notification_pending, interrupt_status,
                 pending_receive_frames, polling, loop, memory, driver, wire>>

WriteQueueSelect(q) ==
  /\ Guest /\ driver.phase = "setup"
  /\ queue_select' = q
  /\ UNCHANGED <<slirp, page_size, registers, notification_pending, interrupt_status,
                 pending_receive_frames, polling, loop, memory, driver, wire>>

\* Queue registers go to the selected queue, if it exists. Any of the three may
\* be the one that makes the queue usable or not.
WriteQueueRegister(usable) ==
  /\ Guest /\ driver.phase = "setup" /\ queue_select \in Queues
  /\ registers' = [registers EXCEPT ![queue_select] = usable]
  /\ UNCHANGED <<slirp, page_size, queue_select, notification_pending, interrupt_status,
                 pending_receive_frames, polling, loop, memory, driver, wire>>

WriteNotify(q) ==
  /\ Guest
  /\ driver.phase = "setup" \/ (q = "tx" /\ driver.owes) \/ q = "rx"
  /\ notification_pending' =
       [notification_pending EXCEPT ![q] = @ \/ queue_configured(q)]
  /\ driver' = [driver EXCEPT !.owes = @ /\ q # "tx"]
  /\ UNCHANGED <<slirp, setup, interrupt_status, pending_receive_frames, polling, loop,
                 memory, wire>>

WriteAck ==
  /\ Guest /\ interrupt_status = 1 /\ ~driver.reaping
  /\ interrupt_status' = 0
  /\ driver' = [driver EXCEPT !.reaping = TRUE]
  /\ UNCHANGED <<slirp, setup, notification_pending, pending_receive_frames, polling, loop,
                 memory, wire>>

Idle == [phase |-> "setup", owes |-> FALSE, reaping |-> FALSE]
Empty == [q \in Queues |-> <<>>]

\* A write of zero to the status register: reset() except for the page size.
WriteStatusZero ==
  /\ Guest
  /\ queue_select' = "rx" /\ registers' = [q \in Queues |-> FALSE]
  /\ notification_pending' = [q \in Queues |-> FALSE] /\ interrupt_status' = 0
  /\ pending_receive_frames' = <<>>
  /\ backend_tick_cycles' = 0 /\ backend_poll_requested' = attached
  /\ avail' = Empty /\ used' = Empty /\ driver' = Idle
  /\ UNCHANGED <<slirp, page_size, attached, loop, faults, wire>>

-----------------------------------------------------------------------------
(* The driver's other steps. *)

Start(f) ==
  /\ Guest /\ driver.phase = "setup" /\ \A q \in Queues : queue_configured(q)
  /\ faults' = f
  /\ driver' = [driver EXCEPT !.phase = "running"]
  /\ UNCHANGED <<slirp, setup, notification_pending, interrupt_status,
                 pending_receive_frames, polling, loop, avail, used, wire>>

Chains(q) == IF q = "rx" THEN {Fit, Unfit} ELSE GuestFrames \cup {Unfit}

Submit(q, chain) ==
  /\ Guest /\ driver.phase = "running"
  /\ Len(avail[q]) + Len(used[q]) < QueueNum
  /\ avail' = [avail EXCEPT ![q] = Append(@, chain)]
  /\ driver' = [driver EXCEPT !.owes = @ \/ q = "tx"]
  /\ UNCHANGED <<slirp, setup, notification_pending, interrupt_status,
                 pending_receive_frames, polling, loop, used, faults, wire>>

\* The handler takes used chains of both queues, and returns when there are none.
TakeUsed(q) ==
  /\ Guest /\ driver.reaping /\ used[q] # <<>>
  /\ used' = [used EXCEPT ![q] = Tail(@)]
  /\ UNCHANGED <<slirp, setup, notification_pending, interrupt_status,
                 pending_receive_frames, polling, loop, avail, faults, driver, wire>>

HandlerReturns ==
  /\ Guest /\ driver.reaping /\ used = Empty
  /\ driver' = [driver EXCEPT !.reaping = FALSE]
  /\ UNCHANGED <<slirp, setup, notification_pending, interrupt_status,
                 pending_receive_frames, polling, loop, memory, wire>>

-----------------------------------------------------------------------------
(* tick: collect_backend_frames. *)

\* Mutant: the receive queue is processed only when it was notified.
AfterCollectIfNotified ==
  /\ phase' = CASE notification_pending["tx"] -> "transmit"
                [] ~notification_pending["tx"] /\ notification_pending["rx"] -> "receive"
                [] OTHER -> "guest"
  /\ processed' = 0
  /\ notification_pending' = [q \in Queues |-> FALSE]

\* What follows the backend's frames: the transmit queue if it was notified.
AfterCollect ==
  /\ phase' = IF notification_pending["tx"] THEN "transmit" ELSE "receive"
  /\ processed' = 0
  /\ notification_pending' = [q \in Queues |-> FALSE]

BackendDue ==
  attached /\ (backend_poll_requested \/ backend_tick_cycles + 1 >= Interval)

tick ==
  /\ phase = "guest"
  /\ backend_poll_requested' = FALSE
  /\ \/ /\ BackendDue
        /\ backend_tick_cycles' = 0
        /\ \/ StartPoll(backend_tick_cycles + 1) /\ phase' = "poll"
           \/ CountCycles(backend_tick_cycles + 1) /\ phase' = "collect"
        /\ UNCHANGED <<processed, notification_pending>>
     \/ /\ ~BackendDue
        /\ backend_tick_cycles' = IF attached THEN backend_tick_cycles + 1
                                              ELSE backend_tick_cycles
        /\ AfterCollect
        /\ UNCHANGED slirp
  /\ UNCHANGED <<setup, interrupt_status, pending_receive_frames, attached, memory,
                 driver, wire>>

\* libslirp is polled, or takes a frame of the guest.
SlirpCalls ==
  /\ phase \in {"poll", "input"}
  /\ Callback
  /\ UNCHANGED <<setup, notification_pending, interrupt_status, pending_receive_frames,
                 polling, loop, memory, driver, wire>>

SlirpReturns ==
  /\ phase \in {"poll", "input"}
  /\ phase' = IF phase = "poll" THEN "collect" ELSE "transmit"
  /\ UNCHANGED <<slirp, setup, notification_pending, interrupt_status,
                 pending_receive_frames, polling, processed, memory, driver, wire>>

\* Mutant: frames are fetched whether or not there is room.
RoomAlways == received_frames # <<>>

Room == received_frames # <<>> /\ Len(pending_receive_frames) < MaxPending

Collect ==
  /\ phase = "collect" /\ Room
  /\ receive_frame
  /\ pending_receive_frames' =
       Append(pending_receive_frames, Head(received_frames))
  /\ UNCHANGED <<setup, notification_pending, interrupt_status, polling, loop, memory,
                 driver, wire>>

CollectEnds ==
  /\ phase = "collect" /\ ~Room
  /\ AfterCollect
  /\ UNCHANGED <<slirp, setup, interrupt_status, pending_receive_frames, polling, memory,
                 driver, wire>>

-----------------------------------------------------------------------------
(* tick: the two queues. *)

\* There is one more chain that the loop over a queue takes.
More(q) ==
  /\ queue_configured(q)
  /\ processed < QueueNum
  /\ "avail" \notin faults[q]
  /\ avail[q] # <<>>

\* Mutant: the chain is put back on the used ring but no interrupt is raised.
complete_chainSilent(q, result) ==
  \/ /\ "used" \notin faults[q]
     /\ avail' = [avail EXCEPT ![q] = Tail(@)]
     /\ used' = [used EXCEPT ![q] = Append(@, result)]
     /\ processed' = processed + 1
     /\ UNCHANGED interrupt_status
  \/ /\ "used" \in faults[q]
     /\ processed' = QueueNum
     /\ UNCHANGED <<avail, used, interrupt_status>>

\* The chain goes to the used ring; if that fails the loop ends.
complete_chain(q, result) ==
  \/ /\ "used" \notin faults[q]
     /\ avail' = [avail EXCEPT ![q] = Tail(@)]
     /\ used' = [used EXCEPT ![q] = Append(@, result)]
     /\ processed' = processed + 1
     /\ interrupt_status' = 1
  \/ /\ "used" \in faults[q]
     /\ processed' = QueueNum
     /\ UNCHANGED <<avail, used, interrupt_status>>

Usable(q) == Head(avail[q]) # Unfit /\ "chain" \notin faults[q]

\* process_transmit_queue: the frame is sent before its chain is completed.
Transmit ==
  /\ phase = "transmit" /\ More("tx")
  /\ \/ /\ Usable("tx") /\ attached
        /\ wire' = [frame |-> Head(avail["tx"]), bit |-> 1 - wire.bit]
        /\ FrameSent
        /\ phase' = "input"
     \/ /\ ~(Usable("tx") /\ attached)
        /\ UNCHANGED <<slirp, wire, phase>>
  /\ complete_chain("tx", Spoilt)
  /\ UNCHANGED <<setup, notification_pending, pending_receive_frames, polling, faults, driver>>

TransmitEnds ==
  /\ phase = "transmit" /\ ~More("tx")
  /\ phase' = "receive" /\ processed' = 0
  /\ backend_poll_requested' = attached
  /\ UNCHANGED <<slirp, setup, notification_pending, interrupt_status,
                 pending_receive_frames, attached, backend_tick_cycles, memory, driver, wire>>

ReceiveMore == pending_receive_frames # <<>> /\ More("rx")

\* process_receive_queue: the frame leaves the buffer whatever its chain came to.
Receive ==
  /\ phase = "receive" /\ ReceiveMore
  /\ complete_chain("rx", IF Usable("rx") THEN Head(pending_receive_frames) ELSE Spoilt)
  /\ pending_receive_frames' = Tail(pending_receive_frames)
  /\ UNCHANGED <<slirp, setup, notification_pending, polling, phase, faults, driver, wire>>

ReceiveEnds ==
  /\ phase = "receive" /\ ~ReceiveMore
  /\ phase' = "guest" /\ processed' = 0
  /\ UNCHANGED <<slirp, setup, notification_pending, interrupt_status,
                 pending_receive_frames, polling, memory, driver, wire>>

-----------------------------------------------------------------------------

Init ==
  /\ SlirpInit
  /\ page_size = FALSE /\ queue_select = "rx" /\ registers = [q \in Queues |-> FALSE]
  /\ notification_pending = [q \in Queues |-> FALSE] /\ interrupt_status = 0
  /\ pending_receive_frames = <<>>
  /\ attached \in BOOLEAN /\ backend_tick_cycles = 0 /\ backend_poll_requested = attached
  /\ phase = "guest" /\ processed = 0
  /\ avail = Empty /\ used = Empty /\ faults = [q \in Queues |-> {}]
  /\ driver = Idle /\ wire = [frame |-> 0, bit |-> 0]

Driver ==
  \/ \E usable \in BOOLEAN : WritePageSize(usable) \/ WriteQueueRegister(usable)
  \/ \E q \in Queues \cup {"other"} : WriteQueueSelect(q)
  \/ \E q \in Queues : WriteNotify(q) \/ TakeUsed(q)
  \/ WriteAck \/ WriteStatusZero \/ HandlerReturns
  \/ \E f \in FaultSets : Start(f)
  \/ \E q \in Queues : \E chain \in Chains(q) : Submit(q, chain)

Device ==
  \/ tick \/ SlirpReturns \/ Collect \/ CollectEnds
  \/ Transmit \/ TransmitEnds \/ Receive \/ ReceiveEnds

Next == Driver \/ Device \/ SlirpCalls

\* Every step of the machine ticks the device, and libslirp returns.
Fairness == WF_vars(Device)

Spec == Init /\ [][Next]_vars /\ Fairness

-----------------------------------------------------------------------------
(* Properties. *)

\* The frame buffers of device and backend stay within their limits, no loop
\* completes more chains than its queue has, and what is on a ring belongs there.
TypeOK ==
  /\ received_frames \in Seq(FrameIds) /\ Len(received_frames) <= MaxQueued
  /\ offered \in FrameIds
  /\ pending_receive_frames \in Seq(FrameIds) /\ Len(pending_receive_frames) <= MaxPending
  /\ poll_requested \in BOOLEAN /\ accumulated_cycles \in 0 .. Interval - 1
  /\ backend_tick_cycles \in 0 .. Interval - 1 /\ backend_poll_requested \in BOOLEAN
  /\ phase \in {"guest", "poll", "collect", "transmit", "input", "receive"}
  /\ processed \in 0 .. QueueNum /\ interrupt_status \in {0, 1}
  /\ page_size \in BOOLEAN /\ queue_select \in Queues \cup {"other"}
  /\ registers \in [Queues -> BOOLEAN]
  /\ attached \in BOOLEAN /\ notification_pending \in [Queues -> BOOLEAN]
  /\ avail \in [Queues -> Seq({Fit, Unfit} \cup GuestFrames)]
  /\ \A q \in Queues : avail[q] \in Seq(Chains(q))
  /\ used \in [Queues -> Seq(FrameIds \cup {Spoilt})]
  /\ faults \in [Queues -> SUBSET DmaSites]
  /\ driver \in [phase : {"setup", "running"}, owes : BOOLEAN, reaping : BOOLEAN]
  /\ wire \in [frame : FrameIds, bit : {0, 1}]

\* A used chain that the driver has not taken back has the interrupt raised or
\* the handler running, and a frame to send waits only for a notification that
\* the driver owes or the device has, if the bus reaches the rings.
NothingStranded ==
  /\ used # Empty => interrupt_status = 1 \/ driver.reaping
  /\ (avail["tx"] # <<>> /\ faults["tx"] \cap {"avail", "used"} = {})
       => driver.owes \/ notification_pending["tx"] \/ phase \notin {"guest", "receive"}

\* The frames that wait for the guest: the backend's come after the device's.
Inbound == pending_receive_frames \o received_frames

Broken == \E q \in Queues : faults[q] # {}

Channel == INSTANCE FrameChannel WITH
  Frames <- FrameIds, Bound <- MaxQueued, inbound <- Inbound,
  posted <- avail["rx"], filled <- used["rx"], outbound <- avail["tx"],
  link <- attached, broken <- Broken

\* The device keeps the promise of a network card: order, no duplicate, and no
\* frame lost but for a full backend queue, an unfit buffer or a reset.
ChannelSpec == Channel!Spec

\* A frame from the host and a posted buffer do not wait side by side: whether or
\* not the driver notifies the device, a buffer comes back used.
FramesArrive ==
  (Inbound # <<>> /\ avail["rx"] # <<>>)
    ~> (used["rx"] # <<>> \/ driver.phase = "setup" \/ faults["rx"] # {})
=============================================================================
