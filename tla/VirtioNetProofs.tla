-------------------------- MODULE VirtioNetProofs --------------------------
(***************************************************************************)
(* Proofs about the network device: its buffers stay within their limits,  *)
(* no frame and no completion is stranded, and the phases of a tick, with  *)
(* the backend, implement the channel of a network card.                   *)
(***************************************************************************)
EXTENDS VirtioNet, SequenceTheorems, TLAPS

-----------------------------------------------------------------------------
(* Two queues end to end. *)

\* The first element of the front queue is the first of both.
LEMMA ConcatTail ==
  ASSUME NEW S, NEW a \in Seq(S), NEW b \in Seq(S), a # <<>>
  PROVE  a \o b # <<>> /\ Head(a \o b) = Head(a) /\ Tail(a \o b) = Tail(a) \o b
  OBVIOUS

\* An element added to the rear queue is the last of both.
LEMMA ConcatAppend ==
  ASSUME NEW S, NEW a \in Seq(S), NEW b \in Seq(S), NEW e \in S
  PROVE  a \o Append(b, e) = Append(a \o b, e)
  OBVIOUS

\* An element that moves from the rear queue to the front one keeps its place.
LEMMA ConcatMove ==
  ASSUME NEW S, NEW a \in Seq(S), NEW b \in Seq(S), b # <<>>
  PROVE  Append(a, Head(b)) \o Tail(b) = a \o b
  OBVIOUS

\* What is left when the front queue is dropped.
LEMMA ConcatDrop ==
  ASSUME NEW S, NEW a \in Seq(S), NEW b \in Seq(S)
  PROVE  /\ Len(a) \in 0 .. Len(a \o b)
         /\ SubSeq(a \o b, Len(a) + 1, Len(a \o b)) = b
  OBVIOUS

-----------------------------------------------------------------------------
(* Types. *)

Drivers == [phase : {"setup", "running"}, owes : BOOLEAN, reaping : BOOLEAN]
Posted == {Fit, Unfit} \cup GuestFrames
Filled == FrameIds \cup {Spoilt}

\* The parts of TypeOK that the steps touch together.
FrameType ==
  /\ received_frames \in Seq(FrameIds) /\ Len(received_frames) <= MaxQueued
  /\ pending_receive_frames \in Seq(FrameIds) /\ Len(pending_receive_frames) <= MaxPending
  /\ offered \in FrameIds
PollType ==
  /\ poll_requested \in BOOLEAN /\ accumulated_cycles \in 0 .. Interval - 1
  /\ backend_tick_cycles \in 0 .. Interval - 1 /\ backend_poll_requested \in BOOLEAN
  /\ attached \in BOOLEAN
LoopType ==
  /\ phase \in {"guest", "poll", "collect", "transmit", "input", "receive"}
  /\ processed \in 0 .. QueueNum /\ interrupt_status \in {0, 1}
  /\ notification_pending \in [Queues -> BOOLEAN]
SetupType ==
  /\ page_size \in BOOLEAN /\ queue_select \in Queues \cup {"other"}
  /\ registers \in [Queues -> BOOLEAN]
MemoryType ==
  /\ avail \in [Queues -> Seq(Posted)] /\ \A q \in Queues : avail[q] \in Seq(Chains(q))
  /\ used \in [Queues -> Seq(Filled)]
  /\ faults \in [Queues -> SUBSET DmaSites]
WireType == wire \in [frame : FrameIds, bit : {0, 1}]

LEMMA TypeParts ==
  TypeOK <=> /\ FrameType /\ PollType /\ LoopType /\ SetupType /\ MemoryType
             /\ driver \in Drivers /\ WireType
  BY DEF TypeOK, FrameType, PollType, LoopType, SetupType, MemoryType, WireType,
         Drivers, Posted, Filled

LEMMA EmptyIs ==
  /\ Empty \in [Queues -> Seq(Posted)] /\ \A q \in Queues : Empty[q] \in Seq(Chains(q))
  /\ Empty \in [Queues -> Seq(Filled)]
  /\ Empty["rx"] = <<>> /\ Empty["tx"] = <<>> /\ \A q \in Queues : Len(Empty[q]) = 0
<1>1. <<>> \in Seq(Posted) /\ <<>> \in Seq(Filled) /\ \A q \in Queues : <<>> \in Seq(Chains(q))
  OBVIOUS
<1>. QED  BY <1>1 DEF Empty, Queues

LEMMA IdleIs ==
  Idle \in Drivers /\ Idle.phase = "setup" /\ ~Idle.owes /\ ~Idle.reaping
  BY DEF Idle, Drivers

LEMMA InitType == Init => TypeOK
<1>1. SUFFICES ASSUME Init PROVE TypeOK  OBVIOUS
<1>2. FrameType
  <2>1. 0 \in FrameIds /\ MaxQueued \in Nat /\ MaxPending \in Nat
    BY SlirpAssumption, NetAssumption DEF FrameIds
  <2>. QED  BY <1>1, <2>1 DEF Init, SlirpInit, FrameType
<1>3. PollType  BY <1>1, SlirpAssumption DEF Init, SlirpInit, PollType
<1>4. LoopType  BY <1>1, NetAssumption DEF Init, LoopType
<1>5. SetupType  BY <1>1 DEF Init, SetupType, Queues
<1>6. MemoryType  BY <1>1, EmptyIs DEF Init, MemoryType
<1>7. driver \in Drivers  BY <1>1, IdleIs DEF Init
<1>8. WireType
  <2>1. 0 \in FrameIds  BY SlirpAssumption DEF FrameIds
  <2>. QED  BY <1>1, <2>1 DEF Init, WireType
<1>. QED  BY <1>2, <1>3, <1>4, <1>5, <1>6, <1>7, <1>8, TypeParts

\* What completing a chain does to the rings and to the loop.
LEMMA CompleteType ==
  ASSUME MemoryType, LoopType, NEW q \in Queues, More(q), NEW result \in Filled,
         complete_chain(q, result)
  PROVE  /\ avail' \in [Queues -> Seq(Posted)] /\ \A k \in Queues : avail'[k] \in Seq(Chains(k))
         /\ used' \in [Queues -> Seq(Filled)]
         /\ processed' \in 0 .. QueueNum /\ interrupt_status' \in {0, 1}
<1>1. processed \in 0 .. QueueNum /\ processed < QueueNum /\ QueueNum \in Nat
  BY NetAssumption DEF LoopType, More
<1>2. CASE "used" \in faults[q]
  BY <1>1, <1>2 DEF complete_chain, MemoryType, LoopType
<1>3. CASE "used" \notin faults[q]
  <2>1. /\ avail' = [avail EXCEPT ![q] = Tail(@)] /\ used' = [used EXCEPT ![q] = Append(@, result)]
        /\ processed' = processed + 1 /\ interrupt_status' = 1
    BY <1>3 DEF complete_chain
  <2>2. avail[q] \in Seq(Posted) /\ avail[q] # <<>> /\ used[q] \in Seq(Filled)
    BY DEF MemoryType, More
  <2>3. Tail(avail[q]) \in Seq(Posted) /\ Append(used[q], result) \in Seq(Filled)  BY <2>2
  <2>4. avail' \in [Queues -> Seq(Posted)] /\ used' \in [Queues -> Seq(Filled)]
    BY <2>1, <2>3 DEF MemoryType
  <2>5. ASSUME NEW k \in Queues PROVE avail'[k] \in Seq(Chains(k))
    <3>1. avail[k] \in Seq(Chains(k))  BY DEF MemoryType
    <3>2. q = k => Tail(avail[k]) \in Seq(Chains(k))  BY <2>2, <3>1
    <3>3. avail'[k] = IF q = k THEN Tail(avail[k]) ELSE avail[k]  BY <2>1 DEF MemoryType
    <3>. QED  BY <3>1, <3>2, <3>3
  <2>. QED  BY <1>1, <2>1, <2>4, <2>5
<1>. QED  BY <1>2, <1>3

LEMMA AfterCollectType ==
  ASSUME LoopType, AfterCollect, interrupt_status' = interrupt_status
  PROVE  LoopType'
  BY NetAssumption DEF LoopType, AfterCollect, Queues

LEMMA NextType ==
  ASSUME TypeOK, [Next]_vars
  PROVE  TypeOK'
<1>1. FrameType /\ PollType /\ LoopType /\ SetupType /\ MemoryType /\ driver \in Drivers /\ WireType
  BY TypeParts
<1> DEFINE All == FrameType /\ PollType /\ LoopType /\ SetupType /\ MemoryType
                  /\ driver \in Drivers /\ WireType
<1>0. SUFFICES All'
  <2>1. All' => TypeOK'  BY TypeParts, PTL
  <2>. QED  BY <2>1
<1> USE DEF All
<1>2. ASSUME NEW usable \in BOOLEAN, WritePageSize(usable) PROVE All'
  BY <1>1, <1>2 DEF WritePageSize, FrameType, PollType, LoopType, SetupType, MemoryType, WireType,
                    slirp, polling, loop, memory
<1>3. ASSUME NEW q \in Queues \cup {"other"}, WriteQueueSelect(q) PROVE All'
  BY <1>1, <1>3 DEF WriteQueueSelect, FrameType, PollType, LoopType, SetupType, MemoryType,
                    WireType, slirp, polling, loop, memory
<1>4. ASSUME NEW usable \in BOOLEAN, WriteQueueRegister(usable) PROVE All'
  BY <1>1, <1>4 DEF WriteQueueRegister, FrameType, PollType, LoopType, SetupType, MemoryType,
                    WireType, slirp, polling, loop, memory
<1>5. ASSUME NEW q \in Queues, WriteNotify(q) PROVE All'
  <2>1. driver' \in Drivers
    BY <1>1, <1>5 DEF WriteNotify, Drivers
  <2>2. LoopType'
    <3>1. (notification_pending[q] \/ queue_configured(q)) \in BOOLEAN  OBVIOUS
    <3>. QED  BY <1>1, <1>5, <3>1 DEF WriteNotify, LoopType, loop
  <2>. QED  BY <1>1, <1>5, <2>1, <2>2 DEF WriteNotify, FrameType, PollType, SetupType, MemoryType,
                    WireType, slirp, setup, polling, memory
<1>6. CASE WriteAck
  <2>1. driver' \in Drivers  BY <1>1, <1>6 DEF WriteAck, Drivers
  <2>. QED  BY <1>1, <1>6, <2>1 DEF WriteAck, FrameType, PollType, LoopType, SetupType,
                    MemoryType, WireType, slirp, setup, polling, loop, memory
<1>7. CASE WriteStatusZero
  <2>1. FrameType'
    <3>1. <<>> \in Seq(FrameIds) /\ Len(<<>>) <= MaxPending  BY NetAssumption
    <3>. QED  BY <1>1, <1>7, <3>1 DEF WriteStatusZero, FrameType, slirp
  <2>2. PollType'  BY <1>1, <1>7, SlirpAssumption DEF WriteStatusZero, PollType, slirp
  <2>3. LoopType'  BY <1>1, <1>7 DEF WriteStatusZero, LoopType, loop
  <2>4. SetupType'  BY <1>1, <1>7 DEF WriteStatusZero, SetupType, Queues
  <2>5. MemoryType'  BY <1>1, <1>7, EmptyIs DEF WriteStatusZero, MemoryType
  <2>. QED  BY <1>1, <1>7, <2>1, <2>2, <2>3, <2>4, <2>5, IdleIs DEF WriteStatusZero, WireType
<1>8. ASSUME NEW f \in FaultSets, Start(f) PROVE All'
  <2>1. driver' \in Drivers  BY <1>1, <1>8 DEF Start, Drivers
  <2>2. MemoryType'  BY <1>1, <1>8, FaultAssumption DEF Start, MemoryType
  <2>. QED  BY <1>1, <1>8, <2>1, <2>2 DEF Start, FrameType, PollType, LoopType, SetupType,
                    WireType, slirp, setup, polling, loop
<1>9. ASSUME NEW q \in Queues, NEW chain \in Chains(q), Submit(q, chain) PROVE All'
  <2>1. driver' \in Drivers  BY <1>1, <1>9 DEF Submit, Drivers
  <2>2. MemoryType'
    <3>1. chain \in Posted  BY <1>9 DEF Chains, Posted
    <3>2. avail' = [avail EXCEPT ![q] = Append(@, chain)] /\ UNCHANGED <<used, faults>>
      BY <1>9 DEF Submit
    <3>3. avail' \in [Queues -> Seq(Posted)]  BY <1>1, <3>1, <3>2 DEF MemoryType
    <3>4. ASSUME NEW k \in Queues PROVE avail'[k] \in Seq(Chains(k))
      <4>1. avail[k] \in Seq(Chains(k))  BY <1>1 DEF MemoryType
      <4>2. avail'[k] = IF q = k THEN Append(avail[k], chain) ELSE avail[k]
        BY <1>1, <3>2 DEF MemoryType
      <4>3. q = k => Append(avail[k], chain) \in Seq(Chains(k))  BY <1>9, <4>1
      <4>. QED  BY <4>1, <4>2, <4>3
    <3>. QED  BY <1>1, <3>2, <3>3, <3>4 DEF MemoryType
  <2>. QED  BY <1>1, <1>9, <2>1, <2>2 DEF Submit, FrameType, PollType, LoopType, SetupType,
                    WireType, slirp, setup, polling, loop
<1>10. ASSUME NEW q \in Queues, TakeUsed(q) PROVE All'
  <2>1. MemoryType'
    <3>1. used[q] \in Seq(Filled) /\ used[q] # <<>>  BY <1>1, <1>10 DEF TakeUsed, MemoryType
    <3>2. Tail(used[q]) \in Seq(Filled)  BY <3>1
    <3>. QED  BY <1>1, <1>10, <3>2 DEF TakeUsed, MemoryType
  <2>. QED  BY <1>1, <1>10, <2>1 DEF TakeUsed, FrameType, PollType, LoopType, SetupType,
                    WireType, slirp, setup, polling, loop
<1>11. CASE HandlerReturns
  <2>1. driver' \in Drivers  BY <1>1, <1>11 DEF HandlerReturns, Drivers
  <2>. QED  BY <1>1, <1>11, <2>1 DEF HandlerReturns, FrameType, PollType, LoopType, SetupType,
                    MemoryType, WireType, slirp, setup, polling, loop, memory
<1>12. CASE tick
  <2>1. FrameType'
    BY <1>1, <1>12 DEF tick, FrameType, StartPoll, CountCycles, slirp
  <2>2. Interval \in Nat \ {0} /\ backend_tick_cycles \in 0 .. Interval - 1
        /\ accumulated_cycles \in 0 .. Interval - 1
    BY <1>1, SlirpAssumption DEF PollType
  <2>3. CASE BackendDue
    <3>1. LoopType'  BY <1>1, <1>12, <2>3 DEF tick, LoopType
    <3>2. PollType'
      <4>1. ASSUME CountCycles(backend_tick_cycles + 1)
            PROVE  accumulated_cycles' \in 0 .. Interval - 1
        BY <2>2, <4>1 DEF CountCycles, PollDue
      <4>2. ASSUME StartPoll(backend_tick_cycles + 1)
            PROVE  accumulated_cycles' \in 0 .. Interval - 1
        BY <2>2, <4>2 DEF StartPoll
      <4>3. backend_tick_cycles' = 0 /\ backend_poll_requested' = FALSE /\ UNCHANGED attached
            /\ (StartPoll(backend_tick_cycles + 1) \/ CountCycles(backend_tick_cycles + 1))
        BY <1>12, <2>3 DEF tick
      <4>4. poll_requested' \in BOOLEAN
        BY <1>1, <4>3 DEF StartPoll, CountCycles, PollType
      <4>5. accumulated_cycles' \in 0 .. Interval - 1  BY <4>1, <4>2, <4>3
      <4>6. backend_tick_cycles' \in 0 .. Interval - 1  BY <2>2, <4>3
      <4>7. backend_poll_requested' \in BOOLEAN /\ attached' \in BOOLEAN
        BY <1>1, <4>3 DEF PollType
      <4>. QED  BY <4>4, <4>5, <4>6, <4>7 DEF PollType
    <3>. QED  BY <1>1, <1>12, <2>1, <3>1, <3>2 DEF tick, SetupType, MemoryType, WireType,
                    setup, memory
  <2>4. CASE ~BackendDue
    <3>1. LoopType'  BY <1>1, <1>12, <2>4, AfterCollectType DEF tick
    <3>2. backend_tick_cycles' \in 0 .. Interval - 1
      BY <1>12, <2>2, <2>4 DEF tick, BackendDue
    <3>3. PollType'  BY <1>1, <1>12, <2>4, <3>2 DEF tick, PollType, slirp
    <3>. QED  BY <1>1, <1>12, <2>1, <3>1, <3>3 DEF tick, SetupType, MemoryType, WireType,
                    setup, memory
  <2>. QED  BY <2>3, <2>4
<1>13. CASE SlirpCalls
  <2>1. FrameType'
    <3>1. CASE notify  BY <1>1, <1>13, <3>1 DEF SlirpCalls, notify, FrameType
    <3>2. ASSUME NEW fits \in BOOLEAN, send_packet(fits)  PROVE FrameType'
      <4>1. offered \in Nat /\ FrameCount \in Nat \ {0} /\ MaxQueued \in Nat
        BY <1>1, SlirpAssumption DEF FrameType, FrameIds
      <4>2. (offered + 1) % FrameCount \in 0 .. FrameCount - 1  BY <4>1
      <4>3. offered' \in FrameIds
        BY <1>1, <3>2, <4>2 DEF send_packet, Numbered, FrameType, FrameIds
      <4>4. received_frames' \in Seq(FrameIds) /\ Len(received_frames') <= MaxQueued
        BY <1>1, <3>2, <4>1, <4>3 DEF send_packet, FrameType
      <4>. QED  BY <1>1, <1>13, <4>3, <4>4 DEF SlirpCalls, FrameType
    <3>. QED  BY <1>13, <3>1, <3>2 DEF SlirpCalls, Callback
  <2>2. PollType'
    BY <1>1, <1>13 DEF SlirpCalls, Callback, notify, send_packet, PollType, polling
  <2>. QED  BY <1>1, <1>13, <2>1, <2>2 DEF SlirpCalls, LoopType, SetupType, MemoryType, WireType,
                    setup, loop, memory
<1>14. CASE SlirpReturns
  BY <1>1, <1>14 DEF SlirpReturns, FrameType, PollType, LoopType, SetupType, MemoryType, WireType,
                    slirp, setup, polling, memory
<1>15. CASE Collect
  <2>1. FrameType'
    <3>1. /\ received_frames \in Seq(FrameIds) /\ received_frames # <<>>
          /\ Len(received_frames) <= MaxQueued
          /\ pending_receive_frames \in Seq(FrameIds)
          /\ Len(pending_receive_frames) < MaxPending /\ MaxPending \in Nat /\ MaxQueued \in Nat
      BY <1>1, <1>15, NetAssumption, SlirpAssumption DEF Collect, Room, FrameType
    <3>2. /\ Head(received_frames) \in FrameIds /\ Tail(received_frames) \in Seq(FrameIds)
          /\ Len(Tail(received_frames)) <= MaxQueued
      BY <3>1
    <3>3. /\ Append(pending_receive_frames, Head(received_frames)) \in Seq(FrameIds)
          /\ Len(Append(pending_receive_frames, Head(received_frames))) <= MaxPending
      BY <3>1, <3>2
    <3>. QED  BY <1>1, <1>15, <3>2, <3>3 DEF Collect, receive_frame, FrameType
  <2>2. PollType'  BY <1>1, <1>15 DEF Collect, receive_frame, PollType, polling
  <2>. QED  BY <1>1, <1>15, <2>1, <2>2 DEF Collect, LoopType, SetupType, MemoryType, WireType,
                    setup, loop, memory
<1>16. CASE CollectEnds
  <2>1. LoopType'  BY <1>1, <1>16, AfterCollectType DEF CollectEnds
  <2>. QED  BY <1>1, <1>16, <2>1 DEF CollectEnds, FrameType, PollType, SetupType, MemoryType,
                    WireType, slirp, setup, polling, memory
<1>17. CASE Transmit
  <2>1. /\ avail' \in [Queues -> Seq(Posted)] /\ \A k \in Queues : avail'[k] \in Seq(Chains(k))
        /\ used' \in [Queues -> Seq(Filled)]
        /\ processed' \in 0 .. QueueNum /\ interrupt_status' \in {0, 1}
    <3>1. "tx" \in Queues /\ Spoilt \in Filled  BY DEF Queues, Filled
    <3>. QED  BY <1>1, <1>17, <3>1, CompleteType DEF Transmit
  <2>2. LoopType'  BY <1>1, <1>17, <2>1 DEF Transmit, LoopType
  <2>3. MemoryType'  BY <1>1, <1>17, <2>1 DEF Transmit, MemoryType
  <2>4. FrameType' /\ PollType'
    BY <1>1, <1>17 DEF Transmit, FrameType, PollType, FrameSent, slirp, polling
  <2>5. WireType'
    <3>1. CASE UNCHANGED wire  BY <1>1, <3>1 DEF WireType
    <3>2. CASE wire' = [frame |-> Head(avail["tx"]), bit |-> 1 - wire.bit] /\ Usable("tx")
      <4>1. avail["tx"] \in Seq(Chains("tx")) /\ avail["tx"] # <<>>
        BY <1>1, <1>17 DEF Transmit, More, MemoryType, Queues
      <4>2. Head(avail["tx"]) \in Chains("tx") /\ Head(avail["tx"]) # Unfit
        BY <3>2, <4>1 DEF Usable
      <4>3. Head(avail["tx"]) \in FrameIds  BY <4>2, NetAssumption DEF Chains
      <4>4. 1 - wire.bit \in {0, 1}  BY <1>1 DEF WireType
      <4>. QED  BY <3>2, <4>3, <4>4 DEF WireType
    <3>. QED  BY <1>17, <3>1, <3>2 DEF Transmit
  <2>. QED  BY <1>1, <1>17, <2>2, <2>3, <2>4, <2>5 DEF Transmit, SetupType, setup
<1>18. CASE TransmitEnds
  <2>1. LoopType'  BY <1>1, <1>18, NetAssumption DEF TransmitEnds, LoopType
  <2>. QED  BY <1>1, <1>18, <2>1 DEF TransmitEnds, FrameType, PollType, SetupType, MemoryType,
                    WireType, slirp, setup, memory
<1>19. CASE Receive
  <2> DEFINE result == IF Usable("rx") THEN Head(pending_receive_frames) ELSE Spoilt
  <2>1. pending_receive_frames \in Seq(FrameIds) /\ pending_receive_frames # <<>>
        /\ Len(pending_receive_frames) <= MaxPending /\ MaxPending \in Nat
    BY <1>1, <1>19, NetAssumption DEF Receive, ReceiveMore, FrameType
  <2>2. /\ Head(pending_receive_frames) \in FrameIds
        /\ Tail(pending_receive_frames) \in Seq(FrameIds)
        /\ Len(Tail(pending_receive_frames)) <= MaxPending
    BY <2>1
  <2>3. /\ avail' \in [Queues -> Seq(Posted)] /\ \A k \in Queues : avail'[k] \in Seq(Chains(k))
        /\ used' \in [Queues -> Seq(Filled)]
        /\ processed' \in 0 .. QueueNum /\ interrupt_status' \in {0, 1}
    <3>1. "rx" \in Queues /\ result \in Filled  BY <2>2 DEF Queues, Filled
    <3>2. More("rx") /\ complete_chain("rx", result)  BY <1>19 DEF Receive, ReceiveMore
    <3> HIDE DEF result
    <3>. QED  BY <1>1, <3>1, <3>2, CompleteType
  <2>4. LoopType'  BY <1>1, <1>19, <2>3 DEF Receive, LoopType
  <2>5. MemoryType'  BY <1>1, <1>19, <2>3 DEF Receive, MemoryType
  <2>6. FrameType'  BY <1>1, <1>19, <2>2 DEF Receive, FrameType, slirp
  <2>. QED  BY <1>1, <1>19, <2>4, <2>5, <2>6 DEF Receive, PollType, SetupType, WireType,
                    slirp, polling, setup
<1>20. CASE ReceiveEnds
  <2>1. LoopType'  BY <1>1, <1>20, NetAssumption DEF ReceiveEnds, LoopType
  <2>. QED  BY <1>1, <1>20, <2>1 DEF ReceiveEnds, FrameType, PollType, SetupType, MemoryType,
                    WireType, slirp, setup, polling, memory
<1>21. CASE UNCHANGED vars
  BY <1>1, <1>21 DEF vars, FrameType, PollType, LoopType, SetupType, MemoryType, WireType,
                    slirp, setup, polling, loop, memory
<1> HIDE DEF All
<1>. QED
  BY <1>2, <1>3, <1>4, <1>5, <1>6, <1>7, <1>8, <1>9, <1>10, <1>11, <1>12, <1>13, <1>14,
     <1>15, <1>16, <1>17, <1>18, <1>19, <1>20, <1>21
  DEF Next, Driver, Device

\* Neither the device nor the backend ever holds more frames than its limit,
\* the cycle counters stay below the interval, and no loop over a queue
\* completes more chains than the queue has.
THEOREM TypeCorrect == Spec => []TypeOK
  BY InitType, NextType, PTL DEF Spec

-----------------------------------------------------------------------------
(* The inductive invariant. *)

\* A device being set up has empty rings; a running one has both queues configured.
SetUp ==
  /\ driver.phase = "setup" => avail = Empty /\ used = Empty
  /\ driver.phase = "running" => \A q \in Queues : queue_configured(q)

\* The driver never has more chains with the device than a queue holds, and the
\* bound on process_transmit_queue leaves room for all that are available.
InTime ==
  /\ \A q \in Queues : Len(avail[q]) + Len(used[q]) <= QueueNum
  /\ phase \in {"transmit", "input"} /\ "used" \notin faults["tx"]
       => processed + Len(avail["tx"]) <= QueueNum

TxReachable == faults["tx"] \cap {"avail", "used"} = {}

\* Outside the transmit loop a frame to send is announced: NothingStranded also
\* while the backend is polled and its frames are collected.
Announced ==
  avail["tx"] # <<>> /\ TxReachable /\ phase \notin {"transmit", "input"}
    => driver.owes \/ notification_pending["tx"]

Heard == used # Empty => interrupt_status = 1 \/ driver.reaping

\* libslirp is called only if there is a backend.
Called == phase \in {"poll", "input"} => attached

NetInv == TypeOK /\ SetUp /\ InTime /\ Announced /\ Heard /\ Called

LEMMA NetTypes ==
  ASSUME TypeOK
  PROVE  /\ LoopType /\ SetupType /\ MemoryType /\ driver \in Drivers
         /\ \A q \in Queues : /\ avail[q] \in Seq(Posted) /\ used[q] \in Seq(Filled)
                              /\ avail[q] \in Seq(Chains(q))
                              /\ Len(avail[q]) \in Nat /\ Len(used[q]) \in Nat
         /\ "rx" \in Queues /\ "tx" \in Queues /\ QueueNum \in Nat \ {0} /\ processed \in Nat
<1>1. LoopType /\ SetupType /\ MemoryType /\ driver \in Drivers  BY TypeParts
<1>2. ASSUME NEW q \in Queues
      PROVE  /\ avail[q] \in Seq(Posted) /\ used[q] \in Seq(Filled)
             /\ avail[q] \in Seq(Chains(q)) /\ Len(avail[q]) \in Nat /\ Len(used[q]) \in Nat
  BY <1>1 DEF MemoryType
<1>3. "rx" \in Queues /\ "tx" \in Queues /\ QueueNum \in Nat \ {0}
  BY NetAssumption DEF Queues
<1>4. processed \in Nat  BY <1>1, <1>3 DEF LoopType
<1>. QED  BY <1>1, <1>2, <1>3, <1>4

LEMMA InitNet == Init => NetInv
<1>1. SUFFICES ASSUME Init PROVE NetInv  OBVIOUS
<1>2. TypeOK  BY <1>1, InitType
<1>3. avail = Empty /\ used = Empty /\ driver = Idle /\ phase = "guest"  BY <1>1 DEF Init
<1>4. SetUp /\ Announced /\ Heard /\ Called
  BY <1>3, EmptyIs, IdleIs DEF SetUp, Announced, Heard, Called
<1>5. InTime  BY <1>3, EmptyIs, NetAssumption DEF InTime
<1>. QED  BY <1>2, <1>4, <1>5 DEF NetInv

\* A frame to send or a used chain is the sign of a running, configured device.
LEMMA Running ==
  ASSUME NetInv, avail["tx"] # <<>> \/ used # Empty
  PROVE  driver.phase = "running" /\ queue_configured("tx")
<1>1. driver.phase # "setup"  BY EmptyIs DEF NetInv, SetUp
<1>2. driver.phase \in {"setup", "running"} /\ "tx" \in Queues
  BY NetTypes DEF NetInv, Drivers
<1>. QED  BY <1>1, <1>2 DEF NetInv, SetUp

\* Steps of the guest or the device that leave the rings alone keep what the
\* driver owes or owe more, and do not take an interrupt back unheard.
LEMMA QuietStep ==
  ASSUME NetInv, UNCHANGED <<page_size, registers, avail, used, faults, attached, phase, processed>>,
         driver'.phase = driver.phase,
         driver.owes \/ notification_pending["tx"]
           => driver'.owes \/ notification_pending'["tx"] \/ avail["tx"] = <<>>,
         interrupt_status = 1 \/ driver.reaping
           => interrupt_status' = 1 \/ driver'.reaping \/ used = Empty
  PROVE  SetUp' /\ InTime' /\ Announced' /\ Heard' /\ Called'
<1>1. SetUp'  BY DEF NetInv, SetUp, queue_configured
<1>2. InTime' /\ Called'  BY DEF NetInv, InTime, Called
<1>3. Announced' /\ Heard'  BY DEF NetInv, Announced, Heard, TxReachable
<1>. QED  BY <1>1, <1>2, <1>3

\* Chains with the device and chains on their way back, against the queue's size.
LEMMA SumFacts ==
  ASSUME NEW a \in Nat, NEW b \in Nat, NEW n \in Nat, a + b <= n
  PROVE  /\ 0 + a <= n /\ a + (b - 1) <= n /\ (a - 1) + (b + 1) <= n
         /\ a + b < n => (a + 1) + b <= n
  OBVIOUS

\* The chain at the head of a queue is completed.
LEMMA CompleteRings ==
  ASSUME NetInv, NEW q \in Queues, More(q), NEW result \in Filled, complete_chain(q, result)
  PROVE  /\ \A k \in Queues : Len(avail'[k]) + Len(used'[k]) <= QueueNum
         /\ \A k \in Queues : k # q => avail'[k] = avail[k] /\ used'[k] = used[k]
         /\ "used" \notin faults[q] =>
              /\ avail'[q] = Tail(avail[q]) /\ used'[q] = Append(used[q], result)
              /\ Len(avail'[q]) = Len(avail[q]) - 1 /\ processed' = processed + 1
              /\ interrupt_status' = 1
         /\ "used" \in faults[q] => UNCHANGED <<avail, used, interrupt_status>>
<1>1. /\ MemoryType
      /\ \A k \in Queues : /\ avail[k] \in Seq(Posted) /\ used[k] \in Seq(Filled)
                           /\ Len(avail[k]) \in Nat /\ Len(used[k]) \in Nat
      /\ QueueNum \in Nat
  BY NetTypes DEF NetInv
<1>2. \A k \in Queues : Len(avail[k]) + Len(used[k]) <= QueueNum  BY DEF NetInv, InTime
<1>3. CASE "used" \in faults[q]  BY <1>2, <1>3 DEF complete_chain
<1>4. CASE "used" \notin faults[q]
  <2>1. /\ avail' = [avail EXCEPT ![q] = Tail(@)] /\ used' = [used EXCEPT ![q] = Append(@, result)]
        /\ processed' = processed + 1 /\ interrupt_status' = 1
    BY <1>4 DEF complete_chain
  <2>2. avail'[q] = Tail(avail[q]) /\ used'[q] = Append(used[q], result)
    BY <1>1, <2>1 DEF MemoryType
  <2>3. \A k \in Queues : k # q => avail'[k] = avail[k] /\ used'[k] = used[k]
    BY <1>1, <2>1 DEF MemoryType
  <2>4. avail[q] # <<>>  BY DEF More
  <2>5. Len(Tail(avail[q])) = Len(avail[q]) - 1
        /\ Len(Append(used[q], result)) = Len(used[q]) + 1
    BY <1>1, <2>4
  <2>6. Len(avail'[q]) + Len(used'[q]) <= QueueNum
    <3>1. Len(avail[q]) \in Nat /\ Len(used[q]) \in Nat /\ QueueNum \in Nat
          /\ Len(avail[q]) + Len(used[q]) <= QueueNum
      BY <1>1, <1>2
    <3>2. Len(avail'[q]) = Len(avail[q]) - 1 /\ Len(used'[q]) = Len(used[q]) + 1
      BY <2>2, <2>5
    <3>. QED  BY <3>1, <3>2, SumFacts
  <2>7. \A k \in Queues : Len(avail'[k]) + Len(used'[k]) <= QueueNum
    BY <1>2, <2>3, <2>6
  <2>. QED  BY <1>4, <2>1, <2>2, <2>3, <2>5, <2>7
<1>. QED  BY <1>3, <1>4

LEMMA NextNet ==
  ASSUME NetInv, [Next]_vars
  PROVE  NetInv'
<1>1. TypeOK'  BY NextType DEF NetInv
<1>2. TypeOK /\ SetUp /\ InTime /\ Announced /\ Heard /\ Called  BY DEF NetInv
<1>3. /\ LoopType /\ SetupType /\ MemoryType /\ driver \in Drivers
      /\ \A q \in Queues : /\ avail[q] \in Seq(Posted) /\ used[q] \in Seq(Filled)
                           /\ Len(avail[q]) \in Nat /\ Len(used[q]) \in Nat
      /\ "rx" \in Queues /\ "tx" \in Queues /\ QueueNum \in Nat \ {0} /\ processed \in Nat
  BY <1>2, NetTypes
<1> DEFINE Kept == SetUp' /\ InTime' /\ Announced' /\ Heard' /\ Called'
<1>0. SUFFICES Kept  BY <1>1 DEF NetInv
<1>4. ASSUME driver.phase = "setup", driver' = driver,
             UNCHANGED <<notification_pending, interrupt_status, attached, loop, memory>>
      PROVE  Kept
  <2>1. avail = Empty /\ used = Empty  BY <1>2, <1>4 DEF SetUp
  <2>. QED  BY <1>2, <1>4, <2>1, EmptyIs
            DEF SetUp, InTime, Announced, Heard, Called, TxReachable, loop, memory
<1>5. ASSUME NEW usable \in BOOLEAN, WritePageSize(usable) PROVE Kept
  BY <1>4, <1>5 DEF WritePageSize, polling
<1>6. ASSUME NEW q \in Queues \cup {"other"}, WriteQueueSelect(q) PROVE Kept
  BY <1>4, <1>6 DEF WriteQueueSelect, polling
<1>7. ASSUME NEW usable \in BOOLEAN, WriteQueueRegister(usable) PROVE Kept
  BY <1>4, <1>7 DEF WriteQueueRegister, polling
<1>8. ASSUME NEW q \in Queues, WriteNotify(q) PROVE Kept
  <2>1. /\ UNCHANGED <<page_size, registers, avail, used, faults, attached, phase, processed>>
        /\ interrupt_status' = interrupt_status
    BY <1>8 DEF WriteNotify, setup, memory, polling, loop
  <2>2. driver' = [driver EXCEPT !.owes = @ /\ q # "tx"]  BY <1>8 DEF WriteNotify
  <2>3. /\ driver'.phase = driver.phase /\ driver'.reaping = driver.reaping
        /\ driver'.owes <=> driver.owes /\ q # "tx"
    BY <1>3, <2>2 DEF Drivers
  <2>4. notification_pending'["tx"]
          <=> notification_pending["tx"] \/ (q = "tx" /\ queue_configured("tx"))
    BY <1>3, <1>8 DEF WriteNotify, LoopType
  <2>5. avail["tx"] # <<>> => queue_configured("tx")  BY Running
  <2>. QED  BY <2>1, <2>3, <2>4, <2>5, QuietStep
<1>9. CASE WriteAck
  <2>1. /\ UNCHANGED <<page_size, registers, avail, used, faults, attached, phase, processed>>
        /\ notification_pending' = notification_pending
    BY <1>9 DEF WriteAck, setup, memory, polling, loop
  <2>2. driver'.phase = driver.phase /\ driver'.reaping /\ driver'.owes = driver.owes
    BY <1>3, <1>9 DEF WriteAck, Drivers
  <2>. QED  BY <2>1, <2>2, QuietStep
<1>10. CASE WriteStatusZero
  <2>1. /\ avail' = Empty /\ used' = Empty /\ driver' = Idle /\ phase' = "guest"
    BY <1>10 DEF WriteStatusZero, Guest, loop
  <2>2. SetUp' /\ Announced' /\ Heard' /\ Called'
    BY <2>1, EmptyIs, IdleIs DEF SetUp, Announced, Heard, Called
  <2>3. InTime'  BY <2>1, EmptyIs, NetAssumption DEF InTime
  <2>. QED  BY <2>2, <2>3
<1>11. ASSUME NEW f \in FaultSets, Start(f) PROVE Kept
  <2>1. avail' = Empty /\ used' = Empty /\ phase' = "guest"
    BY <1>2, <1>11 DEF Start, Guest, SetUp, loop
  <2>2. driver'.phase = "running"  BY <1>3, <1>11 DEF Start, Drivers
  <2>3. SetUp'  BY <1>11, <2>2 DEF Start, SetUp, queue_configured, setup
  <2>4. Announced' /\ Heard' /\ Called'  BY <2>1, EmptyIs DEF Announced, Heard, Called
  <2>5. InTime'  BY <2>1, EmptyIs, NetAssumption DEF InTime
  <2>. QED  BY <2>3, <2>4, <2>5
<1>12. ASSUME NEW q \in Queues, NEW chain \in Chains(q), Submit(q, chain) PROVE Kept
  <2>1. /\ driver.phase = "running" /\ phase' = "guest" /\ Len(avail[q]) + Len(used[q]) < QueueNum
        /\ avail' = [avail EXCEPT ![q] = Append(@, chain)]
        /\ driver' = [driver EXCEPT !.owes = @ \/ q = "tx"]
        /\ UNCHANGED <<page_size, registers, notification_pending, interrupt_status, used, faults>>
    BY <1>12 DEF Submit, Guest, setup, loop
  <2>2. /\ driver'.phase = driver.phase /\ driver'.reaping = driver.reaping
        /\ driver'.owes <=> driver.owes \/ q = "tx"
    BY <1>3, <2>1 DEF Drivers
  <2>3. \A k \in Queues : avail'[k] = IF k = q THEN Append(avail[k], chain) ELSE avail[k]
    BY <1>3, <2>1 DEF MemoryType
  <2>4. SetUp'  BY <1>2, <2>1, <2>2 DEF SetUp, queue_configured
  <2>5. InTime'
    <3>1. Len(Append(avail[q], chain)) = Len(avail[q]) + 1
      <4>1. chain \in Posted  BY <1>12 DEF Chains, Posted
      <4>. QED  BY <1>3, <4>1
    <3>2. ASSUME NEW k \in Queues PROVE Len(avail'[k]) + Len(used'[k]) <= QueueNum
      <4>1. Len(avail[k]) \in Nat /\ Len(used[k]) \in Nat /\ QueueNum \in Nat  BY <1>3
      <4>2. Len(avail[k]) + Len(used[k]) <= QueueNum
            /\ (k = q => Len(avail[k]) + Len(used[k]) < QueueNum)
        BY <1>2, <2>1 DEF InTime
      <4>3. used'[k] = used[k]  BY <2>1
      <4>4. CASE k = q
        <5>1. avail'[k] = Append(avail[k], chain)  BY <2>3, <4>4
        <5>2. Len(avail'[k]) = Len(avail[k]) + 1  BY <3>1, <4>4, <5>1
        <5>. QED  BY <4>1, <4>2, <4>3, <4>4, <5>2, SumFacts
      <4>5. CASE k # q
        <5>1. avail'[k] = avail[k]  BY <2>3, <4>5
        <5>. QED  BY <4>2, <4>3, <5>1
      <4>. QED  BY <4>4, <4>5
    <3>. QED  BY <2>1, <3>2 DEF InTime
  <2>6. phase = "guest"  BY <1>12 DEF Submit, Guest
  <2>7. Announced'
    BY <1>2, <1>3, <2>1, <2>2, <2>3, <2>6 DEF Announced, TxReachable
  <2>8. Heard' /\ Called'  BY <1>2, <2>1, <2>2 DEF Heard, Called
  <2>. QED  BY <2>4, <2>5, <2>7, <2>8
<1>13. ASSUME NEW q \in Queues, TakeUsed(q) PROVE Kept
  <2>1. /\ driver.reaping /\ used[q] # <<>> /\ used' = [used EXCEPT ![q] = Tail(@)]
        /\ UNCHANGED <<page_size, registers, notification_pending, interrupt_status, avail, faults,
                       driver, phase, processed, attached>>
    BY <1>13 DEF TakeUsed, setup, loop, polling
  <2>2. \A k \in Queues : used'[k] = IF k = q THEN Tail(used[k]) ELSE used[k]
    BY <1>3, <2>1 DEF MemoryType
  <2>3. Len(Tail(used[q])) = Len(used[q]) - 1  BY <1>3, <2>1
  <2>4. driver.phase = "running"
    <3>1. used # Empty  BY <2>1 DEF Empty
    <3>. QED  BY <3>1, Running
  <2>5. SetUp'  BY <1>2, <2>1, <2>4 DEF SetUp, queue_configured
  <2>6. InTime'
    <3>1. ASSUME NEW k \in Queues PROVE Len(avail'[k]) + Len(used'[k]) <= QueueNum
      <4>1. Len(avail[k]) \in Nat /\ Len(used[k]) \in Nat /\ QueueNum \in Nat  BY <1>3
      <4>2. Len(avail[k]) + Len(used[k]) <= QueueNum  BY <1>2 DEF InTime
      <4>3. avail'[k] = avail[k]
            /\ (Len(used'[k]) = Len(used[k]) - 1 \/ Len(used'[k]) = Len(used[k]))
        BY <2>1, <2>2, <2>3
      <4>. QED  BY <4>1, <4>2, <4>3, SumFacts
    <3>. QED  BY <1>2, <2>1, <3>1 DEF InTime
  <2>7. Announced' /\ Heard' /\ Called'
    BY <1>2, <2>1 DEF Announced, Heard, Called, TxReachable
  <2>. QED  BY <2>5, <2>6, <2>7
<1>14. CASE HandlerReturns
  <2>1. /\ UNCHANGED <<page_size, registers, avail, used, faults, attached, phase, processed>>
        /\ notification_pending' = notification_pending /\ interrupt_status' = interrupt_status
        /\ used = Empty
    BY <1>14 DEF HandlerReturns, setup, memory, polling, loop
  <2>2. driver'.phase = driver.phase /\ driver'.owes = driver.owes
    BY <1>3, <1>14 DEF HandlerReturns, Drivers
  <2>. QED  BY <2>1, <2>2, QuietStep
<1>15. ASSUME phase \in {"guest", "collect"}, AfterCollect,
              UNCHANGED <<page_size, registers, interrupt_status, memory, driver>>
       PROVE  Kept
  <2>1. SetUp'  BY <1>2, <1>15 DEF SetUp, queue_configured, memory
  <2>2. InTime'
    <3>1. processed' = 0 /\ UNCHANGED <<avail, used, faults>>  BY <1>15 DEF AfterCollect, memory
    <3>2. 0 + Len(avail["tx"]) <= QueueNum
      <4>1. Len(avail["tx"]) \in Nat /\ Len(used["tx"]) \in Nat /\ QueueNum \in Nat  BY <1>3
      <4>2. Len(avail["tx"]) + Len(used["tx"]) <= QueueNum  BY <1>2, <1>3 DEF InTime
      <4>. QED  BY <4>1, <4>2, SumFacts
    <3>. QED  BY <1>2, <3>1, <3>2 DEF InTime
  <2>3. Announced'
    BY <1>2, <1>15 DEF Announced, AfterCollect, TxReachable, memory
  <2>4. Heard' /\ Called'  BY <1>2, <1>15 DEF Heard, Called, AfterCollect, memory
  <2>. QED  BY <2>1, <2>2, <2>3, <2>4
<1>16. CASE tick
  <2>1. CASE BackendDue
    <3>1. /\ phase' \in {"poll", "collect"} /\ attached /\ phase = "guest"
          /\ UNCHANGED <<page_size, registers, processed, notification_pending, interrupt_status,
                         avail, used, faults, driver, attached>>
      BY <1>16, <2>1 DEF tick, BackendDue, setup, memory
    <3>2. SetUp'  BY <1>2, <3>1 DEF SetUp, queue_configured
    <3>3. InTime' /\ Announced' /\ Heard' /\ Called'
      BY <1>2, <3>1 DEF InTime, Announced, Heard, Called, TxReachable
    <3>. QED  BY <3>2, <3>3
  <2>2. CASE ~BackendDue
    BY <1>15, <1>16, <2>2 DEF tick, setup
  <2>. QED  BY <2>1, <2>2
<1>17. CASE SlirpCalls
  <2>1. UNCHANGED <<page_size, registers, avail, used, faults, attached, phase, processed,
                    notification_pending, interrupt_status, driver>>
    BY <1>17 DEF SlirpCalls, setup, memory, polling, loop
  <2>. QED  BY <2>1, QuietStep
<1>18. CASE SlirpReturns
  <2>1. /\ phase \in {"poll", "input"}
        /\ phase' = IF phase = "poll" THEN "collect" ELSE "transmit"
        /\ UNCHANGED <<page_size, registers, processed, notification_pending, interrupt_status,
                       avail, used, faults, driver, attached>>
    BY <1>18 DEF SlirpReturns, setup, memory, polling
  <2>2. SetUp'  BY <1>2, <2>1 DEF SetUp, queue_configured
  <2>3. InTime' /\ Announced' /\ Heard' /\ Called'
    BY <1>2, <2>1 DEF InTime, Announced, Heard, Called, TxReachable
  <2>. QED  BY <2>2, <2>3
<1>19. CASE Collect
  <2>1. UNCHANGED <<page_size, registers, avail, used, faults, attached, phase, processed,
                    notification_pending, interrupt_status, driver>>
    BY <1>19 DEF Collect, setup, memory, polling, loop
  <2>. QED  BY <2>1, QuietStep
<1>20. CASE CollectEnds  BY <1>15, <1>20 DEF CollectEnds, setup
<1>21. CASE Transmit
  <2>1. /\ phase = "transmit" /\ phase' \in {"transmit", "input"} /\ (phase' = "input" => attached)
        /\ More("tx") /\ complete_chain("tx", Spoilt) /\ Spoilt \in Filled
        /\ UNCHANGED <<page_size, registers, notification_pending, faults, driver, attached>>
    BY <1>21 DEF Transmit, setup, polling, Filled
  <2>2. /\ \A k \in Queues : Len(avail'[k]) + Len(used'[k]) <= QueueNum
        /\ "used" \notin faults["tx"] =>
             /\ Len(avail'["tx"]) = Len(avail["tx"]) - 1 /\ processed' = processed + 1
             /\ interrupt_status' = 1
        /\ "used" \in faults["tx"] => UNCHANGED <<avail, used, interrupt_status>>
    BY <1>3, <2>1, CompleteRings
  <2>3. driver.phase = "running"
    <3>1. avail["tx"] # <<>>  BY <2>1 DEF More
    <3>. QED  BY <3>1, Running
  <2>4. SetUp'  BY <1>2, <2>1, <2>3 DEF SetUp, queue_configured
  <2>5. InTime'
    <3>1. "used" \notin faults["tx"] => processed' + Len(avail'["tx"]) <= QueueNum
      BY <1>2, <1>3, <2>1, <2>2 DEF InTime
    <3>. QED  BY <2>1, <2>2, <3>1 DEF InTime
  <2>6. Announced' /\ Called'  BY <2>1 DEF Announced, Called
  <2>7. Heard'  BY <1>2, <2>1, <2>2 DEF Heard
  <2>. QED  BY <2>4, <2>5, <2>6, <2>7
<1>22. CASE TransmitEnds
  <2>1. /\ phase = "transmit" /\ ~More("tx") /\ phase' = "receive"
        /\ UNCHANGED <<page_size, registers, notification_pending, interrupt_status,
                       avail, used, faults, driver>>
    BY <1>22 DEF TransmitEnds, setup, memory
  <2>2. SetUp'  BY <1>2, <2>1 DEF SetUp, queue_configured
  <2>3. InTime' /\ Heard' /\ Called'  BY <1>2, <2>1 DEF InTime, Heard, Called
  <2>4. TxReachable => avail["tx"] = <<>>
    <3>1. SUFFICES ASSUME TxReachable, avail["tx"] # <<>> PROVE FALSE  OBVIOUS
    <3>2. queue_configured("tx")  BY <3>1, Running
    <3>3. "avail" \notin faults["tx"] /\ "used" \notin faults["tx"]  BY <3>1 DEF TxReachable
    <3>4. processed + Len(avail["tx"]) <= QueueNum  BY <1>2, <2>1, <3>3 DEF InTime
    <3>5. ~ (processed < QueueNum)  BY <2>1, <3>1, <3>2, <3>3 DEF More
    <3>6. Len(avail["tx"]) # 0
      <4>1. avail["tx"] \in Seq(Posted)  BY <1>3
      <4>. QED  BY <3>1, <4>1
    <3>7. Len(avail["tx"]) \in Nat  BY <1>3
    <3>. QED  BY <1>3, <3>4, <3>5, <3>6, <3>7
  <2>5. Announced'  BY <2>1, <2>4 DEF Announced, TxReachable
  <2>. QED  BY <2>2, <2>3, <2>5
<1>23. CASE Receive
  <2> DEFINE result == IF Usable("rx") THEN Head(pending_receive_frames) ELSE Spoilt
  <2>1. /\ phase = "receive" /\ phase' = "receive" /\ More("rx") /\ complete_chain("rx", result)
        /\ UNCHANGED <<page_size, registers, notification_pending, faults, driver>>
    BY <1>23 DEF Receive, ReceiveMore, setup
  <2>2. result \in Filled
    <3>1. pending_receive_frames \in Seq(FrameIds) /\ pending_receive_frames # <<>>
      BY <1>2, <1>23 DEF Receive, ReceiveMore, TypeOK
    <3>2. Head(pending_receive_frames) \in FrameIds  BY <3>1
    <3>. QED  BY <3>2 DEF Filled
  <2> HIDE DEF result
  <2>3. /\ \A k \in Queues : Len(avail'[k]) + Len(used'[k]) <= QueueNum
        /\ \A k \in Queues : k # "rx" => avail'[k] = avail[k] /\ used'[k] = used[k]
        /\ "used" \notin faults["rx"] => interrupt_status' = 1
        /\ "used" \in faults["rx"] => UNCHANGED <<avail, used, interrupt_status>>
    BY <1>3, <2>1, <2>2, CompleteRings
  <2>4. driver.phase = "running"
    <3>1. avail # Empty  BY <2>1, EmptyIs DEF More
    <3>. QED  BY <1>2, <1>3, <3>1 DEF SetUp, Drivers
  <2>5. SetUp'  BY <1>2, <2>1, <2>4 DEF SetUp, queue_configured
  <2>6. InTime' /\ Called'  BY <2>1, <2>3 DEF InTime, Called
  <2>7. avail'["tx"] = avail["tx"]  BY <1>3, <2>3
  <2>8. Announced'  BY <1>2, <2>1, <2>7 DEF Announced, TxReachable
  <2>9. Heard'  BY <1>2, <2>1, <2>3 DEF Heard
  <2>. QED  BY <2>5, <2>6, <2>8, <2>9
<1>24. CASE ReceiveEnds
  <2>1. /\ phase = "receive" /\ phase' = "guest"
        /\ UNCHANGED <<page_size, registers, notification_pending, interrupt_status,
                       avail, used, faults, driver>>
    BY <1>24 DEF ReceiveEnds, setup, memory
  <2>2. SetUp'  BY <1>2, <2>1 DEF SetUp, queue_configured
  <2>3. InTime' /\ Announced' /\ Heard' /\ Called'
    BY <1>2, <2>1 DEF InTime, Announced, Heard, Called, TxReachable
  <2>. QED  BY <2>2, <2>3
<1>25. CASE UNCHANGED vars
  <2>1. UNCHANGED <<page_size, registers, avail, used, faults, attached, phase, processed,
                    notification_pending, interrupt_status, driver>>
    BY <1>25 DEF vars, setup, memory, polling, loop
  <2>. QED  BY <2>1, QuietStep
<1> HIDE DEF Kept
<1>. QED
  BY <1>5, <1>6, <1>7, <1>8, <1>9, <1>10, <1>11, <1>12, <1>13, <1>14, <1>16, <1>17, <1>18,
     <1>19, <1>20, <1>21, <1>22, <1>23, <1>24, <1>25
  DEF Next, Driver, Device

LEMMA NetAlways == Spec => []NetInv
  BY InitNet, NextNet, PTL DEF Spec

\* A used chain always has the interrupt raised or the handler running, and a
\* frame to send has a notification on its way or the device at it, whatever
\* the bus refuses elsewhere and for every size of the queues.
THEOREM NothingIsStranded == Spec => []NothingStranded
<1>1. NetInv => NothingStranded
  BY DEF NetInv, NothingStranded, Announced, Heard, TxReachable
<1>. QED  BY <1>1, NetAlways, PTL

-----------------------------------------------------------------------------
(* The device implements the channel. *)

\* What the channel sees of the device: nothing else matters to it.
Seen == <<offered, pending_receive_frames, received_frames, avail, used, wire, attached, faults>>

LEMMA Unseen ==
  ASSUME UNCHANGED Seen
  PROVE  UNCHANGED Channel!vars
  BY DEF Seen, Channel!vars, Inbound, Broken

LEMMA TransmitSends ==
  ASSUME NetInv, Transmit
  PROVE  Channel!Send
<1>1. /\ "tx" \in Queues /\ "rx" \in Queues /\ "rx" # "tx" /\ Spoilt \in Filled
      /\ More("tx") /\ complete_chain("tx", Spoilt)
  BY DEF Transmit, Queues, Filled
<1>2. /\ \A k \in Queues : k # "tx" => avail'[k] = avail[k] /\ used'[k] = used[k]
      /\ "used" \notin faults["tx"] => avail'["tx"] = Tail(avail["tx"])
      /\ "used" \in faults["tx"] => UNCHANGED <<avail, used>>
  BY <1>1, CompleteRings
<1>3. avail'["rx"] = avail["rx"] /\ used'["rx"] = used["rx"]  BY <1>1, <1>2
<1>4. UNCHANGED <<offered, pending_receive_frames, received_frames, attached, faults>>
  BY DEF Transmit, FrameSent, slirp, polling
<1>5. UNCHANGED <<Inbound, Broken>>  BY <1>4 DEF Inbound, Broken
<1>6. \A site : site \in faults["tx"] => Broken  BY <1>1 DEF Broken
<1>7. avail["tx"] # <<>>  BY <1>1 DEF More
<1>8. Channel!OnWire(Head(avail["tx"]))
  <2>1. CASE Usable("tx") /\ attached
    <3>1. wire' = [frame |-> Head(avail["tx"]), bit |-> 1 - wire.bit] /\ Head(avail["tx"]) # Unfit
      BY <2>1 DEF Transmit, Usable
    <3>. QED  BY <2>1, <3>1 DEF Channel!OnWire
  <2>2. CASE ~ (Usable("tx") /\ attached)
    <3>1. UNCHANGED wire  BY <2>2 DEF Transmit
    <3>2. Head(avail["tx"]) = Unfit \/ ~attached \/ Broken  BY <1>6, <2>2 DEF Usable
    <3>. QED  BY <3>1, <3>2 DEF Channel!OnWire
  <2>. QED  BY <2>1, <2>2
<1>9. avail'["tx"] = Tail(avail["tx"]) \/ (Broken /\ avail'["tx"] = avail["tx"])
  BY <1>2, <1>6
<1>. QED  BY <1>3, <1>4, <1>5, <1>7, <1>8, <1>9 DEF Channel!Send

LEMMA ReceiveDelivers ==
  ASSUME NetInv, Receive
  PROVE  Channel!Deliver \/ Channel!Lose
<1> DEFINE result == IF Usable("rx") THEN Head(pending_receive_frames) ELSE Spoilt
<1>1. /\ "tx" \in Queues /\ "rx" \in Queues /\ "rx" # "tx"
      /\ More("rx") /\ complete_chain("rx", result)
      /\ pending_receive_frames' = Tail(pending_receive_frames) /\ pending_receive_frames # <<>>
      /\ UNCHANGED <<offered, received_frames, attached, faults, wire>>
  BY DEF Receive, ReceiveMore, Queues, slirp, polling
<1>2. pending_receive_frames \in Seq(FrameIds) /\ received_frames \in Seq(FrameIds)
  BY DEF NetInv, TypeOK
<1>3. Head(pending_receive_frames) \in FrameIds  BY <1>1, <1>2
<1>4. result \in Filled  BY <1>3 DEF Filled
<1>5. /\ Inbound # <<>> /\ Head(Inbound) = Head(pending_receive_frames)
      /\ Inbound' = Tail(Inbound)
  BY <1>1, <1>2, ConcatTail DEF Inbound
<1>6. UNCHANGED Broken  BY <1>1 DEF Broken
<1>7. /\ \A k \in Queues : k # "rx" => avail'[k] = avail[k] /\ used'[k] = used[k]
      /\ "used" \notin faults["rx"] => /\ avail'["rx"] = Tail(avail["rx"])
                                       /\ used'["rx"] = Append(used["rx"], result)
      /\ "used" \in faults["rx"] => UNCHANGED <<avail, used>>
  <2> HIDE DEF result
  <2>. QED  BY <1>1, <1>4, CompleteRings
<1>8. avail'["tx"] = avail["tx"]  BY <1>1, <1>7
<1>9. \A site : site \in faults["rx"] => Broken  BY <1>1 DEF Broken
<1>10. CASE "used" \in faults["rx"]
  <2>1. Channel!Lose  BY <1>1, <1>5, <1>6, <1>7, <1>9, <1>10 DEF Channel!Lose
  <2>. QED  BY <2>1
<1>11. CASE "used" \notin faults["rx"]
  <2>1. avail["rx"] # <<>> /\ avail["rx"] \in Seq({Fit, Unfit})
    <3>1. avail["rx"] \in Seq(Chains("rx"))  BY <1>1, NetTypes DEF NetInv
    <3>. QED  BY <1>1, <3>1 DEF More, Chains
  <2>2. Head(avail["rx"]) \in {Fit, Unfit}  BY <2>1
  <2>3. \/ Head(avail["rx"]) = Fit /\ used'["rx"] = Append(used["rx"], Head(Inbound))
        \/ (Head(avail["rx"]) = Unfit \/ Broken) /\ used'["rx"] = Append(used["rx"], Spoilt)
    <3>1. CASE Usable("rx")  BY <1>5, <1>7, <1>11, <2>2, <3>1 DEF Usable
    <3>2. CASE ~Usable("rx")  BY <1>7, <1>9, <1>11, <3>2 DEF Usable
    <3>. QED  BY <3>1, <3>2
  <2>4. Channel!Deliver
    BY <1>1, <1>5, <1>6, <1>7, <1>8, <1>11, <2>1, <2>3 DEF Channel!Deliver
  <2>. QED  BY <2>4
<1>. QED  BY <1>10, <1>11

LEMMA NextChannel ==
  ASSUME NetInv, [Next]_vars
  PROVE  [Channel!Next]_(Channel!vars)
<1>1. /\ TypeOK /\ "rx" \in Queues /\ "tx" \in Queues /\ "rx" # "tx" /\ MemoryType
      /\ received_frames \in Seq(FrameIds) /\ pending_receive_frames \in Seq(FrameIds)
  BY NetTypes DEF NetInv, TypeOK
<1>2. ASSUME NEW usable \in BOOLEAN, WritePageSize(usable) \/ WriteQueueRegister(usable)
      PROVE  UNCHANGED Channel!vars
  BY <1>2, Unseen DEF WritePageSize, WriteQueueRegister, Seen, slirp, polling, memory
<1>3. ASSUME NEW q \in Queues \cup {"other"}, WriteQueueSelect(q)
      PROVE  UNCHANGED Channel!vars
  BY <1>3, Unseen DEF WriteQueueSelect, Seen, slirp, polling, memory
<1>4. ASSUME NEW q \in Queues, WriteNotify(q) PROVE UNCHANGED Channel!vars
  BY <1>4, Unseen DEF WriteNotify, Seen, slirp, polling, memory
<1>5. CASE WriteAck  BY <1>5, Unseen DEF WriteAck, Seen, slirp, polling, memory
<1>6. CASE HandlerReturns  BY <1>6, Unseen DEF HandlerReturns, Seen, slirp, polling, memory
<1>7. CASE WriteStatusZero
  <2>1. /\ avail' = Empty /\ used' = Empty /\ pending_receive_frames' = <<>>
        /\ UNCHANGED <<offered, received_frames, attached, faults, wire>>
    BY <1>7 DEF WriteStatusZero, slirp
  <2>2. Inbound' = received_frames  BY <1>1, <2>1 DEF Inbound
  <2>3. /\ Len(pending_receive_frames) \in 0 .. Len(Inbound)
        /\ SubSeq(Inbound, Len(pending_receive_frames) + 1, Len(Inbound)) = received_frames
    BY <1>1, ConcatDrop DEF Inbound
  <2>4. UNCHANGED Broken  BY <2>1 DEF Broken
  <2>5. Channel!Reset  BY <2>1, <2>2, <2>3, <2>4, EmptyIs DEF Channel!Reset
  <2>. QED  BY <2>5 DEF Channel!Next
<1>8. ASSUME NEW f \in FaultSets, Start(f) PROVE Channel!Next
  <2>1. avail = Empty /\ UNCHANGED <<offered, pending_receive_frames, received_frames, avail, used,
                                     wire, attached>>
    BY <1>8 DEF Start, NetInv, SetUp, slirp, polling
  <2>2. UNCHANGED Inbound /\ Broken' \in BOOLEAN  BY <2>1 DEF Inbound, Broken
  <2>3. Channel!Place  BY <2>1, <2>2, EmptyIs DEF Channel!Place
  <2>. QED  BY <2>3 DEF Channel!Next
<1>9. ASSUME NEW q \in Queues, NEW chain \in Chains(q), Submit(q, chain) PROVE Channel!Next
  <2>1. /\ avail' = [avail EXCEPT ![q] = Append(@, chain)]
        /\ UNCHANGED <<offered, pending_receive_frames, received_frames, used, wire, attached, faults>>
    BY <1>9 DEF Submit, slirp, polling
  <2>2. UNCHANGED <<Inbound, Broken>>  BY <2>1 DEF Inbound, Broken
  <2>3. \A k \in Queues : avail'[k] = IF k = q THEN Append(avail[k], chain) ELSE avail[k]
    BY <1>1, <2>1 DEF MemoryType
  <2>4. CASE q = "rx"
    <3>1. chain \in {Fit, Unfit}  BY <2>4 DEF Chains
    <3>2. avail'["rx"] = Append(avail["rx"], chain) /\ avail'["tx"] = avail["tx"]
      BY <1>1, <2>3, <2>4
    <3>3. Channel!Post(chain)  BY <2>1, <2>2, <3>2 DEF Channel!Post
    <3>. QED  BY <3>1, <3>3 DEF Channel!Next
  <2>5. CASE q = "tx"
    <3>1. chain \in FrameIds \cup {Unfit}  BY <1>1, <2>5, NetAssumption DEF Chains
    <3>2. avail'["tx"] = Append(avail["tx"], chain) /\ avail'["rx"] = avail["rx"]
      BY <1>1, <2>3, <2>5
    <3>3. Channel!Submit(chain)  BY <2>1, <2>2, <3>2 DEF Channel!Submit
    <3>. QED  BY <3>1, <3>3 DEF Channel!Next
  <2>. QED  BY <2>4, <2>5 DEF Queues
<1>10. ASSUME NEW q \in Queues, TakeUsed(q) PROVE [Channel!Next]_(Channel!vars)
  <2>1. /\ used[q] # <<>> /\ used' = [used EXCEPT ![q] = Tail(@)]
        /\ UNCHANGED <<offered, pending_receive_frames, received_frames, avail, wire, attached, faults>>
    BY <1>10 DEF TakeUsed, slirp, polling
  <2>2. UNCHANGED <<Inbound, Broken>>  BY <2>1 DEF Inbound, Broken
  <2>3. used'["rx"] = IF q = "rx" THEN Tail(used["rx"]) ELSE used["rx"]
    BY <1>1, <2>1 DEF MemoryType
  <2>4. CASE q = "rx"
    <3>1. Channel!Take  BY <2>1, <2>2, <2>3, <2>4 DEF Channel!Take
    <3>. QED  BY <3>1 DEF Channel!Next
  <2>5. CASE q # "rx"  BY <2>1, <2>2, <2>3, <2>5 DEF Channel!vars
  <2>. QED  BY <2>4, <2>5
<1>11. CASE tick
  BY <1>11, Unseen DEF tick, StartPoll, CountCycles, Seen, slirp, memory
<1>12. CASE SlirpCalls
  <2>1. /\ attached
        /\ UNCHANGED <<pending_receive_frames, avail, used, wire, attached, faults>>
    BY <1>12 DEF SlirpCalls, NetInv, Called, polling, memory
  <2>2. UNCHANGED Broken  BY <2>1 DEF Broken
  <2>3. CASE notify
    BY <2>1, <2>3, Unseen DEF notify, Seen
  <2>4. ASSUME send_packet(FALSE)  PROVE Channel!Next \/ UNCHANGED Channel!vars
    <3>1. UNCHANGED <<offered, received_frames>>  BY <2>4 DEF send_packet, Numbered
    <3>. QED  BY <2>1, <3>1, Unseen DEF Seen
  <2>5. ASSUME send_packet(TRUE)  PROVE Channel!Next \/ UNCHANGED Channel!vars
    <3>1. offered' \in FrameIds
      <4>1. (offered + 1) % FrameCount \in 0 .. FrameCount - 1
        <5>1. offered \in Nat /\ FrameCount \in Nat \ {0}
          BY <1>1, SlirpAssumption DEF TypeOK, FrameIds
        <5>. QED  BY <5>1
      <4>. QED  BY <2>5, <4>1 DEF send_packet, Numbered, FrameIds
    <3>2. CASE Len(received_frames) < MaxQueued
      <4>1. received_frames' = Append(received_frames, offered')  BY <2>5, <3>2 DEF send_packet
      <4>2. Inbound' = Append(Inbound, offered')
        <5> DEFINE e == offered'
        <5>1. e \in FrameIds /\ received_frames' = Append(received_frames, e)  BY <3>1, <4>1
        <5> HIDE DEF e
        <5>2. pending_receive_frames \o Append(received_frames, e)
                = Append(pending_receive_frames \o received_frames, e)
          BY <1>1, <5>1, ConcatAppend
        <5>3. Inbound' = pending_receive_frames \o Append(received_frames, e)
          BY <2>1, <5>1 DEF Inbound
        <5>. QED  BY <5>2, <5>3 DEF e, Inbound
      <4>3. Channel!Offer  BY <2>1, <2>2, <3>1, <4>2 DEF Channel!Offer
      <4>. QED  BY <4>3 DEF Channel!Next
    <3>3. CASE ~ (Len(received_frames) < MaxQueued)
      <4>1. received_frames' = received_frames  BY <2>5, <3>3 DEF send_packet
      <4>2. Len(Inbound) >= MaxQueued
        <5>1. Len(Inbound) = Len(pending_receive_frames) + Len(received_frames)
          BY <1>1 DEF Inbound
        <5>2. Len(pending_receive_frames) \in Nat /\ Len(received_frames) \in Nat
              /\ MaxQueued \in Nat
          BY <1>1, SlirpAssumption
        <5>. QED  BY <3>3, <5>1, <5>2
      <4>3. UNCHANGED Inbound  BY <2>1, <4>1 DEF Inbound
      <4>4. Channel!Offer  BY <2>1, <2>2, <3>1, <4>2, <4>3 DEF Channel!Offer
      <4>. QED  BY <4>4 DEF Channel!Next
    <3>. QED  BY <3>2, <3>3
  <2>. QED  BY <1>12, <2>3, <2>4, <2>5 DEF SlirpCalls, Callback
<1>13. CASE SlirpReturns  BY <1>13, Unseen DEF SlirpReturns, Seen, slirp, polling, memory
<1>14. CASE Collect
  <2>1. /\ received_frames # <<>> /\ received_frames' = Tail(received_frames)
        /\ pending_receive_frames' = Append(pending_receive_frames, Head(received_frames))
        /\ UNCHANGED <<offered, avail, used, wire, attached, faults>>
    BY <1>14 DEF Collect, receive_frame, polling, memory
  <2>2. UNCHANGED Inbound  BY <1>1, <2>1, ConcatMove DEF Inbound
  <2>. QED  BY <2>1, <2>2 DEF Channel!vars, Broken
<1>15. CASE CollectEnds  BY <1>15, Unseen DEF CollectEnds, Seen, slirp, polling, memory
<1>16. CASE Transmit  BY <1>16, TransmitSends DEF Channel!Next
<1>17. CASE TransmitEnds  BY <1>17, Unseen DEF TransmitEnds, Seen, slirp, memory
<1>18. CASE Receive  BY <1>18, ReceiveDelivers DEF Channel!Next
<1>19. CASE ReceiveEnds  BY <1>19, Unseen DEF ReceiveEnds, Seen, slirp, polling, memory
<1>20. CASE UNCHANGED vars  BY <1>20, Unseen DEF vars, Seen, slirp, polling, memory
<1>. QED
  BY <1>2, <1>3, <1>4, <1>5, <1>6, <1>7, <1>8, <1>9, <1>10, <1>11, <1>12, <1>13, <1>14,
     <1>15, <1>16, <1>17, <1>18, <1>19, <1>20
  DEF Next, Driver, Device

\* The device, its queues and the backend implement FrameChannel: frames reach
\* the guest in order and once each, one is refused only while the backend's
\* queue is full, and the guest's frames leave in order and once each.
THEOREM ChannelImplemented == Spec => ChannelSpec
<1>1. Init => Channel!Init
  <2>1. SUFFICES ASSUME Init PROVE Channel!Init  OBVIOUS
  <2>2. 0 \in FrameIds  BY SlirpAssumption DEF FrameIds
  <2>3. Inbound = <<>>
    <3>1. pending_receive_frames = <<>> /\ received_frames = <<>>
      BY <2>1 DEF Init, SlirpInit
    <3>2. <<>> \o <<>> = <<>>  OBVIOUS
    <3>. QED  BY <3>1, <3>2 DEF Inbound
  <2>4. Broken = FALSE  BY <2>1 DEF Init, Broken
  <2>5. avail = Empty /\ used = Empty /\ offered = 0 /\ attached \in BOOLEAN
    BY <2>1 DEF Init, SlirpInit
  <2>6. wire \in [frame : FrameIds, bit : {0, 1}]  BY <2>1, <2>2 DEF Init
  <2>. QED  BY <2>2, <2>3, <2>4, <2>5, <2>6, EmptyIs DEF Channel!Init
<1>2. NetInv /\ [Next]_vars => [Channel!Next]_(Channel!vars)  BY NextChannel
<1>. QED  BY <1>1, <1>2, NetAlways, PTL DEF Spec, ChannelSpec, Channel!Spec
====
