----------------------------- MODULE VirtioRing -----------------------------
(***************************************************************************)
(* A split virtqueue as it lies in guest memory, and the guest driver's    *)
(* side of it: the driver publishes the heads of descriptor chains in the  *)
(* available ring and takes them back from the used ring. This is how the  *)
(* devices in devices/src/virtio_block.cpp and virtio_net.cpp expect their *)
(* memory to be used. Indices are 16 bits wide and run freely; a slot is   *)
(* an index modulo the queue size.                                         *)
(***************************************************************************)
EXTENDS Integers, FiniteSets

CONSTANTS
  QueueNum,      \* queue_num_, a power of two
  IndexModulus   \* 2^16

ASSUME RingAssumption ==
  /\ QueueNum \in Nat \ {0} /\ IndexModulus \in Nat
  /\ IndexModulus > QueueNum
  /\ IndexModulus % QueueNum = 0

Heads == 0 .. QueueNum - 1
Indices == 0 .. IndexModulus - 1

Next16(i) == (i + 1) % IndexModulus

\* How far index j is ahead of index i.
Distance(i, j) == (j - i) % IndexModulus

Rings == [avail : [Heads -> Heads], avail_idx : Indices,
          used : [Heads -> Heads], used_idx : Indices,
          last_used : Indices]   \* the driver's own index into the used ring

EmptyRing ==
  [avail |-> [s \in Heads |-> 0], avail_idx |-> 0,
   used |-> [s \in Heads |-> 0], used_idx |-> 0, last_used |-> 0]

Publish(ring, head) ==
  [ring EXCEPT !.avail[ring.avail_idx % QueueNum] = head,
               !.avail_idx = Next16(@)]

Unseen(ring) == ring.last_used # ring.used_idx

NextUsed(ring) == ring.used[ring.last_used % QueueNum]

Reap(ring) == [ring EXCEPT !.last_used = Next16(@)]
=============================================================================
