------------------------- MODULE VirtioBlockProofs -------------------------
(***************************************************************************)
(* Proofs about the block device: that its indices and the driver's stay   *)
(* in step although they wrap, that no request is stranded, that a clean   *)
(* disk is saved, and that the rings implement a queue of requests.        *)
(***************************************************************************)
EXTENDS VirtioBlock, WellOrder, FiniteSetTheorems, SequenceTheorems

-----------------------------------------------------------------------------
(* Indices that wrap, and the slots they fall on. *)

M == IndexModulus
Q == QueueNum

LEMMA ModInt ==
  ASSUME NEW x \in Int, NEW b \in Nat \ {0}
  PROVE  x % b \in 0 .. b - 1 /\ x \div b \in Int /\ x = (x \div b) * b + (x % b)
  OBVIOUS

LEMMA ModUnique ==
  ASSUME NEW q \in Int, NEW b \in Nat \ {0}, NEW r \in 0 .. b - 1
  PROVE  (q * b + r) % b = r
  OBVIOUS

\* Adding a multiple of the divisor leaves the remainder.
LEMMA ModShift ==
  ASSUME NEW x \in Int, NEW b \in Nat \ {0}, NEW q \in Int
  PROVE  (x + q * b) % b = x % b
<1> DEFINE p == x \div b
           r == x % b
<1>1. p \in Int /\ r \in 0 .. b - 1 /\ x = p * b + r  BY ModInt
<1> HIDE DEF p, r
<1>2. (p * b + r) + q * b = (p + q) * b + r
  <2>1. (p + q) * b = p * b + q * b  BY <1>1
  <2>2. p * b \in Int /\ q * b \in Int /\ r \in Int  BY <1>1
  <2>. QED  BY <2>1, <2>2
<1>3. p + q \in Int  BY <1>1
<1>4. ((p + q) * b + r) % b = r  BY <1>1, <1>3, ModUnique
<1>. QED  BY <1>1, <1>2, <1>4 DEF r

\* Remainders of numbers less than the divisor apart differ.
LEMMA ModApart ==
  ASSUME NEW x \in Int, NEW y \in Int, NEW b \in Nat \ {0}, x < y, y - x < b
  PROVE  x % b # y % b
<1> DEFINE p == x \div b
           q == y \div b
           r == x % b
<1>1. SUFFICES ASSUME x % b = y % b PROVE FALSE  OBVIOUS
<1>2. p \in Int /\ r \in Int /\ x = p * b + r  BY ModInt
<1>3. q \in Int /\ y = q * b + r  BY ModInt, <1>1
<1> HIDE DEF p, q, r
<1>4. y - x = (q - p) * b
  <2>1. (q - p) * b = q * b - p * b  BY <1>2, <1>3
  <2>2. p * b \in Int /\ q * b \in Int  BY <1>2, <1>3
  <2>. QED  BY <1>2, <1>3, <2>1, <2>2
<1>5. \A k \in Int : k * b > 0 => k * b >= b
  <2>1. \A k \in Int : (k >= 1 => k * b >= b) /\ (k <= 0 => k * b <= 0)  OBVIOUS
  <2>2. \A k \in Int : k * b \in Int /\ (k >= 1 \/ k <= 0)  OBVIOUS
  <2>. QED  BY <2>1, <2>2
<1>6. q - p \in Int  BY <1>2, <1>3
<1>. QED  BY <1>4, <1>5, <1>6

\* How far one index is ahead of another, without a remainder.
LEMMA DistanceIs ==
  ASSUME NEW i \in Indices, NEW j \in Indices
  PROVE  Distance(i, j) = IF j >= i THEN j - i ELSE j - i + M
<1>1. M \in Nat \ {0} /\ i \in 0 .. M - 1 /\ j \in 0 .. M - 1
  BY RingAssumption DEF Indices, M
<1>2. CASE j >= i
  <2>1. j - i \in 0 .. M - 1 /\ 0 * M + (j - i) = j - i  BY <1>1, <1>2
  <2>2. (0 * M + (j - i)) % M = j - i  BY <1>1, <2>1, ModUnique
  <2>. QED  BY <1>2, <2>1, <2>2 DEF Distance, M
<1>3. CASE ~ (j >= i)
  <2>1. j - i + M \in 0 .. M - 1 /\ (-1) * M + (j - i + M) = j - i  BY <1>1, <1>3
  <2>2. ((-1) * M + (j - i + M)) % M = j - i + M  BY <1>1, <2>1, ModUnique
  <2>. QED  BY <1>3, <2>1, <2>2 DEF Distance, M
<1>. QED  BY <1>2, <1>3

LEMMA Next16Is ==
  ASSUME NEW i \in Indices
  PROVE  Next16(i) = IF i = M - 1 THEN 0 ELSE i + 1
<1>1. M \in Nat \ {0} /\ i \in 0 .. M - 1  BY RingAssumption DEF Indices, M
<1>2. CASE i = M - 1
  <2>1. 0 \in 0 .. M - 1 /\ 1 * M + 0 = i + 1  BY <1>1, <1>2
  <2>2. (1 * M + 0) % M = 0  BY <1>1, <2>1, ModUnique
  <2>. QED  BY <1>2, <2>1, <2>2 DEF Next16, M
<1>3. CASE i # M - 1
  <2>1. i + 1 \in 0 .. M - 1 /\ 0 * M + (i + 1) = i + 1  BY <1>1, <1>3
  <2>2. (0 * M + (i + 1)) % M = i + 1  BY <1>1, <2>1, ModUnique
  <2>. QED  BY <1>3, <2>1, <2>2 DEF Next16, M
<1>. QED  BY <1>2, <1>3

\* An index that wraps has gone round the queue a whole number of times.
LEMMA WholeTurns == \E q \in Int : M = q * Q
<1>1. M \in Int /\ Q \in Nat \ {0} /\ M % Q = 0  BY RingAssumption DEF M, Q
<1> HIDE DEF M, Q
<1>2. M \div Q \in Int /\ M = (M \div Q) * Q + (M % Q)  BY <1>1, ModInt
<1>3. (M \div Q) * Q \in Int  BY <1>1, <1>2
<1>4. M = (M \div Q) * Q  BY <1>1, <1>2, <1>3
<1>. QED  BY <1>2, <1>4

\* The slot k places after an index.
Pos(i, k) == (i + k) % Q

LEMMA PosFacts ==
  ASSUME NEW i \in Indices, NEW k \in Nat
  PROVE  /\ Pos(i, k) \in Heads
         /\ Pos(Next16(i), k) = Pos(i, k + 1)
         /\ Pos(i, 0) = i % Q
<1>1. Q \in Nat \ {0} /\ M \in Nat /\ M > Q /\ i \in 0 .. M - 1
  BY RingAssumption DEF Indices, M, Q
<1>2. i + k \in Int  BY <1>1
<1>3. Pos(i, k) \in Heads
  <2>1. (i + k) % Q \in 0 .. Q - 1  BY <1>1, <1>2, ModInt
  <2>. QED  BY <2>1 DEF Pos, Heads, Q
<1>4. Pos(Next16(i), k) = Pos(i, k + 1)
  <2>1. CASE i = M - 1
    <3>1. PICK q \in Int : M = q * Q  BY WholeTurns
    <3>2. q * Q \in Int  BY <1>1, <3>1
    <3>3. i + (k + 1) = k + q * Q  BY <1>1, <2>1, <3>1, <3>2
    <3>4. (k + q * Q) % Q = k % Q
      <4>1. k \in Int /\ Q \in Nat \ {0}  BY <1>1
      <4>. QED  BY <4>1, ModShift
    <3>5. Next16(i) = 0 /\ 0 + k = k  BY <2>1, Next16Is
    <3>. QED  BY <3>3, <3>4, <3>5 DEF Pos
  <2>2. CASE i # M - 1
    <3>1. Next16(i) = i + 1  BY <2>2, Next16Is
    <3>2. (i + 1) + k = i + (k + 1)  BY <1>1
    <3>. QED  BY <3>1, <3>2 DEF Pos
  <2>. QED  BY <2>1, <2>2
<1>5. i + 0 = i  BY <1>1
<1>. QED  BY <1>3, <1>4, <1>5 DEF Pos

\* From an index to another it is their distance.
LEMMA PosFrom ==
  ASSUME NEW i \in Indices, NEW j \in Indices, NEW k \in Nat
  PROVE  Pos(i, Distance(i, j) + k) = Pos(j, k)
<1>1. Q \in Nat \ {0} /\ M \in Nat /\ M > Q /\ i \in 0 .. M - 1 /\ j \in 0 .. M - 1
  BY RingAssumption DEF Indices, M, Q
<1>2. CASE j >= i
  <2>1. Distance(i, j) = j - i  BY <1>2, DistanceIs
  <2>2. i + ((j - i) + k) = j + k  BY <1>1
  <2>. QED  BY <2>1, <2>2 DEF Pos
<1>3. CASE ~ (j >= i)
  <2>1. Distance(i, j) = j - i + M  BY <1>3, DistanceIs
  <2>2. PICK q \in Int : M = q * Q  BY WholeTurns
  <2>3. q * Q \in Int  BY <1>1, <2>2
  <2>4. i + ((j - i + M) + k) = (j + k) + q * Q  BY <1>1, <2>2, <2>3
  <2>5. j + k \in Int  BY <1>1
  <2>6. ((j + k) + q * Q) % Q = (j + k) % Q  BY <1>1, <2>2, <2>5, ModShift
  <2>. QED  BY <2>1, <2>4, <2>6 DEF Pos
<1>. QED  BY <1>2, <1>3

\* The slots of a full queue are different ones.
LEMMA PosApart ==
  ASSUME NEW i \in Indices, NEW k \in 0 .. Q - 1, NEW m \in 0 .. Q - 1, Pos(i, k) = Pos(i, m)
  PROVE  k = m
<1>1. Q \in Nat \ {0} /\ i \in Int  BY RingAssumption DEF Indices, M, Q
<1>2. ASSUME NEW x \in 0 .. Q - 1, NEW y \in 0 .. Q - 1, x < y
      PROVE  Pos(i, x) # Pos(i, y)
  <2>1. i + x \in Int /\ i + y \in Int /\ i + x < i + y /\ (i + y) - (i + x) < Q
    BY <1>1, <1>2
  <2>. QED  BY <1>1, <2>1, ModApart DEF Pos
<1>3. k < m \/ m < k \/ k = m  BY <1>1
<1>. QED  BY <1>2, <1>3

\* Distances between indices that move.
LEMMA DistanceFacts ==
  ASSUME NEW i \in Indices, NEW j \in Indices
  PROVE  /\ Distance(i, j) \in 0 .. M - 1
         /\ Distance(i, j) = 0 <=> i = j
         /\ Next16(i) \in Indices
         /\ i # j => Distance(Next16(i), j) = Distance(i, j) - 1
         /\ Distance(i, j) < M - 1 => Distance(i, Next16(j)) = Distance(i, j) + 1
<1>1. M \in Nat /\ M > 1 /\ i \in 0 .. M - 1 /\ j \in 0 .. M - 1
  BY RingAssumption DEF Indices, M
<1>2. \A n \in Indices : Next16(n) \in Indices /\ Next16(n) = IF n = M - 1 THEN 0 ELSE n + 1
  <2> TAKE n \in Indices
  <2>1. Next16(n) = IF n = M - 1 THEN 0 ELSE n + 1  BY Next16Is
  <2>. QED  BY <1>1, <2>1 DEF Indices, M
<1>3. \A m, n \in Indices : Distance(m, n) = IF n >= m THEN n - m ELSE n - m + M
  BY DistanceIs
<1>4. Distance(i, j) = IF j >= i THEN j - i ELSE j - i + M  BY <1>3
<1>5. Distance(Next16(i), j) = IF j >= Next16(i) THEN j - Next16(i) ELSE j - Next16(i) + M
  BY <1>2, <1>3
<1>6. Distance(i, Next16(j)) = IF Next16(j) >= i THEN Next16(j) - i ELSE Next16(j) - i + M
  BY <1>2, <1>3
<1>. QED  BY <1>1, <1>2, <1>4, <1>5, <1>6

LEMMA DistanceSplit ==
  ASSUME NEW i \in Indices, NEW j \in Indices, NEW k \in Indices,
         Distance(i, j) <= Distance(i, k)
  PROVE  Distance(j, k) = Distance(i, k) - Distance(i, j)
<1>1. M \in Nat /\ i \in 0 .. M - 1 /\ j \in 0 .. M - 1 /\ k \in 0 .. M - 1
  BY RingAssumption DEF Indices, M
<1>2. /\ Distance(i, j) = IF j >= i THEN j - i ELSE j - i + M
      /\ Distance(i, k) = IF k >= i THEN k - i ELSE k - i + M
      /\ Distance(j, k) = IF k >= j THEN k - j ELSE k - j + M
  BY DistanceIs
<1>. QED  BY <1>1, <1>2

\* What the driver and the device make of a ring, field by field.
LEMMA RingFacts ==
  ASSUME NEW r \in Rings
  PROVE  /\ r.avail \in [Heads -> Heads] /\ r.used \in [Heads -> Heads]
         /\ r.avail_idx \in Indices /\ r.used_idx \in Indices /\ r.last_used \in Indices
  BY DEF Rings

LEMMA PublishIs ==
  ASSUME NEW r \in Rings, NEW h \in Heads
  PROVE  /\ Publish(r, h) \in Rings
         /\ Publish(r, h).avail = [r.avail EXCEPT ![r.avail_idx % Q] = h]
         /\ Publish(r, h).avail_idx = Next16(r.avail_idx)
         /\ Publish(r, h).used = r.used /\ Publish(r, h).used_idx = r.used_idx
         /\ Publish(r, h).last_used = r.last_used
<1>1. Next16(r.avail_idx) \in Indices  BY RingFacts, DistanceFacts
<1>. QED  BY <1>1 DEF Publish, Rings, Q

LEMMA ReapIs ==
  ASSUME NEW r \in Rings
  PROVE  /\ Reap(r) \in Rings
         /\ Reap(r).avail = r.avail /\ Reap(r).avail_idx = r.avail_idx
         /\ Reap(r).used = r.used /\ Reap(r).used_idx = r.used_idx
         /\ Reap(r).last_used = Next16(r.last_used)
<1>1. Next16(r.last_used) \in Indices  BY RingFacts, DistanceFacts
<1>. QED  BY <1>1 DEF Reap, Rings

\* The device writes an element of the used ring, without the index or with it.
Written(r, u, h) == [r EXCEPT !.used[u] = h]
Returned(r, u, h, x) == [r EXCEPT !.used[u] = h, !.used_idx = x]

LEMMA ReturnIs ==
  ASSUME NEW r \in Rings, NEW u, NEW h \in Heads, NEW x \in Indices
  PROVE  /\ Written(r, u, h) \in Rings
         /\ Written(r, u, h).avail = r.avail /\ Written(r, u, h).avail_idx = r.avail_idx
         /\ Written(r, u, h).used_idx = r.used_idx /\ Written(r, u, h).last_used = r.last_used
         /\ Returned(r, u, h, x) \in Rings
         /\ Returned(r, u, h, x).avail = r.avail /\ Returned(r, u, h, x).avail_idx = r.avail_idx
         /\ Returned(r, u, h, x).used = [r.used EXCEPT ![u] = h]
         /\ Returned(r, u, h, x).used_idx = x /\ Returned(r, u, h, x).last_used = r.last_used
  BY DEF Rings, Written, Returned

LEMMA EmptyRingIs == EmptyRing \in Rings
  BY RingAssumption DEF EmptyRing, Rings, Heads, Indices

-----------------------------------------------------------------------------
(* Types. *)

LEMMA IdleIs ==
  /\ Idle \in [phase : {"setup", "running"}, flight : SUBSET Heads,
               owes : BOOLEAN, reaping : BOOLEAN]
  /\ Idle.phase = "setup" /\ Idle.flight = {} /\ ~Idle.owes /\ ~Idle.reaping
  BY DEF Idle

LEMMA InitType == Init => TypeOK
<1>1. 0 \in Indices /\ FALSE \in BOOLEAN  BY RingAssumption DEF Indices
<1>2. {"select", "align"} \subseteq QueueRegisters  BY DEF QueueRegisters
<1>. QED  BY <1>1, <1>2, EmptyRingIs, IdleIs DEF Init, TypeOK

\* A chain that transfers is one of the driver's, and its data are data.
LEMMA StoredType ==
  ASSUME TypeOK, NEW c \in Chains \cup {Malformed}
  PROVE  Stored(c) \in [Sectors -> Data]
<1>1. ASSUME NEW s \in Sectors, c # Malformed, NEW i \in Done(c), s = c.sector + i - 1
      PROVE  c.data[s - c.sector + 1].value \in Data
  <2>1. c.sector \in Nat /\ c.data \in Seq(Descriptors) /\ i \in DOMAIN c.data
    BY <1>1, BlockAssumption DEF Done
  <2>2. i \in Nat /\ s - c.sector + 1 = i  BY <1>1, <2>1
  <2>3. c.data[i] \in Descriptors  BY <2>1
  <2>. QED  BY <2>2, <2>3 DEF Descriptors
<1>2. \A s \in Sectors : disk[s] \in Data  BY DEF TypeOK
<1>. QED  BY <1>1, <1>2 DEF Stored

LEMMA ServedHead ==
  ASSUME TypeOK
  PROVE  /\ CurrentHead \in Heads /\ chains[CurrentHead] \in Chains \cup {Malformed}
         /\ NextUsed(ring) \in Heads
         /\ Advance(used_index) \in Indices /\ Advance(last_available_index) \in Indices
<1>1. \A i \in Indices : i % QueueNum \in Heads
  <2> TAKE i \in Indices
  <2>. QED  BY PosFacts DEF Q
<1>2. ring \in Rings /\ last_available_index \in Indices /\ used_index \in Indices
  BY DEF TypeOK
<1>3. CurrentHead \in Heads /\ NextUsed(ring) \in Heads
  BY <1>1, <1>2, RingFacts DEF CurrentHead, NextUsed
<1>. QED  BY <1>2, <1>3, DistanceFacts DEF TypeOK, Advance

LEMMA NextType ==
  ASSUME TypeOK, [Next]_vars
  PROVE  TypeOK'
<1> USE DEF TypeOK
<1>1. ASSUME NEW r \in QueueRegisters, NEW usable \in BOOLEAN, WriteQueueRegister(r, usable)
      PROVE  TypeOK'
  BY <1>1 DEF WriteQueueRegister, device, storage
<1>2. CASE WriteNotify  BY <1>2 DEF WriteNotify, storage, queue_configured
<1>3. CASE WriteAck  BY <1>3 DEF WriteAck, storage
<1>4. CASE WriteStatusZero
  <2>1. 0 \in Indices  BY RingAssumption DEF Indices
  <2>2. registers' \subseteq QueueRegisters  BY <1>4 DEF WriteStatusZero, QueueRegisters
  <2>. QED  BY <1>4, <2>1, <2>2, EmptyRingIs, IdleIs DEF WriteStatusZero, storage
<1>5. ASSUME NEW f \in FaultSets, Start(f) PROVE TypeOK'
  BY <1>5 DEF Start, device, storage
<1>6. ASSUME NEW h \in Heads, NEW c \in Chains, Submit(h, c) PROVE TypeOK'
  <2>1. ring' \in Rings  BY <1>6, PublishIs DEF Submit
  <2>. QED  BY <1>6, <2>1 DEF Submit, device, storage
<1>7. CASE TakeUsed
  <2>1. ring' \in Rings  BY <1>7, ReapIs DEF TakeUsed
  <2>. QED  BY <1>7, <2>1 DEF TakeUsed, device, storage
<1>8. CASE tick
  <2>1. serving' = None \/ serving' \in Services
    BY <1>8, RingFacts, RingAssumption DEF tick, Services
  <2>. QED  BY <1>8, <2>1 DEF tick, storage
<1>9. CASE Serve
  <2> DEFINE c == chains[CurrentHead]
  <2>1. disk' \in [Sectors -> Data] /\ disk_dirty' \in BOOLEAN /\ saved' \in [Sectors -> Data]
    <3>1. process_request(c)  BY <1>9 DEF Serve
    <3>2. c \in Chains \cup {Malformed}  BY ServedHead
    <3> HIDE DEF c
    <3>. QED  BY <3>1, <3>2, StoredType DEF process_request
  <2>2. ring' \in Rings
    <3>1. CurrentHead \in Heads /\ Advance(used_index) \in Indices  BY ServedHead
    <3> HIDE DEF TypeOK
    <3>2. ring \in Rings  BY DEF TypeOK
    <3>3. \/ UNCHANGED ring
          \/ ring' = Written(ring, used_index % Q, CurrentHead)
          \/ ring' = Returned(ring, used_index % Q, CurrentHead, Advance(used_index))
      BY <1>9 DEF Serve, Written, Returned, Q
    <3>4. ASSUME NEW u, NEW h \in Heads, NEW x \in Indices
          PROVE  Written(ring, u, h) \in Rings /\ Returned(ring, u, h, x) \in Rings
      BY <3>2, ReturnIs
    <3>. QED  BY <3>1, <3>2, <3>3, <3>4
  <2>3. last_available_index' \in Indices /\ used_index' \in Indices
    BY <1>9, ServedHead DEF Serve
  <2>4. serving' = None \/ serving' \in Services
    <3>1. serving \in Services /\ serving.processed < QueueNum  BY <1>9 DEF Serve, More
    <3>2. [serving EXCEPT !.processed = @ + 1] \in Services
      BY <3>1, RingAssumption DEF Services
    <3>. QED  BY <1>9, <3>2 DEF Serve
  <2>5. interrupt_status' \in {0, 1}  BY <1>9 DEF Serve
  <2>. QED  BY <1>9, <2>1, <2>2, <2>3, <2>4, <2>5 DEF Serve
<1>10. CASE Finish  BY <1>10 DEF Finish, storage
<1>11. CASE SaveDisk  BY <1>11 DEF SaveDisk, device
<1>12. CASE UNCHANGED vars  BY <1>12 DEF vars, device, storage
<1>. QED
  BY <1>1, <1>2, <1>3, <1>4, <1>5, <1>6, <1>7, <1>8, <1>9, <1>10, <1>11, <1>12
  DEF Next, Driver, Device

\* Indices keep their sixteen bits, the loop of process_queue never serves
\* more chains than the queue has, and what is stored are sectors.
THEOREM TypeCorrect == Spec => []TypeOK
  BY InitType, NextType, PTL DEF Spec

-----------------------------------------------------------------------------
(* The heads in flight: k places after the last one that the driver took    *)
(* back. The device has put the first of them in the used ring; the others  *)
(* are in the available ring still.                                         *)

Flying(r) == Distance(r.last_used, r.avail_idx)
Back(r) == Distance(r.last_used, r.used_idx)

HeadAt(r, k) ==
  IF k < Back(r) THEN r.used[Pos(r.last_used, k)] ELSE r.avail[Pos(r.last_used, k)]

\* The rings hold exactly the heads in flight, each once.
Holds(r, flight) ==
  /\ Back(r) <= Flying(r)
  /\ Cardinality(flight) = Flying(r)
  /\ \A k \in 0 .. Flying(r) - 1 : HeadAt(r, k) \in flight
  /\ \A k, m \in 0 .. Flying(r) - 1 : HeadAt(r, k) = HeadAt(r, m) => k = m

LEMMA FlightFacts ==
  ASSUME NEW r \in Rings
  PROVE  /\ Flying(r) \in 0 .. M - 1 /\ Back(r) \in 0 .. M - 1
         /\ M \in Nat /\ Q \in Nat \ {0} /\ M > Q
  BY RingFacts, DistanceFacts, RingAssumption DEF Flying, Back, M, Q

\* There are no more of them than the queue has slots.
LEMMA FlightBound ==
  ASSUME NEW r \in Rings, NEW flight \in SUBSET Heads, Holds(r, flight)
  PROVE  /\ IsFiniteSet(flight) /\ Flying(r) <= Q
         /\ \A h \in Heads \ flight : Flying(r) < Q
<1>1. Q \in Nat \ {0} /\ Heads = 0 .. Q - 1 /\ Flying(r) \in Nat
  BY FlightFacts DEF Heads, Q
<1>2. IsFiniteSet(Heads) /\ Cardinality(Heads) = Q
  BY <1>1, FS_Interval
<1>3. IsFiniteSet(flight) /\ Cardinality(flight) <= Q  BY <1>2, FS_Subset
<1>4. ASSUME NEW h \in Heads \ flight PROVE Flying(r) < Q
  <2>1. IsFiniteSet(flight \cup {h}) /\ Cardinality(flight \cup {h}) = Cardinality(flight) + 1
    BY <1>3, FS_AddElement
  <2>2. Cardinality(flight \cup {h}) <= Q
    <3>1. flight \cup {h} \subseteq Heads  OBVIOUS
    <3>. QED  BY <1>2, <3>1, FS_Subset
  <2>. QED  BY <1>1, <2>1, <2>2 DEF Holds
<1>. QED  BY <1>3, <1>4 DEF Holds

\* A head that is submitted comes last.
LEMMA PublishHeads ==
  ASSUME NEW r \in Rings, NEW flight \in SUBSET Heads, Holds(r, flight),
         NEW h \in Heads \ flight, NEW p, p = Publish(r, h)
  PROVE  /\ Flying(p) = Flying(r) + 1 /\ Back(p) = Back(r)
         /\ \A k \in 0 .. Flying(r) - 1 : HeadAt(p, k) = HeadAt(r, k)
         /\ HeadAt(p, Flying(r)) = h
<1>1. /\ p \in Rings /\ p.avail = [r.avail EXCEPT ![r.avail_idx % Q] = h]
      /\ p.avail_idx = Next16(r.avail_idx) /\ p.used = r.used
      /\ p.used_idx = r.used_idx /\ p.last_used = r.last_used
  BY PublishIs
<1>2. /\ r.avail \in [Heads -> Heads] /\ r.last_used \in Indices /\ r.avail_idx \in Indices
  BY RingFacts
<1>3. /\ Flying(r) \in Nat /\ Back(r) \in Nat /\ Q \in Nat /\ M \in Nat /\ M > Q
      /\ Flying(r) < Q /\ Back(r) <= Flying(r)
  BY FlightFacts, FlightBound DEF Holds
<1>4. Flying(p) = Flying(r) + 1 /\ Back(p) = Back(r)
  BY <1>1, <1>2, <1>3, DistanceFacts DEF Flying, Back
<1>5. r.avail_idx % Q = Pos(r.last_used, Flying(r))
  <2>1. Pos(r.last_used, Flying(r) + 0) = Pos(r.avail_idx, 0)  BY <1>2, PosFrom DEF Flying
  <2>2. Flying(r) + 0 = Flying(r)  BY <1>3
  <2>. QED  BY <1>2, <2>1, <2>2, PosFacts
<1>6. ASSUME NEW k \in 0 .. Flying(r) - 1 PROVE HeadAt(p, k) = HeadAt(r, k)
  <2>1. k \in 0 .. Q - 1 /\ Flying(r) \in 0 .. Q - 1 /\ k # Flying(r) /\ k \in Nat  BY <1>3
  <2>2. Pos(r.last_used, k) # r.avail_idx % Q  BY <1>2, <1>5, <2>1, PosApart
  <2>3. Pos(r.last_used, k) \in Heads  BY <1>2, <2>1, PosFacts
  <2>4. p.avail[Pos(r.last_used, k)] = r.avail[Pos(r.last_used, k)]  BY <1>1, <1>2, <2>2, <2>3
  <2>. QED  BY <1>1, <1>4, <2>4 DEF HeadAt
<1>7. HeadAt(p, Flying(r)) = h
  <2>1. Pos(r.last_used, Flying(r)) \in Heads  BY <1>2, <1>3, PosFacts
  <2>2. p.avail[Pos(r.last_used, Flying(r))] = h  BY <1>1, <1>2, <1>5, <2>1
  <2>3. ~ (Flying(r) < Back(p))  BY <1>3, <1>4
  <2>. QED  BY <1>1, <2>2, <2>3 DEF HeadAt
<1>. QED  BY <1>4, <1>6, <1>7

LEMMA PublishHolds ==
  ASSUME NEW r \in Rings, NEW flight \in SUBSET Heads, Holds(r, flight),
         NEW h \in Heads \ flight
  PROVE  Holds(Publish(r, h), flight \cup {h})
<1> DEFINE p == Publish(r, h)
<1>1. /\ Flying(p) = Flying(r) + 1 /\ Back(p) = Back(r)
      /\ \A k \in 0 .. Flying(r) - 1 : HeadAt(p, k) = HeadAt(r, k)
      /\ HeadAt(p, Flying(r)) = h
  BY PublishHeads
<1> HIDE DEF p
<1>2. Flying(r) \in Nat /\ Back(r) \in Nat  BY FlightFacts
<1>3. Cardinality(flight \cup {h}) = Cardinality(flight) + 1  BY FlightBound, FS_AddElement
<1>4. \A k \in 0 .. Flying(p) - 1 : k \in 0 .. Flying(r) - 1 \/ k = Flying(r)  BY <1>1, <1>2
<1>5. ASSUME NEW k \in 0 .. Flying(p) - 1 PROVE HeadAt(p, k) \in flight \cup {h}
  BY <1>1, <1>4 DEF Holds
<1>6. ASSUME NEW k \in 0 .. Flying(p) - 1, NEW m \in 0 .. Flying(p) - 1,
             HeadAt(p, k) = HeadAt(p, m)
      PROVE  k = m
  BY <1>1, <1>4, <1>6 DEF Holds
<1>7. Back(p) <= Flying(p) /\ Cardinality(flight \cup {h}) = Flying(p)
  BY <1>1, <1>2, <1>3 DEF Holds
<1>8. Holds(p, flight \cup {h})  BY <1>5, <1>6, <1>7 DEF Holds
<1>. QED  BY <1>8 DEF p

\* The driver takes the first one back.
LEMMA ReapHeads ==
  ASSUME NEW r \in Rings, NEW flight \in SUBSET Heads, Holds(r, flight), Unseen(r),
         NEW p, p = Reap(r)
  PROVE  /\ Flying(p) = Flying(r) - 1 /\ Back(p) = Back(r) - 1 /\ Back(r) > 0
         /\ NextUsed(r) = HeadAt(r, 0)
         /\ \A k \in 0 .. Flying(p) - 1 : HeadAt(p, k) = HeadAt(r, k + 1)
<1>1. /\ p.avail = r.avail /\ p.avail_idx = r.avail_idx /\ p.used = r.used
      /\ p.used_idx = r.used_idx /\ p.last_used = Next16(r.last_used)
  BY ReapIs
<1>2. r.last_used \in Indices /\ r.avail_idx \in Indices /\ r.used_idx \in Indices
  BY RingFacts
<1>3. Flying(r) \in Nat /\ Back(r) \in Nat /\ Back(r) <= Flying(r)  BY FlightFacts DEF Holds
<1>4. Back(r) > 0 /\ Flying(r) > 0
  <2>1. Back(r) # 0  BY <1>2, DistanceFacts DEF Unseen, Back
  <2>. QED  BY <1>3, <2>1
<1>5. Flying(p) = Flying(r) - 1 /\ Back(p) = Back(r) - 1
  <2>1. r.last_used # r.avail_idx
    <3>1. Distance(r.last_used, r.avail_idx) = 0 <=> r.last_used = r.avail_idx
      BY <1>2, DistanceFacts
    <3>. QED  BY <1>3, <1>4, <3>1 DEF Flying
  <2>. QED  BY <1>1, <1>2, <2>1, DistanceFacts DEF Flying, Back, Unseen
<1>6. ASSUME NEW k \in 0 .. Flying(p) - 1 PROVE HeadAt(p, k) = HeadAt(r, k + 1)
  <2>1. k \in Nat  BY <1>3, <1>5
  <2>2. Pos(p.last_used, k) = Pos(r.last_used, k + 1)  BY <1>1, <1>2, <2>1, PosFacts
  <2>3. k < Back(p) <=> k + 1 < Back(r)  BY <1>3, <1>5, <2>1
  <2>. QED  BY <1>1, <2>2, <2>3 DEF HeadAt
<1>7. NextUsed(r) = HeadAt(r, 0)
  <2>1. Pos(r.last_used, 0) = r.last_used % QueueNum  BY <1>2, PosFacts DEF Q
  <2>. QED  BY <1>4, <2>1 DEF HeadAt, NextUsed
<1>. QED  BY <1>4, <1>5, <1>6, <1>7

LEMMA ReapHolds ==
  ASSUME NEW r \in Rings, NEW flight \in SUBSET Heads, Holds(r, flight), Unseen(r)
  PROVE  Holds(Reap(r), flight \ {NextUsed(r)})
<1> DEFINE p == Reap(r)
<1>1. /\ Flying(p) = Flying(r) - 1 /\ Back(p) = Back(r) - 1 /\ Back(r) > 0
      /\ NextUsed(r) = HeadAt(r, 0)
      /\ \A k \in 0 .. Flying(p) - 1 : HeadAt(p, k) = HeadAt(r, k + 1)
  BY ReapHeads
<1> HIDE DEF p
<1>2. Flying(r) \in Nat /\ Back(r) \in Nat /\ Back(r) <= Flying(r)  BY FlightFacts DEF Holds
<1>3. 0 \in 0 .. Flying(r) - 1
      /\ \A k \in 0 .. Flying(p) - 1 : k + 1 \in 0 .. Flying(r) - 1 /\ k + 1 # 0 /\ k \in Nat
  BY <1>1, <1>2
<1>4. HeadAt(r, 0) \in flight  BY <1>3 DEF Holds
<1>5. Cardinality(flight \ {HeadAt(r, 0)}) = Cardinality(flight) - 1
  BY <1>4, FlightBound, FS_RemoveElement
<1>6. ASSUME NEW k \in 0 .. Flying(p) - 1
      PROVE  HeadAt(p, k) \in flight \ {HeadAt(r, 0)}
  BY <1>1, <1>3 DEF Holds
<1>7. ASSUME NEW k \in 0 .. Flying(p) - 1, NEW m \in 0 .. Flying(p) - 1,
             HeadAt(p, k) = HeadAt(p, m)
      PROVE  k = m
  <2>1. k + 1 = m + 1  BY <1>1, <1>3, <1>7 DEF Holds
  <2>. QED  BY <1>3, <2>1
<1>8. Back(p) <= Flying(p) /\ Cardinality(flight \ {HeadAt(r, 0)}) = Flying(p)
  BY <1>1, <1>2, <1>5 DEF Holds
<1>9. Holds(p, flight \ {NextUsed(r)})  BY <1>1, <1>6, <1>7, <1>8 DEF Holds
<1>. QED  BY <1>9 DEF p

\* The device moves the first one in the available ring to the used ring, and
\* the head keeps its place.
LEMMA ReturnHeads ==
  ASSUME NEW r \in Rings, NEW flight \in SUBSET Heads, Holds(r, flight),
         r.used_idx # r.avail_idx,
         NEW p, p = Returned(r, r.used_idx % Q, r.avail[r.used_idx % Q], Next16(r.used_idx))
  PROVE  /\ Flying(p) = Flying(r) /\ Back(p) = Back(r) + 1 /\ Back(r) < Flying(r)
         /\ \A k \in 0 .. Flying(r) - 1 : HeadAt(p, k) = HeadAt(r, k)
<1> DEFINE s == r.used_idx % Q
<1>1. /\ r.avail \in [Heads -> Heads] /\ r.used \in [Heads -> Heads]
      /\ r.last_used \in Indices /\ r.avail_idx \in Indices /\ r.used_idx \in Indices
      /\ Next16(r.used_idx) \in Indices
  BY RingFacts, DistanceFacts
<1>2. s \in Heads /\ s = Pos(r.last_used, Back(r))
  <2>1. Pos(r.last_used, Back(r) + 0) = Pos(r.used_idx, 0)  BY <1>1, PosFrom DEF Back
  <2>2. Back(r) + 0 = Back(r)  BY FlightFacts
  <2>. QED  BY <1>1, <2>1, <2>2, PosFacts
<1>3. /\ p.avail = r.avail /\ p.avail_idx = r.avail_idx
      /\ p.used = [r.used EXCEPT ![s] = r.avail[s]]
      /\ p.used_idx = Next16(r.used_idx) /\ p.last_used = r.last_used
  <2> DEFINE h == r.avail[s]
             x == Next16(r.used_idx)
  <2>1. h \in Heads /\ x \in Indices /\ p = Returned(r, s, h, x)  BY <1>1, <1>2
  <2> HIDE DEF s, h, x
  <2>2. /\ Returned(r, s, h, x).avail = r.avail /\ Returned(r, s, h, x).avail_idx = r.avail_idx
        /\ Returned(r, s, h, x).used = [r.used EXCEPT ![s] = h]
        /\ Returned(r, s, h, x).used_idx = x /\ Returned(r, s, h, x).last_used = r.last_used
    BY <2>1 DEF Rings, Returned
  <2>. QED  BY <2>1, <2>2 DEF h, x
<1> HIDE DEF s
<1>4. /\ Flying(r) \in Nat /\ Back(r) \in Nat /\ Flying(r) <= Q /\ Back(r) <= Flying(r)
      /\ Q \in Nat /\ M \in Nat /\ M > Q
  BY FlightFacts, FlightBound DEF Holds
<1>5. Back(r) < Flying(r)
  <2>1. Distance(r.used_idx, r.avail_idx) = Flying(r) - Back(r)
    BY <1>1, <1>4, DistanceSplit DEF Flying, Back
  <2>2. Distance(r.used_idx, r.avail_idx) # 0  BY <1>1, DistanceFacts
  <2>. QED  BY <1>4, <2>1, <2>2
<1>6. Flying(p) = Flying(r) /\ Back(p) = Back(r) + 1
  <2>1. Distance(r.last_used, r.used_idx) < M - 1  BY <1>4, <1>5 DEF Back
  <2>2. Distance(r.last_used, Next16(r.used_idx)) = Distance(r.last_used, r.used_idx) + 1
    BY <1>1, <2>1, DistanceFacts
  <2>. QED  BY <1>3, <2>2 DEF Flying, Back
<1>7. ASSUME NEW k \in 0 .. Flying(r) - 1 PROVE HeadAt(p, k) = HeadAt(r, k)
  <2> DEFINE x == Pos(r.last_used, k)
  <2>1. k \in Nat /\ k \in 0 .. Q - 1 /\ Back(r) \in 0 .. Q - 1  BY <1>4, <1>5
  <2>2. x \in Heads /\ (x = s => k = Back(r))  BY <1>1, <1>2, <2>1, PosFacts, PosApart
  <2>3. HeadAt(p, k) = IF k < Back(r) + 1 THEN p.used[x] ELSE r.avail[x]
    BY <1>3, <1>6 DEF HeadAt
  <2>4. HeadAt(r, k) = IF k < Back(r) THEN r.used[x] ELSE r.avail[x]  BY DEF HeadAt
  <2>5. p.used[x] = IF x = s THEN r.avail[x] ELSE r.used[x]  BY <1>1, <1>3, <2>2
  <2>6. k = Back(r) => x = s  BY <1>2
  <2> HIDE DEF x
  <2>. QED  BY <1>4, <2>1, <2>2, <2>3, <2>4, <2>5, <2>6
<1>. QED  BY <1>5, <1>6, <1>7

LEMMA ReturnHolds ==
  ASSUME NEW r \in Rings, NEW flight \in SUBSET Heads, Holds(r, flight),
         r.used_idx # r.avail_idx,
         NEW p, p = Returned(r, r.used_idx % Q, r.avail[r.used_idx % Q], Next16(r.used_idx))
  PROVE  Holds(p, flight)
<1>1. /\ Flying(p) = Flying(r) /\ Back(p) = Back(r) + 1 /\ Back(r) < Flying(r)
      /\ \A k \in 0 .. Flying(r) - 1 : HeadAt(p, k) = HeadAt(r, k)
  BY ReturnHeads
<1>2. Flying(r) \in Nat /\ Back(r) \in Nat  BY FlightFacts
<1>3. Back(p) <= Flying(p)  BY <1>1, <1>2
<1>. QED  BY <1>1, <1>3 DEF Holds

\* An element of the used ring is written that no index reaches.
LEMMA WrittenHeads ==
  ASSUME NEW r \in Rings, NEW u, NEW h \in Heads, r.last_used = r.used_idx,
         NEW p, p = Written(r, u, h)
  PROVE  /\ Flying(p) = Flying(r) /\ Back(p) = 0 /\ Back(r) = 0
         /\ \A k \in Nat : HeadAt(p, k) = HeadAt(r, k)
<1>1. /\ p.avail = r.avail /\ p.avail_idx = r.avail_idx
      /\ p.used_idx = r.used_idx /\ p.last_used = r.last_used
  BY DEF Rings, Written
<1>2. Flying(p) = Flying(r) /\ Back(p) = Back(r)  BY <1>1 DEF Flying, Back
<1>3. Back(r) = 0
  <2>1. r.last_used \in Indices  BY RingFacts
  <2>. QED  BY <2>1, DistanceFacts DEF Back
<1>4. ASSUME NEW k \in Nat PROVE HeadAt(p, k) = HeadAt(r, k)
  BY <1>1, <1>2, <1>3 DEF HeadAt
<1>. QED  BY <1>2, <1>3, <1>4

-----------------------------------------------------------------------------
(* The inductive invariant. *)

\* The device and the driver agree on how far the device has come. Where the
\* used index cannot be written, the device's own runs ahead of it and the
\* driver gets nothing back.
InStep ==
  /\ last_available_index = ring.used_idx
  /\ "used_idx" \notin faults => used_index = ring.used_idx
  /\ "used_idx" \in faults => ring.last_used = ring.used_idx

\* A queue being set up is empty; a running one is configured.
SetUp ==
  /\ driver.phase = "setup" =>
       /\ ring = EmptyRing /\ driver.flight = {}
       /\ last_available_index = 0 /\ used_index = 0
  /\ driver.phase = "running" => queue_configured

\* The index that process_queue read is still the driver's, and its bound on
\* the number of chains leaves room for all that are available.
InTime ==
  serving # None =>
    /\ serving \in Services
    /\ serving.until = ring.avail_idx
    /\ serving.processed + Distance(last_available_index, ring.avail_idx) <= Q

RingInv == TypeOK /\ InStep /\ Holds(ring, driver.flight) /\ SetUp /\ InTime

LEMMA EmptyHolds ==
  /\ Holds(EmptyRing, {}) /\ Flying(EmptyRing) = 0 /\ Back(EmptyRing) = 0
  /\ EmptyRing.avail_idx = 0 /\ EmptyRing.used_idx = 0 /\ EmptyRing.last_used = 0
<1>1. EmptyRing.avail_idx = 0 /\ EmptyRing.used_idx = 0 /\ EmptyRing.last_used = 0
  BY DEF EmptyRing
<1>2. 0 \in Indices  BY RingAssumption DEF Indices
<1>3. Distance(0, 0) = 0  BY <1>2, DistanceFacts
<1>4. Flying(EmptyRing) = 0 /\ Back(EmptyRing) = 0  BY <1>1, <1>3 DEF Flying, Back
<1>5. Cardinality({}) = 0  BY FS_EmptySet
<1>. QED  BY <1>1, <1>4, <1>5 DEF Holds

LEMMA InitRing == Init => RingInv
<1>1. SUFFICES ASSUME Init PROVE RingInv  OBVIOUS
<1>2. TypeOK  BY <1>1, InitType
<1>3. InStep /\ Holds(ring, driver.flight) /\ SetUp
  BY <1>1, EmptyHolds, IdleIs DEF Init, InStep, SetUp
<1>4. InTime  BY <1>1 DEF Init, InTime
<1>. QED  BY <1>2, <1>3, <1>4 DEF RingInv

\* What is left to serve are the heads in flight that are not back.
LEMMA LeftToServe ==
  ASSUME RingInv
  PROVE  /\ Distance(last_available_index, ring.avail_idx) = Flying(ring) - Back(ring)
         /\ Flying(ring) \in 0 .. Q /\ Back(ring) \in 0 .. Flying(ring)
<1>1. ring \in Rings /\ driver.flight \in SUBSET Heads /\ Holds(ring, driver.flight)
      /\ last_available_index = ring.used_idx
  BY DEF RingInv, TypeOK, InStep
<1>2. ring.avail_idx \in Indices /\ ring.used_idx \in Indices /\ ring.last_used \in Indices
  BY <1>1, RingFacts
<1>3. Flying(ring) \in Nat /\ Back(ring) \in Nat /\ Q \in Nat /\ Flying(ring) <= Q
      /\ Back(ring) <= Flying(ring)
  BY <1>1, FlightFacts, FlightBound DEF Holds
<1>4. Distance(ring.used_idx, ring.avail_idx) = Flying(ring) - Back(ring)
  BY <1>2, <1>3, DistanceSplit DEF Flying, Back
<1>. QED  BY <1>1, <1>3, <1>4

\* The three ways process_queue can go on after a request.
LEMMA ServeIs ==
  ASSUME RingInv, Serve
  PROVE  /\ ring.used_idx # ring.avail_idx /\ serving \in Services /\ serving # None
         /\ serving.processed < QueueNum
         /\ \/ "used" \in faults /\ serving' = None
               /\ UNCHANGED <<last_available_index, used_index, ring>>
            \/ /\ "used_idx" \in faults /\ serving' = None
               /\ ring' = Written(ring, used_index % Q, CurrentHead)
               /\ UNCHANGED last_available_index
            \/ /\ "used_idx" \notin faults
               /\ ring' = Returned(ring, ring.used_idx % Q, ring.avail[ring.used_idx % Q],
                                   Next16(ring.used_idx))
               /\ used_index' = Next16(ring.used_idx)
               /\ last_available_index' = Next16(ring.used_idx)
               /\ serving' = [serving EXCEPT !.processed = @ + 1]
               /\ interrupt_status' = 1
<1>1. serving # None /\ last_available_index # serving.until /\ serving.processed < QueueNum
  BY DEF Serve, More
<1>2. /\ last_available_index = ring.used_idx /\ serving.until = ring.avail_idx
      /\ ("used_idx" \notin faults => used_index = ring.used_idx) /\ serving \in Services
  BY <1>1 DEF RingInv, InStep, InTime
<1>3. CurrentHead = ring.avail[ring.used_idx % Q]  BY <1>2 DEF CurrentHead, Q
<1>4. CASE "used" \in faults  BY <1>1, <1>2, <1>4 DEF Serve
<1>5. CASE "used" \notin faults /\ "used_idx" \in faults
  BY <1>1, <1>2, <1>5 DEF Serve, Written, Q
<1>6. CASE "used" \notin faults /\ "used_idx" \notin faults
  <2>1. /\ ring' = [ring EXCEPT !.used[used_index % QueueNum] = CurrentHead,
                                !.used_idx = Advance(used_index)]
        /\ used_index' = Advance(used_index)
        /\ last_available_index' = Advance(last_available_index)
        /\ serving' = [serving EXCEPT !.processed = @ + 1] /\ interrupt_status' = 1
    BY <1>6 DEF Serve
  <2>2. used_index = ring.used_idx  BY <1>2, <1>6
  <2>3. ring' = Returned(ring, ring.used_idx % Q, CurrentHead, Next16(ring.used_idx))
    BY <2>1, <2>2 DEF Returned, Q, Advance
  <2>. QED  BY <1>1, <1>2, <1>3, <1>6, <2>1, <2>2, <2>3 DEF Advance
<1>. QED  BY <1>4, <1>5, <1>6

LEMMA NextRing ==
  ASSUME RingInv, [Next]_vars
  PROVE  RingInv'
<1>1. TypeOK'  BY NextType DEF RingInv
<1>2. ring \in Rings /\ driver.flight \in SUBSET Heads /\ Holds(ring, driver.flight)
  BY DEF RingInv, TypeOK
<1> SUFFICES InStep' /\ Holds(ring', driver'.flight) /\ SetUp' /\ InTime'
  BY <1>1 DEF RingInv
<1> USE DEF RingInv
<1>3. ASSUME NEW r \in QueueRegisters, NEW usable \in BOOLEAN, WriteQueueRegister(r, usable)
      PROVE  InStep' /\ Holds(ring', driver'.flight) /\ SetUp' /\ InTime'
  <2>1. driver.phase = "setup" /\ UNCHANGED <<device, ring, faults, driver>>
    BY <1>3 DEF WriteQueueRegister
  <2>2. SetUp'  BY <2>1 DEF SetUp, device
  <2>. QED  BY <1>2, <2>1, <2>2 DEF InStep, InTime, device
<1>4. CASE WriteNotify
  <2>1. /\ UNCHANGED <<registers, last_available_index, used_index, serving, ring, faults>>
        /\ driver'.phase = driver.phase /\ driver'.flight = driver.flight
    BY <1>4 DEF WriteNotify, TypeOK
  <2>. QED  BY <1>2, <2>1 DEF InStep, SetUp, InTime, queue_configured
<1>5. CASE WriteAck
  <2>1. /\ UNCHANGED <<registers, last_available_index, used_index, serving, ring, faults>>
        /\ driver'.phase = driver.phase /\ driver'.flight = driver.flight
    BY <1>5 DEF WriteAck, TypeOK
  <2>. QED  BY <1>2, <2>1 DEF InStep, SetUp, InTime, queue_configured
<1>6. CASE WriteStatusZero
  <2>1. /\ ring' = EmptyRing /\ driver' = Idle /\ serving' = None
        /\ last_available_index' = 0 /\ used_index' = 0
    BY <1>6 DEF WriteStatusZero
  <2>. QED  BY <2>1, EmptyHolds, IdleIs DEF InStep, SetUp, InTime
<1>7. ASSUME NEW f \in FaultSets, Start(f)
      PROVE  InStep' /\ Holds(ring', driver'.flight) /\ SetUp' /\ InTime'
  <2>1. /\ driver.phase = "setup" /\ serving = None /\ queue_configured
        /\ UNCHANGED <<registers, last_available_index, used_index, serving, ring>>
        /\ driver'.phase = "running" /\ driver'.flight = driver.flight
    BY <1>7 DEF Start, Quiet, device, TypeOK
  <2>2. ring = EmptyRing /\ last_available_index = 0 /\ used_index = 0  BY <2>1 DEF SetUp
  <2>. QED  BY <1>2, <2>1, <2>2, EmptyHolds DEF InStep, SetUp, InTime, queue_configured
<1>8. ASSUME NEW h \in Heads, NEW c \in Chains, Submit(h, c)
      PROVE  InStep' /\ Holds(ring', driver'.flight) /\ SetUp' /\ InTime'
  <2>1. /\ driver.phase = "running" /\ serving = None /\ h \in Heads \ driver.flight
        /\ ring' = Publish(ring, h)
        /\ UNCHANGED <<registers, last_available_index, used_index, serving, faults>>
        /\ driver'.phase = driver.phase /\ driver'.flight = driver.flight \cup {h}
    BY <1>8 DEF Submit, Quiet, device, TypeOK
  <2>2. Holds(ring', driver'.flight)  BY <1>2, <2>1, PublishHolds
  <2>3. ring'.used_idx = ring.used_idx /\ ring'.last_used = ring.last_used
    BY <1>2, <2>1, PublishIs
  <2>. QED  BY <2>1, <2>2, <2>3 DEF InStep, SetUp, InTime, queue_configured
<1>9. CASE TakeUsed
  <2>1. /\ serving = None
        /\ UNCHANGED <<registers, last_available_index, used_index, serving, faults>>
        /\ driver'.phase = driver.phase
    BY <1>9 DEF TakeUsed, Quiet, device, TypeOK
  <2>2. CASE Unseen(ring)
    <3>1. ring' = Reap(ring) /\ driver'.flight = driver.flight \ {NextUsed(ring)}
      BY <1>9, <2>2 DEF TakeUsed, TypeOK
    <3>2. Holds(ring', driver'.flight)  BY <1>2, <2>2, <3>1, ReapHolds
    <3>3. ring'.used_idx = ring.used_idx  BY <1>2, <3>1, ReapIs
    <3>4. "used_idx" \notin faults  BY <2>2 DEF InStep, Unseen
    <3>5. driver.phase = "running"
      BY <2>2, EmptyHolds DEF SetUp, Unseen, TypeOK
    <3>. QED  BY <2>1, <3>2, <3>3, <3>4, <3>5 DEF InStep, SetUp, InTime, queue_configured
  <2>3. CASE ~Unseen(ring)
    <3>1. ring' = ring /\ driver'.flight = driver.flight
      BY <1>9, <2>3 DEF TakeUsed, TypeOK
    <3>. QED  BY <1>2, <2>1, <3>1 DEF InStep, SetUp, InTime, queue_configured
  <2>. QED  BY <2>2, <2>3
<1>10. CASE tick
  <2>1. UNCHANGED <<registers, last_available_index, used_index, ring, faults, driver>>
    BY <1>10 DEF tick
  <2>2. InTime'
    <3>1. SUFFICES ASSUME serving' # None
                   PROVE  /\ serving' \in Services /\ serving'.until = ring.avail_idx
                          /\ serving'.processed
                             + Distance(last_available_index, ring.avail_idx) <= Q
      BY <2>1 DEF InTime
    <3>2. serving' = [until |-> ring.avail_idx, processed |-> 0]  BY <1>10, <3>1 DEF tick
    <3>3. serving' \in Services  BY <1>1, <3>1 DEF TypeOK
    <3>4. Distance(last_available_index, ring.avail_idx) \in 0 .. Q
      <4>1. Q \in Nat  BY RingAssumption DEF Q
      <4>. QED  BY <4>1, LeftToServe
    <3>5. serving'.until = ring.avail_idx /\ serving'.processed = 0  BY <3>2
    <3>6. Q \in Nat  BY RingAssumption DEF Q
    <3>. QED  BY <3>3, <3>4, <3>5, <3>6
  <2>. QED  BY <1>2, <2>1, <2>2 DEF InStep, SetUp, queue_configured
<1>11. CASE Serve
  <2>1. UNCHANGED <<registers, faults, driver>>  BY <1>11 DEF Serve
  <2>2. ring.used_idx # ring.avail_idx /\ serving \in Services /\ serving # None
        /\ serving.processed < QueueNum
    BY <1>11, ServeIs
  <2>3. driver.phase = "running"
    BY <2>2, EmptyHolds DEF SetUp, TypeOK
  <2>4. SetUp'  BY <2>1, <2>3 DEF SetUp, queue_configured
  <2>5. CASE "used" \in faults /\ serving' = None
             /\ UNCHANGED <<last_available_index, used_index, ring>>
    BY <1>2, <2>1, <2>4, <2>5 DEF InStep, InTime
  <2>6. CASE /\ "used_idx" \in faults /\ serving' = None
             /\ ring' = Written(ring, used_index % Q, CurrentHead)
             /\ UNCHANGED last_available_index
    <3> DEFINE u == used_index % Q
               h == CurrentHead
    <3>1. h \in Heads /\ ring' = Written(ring, u, h)  BY <2>6, ServedHead
    <3> HIDE DEF u, h
    <3>2. ring'.used_idx = ring.used_idx /\ ring'.last_used = ring.last_used
      BY <1>2, <3>1 DEF Rings, Written
    <3>3. ring.last_used = ring.used_idx  BY <2>6 DEF InStep
    <3>4. InStep'  BY <2>1, <2>6, <3>2, <3>3 DEF InStep
    <3>5. /\ Flying(ring') = Flying(ring) /\ Back(ring') = 0 /\ Back(ring) = 0
          /\ \A k \in Nat : HeadAt(ring', k) = HeadAt(ring, k)
      BY <1>2, <3>1, <3>3, WrittenHeads
    <3>6. \A k \in 0 .. Flying(ring) - 1 : k \in Nat  BY <1>2, FlightFacts
    <3>7. Holds(ring', driver.flight)  BY <1>2, <3>5, <3>6 DEF Holds
    <3>. QED  BY <2>1, <2>4, <2>6, <3>4, <3>7 DEF InTime
  <2>7. CASE /\ "used_idx" \notin faults
             /\ ring' = Returned(ring, ring.used_idx % Q, ring.avail[ring.used_idx % Q],
                                 Next16(ring.used_idx))
             /\ used_index' = Next16(ring.used_idx)
             /\ last_available_index' = Next16(ring.used_idx)
             /\ serving' = [serving EXCEPT !.processed = @ + 1]
    <3>1. Holds(ring', driver.flight)  BY <1>2, <2>2, <2>7, ReturnHolds
    <3>2. /\ ring'.used_idx = Next16(ring.used_idx) /\ ring'.avail_idx = ring.avail_idx
      <4> DEFINE u == ring.used_idx % Q
                 h == ring.avail[u]
                 x == Next16(ring.used_idx)
      <4>1. ring' = Returned(ring, u, h, x)  BY <2>7
      <4> HIDE DEF u, h, x
      <4>2. ring'.used_idx = x /\ ring'.avail_idx = ring.avail_idx
        BY <1>2, <4>1 DEF Rings, Returned
      <4>. QED  BY <4>2 DEF x
    <3>3. InStep'  BY <2>1, <2>7, <3>2 DEF InStep
    <3>4. InTime'
      <4> DEFINE L == last_available_index
                 A == ring.avail_idx
      <4>1. L = ring.used_idx /\ serving.until = A
            /\ serving.processed + Distance(L, A) <= Q
        BY <2>2 DEF InStep, InTime
      <4>2. L \in Indices /\ A \in Indices /\ L # A
        BY <1>2, <2>2, <4>1, RingFacts
      <4>3. Distance(Next16(L), A) = Distance(L, A) - 1 /\ Distance(L, A) \in 0 .. M - 1
        BY <4>2, DistanceFacts
      <4>4. M \in Nat /\ Q \in Nat /\ serving.processed \in Nat
        BY <2>2, RingAssumption DEF M, Q, Services
      <4>5. serving' \in Services /\ serving'.until = A
            /\ serving'.processed = serving.processed + 1
        BY <2>2, <2>7, <4>1, RingAssumption DEF Services
      <4>6. last_available_index' = Next16(L) /\ ring'.avail_idx = A  BY <2>7, <3>2, <4>1
      <4> HIDE DEF L, A
      <4>7. serving'.processed + Distance(Next16(L), A) <= Q  BY <4>1, <4>3, <4>4, <4>5
      <4>. QED  BY <4>5, <4>6, <4>7 DEF InTime
    <3>. QED  BY <2>1, <2>4, <3>1, <3>3, <3>4
  <2>. QED  BY <1>11, <2>5, <2>6, <2>7, ServeIs
<1>12. CASE Finish
  <2>1. /\ serving' = None
        /\ UNCHANGED <<registers, last_available_index, used_index, ring, faults, driver>>
    BY <1>12 DEF Finish
  <2>. QED  BY <1>2, <2>1 DEF InStep, SetUp, InTime, queue_configured
<1>13. CASE SaveDisk
  BY <1>2, <1>13 DEF SaveDisk, InStep, SetUp, InTime, queue_configured, device
<1>14. CASE UNCHANGED vars
  BY <1>2, <1>14 DEF vars, InStep, SetUp, InTime, queue_configured, device
<1>. QED
  BY <1>3, <1>4, <1>5, <1>6, <1>7, <1>8, <1>9, <1>10, <1>11, <1>12, <1>13, <1>14
  DEF Next, Driver, Device

LEMMA RingAlways == Spec => []RingInv
  BY InitRing, NextRing, PTL DEF Spec

-----------------------------------------------------------------------------
(* No request is stranded and no completion goes unheard. *)

LEMMA NextStranded ==
  ASSUME RingInv, NothingStranded, [Next]_vars
  PROVE  NothingStranded'
<1> DEFINE Waits == driver.owes \/ notification_pending \/ serving # None
           Heard == interrupt_status = 1 \/ driver.reaping
<1>1. ring \in Rings /\ TypeOK /\ last_available_index = ring.used_idx
  BY DEF RingInv, TypeOK, InStep
<1>2. SUFFICES ASSUME RingFaults' = {}
               PROVE  /\ last_available_index' # ring'.avail_idx => Waits'
                      /\ Unseen(ring') => Heard'
  BY DEF NothingStranded
<1>3. ASSUME NEW r \in QueueRegisters, NEW usable \in BOOLEAN, WriteQueueRegister(r, usable)
      PROVE  /\ last_available_index' # ring'.avail_idx => Waits'
             /\ Unseen(ring') => Heard'
  BY <1>2, <1>3 DEF WriteQueueRegister, NothingStranded, RingFaults, device
<1>4. CASE WriteNotify
  <2>1. last_available_index # ring.avail_idx => notification_pending'
    <3>1. last_available_index # ring.avail_idx => driver.phase = "running"
      BY <1>1, EmptyHolds DEF RingInv, SetUp, TypeOK
    <3>. QED  BY <1>4, <3>1 DEF WriteNotify, RingInv, SetUp
  <2>2. /\ UNCHANGED <<last_available_index, ring, interrupt_status, faults>>
        /\ driver'.reaping = driver.reaping
    BY <1>1, <1>4 DEF WriteNotify, TypeOK
  <2>. QED  BY <1>2, <2>1, <2>2 DEF NothingStranded, RingFaults
<1>5. CASE WriteAck
  <2>1. driver'.reaping /\ driver'.owes = driver.owes
    BY <1>1, <1>5 DEF WriteAck, TypeOK
  <2>2. UNCHANGED <<last_available_index, ring, notification_pending, serving, faults>>
    BY <1>5 DEF WriteAck
  <2>. QED  BY <1>2, <2>1, <2>2 DEF NothingStranded, RingFaults
<1>6. CASE WriteStatusZero
  BY <1>6, EmptyHolds DEF WriteStatusZero, Unseen
<1>7. ASSUME NEW f \in FaultSets, Start(f)
      PROVE  /\ last_available_index' # ring'.avail_idx => Waits'
             /\ Unseen(ring') => Heard'
  <2>1. ring' = EmptyRing /\ last_available_index' = 0
    BY <1>7 DEF Start, RingInv, SetUp, device
  <2>. QED  BY <2>1, EmptyHolds DEF Unseen
<1>8. ASSUME NEW h \in Heads, NEW c \in Chains, Submit(h, c)
      PROVE  /\ last_available_index' # ring'.avail_idx => Waits'
             /\ Unseen(ring') => Heard'
  <2>1. driver'.owes /\ driver'.reaping = driver.reaping
    BY <1>1, <1>8 DEF Submit, TypeOK
  <2>2. Unseen(ring') <=> Unseen(ring)
    BY <1>1, <1>8, PublishIs DEF Submit, Unseen
  <2>3. UNCHANGED <<interrupt_status, faults>>  BY <1>8 DEF Submit, device
  <2>. QED  BY <1>2, <2>1, <2>2, <2>3 DEF NothingStranded, RingFaults
<1>9. CASE TakeUsed
  <2>1. ring'.avail_idx = ring.avail_idx /\ driver'.owes = driver.owes
    BY <1>1, <1>9, ReapIs DEF TakeUsed, TypeOK
  <2>2. UNCHANGED <<last_available_index, notification_pending, serving, interrupt_status, faults>>
    BY <1>9 DEF TakeUsed, device
  <2>3. Unseen(ring') => driver'.reaping
    BY <1>1, <1>9 DEF TakeUsed, TypeOK
  <2>. QED  BY <1>2, <2>1, <2>2, <2>3 DEF NothingStranded, RingFaults
<1>10. CASE tick
  <2>1. UNCHANGED <<registers, last_available_index, ring, interrupt_status, faults, driver>>
    BY <1>10 DEF tick
  <2>2. ASSUME last_available_index # ring.avail_idx PROVE serving' # None
    <3>1. queue_configured
      <4>1. driver.phase # "setup"  BY <1>1, <2>2, EmptyHolds DEF RingInv, SetUp
      <4>. QED  BY <1>1, <4>1 DEF RingInv, SetUp, TypeOK
    <3>2. "avail_idx" \notin faults  BY <1>2, <2>1 DEF RingFaults
    <3>3. serving' = [until |-> ring.avail_idx, processed |-> 0]
      BY <1>10, <3>1, <3>2 DEF tick
    <3>4. serving' \in Services
      BY <1>1, <3>3, RingFacts, RingAssumption DEF Services
    <3>. QED  BY <3>4, NoneAssumption
  <2>. QED  BY <1>2, <2>1, <2>2 DEF NothingStranded, RingFaults
<1>11. CASE Serve
  <2>1. UNCHANGED faults  BY <1>11 DEF Serve
  <2>2. "used" \notin faults /\ "used_idx" \notin faults  BY <1>2, <2>1 DEF RingFaults
  <2>3. /\ serving \in Services /\ serving.processed < QueueNum
        /\ serving' = [serving EXCEPT !.processed = @ + 1]
        /\ interrupt_status' = 1
    BY <1>11, <2>2, ServeIs
  <2>4. serving' \in Services  BY <2>3, RingAssumption DEF Services
  <2>. QED  BY <2>3, <2>4, NoneAssumption
<1>12. CASE Finish
  <2>1. UNCHANGED <<last_available_index, ring, notification_pending, interrupt_status,
                    faults, driver>>
    BY <1>12 DEF Finish
  <2>2. last_available_index = ring.avail_idx
    <3>1. "avail" \notin faults  BY <1>2, <2>1 DEF RingFaults
    <3>2. /\ serving # None /\ serving.until = ring.avail_idx
          /\ serving.processed + Distance(last_available_index, ring.avail_idx) <= Q
          /\ serving.processed \in 0 .. Q
      BY <1>12 DEF Finish, RingInv, InTime, Services, Q
    <3>3. last_available_index = serving.until \/ ~ (serving.processed < Q)
      BY <1>12, <3>1, <3>2 DEF Finish, More, Q
    <3>4. last_available_index \in Indices /\ ring.avail_idx \in Indices
      BY <1>1, RingFacts
    <3>5. Distance(last_available_index, ring.avail_idx) \in 0 .. M - 1
          /\ (Distance(last_available_index, ring.avail_idx) = 0
                <=> last_available_index = ring.avail_idx)
      BY <3>4, DistanceFacts
    <3>6. Q \in Nat /\ M \in Nat  BY RingAssumption DEF Q, M
    <3>. QED  BY <3>2, <3>3, <3>5, <3>6
  <2>. QED  BY <1>2, <2>1, <2>2 DEF NothingStranded, RingFaults
<1>13. CASE SaveDisk
  BY <1>2, <1>13 DEF SaveDisk, NothingStranded, RingFaults, device
<1>14. CASE UNCHANGED vars
  BY <1>2, <1>14 DEF vars, NothingStranded, RingFaults, device
<1> HIDE DEF Waits, Heard
<1>. QED
  BY <1>3, <1>4, <1>5, <1>6, <1>7, <1>8, <1>9, <1>10, <1>11, <1>12, <1>13, <1>14
  DEF Next, Driver, Device

\* For every size of the queue: unless the bus refuses the rings, an available
\* chain has a notification on its way or the device at it, and a used head has
\* the interrupt raised or the handler running, although the indices wrap and
\* process_queue stops after QueueNum chains.
THEOREM NothingIsStranded == Spec => []NothingStranded
<1>1. Init => NothingStranded
  BY EmptyHolds DEF Init, NothingStranded, Unseen
<1>. QED  BY <1>1, RingAlways, NextStranded, PTL DEF Spec

-----------------------------------------------------------------------------
(* A clean disk is saved. *)

\* A request that has not marked the storage dirty has not changed it.
LEMMA CleanUnchanged ==
  ASSUME TypeOK, NEW c \in Chains \cup {Malformed}, process_request(c), ~disk_dirty'
  PROVE  disk' = disk /\ ~disk_dirty
<1>1. ~disk_dirty /\ (c = Malformed \/ c.type # "write" \/ Done(c) = {})
  BY DEF process_request, TypeOK
<1>2. disk' = Stored(c)  BY DEF process_request
<1>3. Stored(c) = [s \in Sectors |-> disk[s]]  BY <1>1 DEF Stored
<1>4. disk = [s \in Sectors |-> disk[s]]  BY DEF TypeOK
<1>. QED  BY <1>1, <1>2, <1>3, <1>4

\* Whenever the storage is not marked dirty the host has what the guest wrote,
\* whatever requests failed half way and wherever the bus faulted.
THEOREM CleanDiskSaved == Spec => []CleanDiskIsSaved
<1>1. Init => CleanDiskIsSaved  BY DEF Init, CleanDiskIsSaved
<1>2. ASSUME TypeOK, CleanDiskIsSaved, [Next]_vars PROVE CleanDiskIsSaved'
  <2>1. CASE Serve
    <3> DEFINE c == chains[CurrentHead]
    <3>1. process_request(c) /\ c \in Chains \cup {Malformed}
      BY <1>2, <2>1, ServedHead DEF Serve
    <3> HIDE DEF c
    <3>2. UNCHANGED saved  BY <3>1 DEF process_request
    <3>. QED  BY <1>2, <3>1, <3>2, CleanUnchanged DEF CleanDiskIsSaved
  <2>2. CASE SaveDisk  BY <2>2 DEF SaveDisk, CleanDiskIsSaved
  <2>3. CASE UNCHANGED storage  BY <1>2, <2>3 DEF CleanDiskIsSaved, storage
  <2>4. Serve \/ SaveDisk \/ UNCHANGED storage
    <3>1. ASSUME NEW r, NEW usable, WriteQueueRegister(r, usable) PROVE UNCHANGED storage
      BY <3>1 DEF WriteQueueRegister
    <3>2. ASSUME NEW f, Start(f) PROVE UNCHANGED storage  BY <3>2 DEF Start
    <3>3. ASSUME NEW h, NEW c, Submit(h, c) PROVE UNCHANGED storage  BY <3>3 DEF Submit
    <3>4. CASE WriteNotify \/ WriteAck \/ WriteStatusZero
      BY <3>4 DEF WriteNotify, WriteAck, WriteStatusZero
    <3>5. CASE TakeUsed  BY <3>5 DEF TakeUsed
    <3>6. CASE tick \/ Finish  BY <3>6 DEF tick, Finish
    <3>7. CASE UNCHANGED vars  BY <3>7 DEF vars
    <3>. QED  BY <1>2, <3>1, <3>2, <3>3, <3>4, <3>5, <3>6, <3>7
         DEF Next, Driver, Device
  <2>. QED  BY <2>1, <2>2, <2>3, <2>4
<1>. QED  BY <1>1, <1>2, TypeCorrect, PTL DEF Spec

-----------------------------------------------------------------------------
(* The rings implement a queue of requests. *)

\* A sequence with one element more, and with one fewer.
LEMMA AppendIs ==
  ASSUME NEW S, NEW n \in Nat, NEW f \in [1 .. n -> S], NEW e \in S,
         NEW g \in [1 .. n + 1 -> S], g[n + 1] = e, \A k \in 1 .. n : g[k] = f[k]
  PROVE  g = Append(f, e)
<1>1. f \in Seq(S) /\ Len(f) = n  OBVIOUS
<1>2. g \in Seq(S) /\ Len(g) = n + 1  OBVIOUS
<1> DEFINE h == Append(f, e)
<1>3. h \in Seq(S) /\ Len(h) = n + 1 /\ (\A i \in 1 .. n : h[i] = f[i]) /\ h[n + 1] = e
  BY <1>1, AppendProperties
<1> HIDE DEF h
<1>4. \A i \in 1 .. n + 1 : i \in 1 .. n \/ i = n + 1  OBVIOUS
<1>5. \A i \in 1 .. Len(g) : g[i] = h[i]  BY <1>2, <1>3, <1>4
<1>6. g = h  BY <1>2, <1>3, <1>5, SeqEqual
<1>. QED  BY <1>6 DEF h

LEMMA TailIs ==
  ASSUME NEW S, NEW n \in Nat, n > 0, NEW f \in [1 .. n -> S],
         NEW g \in [1 .. n - 1 -> S], \A k \in 1 .. n - 1 : g[k] = f[k + 1]
  PROVE  f # <<>> /\ Head(f) = f[1] /\ g = Tail(f)
<1>1. f \in Seq(S) /\ Len(f) = n  OBVIOUS
<1>2. g \in Seq(S) /\ Len(g) = n - 1
  <2>1. n - 1 \in Nat  OBVIOUS
  <2>. QED  BY <2>1
<1>3. f # <<>> /\ Head(f) = f[1]  BY <1>1
<1> DEFINE h == Tail(f)
<1>4. h \in Seq(S) /\ Len(h) = n - 1 /\ \A i \in 1 .. n - 1 : h[i] = f[i + 1]
  BY <1>1, <1>3, HeadTailProperties
<1> HIDE DEF h
<1>5. g = h  BY <1>2, <1>4, SeqEqual
<1>. QED  BY <1>3, <1>5 DEF h

\* The two queues, read off the heads in flight.
Entry(ch, h) == [head |-> h, chain |-> ch[h]]
Waiting(r, ch) == [k \in 1 .. Flying(r) - Back(r) |-> Entry(ch, HeadAt(r, Back(r) + k - 1))]
Answered(r) == [k \in 1 .. Back(r) |-> HeadAt(r, k - 1)]

LEMMA QueuesAre ==
  ASSUME RingInv
  PROVE  Pending = Waiting(ring, chains) /\ Finished = Answered(ring)
<1> DEFINE n == Flying(ring) - Back(ring)
           heads == HeadsFrom(ring.avail, last_available_index, ring.avail_idx)
<1>1. /\ ring \in Rings /\ last_available_index = ring.used_idx
      /\ Distance(last_available_index, ring.avail_idx) = n
      /\ Flying(ring) \in 0 .. Q /\ Back(ring) \in 0 .. Flying(ring) /\ Q \in Nat
  BY LeftToServe, RingAssumption DEF RingInv, TypeOK, InStep, Q
<1>2. ring.used_idx \in Indices /\ ring.last_used \in Indices  BY <1>1, RingFacts
<1>3. n \in Nat /\ Back(ring) \in Nat  BY <1>1
<1>4. ASSUME NEW k \in 1 .. n
      PROVE  ring.avail[(last_available_index + k - 1) % QueueNum]
               = HeadAt(ring, Back(ring) + k - 1)
  <2>1. k - 1 \in Nat /\ k \in Int  BY <1>3
  <2>2. Pos(ring.last_used, Back(ring) + (k - 1)) = Pos(ring.used_idx, k - 1)
    BY <1>2, <2>1, PosFrom DEF Back
  <2>3. Back(ring) + (k - 1) = Back(ring) + k - 1 /\ ~ (Back(ring) + k - 1 < Back(ring))
    BY <1>3, <2>1
  <2>4. ring.used_idx + (k - 1) = last_available_index + k - 1
    BY <1>1, <1>2, <2>1, RingAssumption DEF Indices
  <2>. QED  BY <2>2, <2>3, <2>4 DEF HeadAt, Pos, Q
<1>5. heads = [k \in 1 .. n |-> HeadAt(ring, Back(ring) + k - 1)]
  BY <1>1, <1>4 DEF HeadsFrom
<1>6. Pending = [k \in DOMAIN heads |-> [head |-> heads[k], chain |-> chains[heads[k]]]]
  BY DEF Pending
<1>7. DOMAIN heads = 1 .. n
      /\ \A k \in 1 .. n : heads[k] = HeadAt(ring, Back(ring) + k - 1)
  BY <1>5
<1>8. Pending = Waiting(ring, chains)
  <2> HIDE DEF heads
  <2>. QED  BY <1>6, <1>7 DEF Waiting, Entry
<1>9. ASSUME NEW k \in 1 .. Back(ring)
      PROVE  ring.used[(ring.last_used + k - 1) % QueueNum] = HeadAt(ring, k - 1)
  <2>1. k - 1 < Back(ring) /\ k - 1 \in Nat  BY <1>3
  <2>2. ring.last_used + (k - 1) = ring.last_used + k - 1
    BY <1>2, <1>3, RingAssumption DEF Indices
  <2>. QED  BY <2>1, <2>2 DEF HeadAt, Pos, Q
<1>10. Finished = [k \in 1 .. Back(ring) |-> ring.used[(ring.last_used + k - 1) % QueueNum]]
  BY DEF Finished, HeadsFrom, Back
<1>11. Finished = Answered(ring)  BY <1>9, <1>10 DEF Answered
<1>. QED  BY <1>8, <1>11

\* The transfers that go through are the first ones of the chain, and all of a
\* sound chain where no memory is refused.
LEMMA DonePrefix ==
  ASSUME NEW c \in Chains \ {Malformed}, c.type = "write"
  PROVE  \E n \in 0 .. Len(c.data) :
           /\ Done(c) = 1 .. n
           /\ Requests!Sound(c) /\ faults = {} => n = Len(c.data)
<1>1. c.sector \in Nat /\ c.data \in Seq(Descriptors)  BY BlockAssumption
<1>2. DOMAIN c.data = 1 .. Len(c.data) /\ Len(c.data) \in Nat  BY <1>1
<1> DEFINE Fails == {i \in 1 .. Len(c.data) : ~Transfers(c, i)}
<1>3. CASE Fails = {}
  <2>1. \A i \in 1 .. Len(c.data) : \A k \in 1 .. i : k \in 1 .. Len(c.data)  BY <1>2
  <2>2. Done(c) = 1 .. Len(c.data)  BY <1>2, <1>3, <2>1 DEF Done
  <2>3. Len(c.data) \in 0 .. Len(c.data)  BY <1>2
  <2>. QED  BY <2>2, <2>3
<1>4. CASE Fails # {}
  <2>1. PICK f \in Fails : \A i \in Fails : f <= i
    <3>1. Fails \in SUBSET Nat  BY <1>2
    <3> HIDE DEF Fails
    <3>. QED  BY <1>4, <3>1, LeastNat
  <2>2. f \in 1 .. Len(c.data) /\ ~Transfers(c, f)  OBVIOUS
  <2>3. f - 1 \in 0 .. Len(c.data) /\ f \in Nat  BY <1>2, <2>2
  <2>4. \A i \in 1 .. Len(c.data) : i < f => Transfers(c, i)
    <3> TAKE i \in 1 .. Len(c.data)
    <3>1. i \in Fails => f <= i  BY <2>1
    <3>. QED  BY <1>2, <2>3, <3>1
  <2>5. Done(c) = 1 .. f - 1
    <3>1. ASSUME NEW i \in Done(c) PROVE i \in 1 .. f - 1
      <4>1. i \in 1 .. Len(c.data) /\ \A k \in 1 .. i : Transfers(c, k)
        BY <1>2 DEF Done
      <4>2. ~ (f \in 1 .. i)  BY <2>2, <4>1
      <4>. QED  BY <1>2, <2>2, <2>3, <4>1, <4>2
    <3>2. ASSUME NEW i \in 1 .. f - 1 PROVE i \in Done(c)
      <4>1. i \in 1 .. Len(c.data)
            /\ \A k \in 1 .. i : k \in 1 .. Len(c.data) /\ k < f
        BY <1>2, <2>2, <2>3
      <4>. QED  BY <1>2, <2>4, <4>1 DEF Done
    <3>. QED  BY <3>1, <3>2
  <2>6. ~ (Requests!Sound(c) /\ faults = {})
    <3>1. SUFFICES ASSUME Requests!Sound(c), faults = {} PROVE Transfers(c, f)
      BY <2>2
    <3>2. /\ c.data[f].write = (c.type = "read") /\ c.sector + Len(c.data) <= SectorCount
      BY <1>2, <2>2, <3>1 DEF Requests!Sound
    <3>3. c.sector + f - 1 < SectorCount
      BY <1>1, <1>2, <2>2, <3>2, BlockAssumption
    <3>. QED  BY <3>1, <3>2, <3>3 DEF Transfers
  <2>. QED  BY <2>3, <2>5, <2>6
<1>. QED  BY <1>3, <1>4

LEMMA RequestActs ==
  ASSUME TypeOK, NEW c \in Chains \cup {Malformed}, process_request(c)
  PROVE  Requests!Act(c)
<1>1. disk' = Stored(c) /\ disk = [s \in Sectors |-> disk[s]] /\ DOMAIN disk = Sectors
  BY DEF process_request, TypeOK
<1>2. CASE c = Malformed
  <2>1. Stored(c) = [s \in Sectors |-> disk[s]]  BY <1>2 DEF Stored
  <2>. QED  BY <1>1, <1>2, <2>1 DEF Requests!Act
<1>3. CASE c # Malformed /\ c.type # "write"
  <2>1. Stored(c) = [s \in Sectors |-> disk[s]]  BY <1>3 DEF Stored
  <2>2. Requests!Effect(c, Len(c.data)) = [s \in Sectors |-> disk[s]]
    BY <1>1, <1>3 DEF Requests!Effect
  <2>3. Len(c.data) \in 0 .. Len(c.data)  BY <1>3, BlockAssumption
  <2>. QED  BY <1>1, <1>3, <2>1, <2>2, <2>3 DEF Requests!Act
<1>4. CASE c # Malformed /\ c.type = "write"
  <2>1. PICK n \in 0 .. Len(c.data) :
          /\ Done(c) = 1 .. n
          /\ Requests!Sound(c) /\ faults = {} => n = Len(c.data)
    BY <1>4, DonePrefix
  <2>2. c.sector \in Nat /\ n \in Nat  BY <1>4, <2>1, BlockAssumption
  <2>3. ASSUME NEW s \in Sectors
        PROVE  (\E i \in Done(c) : s = c.sector + i - 1) <=> (c.sector <= s /\ s < c.sector + n)
    <3>1. s \in Nat  BY BlockAssumption DEF Sectors
    <3>2. ASSUME NEW i \in 1 .. n, s = c.sector + i - 1
          PROVE  c.sector <= s /\ s < c.sector + n
      BY <2>2, <3>1, <3>2
    <3>3. ASSUME c.sector <= s, s < c.sector + n
          PROVE  s - c.sector + 1 \in 1 .. n /\ s = c.sector + (s - c.sector + 1) - 1
      BY <2>2, <3>1, <3>3
    <3>. QED  BY <2>1, <3>2, <3>3
  <2>4. Stored(c) = Requests!Effect(c, n)
    BY <1>1, <1>4, <2>3 DEF Stored, Requests!Effect
  <2>. QED  BY <1>1, <1>4, <2>1, <2>4 DEF Requests!Act
<1>. QED  BY <1>2, <1>3, <1>4

Entries == [head : Heads, chain : Chains \cup {Malformed}]

LEMMA QueueTypes ==
  ASSUME NEW r \in Rings, NEW flight \in SUBSET Heads, Holds(r, flight),
         NEW ch \in [Heads -> Chains \cup {Malformed}]
  PROVE  /\ Back(r) \in Nat /\ Flying(r) \in Nat /\ Flying(r) - Back(r) \in Nat
         /\ \A k \in 1 .. Flying(r) - Back(r) : Back(r) + k - 1 \in 0 .. Flying(r) - 1
         /\ \A k \in 1 .. Back(r) : k - 1 \in 0 .. Flying(r) - 1
         /\ Waiting(r, ch) \in [1 .. Flying(r) - Back(r) -> Entries]
         /\ Answered(r) \in [1 .. Back(r) -> Heads]
<1>1. /\ Back(r) \in Nat /\ Flying(r) \in Nat /\ Back(r) <= Flying(r)
  BY FlightFacts DEF Holds
<1>2. Flying(r) - Back(r) \in Nat  BY <1>1
<1>3. /\ \A k \in 1 .. Flying(r) - Back(r) : Back(r) + k - 1 \in 0 .. Flying(r) - 1
      /\ \A k \in 1 .. Back(r) : k - 1 \in 0 .. Flying(r) - 1
  BY <1>1, <1>2
<1>4. \A k \in 0 .. Flying(r) - 1 : HeadAt(r, k) \in Heads  BY DEF Holds
<1>5. \A h \in Heads : Entry(ch, h) \in Entries  BY DEF Entry, Entries
<1>6. Waiting(r, ch) \in [1 .. Flying(r) - Back(r) -> Entries]
  BY <1>3, <1>4, <1>5 DEF Waiting
<1>7. Answered(r) \in [1 .. Back(r) -> Heads]  BY <1>3, <1>4 DEF Answered
<1>. QED  BY <1>1, <1>2, <1>3, <1>6, <1>7

\* The driver's memory with a chain under a head.
Filed(ch, h, c) == [ch EXCEPT ![h] = c]

\* A submission appends the request; it was in neither queue.
LEMMA SubmitQueues ==
  ASSUME NEW r \in Rings, NEW flight \in SUBSET Heads, Holds(r, flight),
         NEW ch \in [Heads -> Chains \cup {Malformed}],
         NEW h \in Heads \ flight, NEW c \in Chains,
         NEW p, p = Publish(r, h), NEW ch2, ch2 = Filed(ch, h, c)
  PROVE  /\ Waiting(p, ch2) = Append(Waiting(r, ch), [head |-> h, chain |-> c])
         /\ Answered(p) = Answered(r)
         /\ \A k \in DOMAIN Waiting(r, ch) : Waiting(r, ch)[k].head # h
         /\ \A k \in DOMAIN Answered(r) : Answered(r)[k] # h
<1> DEFINE n == Flying(r) - Back(r)
           W == Waiting(r, ch)
           V == Waiting(p, ch2)
<1>1. /\ Back(r) \in Nat /\ Flying(r) \in Nat /\ n \in Nat
      /\ \A k \in 1 .. n : Back(r) + k - 1 \in 0 .. Flying(r) - 1
      /\ \A k \in 1 .. Back(r) : k - 1 \in 0 .. Flying(r) - 1
      /\ W \in [1 .. n -> Entries]
      /\ Answered(r) \in [1 .. Back(r) -> Heads]
  BY QueueTypes
<1>2. /\ Flying(p) = Flying(r) + 1 /\ Back(p) = Back(r)
      /\ \A k \in 0 .. Flying(r) - 1 : HeadAt(p, k) = HeadAt(r, k)
      /\ HeadAt(p, Flying(r)) = h
  BY PublishHeads
<1>3. /\ p \in Rings /\ flight \cup {h} \in SUBSET Heads /\ Holds(p, flight \cup {h})
      /\ ch2 \in [Heads -> Chains \cup {Malformed}]
  BY PublishIs, PublishHolds DEF Filed
<1>4. Flying(p) - Back(p) = n + 1  BY <1>1, <1>2
<1>5. V \in [1 .. n + 1 -> Entries]  BY <1>3, <1>4, QueueTypes
<1>6. \A k \in 0 .. Flying(r) - 1 : HeadAt(r, k) \in flight  BY DEF Holds
<1>7. V[n + 1] = [head |-> h, chain |-> c]
  <2>1. n + 1 \in 1 .. n + 1 /\ Back(r) + (n + 1) - 1 = Flying(r)  BY <1>1
  <2>2. V[n + 1] = Entry(ch2, HeadAt(p, Flying(r)))  BY <1>2, <1>4, <2>1 DEF Waiting
  <2>. QED  BY <1>2, <2>2 DEF Entry, Filed
<1>8. ASSUME NEW k \in 1 .. n PROVE V[k] = W[k] /\ W[k].head # h
  <2> DEFINE m == Back(r) + k - 1
  <2>1. m \in 0 .. Flying(r) - 1 /\ k \in 1 .. n + 1  BY <1>1
  <2>2. V[k] = Entry(ch2, HeadAt(p, m)) /\ W[k] = Entry(ch, HeadAt(r, m))
    BY <1>2, <1>4, <2>1 DEF Waiting
  <2> HIDE DEF m
  <2>3. HeadAt(p, m) = HeadAt(r, m) /\ HeadAt(r, m) # h /\ HeadAt(r, m) \in Heads
    BY <1>2, <1>6, <2>1
  <2>4. ch2[HeadAt(r, m)] = ch[HeadAt(r, m)]  BY <2>3 DEF Filed
  <2> HIDE DEF V, W
  <2>. QED  BY <2>2, <2>3, <2>4 DEF Entry
<1>9. [head |-> h, chain |-> c] \in Entries  BY DEF Entries
<1>10. V = Append(W, [head |-> h, chain |-> c])
  <2> DEFINE e == [head |-> h, chain |-> c]
  <2>1. e \in Entries /\ V[n + 1] = e  BY <1>7, <1>9
  <2> HIDE DEF V, W, n, e
  <2>2. V = Append(W, e)  BY <1>1, <1>5, <1>8, <2>1, AppendIs
  <2>. QED  BY <2>2 DEF e
<1>11. Answered(p) = Answered(r)
  <2>1. \A k \in 1 .. Back(r) : HeadAt(p, k - 1) = HeadAt(r, k - 1)  BY <1>1, <1>2
  <2>. QED  BY <1>2, <2>1 DEF Answered
<1>12. ASSUME NEW k \in 1 .. Back(r) PROVE Answered(r)[k] # h
  <2>1. Answered(r)[k] = HeadAt(r, k - 1)  BY DEF Answered
  <2>. QED  BY <1>1, <1>6, <2>1
<1>13. DOMAIN W = 1 .. n /\ DOMAIN Answered(r) = 1 .. Back(r)  BY <1>1
<1>. QED  BY <1>8, <1>10, <1>11, <1>12, <1>13

\* The device moves the first request that waits to the end of the answers.
LEMMA ReturnQueues ==
  ASSUME NEW r \in Rings, NEW flight \in SUBSET Heads, Holds(r, flight),
         NEW ch \in [Heads -> Chains \cup {Malformed}], r.used_idx # r.avail_idx,
         NEW p \in Rings,
         p = Returned(r, r.used_idx % Q, r.avail[r.used_idx % Q], Next16(r.used_idx))
  PROVE  /\ Waiting(p, ch) = Tail(Waiting(r, ch))
         /\ Answered(p) = Append(Answered(r), Head(Waiting(r, ch)).head)
<1> DEFINE n == Flying(r) - Back(r)
           W == Waiting(r, ch)
           V == Waiting(p, ch)
<1>1. /\ Back(r) \in Nat /\ Flying(r) \in Nat /\ n \in Nat
      /\ \A k \in 1 .. n : Back(r) + k - 1 \in 0 .. Flying(r) - 1
      /\ \A k \in 1 .. Back(r) : k - 1 \in 0 .. Flying(r) - 1
      /\ W \in [1 .. n -> Entries]
      /\ Answered(r) \in [1 .. Back(r) -> Heads]
  BY QueueTypes
<1>2. /\ Flying(p) = Flying(r) /\ Back(p) = Back(r) + 1 /\ Back(r) < Flying(r)
      /\ \A k \in 0 .. Flying(r) - 1 : HeadAt(p, k) = HeadAt(r, k)
  BY ReturnHeads
<1>3. Holds(p, flight)  BY ReturnHolds
<1>4. Flying(p) - Back(p) = n - 1 /\ n > 0  BY <1>1, <1>2
<1>5. V \in [1 .. n - 1 -> Entries]  BY <1>3, <1>4, QueueTypes
<1>6. Answered(p) \in [1 .. Back(r) + 1 -> Heads]  BY <1>2, <1>3, QueueTypes
<1>7. ASSUME NEW k \in 1 .. n - 1 PROVE V[k] = W[k + 1]
  <2> DEFINE m == Back(r) + (k + 1) - 1
  <2>1. k + 1 \in 1 .. n /\ Back(p) + k - 1 = m  BY <1>1, <1>2
  <2>2. m \in 0 .. Flying(r) - 1  BY <1>1, <2>1
  <2>3. V[k] = Entry(ch, HeadAt(p, m))  BY <1>4, <2>1 DEF Waiting
  <2>4. W[k + 1] = Entry(ch, HeadAt(r, m))  BY <2>1 DEF Waiting
  <2> HIDE DEF m
  <2>. QED  BY <1>2, <2>2, <2>3, <2>4
<1>8. Head(W) = W[1] /\ V = Tail(W)
  <2> HIDE DEF V, W, n
  <2>. QED  BY <1>1, <1>4, <1>5, <1>7, TailIs
<1>9. W[1].head = HeadAt(r, Back(r))
  <2>1. 1 \in 1 .. n /\ Back(r) + 1 - 1 = Back(r)  BY <1>1, <1>4
  <2>2. W[1] = Entry(ch, HeadAt(r, Back(r)))  BY <2>1 DEF Waiting
  <2>. QED  BY <2>2 DEF Entry
<1>10. Answered(p) = Append(Answered(r), HeadAt(r, Back(r)))
  <2>1. Back(r) \in 0 .. Flying(r) - 1  BY <1>1, <1>2
  <2>2. HeadAt(r, Back(r)) \in Heads  BY <2>1 DEF Holds
  <2>3. Answered(p)[Back(r) + 1] = HeadAt(r, Back(r))
    <3>1. Back(r) + 1 \in 1 .. Back(p) /\ (Back(r) + 1) - 1 = Back(r)  BY <1>1, <1>2
    <3>. QED  BY <1>2, <2>1, <3>1 DEF Answered
  <2>4. ASSUME NEW k \in 1 .. Back(r) PROVE Answered(p)[k] = Answered(r)[k]
    <3>1. k \in 1 .. Back(p) /\ k - 1 \in 0 .. Flying(r) - 1  BY <1>1, <1>2
    <3>. QED  BY <1>2, <3>1 DEF Answered
  <2>. QED  BY <1>1, <1>6, <2>2, <2>3, <2>4, AppendIs
<1>. QED  BY <1>8, <1>9, <1>10

\* The driver takes the first answer.
LEMMA ReapQueues ==
  ASSUME NEW r \in Rings, NEW flight \in SUBSET Heads, Holds(r, flight), Unseen(r),
         NEW ch \in [Heads -> Chains \cup {Malformed}], NEW p, p = Reap(r)
  PROVE  /\ Waiting(p, ch) = Waiting(r, ch)
         /\ Answered(r) # <<>> /\ Answered(p) = Tail(Answered(r))
<1>1. /\ Back(r) \in Nat /\ Flying(r) \in Nat /\ Flying(r) - Back(r) \in Nat
      /\ \A k \in 1 .. Flying(r) - Back(r) : Back(r) + k - 1 \in 0 .. Flying(r) - 1
      /\ Answered(r) \in [1 .. Back(r) -> Heads]
  BY QueueTypes
<1>2. /\ Flying(p) = Flying(r) - 1 /\ Back(p) = Back(r) - 1 /\ Back(r) > 0
      /\ \A k \in 0 .. Flying(p) - 1 : HeadAt(p, k) = HeadAt(r, k + 1)
  BY ReapHeads
<1>3. /\ p \in Rings /\ Holds(p, flight \ {NextUsed(r)}) /\ flight \ {NextUsed(r)} \in SUBSET Heads
  BY ReapIs, ReapHolds
<1>4. Answered(p) \in [1 .. Back(r) - 1 -> Heads]
  <2>1. Answered(p) \in [1 .. Back(p) -> Heads]  BY <1>3, QueueTypes
  <2>. QED  BY <1>2, <2>1
<1>5. Flying(p) - Back(p) = Flying(r) - Back(r)  BY <1>1, <1>2
<1>6. \A k \in 1 .. Flying(r) - Back(r) : HeadAt(p, Back(p) + k - 1) = HeadAt(r, Back(r) + k - 1)
  <2> TAKE k \in 1 .. Flying(r) - Back(r)
  <2>1. Back(p) + k - 1 \in 0 .. Flying(p) - 1 /\ (Back(p) + k - 1) + 1 = Back(r) + k - 1
    BY <1>1, <1>2
  <2>. QED  BY <1>2, <2>1
<1>7. Waiting(p, ch) = Waiting(r, ch)  BY <1>5, <1>6 DEF Waiting
<1>8. ASSUME NEW k \in 1 .. Back(r) - 1 PROVE Answered(p)[k] = Answered(r)[k + 1]
  <2>1. /\ k \in 1 .. Back(p) /\ k + 1 \in 1 .. Back(r) /\ (k + 1) - 1 = (k - 1) + 1
        /\ k - 1 \in 0 .. Flying(p) - 1
    BY <1>1, <1>2, <1>5
  <2>. QED  BY <1>2, <2>1 DEF Answered
<1>9. Answered(r) # <<>> /\ Answered(p) = Tail(Answered(r))
  BY <1>1, <1>2, <1>4, <1>8, TailIs
<1>. QED  BY <1>7, <1>9

LEMMA EmptyQueues ==
  ASSUME NEW ch
  PROVE  Waiting(EmptyRing, ch) = <<>> /\ Answered(EmptyRing) = <<>>
<1>1. Flying(EmptyRing) = 0 /\ Back(EmptyRing) = 0  BY EmptyHolds
<1>2. 1 .. 0 - 0 = {} /\ 1 .. 0 = {}  OBVIOUS
<1>. QED  BY <1>1, <1>2 DEF Waiting, Answered

\* The first request that waits is the one process_queue serves.
LEMMA ServedFirst ==
  ASSUME RingInv, ring.used_idx # ring.avail_idx
  PROVE  Pending # <<>> /\ Head(Pending).chain = chains[CurrentHead]
<1> DEFINE n == Flying(ring) - Back(ring)
           W == Waiting(ring, chains)
<1>1. /\ ring \in Rings /\ Holds(ring, driver.flight) /\ driver.flight \in SUBSET Heads
      /\ chains \in [Heads -> Chains \cup {Malformed}] /\ last_available_index = ring.used_idx
  BY DEF RingInv, TypeOK, InStep
<1>2. /\ Back(ring) \in Nat /\ n \in Nat /\ W \in [1 .. n -> Entries]
  BY <1>1, QueueTypes
<1>3. ring.used_idx \in Indices /\ ring.avail_idx \in Indices /\ ring.last_used \in Indices
  BY <1>1, RingFacts
<1>4. n # 0
  <2>1. Distance(ring.used_idx, ring.avail_idx) = n  BY <1>1, LeftToServe
  <2>2. Distance(ring.used_idx, ring.avail_idx) = 0 <=> ring.used_idx = ring.avail_idx
    BY <1>3, DistanceFacts
  <2>. QED  BY <2>1, <2>2
<1>5. 1 \in 1 .. n /\ Back(ring) + 1 - 1 = Back(ring)  BY <1>2, <1>4
<1>6. W[1] = Entry(chains, HeadAt(ring, Back(ring)))  BY <1>5 DEF Waiting
<1>7. HeadAt(ring, Back(ring)) = CurrentHead
  <2>1. Pos(ring.last_used, Back(ring) + 0) = Pos(ring.used_idx, 0)
    BY <1>3, PosFrom DEF Back
  <2>2. Back(ring) + 0 = Back(ring) /\ ~ (Back(ring) < Back(ring))  BY <1>2
  <2>3. Pos(ring.used_idx, 0) = ring.used_idx % QueueNum  BY <1>3, PosFacts DEF Q
  <2>. QED  BY <1>1, <2>1, <2>2, <2>3 DEF HeadAt, CurrentHead
<1>8. W # <<>> /\ Head(W) = W[1]
  <2> HIDE DEF W, n
  <2>1. W \in Seq(Entries) /\ Len(W) = n  BY <1>2
  <2>. QED  BY <1>2, <1>4, <2>1
<1>9. Pending = W  BY QueuesAre
<1> HIDE DEF W
<1>. QED  BY <1>6, <1>7, <1>8, <1>9 DEF Entry

LEMMA NextRequests ==
  ASSUME RingInv, RingInv', [Next]_vars
  PROVE  [Requests!Next]_(Requests!vars)
<1>1. /\ TypeOK /\ ring \in Rings /\ driver.flight \in SUBSET Heads
      /\ Holds(ring, driver.flight) /\ chains \in [Heads -> Chains \cup {Malformed}]
  BY DEF RingInv, TypeOK
<1>2. Pending = Waiting(ring, chains) /\ Finished = Answered(ring)  BY QueuesAre
<1>3. (Pending = Waiting(ring, chains) /\ Finished = Answered(ring))'
  BY QueuesAre, PTL
<1>4. ASSUME UNCHANGED <<ring, chains, disk, faults>> PROVE UNCHANGED Requests!vars
  BY <1>2, <1>3, <1>4 DEF Requests!vars
<1>5. ASSUME NEW r \in QueueRegisters, NEW usable \in BOOLEAN, WriteQueueRegister(r, usable)
      PROVE  UNCHANGED Requests!vars
  BY <1>4, <1>5 DEF WriteQueueRegister, storage
<1>6. CASE WriteNotify  BY <1>4, <1>6 DEF WriteNotify, storage
<1>7. CASE WriteAck  BY <1>4, <1>7 DEF WriteAck, storage
<1>8. CASE WriteStatusZero
  <2>1. ring' = EmptyRing /\ UNCHANGED <<disk, faults>>  BY <1>8 DEF WriteStatusZero, storage
  <2>2. Pending' = <<>> /\ Finished' = <<>>  BY <1>3, <2>1, EmptyQueues
  <2>3. Requests!Reset  BY <2>1, <2>2 DEF Requests!Reset
  <2>. QED  BY <2>3 DEF Requests!Next
<1>9. ASSUME NEW f \in FaultSets, Start(f) PROVE Requests!Next
  <2>1. ring = EmptyRing /\ UNCHANGED <<ring, chains, disk>>
    BY <1>9 DEF Start, RingInv, SetUp, storage
  <2>2. Pending = <<>> /\ Finished = <<>> /\ Pending' = <<>> /\ Finished' = <<>>
    BY <1>2, <1>3, <2>1, EmptyQueues
  <2>3. (faults' # {}) \in BOOLEAN  OBVIOUS
  <2>4. Requests!Place  BY <2>1, <2>2, <2>3 DEF Requests!Place
  <2>. QED  BY <2>4 DEF Requests!Next
<1>10. ASSUME NEW h \in Heads, NEW c \in Chains, Submit(h, c) PROVE Requests!Next
  <2>1. /\ h \in Heads \ driver.flight /\ ring' = Publish(ring, h)
        /\ chains' = Filed(chains, h, c) /\ UNCHANGED <<disk, faults>>
    BY <1>10 DEF Submit, storage, Filed
  <2>2. /\ Waiting(ring', chains') = Append(Waiting(ring, chains), [head |-> h, chain |-> c])
        /\ Answered(ring') = Answered(ring)
        /\ \A k \in DOMAIN Waiting(ring, chains) : Waiting(ring, chains)[k].head # h
        /\ \A k \in DOMAIN Answered(ring) : Answered(ring)[k] # h
    BY <1>1, <2>1, SubmitQueues
  <2>3. Requests!Submit(h, c)
    BY <1>2, <1>3, <2>1, <2>2 DEF Requests!Submit
  <2>. QED  BY <2>3 DEF Requests!Next
<1>11. CASE TakeUsed
  <2>1. UNCHANGED <<chains, disk, faults>>  BY <1>11 DEF TakeUsed, storage
  <2>2. CASE Unseen(ring)
    <3>1. ring' = Reap(ring)  BY <1>11, <2>2 DEF TakeUsed
    <3>2. /\ Waiting(ring', chains) = Waiting(ring, chains)
          /\ Answered(ring) # <<>> /\ Answered(ring') = Tail(Answered(ring))
      BY <1>1, <2>2, <3>1, ReapQueues
    <3>3. Requests!Take  BY <1>2, <1>3, <2>1, <3>2 DEF Requests!Take
    <3>. QED  BY <3>3 DEF Requests!Next
  <2>3. CASE ~Unseen(ring)
    <3>1. UNCHANGED ring  BY <1>11, <2>3 DEF TakeUsed
    <3>. QED  BY <1>4, <2>1, <3>1
  <2>. QED  BY <2>2, <2>3
<1>12. CASE tick  BY <1>4, <1>12 DEF tick, storage
<1>13. CASE Serve
  <2>1. UNCHANGED <<chains, faults>> /\ process_request(chains[CurrentHead])
    BY <1>13 DEF Serve
  <2>2. ring.used_idx # ring.avail_idx  BY <1>13, ServeIs
  <2>3. Pending # <<>> /\ Requests!Act(Head(Pending).chain)
    <3>1. chains[CurrentHead] \in Chains \cup {Malformed}  BY <1>1, ServedHead
    <3> DEFINE c == chains[CurrentHead]
    <3>2. Requests!Act(c)
      <4> HIDE DEF c
      <4>1. c \in Chains \cup {Malformed} /\ process_request(c)  BY <2>1, <3>1 DEF c
      <4>. QED  BY <1>1, <4>1, RequestActs
    <3>. QED  BY <2>2, <3>2, ServedFirst
  <2>4. CASE "used" \in faults /\ UNCHANGED ring
    <3>1. Pending' = Pending /\ Finished' = Finished  BY <1>2, <1>3, <2>1, <2>4
    <3>2. Requests!Attempt  BY <2>1, <2>3, <2>4, <3>1 DEF Requests!Attempt
    <3>. QED  BY <3>2 DEF Requests!Next
  <2>5. CASE "used_idx" \in faults /\ ring' = Written(ring, used_index % Q, CurrentHead)
    <3>1. ring.last_used = ring.used_idx  BY <2>5 DEF RingInv, InStep
    <3> DEFINE u == used_index % Q
               h == CurrentHead
    <3>2. h \in Heads /\ ring' = Written(ring, u, h)  BY <1>1, <2>5, ServedHead
    <3> HIDE DEF u, h
    <3>3. /\ Flying(ring') = Flying(ring) /\ Back(ring') = 0 /\ Back(ring) = 0
          /\ \A k \in Nat : HeadAt(ring', k) = HeadAt(ring, k)
      BY <1>1, <3>1, <3>2, WrittenHeads
    <3>4. \A k \in 1 .. Flying(ring) - 0 : 0 + k - 1 \in Nat  BY <1>1, FlightFacts
    <3>5. Waiting(ring', chains) = Waiting(ring, chains)  BY <3>3, <3>4 DEF Waiting
    <3>6. 1 .. 0 = {}  OBVIOUS
    <3>7. Answered(ring') = Answered(ring)  BY <3>3, <3>6 DEF Answered
    <3>8. Pending' = Pending /\ Finished' = Finished  BY <1>2, <1>3, <2>1, <3>5, <3>7
    <3>9. Requests!Attempt  BY <2>1, <2>3, <2>5, <3>8 DEF Requests!Attempt
    <3>. QED  BY <3>9 DEF Requests!Next
  <2>6. CASE ring' = Returned(ring, ring.used_idx % Q, ring.avail[ring.used_idx % Q],
                              Next16(ring.used_idx))
    <3>1. ring' \in Rings  BY DEF RingInv, TypeOK
    <3>2. /\ Waiting(ring', chains) = Tail(Waiting(ring, chains))
          /\ Answered(ring') = Append(Answered(ring), Head(Waiting(ring, chains)).head)
      BY <1>1, <2>2, <2>6, <3>1, ReturnQueues
    <3>3. Requests!Complete  BY <1>2, <1>3, <2>1, <2>3, <3>2 DEF Requests!Complete
    <3>. QED  BY <3>3 DEF Requests!Next
  <2>. QED  BY <1>13, <2>4, <2>5, <2>6, ServeIs
<1>14. CASE Finish  BY <1>4, <1>14 DEF Finish, storage
<1>15. CASE SaveDisk  BY <1>4, <1>15 DEF SaveDisk
<1>16. CASE UNCHANGED vars  BY <1>4, <1>16 DEF vars, storage
<1>. QED
  BY <1>5, <1>6, <1>7, <1>8, <1>9, <1>10, <1>11, <1>12, <1>13, <1>14, <1>15, <1>16
  DEF Next, Driver, Device

\* The device with its rings implements BlockRequests: requests complete in the
\* order of submission, once each, and a sound one on reachable memory is
\* executed as a whole, for every queue size that divides the index modulus.
THEOREM RequestsImplemented == Spec => RequestSpec
<1>1. Init => Requests!Init
  <2>1. SUFFICES ASSUME Init PROVE Requests!Init  OBVIOUS
  <2>2. RingInv  BY <2>1, InitRing
  <2>3. ring = EmptyRing /\ faults = {} /\ disk \in [Sectors -> Data]  BY <2>1 DEF Init
  <2>4. Pending = <<>> /\ Finished = <<>>  BY <2>2, <2>3, QueuesAre, EmptyQueues
  <2>. QED  BY <2>3, <2>4 DEF Requests!Init, Sectors
<1>2. RingInv /\ RingInv' /\ [Next]_vars => [Requests!Next]_(Requests!vars)
  BY NextRequests
<1>. QED  BY <1>1, <1>2, RingAlways, PTL DEF Spec, RequestSpec, Requests!Spec
====
