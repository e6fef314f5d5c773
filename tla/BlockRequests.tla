--------------------------- MODULE BlockRequests ---------------------------
(***************************************************************************)
(* What a block device promises its driver: requests are executed in the   *)
(* order of submission and each is completed once. A request acts on the   *)
(* sectors it names, on all of them if it is sound and memory is reachable,*)
(* otherwise on a prefix. Where memory is broken a request may act without *)
(* being completed.                                                        *)
(***************************************************************************)
EXTENDS Integers, Sequences

CONSTANTS Heads, SectorCount, Data, Chains, Malformed

VARIABLES pending, finished, disk, broken

vars == <<pending, finished, disk, broken>>

Init ==
  /\ pending = <<>> /\ finished = <<>> /\ broken = FALSE
  /\ disk \in [0 .. SectorCount - 1 -> Data]

Sound(c) ==
  /\ \A i \in DOMAIN c.data : c.data[i].write = (c.type = "read")
  /\ c.sector + Len(c.data) <= SectorCount

\* The disk after the first n descriptors of a chain.
Effect(c, n) ==
  [s \in DOMAIN disk |->
     IF c.type = "write" /\ c.sector <= s /\ s < c.sector + n
     THEN c.data[s - c.sector + 1].value
     ELSE disk[s]]

Act(c) ==
  IF c = Malformed THEN UNCHANGED disk
  ELSE \E n \in 0 .. Len(c.data) :
         /\ Sound(c) /\ ~broken => n = Len(c.data)
         /\ disk' = Effect(c, n)

Submit(h, c) ==
  /\ \A k \in DOMAIN pending : pending[k].head # h
  /\ \A k \in DOMAIN finished : finished[k] # h
  /\ pending' = Append(pending, [head |-> h, chain |-> c])
  /\ UNCHANGED <<finished, disk, broken>>

Complete ==
  /\ pending # <<>>
  /\ Act(Head(pending).chain)
  /\ finished' = Append(finished, Head(pending).head)
  /\ pending' = Tail(pending)
  /\ UNCHANGED broken

Attempt ==
  /\ broken /\ pending # <<>>
  /\ Act(Head(pending).chain)
  /\ UNCHANGED <<pending, finished, broken>>

Take ==
  /\ finished # <<>>
  /\ finished' = Tail(finished)
  /\ UNCHANGED <<pending, disk, broken>>

Reset == pending' = <<>> /\ finished' = <<>> /\ UNCHANGED <<disk, broken>>

Place ==
  /\ pending = <<>> /\ finished = <<>>
  /\ broken' \in BOOLEAN
  /\ UNCHANGED <<pending, finished, disk>>

Next ==
  \/ \E h \in Heads, c \in Chains : Submit(h, c)
  \/ Complete \/ Attempt \/ Take \/ Reset \/ Place

Spec == Init /\ [][Next]_vars
=============================================================================
