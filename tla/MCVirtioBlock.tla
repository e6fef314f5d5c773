--------------------------- MODULE MCVirtioBlock ---------------------------
(* A queue of two, indices that wrap at four, a disk of two sectors. The     *)
(* requests: a sound write, one whose first buffer has the wrong direction,  *)
(* one that runs off the end, a malformed chain. Each access of the bus, and *)
(* the storage, can be the one that fails.                                   *)
EXTENDS VirtioBlock

Buffer(w, v) == [write |-> w, value |-> v]

MCChains ==
  {Malformed,
   [type |-> "write", sector |-> 0, data |-> <<Buffer(FALSE, 1)>>],
   [type |-> "write", sector |-> 0, data |-> <<Buffer(TRUE, 1), Buffer(FALSE, 0)>>],
   [type |-> "write", sector |-> 1, data |-> <<Buffer(FALSE, 0), Buffer(FALSE, 1)>>]}

MCFaultSets == {{}, {"data", "status"}} \cup {{site} : site \in FaultSites \ {"data", "status"}}
=============================================================================
