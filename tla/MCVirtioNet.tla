---------------------------- MODULE MCVirtioNet ----------------------------
(* Queues of one chain, room for one frame in the device and one in the      *)
(* backend, which is polled every second cycle. Each kind of access to the   *)
(* queues can be the one that faults.                                        *)
EXTENDS VirtioNet

MCFaultSets == {[q \in Queues |-> f] : f \in {{}, {"avail"}, {"chain"}, {"used"}}}
=============================================================================
