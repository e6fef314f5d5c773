-------------------------------- MODULE Rv32 --------------------------------
(***************************************************************************)
(* The RV32 core against the specifications of the RV64 one. Privileged    *)
(* execution and translation meet only in what an access is allowed, which *)
(* is an input of both: each behaviour exercises one of them, the one the  *)
(* bench names: the hart under one of the programs, whatever memory holds, *)
(* or the caches under one of the guests.                                  *)
(***************************************************************************)
EXTENDS Hart32, Sv32Caches

VARIABLE bench

vars == <<hart, caches, bench>>

Init ==
  /\ HartInit /\ CachesInit
  /\ bench \in DOMAIN Programs \cup DOMAIN Guests
  /\ bench \in DOMAIN Programs => \A f, g \in PhysicalPages : memory[f] = memory[g]

OnHart ==
  /\ bench \in DOMAIN Programs
  /\ HartNext(Programs[bench])
  /\ UNCHANGED <<caches, bench>>

OnCaches ==
  /\ bench \in DOMAIN Guests
  /\ CachesNext(Guests[bench])
  /\ UNCHANGED <<hart, bench>>

Next == OnHart \/ OnCaches

Spec == Init /\ [][Next]_vars
=============================================================================
