---------------------------- MODULE MCMachine64 ----------------------------
(* Three characters typed, three disk requests, two characters sent: each    *)
(* device interrupts while the other is pending or in service.               *)
EXTENDS Machine64
=============================================================================
