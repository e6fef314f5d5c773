---------------------------- MODULE PlicGateway ----------------------------
(***************************************************************************)
(* What an interrupt controller with level-sensitive sources promises for  *)
(* each source, without priorities, enables or thresholds: the gate of a   *)
(* source is idle, pending or in service. Plic implements it.              *)
(***************************************************************************)
CONSTANT Sources

VARIABLES
  level,  \* the set of sources whose level is high
  gate    \* per source: "idle", "pending" or "service"

vars == <<level, gate>>

Init ==
  /\ level = {}
  /\ gate = [s \in Sources |-> "idle"]

Raise(s) ==
  /\ s \notin level
  /\ level' = level \cup {s}
  /\ gate' = [gate EXCEPT ![s] = IF @ = "idle" THEN "pending" ELSE @]

Lower(s) ==
  /\ level' = level \ {s}
  /\ UNCHANGED gate

\* A pending source enters service. The server may abandon the source it was
\* serving, whose gate then opens without a completion.
Accept(s, abandoned) ==
  /\ gate[s] = "pending"
  /\ \A t \in abandoned : gate[t] = "service"
  /\ \A t, u \in abandoned : t = u
  /\ gate' = [t \in Sources |-> IF t = s THEN "service"
                                ELSE IF t \in abandoned THEN "idle" ELSE gate[t]]
  /\ UNCHANGED level

Finish(s) ==
  /\ gate[s] = "service"
  /\ gate' = [gate EXCEPT ![s] = IF s \in level THEN "pending" ELSE "idle"]
  /\ UNCHANGED level

Next ==
  \E s \in Sources :
    \/ Raise(s)
    \/ Lower(s)
    \/ \E abandoned \in SUBSET Sources : Accept(s, abandoned)
    \/ Finish(s)

Spec == Init /\ [][Next]_vars
=============================================================================
