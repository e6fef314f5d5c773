---------------------------- MODULE FrameChannel ----------------------------
(***************************************************************************)
(* What a network card promises its driver. Frames from the host reach the *)
(* posted buffers in order and once each; one is refused only while Bound  *)
(* frames wait, and is spoilt only by an unfit buffer. Frames of the guest *)
(* go to the host in order and once each. Where memory is broken, frames   *)
(* may be spoilt or sent again.                                            *)
(***************************************************************************)
EXTENDS Integers, Sequences

CONSTANTS
  Frames,
  Bound,     \* frames that wait for the guest before one is refused
  Unfit,     \* a descriptor chain the card cannot use
  Fit,       \* a receive buffer
  Spoilt     \* a receive buffer returned without a frame

VARIABLES
  offered,   \* the frame the host offered last
  inbound,   \* frames accepted from the host
  posted,    \* receive buffers, in the order posted
  filled,    \* receive buffers returned
  outbound,  \* frames (or unfit chains) the guest has submitted
  wire,      \* the last frame sent, with a bit that changes with every one
  link,      \* whether there is a host network
  broken

vars == <<offered, inbound, posted, filled, outbound, wire, link, broken>>

Init ==
  /\ offered \in Frames /\ inbound = <<>> /\ posted = <<>> /\ filled = <<>>
  /\ outbound = <<>> /\ wire \in [frame : Frames, bit : {0, 1}]
  /\ link \in BOOLEAN /\ broken = FALSE

Offer ==
  /\ link
  /\ offered' \in Frames
  /\ \/ inbound' = Append(inbound, offered')
     \/ Len(inbound) >= Bound /\ UNCHANGED inbound
  /\ UNCHANGED <<posted, filled, outbound, wire, link, broken>>

Post(buffer) ==
  /\ posted' = Append(posted, buffer)
  /\ UNCHANGED <<offered, inbound, filled, outbound, wire, link, broken>>

\* The first frame goes to the first buffer.
Deliver ==
  /\ inbound # <<>> /\ posted # <<>>
  /\ inbound' = Tail(inbound) /\ posted' = Tail(posted)
  /\ \/ Head(posted) = Fit /\ filled' = Append(filled, Head(inbound))
     \/ (Head(posted) = Unfit \/ broken) /\ filled' = Append(filled, Spoilt)
  /\ UNCHANGED <<offered, outbound, wire, link, broken>>

\* Broken memory loses the frame and keeps the buffer.
Lose ==
  /\ broken /\ inbound # <<>>
  /\ inbound' = Tail(inbound)
  /\ UNCHANGED <<offered, posted, filled, outbound, wire, link, broken>>

Take ==
  /\ filled # <<>> /\ filled' = Tail(filled)
  /\ UNCHANGED <<offered, inbound, posted, outbound, wire, link, broken>>

Submit(chain) ==
  /\ outbound' = Append(outbound, chain)
  /\ UNCHANGED <<offered, inbound, posted, filled, wire, link, broken>>

OnWire(chain) ==
  IF chain = Unfit \/ ~link THEN UNCHANGED wire
  ELSE \/ wire' = [frame |-> chain, bit |-> 1 - wire.bit]
       \/ broken /\ UNCHANGED wire

Send ==
  /\ outbound # <<>>
  /\ OnWire(Head(outbound))
  /\ \/ outbound' = Tail(outbound)
     \/ broken /\ UNCHANGED outbound
  /\ UNCHANGED <<offered, inbound, posted, filled, link, broken>>

\* The driver resets the card, which forgets the frames it already holds.
Reset ==
  /\ posted' = <<>> /\ filled' = <<>> /\ outbound' = <<>>
  /\ \E n \in 0 .. Len(inbound) : inbound' = SubSeq(inbound, n + 1, Len(inbound))
  /\ UNCHANGED <<offered, wire, link, broken>>

Place ==
  /\ posted = <<>> /\ outbound = <<>>
  /\ broken' \in BOOLEAN
  /\ UNCHANGED <<offered, inbound, posted, filled, outbound, wire, link>>

Next ==
  \/ Offer \/ Deliver \/ Lose \/ Take \/ Send \/ Reset \/ Place
  \/ \E buffer \in {Fit, Unfit} : Post(buffer)
  \/ \E chain \in Frames \cup {Unfit} : Submit(chain)

Spec == Init /\ [][Next]_vars
=============================================================================
