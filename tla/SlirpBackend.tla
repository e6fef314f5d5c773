---------------------------- MODULE SlirpBackend ----------------------------
(***************************************************************************)
(* The frame side of app/src/slirp_network_backend.cpp: the bounded queue  *)
(* of frames for the guest and the decision when to poll. libslirp itself  *)
(* is external: while it is called it may hand over frames and ask for a   *)
(* poll, in any number. Timers are in SlirpTimers.                         *)
(***************************************************************************)
EXTENDS Integers, Sequences

CONSTANTS
  FrameCount,    \* the host's frames are numbered modulo this
  MaxQueued,     \* maximum_queued_frames (256)
  Interval       \* poll_interval_cycles (10000)

ASSUME SlirpAssumption ==
  /\ FrameCount \in Nat \ {0} /\ MaxQueued \in Nat \ {0} /\ Interval \in Nat \ {0}

FrameIds == 0 .. FrameCount - 1

VARIABLES
  received_frames,
  poll_requested,
  accumulated_cycles,
  offered            \* history: the last frame of a legal size libslirp handed over

slirp == <<received_frames, poll_requested, accumulated_cycles, offered>>

SlirpInit ==
  /\ received_frames = <<>> /\ poll_requested = TRUE /\ accumulated_cycles = 0
  /\ offered = 0

\* The next frame of a size the device can take; the others get no number.
Numbered(fits) == IF fits THEN (offered + 1) % FrameCount ELSE offered

\* Mutant: a full queue makes room by dropping its oldest frame.
send_packetEvicts(fits) ==
  /\ offered' = Numbered(fits)
  /\ received_frames' = IF ~fits THEN received_frames
                        ELSE Append(IF Len(received_frames) < MaxQueued THEN received_frames
                                    ELSE Tail(received_frames), offered')
  /\ UNCHANGED <<poll_requested, accumulated_cycles>>

\* libslirp hands over a frame; one that is empty or too long, and any frame
\* for which the queue has no room, is dropped.
send_packet(fits) ==
  /\ offered' = Numbered(fits)
  /\ received_frames' = IF fits /\ Len(received_frames) < MaxQueued
                        THEN Append(received_frames, offered')
                        ELSE received_frames
  /\ UNCHANGED <<poll_requested, accumulated_cycles>>

\* notify, or a socket registered or unregistered.
notify ==
  /\ poll_requested' = TRUE
  /\ UNCHANGED <<received_frames, accumulated_cycles, offered>>

\* What libslirp may do while it is called.
Callback == (\E fits \in BOOLEAN : send_packet(fits)) \/ notify

PollDue(cycles) == poll_requested \/ accumulated_cycles + cycles >= Interval

\* tick: poll, or only count.
StartPoll(cycles) ==
  /\ PollDue(cycles)
  /\ poll_requested' = FALSE /\ accumulated_cycles' = 0
  /\ UNCHANGED <<received_frames, offered>>

CountCycles(cycles) ==
  /\ ~PollDue(cycles)
  /\ accumulated_cycles' = accumulated_cycles + cycles
  /\ UNCHANGED <<received_frames, poll_requested, offered>>

\* send_frame, after slirp_input has returned.
FrameSent ==
  /\ poll_requested' = TRUE
  /\ UNCHANGED <<received_frames, accumulated_cycles, offered>>

receive_frame ==
  /\ received_frames # <<>>
  /\ received_frames' = Tail(received_frames)
  /\ UNCHANGED <<poll_requested, accumulated_cycles, offered>>
=============================================================================
