----------------------------- MODULE Machine64 -----------------------------
(***************************************************************************)
(* The RV64 machine as the main loop runs it (platform64/src/machine.cpp,  *)
(* app/src/rv64_cli.cpp): console input, a tick of the devices, their      *)
(* levels into the PLIC, its lines into the hart, one step of the hart,    *)
(* output, the power-off test. UART, PLIC and hart are the modules of the  *)
(* same name; a second device, the disk, is the level it drives.           *)
(*                                                                         *)
(* The guest is a kernel in supervisor mode, after its firmware: it sets   *)
(* the serial port up, sleeps when it has nothing to do, sends characters  *)
(* from the interrupt handler, and turns the machine off when idle.        *)
(***************************************************************************)
EXTENDS Uart16550

CONSTANTS
  MaxInput,      \* characters typed at the console
  MaxDisk,       \* requests the disk completes
  MaxSend        \* characters the guest sends at a time

ASSUME MachineAssumption == MaxInput \in Nat /\ MaxDisk \in Nat /\ MaxSend \in Nat \ {0}

virtio_block_irq == 1
uart_irq == 2
SupervisorContext == 1

VARIABLES
  priorities, pending, enables, thresholds, claimed, source_levels,
  best_pending_cache, displaced,
  privilege, mstatus, medeleg, mideleg, mie, mip_lines, mip_software,
  waiting_for_interrupt, status, machine_frame, supervisor_frame, requested,
  irq_lines,
  action,        \* what the syscon was asked for
  disk,          \* the interrupt level of the disk
  phase,         \* where the main loop is
  typed, completed,   \* characters typed and disk requests completed so far
  guest          \* pc, return address, characters to send, source in service

P == INSTANCE Plic WITH
  SourceCount <- 2, ContextCount <- 2, PriorityLimit <- 8, WordBits <- 32, WordValues <- {}

H == INSTANCE Hart WITH
  Lines <- {"MEI", "SEI"}, Operands <- [csr \in {} |-> {}]

plic == <<priorities, pending, enables, thresholds, claimed, source_levels,
          best_pending_cache, displaced>>
hart == <<privilege, mstatus, medeleg, mideleg, mie, mip_lines, mip_software,
          waiting_for_interrupt, status, machine_frame, supervisor_frame, requested>>
vars == <<uart, plic, hart, irq_lines, action, disk, phase, typed, completed, guest>>

Init ==
  /\ UartInit
  /\ priorities = [s \in P!Sources |-> 1]
  /\ enables = [c \in P!Contexts |-> IF c = SupervisorContext THEN P!Sources ELSE {}]
  /\ thresholds = [c \in P!Contexts |-> 0] /\ claimed = [c \in P!Contexts |-> 0]
  /\ best_pending_cache = [c \in P!Contexts |-> 0]
  /\ pending = {} /\ source_levels = {} /\ displaced = {}
  /\ privilege = H!Supervisor /\ mstatus = {"SIE"} /\ medeleg = {}
  /\ mideleg = {"SEI"} /\ mie = {"SEI"} /\ mip_lines = {} /\ mip_software = {}
  /\ waiting_for_interrupt = FALSE /\ status = "Retired"
  /\ machine_frame = {} /\ supervisor_frame = {} /\ requested = {}
  /\ irq_lines = {} /\ action = "None" /\ disk = FALSE
  /\ phase = "poll" /\ typed = 0 /\ completed = 0
  /\ guest = [pc |-> "open latch", epc |-> "idle", to_send |-> 0, source |-> 0]

-----------------------------------------------------------------------------
(* One round of the main loop up to the hart. *)

\* Every console_poll_interval rounds what was typed goes to the serial port.
forward_console_input ==
  /\ phase = "poll" /\ typed < MaxInput
  /\ inject_received(typed)
  /\ typed' = typed + 1
  /\ UNCHANGED <<plic, hart, irq_lines, action, disk, phase, completed, guest>>

\* A tick may complete a request of the disk.
tick_devices(completes) ==
  /\ phase = "poll" /\ phase' = "disk level"
  /\ completes => completed < MaxDisk
  /\ disk' = (disk \/ completes)
  /\ completed' = IF completes THEN completed + 1 ELSE completed
  /\ UNCHANGED <<uart, plic, hart, irq_lines, action, typed, guest>>

DiskLevel ==
  /\ phase = "disk level" /\ phase' = "uart level"
  /\ P!set_source_level(virtio_block_irq, disk)
  /\ UNCHANGED <<uart, hart, irq_lines, action, disk, typed, completed, guest>>

UartLevel ==
  /\ phase = "uart level" /\ phase' = "lines"
  /\ P!set_source_level(uart_irq, uart_interrupt_pending)
  /\ UNCHANGED <<uart, hart, irq_lines, action, disk, typed, completed, guest>>

\* Mutant: the lines are not sampled while the hart waits.
ExternalLinesAwake ==
  IF waiting_for_interrupt THEN irq_lines
  ELSE {i \in {"MEI", "SEI"} : best_pending_cache[IF i = "MEI" THEN 0 ELSE 1] # 0}

ExternalLines ==
  {i \in {"MEI", "SEI"} : best_pending_cache[IF i = "MEI" THEN 0 ELSE 1] # 0}

SampleLines ==
  /\ phase = "lines" /\ phase' = "core"
  /\ irq_lines' = ExternalLines
  /\ UNCHANGED <<uart, plic, hart, action, disk, typed, completed, guest>>

-----------------------------------------------------------------------------
(* The guest's instructions: what each does beside the hart's registers, and *)
(* where the program goes on.                                                *)

Goto(pc) == guest' = [guest EXCEPT !.pc = pc]

OnUart(access) == access /\ UNCHANGED <<plic, action, disk>>
OnPlic(access) == access /\ UNCHANGED <<uart, action, disk>>
Elsewhere == UNCHANGED <<uart, plic, action, disk>>

\* The set-up writes the divisor, empties the queues and enables reception.
SetUp ==
  \/ /\ guest.pc = "open latch" /\ Goto("divisor")
     /\ OnUart(WriteLineControl(TRUE))
  \/ /\ guest.pc = "divisor" /\ Goto("close latch")
     /\ OnUart(WriteData(0))
  \/ /\ guest.pc = "close latch" /\ Goto("fifo")
     /\ OnUart(WriteLineControl(FALSE))
  \/ /\ guest.pc = "fifo" /\ Goto("enable")
     /\ OnUart(WriteFifoControl(TRUE, TRUE))
  \/ /\ guest.pc = "enable" /\ Goto("idle")
     /\ OnUart(WriteInterruptEnable({"received"}))

\* Before it sleeps, or starts to send, or turns the machine off, the kernel
\* disables interrupts.
Idle ==
  /\ guest.pc = "check" /\ guest.to_send = 0
  /\ \/ /\ guest' = [guest EXCEPT !.pc = "wake", !.to_send = MaxSend]
        /\ OnUart(WriteInterruptEnable({"received", "transmitter"}))
     \/ /\ Goto("wake") /\ action' = "PowerOff"
        /\ UNCHANGED <<uart, plic, disk>>

Handler ==
  \/ /\ guest.pc = "claim"
     /\ LET source == best_pending_cache[SupervisorContext] IN
        guest' = [guest EXCEPT !.source = source,
                    !.pc = CASE source = 0 -> "return"
                             [] source = uart_irq -> "identify"
                             [] source = virtio_block_irq -> "acknowledge"]
     /\ OnPlic(P!claim(SupervisorContext))
  \/ /\ guest.pc = "acknowledge" /\ Goto("complete")
     /\ disk' = FALSE /\ UNCHANGED <<uart, plic, action>>
  \/ /\ guest.pc = "identify"
     /\ Goto(CASE Identification = "received" -> "receive"
               [] Identification = "transmitter" -> "transmit"
               [] Identification = "none" -> "complete")
     /\ OnUart(interrupt_identification)
  \/ /\ guest.pc = "receive" /\ Goto("identify")
     /\ OnUart(ReadData)
  \/ /\ guest.pc = "transmit" /\ guest.to_send > 0
     /\ guest' = [guest EXCEPT !.pc = "identify", !.to_send = @ - 1]
     /\ OnUart(WriteData(guest.to_send))
  \/ /\ guest.pc = "transmit" /\ guest.to_send = 0 /\ Goto("identify")
     /\ OnUart(WriteInterruptEnable({"received"}))
  \/ /\ guest.pc = "complete" /\ Goto("claim")
     /\ OnPlic(P!complete(SupervisorContext, guest.source))

\* Instructions that change the hart.
DisableInterrupts ==
  /\ guest.pc = "idle" /\ Goto("check")
  /\ H!CsrInstruction("csrrc", "sstatus", {"SIE"}, irq_lines) /\ Elsewhere

Sleep ==
  /\ guest.pc = "check" /\ Goto("wake")
  /\ H!Wfi /\ Elsewhere

EnableInterrupts ==
  /\ guest.pc = "wake" /\ Goto("idle")
  /\ H!CsrInstruction("csrrs", "sstatus", {"SIE"}, irq_lines) /\ Elsewhere

Return ==
  /\ guest.pc = "return" /\ Goto(guest.epc)
  /\ H!execute_sret /\ Elsewhere

-----------------------------------------------------------------------------
(* Core::step with these lines, and the rest of the round. *)

CoreWaits == H!Wait(irq_lines) /\ Elsewhere /\ UNCHANGED guest

CoreInterrupted ==
  /\ H!Interrupt(irq_lines)
  /\ guest' = [guest EXCEPT !.pc = "claim", !.epc = guest.pc]
  /\ Elsewhere

CoreExecutes ==
  /\ H!Running(irq_lines)
  /\ \/ H!Plain /\ (SetUp \/ Idle \/ Handler)
     \/ DisableInterrupts \/ Sleep \/ EnableInterrupts \/ Return

CoreStep ==
  /\ phase = "core" /\ phase' = "output"
  /\ CoreWaits \/ CoreInterrupted \/ CoreExecutes
  /\ UNCHANGED <<irq_lines, typed, completed>>

\* What was sent in this round is printed, then the loop ends if the guest has
\* asked the syscon for it.
FlushOutput ==
  /\ phase = "output"
  /\ phase' = IF action = "None" THEN "poll" ELSE "stopped"
  /\ take_transmitted
  /\ UNCHANGED <<plic, hart, irq_lines, action, disk, typed, completed, guest>>

\* The loop has ended.
Stopped == phase = "stopped" /\ UNCHANGED vars

Round ==
  \/ \E completes \in BOOLEAN : tick_devices(completes)
  \/ DiskLevel \/ UartLevel \/ SampleLines \/ CoreStep \/ FlushOutput

Next == Round \/ forward_console_input \/ Stopped

\* The main loop keeps running.
Spec == Init /\ [][Next]_vars /\ WF_vars(Round)

-----------------------------------------------------------------------------
(* Properties. *)

\* What is typed is read, and a completed disk request is acknowledged, though
\* the guest sleeps in WFI with interrupts disabled, is inside the handler of the
\* other device or about to claim, when the level rises.
InputIsRead ==
  /\ receive_fifo # <<>> ~> receive_fifo = <<>> \/ phase = "stopped"
  /\ disk ~> ~disk \/ phase = "stopped"

\* Characters to send leave through transmitter interrupts and are printed, also
\* while typed characters hide those interrupts and the disk is served first.
OutputIsPrinted ==
  (guest.to_send > 0 \/ transmit_buffer # <<>>)
    ~> (guest.to_send = 0 /\ transmit_buffer = <<>>)
=============================================================================
