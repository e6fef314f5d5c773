-------------------------------- MODULE Hart --------------------------------
(***************************************************************************)
(* Privileged execution of the RV64 hart: Core::step as far as it decides  *)
(* between waiting, taking an interrupt, trapping and retiring, and what   *)
(* traps, returns, WFI and CSR instructions do to privilege, mstatus, the  *)
(* delegation registers, mie and mip (core64/src/core.cpp, interrupt.cpp,  *)
(* trap.cpp and csr.cpp).                                                  *)
(*                                                                         *)
(* A register is the set of its bits that are one. The program counter and *)
(* what a trap records beside privilege and interrupt enable (epc, cause,  *)
(* tval, the vector) are data and left out, and so are the FS, SUM, MXR    *)
(* and constant bits of mstatus.                                           *)
(***************************************************************************)
EXTENDS Integers

CONSTANTS
  Lines,     \* interrupts that the platform drives through IrqLines
  Operands   \* per CSR, the operands guest software uses with it

User == 0
Supervisor == 1
Machine == 3
Privileges == {User, Supervisor, Machine}

MachineInterrupts == {"MEI", "MSI", "MTI"}
SupervisorInterrupts == {"SEI", "SSI", "STI"}
Interrupts == MachineInterrupts \cup SupervisorInterrupts
supervisor_writable_pending == {"SSI"}

\* Mutant: supervisor external interrupts come before the machine timer.
PriorityTimerLate ==
  [i \in Interrupts |->
     CASE i = "MEI" -> 1 [] i = "MSI" -> 2 [] i = "MTI" -> 4
       [] i = "SEI" -> 3 [] i = "SSI" -> 5 [] i = "STI" -> 6]

\* The place of an interrupt in the order of selection, 1 is first.
priority_order ==
  [i \in Interrupts |->
     CASE i = "MEI" -> 1 [] i = "MSI" -> 2 [] i = "MTI" -> 3
       [] i = "SEI" -> 4 [] i = "SSI" -> 5 [] i = "STI" -> 6]

\* Synchronous causes; "Fault" stands for those that any instruction may
\* raise and that can be delegated.
Causes == {"Illegal", "Fault", "EcallU", "EcallS", "EcallM"}
supported_exception_delegation == Causes \ {"EcallM"}

\* mstatus. MPP is two bits wide: MPP0 is the low one.
MPP == {"MPP0", "MPP1"}
supervisor_view == {"SIE", "SPIE", "SPP"}
StatusBits ==
  supervisor_view \cup MPP \cup {"MIE", "MPIE", "MPRV", "TVM", "TW", "TSR"}

SupervisorCsrs == {"sstatus", "sie", "sip"}
MachineCsrs == {"mstatus", "medeleg", "mideleg", "mie", "mip"}
Csrs == SupervisorCsrs \cup MachineCsrs

ASSUME HartAssumption ==
  /\ Lines \subseteq Interrupts
  /\ Operands \in [Csrs -> SUBSET SUBSET (StatusBits \cup Interrupts \cup Causes)]

VARIABLES
  privilege,
  mstatus,
  medeleg,
  mideleg,
  mie,
  mip_lines,               \* pending interrupts sampled from the lines
  mip_software,            \* pending interrupts written by software
  waiting_for_interrupt,
  status,                  \* StepResult::status of the last step
  machine_frame,           \* history: what the last trap to each mode must
  supervisor_frame,        \*   give back, {} once software changes it
  requested                \* history: interrupts that software has raised

vars == <<privilege, mstatus, medeleg, mideleg, mie, mip_lines, mip_software,
          waiting_for_interrupt, status, machine_frame, supervisor_frame,
          requested>>

frames == <<machine_frame, supervisor_frame>>
control == <<medeleg, mideleg, mie, mip_software, requested>>

-----------------------------------------------------------------------------
(* Interrupt selection. *)

pending_interrupts(lines) == lines \cup mip_software

interrupt_wake_requested(lines) == pending_interrupts(lines) \cap mie # {}

machine_globally_enabled == privilege # Machine \/ "MIE" \in mstatus

\* Mutant: a delegated interrupt is taken in machine mode too.
SupervisorEnabledAnywhere ==
  privilege # Supervisor \/ "SIE" \in mstatus

\* Mutant: SIE masks supervisor interrupts in user mode too.
SupervisorEnabledBySie ==
  privilege # Machine /\ "SIE" \in mstatus

supervisor_globally_enabled ==
  /\ privilege # Machine
  /\ privilege = User \/ "SIE" \in mstatus

Deliverable(lines) ==
  {i \in pending_interrupts(lines) \cap mie :
     IF i \in mideleg THEN supervisor_globally_enabled
                      ELSE machine_globally_enabled}

select_pending_interrupt(lines) ==
  CHOOSE i \in Deliverable(lines) :
    \A j \in Deliverable(lines) : priority_order[i] <= priority_order[j]

-----------------------------------------------------------------------------
(* Traps and returns. *)

Keep(bit, condition) == IF condition THEN {bit} ELSE {}

PrivilegeBits(p) ==
  CASE p = User -> {} [] p = Supervisor -> {"MPP0"} [] p = Machine -> MPP

PreviousPrivilege(s) ==
  IF "MPP1" \in s THEN Machine
  ELSE IF "MPP0" \in s THEN Supervisor ELSE User

\* Mutant: the reserved encoding of MPP is stored.
SanitizeKeepsReserved(s) == s \cap StatusBits

\* The reserved encoding 2 of MPP reads as user.
sanitize_mstatus(s) ==
  IF s \cap MPP = {"MPP1"} THEN (s \cap StatusBits) \ MPP
                           ELSE s \cap StatusBits

\* Mutant: the trap clears what a supervisor trap saved.
MachineTrapClearsSpie ==
  /\ mstatus' = (mstatus \ ({"MIE", "MPIE", "SPIE"} \cup MPP))
                   \cup Keep("MPIE", "MIE" \in mstatus)
                   \cup PrivilegeBits(privilege)
  /\ machine_frame' = {[privilege |-> privilege, enabled |-> "MIE" \in mstatus]}
  /\ privilege' = Machine
  /\ UNCHANGED supervisor_frame

take_machine_trap ==
  /\ mstatus' = (mstatus \ ({"MIE", "MPIE"} \cup MPP))
                   \cup Keep("MPIE", "MIE" \in mstatus)
                   \cup PrivilegeBits(privilege)
  /\ machine_frame' = {[privilege |-> privilege, enabled |-> "MIE" \in mstatus]}
  /\ privilege' = Machine
  /\ UNCHANGED supervisor_frame

take_supervisor_trap ==
  /\ mstatus' = (mstatus \ {"SIE", "SPIE", "SPP"})
                   \cup Keep("SPIE", "SIE" \in mstatus)
                   \cup Keep("SPP", privilege = Supervisor)
  /\ supervisor_frame' = {[privilege |-> privilege, enabled |-> "SIE" \in mstatus]}
  /\ privilege' = Supervisor
  /\ UNCHANGED machine_frame

TrapTaken ==
  /\ waiting_for_interrupt' = FALSE
  /\ status' = "TrapTaken"
  /\ UNCHANGED control

take_trap(cause) ==
  /\ \/ /\ privilege # Machine /\ cause \in medeleg
        /\ take_supervisor_trap
     \/ /\ privilege = Machine \/ cause \notin medeleg
        /\ take_machine_trap
  /\ TrapTaken

take_interrupt_trap(cause) ==
  /\ \/ cause \in mideleg /\ take_supervisor_trap
     \/ cause \notin mideleg /\ take_machine_trap
  /\ TrapTaken

Retired(wait) ==
  /\ status' = "Retired"
  /\ waiting_for_interrupt' = wait

execute_mret ==
  /\ privilege = Machine
  /\ privilege' = PreviousPrivilege(mstatus)
  /\ mstatus' = (mstatus \ ({"MIE"} \cup MPP
                            \cup Keep("MPRV", privilege' # Machine)))
                   \cup Keep("MIE", "MPIE" \in mstatus)
                   \cup {"MPIE"}
  /\ machine_frame' = {}
  /\ UNCHANGED <<control, supervisor_frame>>
  /\ Retired(FALSE)

\* Mutant: MPRV survives the return.
SretKeepsMprv ==
  /\ privilege = Machine \/ (privilege = Supervisor /\ "TSR" \notin mstatus)
  /\ privilege' = IF "SPP" \in mstatus THEN Supervisor ELSE User
  /\ mstatus' = (mstatus \ {"SIE", "SPP"})
                   \cup Keep("SIE", "SPIE" \in mstatus)
                   \cup {"SPIE"}
  /\ supervisor_frame' = {}
  /\ UNCHANGED <<control, machine_frame>>
  /\ Retired(FALSE)

execute_sret ==
  /\ privilege = Machine \/ (privilege = Supervisor /\ "TSR" \notin mstatus)
  /\ privilege' = IF "SPP" \in mstatus THEN Supervisor ELSE User
  /\ mstatus' = (mstatus \ {"SIE", "SPP", "MPRV"})
                   \cup Keep("SIE", "SPIE" \in mstatus)
                   \cup {"SPIE"}
  /\ supervisor_frame' = {}
  /\ UNCHANGED <<control, machine_frame>>
  /\ Retired(FALSE)

wfi_allowed ==
  privilege = Machine \/ (privilege = Supervisor /\ "TW" \notin mstatus)

environment_call_cause ==
  CASE privilege = User -> "EcallU"
    [] privilege = Supervisor -> "EcallS"
    [] privilege = Machine -> "EcallM"

-----------------------------------------------------------------------------
(* CSR instructions. *)

privilege_allows(csr) ==
  privilege = Machine \/ (privilege = Supervisor /\ csr \in SupervisorCsrs)

read(csr, lines) ==
  CASE csr = "sstatus" -> mstatus \cap supervisor_view
    [] csr = "sie"     -> mie \cap mideleg \cap SupervisorInterrupts
    [] csr = "sip"     -> pending_interrupts(lines) \cap mideleg
                            \cap SupervisorInterrupts
    [] csr = "mstatus" -> mstatus
    [] csr = "medeleg" -> medeleg
    [] csr = "mideleg" -> mideleg
    [] csr = "mie"     -> mie
    [] csr = "mip"     -> pending_interrupts(lines)

\* Mutant: a read-modify-write starts from the value read.
ReadForWriteIdentity(csr, value) == value

\* What CSRRS and CSRRC modify: the software bits in place of the lines.
read_for_write(csr, value) ==
  CASE csr = "mip" -> (value \ SupervisorInterrupts)
                        \cup (mip_software \cap SupervisorInterrupts)
    [] csr = "sip" -> (value \ supervisor_writable_pending)
                        \cup (mip_software \cap supervisor_writable_pending)
    [] OTHER -> value

NewValue(op, csr, source, lines) ==
  LET base == read_for_write(csr, read(csr, lines))
  IN  CASE op = "csrrw" -> source
        [] op = "csrrs" -> base \cup source
        [] op = "csrrc" -> base \ source

\* A frame stays while the bits that hold it keep their values.
KeptFrame(frame, bits) ==
  IF mstatus' \cap bits = mstatus \cap bits THEN frame ELSE {}

write_status(csr, value) ==
  /\ \/ /\ csr = "mstatus"
        /\ mstatus' = sanitize_mstatus(value)
        /\ machine_frame' = KeptFrame(machine_frame, MPP \cup {"MPIE"})
     \/ /\ csr = "sstatus"
        /\ mstatus' = sanitize_mstatus((mstatus \ supervisor_view)
                                         \cup (value \cap supervisor_view))
        /\ UNCHANGED machine_frame
  /\ supervisor_frame' = KeptFrame(supervisor_frame, {"SPP", "SPIE"})
  /\ UNCHANGED control

\* Mutant: sie exposes interrupts that are not delegated.
WriteEnableUnmasked(csr, value) ==
  /\ \/ /\ csr = "mie"
        /\ mie' = value \cap Interrupts
     \/ /\ csr = "sie"
        /\ mie' = (mie \ SupervisorInterrupts) \cup (value \cap SupervisorInterrupts)
  /\ UNCHANGED <<mstatus, medeleg, mideleg, mip_software, requested, frames>>

write_enable(csr, value) ==
  /\ \/ /\ csr = "mie"
        /\ mie' = value \cap Interrupts
     \/ /\ csr = "sie"
        /\ LET mask == mideleg \cap SupervisorInterrupts
           IN  mie' = (mie \ mask) \cup (value \cap mask)
  /\ UNCHANGED <<mstatus, medeleg, mideleg, mip_software, requested, frames>>

PendingMask(csr) ==
  IF csr = "mip" THEN SupervisorInterrupts
                 ELSE mideleg \cap supervisor_writable_pending

\* The interrupts that software asks for: those the operand names, whatever
\* the lines do.
Request(op, csr, source) ==
  LET named == source \cap PendingMask(csr)
  IN  requested' = CASE op = "csrrw" -> (requested \ PendingMask(csr)) \cup named
                     [] op = "csrrs" -> requested \cup named
                     [] op = "csrrc" -> requested \ named

write_pending(csr, value) ==
  /\ \/ /\ csr = "mip"
        /\ mip_software' = value \cap SupervisorInterrupts
     \/ /\ csr = "sip"
        /\ mip_software' = (mip_software \ PendingMask(csr))
                             \cup (value \cap PendingMask(csr))
  /\ UNCHANGED <<mstatus, medeleg, mideleg, mie, frames>>

write_delegation(csr, value) ==
  /\ \/ /\ csr = "medeleg"
        /\ medeleg' = value \cap supported_exception_delegation
        /\ UNCHANGED mideleg
     \/ /\ csr = "mideleg"
        /\ mideleg' = value \cap SupervisorInterrupts
        /\ UNCHANGED medeleg
  /\ UNCHANGED <<mstatus, mie, mip_software, requested, frames>>

CsrInstruction(op, csr, source, lines) ==
  /\ privilege_allows(csr)
  /\ LET value == NewValue(op, csr, source, lines)
     IN  \/ write_status(csr, value)
         \/ write_enable(csr, value)
         \/ write_pending(csr, value) /\ Request(op, csr, source)
         \/ write_delegation(csr, value)
  /\ UNCHANGED privilege
  /\ Retired(FALSE)

-----------------------------------------------------------------------------
(* One call of Core::step. The lines are sampled first. *)

Init ==
  /\ privilege = Machine
  /\ mstatus = {}
  /\ medeleg = {} /\ mideleg = {} /\ mie = {}
  /\ mip_lines = {} /\ mip_software = {}
  /\ waiting_for_interrupt = FALSE
  /\ status = "Retired"
  /\ machine_frame = {} /\ supervisor_frame = {}
  /\ requested = {}

reset ==
  /\ privilege' = Machine
  /\ mstatus' = {}
  /\ medeleg' = {} /\ mideleg' = {} /\ mie' = {}
  /\ mip_lines' = {} /\ mip_software' = {}
  /\ waiting_for_interrupt' = FALSE
  /\ machine_frame' = {} /\ supervisor_frame' = {}
  /\ requested' = {}
  /\ UNCHANGED status

Awake(lines) == ~waiting_for_interrupt \/ interrupt_wake_requested(lines)

Wait(lines) ==
  /\ ~Awake(lines)
  /\ mip_lines' = lines
  /\ status' = "WaitingForInterrupt"
  /\ UNCHANGED <<privilege, mstatus, control, waiting_for_interrupt, frames>>

Interrupt(lines) ==
  /\ Awake(lines)
  /\ Deliverable(lines) # {}
  /\ mip_lines' = lines
  /\ take_interrupt_trap(select_pending_interrupt(lines))

Running(lines) ==
  /\ Awake(lines)
  /\ Deliverable(lines) = {}
  /\ mip_lines' = lines

\* An instruction without a privileged effect retires.
Plain ==
  /\ UNCHANGED <<privilege, mstatus, control, frames>>
  /\ Retired(FALSE)

Wfi ==
  /\ wfi_allowed
  /\ UNCHANGED <<privilege, mstatus, control, frames>>
  /\ Retired(TRUE)

Execute(lines) ==
  \/ Plain
  \/ Wfi
  \/ execute_mret
  \/ execute_sret
  \/ \E cause \in {"Illegal", "Fault", environment_call_cause} : take_trap(cause)
  \/ \E op \in {"csrrw", "csrrs", "csrrc"}, csr \in Csrs :
       \E source \in Operands[csr] : CsrInstruction(op, csr, source, lines)

step(lines) ==
  \/ Wait(lines)
  \/ Interrupt(lines)
  \/ Running(lines) /\ Execute(lines)

Next == reset \/ \E lines \in SUBSET Lines : step(lines)

Spec == Init /\ [][Next]_vars

-----------------------------------------------------------------------------
(* Properties. *)

Frames == [privilege : Privileges, enabled : BOOLEAN]

\* Every register holds bits that exist, and MPP never holds its reserved
\* encoding, whatever a CSR instruction writes.
TypeOK ==
  /\ privilege \in Privileges
  /\ mstatus \in SUBSET StatusBits
  /\ "MPP1" \in mstatus => "MPP0" \in mstatus
  /\ medeleg \in SUBSET supported_exception_delegation
  /\ mideleg \in SUBSET SupervisorInterrupts
  /\ mie \in SUBSET Interrupts
  /\ mip_lines \in SUBSET Lines
  /\ mip_software \in SUBSET SupervisorInterrupts
  /\ waiting_for_interrupt \in BOOLEAN
  /\ status \in {"Retired", "TrapTaken", "WaitingForInterrupt"}
  /\ machine_frame \in SUBSET Frames
  /\ supervisor_frame \in SUBSET Frames
  /\ requested \in SUBSET SupervisorInterrupts

\* MPRV redirects the loads and stores of machine mode only: no return, trap
\* or CSR write leaves it set below machine mode.
MprvOnlyInMachineMode == "MPRV" \in mstatus => privilege = Machine

\* CSRRS and CSRRC on mip and sip leave pending in software exactly the
\* interrupts that software raised: an interrupt line that is high during
\* the read-modify-write is never latched.
LinesNeverLatched == mip_software = requested

\* A trap, synchronous or not, never lowers the privilege.
TrapsNeverLowerPrivilege ==
  [][status' = "TrapTaken" => privilege' >= privilege]_vars

\* A return gives back the privilege and the interrupt enable that the trap
\* interrupted, if software has not rewritten them: whatever traps to machine
\* mode and CSR writes to other fields come between.
ReturnsRestore ==
  [][/\ execute_mret =>
          \A f \in machine_frame :
            privilege' = f.privilege /\ ("MIE" \in mstatus') = f.enabled
     /\ execute_sret =>
          \A f \in supervisor_frame :
            privilege' = f.privilege /\ ("SIE" \in mstatus') = f.enabled]_vars

\* Below machine mode, a machine interrupt that is pending and enabled in mie
\* is taken by the very step that samples it, before any instruction, also
\* from WFI and whatever supervisor interrupts are pending.
MachineInterruptsPreempt ==
  [][privilege # Machine
      /\ (mip_lines' \cup mip_software') \cap mie' \cap MachineInterrupts # {}
     => privilege' = Machine]_vars

\* Machine state belongs to machine mode: a step of supervisor or user mode
\* that does not trap to machine mode leaves the delegation registers, the
\* enables and pending bits that are not delegated and the machine fields of
\* mstatus as they are.
SupervisorConfined ==
  [][privilege # Machine /\ privilege' # Machine =>
       /\ UNCHANGED <<medeleg, mideleg>>
       /\ mie' \ mideleg = mie \ mideleg
       /\ mip_software' \ mideleg = mip_software \ mideleg
       /\ mip_software' \ {"SSI"} = mip_software \ {"SSI"}
       /\ mstatus' \ (supervisor_view \cup {"MPRV"})
            = mstatus \ (supervisor_view \cup {"MPRV"})]_vars

\* The mode that takes an interrupt.
Target(i) == IF i \in mideleg THEN Supervisor ELSE Machine

\* Neither mstatus nor WFI holds back an interrupt for a mode above the current
\* one: while it is pending and enabled in mie, no instruction runs and the hart
\* does not sleep, whatever MIE and SIE are, which the higher mode may have left
\* clear when it returned.
HigherModesNeverWait ==
  [][(\E i \in (mip_lines' \cup mip_software') \cap mie' : privilege < Target(i)')
       => status' = "TrapTaken"]_vars
=============================================================================
