------------------------------- MODULE Hart32 -------------------------------
(***************************************************************************)
(* Privileged execution of the RV32 hart (core32/src): Core::step fetches, *)
(* asks the execution units for a pending commit, and commits it or traps. *)
(* In Fast mode it asks the one unit that execution_unit names, in         *)
(* Reference mode every unit in turn.                                      *)
(*                                                                         *)
(* Registers are sets of bits, as in Hart, and the data left out there is  *)
(* left out here: general registers, addresses, epc, cause and tval. What  *)
(* the bus and the page tables answer is part of the instruction: whether  *)
(* it faults.                                                              *)
(***************************************************************************)
EXTENDS Integers, Sequences

CONSTANTS
  Lines,     \* interrupts that the platform drives through IrqLines
  Operands,  \* per CSR, the operands guest software uses with it
  Programs   \* the lines and operands of the software of one behaviour, by name

VARIABLES
  privilege, mstatus, medeleg, mideleg, mie, mip_lines, mip_software,
  waiting_for_interrupt,
  status,                  \* StepResult::status of the last step
  commit,                  \* StepResult::commit.valid of the last step
  machine_frame, supervisor_frame, requested   \* history, as in Hart

registers == <<mstatus, medeleg, mideleg, mie, mip_software>>
history == <<machine_frame, supervisor_frame, requested>>
hart == <<privilege, registers, mip_lines, waiting_for_interrupt, status, commit, history>>

\* A retired WFI reports that the hart waits, with a commit.
H == INSTANCE Hart WITH status <- IF commit THEN "Retired" ELSE status

-----------------------------------------------------------------------------
(* Interrupt selection. *)

priority_order == <<"MEI", "MSI", "MTI", "SEI", "SSI", "STI">>

pending_interrupts(lines) == lines \cup mip_software

interrupt_wake_requested(lines) == pending_interrupts(lines) \cap mie # {}

machine_interrupts_globally_enabled == privilege # H!Machine \/ "MIE" \in mstatus

supervisor_interrupts_globally_enabled ==
  CASE privilege = H!Machine -> FALSE
    [] privilege = H!Supervisor -> "SIE" \in mstatus
    [] privilege = H!User -> TRUE

\* The interrupts that the scan of priority_order does not skip, in its order.
Selectable(lines) ==
  SelectSeq(priority_order, LAMBDA i :
    /\ i \in pending_interrupts(lines) \cap mie
    /\ IF i \in mideleg THEN supervisor_interrupts_globally_enabled
                        ELSE machine_interrupts_globally_enabled)

-----------------------------------------------------------------------------
(* CSRs. *)

SupervisorCsrs == {"sstatus", "sie", "sip", "satp"}
CounterCsrs == {"cycle"}
IdentityCsrs == {"mhartid"}
UnknownCsrs == {"unknown"}
DataCsrs == {"satp", "mscratch"} \cup CounterCsrs \cup IdentityCsrs \cup UnknownCsrs

csr_privilege_allows(csr) ==
  CASE csr \in SupervisorCsrs -> privilege # H!User
    [] csr \in CounterCsrs \cup UnknownCsrs -> TRUE
    [] OTHER -> privilege = H!Machine

satp_access_trapped(csr) ==
  csr = "satp" /\ privilege = H!Supervisor /\ "TVM" \in mstatus

validate_write(csr) ==
  /\ csr_privilege_allows(csr)
  /\ ~satp_access_trapped(csr)
  /\ csr \notin CounterCsrs \cup IdentityCsrs \cup UnknownCsrs

\* Whether mcounteren and scounteren let this mode read the counter is an input.
ReadAllowed(csr, counters) ==
  /\ csr_privilege_allows(csr)
  /\ ~satp_access_trapped(csr)
  /\ csr \in CounterCsrs => privilege = H!Machine \/ counters
  /\ csr \notin UnknownCsrs

read(csr, lines) ==
  CASE csr = "sstatus" -> mstatus \cap H!supervisor_view
    [] csr = "sie"     -> mie \cap mideleg \cap H!SupervisorInterrupts
    [] csr = "sip"     -> pending_interrupts(lines) \cap mideleg \cap H!SupervisorInterrupts
    [] csr = "mstatus" -> mstatus
    [] csr = "medeleg" -> medeleg
    [] csr = "mideleg" -> mideleg
    [] csr = "mie"     -> mie
    [] csr = "mip"     -> pending_interrupts(lines)
    [] csr \in DataCsrs -> {}

read_for_write(csr, value) ==
  LET software == CASE csr = "mip" -> H!SupervisorInterrupts
                    [] csr = "sip" -> {"SSI"}
                    [] OTHER -> {}
  IN  (value \ software) \cup (mip_software \cap software)

sanitize_mstatus(s) ==
  LET kept == s \cap H!StatusBits
  IN  IF kept \cap H!MPP = {"MPP1"} THEN kept \ H!MPP ELSE kept

Registers ==
  [mstatus |-> mstatus, medeleg |-> medeleg, mideleg |-> mideleg, mie |-> mie,
   mip_software |-> mip_software]

Masked(old, mask, value) == (old \ mask) \cup (value \cap mask)

write_validated(csr, value) ==
  CASE csr = "sstatus" ->
         [Registers EXCEPT !.mstatus = sanitize_mstatus(Masked(@, H!supervisor_view, value))]
    [] csr = "sie" ->
         [Registers EXCEPT !.mie = Masked(@, mideleg \cap H!SupervisorInterrupts, value)]
    [] csr = "sip" -> [Registers EXCEPT !.mip_software = Masked(@, mideleg \cap {"SSI"}, value)]
    [] csr = "mstatus" -> [Registers EXCEPT !.mstatus = sanitize_mstatus(value)]
    [] csr = "medeleg" ->
         [Registers EXCEPT !.medeleg = value \cap H!supported_exception_delegation]
    [] csr = "mideleg" -> [Registers EXCEPT !.mideleg = value \cap H!SupervisorInterrupts]
    [] csr = "mie" -> [Registers EXCEPT !.mie = value \cap H!Interrupts]
    [] csr = "mip" -> [Registers EXCEPT !.mip_software = value \cap H!SupervisorInterrupts]
    [] csr \in DataCsrs -> Registers

-----------------------------------------------------------------------------
(* The execution units. Each answers with a pending commit, a trap, or that *)
(* the instruction is not one of its own.                                    *)

NotMine == [status |-> "NotMine"]
Trap(cause) == [status |-> "Trap", cause |-> cause]
Ready(csr_write, privilege_write, wait) ==
  [status |-> "Ready", csr_write |-> csr_write, privilege_write |-> privilege_write,
   wait |-> wait]
Plain == Ready({}, {}, FALSE)
OrFault(d) == IF d.faults THEN Trap("Fault") ELSE Plain

CsrKinds == {"csrrw", "csrrs", "csrrc"}

\* "operand": the register that CSRRW reads into, or CSRRS and CSRRC modify
\* with, is not x0.
Decoded(operands) ==
  [kind : {"integer", "ecall", "ebreak", "mret", "sret", "wfi", "sfence_vma"}]
  \cup [kind : {"jump", "atomic", "memory"}, faults : BOOLEAN]
  \cup UNION {[kind : CsrKinds, csr : {c}, source : operands[c], operand : BOOLEAN,
               counters : {FALSE}] : c \in DOMAIN operands}
  \cup UNION {[kind : CsrKinds, csr : {c}, source : {{}}, operand : BOOLEAN,
               counters : {FALSE, (c \in CounterCsrs)}] : c \in DataCsrs}

execution_unit(kind) ==
  CASE kind \in {"mret", "sret", "wfi", "sfence_vma"} -> "Privileged"
    [] kind = "jump" -> "ControlFlow"
    [] kind = "atomic" -> "Atomic"
    [] kind \in CsrKinds -> "Csr"
    [] kind = "memory" -> "Memory"
    [] OTHER -> "Integer"

environment_call_cause ==
  CASE privilege = H!User -> "EcallU"
    [] privilege = H!Supervisor -> "EcallS"
    [] privilege = H!Machine -> "EcallM"

execute_decoded(d) ==
  CASE d.kind = "integer" -> Plain
    [] d.kind = "ecall" -> Trap(environment_call_cause)
    [] d.kind = "ebreak" -> Trap("Fault")
    [] OTHER -> NotMine

previous_privilege(s) ==
  CASE s \cap H!MPP = {} -> H!User
    [] s \cap H!MPP = {"MPP0"} -> H!Supervisor
    [] s \cap H!MPP = H!MPP -> H!Machine

Bit(bit, condition) == IF condition THEN {bit} ELSE {}

\* MRET writes mstatus.
MachineReturn(s) ==
  LET target == previous_privilege(s)
      new == (s \ ({"MIE", "MPIE"} \cup H!MPP)) \cup Bit("MIE", "MPIE" \in s) \cup {"MPIE"}
  IN  Ready({[csr |-> "mstatus", value |-> new \ Bit("MPRV", target # H!Machine)]},
            {target}, FALSE)

\* SRET writes sstatus, whose view holds no MPRV.
SupervisorReturn(s) ==
  LET new == (s \ {"SIE", "SPIE", "SPP", "MPRV"}) \cup Bit("SIE", "SPIE" \in s) \cup {"SPIE"}
  IN  Ready({[csr |-> "sstatus", value |-> new]},
            {IF "SPP" \in s THEN H!Supervisor ELSE H!User}, FALSE)

\* The bit of mstatus that takes an instruction from supervisor mode.
Withheld(bit, s) == privilege = H!User \/ (privilege = H!Supervisor /\ bit \in s)

execute_privileged(d) ==
  LET s == sanitize_mstatus(mstatus)
      Unless(illegal, answer) == IF illegal THEN Trap("Illegal") ELSE answer
  IN  CASE d.kind = "sfence_vma" -> Unless(Withheld("TVM", s), Plain)
        [] d.kind = "wfi" -> Unless(Withheld("TW", s), Ready({}, {}, TRUE))
        [] d.kind = "mret" -> Unless(privilege # H!Machine, MachineReturn(s))
        [] d.kind = "sret" -> Unless(Withheld("TSR", s), SupervisorReturn(s))
        [] OTHER -> NotMine

execute_control_flow(d) == IF d.kind = "jump" THEN OrFault(d) ELSE NotMine

execute_atomic(d) == IF d.kind = "atomic" THEN OrFault(d) ELSE NotMine

ReadRequired(d) == d.kind # "csrrw" \/ d.operand
WriteRequired(d) == d.kind = "csrrw" \/ d.operand

NewValue(d, lines) ==
  LET base == read_for_write(d.csr, read(d.csr, lines))
  IN  CASE d.kind = "csrrw" -> d.source
        [] d.kind = "csrrs" -> base \cup d.source
        [] d.kind = "csrrc" -> base \ d.source

CsrLegal(d) ==
  /\ WriteRequired(d) => validate_write(d.csr)
  /\ ReadRequired(d) => ReadAllowed(d.csr, d.counters)

execute_csr(d, lines) ==
  IF d.kind \notin CsrKinds THEN NotMine
  ELSE IF ~CsrLegal(d) THEN Trap("Illegal")
  ELSE IF WriteRequired(d)
  THEN Ready({[csr |-> d.csr, value |-> NewValue(d, lines)]}, {}, FALSE)
  ELSE Plain

\* Memory is the last unit: what it refuses is illegal.
execute_memory(d) == IF d.kind = "memory" THEN OrFault(d) ELSE Trap("Illegal")

UnitAnswer(unit, d, lines) ==
  CASE unit = "Integer" -> execute_decoded(d)
    [] unit = "Privileged" -> execute_privileged(d)
    [] unit = "ControlFlow" -> execute_control_flow(d)
    [] unit = "Atomic" -> execute_atomic(d)
    [] unit = "Csr" -> execute_csr(d, lines)
    [] unit = "Memory" -> execute_memory(d)

Units == <<"Integer", "Privileged", "ControlFlow", "Atomic", "Csr", "Memory">>

\* The answer of the first unit asked that knows the instruction.
Execute(d, lines, reference) ==
  LET answers == SelectSeq(Units, LAMBDA u :
                   /\ reference \/ u = execution_unit(d.kind)
                   /\ UnitAnswer(u, d, lines) # NotMine)
  IN  IF answers = <<>> THEN NotMine ELSE UnitAnswer(Head(answers), d, lines)

-----------------------------------------------------------------------------
(* Traps and commits. *)

take_supervisor_trap ==
  LET s == sanitize_mstatus(mstatus)
  IN  /\ mstatus' = sanitize_mstatus((s \ {"SIE", "SPIE", "SPP"})
                      \cup Bit("SPIE", "SIE" \in s)
                      \cup Bit("SPP", privilege = H!Supervisor))
      /\ privilege' = H!Supervisor
      /\ supervisor_frame' = {[privilege |-> privilege, enabled |-> "SIE" \in mstatus]}
      /\ UNCHANGED machine_frame

take_machine_trap ==
  LET s == sanitize_mstatus(mstatus)
  IN  /\ mstatus' = sanitize_mstatus((s \ ({"MIE", "MPIE"} \cup H!MPP))
                      \cup Bit("MPIE", "MIE" \in s)
                      \cup Bit("MPP0", privilege # H!User)
                      \cup Bit("MPP1", privilege = H!Machine))
      /\ privilege' = H!Machine
      /\ machine_frame' = {[privilege |-> privilege, enabled |-> "MIE" \in mstatus]}
      /\ UNCHANGED supervisor_frame

TrapTo(supervisor) ==
  /\ IF supervisor THEN take_supervisor_trap ELSE take_machine_trap
  /\ waiting_for_interrupt' = FALSE
  /\ status' = "TrapTaken" /\ commit' = FALSE
  /\ UNCHANGED <<medeleg, mideleg, mie, mip_software, requested>>

take_trap(cause) == TrapTo(privilege # H!Machine /\ cause \in medeleg)

take_interrupt_trap(cause) == TrapTo(cause \in mideleg)

\* History: a return ends its frame, a CSR write keeps what it leaves alone, and
\* software asks for the interrupts its operand names.
Recorded(d) ==
  /\ machine_frame' = IF d.kind = "mret" THEN {}
                      ELSE H!KeptFrame(machine_frame, H!MPP \cup {"MPIE"})
  /\ supervisor_frame' = IF d.kind = "sret" THEN {}
                         ELSE H!KeptFrame(supervisor_frame, {"SPP", "SPIE"})
  /\ IF d.kind \in CsrKinds
     THEN H!Request(d.kind, d.csr, d.source)
     ELSE UNCHANGED requested

\* The registers after the CSR write of a commit, if it has one.
Written(p) ==
  IF p.csr_write = {} THEN Registers
  ELSE LET w == CHOOSE w \in p.csr_write : TRUE IN write_validated(w.csr, w.value)

Return(p) ==
  privilege' = IF p.privilege_write = {} THEN privilege
               ELSE CHOOSE m \in p.privilege_write : TRUE

\* Mutant: MPRV is left to the CSR write of the return.
commit_pendingKeepsMprv(p) ==
  /\ Return(p)
  /\ waiting_for_interrupt' = p.wait
  /\ mstatus' = Written(p).mstatus
  /\ medeleg' = Written(p).medeleg /\ mideleg' = Written(p).mideleg
  /\ mie' = Written(p).mie /\ mip_software' = Written(p).mip_software

\* The writes of commit_pending: the privilege first, then the CSR, and a
\* return below machine mode clears MPRV.
commit_pending(p) ==
  /\ Return(p)
  /\ waiting_for_interrupt' = p.wait
  /\ mstatus' = Written(p).mstatus
                  \ Bit("MPRV", p.privilege_write # {} /\ privilege' # H!Machine)
  /\ medeleg' = Written(p).medeleg /\ mideleg' = Written(p).mideleg
  /\ mie' = Written(p).mie /\ mip_software' = Written(p).mip_software

\* What commit_pending checks before it writes, under the privilege of the
\* instruction.
Committable(p) ==
  /\ p.status = "Ready"
  /\ \A m \in p.privilege_write : m \in H!Privileges
  /\ \A w \in p.csr_write : validate_write(w.csr)

Retire(d, p) ==
  /\ commit_pending(p)
  /\ Recorded(d)
  /\ status' = IF p.wait THEN "WaitingForInterrupt" ELSE "Retired"
  /\ commit' = TRUE

CoreNotImplemented ==
  /\ waiting_for_interrupt' = FALSE
  /\ status' = "CoreNotImplemented" /\ commit' = FALSE
  /\ UNCHANGED <<privilege, registers, history>>

-----------------------------------------------------------------------------
(* One call of Core::step. *)

HartInit ==
  /\ privilege = H!Machine
  /\ mstatus = {} /\ medeleg = {} /\ mideleg = {} /\ mie = {}
  /\ mip_lines = {} /\ mip_software = {}
  /\ waiting_for_interrupt = FALSE
  /\ status = "Retired" /\ commit = FALSE
  /\ machine_frame = {} /\ supervisor_frame = {} /\ requested = {}

reset ==
  /\ privilege' = H!Machine
  /\ mstatus' = {} /\ medeleg' = {} /\ mideleg' = {} /\ mie' = {}
  /\ mip_lines' = {} /\ mip_software' = {}
  /\ waiting_for_interrupt' = FALSE
  /\ machine_frame' = {} /\ supervisor_frame' = {} /\ requested' = {}
  /\ UNCHANGED <<status, commit>>

sample_interrupt_lines(lines) == mip_lines' = lines

Awake(lines) == ~waiting_for_interrupt \/ interrupt_wake_requested(lines)

Wait(lines) ==
  /\ ~Awake(lines)
  /\ status' = "WaitingForInterrupt" /\ commit' = FALSE
  /\ UNCHANGED <<privilege, registers, waiting_for_interrupt, history>>

Interrupt(lines) ==
  /\ Awake(lines) /\ Selectable(lines) # <<>>
  /\ take_interrupt_trap(Head(Selectable(lines)))

Running(lines) == Awake(lines) /\ Selectable(lines) = <<>>

\* fetch_decode fails.
FetchTrap(lines) ==
  /\ Running(lines)
  /\ \E cause \in {"Illegal", "Fault"} : take_trap(cause)

\* What the history needs of an instruction: all of a write of the pending
\* interrupts, otherwise which return it is.
Noted(d) ==
  IF d.kind \in CsrKinds
  THEN IF WriteRequired(d) /\ d.csr \in {"mip", "sip"} THEN d ELSE [kind |-> "other"]
  ELSE [kind |-> IF d.kind \in {"mret", "sret"} THEN d.kind ELSE "other"]

\* What the units answer to each instruction. The host may change the execution
\* mode between any two steps.
Answers(lines, operands) ==
  {<<Noted(d), Execute(d, lines, reference)>> : d \in Decoded(operands), reference \in BOOLEAN}

Instruction(lines, operands) ==
  /\ Running(lines)
  /\ \E answer \in Answers(lines, operands) :
       LET d == answer[1]
           p == answer[2]
       IN  \/ p.status = "Trap" /\ take_trap(p.cause)
           \/ p.status # "Trap" /\ IF Committable(p) THEN Retire(d, p) ELSE CoreNotImplemented

step(lines, operands) ==
  /\ sample_interrupt_lines(lines)
  /\ Wait(lines) \/ Interrupt(lines) \/ FetchTrap(lines) \/ Instruction(lines, operands)

HartNext(program) ==
  reset \/ \E lines \in SUBSET program.lines : step(lines, program.operands)

-----------------------------------------------------------------------------
(* Properties. *)

\* The RV32 hart behaves as the RV64 hart of module Hart, in both execution
\* modes: the same interrupt is taken, each trap, return and CSR instruction has
\* the same effect in the same privilege, and no instruction that a unit has
\* accepted is refused by the commit (there is no step to CoreNotImplemented).
\* This is H!Spec with its stuttering steps named first.
HartSpec == H!Init /\ [][UNCHANGED hart \/ H!Next]_(H!vars)
=============================================================================
