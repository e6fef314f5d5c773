----------------------------- MODULE HartProofs -----------------------------
(***************************************************************************)
(* Proofs about the hart's privileged state, for every set of interrupt    *)
(* lines the platform drives and every operand of a CSR instruction.       *)
(***************************************************************************)
EXTENDS Hart, WellOrder, TLAPS

\* The bits of mstatus that a trap saved hold what it saved: the part of the
\* inductive invariant ReturnsRestore follows from.
FramesIntact ==
  /\ \A f \in machine_frame :
       /\ PreviousPrivilege(mstatus) = f.privilege
       /\ ("MPIE" \in mstatus) = f.enabled
  /\ \A f \in supervisor_frame :
       /\ (IF "SPP" \in mstatus THEN Supervisor ELSE User) = f.privilege
       /\ ("SPIE" \in mstatus) = f.enabled

IInv ==
  /\ TypeOK
  /\ MprvOnlyInMachineMode
  /\ LinesNeverLatched
  /\ FramesIntact

-----------------------------------------------------------------------------
(* What a step is made of. *)

\* The interrupt that is selected can be delivered, and no other that can be
\* comes before it in the order.
LEMMA Selection ==
  ASSUME NEW lines \in SUBSET Lines, TypeOK, Deliverable(lines) # {}
  PROVE  LET i == select_pending_interrupt(lines)
         IN  /\ i \in Deliverable(lines)
             /\ \A j \in Deliverable(lines) : priority_order[i] <= priority_order[j]
<1> DEFINE D == Deliverable(lines)
           T == {priority_order[i] : i \in D}
<1>1. D \subseteq Interrupts  BY HartAssumption DEF Deliverable, pending_interrupts, TypeOK
<1>2. \A i \in Interrupts : priority_order[i] \in Nat
  BY DEF priority_order, Interrupts, MachineInterrupts, SupervisorInterrupts
<1>3. T \in SUBSET Nat /\ T # {}  BY <1>1, <1>2
<1>4. PICK x \in T : \A y \in T : x <= y  BY <1>3, LeastNat
<1>5. \E i \in D : \A j \in D : priority_order[i] <= priority_order[j]  BY <1>4
<1>. QED  BY <1>5 DEF select_pending_interrupt

\* A delegated interrupt is delivered below machine mode only.
LEMMA DelegatedBelowMachine ==
  ASSUME NEW lines \in SUBSET Lines, NEW i \in Deliverable(lines), i \in mideleg
  PROVE  privilege # Machine
  BY DEF Deliverable, supervisor_globally_enabled

-----------------------------------------------------------------------------
(* Traps. *)

\* What a trap saves is a frame.
LEMMA FrameType ==
  ASSUME NEW p \in Privileges, NEW x, NEW S
  PROVE  {[privilege |-> p, enabled |-> x \in S]} \in SUBSET Frames
<1>1. (x \in S) \in BOOLEAN  OBVIOUS
<1> DEFINE e == x \in S
<1> HIDE DEF e
<1>2. e \in BOOLEAN  BY <1>1 DEF e
<1>3. {[privilege |-> p, enabled |-> e]} \in SUBSET Frames  BY <1>2 DEF Frames
<1>. QED  BY <1>3 DEF e

\* A trap to machine mode keeps the invariant, also on top of a supervisor
\* trap that has not returned.
LEMMA MachineTrapKeeps ==
  ASSUME IInv, take_machine_trap, TrapTaken, mip_lines' \in SUBSET Lines
  PROVE  IInv'
<1> USE DEF IInv, TypeOK, TrapTaken, control
<1>1. privilege \in Privileges /\ privilege' = Machine /\ status' = "TrapTaken"
  BY DEF take_machine_trap
<1>2. /\ mstatus' \in SUBSET StatusBits
      /\ "MPP1" \in mstatus' <=> privilege = Machine
      /\ "MPP0" \in mstatus' <=> privilege # User
      /\ "MPIE" \in mstatus' <=> "MIE" \in mstatus
      /\ "SPP" \in mstatus' <=> "SPP" \in mstatus
      /\ "SPIE" \in mstatus' <=> "SPIE" \in mstatus
  BY DEF take_machine_trap, Keep, PrivilegeBits, MPP, StatusBits, Privileges,
         User, Supervisor, Machine, supervisor_view
<1>3. machine_frame' = {[privilege |-> privilege, enabled |-> "MIE" \in mstatus]}
      /\ supervisor_frame' = supervisor_frame
  BY DEF take_machine_trap
<1>a. machine_frame' \in SUBSET Frames
  BY <1>1, <1>3, FrameType, Zenon
<1>b. supervisor_frame' = supervisor_frame  BY <1>3
<1>c. "MPP1" \in mstatus' => "MPP0" \in mstatus'  BY <1>2 DEF User, Machine
<1>d. privilege' \in Privileges  BY <1>1 DEF Privileges
<1>4. TypeOK'
  BY <1>1, <1>2, <1>a, <1>b, <1>c, <1>d
<1>5. FramesIntact'
  <2>1. PreviousPrivilege(mstatus)' = privilege
    BY <1>1, <1>2 DEF PreviousPrivilege, Privileges, User, Supervisor, Machine
  <2>. QED  BY <1>2, <1>3, <2>1 DEF FramesIntact
<1>6. MprvOnlyInMachineMode'  BY <1>1 DEF MprvOnlyInMachineMode
<1>7. LinesNeverLatched'  BY DEF LinesNeverLatched
<1>. QED  BY <1>4, <1>5, <1>6, <1>7

\* A trap to supervisor mode, which never comes from machine mode, keeps it.
LEMMA SupervisorTrapKeeps ==
  ASSUME IInv, take_supervisor_trap, TrapTaken, privilege # Machine,
         mip_lines' \in SUBSET Lines
  PROVE  IInv'
<1> USE DEF IInv, TypeOK, TrapTaken, control
<1>1. privilege \in {User, Supervisor} /\ privilege' = Supervisor /\ status' = "TrapTaken"
  BY DEF take_supervisor_trap, Privileges
<1>2. /\ mstatus' \in SUBSET StatusBits
      /\ "SPP" \in mstatus' <=> privilege = Supervisor
      /\ "SPIE" \in mstatus' <=> "SIE" \in mstatus
      /\ \A b \in MPP \cup {"MPIE", "MPRV"} : b \in mstatus' <=> b \in mstatus
  BY DEF take_supervisor_trap, Keep, MPP, StatusBits, supervisor_view
<1>3. supervisor_frame' = {[privilege |-> privilege, enabled |-> "SIE" \in mstatus]}
      /\ machine_frame' = machine_frame
  BY DEF take_supervisor_trap
<1>a. supervisor_frame' \in SUBSET Frames
  BY <1>1, <1>3, FrameType, Zenon DEF Privileges
<1>4. TypeOK'
  BY <1>1, <1>2, <1>3, <1>a DEF Privileges, User, Supervisor, Machine, MPP
<1>5. FramesIntact'
  <2>1. PreviousPrivilege(mstatus)' = PreviousPrivilege(mstatus)
    BY <1>2 DEF PreviousPrivilege, MPP
  <2>2. (IF "SPP" \in mstatus' THEN Supervisor ELSE User) = privilege
    BY <1>1, <1>2
  <2>. QED  BY <1>2, <1>3, <2>1, <2>2 DEF FramesIntact
<1>6. MprvOnlyInMachineMode'  BY <1>1, <1>2 DEF MprvOnlyInMachineMode
<1>7. LinesNeverLatched'  BY DEF LinesNeverLatched
<1>. QED  BY <1>4, <1>5, <1>6, <1>7

-----------------------------------------------------------------------------
(* Returns. *)

\* MRET keeps the invariant: it clears MPRV when it leaves machine mode.
LEMMA MretKeeps ==
  ASSUME IInv, execute_mret, mip_lines' \in SUBSET Lines
  PROVE  IInv'
<1> USE DEF IInv, TypeOK, Retired, control
<1>1. /\ privilege = Machine /\ status' = "Retired"
      /\ privilege' = PreviousPrivilege(mstatus)
      /\ machine_frame' = {} /\ supervisor_frame' = supervisor_frame
  BY DEF execute_mret
<1>2. /\ mstatus' \in SUBSET StatusBits
      /\ "MPP1" \notin mstatus'
      /\ "MPRV" \in mstatus' => privilege' = Machine
      /\ "SPP" \in mstatus' <=> "SPP" \in mstatus
      /\ "SPIE" \in mstatus' <=> "SPIE" \in mstatus
  BY DEF execute_mret, Keep, MPP, StatusBits, supervisor_view
<1>3. privilege' \in Privileges
  BY <1>1 DEF PreviousPrivilege, Privileges
<1>4. TypeOK'  BY <1>1, <1>2, <1>3 DEF execute_mret
<1>5. FramesIntact'  BY <1>1, <1>2 DEF FramesIntact
<1>6. MprvOnlyInMachineMode'  BY <1>2 DEF MprvOnlyInMachineMode
<1>7. LinesNeverLatched'  BY DEF LinesNeverLatched, execute_mret
<1>. QED  BY <1>4, <1>5, <1>6, <1>7

\* SRET keeps it, executed in supervisor or in machine mode.
LEMMA SretKeeps ==
  ASSUME IInv, execute_sret, mip_lines' \in SUBSET Lines
  PROVE  IInv'
<1> USE DEF IInv, TypeOK, Retired, control
<1>1. /\ status' = "Retired"
      /\ supervisor_frame' = {} /\ machine_frame' = machine_frame
  BY DEF execute_sret
<1>2. /\ mstatus' \in SUBSET StatusBits
      /\ "MPRV" \notin mstatus'
      /\ \A b \in MPP \cup {"MPIE"} : b \in mstatus' <=> b \in mstatus
  BY DEF execute_sret, Keep, MPP, StatusBits, supervisor_view
<1>3. privilege' \in Privileges
  BY DEF execute_sret, Privileges
<1>4. TypeOK'  BY <1>1, <1>2, <1>3 DEF execute_sret, MPP
<1>5. FramesIntact'
  <2>1. PreviousPrivilege(mstatus)' = PreviousPrivilege(mstatus)
    BY <1>2 DEF PreviousPrivilege, MPP
  <2>. QED  BY <1>1, <1>2, <2>1 DEF FramesIntact
<1>6. MprvOnlyInMachineMode'  BY <1>2 DEF MprvOnlyInMachineMode
<1>7. LinesNeverLatched'  BY DEF LinesNeverLatched, execute_sret
<1>. QED  BY <1>4, <1>5, <1>6, <1>7

-----------------------------------------------------------------------------
(* CSR instructions. *)

\* What sanitize_mstatus returns has no reserved encoding of MPP and, but for
\* MPP, the bits of its argument.
LEMMA Sanitized ==
  ASSUME NEW s
  PROVE  /\ sanitize_mstatus(s) \in SUBSET StatusBits
         /\ "MPP1" \in sanitize_mstatus(s) => "MPP0" \in sanitize_mstatus(s)
         /\ \A b \in StatusBits \ MPP : b \in sanitize_mstatus(s) <=> b \in s
         /\ ~("MPP1" \in s /\ "MPP0" \notin s) =>
              \A b \in MPP : b \in sanitize_mstatus(s) <=> b \in s
  BY DEF sanitize_mstatus, StatusBits, MPP, supervisor_view

\* Writes of mstatus and sstatus keep the invariant: MPRV can be set in machine
\* mode only, and a frame whose bits change is given up.
LEMMA StatusWriteKeeps ==
  ASSUME IInv, NEW csr \in Csrs, NEW value, privilege_allows(csr),
         write_status(csr, value), UNCHANGED privilege, Retired(FALSE),
         mip_lines' \in SUBSET Lines
  PROVE  IInv'
<1> USE DEF IInv, TypeOK, Retired, control
<1> DEFINE view == (mstatus \ supervisor_view) \cup (value \cap supervisor_view)
<1>1. /\ UNCHANGED <<medeleg, mideleg, mie, mip_software, requested>>
      /\ supervisor_frame' = KeptFrame(supervisor_frame, {"SPP", "SPIE"})
      /\ status' = "Retired" /\ waiting_for_interrupt' = FALSE
      /\ UNCHANGED privilege
  BY DEF write_status
<1>2. mstatus' \in SUBSET StatusBits /\ ("MPP1" \in mstatus' => "MPP0" \in mstatus')
  <2>1. mstatus' = sanitize_mstatus(value) \/ mstatus' = sanitize_mstatus(view)
    BY DEF write_status
  <2>. QED  BY <2>1, Sanitized
<1>3. /\ machine_frame' \subseteq machine_frame
      /\ machine_frame' # {} =>
           \A b \in MPP \cup {"MPIE"} : b \in mstatus' <=> b \in mstatus
  <2>1. CASE csr = "mstatus"
    <3>1. machine_frame' = KeptFrame(machine_frame, MPP \cup {"MPIE"})
      BY <2>1 DEF write_status
    <3>. QED  BY <3>1 DEF KeptFrame
  <2>2. CASE csr = "sstatus"
    <3>1. machine_frame' = machine_frame /\ mstatus' = sanitize_mstatus(view)
      BY <2>2 DEF write_status
    <3>2. \A b \in MPP \cup {"MPIE"} : b \in view <=> b \in mstatus
      BY DEF MPP, supervisor_view
    <3>3. "MPIE" \in StatusBits \ MPP  BY DEF StatusBits, MPP
    <3>4. ~("MPP1" \in view /\ "MPP0" \notin view)  BY <3>2 DEF MPP
    <3>. HIDE DEF view
    <3>. QED  BY <3>1, <3>2, <3>3, <3>4, Sanitized
  <2>. QED  BY <2>1, <2>2 DEF write_status
<1>4. /\ supervisor_frame' \subseteq supervisor_frame
      /\ supervisor_frame' # {} =>
           \A b \in {"SPP", "SPIE"} : b \in mstatus' <=> b \in mstatus
  BY <1>1 DEF KeptFrame
<1>5. FramesIntact'
  <2>1. machine_frame' # {} => PreviousPrivilege(mstatus)' = PreviousPrivilege(mstatus)
    BY <1>3 DEF PreviousPrivilege, MPP
  <2>2. supervisor_frame' # {} => ("SPP" \in mstatus' <=> "SPP" \in mstatus)
    BY <1>4
  <2>. QED  BY <1>3, <1>4, <2>1, <2>2 DEF FramesIntact
<1>6. MprvOnlyInMachineMode'
  <2>1. CASE csr = "mstatus"
    BY <1>1, <2>1 DEF MprvOnlyInMachineMode, privilege_allows, SupervisorCsrs
  <2>2. CASE csr = "sstatus"
    <3>1. mstatus' = sanitize_mstatus(view)  BY <2>2 DEF write_status
    <3>2. "MPRV" \in StatusBits \ MPP /\ ("MPRV" \in view => "MPRV" \in mstatus)
      BY DEF StatusBits, MPP, supervisor_view
    <3>. HIDE DEF view
    <3>3. "MPRV" \in mstatus' => "MPRV" \in mstatus  BY <3>1, <3>2, Sanitized
    <3>. QED  BY <1>1, <3>3 DEF MprvOnlyInMachineMode
  <2>. QED  BY <2>1, <2>2 DEF write_status
<1>7. LinesNeverLatched'  BY <1>1 DEF LinesNeverLatched
<1>9. TypeOK'  BY <1>1, <1>2, <1>3, <1>4
<1>. QED  BY <1>5, <1>6, <1>7, <1>9

\* A write of a register beside mstatus leaves the status fields and frames
\* alone, so only the types and the pending bits are left to check.
LEMMA OtherWriteKeeps ==
  ASSUME IInv, UNCHANGED <<privilege, mstatus, frames>>, Retired(FALSE),
         mip_lines' \in SUBSET Lines,
         medeleg' \in SUBSET supported_exception_delegation,
         mideleg' \in SUBSET SupervisorInterrupts,
         mie' \in SUBSET Interrupts,
         mip_software' \in SUBSET SupervisorInterrupts,
         mip_software' = requested'
  PROVE  IInv'
<1> USE DEF IInv, TypeOK, Retired, frames
<1>1. FramesIntact'  BY DEF FramesIntact, PreviousPrivilege
<1>2. MprvOnlyInMachineMode'  BY DEF MprvOnlyInMachineMode
<1>3. LinesNeverLatched'  BY DEF LinesNeverLatched
<1>5. TypeOK'  OBVIOUS
<1>. QED  BY <1>1, <1>2, <1>3, <1>5

\* A write of mip or sip leaves pending in software what software asked for:
\* read_for_write takes the lines out of the value a CSRRS or CSRRC modifies.
LEMMA PendingWriteExact ==
  ASSUME IInv, NEW lines \in SUBSET Lines, NEW op \in {"csrrw", "csrrs", "csrrc"},
         NEW csr \in Csrs, NEW source,
         write_pending(csr, NewValue(op, csr, source, lines)),
         Request(op, csr, source)
  PROVE  mip_software' \in SUBSET SupervisorInterrupts /\ mip_software' = requested'
<1> USE DEF IInv, TypeOK, LinesNeverLatched
<1> DEFINE base == read_for_write(csr, read(csr, lines))
           value == NewValue(op, csr, source, lines)
           mask == PendingMask(csr)
<1>1. csr \in {"mip", "sip"}  BY DEF write_pending
<1>2. mask \subseteq SupervisorInterrupts
  BY DEF PendingMask, supervisor_writable_pending, SupervisorInterrupts
<1>3. base \cap mask = mip_software \cap mask
  <2>1. CASE csr = "mip"
    BY <2>1 DEF read_for_write, PendingMask
  <2>2. CASE csr = "sip"
    BY <2>2 DEF read_for_write, PendingMask
  <2>. QED  BY <1>1, <2>1, <2>2
<1>4. value = IF op = "csrrw" THEN source
              ELSE IF op = "csrrs" THEN base \cup source ELSE base \ source
  BY DEF NewValue
<1>5. mip_software' = (mip_software \ mask) \cup (value \cap mask)
  <2>1. CASE csr = "mip"
    BY <2>1 DEF write_pending, PendingMask
  <2>2. CASE csr = "sip"
    BY <2>2 DEF write_pending
  <2>. QED  BY <1>1, <2>1, <2>2
<1>6. requested' = IF op = "csrrw" THEN (requested \ mask) \cup (source \cap mask)
                   ELSE IF op = "csrrs" THEN requested \cup (source \cap mask)
                   ELSE requested \ (source \cap mask)
  BY DEF Request
<1>. HIDE DEF base, value, mask
<1>7. mip_software' = requested'
  BY <1>3, <1>4, <1>5, <1>6
<1>. QED  BY <1>2, <1>5, <1>7

\* A CSR instruction keeps the invariant.
LEMMA CsrKeeps ==
  ASSUME IInv, NEW lines \in SUBSET Lines, NEW op \in {"csrrw", "csrrs", "csrrc"},
         NEW csr \in Csrs, NEW source,
         CsrInstruction(op, csr, source, lines), mip_lines' \in SUBSET Lines
  PROVE  IInv'
<1> DEFINE value == NewValue(op, csr, source, lines)
<1>0. TypeOK /\ LinesNeverLatched  BY DEF IInv
<1>1. privilege_allows(csr) /\ UNCHANGED privilege /\ Retired(FALSE)
  BY DEF CsrInstruction
<1>2. CASE write_status(csr, value)
  BY <1>1, <1>2, StatusWriteKeeps
<1>3. CASE write_enable(csr, value)
  <2>1. mie' \in SUBSET Interrupts
    BY <1>0, <1>3 DEF write_enable, TypeOK, Interrupts
  <2>. QED  BY <1>0, <1>1, <1>3, <2>1, OtherWriteKeeps
             DEF write_enable, TypeOK, LinesNeverLatched
<1>4. CASE write_pending(csr, value) /\ Request(op, csr, source)
  <2>1. mip_software' \in SUBSET SupervisorInterrupts /\ mip_software' = requested'
    BY <1>4, PendingWriteExact
  <2>. QED  BY <1>0, <1>1, <1>4, <2>1, OtherWriteKeeps DEF write_pending, TypeOK
<1>5. CASE write_delegation(csr, value)
  <2>1. /\ medeleg' \in SUBSET supported_exception_delegation
        /\ mideleg' \in SUBSET SupervisorInterrupts
    BY <1>0, <1>5 DEF write_delegation, TypeOK
  <2>. QED  BY <1>0, <1>1, <1>5, <2>1, OtherWriteKeeps
             DEF write_delegation, TypeOK, LinesNeverLatched
<1>. QED  BY <1>2, <1>3, <1>4, <1>5 DEF CsrInstruction

-----------------------------------------------------------------------------
(* The step. *)

\* A step that leaves the registers alone keeps the invariant.
LEMMA QuietKeeps ==
  ASSUME IInv, UNCHANGED <<privilege, mstatus, control, frames>>,
         status' = "Retired", waiting_for_interrupt' \in BOOLEAN,
         mip_lines' \in SUBSET Lines
  PROVE  IInv'
<1> USE DEF IInv, TypeOK, control, frames
<1>1. FramesIntact'  BY DEF FramesIntact, PreviousPrivilege
<1>2. MprvOnlyInMachineMode'  BY DEF MprvOnlyInMachineMode
<1>3. LinesNeverLatched'  BY DEF LinesNeverLatched
<1>5. TypeOK'  OBVIOUS
<1>. QED  BY <1>1, <1>2, <1>3, <1>5

\* An instruction keeps it.
LEMMA ExecuteKeeps ==
  ASSUME IInv, NEW lines \in SUBSET Lines, mip_lines' = lines, Execute(lines)
  PROVE  IInv'
<1>0. mip_lines' \in SUBSET Lines  OBVIOUS
<1>1. CASE Plain  BY <1>0, <1>1, QuietKeeps DEF Plain, Retired
<1>2. CASE Wfi  BY <1>0, <1>2, QuietKeeps DEF Wfi, Retired
<1>3. CASE execute_mret  BY <1>0, <1>3, MretKeeps
<1>4. CASE execute_sret  BY <1>0, <1>4, SretKeeps
<1>5. ASSUME NEW cause, take_trap(cause)
      PROVE  IInv'
  BY <1>0, <1>5, MachineTrapKeeps, SupervisorTrapKeeps DEF take_trap
<1>6. ASSUME NEW op \in {"csrrw", "csrrs", "csrrc"}, NEW csr \in Csrs,
             NEW source \in Operands[csr], CsrInstruction(op, csr, source, lines)
      PROVE  IInv'
  BY <1>0, <1>6, CsrKeeps
<1>. QED  BY <1>1, <1>2, <1>3, <1>4, <1>5, <1>6 DEF Execute

\* Every step keeps it.
LEMMA NextKeeps == IInv /\ [Next]_vars => IInv'
<1> SUFFICES ASSUME IInv, [Next]_vars
             PROVE  IInv'
  OBVIOUS
<1>1. CASE reset
  BY <1>1 DEF reset, IInv, TypeOK, MprvOnlyInMachineMode, LinesNeverLatched,
              FramesIntact, Privileges
<1>2. CASE UNCHANGED vars
  BY <1>2 DEF vars, IInv, TypeOK, MprvOnlyInMachineMode, LinesNeverLatched,
              FramesIntact, PreviousPrivilege
<1>3. ASSUME NEW lines \in SUBSET Lines, step(lines)
      PROVE  IInv'
  <2>1. CASE Wait(lines)
    <3> USE <2>1 DEF Wait, IInv, TypeOK, control, frames
    <3>1. FramesIntact'  BY DEF FramesIntact, PreviousPrivilege
    <3>2. MprvOnlyInMachineMode'  BY DEF MprvOnlyInMachineMode
    <3>3. LinesNeverLatched'  BY DEF LinesNeverLatched
    <3>5. TypeOK'  OBVIOUS
    <3>. QED  BY <3>1, <3>2, <3>3, <3>5
  <2>2. CASE Interrupt(lines)
    <3> DEFINE i == select_pending_interrupt(lines)
    <3>1. i \in Deliverable(lines)  BY <2>2, Selection DEF Interrupt, IInv
    <3>2. i \in mideleg => privilege # Machine  BY <3>1, DelegatedBelowMachine
    <3>3. mip_lines' \in SUBSET Lines /\ take_interrupt_trap(i)  BY <2>2 DEF Interrupt
    <3>. HIDE DEF i
    <3>. QED  BY <3>2, <3>3, MachineTrapKeeps, SupervisorTrapKeeps DEF take_interrupt_trap
  <2>3. CASE Running(lines) /\ Execute(lines)
    BY <2>3, ExecuteKeeps DEF Running
  <2>. QED  BY <1>3, <2>1, <2>2, <2>3 DEF step
<1>. QED  BY <1>1, <1>2, <1>3 DEF Next

\* The hart starts in the invariant.
LEMMA InitHolds == Init => IInv
  BY DEF Init, IInv, TypeOK, MprvOnlyInMachineMode, LinesNeverLatched,
         FramesIntact, Privileges

\* The invariant always holds.
LEMMA Invariance == Spec => []IInv
  BY InitHolds, NextKeeps, PTL DEF Spec

-----------------------------------------------------------------------------
(* The results. *)

\* Registers hold bits that exist and MPP is never reserved, whatever guest
\* software writes.
THEOREM TypeCorrect == Spec => []TypeOK
<1>1. IInv => TypeOK  BY DEF IInv
<1>. QED  BY Invariance, <1>1, PTL

\* MPRV is clear below machine mode: MRET and SRET clear it on the way out and
\* sstatus does not reach it.
THEOREM MprvConfined == Spec => []MprvOnlyInMachineMode
<1>1. IInv => MprvOnlyInMachineMode  BY DEF IInv
<1>. QED  BY Invariance, <1>1, PTL

\* CSR instructions never latch an interrupt line into the software bits.
THEOREM NeverLatchesLines == Spec => []LinesNeverLatched
<1>1. IInv => LinesNeverLatched  BY DEF IInv
<1>. QED  BY Invariance, <1>1, PTL

\* The level of a trap is never below the level it interrupts: delegation
\* reaches supervisor mode from below machine mode only.
THEOREM TrapsClimb == Spec => TrapsNeverLowerPrivilege
<1> DEFINE A == status' = "TrapTaken" => privilege' >= privilege
<1>1. ASSUME IInv, Next
      PROVE  A \/ UNCHANGED vars
  <2>0. TypeOK /\ privilege \in {0, 1, 3}
    BY <1>1 DEF IInv, TypeOK, Privileges, User, Supervisor, Machine
  <2>1. take_machine_trap => A
    BY <2>0 DEF take_machine_trap, Machine
  <2>2. privilege # Machine /\ take_supervisor_trap => A
    BY <2>0 DEF take_supervisor_trap, Supervisor, Machine
  <2>3. CASE reset
    BY <2>0, <2>3 DEF reset, Machine
  <2>4. ASSUME NEW lines \in SUBSET Lines, Wait(lines)
        PROVE  A
    BY <2>4 DEF Wait
  <2>5. ASSUME NEW lines \in SUBSET Lines, Interrupt(lines)
        PROVE  A
    <3> DEFINE i == select_pending_interrupt(lines)
    <3>1. i \in Deliverable(lines)  BY <2>0, <2>5, Selection DEF Interrupt
    <3>2. i \in mideleg => privilege # Machine  BY <3>1, DelegatedBelowMachine
    <3>3. take_interrupt_trap(i)  BY <2>5 DEF Interrupt
    <3>. HIDE DEF i, A
    <3>. QED  BY <2>1, <2>2, <3>2, <3>3 DEF take_interrupt_trap
  <2>6. ASSUME NEW lines \in SUBSET Lines, Execute(lines)
        PROVE  A
    <3>1. ASSUME NEW cause, take_trap(cause)
          PROVE  A
      <4>. HIDE DEF A
      <4>. QED  BY <2>1, <2>2, <3>1 DEF take_trap
    <3>2. status' = "Retired" \/ \E cause : take_trap(cause)
      BY <2>6 DEF Execute, Plain, Wfi, execute_mret, execute_sret,
                  CsrInstruction, Retired
    <3>. QED  BY <3>1, <3>2
  <2>. HIDE DEF A
  <2>. QED  BY <1>1, <2>3, <2>4, <2>5, <2>6 DEF Next, step
<1>2. IInv /\ [Next]_vars => [A]_vars  BY <1>1
<1>3. TrapsNeverLowerPrivilege <=> [][A]_vars  BY DEF TrapsNeverLowerPrivilege
<1>. HIDE DEF A
<1>. QED  BY Invariance, <1>2, <1>3, PTL DEF Spec

\* MRET and SRET give back what their trap interrupted.
THEOREM ReturnsAreExact == Spec => ReturnsRestore
<1> DEFINE A == /\ execute_mret =>
                     \A f \in machine_frame :
                       privilege' = f.privilege /\ ("MIE" \in mstatus') = f.enabled
                /\ execute_sret =>
                     \A f \in supervisor_frame :
                       privilege' = f.privilege /\ ("SIE" \in mstatus') = f.enabled
<1>1. ASSUME IInv
      PROVE  A
  <2>1. ASSUME execute_mret, NEW f \in machine_frame
        PROVE  privilege' = f.privilege /\ ("MIE" \in mstatus') = f.enabled
    <3>1. "MIE" \in mstatus' <=> "MPIE" \in mstatus
      BY <2>1 DEF execute_mret, Keep, MPP
    <3>2. privilege' = PreviousPrivilege(mstatus)  BY <2>1 DEF execute_mret
    <3>. QED  BY <1>1, <2>1, <3>1, <3>2 DEF IInv, FramesIntact
  <2>2. ASSUME execute_sret, NEW f \in supervisor_frame
        PROVE  privilege' = f.privilege /\ ("SIE" \in mstatus') = f.enabled
    <3>1. "SIE" \in mstatus' <=> "SPIE" \in mstatus
      BY <2>2 DEF execute_sret, Keep
    <3>2. privilege' = IF "SPP" \in mstatus THEN Supervisor ELSE User
      BY <2>2 DEF execute_sret
    <3>. QED  BY <1>1, <2>2, <3>1, <3>2 DEF IInv, FramesIntact
  <2>. QED  BY <2>1, <2>2
<1>2. IInv /\ [Next]_vars => [A]_vars  BY <1>1
<1>3. ReturnsRestore <=> [][A]_vars  BY DEF ReturnsRestore
<1>. HIDE DEF A
<1>. QED  BY Invariance, <1>2, <1>3, PTL DEF Spec

\* A machine interrupt that is pending and enabled is taken at once below
\* machine mode: mideleg cannot hold it and it precedes every supervisor
\* interrupt in the order.
THEOREM MachineInterruptsFirst == Spec => MachineInterruptsPreempt
<1> DEFINE A == privilege # Machine
                  /\ (mip_lines' \cup mip_software') \cap mie' \cap MachineInterrupts # {}
                => privilege' = Machine
<1>1. ASSUME IInv, Next
      PROVE  A
  <2>1. SUFFICES ASSUME privilege # Machine,
                        NEW m \in MachineInterrupts,
                        m \in mip_lines' \cup mip_software', m \in mie',
                        privilege' # Machine
                 PROVE  FALSE
    OBVIOUS
  <2>2. TypeOK /\ m \in Interrupts /\ m \notin SupervisorInterrupts /\ m \notin mideleg
    BY <1>1 DEF IInv, TypeOK, Interrupts, MachineInterrupts, SupervisorInterrupts
  <2>3. IInv'  BY <1>1, NextKeeps
  <2>4. m \in mip_lines'  BY <2>1, <2>2, <2>3 DEF IInv, TypeOK
  <2>5. PICK lines \in SUBSET Lines : step(lines)
    BY <1>1, <2>1 DEF Next, reset
  <2>6. mip_lines' = lines
    BY <2>5 DEF step, Wait, Interrupt, Running
  <2>7. m \in mie
    <3>1. CASE privilege_allows("mie")  BY <2>1, <3>1 DEF privilege_allows, SupervisorCsrs
    <3>2. CASE m \notin mie /\ ~privilege_allows("mie")
      <4>1. PICK op \in {"csrrw", "csrrs", "csrrc"}, csr \in Csrs :
              \E source \in Operands[csr] : CsrInstruction(op, csr, source, lines)
        BY <2>1, <2>5, <3>2 DEF step, Wait, Interrupt, Execute, take_interrupt_trap, take_trap,
             TrapTaken, Plain, Wfi, execute_mret, execute_sret, control
      <4>2. PICK value : write_enable(csr, value) /\ privilege_allows(csr)
        BY <2>1, <3>2, <4>1 DEF CsrInstruction, write_status, write_pending,
             write_delegation, control
      <4>3. csr = "sie"  BY <3>2, <4>2 DEF write_enable
      <4>. QED  BY <2>1, <2>2, <3>2, <4>2, <4>3 DEF write_enable
    <3>. QED  BY <3>1, <3>2
  <2>8. m \in Deliverable(lines)
    BY <2>1, <2>2, <2>4, <2>6, <2>7
       DEF Deliverable, pending_interrupts, machine_globally_enabled
  <2>9. Awake(lines)
    BY <2>4, <2>6, <2>7 DEF Awake, interrupt_wake_requested, pending_interrupts
  <2>10. Interrupt(lines)  BY <2>5, <2>8, <2>9 DEF step, Wait, Running
  <2> DEFINE i == select_pending_interrupt(lines)
  <2>11. i \in Deliverable(lines) /\ priority_order[i] <= priority_order[m]
    BY <2>2, <2>8, Selection
  <2>12. i \in Interrupts
    BY <2>2, <2>11, HartAssumption DEF Deliverable, TypeOK
  <2>13. i \notin SupervisorInterrupts
    <3>. HIDE DEF i
    <3>1. priority_order[m] \in 1..3
      BY <2>1, <2>2 DEF priority_order, MachineInterrupts
    <3>2. i \in SupervisorInterrupts => priority_order[i] \in 4..6
      BY <2>12 DEF priority_order, SupervisorInterrupts
    <3>. QED  BY <2>11, <3>1, <3>2
  <2>14. i \notin mideleg  BY <2>2, <2>13 DEF TypeOK
  <2>15. take_interrupt_trap(i)  BY <2>10 DEF Interrupt
  <2>. HIDE DEF i
  <2>. QED  BY <2>1, <2>14, <2>15 DEF take_interrupt_trap, take_machine_trap
<1>2. IInv /\ [Next]_vars => [A]_vars  BY <1>1
<1>3. MachineInterruptsPreempt <=> [][A]_vars  BY DEF MachineInterruptsPreempt
<1>. HIDE DEF A
<1>. QED  BY Invariance, <1>2, <1>3, PTL DEF Spec

\* An interrupt for a higher mode is taken at once: below machine mode a step
\* that does not trap neither raises nor enables it nor changes who takes it, so
\* it could already be delivered when the step sampled the lines.
THEOREM HigherModesServed == Spec => HigherModesNeverWait
<1> DEFINE A == (\E i \in (mip_lines' \cup mip_software') \cap mie' :
                   privilege < Target(i)')
                => status' = "TrapTaken"
<1>1. ASSUME IInv, Next
      PROVE  A
  <2>1. SUFFICES ASSUME NEW i \in (mip_lines' \cup mip_software') \cap mie',
                        privilege < Target(i)',
                        status' # "TrapTaken"
                 PROVE  FALSE
    OBVIOUS
  <2>2. /\ privilege = User \/ privilege = Supervisor
        /\ privilege = Supervisor => i \notin mideleg'
    BY <1>1, <2>1 DEF Target, IInv, TypeOK, Privileges, User, Supervisor, Machine
  <2>3. privilege # Machine  BY <2>2 DEF User, Supervisor, Machine
  <2>4. PICK lines \in SUBSET Lines : step(lines)  BY <1>1, <2>1 DEF Next, reset
  <2>5. mip_lines' = lines  BY <2>4 DEF step, Wait, Interrupt, Running
  <2> DEFINE G == mideleg' = mideleg /\ i \in mie /\ i \in lines \cup mip_software
  <2>6. UNCHANGED control => G  BY <2>1, <2>5 DEF control
  <2>7. ASSUME NEW op, NEW csr \in Csrs, NEW source, CsrInstruction(op, csr, source, lines)
        PROVE  G
    <3>1. PICK value : /\ privilege_allows(csr)
                       /\ \/ write_status(csr, value) \/ write_enable(csr, value)
                          \/ write_pending(csr, value) \/ write_delegation(csr, value)
      BY <2>7 DEF CsrInstruction
    <3>2. privilege = Supervisor /\ csr \in SupervisorCsrs
      BY <2>2, <2>3, <3>1 DEF privilege_allows
    <3>3. i \notin mideleg'  BY <2>2, <3>2
    <3>4. CASE write_status(csr, value)  BY <2>6, <3>4 DEF write_status
    <3>5. CASE write_enable(csr, value)
      BY <2>1, <2>5, <3>2, <3>3, <3>5 DEF write_enable, SupervisorCsrs
    <3>6. CASE write_pending(csr, value)
      BY <2>1, <2>5, <3>2, <3>3, <3>6 DEF write_pending, PendingMask, SupervisorCsrs
    <3>7. CASE write_delegation(csr, value)
      BY <3>2, <3>7 DEF write_delegation, SupervisorCsrs
    <3>. QED  BY <3>1, <3>4, <3>5, <3>6, <3>7
  <2>8. G
    <3>1. CASE Wait(lines)  BY <2>6, <3>1 DEF Wait
    <3>2. CASE Interrupt(lines)
      BY <2>1, <3>2 DEF Interrupt, take_interrupt_trap, TrapTaken
    <3>3. CASE Execute(lines)
      <4>. HIDE DEF G
      <4>1. CASE Plain \/ Wfi \/ execute_sret
        BY <2>6, <4>1 DEF Plain, Wfi, execute_sret
      <4>2. CASE execute_mret  BY <2>3, <4>2 DEF execute_mret
      <4>3. CASE \E cause : take_trap(cause)
        BY <2>1, <4>3 DEF take_trap, TrapTaken
      <4>4. CASE \E op, source : \E csr \in Csrs : CsrInstruction(op, csr, source, lines)
        BY <2>7, <4>4
      <4>. QED  BY <3>3, <4>1, <4>2, <4>3, <4>4 DEF Execute
    <3>. QED  BY <2>4, <3>1, <3>2, <3>3 DEF step
  <2>9. i \in Deliverable(lines)
    BY <2>2, <2>3, <2>8 DEF Deliverable, pending_interrupts, machine_globally_enabled,
                            supervisor_globally_enabled
  <2>10. Awake(lines)
    BY <2>8 DEF Awake, interrupt_wake_requested, pending_interrupts
  <2>11. Interrupt(lines)  BY <2>4, <2>9, <2>10 DEF step, Wait, Running
  <2>. QED  BY <2>1, <2>11 DEF Interrupt, take_interrupt_trap, TrapTaken
<1>2. IInv /\ [Next]_vars => [A]_vars  BY <1>1
<1>3. HigherModesNeverWait <=> [][A]_vars  BY DEF HigherModesNeverWait
<1>. HIDE DEF A
<1>. QED  BY Invariance, <1>2, <1>3, PTL DEF Spec

\* Supervisor and user mode cannot change machine state: their CSRs are masked
\* by supervisor_view and mideleg, and their traps and returns stay within the
\* supervisor fields.
THEOREM SupervisorStaysConfined == Spec => SupervisorConfined
<1> DEFINE others == supervisor_view \cup {"MPRV"}
           S == mstatus' \ others = mstatus \ others
           E == /\ mie' \ mideleg = mie \ mideleg
                /\ mip_software' \ mideleg = mip_software \ mideleg
                /\ mip_software' \ {"SSI"} = mip_software \ {"SSI"}
           A == privilege # Machine /\ privilege' # Machine =>
                  /\ UNCHANGED <<medeleg, mideleg>>
                  /\ mie' \ mideleg = mie \ mideleg
                  /\ mip_software' \ mideleg = mip_software \ mideleg
                  /\ mip_software' \ {"SSI"} = mip_software \ {"SSI"}
                  /\ mstatus' \ (supervisor_view \cup {"MPRV"})
                       = mstatus \ (supervisor_view \cup {"MPRV"})
<1>1. ASSUME IInv, Next
      PROVE  privilege # Machine /\ privilege' # Machine =>
               UNCHANGED <<medeleg, mideleg>> /\ E /\ S
  <2> SUFFICES ASSUME privilege # Machine, privilege' # Machine
               PROVE  UNCHANGED <<medeleg, mideleg>> /\ E /\ S
    OBVIOUS
  <2>1. UNCHANGED control => UNCHANGED <<medeleg, mideleg>> /\ E  BY DEF control
  <2>2. take_machine_trap => FALSE  BY DEF take_machine_trap
  <2>3. take_supervisor_trap => S
    BY DEF take_supervisor_trap, Keep, supervisor_view
  <2>4. execute_mret => FALSE  BY DEF execute_mret
  <2>5. execute_sret => S /\ UNCHANGED control
    BY DEF execute_sret, Keep, supervisor_view
  <2>6. ASSUME NEW csr \in Csrs, NEW value, privilege_allows(csr), write_status(csr, value)
        PROVE  S /\ UNCHANGED control
    <3> DEFINE view == (mstatus \ supervisor_view) \cup (value \cap supervisor_view)
    <3>1. mstatus' = sanitize_mstatus(view) /\ UNCHANGED control
      BY <2>6 DEF write_status, privilege_allows, SupervisorCsrs
    <3>2. view \subseteq StatusBits /\ view \ supervisor_view = mstatus \ supervisor_view
      BY <1>1 DEF IInv, TypeOK, StatusBits
    <3>3. ~("MPP1" \in view /\ "MPP0" \notin view)
      BY <1>1, <3>2 DEF IInv, TypeOK, supervisor_view
    <3>. HIDE DEF view
    <3>4. \A b \in StatusBits : b \in mstatus' <=> b \in view
      BY <3>1, <3>3, Sanitized
    <3>5. mstatus' = view  BY <3>1, <3>2, <3>4, Sanitized
    <3>. QED  BY <3>1, <3>2, <3>5
  <2>7. ASSUME NEW csr \in Csrs, NEW value, privilege_allows(csr), write_enable(csr, value)
        PROVE  S /\ UNCHANGED <<medeleg, mideleg>> /\ E
    BY <2>7 DEF write_enable, privilege_allows, SupervisorCsrs
  <2>8. ASSUME NEW csr \in Csrs, NEW value, privilege_allows(csr), write_pending(csr, value)
        PROVE  S /\ UNCHANGED <<medeleg, mideleg>> /\ E
    <3>1. csr = "sip"  BY <2>8 DEF write_pending, privilege_allows, SupervisorCsrs
    <3>2. PendingMask(csr) = mideleg \cap {"SSI"}
      BY <3>1 DEF PendingMask, supervisor_writable_pending
    <3>3. mip_software' = (mip_software \ PendingMask(csr)) \cup (value \cap PendingMask(csr))
      BY <2>8, <3>1 DEF write_pending
    <3>. QED  BY <2>8, <3>2, <3>3 DEF write_pending
  <2>9. ASSUME NEW csr \in Csrs, NEW value, privilege_allows(csr), write_delegation(csr, value)
        PROVE  FALSE
    BY <2>9 DEF write_delegation, privilege_allows, SupervisorCsrs
  <2>10. ASSUME NEW op, NEW csr \in Csrs, NEW source, NEW lines,
                CsrInstruction(op, csr, source, lines)
         PROVE  UNCHANGED <<medeleg, mideleg>> /\ E /\ S
    <3>. HIDE DEF E, S
    <3>. QED  BY <2>1, <2>6, <2>7, <2>8, <2>9, <2>10 DEF CsrInstruction
  <2>11. ASSUME NEW cause, take_trap(cause) \/ take_interrupt_trap(cause)
         PROVE  UNCHANGED <<medeleg, mideleg>> /\ E /\ S
    <3>. HIDE DEF E, S
    <3>. QED  BY <2>1, <2>2, <2>3, <2>11 DEF take_trap, take_interrupt_trap, TrapTaken
  <2>12. ASSUME UNCHANGED <<mstatus, control>>
         PROVE  UNCHANGED <<medeleg, mideleg>> /\ E /\ S
    BY <2>1, <2>12
  <2>13. ~reset  BY DEF reset
  <2>14. PICK lines \in SUBSET Lines : step(lines)  BY <1>1, <2>13 DEF Next
  <2>15. CASE Wait(lines)  BY <2>12, <2>15 DEF Wait
  <2>16. CASE Interrupt(lines)  BY <2>11, <2>16 DEF Interrupt
  <2>17. CASE Execute(lines)
    <3>. HIDE DEF E, S
    <3>1. CASE Plain \/ Wfi  BY <2>12, <3>1 DEF Plain, Wfi
    <3>2. CASE execute_mret \/ execute_sret  BY <2>1, <2>4, <2>5, <3>2
    <3>3. CASE \E cause : take_trap(cause)  BY <2>11, <3>3
    <3>4. CASE \E op, source : \E csr \in Csrs : CsrInstruction(op, csr, source, lines)
      BY <2>10, <3>4
    <3>. QED  BY <2>17, <3>1, <3>2, <3>3, <3>4 DEF Execute
  <2>. HIDE DEF E, S
  <2>. QED  BY <2>14, <2>15, <2>16, <2>17 DEF step
<1>2. IInv /\ [Next]_vars => [A]_vars  BY <1>1
<1>3. SupervisorConfined <=> [][A]_vars  BY DEF SupervisorConfined
<1>. HIDE DEF A
<1>. QED  BY Invariance, <1>2, <1>3, PTL DEF Spec
=============================================================================
