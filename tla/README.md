# A TLA+ development of the RISC-V whole-machine emulator

The emulator runs one RV32 or RV64 hart with its platform (bus, RAM, CLINT,
PLIC, UART, RTC, virtio disk and network, framebuffer, syscon) in one host
thread. What makes it hard is not host concurrency but guest-visible
asynchrony: interrupt levels that change between any two instructions, DMA and
page-table walks that write memory between two instructions of a critical
section, caches that have to agree with the state they summarise, traps inside
trap handlers, and device protocols in which the guest may do the steps in any
order. Unit tests exercise each of these in one order; the models here take all
orders.

## 1. Inventory

One iteration of the main loop (`app/src/rv64_cli.cpp`, `run_boot`) is: poll the
host (input characters go to the UART), `Machine::step`, drain UART output,
look at the syscon for power-off or reboot. `Machine::step`
(`platform64/src/machine.cpp`) ticks the devices through the bus, copies the
interrupt level of each device into the PLIC, collects the interrupt lines from
CLINT and PLIC and calls `Core::step`. The core reads and writes through the
bus, and a device register write runs the device's handler, DMA included,
before the instruction retires.

| Component | State | Operations | Hard behaviour | What makes it correct |
|---|---|---|---|---|
| PLIC `devices/src/plic.cpp` | priorities, pending, enables, thresholds, claims, levels, cached winner per context | register read and write, claim, complete, set_source_level | levels change while a source is in service; the cached winner must follow every register | cached winner = scan; in service once; no level lost; refines a gateway per source |
| System bus `common/src/system_bus.cpp` | devices sorted by base, last device, reservations, write epoch | add_device, read, write, LR, SC, AMO, DMA | one-entry lookup cache; LR/SC against stores, walks and DMA | exact lookup; LR/SC contract |
| RV64 hart, privileged part `core64/src/{core,interrupt,trap,csr}.cpp` | privilege, mstatus, delegation, mie, mip (lines and software), WFI | step: wait, interrupt, trap, return, CSR instruction | nested traps; read-modify-write of mip while lines change; WFI | see `Hart` below |
| Sv39, TLB, instruction cache `core64/src/{mmu,core}.cpp` | page tables in memory, 64-entry TLB, 16384-entry cache with epochs | translate, walk with A/D update, SFENCE.VMA, FENCE.I | three caches, each with its own invalidation | Fast mode executes what Reference mode executes |
| CLINT, UART, RTC `devices/src/` | compare and time; FIFO and two causes; alarm and latch | register accesses, tick | split writes; reads with side effects; alarm against enable | no interrupt lost or early, no torn time |
| virtio block and net `devices/src/virtio_*.cpp` | queue registers, ring indices, buffered frames | notify, process queue, reset, tick | DMA faults part way; 16-bit index wrap; full buffers | each chain used once, ring and device agree |
| slirp backend `app/src/slirp_network_backend.cpp` | frame queue, timers, poll set | send, receive, poll, timer callbacks | callbacks that change the timer set; full queue | timers fire once |
| Framebuffer, console, SDL | pixels, dirty rectangle; 80x30 cells, escape parser | write, take dirty; feed | partial updates | no lost update |
| RAM, syscon, block storage | bytes; one latch; file | read, write | | |
| RV64 platform | the above, irq lines | step, reset, load_boot | order inside a step: ticks, levels, lines, core | a raised level reaches a sleeping guest's handler |
| RV32 core and platform `core32/src/` | as RV64, with Sv32; TLB of 64 sets by 4 ways; cache with a generation and three tables of epochs | step: fetch, execution units, commit or trap | two execution modes; checks repeated by the commit; wrap of the generation | refines the RV64 hart and its translation |
| Command line and main loop | options, host terminal | run loop | host I/O | |

The hazards of each component, at the line where they bite, are in
`PROJECT.json`.

## 2. What is modelled

### `Plic`, `PlicGateway`
`Plic` has one variable per array of the class; a pending or enable word is the
set of its sources. `compute_best_pending` is defined by the order on the sources,
`Scan` is the code's loop; that they agree is a property. Register writes are one action per register kind,
`WriteEnable` replaces one word of the enables as the code does; claim and
complete are the read and the write of the claim register;
`set_source_level` is the platform's call. Every action contains the refresh of
the cached winners that the code performs, of one context or of all.
`displaced` is a history variable: the sources that left service because their
context claimed another one before completing them, which the code allows.
`PlicGateway` is the abstract specification: each source is idle, pending or in
service.

### `SystemBus`, `ReservedMemory`
`SystemBus` models the address map (with the 64-bit wrap of `end_exclusive` as
a modulus), the lookup and its one-entry cache, and every access. A memory cell
holds a tag of the store that wrote it. The verdict of a register device is
nondeterministic; RAM accepts what is in range. `write` stands for stores, page
table updates and DMA alike: the bus treats them alike. `ReservedMemory` is the
abstract LR/SC contract in terms of cells: no epochs, a reservation is a set of
cells that any write to them invalidates.

### `Hart`
`Hart` is `Core::step` as a state machine over the privileged registers, a
register being the set of its one bits, so that CSRRS and CSRRC are union and
difference. `step(lines)` samples the lines, then waits, takes the selected
interrupt, or executes one instruction: a plain one, WFI, MRET, SRET, one that
traps, or a CSR instruction on `mstatus`, `sstatus`, `mie`, `sie`, `mip`,
`sip`, `medeleg` or `mideleg`. Every instruction may also raise a fault, which
covers the illegal-instruction outcomes. `machine_frame`, `supervisor_frame` and `requested` are
history variables: what the last trap to each mode must give back, and which
interrupts software has raised.

### `Translation`
Fast mode's translation and fetch. Page tables are functions from slots
(address space, level, block of pages) to PTEs; a PTE is invalid, a table or a
leaf with frame, permissions, global, accessed and dirty. `TlbEntries` carry the
leaf as `Sv39Tlb::Entry` carries its PTE; a cache entry carries its key (address,
satp, privilege) and the instruction. `Fetch`, `Load` and `Store` are the accesses
of `Core::step`: a hit, or a walk that updates the PTE and refills. Their satp,
privilege, SUM and MXR are inputs, so MPRV and every switch between two accesses
are included. The epochs of the instruction cache are modelled by the entries
they make stale, with aliasing as an arbitrary further loss. `WritePte` is the
guest, which is outside the repository; `unfenced` and `unsynced` are history: the
PTE changes for which the guest owes an SFENCE.VMA and the frames for which it
owes a FENCE.I, by the rules of the privileged architecture (an address fences
leaf PTEs of every size that map it, an ASID does not fence global mappings,
linking or unlinking a table needs a fence without an address; a change is global
when any PTE on a path `Through` it is). The pages that a PTE of a level spans are
a power of the fanout, from `Powers`. The properties
compare a hit with the walk that Reference mode makes, for pages on which the
guest owes nothing.

### `VirtioRing`, `BlockRequests`, `VirtioBlock`
`VirtioRing` is a split virtqueue in guest memory with the driver's side of it;
indices run freely modulo `IndexModulus` (2^16 in the code), slots are indices
modulo the queue size. `VirtioBlock` is the device: the queue registers (whether
each of size, alignment and page frame is usable), `notification_pending`, the two
private indices, and the loop over the available ring, one chain per step
(`Serve`), bounded by the queue size. A chain names a request type, a first sector
and data descriptors of one sector each, or is malformed. A DMA access can fault at
every site the code has: available index, available entry, descriptor, data,
status, used entry, used index; so can the storage under the disk, whose failed write
leaves the sector as it was. What fails is fixed by where the driver puts the queue. After a fault on the used index the private `used_index_` has moved
although the ring has not, as in the code. A zero written to the status register
resets the device; a zero written to the page frame number does not reset the
indices. `SaveDisk` is the host saving a dirty disk. `BlockRequests` is what the
device promises: a queue of requests, executed in order and completed once; the
mapping takes the heads between the indices of the two rings (`Pending`,
`Finished`). `Services` are the states of the loop: the index it read and how many
chains it has served.

### `SlirpBackend`, `FrameChannel`, `VirtioNet`
`SlirpBackend` is the backend's bounded queue and its decision when to poll;
libslirp is external and may hand over frames whenever it is called, also ones that
`send_packet` drops for their size. `VirtioNet`
splits `tick` into its phases: poll, collect, transmit (during which libslirp may
call back), receive. Chains are fit, unfit or a frame. `FrameChannel` promises
order and no duplicates in both directions; a frame is refused only by a full
backend and spoilt only by an unfit buffer or broken memory. The mapping joins the
device's and the backend's buffers into one queue (`Inbound`).

### `Clint`, `GoldfishRtc`, `SlirpTimers`, `Framebuffer`, `TerminalConsole`, `SdlFrontend`
`Peripherals` holds the five benches; a behaviour exercises one of them, since they
do not touch each other's state. `Clint` accesses registers by digits, as the code
accesses bytes; the firmware of a 32-bit machine sets `mtimecmp` in the usual three
writes. `GoldfishRtc` has the latch, the saturating offset and the alarm; an alarm
that expires while its interrupt is disabled is forgotten, as in the code, so
`AlarmNotMissed` is about alarms whose interrupt was enabled in time. `SlirpTimers`
is the timer list with callbacks that free, make and set timers while the list of
expired ones is walked; addresses are reused. `TerminalConsole` is the cursor, wrap,
scroll, erase and the escape parser over classes of characters; `Framebuffer` the
dirty rectangle against the set of pixels that really changed; `SdlFrontend` the
window that shows one or the other, with the switch, the selection that defers
output, the refresh interval and forced redraws.

### `Uart16550`, `Machine64`
`Uart16550` has every register whose access changes state, the divisor latch
included. `Machine64` is the main loop and `Machine::step` over the same `Plic` and
`Hart` as above (instances): console input, tick, level of each device into the
PLIC, lines, one step of the hart, output, syscon. The disk is the level it drives.
The guest, which is external, is a kernel that sets the port up, sleeps in WFI with
interrupts disabled, and serves both devices from one handler through claim and
complete.

### `Hart32`, `Sv32Caches`, `Rv32`
`Hart32` is `Core::step` of the RV32 core: fetch, the execution units' answers
(`Ready`, `Trap` or not their instruction; one unit in Fast mode, all in turn in
Reference mode), then `commit_pending` with the checks it repeats, or the trap. The
host may change mode between any two steps. `HartSpec` says it implements `Hart`;
in particular the status `CoreNotImplemented` is never reached, since `Hart` has no
such step. `Sv32Caches` lays the TLB out in sets and ways with a replacement pointer
and the instruction cache in entries that carry a generation and three epochs;
`TranslationSpec` says it implements `Translation`, the live entries being the
abstract ones. A hit of the instruction cache takes no step, so `TranslationSpec` also
says (`HitsHeld`) that each hit serves an instruction the abstract cache holds; a
TLB hit is seen in the instruction it fetches into the cache and the frame it stores
to. `Rv32` puts both side by side: privileged state reaches translation
only through inputs both quantify over. A behaviour runs one of the `Programs` on the
hart or one of the `Guests` on the caches: each restricts the operands, lines, pages,
spaces, modes and PTEs in use, so that one run covers several small worlds.

## 3. Runs

| Run | Instance | Distinct states | What it shows |
|---|---|---|---|
| `plic` | 2 sources in words of 2 bits, 2 contexts, priorities modulo 4, three write values (zero, in range, beyond the mask) | 89,424 | winners current, scan correct, served once, no lost level, refinement of the gateways |
| `system_bus` | 2 words of RAM, a register word, a range that overlaps both and one that runs off the end; 2 harts, 2 values, 2 writes | 7,033 | exact lookup; refinement of the LR/SC contract |
| `hart_interrupts` | lines MTI and SEI, software interrupt SSI, all eight CSRs with small operands | 102,715 | pending bits, selection, delegation, no wait for a higher mode, confinement |
| `hart_status` | all status fields but TVM, line MTI | 86,658 | legal MPP, MPRV, returns restore |
| `translation_tlb` | two-level tables of 2 PTEs, 2 pages, 4 frames, superpages of 2 pages, TLB of 2 entries, global and other leaves, one unfenced change at a time | 59,588 | a TLB hit is what the walk gives |
| `translation_fetch` | 2 address spaces, user and machine code, 4 KiB leaves, TLB of 1, cache of 2 entries, 2 instructions | 73,496 | a cached instruction is what Reference mode fetches; spaces stay apart |
| `translation_superpage` | 1 space, 2 pages, superpage leaves | violation | a disagreement with the documentation, see below |
| `virtio_block` | queue of 2, indices modulo 4, 2 sectors, four kinds of chain, each DMA site or the storage failing | 692,556 | requests answered once and in order; nothing stranded; a clean disk is saved; every request returns |
| `virtio_net` | queues of 1, one frame in the device and one in the backend, 2 frames, poll every second cycle, each kind of ring access faulting | 1,050,714 | order and no duplicates; bounded buffers; a buffered frame and a posted buffer do not wait side by side |
| `peripherals` | timers of 2 digits in base 3, clock words of 3 values, 3 timers, 2 by 2 cells, 3 by 2 pixels | 289,579 | no early timer, no torn time, no missed alarm, no freed timer called, no stale screen |
| `machine64` | 3 characters typed, 3 disk completions, 2 characters sent | 33,420 | every character typed is read and every one sent is printed |
| `rv32` | programs: supervisor interrupts (SEI, SSI, delegation, `sie`, `sip`, `sstatus`); `mstatus` (MPP, MPRV, TVM, TW, TSR, SPP) under the machine timer. Guests: 2 pages in 4 KiB leaves; 2 spaces with ASIDs and megapages; user and supervisor mode with SUM and either size of page, global or not. 2 sets of 2 ways, 2 cache entries, 2 slots per epoch table, 2 instructions, generations 1 and 2, one epoch advanced | 84,605 | the RV32 hart refines `Hart`, its caches refine `Translation` |

`translation_superpage` is expected to fail. `SFENCE.VMA` with an address removes
the TLB entry of the superpage that maps it, but advances the epoch of one 4 KiB
page in the instruction cache. In six states: the guest maps a superpage, fetches
from its page 0 (cached), unmaps it and fences with an address in page 1; a fetch
from page 0 still hits the cached instruction, while Reference mode traps.
`docs/RV64性能与验收.md` says that Fast mode skips no permission, A/D
or trap check.

Why the bounds are enough. In the PLIC two sources give ties, displacement and
a second word of enables (source 2 is in word 1); two contexts give claims by
one and completions by the other. On the bus two writes let a value be changed
and changed back between LR and SC; two widths let a doubleword reservation be
hit in either half; `MaxWrites` bounds the epoch. The hart needs no counter
bound: its state is finite. Its operands are single bits or small sets, from
which CSRRS and CSRRC reach every value. For translation two levels give every
relation between a table, a leaf and a superpage, and two pages give a fence that
hits the superpage at another address than the access did; `MaxUnfenced` bounds
the changes the guest leaves open (with two instead of one `translation_tlb`
reaches 535,481 states and still passes, in five minutes). The two hart runs split the fields
because the product of all of them is too large for one run; the proofs have no
such split.

A queue of two with indices modulo four wraps both index and slot, and lets a
second chain be published while the first is served; two sectors let a request run
off the end after its first sector. Queues and buffers of one frame are full as soon
as anything waits, which is the case of interest in `virtio_net`; two frames show
order. Two digits are a low and a high half, base three gives carries that are
neither zero nor the largest digit. Three timers let one be fired while a second is
freed and its address reused. In `machine64` each device interrupts while the other
is pending and while it is in service, and console input is finite, as otherwise a
typist faster than the guest could keep it reading. In `rv32` pages
and spaces fall into different sets, entries and epoch slots and also share them, three
keys compete for two ways, two generations make the wrap happen, and two instructions
tell a right hit from a wrong one; `MaxEpochs` bounds how often an epoch advances
between two wraps of the generation (the epochs are 64 bits wide).

Fairness. The main loop calls `Machine::step` again and again, and each call ticks
every device before the next instruction: hence weak fairness of the device's steps
in `virtio_block` and `virtio_net`, and of a round in `machine64`. The loop calls
`present` in every round and time passes: weak fairness of both in `peripherals`.
The driver of `virtio_block` notifies what it published and its handler runs and
takes what is used; that the handler is reached is what `machine64` shows. Console
input, disk completions, resets, the frames of libslirp and all choices of the guest
are not fair: they may stop. Deadlock is checked everywhere.

## 4. Proofs

Every invariant, action property and refinement of the RV64 machine that the runs
check is also proved, for every value of the constants that satisfies the modules'
assumptions. The assumptions say that counts, sizes and widths are positive, that an
index modulus is a multiple of the queue size, and that inputs have their type; `None`
is not a state of the block device's loop. TLC evaluates all of them, and it checked
each inductive invariant below on the runs' instances before it was proved.

`WellOrder` holds what the other proofs need of the naturals: a nonempty set has a
least element, a set that holds 0 and is closed under successor is `Nat`, a first
value and a step define a function, and from these what the recursive function `Pow`
computes. Induction is stated over a set, so that no operator has to be instantiated.

`PlicProofs`. The inductive invariant is the type invariant with `CacheFresh`
(the cache equals the winner by the current registers), `ServedOnce` and
`NoLostLevel`. `CacheFresh` is needed because `claim` trusts the cache: without
it a claim might serve a source that is not pending. `WinnerExists` shows that
the order on the sources has a maximum. That the code's loop finds it
(`ScanFindsWinner`) is by induction on the number of sources it has seen: after n
of them the running best `Leads` the eligible ones among them. The refinement of
`PlicGateway` is shown action by action from the same invariant.

`SystemBusProofs`. The inductive invariant adds `Separated` (installed ranges are
nonempty, end inside the address space and do not meet, which is what
`add_device`'s test means once overflow is excluded) and `NoFutureReservation`
(no reservation is newer than the epoch: an old one can never match again).
Results: the lookup is exact for every map, and the epoch scheme refines
`ReservedMemory` for every number of harts and every set of widths.

`HartProofs`. The inductive invariant adds `FramesIntact` (the bits a trap saved
still hold what it saved) to the three invariants of the runs. All eight
properties are proved for every set of lines and every operand. The argument
for `MachineInterruptsPreempt` needs the least element of the selection order and
the fact that `mideleg` holds supervisor interrupts only; `HigherModesNeverWait` that
an interrupt for a higher mode is selectable whatever the enables are, and that a step
below the interrupt's mode cannot change whether it is; `LinesNeverLatched`
rests on `PendingWriteExact`, which says what read-modify-write does bit by bit.

`TranslationProofs`. `TlbTransparent` compares a hit with the walk for fenced pages
only, so it is not inductive. The invariant is `TlbBacked`: each TLB entry, for each
page it spans, either `Matches` what the walk of its own space finds, or a change on
the path of that page is `Owed` a fence that would remove this entry. A walk only ages
PTEs (sets accessed and dirty), which keeps every match; a PTE write turns matches
into debts; a fence pays a debt only together with the removal. `BlockNested` (from
the laws of `Pow`) says that pages of one block share the blocks above it, so a
superpage's pages have one path; `BackedByFence` says that a fence that orders a change
removes every entry the change made stale, superpages included. For the instruction cache the same
scheme (`CacheBacked`) needs the space whose global mapping the fetch went through,
which need not be the entry's own, and the frames that await a FENCE.I.
`FetchTransparent` is proved under `SmallLeaves`: the guest maps 4 KiB pages. That
hypothesis is necessary, as `translation_superpage` shows.

`PeripheralsProofs` has one inductive invariant for each bench. `ArmingInv`: after each
of the firmware's three writes `mtimecmp` is a known combination of old and new
halves, which is arithmetic of quotients and remainders by powers of the base.
`ClockInv`: the latch and the last low word make up one instant. `TimersInv`: a timer
that is owed exists and is enabled or still listed. `ScreenInv`: the dirty rectangle
covers the pixels that differ, the cursor is on the screen, and a view that shows
something else will be redrawn. The benches do not touch each other's variables, so
the conjunction is inductive for `Peripherals`.

`VirtioBlockProofs`. Indices wrap, so that nothing can be read off their order. The
invariant speaks of the k-th head in flight (`HeadAt`), taken from the used ring below the
number of returned heads and from the available ring above it, and says that these
are the driver's heads in flight, each once (`Holds`). Hence there are at most
`QueueNum`, slots do not collide, and the loop's bound is never what stops it
(`InTime`). `InStep` ties the device's private indices to the rings and says where a
fault on the used index makes them part. Every ring operation appends to, shifts or
keeps the sequence of heads, which is also the refinement of `BlockRequests`.

`VirtioNetProofs`. `NetInv` adds to the types that a running queue is configured, that
the transmit loop has room for all that is available, that a frame to send is announced
also while the backend is polled, and that a used chain is heard of. The refinement
of `FrameChannel` rests on four facts about two queues end to end.

Only model-checked: the liveness properties (`RequestsReturn`, `FramesArrive`,
`ScreenCatchesUp`, `InputIsRead`, `OutputIsPrinted`), since the prover has neither
fairness nor ENABLED; and the two refinements of `Rv32` (`HartSpec`,
`TranslationSpec`).

## 5. What is not modelled

- Instruction semantics and decoding of both cores: functions on 32 and 64-bit data,
  which the repository checks against Spike. A step without privileged effect is one
  action. Floating point, counters, performance statistics.
- Host I/O: option parsing, image and device-tree construction, the disk file, the
  terminal's raw mode, SDL and libslirp themselves, and `main.cpp`, which runs the RV32
  machine with the loop that `Machine64` models for RV64. The RV32 platform wires the
  same devices in the same order.
- Within `Hart` and `Hart32`: the program counter, `xepc`, `xcause`, `xtval`,
  `xtvec`; the FS, SUM and MXR bits; in `commit_pending` the tests of the pc and of the
  register index, which are data. The integer, memory and atomic units of `Hart32` answer
  with their status only.
- Within `Translation` and `Sv32Caches`: the decode cache (a function of the
  instruction word), bus faults during a walk, non-canonical addresses and Bare mode
  below machine mode, the SFENCE.VMA trap under TVM (it is in `Hart32`), and the placement
  of table pages: a table PTE always leads to the same table. The RV32 cache fences
  one 4 KiB page of a megapage just as the RV64 one does: `Translation` allows
  what both do.
- Within the virtio devices: feature negotiation, the configuration space, contents
  of frames, requests other than reads and writes beyond their status, a storage write
  that fails after it has changed part of a sector. The queues of the `virtio_net` run
  hold one chain each: the order of frames to the host is left to the proof.
- Within the displays: glyphs, colours, clipboard text, keyboard translation.
- `Machine::reset` with devices in use: the application resets a machine only before
  it starts.

## 6. Plan

1. `Plic`, `SystemBus`, `Hart` with proofs: done.
2. `Translation`: done.
3. `Machine64` (device levels, PLIC, hart, main loop) with liveness: done.
4. `VirtioBlock` and `VirtioNet` with their abstract specifications: done.
5. `GoldfishRtc`, `Uart16550`, `Clint`: done.
6. `SlirpBackend`, `SlirpTimers`, `Framebuffer`, `TerminalConsole`, `SdlFrontend`: done.
7. RV32 as refinements of `Hart` and `Translation`: done.
8. Proofs of `Translation`, the peripherals, `VirtioBlock` and `VirtioNet` with their
   refinements, and of the PLIC's scan: done.
9. Left: proofs of the two refinements of `Rv32`, first `Sv32Caches`' of `Translation`
   (sets, shared epochs and the generation for every size), then `Hart32`'s of `Hart`.
