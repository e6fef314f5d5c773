----------------------------- MODULE Sv32Caches -----------------------------
(***************************************************************************)
(* Sv32 translation of the RV32 core in Fast mode with the caches laid out *)
(* as the code lays them out (core32/src/mmu.cpp, frontend.cpp): a TLB of  *)
(* sets and ways with a replacement pointer per set, and a direct-mapped   *)
(* instruction cache whose entries die when the generation or one of three *)
(* tables of epochs moves on.                                              *)
(*                                                                         *)
(* Addresses are page numbers, as in Translation, whose page tables, guest *)
(* and history this module shares. An instruction at the end of a page     *)
(* fetches its two halves in steps of their own. A hash of the code is a   *)
(* sum here. The decode cache holds results of a pure function and is left *)
(* out, and so is the step of an access that faults or hits in both caches:*)
(* it changes nothing. What the software of one behaviour does is a guest. *)
(***************************************************************************)
EXTENDS Integers, FiniteSetsExt

CONSTANTS
  Spaces, AsidOf, Pages, Fanout, PhysicalPages, Instructions, GuestPtes, Modes,
  MaxUnfenced, None,   \* as in Translation, whose Frames are PhysicalPages
  Guests,              \* the spaces, pages, PTEs, modes and settings of SUM and MXR
                       \*   that the software of one behaviour uses, by name
  Sets, Ways,          \* the shape of the TLB (64 by 4)
  EntryCount,          \* entries of the instruction cache
  EpochCount,          \* entries of each table of page epochs
  MaxGeneration,       \* the last value before the generation wraps to 0
  MaxEpochs            \* bound on the epochs together

VARIABLES
  pte, memory, unfenced, unsynced,   \* as in Translation
  tlb32,                             \* entries_ and replacement_ways_
  icache32                           \* entries_, generation_ and the epochs

caches == <<pte, memory, tlb32, icache32, unfenced, unsynced>>

-----------------------------------------------------------------------------
(* Where the caches keep an entry, and which entries are live. *)

SetOf(block) == block % Sets

IndexOf(s, p, mode) == (p + s + mode) % EntryCount

page_epoch_index(p) == p % EpochCount

asid_page_epoch_index(p, asid) == (p + asid) % EpochCount

\* Mutant: the epoch of an address and ASID together is not compared.
CurrentUnpaired(e) ==
  /\ e # None
  /\ e.generation = icache32.generation
  /\ e.asid_epoch = icache32.asid_epochs[AsidOf[e.space]]
  /\ e.page_epoch = icache32.page_epochs[page_epoch_index(e.page)]

Current(e) ==
  /\ e # None
  /\ e.generation = icache32.generation
  /\ e.asid_epoch = icache32.asid_epochs[AsidOf[e.space]]
  /\ e.page_epoch = icache32.page_epochs[page_epoch_index(e.page)]
  /\ e.asid_page_epoch =
       icache32.asid_page_epochs[asid_page_epoch_index(e.page, AsidOf[e.space])]

\* The valid entries of the TLB, and the current ones of the instruction cache,
\* as Translation has them.
TlbView ==
  {[space |-> e.space, level |-> e.level, block |-> e.block,
    leaf |-> [kind |-> "leaf", frame |-> e.frame, perm |-> e.perm, global |-> e.global,
              accessed |-> e.accessed, dirty |-> e.dirty]] :
     e \in {tlb32.entries[set][way] : set \in 0 .. Sets - 1, way \in 0 .. Ways - 1} \ {None}}

IcacheView ==
  {[space |-> e.space, page |-> e.page, mode |-> e.mode, instruction |-> e.instruction] :
     e \in {x \in {icache32.entries[i] : i \in 0 .. EntryCount - 1} : Current(x)}}

T == INSTANCE Translation WITH Frames <- PhysicalPages,
       MaxLevel <- 1, TlbSize <- Sets * Ways, CacheSize <- EntryCount, tlb <- TlbView, icache <- IcacheView

-----------------------------------------------------------------------------
(* The walk. *)

privilege_allows(perm, mode, access, sum, mxr) ==
  /\ CASE mode = T!User -> "U" \in perm
       [] mode = T!Supervisor -> "U" \in perm => access # "InstructionFetch" /\ sum
  /\ CASE access = "InstructionFetch" -> "X" \in perm
       [] access = "Load" -> "R" \in perm \/ (mxr /\ "X" \in perm)
       [] access = "Store" -> "W" \in perm

\* walk_address: the root, then the table it points to. Its answer is the leaf
\* with the bits it sets, or nothing on a fault.
walk_address(s, p, mode, access, sum, mxr) ==
  LET root == pte[T!Slot(s, p, 1)]
      level == IF root.kind = "table" THEN 0 ELSE 1
      leaf == pte[T!Slot(s, p, level)]
      accepted == /\ leaf.kind = "leaf"
                  /\ "W" \in leaf.perm => "R" \in leaf.perm
                  /\ level = 1 => leaf.frame % Fanout = 0
                  /\ privilege_allows(leaf.perm, mode, access, sum, mxr)
  IN  IF ~accepted THEN {}
      ELSE {[level |-> level,
             leaf |-> [leaf EXCEPT !.accessed = TRUE, !.dirty = @ \/ access = "Store"],
             global |-> leaf.global \/ (level = 0 /\ root.global)]}

\* The frame of a page under an entry of a level: the offset in a megapage is
\* the low part of the page number.
Translated(frame, p, level) == frame + (IF level = 1 THEN p % Fanout ELSE 0)

-----------------------------------------------------------------------------
(* The TLB. *)

SameSpace(e, s, global) == IF global THEN e.global ELSE ~e.global /\ e.space = s

\* The ways of one page size that serve an access.
find_in_set(level, s, p, mode, access, sum, mxr) ==
  LET block == T!Block(p, level)
      entry(way) == tlb32.entries[SetOf(block)][way]
  IN  {way \in 0 .. Ways - 1 :
         /\ entry(way) # None
         /\ entry(way).level = level /\ entry(way).block = block
         /\ entry(way).global \/ entry(way).space = s
         /\ privilege_allows(entry(way).perm, mode, access, sum, mxr)
         /\ entry(way).accessed
         /\ access = "Store" => entry(way).dirty}

\* Sv32Tlb::lookup: the first way, of a 4 KiB page if there is one.
lookup(s, p, mode, access, sum, mxr) ==
  LET Found(level) == find_in_set(level, s, p, mode, access, sum, mxr)
      level == IF Found(0) # {} THEN 0 ELSE 1
  IN  {tlb32.entries[SetOf(T!Block(p, level))][way] :
         way \in {w \in Found(level) : w = Min(Found(level))}}

\* Sv32Tlb::insert: the first way that is free or holds the page, else the way
\* that the replacement pointer of the set names.
insert(e) ==
  LET set == SetOf(e.block)
      usable == {way \in 0 .. Ways - 1 :
                   LET old == tlb32.entries[set][way]
                   IN  \/ old = None
                       \/ /\ old.level = e.level /\ old.block = e.block
                          /\ SameSpace(old, e.space, e.global)}
      replacement == tlb32.replacement[set]
  IN  IF usable # {}
      THEN tlb32' = [tlb32 EXCEPT !.entries[set][Min(usable)] = e]
      ELSE tlb32' = [tlb32 EXCEPT !.entries[set][replacement] = e,
                                  !.replacement[set] = (replacement + 1) % Ways]

\* Sv32Tlb::translate.
translate(s, p, mode, access, sum, mxr, frame) ==
  \/ mode = T!Machine /\ frame = p /\ UNCHANGED <<pte, tlb32>>
  \/ /\ mode # T!Machine
     /\ \E e \in lookup(s, p, mode, access, sum, mxr) : frame = Translated(e.frame, p, e.level)
     /\ UNCHANGED <<pte, tlb32>>
  \/ /\ mode # T!Machine
     /\ lookup(s, p, mode, access, sum, mxr) = {}
     /\ \E w \in walk_address(s, p, mode, access, sum, mxr) :
          /\ frame = Translated(w.leaf.frame, p, w.level)
          /\ pte' = [pte EXCEPT ![T!Slot(s, p, w.level)] = w.leaf]
          /\ insert([space |-> s, level |-> w.level, block |-> T!Block(p, w.level),
                     frame |-> w.leaf.frame, global |-> w.global, perm |-> w.leaf.perm,
                     accessed |-> w.leaf.accessed, dirty |-> w.leaf.dirty])

\* Sv32Tlb::sfence_vma.
tlb_sfence_vma(va, asid) ==
  tlb32' = [tlb32 EXCEPT !.entries =
    [set \in 0 .. Sets - 1 |-> [way \in 0 .. Ways - 1 |->
       LET e == @[set][way]
       IN  IF /\ e # None
              /\ asid # None => ~e.global /\ AsidOf[e.space] = asid
              /\ va # None => T!Block(va, e.level) = e.block
           THEN None ELSE e]]]

EmptyTlb ==
  [entries |-> [set \in 0 .. Sets - 1 |-> [way \in 0 .. Ways - 1 |-> None]],
   replacement |-> [set \in 0 .. Sets - 1 |-> 0]]

-----------------------------------------------------------------------------
(* The instruction cache. *)

EmptyIcache ==
  [entries |-> [i \in 0 .. EntryCount - 1 |-> None],
   generation |-> 1,
   asid_epochs |-> [a \in T!Asids |-> 0],
   page_epochs |-> [i \in 0 .. EpochCount - 1 |-> 0],
   asid_page_epochs |-> [i \in 0 .. EpochCount - 1 |-> 0]]

\* InstructionCache::lookup.
Cached(s, p, mode) ==
  LET e == icache32.entries[IndexOf(s, p, mode)]
  IN  Current(e) /\ e.page = p /\ e.space = s /\ e.mode = mode

\* InstructionCache::insert.
icache_insert(s, p, mode, i) ==
  icache32' = [icache32 EXCEPT !.entries[IndexOf(s, p, mode)] =
    [generation |-> icache32.generation, page |-> p, space |-> s, mode |-> mode,
     asid_epoch |-> icache32.asid_epochs[AsidOf[s]],
     page_epoch |-> icache32.page_epochs[page_epoch_index(p)],
     asid_page_epoch |-> icache32.asid_page_epochs[asid_page_epoch_index(p, AsidOf[s])],
     instruction |-> i]]

\* InstructionCache::clear. When the generation wraps, the entries go with it.
icache_clear ==
  icache32' = IF icache32.generation = MaxGeneration THEN EmptyIcache
              ELSE [icache32 EXCEPT !.generation = @ + 1]

\* InstructionCache::sfence_vma.
icache_sfence_vma(va, asid) ==
  CASE va = None /\ asid = None -> icache_clear
    [] va # None /\ asid # None ->
         icache32' = [icache32 EXCEPT !.asid_page_epochs[asid_page_epoch_index(va, asid)] = @ + 1]
    [] va # None /\ asid = None ->
         icache32' = [icache32 EXCEPT !.page_epochs[page_epoch_index(va)] = @ + 1]
    [] va = None /\ asid # None ->
         icache32' = [icache32 EXCEPT !.asid_epochs[asid] = @ + 1]

WithinEpochs ==
  LET Total(table) == MapThenSumSet(LAMBDA i : table[i], DOMAIN table)
  IN  Total(icache32'.asid_epochs) + Total(icache32'.page_epochs)
        + Total(icache32'.asid_page_epochs) <= MaxEpochs

-----------------------------------------------------------------------------
(* Steps of the hart and of the guest. *)

\* fetch_decode. The cache is for RAM and not for the end of a page, and keeps
\* only what decodes.
Fetch(s, p, mode, cacheable) ==
  /\ ~(cacheable /\ Cached(s, p, mode))
  /\ \E frame \in PhysicalPages :
       /\ translate(s, p, mode, "InstructionFetch", FALSE, FALSE, frame)
       /\ IF cacheable THEN icache_insert(s, p, mode, memory[frame]) ELSE UNCHANGED icache32
  /\ UNCHANGED <<memory, unfenced, unsynced>>

\* execute_memory and execute_atomic translate and then read or write.
Load(s, p, mode, sum, mxr) ==
  /\ \E frame \in PhysicalPages : translate(s, p, mode, "Load", sum, mxr, frame)
  /\ UNCHANGED <<memory, icache32, unfenced, unsynced>>

Store(s, p, mode, sum, mxr, i) ==
  /\ \E frame \in PhysicalPages :
       /\ translate(s, p, mode, "Store", sum, mxr, frame)
       /\ memory' = [memory EXCEPT ![frame] = i]
       /\ unsynced' = unsynced \cup {f \in {frame} : memory[f] # i}
  /\ UNCHANGED <<icache32, unfenced>>

\* The guest writes a PTE through bare or already translated stores.
WritePte(slot, e) ==
  /\ UNCHANGED <<memory, tlb32, icache32, unsynced>>
  /\ T!WritePte(slot, e)

SfenceVma(va, asid) ==
  /\ tlb_sfence_vma(va, asid)
  /\ icache_sfence_vma(va, asid)
  /\ WithinEpochs
  /\ unfenced' = unfenced \ T!Ordered(va, asid)
  /\ UNCHANGED <<pte, memory, unsynced>>

FenceI ==
  /\ icache_clear
  /\ unsynced' = {}
  /\ UNCHANGED <<pte, memory, tlb32, unfenced>>

\* Core::reset, and set_execution_mode when the mode changes.
ClearCaches ==
  /\ tlb32' = EmptyTlb
  /\ icache_clear
  /\ UNCHANGED <<pte, memory, unfenced, unsynced>>

CachesInit ==
  /\ pte = [slot \in T!Slots |-> T!Invalid]
  /\ memory \in [PhysicalPages -> Instructions]
  /\ tlb32 = EmptyTlb /\ icache32 = EmptyIcache
  /\ unfenced = {} /\ unsynced = {}

CachesNext(guest) ==
  \/ \E s \in guest.spaces, p \in guest.pages, mode \in guest.modes :
       \/ \E cacheable \in BOOLEAN : Fetch(s, p, mode, cacheable)
       \/ \E v \in guest.views : Load(s, p, mode, v.sum, v.mxr)
       \/ \E v \in guest.views, i \in Instructions : Store(s, p, mode, v.sum, v.mxr, i)
  \/ \E s \in guest.spaces, p \in guest.pages, level \in T!Levels :
       \E e \in guest.ptes[level] : WritePte(T!Slot(s, p, level), e)
  \/ \E va \in guest.pages \cup {None},
        asid \in {AsidOf[s] : s \in guest.spaces} \cup {None} : SfenceVma(va, asid)
  \/ FenceI
  \/ ClearCaches

-----------------------------------------------------------------------------
(* Properties. *)

\* A hit in the instruction cache serves an instruction that the abstract cache
\* holds for this page, address space and privilege.
HitsHeld ==
  \A s \in Spaces, p \in Pages, mode \in Modes :
    Cached(s, p, mode) =>
      \E c \in T!Cached(s, p, mode) :
        c.instruction = icache32.entries[IndexOf(s, p, mode)].instruction

\* The caches of the RV32 core do what Translation allows: a hit serves only an
\* entry that no fence has invalidated since it was made, each SFENCE.VMA and
\* FENCE.I kills at least the entries its operands name, through sets, ways,
\* replacement, shared epochs and the wrap of the generation. This is T!Spec with
\* its stuttering steps named first, and with the hits, which take no step there.
TranslationSpec ==
  /\ T!Init
  /\ [][UNCHANGED caches \/ T!Next]_(T!vars)
  /\ []HitsHeld
=============================================================================
