---------------------------- MODULE Translation ----------------------------
(***************************************************************************)
(* Sv39 translation in Fast mode: the page-table walk with its accessed    *)
(* and dirty updates, the TLB and the instruction cache, SFENCE.VMA and    *)
(* FENCE.I (core64/src/mmu.cpp, core64/src/core.cpp), against the walk     *)
(* that Reference mode performs on every access.                           *)
(*                                                                         *)
(* Addresses are 4 KiB page numbers: a page holds one instruction. Which   *)
(* satp, privilege, SUM and MXR an access runs under is its input, because *)
(* the guest may change them between any two accesses. Both caches place   *)
(* entries by hashing: an insertion may push out any one entry. An access  *)
(* that faults changes none of this state and has no step.                 *)
(***************************************************************************)
EXTENDS Integers, FiniteSets, Powers

CONSTANTS
  Spaces,        \* satp values in Sv39 mode
  AsidOf,        \* the ASID field of each
  Pages,         \* virtual page numbers
  Fanout,        \* PTEs per table (512)
  MaxLevel,      \* level of the root table (2)
  Frames,        \* physical page numbers
  Instructions,
  GuestPtes,     \* per level, the PTEs the guest writes
  Modes,         \* the privilege modes in which code runs
  TlbSize,       \* entries the TLB holds (sets of ways)
  CacheSize,     \* entries the instruction cache holds
  MaxUnfenced,   \* bound on the PTE changes the guest leaves unfenced
  None           \* an absent optional, or no cache entry

User == 0
Supervisor == 1
Machine == 3

Levels == 0 .. MaxLevel

\* The 4 KiB pages that a PTE of a level spans; shifts 12, 21 and 30.
Span(l) == Pow(Fanout, l)

Block(p, l) == p \div Span(l)

\* A page-table slot is one PTE in memory.
Slots == {[space |-> s, level |-> l, block |-> Block(p, l)] :
            s \in Spaces, l \in Levels, p \in Pages}

Slot(s, p, l) == [space |-> s, level |-> l, block |-> Block(p, l)]

Accesses == {"InstructionFetch", "Load", "Store"}
Permissions == {"R", "W", "X", "U"}

Invalid == [kind |-> "invalid"]
Table(g) == [kind |-> "table", global |-> g]
Leaf(f, perm, g, a, d) ==
  [kind |-> "leaf", frame |-> f, perm |-> perm, global |-> g,
   accessed |-> a, dirty |-> d]

Ptes == {Invalid} \cup {Table(g) : g \in BOOLEAN}
          \cup {Leaf(f, perm, g, a, d) : f \in Frames, perm \in SUBSET Permissions,
                  g \in BOOLEAN, a \in BOOLEAN, d \in BOOLEAN}

Asids == {AsidOf[s] : s \in Spaces}

ASSUME TranslationAssumption ==
  /\ Pages \subseteq Nat /\ Frames \subseteq Nat
  /\ Fanout \in Nat \ {0} /\ MaxLevel \in Nat
  /\ GuestPtes \in [Levels -> SUBSET Ptes]
  /\ Modes \subseteq {User, Supervisor, Machine}
  /\ TlbSize \in Nat \ {0} /\ CacheSize \in Nat /\ MaxUnfenced \in Nat \ {0}
  /\ None \notin Pages \cup Asids

VARIABLES
  pte,        \* the page tables in memory
  memory,     \* the instruction each frame holds
  tlb,        \* the valid TLB entries
  icache,     \* the live instruction-cache entries
  unfenced,   \* history: PTEs the guest has changed since an SFENCE.VMA for them
  unsynced    \* history: frames changed since the last FENCE.I

vars == <<pte, memory, tlb, icache, unfenced, unsynced>>

-----------------------------------------------------------------------------
(* The walk. *)

privilege_allows(perm, mode, access, sum, mxr) ==
  /\ mode = User => "U" \in perm
  /\ mode = Supervisor /\ "U" \in perm => access # "InstructionFetch" /\ sum
  /\ CASE access = "InstructionFetch" -> "X" \in perm
       [] access = "Load" -> "R" \in perm \/ (mxr /\ "X" \in perm)
       [] access = "Store" -> "W" \in perm

\* The level at which the walk of a page leaves the tables, if there is one.
WalkEnds(s, p) ==
  {l \in Levels : /\ pte[Slot(s, p, l)].kind # "table"
                  /\ \A k \in Levels : k > l => pte[Slot(s, p, k)].kind = "table"}

InheritedGlobal(s, p, l) ==
  \E k \in Levels : k > l /\ pte[Slot(s, p, k)].global

\* The leaves that the walk accepts for an access: one or none. A superpage
\* has to be aligned, and write permission needs read permission.
WalkLeaves(s, p, mode, access, sum, mxr) ==
  {l \in WalkEnds(s, p) :
     LET e == pte[Slot(s, p, l)]
     IN  /\ e.kind = "leaf"
         /\ "W" \in e.perm => "R" \in e.perm
         /\ e.frame % Span(l) = 0
         /\ privilege_allows(e.perm, mode, access, sum, mxr)}

\* The frame of a page under a leaf of a level.
FrameOf(base, p, l) == base + (p % Span(l))

Updated(e, access) ==
  Leaf(e.frame, e.perm, e.global, TRUE, e.dirty \/ access = "Store")

-----------------------------------------------------------------------------
(* The TLB. *)

\* Mutant: the address space is not part of the key.
HitsAnySpace(s, p, mode, access, sum, mxr) ==
  {e \in tlb :
     /\ e.block = Block(p, e.level)
     /\ privilege_allows(e.leaf.perm, mode, access, sum, mxr)
     /\ e.leaf.accessed
     /\ access = "Store" => e.leaf.dirty}

\* Mutant: a clean page is written without the walk that marks it dirty.
HitsIgnoreDirty(s, p, mode, access, sum, mxr) ==
  {e \in tlb :
     /\ e.block = Block(p, e.level)
     /\ e.leaf.global \/ e.space = s
     /\ privilege_allows(e.leaf.perm, mode, access, sum, mxr)
     /\ e.leaf.accessed}

Hits(s, p, mode, access, sum, mxr) ==
  {e \in tlb :
     /\ e.block = Block(p, e.level)
     /\ e.leaf.global \/ e.space = s
     /\ privilege_allows(e.leaf.perm, mode, access, sum, mxr)
     /\ e.leaf.accessed
     /\ access = "Store" => e.leaf.dirty}

\* Mutant: the new entry is kept beside a full set.
insertBeside(e) == tlb' = tlb \cup {e}

\* Sv39Tlb::insert: a free way, the way of the same page, or a victim. A free
\* way may come first, and then an older entry of the page stays.
insert(e) ==
  \E victim \in {{}} \cup {{x} : x \in tlb} :
    /\ Cardinality(tlb \ victim) < TlbSize
    /\ tlb' = (tlb \ victim) \cup {e}

\* Sv39Tlb::translate with a TLB entry: the smallest page size is tried first.
TranslateHit(s, p, mode, access, sum, mxr, frame) ==
  /\ \E e \in Hits(s, p, mode, access, sum, mxr) :
       /\ \A x \in Hits(s, p, mode, access, sum, mxr) : e.level <= x.level
       /\ frame = FrameOf(e.leaf.frame, p, e.level)
  /\ UNCHANGED <<pte, tlb>>

\* Sv39Tlb::translate without one: the walk updates the PTE and fills the TLB.
TranslateWalk(s, p, mode, access, sum, mxr, frame) ==
  /\ Hits(s, p, mode, access, sum, mxr) = {}
  /\ \E l \in WalkLeaves(s, p, mode, access, sum, mxr) :
       LET slot == Slot(s, p, l)
           leaf == Updated(pte[slot], access)
       IN  /\ frame = FrameOf(leaf.frame, p, l)
           /\ pte' = [pte EXCEPT ![slot] = leaf]
           /\ insert([space |-> s, level |-> l, block |-> slot.block,
                      leaf |-> [leaf EXCEPT !.global = @ \/ InheritedGlobal(s, p, l)]])

\* Bare translation in machine mode.
TranslateBare(p, mode, frame) ==
  /\ mode = Machine
  /\ frame = p
  /\ UNCHANGED <<pte, tlb>>

translate(s, p, mode, access, sum, mxr, frame) ==
  \/ TranslateBare(p, mode, frame)
  \/ mode # Machine /\ TranslateHit(s, p, mode, access, sum, mxr, frame)
  \/ mode # Machine /\ TranslateWalk(s, p, mode, access, sum, mxr, frame)

\* Sv39Tlb::sfence_vma: the entries it invalidates.
TlbFenced(va, asid) ==
  {e \in tlb : /\ asid # None => ~e.leaf.global /\ AsidOf[e.space] = asid
               /\ va # None => Block(va, e.level) = e.block}

-----------------------------------------------------------------------------
(* The instruction cache. *)

\* lookup_instruction_cache: keyed by address, satp and privilege.
Cached(s, p, mode) == {c \in icache : c.space = s /\ c.page = p /\ c.mode = mode}

insert_instruction_cache(c) ==
  \E victim \in {{}} \cup {{x} : x \in icache} :
    /\ Cardinality(icache \ victim) < CacheSize
    /\ icache' = (icache \ victim) \cup {c}

\* Mutant: an address and an ASID together select nothing in the cache.
CacheFencedOneOperand(va, asid) ==
  {c \in icache : \/ va = None /\ asid = None
                  \/ va = None /\ AsidOf[c.space] = asid
                  \/ asid = None /\ c.page = va}

\* sfence_instruction_cache: the epochs an SFENCE.VMA advances are those of
\* the 4 KiB page of its address, of its ASID, or of the pair.
CacheFenced(va, asid) ==
  {c \in icache : /\ asid # None => AsidOf[c.space] = asid
                  /\ va # None => c.page = va}

-----------------------------------------------------------------------------
(* Steps of the hart. *)

\* An instruction fetch. The cache is used for RAM and not at the end of a
\* page, and then a hit skips translation, bus and decoder.
Fetch(s, p, mode, cacheable) ==
  /\ UNCHANGED <<memory, unfenced, unsynced>>
  /\ ~(cacheable /\ Cached(s, p, mode) # {})
  /\ \E frame \in Frames :
       /\ IF cacheable
          THEN insert_instruction_cache(
                 [space |-> s, page |-> p, mode |-> mode,
                  instruction |-> memory[frame]])
          ELSE UNCHANGED icache
       /\ translate(s, p, mode, "InstructionFetch", FALSE, FALSE, frame)

Load(s, p, mode, sum, mxr) ==
  /\ UNCHANGED <<memory, icache, unfenced, unsynced>>
  /\ \E frame \in Frames : translate(s, p, mode, "Load", sum, mxr, frame)

\* A store translates and then writes. It may write an instruction.
Store(s, p, mode, sum, mxr, i) ==
  /\ UNCHANGED <<icache, unfenced>>
  /\ \E frame \in Frames :
       /\ memory' = [memory EXCEPT ![frame] = i]
       /\ unsynced' = unsynced \cup {f \in {frame} : memory[f] # i}
       /\ translate(s, p, mode, "Store", sum, mxr, frame)

IsGlobal(e) == e.kind # "invalid" /\ e.global

\* The slots on the paths that go through a slot: a global PTE above or below
\* makes the mapping global.
Through(slot) ==
  {Slot(slot.space, p, l) :
     p \in {q \in Pages : Block(q, slot.level) = slot.block}, l \in Levels}

\* The guest writes a PTE. Making or unlinking a table asks for an SFENCE.VMA
\* without an address, a global mapping for one without an ASID.
WritePte(slot, e) ==
  LET old == pte[slot]
  IN  /\ e # old
      /\ Cardinality(unfenced) < MaxUnfenced
      /\ pte' = [pte EXCEPT ![slot] = e]
      /\ unfenced' = unfenced \cup
           {[slot |-> slot,
             table |-> "table" \in {old.kind, e.kind},
             global |-> IsGlobal(e) \/ \E x \in Through(slot) : IsGlobal(pte[x])]}
      /\ UNCHANGED <<memory, tlb, icache, unsynced>>

\* The changes an SFENCE.VMA orders: its address stands for the leaf PTE of
\* any size that maps it.
Ordered(va, asid) ==
  {u \in unfenced :
     /\ va # None => ~u.table /\ Block(va, u.slot.level) = u.slot.block
     /\ asid # None => ~u.global /\ AsidOf[u.slot.space] = asid}

\* An epoch is shared by the pages and ASIDs that hash to it, so the fence may
\* take other cache entries with it.
sfence_vma(va, asid) ==
  /\ tlb' = tlb \ TlbFenced(va, asid)
  /\ \E aliased \in SUBSET icache : icache' = icache \ (CacheFenced(va, asid) \cup aliased)
  /\ unfenced' = unfenced \ Ordered(va, asid)
  /\ UNCHANGED <<pte, memory, unsynced>>

FenceI ==
  /\ icache' = {}
  /\ unsynced' = {}
  /\ UNCHANGED <<pte, memory, tlb, unfenced>>

\* set_execution_mode and reset start from empty caches.
ClearCaches ==
  /\ tlb' = {} /\ icache' = {}
  /\ UNCHANGED <<pte, memory, unfenced, unsynced>>

Init ==
  /\ pte = [slot \in Slots |-> Invalid]
  /\ memory \in [Frames -> Instructions]
  /\ tlb = {} /\ icache = {}
  /\ unfenced = {} /\ unsynced = {}

Next ==
  \/ FenceI
  \/ ClearCaches
  \/ \E va \in Pages \cup {None}, asid \in Asids \cup {None} : sfence_vma(va, asid)
  \/ \E slot \in Slots : \E e \in GuestPtes[slot.level] : WritePte(slot, e)
  \/ \E s \in Spaces, p \in Pages, mode \in Modes, cacheable \in BOOLEAN :
       Fetch(s, p, mode, cacheable)
  \/ \E s \in Spaces, p \in Pages, mode \in Modes, sum \in BOOLEAN, mxr \in BOOLEAN :
       \/ Load(s, p, mode, sum, mxr)
       \/ \E i \in Instructions : Store(s, p, mode, sum, mxr, i)

Spec == Init /\ [][Next]_vars

-----------------------------------------------------------------------------
(* Properties. *)

TlbEntries ==
  {e \in [space : Spaces, level : Levels, block : Nat, leaf : Ptes] :
     /\ \E p \in Pages : e.block = Block(p, e.level)
     /\ e.leaf.kind = "leaf" /\ e.leaf.accessed}

CacheEntries ==
  [space : Spaces, page : Pages, mode : Modes, instruction : Instructions]

\* The page tables hold PTEs and memory instructions; the TLB and the
\* instruction cache stay within their size, and no TLB entry lacks the
\* accessed bit.
TypeOK ==
  /\ pte \in [Slots -> Ptes]
  /\ memory \in [Frames -> Instructions]
  /\ tlb \subseteq TlbEntries /\ Cardinality(tlb) <= TlbSize
  /\ icache \subseteq CacheEntries /\ Cardinality(icache) <= CacheSize
  /\ unfenced \subseteq [slot : Slots, table : BOOLEAN, global : BOOLEAN]
  /\ unsynced \subseteq Frames

\* The guest has fenced every change to the PTEs on the path to a page.
Fenced(s, p) ==
  \A u \in unfenced :
    ~(/\ u.slot.space = s \/ u.global
      /\ u.slot.block = Block(p, u.slot.level))

\* What the guest promises of a page it maps global: it is mapped the same
\* way in every address space.
GlobalAgrees(s, p) ==
  \A t \in Spaces, l \in Levels :
    IsGlobal(pte[Slot(t, p, l)])
      => \A k \in Levels : pte[Slot(t, p, k)] = pte[Slot(s, p, k)]

Settled(s, p) == Fenced(s, p) /\ GlobalAgrees(s, p)

\* For a page whose PTE changes the guest has fenced, a TLB hit gives the frame
\* that the walk of Reference mode gives, under the privilege, SUM and MXR of
\* the access, and only when the walk would set no accessed or dirty bit.
TlbTransparent ==
  \A s \in Spaces, p \in Pages, mode \in Modes \ {Machine}, access \in Accesses,
     sum \in BOOLEAN, mxr \in BOOLEAN :
    Settled(s, p) =>
      \A e \in Hits(s, p, mode, access, sum, mxr) :
        \E l \in WalkLeaves(s, p, mode, access, sum, mxr) :
          LET leaf == pte[Slot(s, p, l)]
          IN  /\ FrameOf(leaf.frame, p, l) = FrameOf(e.leaf.frame, p, e.level)
              /\ Updated(leaf, access) = leaf

\* The frames from which Reference mode fetches a page without a PTE update:
\* one, or none when it traps or has an accessed bit to set.
FetchFrames(s, p, mode) ==
  IF mode = Machine THEN {p}
  ELSE {FrameOf(pte[Slot(s, p, l)].frame, p, l) :
          l \in {k \in WalkLeaves(s, p, mode, "InstructionFetch", FALSE, FALSE) :
                   pte[Slot(s, p, k)].accessed}}

\* A hit in the instruction cache executes what Reference mode would fetch: for
\* a page whose PTE changes the guest has fenced and a frame not changed since
\* FENCE.I, the walk permits the fetch, has nothing to update, and finds the
\* cached instruction.
FetchTransparent ==
  \A s \in Spaces, p \in Pages, mode \in Modes :
    Settled(s, p) =>
      \A c \in Cached(s, p, mode) :
        \E frame \in FetchFrames(s, p, mode) :
          frame \notin unsynced => c.instruction = memory[frame]
=============================================================================
