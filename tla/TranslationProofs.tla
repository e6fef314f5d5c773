-------------------------- MODULE TranslationProofs --------------------------
(***************************************************************************)
(* Proofs about translation, for every shape of the page tables, every     *)
(* size of the caches and every number of address spaces: what the TLB and *)
(* the instruction cache hold agrees with the page tables wherever the     *)
(* guest has made the fences that the architecture asks of it.             *)
(***************************************************************************)
EXTENDS Translation, WellOrder, FiniteSetTheorems

\* The walk of a page in a space ends at a leaf of a level.
PathTo(t, p, l) ==
  /\ \A k \in Levels : k > l => pte[Slot(t, p, k)].kind = "table"
  /\ pte[Slot(t, p, l)].kind = "leaf"

\* A PTE that the walk reads on the way to a leaf of a level is global.
GlobalPath(t, p, l) == \E k \in Levels : k >= l /\ IsGlobal(pte[Slot(t, p, k)])

\* The leaf is one that a walk accepts, and has its accessed bit.
Sound(leaf, l) ==
  /\ leaf.accessed
  /\ "W" \in leaf.perm => "R" \in leaf.perm
  /\ leaf.frame % Span(l) = 0

\* The walk of a page gives what a TLB entry says of it.
Matches(e, p) ==
  /\ PathTo(e.space, p, e.level)
  /\ e.leaf.global => GlobalPath(e.space, p, e.level)
  /\ LET leaf == pte[Slot(e.space, p, e.level)]
     IN  /\ Sound(leaf, e.level)
         /\ leaf.frame = e.leaf.frame /\ leaf.perm = e.leaf.perm
         /\ e.leaf.dirty => leaf.dirty

\* A change on the path of a page is unfenced, such that the fence that orders
\* it removes what was cached from a leaf of the level (and global, if g).
Owed(t, p, l, g) ==
  \E u \in unfenced :
    /\ u.slot.space = t
    /\ u.slot.block = Block(p, u.slot.level)
    /\ u.table \/ u.slot.level = l
    /\ g => u.global

\* An entry of the TLB is right about each of its pages, or a fence is due.
TlbBacked ==
  \A e \in tlb, p \in Pages :
    e.block = Block(p, e.level) =>
      Matches(e, p) \/ Owed(e.space, p, e.level, e.leaf.global)

\* The walk in a space gives what the instruction cache holds.
CacheMatches(c, t) ==
  LET leaf == pte[Slot(t, c.page, 0)]
      frame == FrameOf(leaf.frame, c.page, 0)
  IN  /\ PathTo(t, c.page, 0)
      /\ t # c.space => GlobalPath(t, c.page, 0)
      /\ Sound(leaf, 0)
      /\ privilege_allows(leaf.perm, c.mode, "InstructionFetch", FALSE, FALSE)
      /\ frame \notin unsynced => c.instruction = memory[frame]

\* An entry of the instruction cache is right, by its own space or by the space
\* whose global TLB entry it was fetched through, or a fence is due.
CacheRight(c) ==
  IF c.mode = Machine
  THEN c.page \in Frames /\ (c.page \notin unsynced => c.instruction = memory[c.page])
  ELSE \E t \in Spaces : CacheMatches(c, t) \/ Owed(t, c.page, 0, t # c.space)

CacheBacked == \A c \in icache : CacheRight(c)

-----------------------------------------------------------------------------
(* Pages, blocks and slots. *)

\* The pages of a block of one level stay together at every level above.
LEMMA BlockNested ==
  ASSUME NEW p \in Pages, NEW q \in Pages, NEW l \in Levels, NEW k \in Levels,
         l <= k, Block(p, l) = Block(q, l)
  PROVE  Block(p, k) = Block(q, k)
<1> DEFINE S == {n \in Nat : n >= l => Block(p, n) = Block(q, n)}
<1>1. l \in Nat /\ k \in Nat /\ p \in Nat /\ q \in Nat /\ Fanout \in Nat \ {0}
  BY TranslationAssumption DEF Levels
<1>2. ASSUME NEW n \in Nat, n >= l, Block(p, n) = Block(q, n)
      PROVE  Block(p, n + 1) = Block(q, n + 1)
  <2>1. Span(n + 1) = Fanout * Span(n) /\ Span(n) \in Nat \ {0}
    BY <1>1, PowDef DEF Span
  <2>2. \A x \in Nat, F \in Nat \ {0}, G \in Nat \ {0} :
          x \div (F * G) = (x \div G) \div F
    OBVIOUS
  <2>3. Block(p, n + 1) = Block(p, n) \div Fanout
    BY <1>1, <2>1, <2>2 DEF Block
  <2>4. Block(q, n + 1) = Block(q, n) \div Fanout
    BY <1>1, <2>1, <2>2 DEF Block
  <2>. QED  BY <1>2, <2>3, <2>4
<1>3. S = Nat
  <2>1. 0 \in S
    <3>1. 0 >= l => l = 0  BY <1>1
    <3>. QED  BY <3>1
  <2>2. ASSUME NEW n \in S PROVE n + 1 \in S
    <3>1. n \in Nat /\ n + 1 \in Nat  OBVIOUS
    <3>2. CASE n >= l
      <4>1. Block(p, n) = Block(q, n)  BY <3>2
      <4>. QED  BY <1>2, <3>1, <3>2, <4>1
    <3>3. CASE ~(n >= l)
      <4>1. n + 1 >= l => n + 1 = l  BY <1>1, <3>1, <3>3
      <4>. QED  BY <3>1, <4>1
    <3>. QED  BY <3>2, <3>3
  <2>3. S \in SUBSET Nat  OBVIOUS
  <2> HIDE DEF S
  <2>. QED  BY <2>1, <2>2, <2>3, NatSetInduction
<1>. QED  BY <1>1, <1>3

\* A block of the lowest level is one page.
LEMMA LowestBlock ==
  ASSUME NEW p \in Pages
  PROVE  Block(p, 0) = p
<1>1. Span(0) = 1  BY PowDef, TranslationAssumption DEF Span
<1>2. p \in Nat  BY TranslationAssumption
<1>. QED  BY <1>1, <1>2 DEF Block

LEMMA BlockType ==
  ASSUME NEW p \in Pages, NEW l \in Levels
  PROVE  Block(p, l) \in Nat
<1>1. p \in Nat /\ l \in Nat  BY TranslationAssumption DEF Levels
<1>2. Span(l) \in Nat \ {0}  BY <1>1, PowDef, TranslationAssumption DEF Span
<1>3. \A x \in Nat, y \in Nat \ {0} : x \div y \in Nat  OBVIOUS
<1>. QED  BY <1>1, <1>2, <1>3 DEF Block

LEMMA SlotType ==
  ASSUME NEW s \in Spaces, NEW p \in Pages, NEW l \in Levels
  PROVE  Slot(s, p, l) \in Slots
  BY DEF Slot, Slots

LEMMA FrameLowest ==
  ASSUME NEW p \in Pages, NEW f \in Frames
  PROVE  FrameOf(f, p, 0) = f
<1>1. Span(0) = 1  BY PowDef, TranslationAssumption DEF Span
<1>2. p \in Nat /\ f \in Nat  BY TranslationAssumption
<1>3. p % 1 = 0  BY <1>2
<1>. QED  BY <1>1, <1>2, <1>3 DEF FrameOf

-----------------------------------------------------------------------------
(* PTEs. *)

IsLeaf(e) ==
  /\ e.frame \in Frames /\ e.perm \in SUBSET Permissions
  /\ e.global \in BOOLEAN /\ e.accessed \in BOOLEAN /\ e.dirty \in BOOLEAN
  /\ e = Leaf(e.frame, e.perm, e.global, e.accessed, e.dirty)

LEMMA PteFacts ==
  ASSUME NEW e \in Ptes
  PROVE  /\ e.kind \in {"invalid", "table", "leaf"}
         /\ e.kind = "leaf" => IsLeaf(e)
<1>1. CASE e = Invalid  BY <1>1 DEF Invalid
<1>2. CASE \E g \in BOOLEAN : e = Table(g)  BY <1>2 DEF Table
<1>3. ASSUME NEW f \in Frames, NEW perm \in SUBSET Permissions, NEW g \in BOOLEAN,
             NEW a \in BOOLEAN, NEW d \in BOOLEAN, e = Leaf(f, perm, g, a, d)
      PROVE  e.kind = "leaf" /\ IsLeaf(e)
  BY <1>3 DEF Leaf, IsLeaf
<1>. QED  BY <1>1, <1>2, <1>3 DEF Ptes

LEMMA LeafInPtes ==
  ASSUME NEW f \in Frames, NEW perm \in SUBSET Permissions, NEW g \in BOOLEAN,
         NEW a \in BOOLEAN, NEW d \in BOOLEAN
  PROVE  Leaf(f, perm, g, a, d) \in Ptes
  BY DEF Ptes

\* What a walk does to a PTE that an access uses: only the accessed and dirty
\* bits change, and they are only set.
Aged(old, new) ==
  /\ new.kind = old.kind
  /\ IsGlobal(new) <=> IsGlobal(old)
  /\ old.kind = "leaf" =>
       /\ new.frame = old.frame /\ new.perm = old.perm
       /\ old.accessed => new.accessed
       /\ old.dirty => new.dirty

LEMMA UpdatedAges ==
  ASSUME NEW e \in Ptes, e.kind = "leaf", NEW access \in Accesses
  PROVE  Updated(e, access) \in Ptes /\ Aged(e, Updated(e, access))
<1>1. IsLeaf(e)  BY PteFacts
<1> DEFINE d == e.dirty \/ access = "Store"
<1>2. Updated(e, access) = Leaf(e.frame, e.perm, e.global, TRUE, d)  BY DEF Updated
<1>3. d \in BOOLEAN  OBVIOUS
<1>4. e.dirty => d  OBVIOUS
<1> HIDE DEF d
<1>5. Updated(e, access) \in Ptes  BY <1>1, <1>2, <1>3, LeafInPtes DEF IsLeaf
<1>6. Aged(e, Updated(e, access))  BY <1>1, <1>2, <1>4 DEF Aged, Leaf, IsGlobal, IsLeaf
<1>. QED  BY <1>5, <1>6

LEMMA GlobalLeaf ==
  ASSUME NEW e \in Ptes, e.kind = "leaf", NEW b \in BOOLEAN
  PROVE  [e EXCEPT !.global = @ \/ b] = Leaf(e.frame, e.perm, e.global \/ b, e.accessed, e.dirty)
<1>1. IsLeaf(e)  BY PteFacts
<1>. QED  BY <1>1 DEF IsLeaf, Leaf

-----------------------------------------------------------------------------
(* Translation. *)

\* A leaf that the walk accepts.
LEMMA WalkFacts ==
  ASSUME pte \in [Slots -> Ptes], NEW s \in Spaces, NEW p \in Pages,
         NEW mode, NEW access, NEW sum, NEW mxr,
         NEW l \in WalkLeaves(s, p, mode, access, sum, mxr)
  PROVE  LET e == pte[Slot(s, p, l)]
         IN  /\ l \in Levels /\ e \in Ptes /\ Slot(s, p, l) \in Slots
             /\ PathTo(s, p, l)
             /\ "W" \in e.perm => "R" \in e.perm
             /\ e.frame % Span(l) = 0
             /\ privilege_allows(e.perm, mode, access, sum, mxr)
<1>1. l \in Levels  BY DEF WalkLeaves, WalkEnds
<1>2. Slot(s, p, l) \in Slots  BY <1>1, SlotType
<1>. QED  BY <1>1, <1>2 DEF WalkLeaves, WalkEnds, PathTo

\* The entry that a walk puts in the TLB.
WalkEntry(s, p, l, access) ==
  [space |-> s, level |-> l, block |-> Slot(s, p, l).block,
   leaf |-> [Updated(pte[Slot(s, p, l)], access) EXCEPT
               !.global = @ \/ InheritedGlobal(s, p, l)]]

LEMMA WalkEntryFacts ==
  ASSUME pte \in [Slots -> Ptes], NEW s \in Spaces, NEW p \in Pages, NEW l \in Levels,
         NEW access \in Accesses, pte[Slot(s, p, l)].kind = "leaf"
  PROVE  LET e == WalkEntry(s, p, l, access)
             leaf == pte[Slot(s, p, l)]
         IN  /\ e \in TlbEntries
             /\ e.space = s /\ e.level = l /\ e.block = Block(p, l)
             /\ e.leaf.frame = leaf.frame /\ e.leaf.perm = leaf.perm
             /\ e.leaf.global <=> leaf.global \/ InheritedGlobal(s, p, l)
             /\ e.leaf.dirty <=> leaf.dirty \/ access = "Store"
<1> DEFINE leaf == pte[Slot(s, p, l)]
           g == InheritedGlobal(s, p, l)
           d == leaf.dirty \/ access = "Store"
           up == Leaf(leaf.frame, leaf.perm, leaf.global, TRUE, d)
           gg == leaf.global \/ g
           all == Leaf(leaf.frame, leaf.perm, gg, TRUE, d)
           entry == [space |-> s, level |-> l, block |-> Block(p, l), leaf |-> all]
<1>1. leaf \in Ptes /\ leaf.kind = "leaf"  BY SlotType
<1>2. IsLeaf(leaf)  BY <1>1, PteFacts
<1>3. g \in BOOLEAN /\ d \in BOOLEAN  BY DEF InheritedGlobal
<1> HIDE DEF g, d
<1>4. up \in Ptes  BY <1>2, <1>3, LeafInPtes DEF IsLeaf
<1>5. /\ up.kind = "leaf" /\ up.frame = leaf.frame /\ up.perm = leaf.perm
      /\ up.global = leaf.global /\ up.accessed = TRUE /\ up.dirty = d
  BY DEF Leaf
<1> HIDE DEF up
<1>6. [up EXCEPT !.global = @ \/ g] = all
  <2>1. [up EXCEPT !.global = @ \/ g] = Leaf(up.frame, up.perm, up.global \/ g, up.accessed, up.dirty)
    BY <1>3, <1>4, <1>5, GlobalLeaf
  <2>. QED  BY <1>5, <2>1
<1>7. Updated(leaf, access) = up  BY DEF Updated, up, d
<1>8. WalkEntry(s, p, l, access) = entry  BY <1>6, <1>7 DEF WalkEntry, Slot, g
<1>9. entry \in TlbEntries
  <2>1. gg \in BOOLEAN  OBVIOUS
  <2> HIDE DEF gg, all
  <2>2. leaf.frame \in Frames /\ leaf.perm \in SUBSET Permissions  BY <1>2 DEF IsLeaf
  <2> HIDE DEF leaf
  <2>3. all \in Ptes  BY <1>3, <2>1, <2>2, LeafInPtes DEF all
  <2>4. all.kind = "leaf" /\ all.accessed  BY DEF all, Leaf
  <2>5. Block(p, l) \in Nat  BY BlockType
  <2>. QED  BY <2>3, <2>4, <2>5 DEF TlbEntries
<1>10. /\ entry.space = s /\ entry.level = l /\ entry.block = Block(p, l)
       /\ entry.leaf.frame = leaf.frame /\ entry.leaf.perm = leaf.perm
       /\ entry.leaf.global = gg
       /\ entry.leaf.dirty = d
  BY DEF Leaf
<1> HIDE DEF entry
<1>. QED  BY <1>8, <1>9, <1>10 DEF g, d

\* The walk of a page is right about every page of the same block.
LEMMA WalkMatches ==
  ASSUME pte \in [Slots -> Ptes], NEW s \in Spaces, NEW p \in Pages, NEW q \in Pages,
         NEW mode, NEW access \in Accesses, NEW sum, NEW mxr,
         NEW l \in WalkLeaves(s, p, mode, access, sum, mxr), Block(q, l) = Block(p, l),
         NEW e, e = WalkEntry(s, p, l, access),
         pte' = [pte EXCEPT ![Slot(s, p, l)] = Updated(pte[Slot(s, p, l)], access)]
  PROVE  Matches(e, q)'
<1> DEFINE slot == Slot(s, p, l)
           leaf == pte[slot]
           g == InheritedGlobal(s, p, l)
<1>1. /\ l \in Levels /\ leaf \in Ptes /\ slot \in Slots /\ PathTo(s, p, l)
      /\ "W" \in leaf.perm => "R" \in leaf.perm
      /\ leaf.frame % Span(l) = 0
  BY WalkFacts
<1>2. leaf.kind = "leaf" /\ l \in Nat  BY <1>1 DEF PathTo, Levels
<1>3. /\ e.space = s /\ e.level = l
      /\ e.leaf.frame = leaf.frame /\ e.leaf.perm = leaf.perm
      /\ e.leaf.global <=> leaf.global \/ g
      /\ e.leaf.dirty <=> leaf.dirty \/ access = "Store"
  BY <1>1, <1>2, WalkEntryFacts
<1>4. /\ pte'[slot].kind = "leaf" /\ pte'[slot].accessed
      /\ pte'[slot].frame = leaf.frame /\ pte'[slot].perm = leaf.perm
      /\ pte'[slot].global = leaf.global
      /\ pte'[slot].dirty <=> leaf.dirty \/ access = "Store"
  BY <1>1 DEF Updated, Leaf
<1>5. ASSUME NEW k \in Levels, k > l
      PROVE  pte'[Slot(s, q, k)] = pte[Slot(s, p, k)]
  <2>1. Slot(s, q, k) = Slot(s, p, k)
    <3>1. l <= k  BY <1>2, <1>5 DEF Levels
    <3>2. Block(q, k) = Block(p, k)  BY <1>1, <3>1, BlockNested
    <3>. QED  BY <3>2 DEF Slot
  <2>2. Slot(s, p, k) # slot  BY <1>2, <1>5 DEF Slot, Levels
  <2>3. Slot(s, p, k) \in Slots  BY SlotType
  <2>. QED  BY <2>1, <2>2, <2>3
<1>6. Slot(s, q, l) = slot  BY DEF Slot
<1> HIDE DEF slot
<1>7. PathTo(s, q, l)'
  <2>1. pte'[Slot(s, q, l)].kind = "leaf"  BY <1>4, <1>6 DEF Leaf
  <2>2. \A k \in Levels : k > l => pte[Slot(s, p, k)].kind = "table"  BY <1>1 DEF PathTo
  <2>. QED  BY <1>5, <2>1, <2>2 DEF PathTo
<1>8. (leaf.global \/ g) => GlobalPath(s, q, l)'
  <2>1. CASE leaf.global
    <3>1. IsGlobal(pte'[Slot(s, q, l)])  BY <1>4, <1>6, <2>1 DEF Leaf, IsGlobal
    <3>2. l >= l  BY <1>2
    <3>. QED  BY <1>1, <3>1, <3>2 DEF GlobalPath
  <2>2. CASE g
    <3>1. PICK k \in Levels : k > l /\ pte[Slot(s, p, k)].global  BY <2>2 DEF InheritedGlobal
    <3>2. pte[Slot(s, p, k)].kind = "table"  BY <1>1, <3>1 DEF PathTo
    <3>3. IsGlobal(pte'[Slot(s, q, k)])  BY <1>5, <3>1, <3>2 DEF IsGlobal
    <3>4. k >= l  BY <1>2, <3>1 DEF Levels
    <3>. QED  BY <3>3, <3>4 DEF GlobalPath
  <2>. QED  BY <2>1, <2>2
<1>9. /\ Sound(pte'[slot], l)
      /\ pte'[slot].frame = e.leaf.frame /\ pte'[slot].perm = e.leaf.perm
      /\ e.leaf.dirty => pte'[slot].dirty
      /\ e.leaf.global => leaf.global \/ g
  <2> HIDE DEF leaf, g
  <2>. QED  BY <1>1, <1>3, <1>4 DEF Sound, Leaf
<1>. QED  BY <1>3, <1>6, <1>7, <1>8, <1>9 DEF Matches

\* The finite sets that the caches are.
Finite == IsFiniteSet(tlb) /\ IsFiniteSet(icache)

\* A step that only ages the page tables keeps what matches.
AllAged == \A x \in Slots : Aged(pte[x], pte'[x])

LEMMA PathKept ==
  ASSUME AllAged, NEW s \in Spaces, NEW p \in Pages, NEW l \in Levels, PathTo(s, p, l)
  PROVE  /\ PathTo(s, p, l)'
         /\ GlobalPath(s, p, l) => GlobalPath(s, p, l)'
         /\ Sound(pte[Slot(s, p, l)], l) => Sound(pte'[Slot(s, p, l)], l)
         /\ Aged(pte[Slot(s, p, l)], pte'[Slot(s, p, l)])
<1>1. \A k \in Levels : Aged(pte[Slot(s, p, k)], pte'[Slot(s, p, k)])  BY SlotType DEF AllAged
<1>2. \A k \in Levels : pte'[Slot(s, p, k)].kind = pte[Slot(s, p, k)].kind
  BY <1>1 DEF Aged
<1>3. PathTo(s, p, l)'  BY <1>2 DEF PathTo
<1>4. \A k \in Levels : IsGlobal(pte'[Slot(s, p, k)]) <=> IsGlobal(pte[Slot(s, p, k)])
  BY <1>1 DEF Aged
<1>5. GlobalPath(s, p, l) => GlobalPath(s, p, l)'  BY <1>4 DEF GlobalPath
<1>6. Sound(pte[Slot(s, p, l)], l) => Sound(pte'[Slot(s, p, l)], l)
  BY <1>1 DEF Sound, Aged, PathTo
<1>. QED  BY <1>1, <1>3, <1>5, <1>6

LEMMA MatchesKept ==
  ASSUME AllAged, NEW e \in TlbEntries, NEW p \in Pages, Matches(e, p)
  PROVE  Matches(e, p)'
<1>1. e.space \in Spaces /\ e.level \in Levels  BY DEF TlbEntries
<1>2. PathTo(e.space, p, e.level)  BY DEF Matches
<1>3. pte[Slot(e.space, p, e.level)].kind = "leaf"  BY <1>2 DEF PathTo
<1>. QED  BY <1>1, <1>2, <1>3, PathKept DEF Matches, Aged

LEMMA AgedSelf ==
  ASSUME NEW e
  PROVE  Aged(e, e)
  BY DEF Aged

\* The TLB entry that an access is translated by.
Serves(e, s, p, mode, access, sum, mxr, frame) ==
  /\ e.block = Block(p, e.level)
  /\ e.leaf.global \/ e.space = s
  /\ privilege_allows(e.leaf.perm, mode, access, sum, mxr)
  /\ frame = FrameOf(e.leaf.frame, p, e.level)

\* An entry is right about each of its pages.
Right(e) == \A q \in Pages : e.block = Block(q, e.level) => Matches(e, q)

\* What a translation does: it ages the page tables, it keeps the TLB within
\* its size, what it adds is right, and an entry serves the access.
LEMMA TranslateFacts ==
  ASSUME TypeOK, Finite, NEW s \in Spaces, NEW p \in Pages, NEW mode \in Modes,
         NEW access \in Accesses, NEW sum \in BOOLEAN, NEW mxr \in BOOLEAN, NEW frame,
         translate(s, p, mode, access, sum, mxr, frame)
  PROVE  /\ pte' \in [Slots -> Ptes] /\ AllAged
         /\ tlb' \subseteq TlbEntries /\ IsFiniteSet(tlb') /\ Cardinality(tlb') <= TlbSize
         /\ \A e \in tlb' : e \in tlb \/ Right(e)'
         /\ mode = Machine => frame = p
         /\ mode # Machine => \E e \in tlb' : Serves(e, s, p, mode, access, sum, mxr, frame)
<1>1. CASE TranslateBare(p, mode, frame)
  BY <1>1, AgedSelf DEF TranslateBare, TypeOK, Finite, AllAged
<1>2. CASE mode # Machine /\ TranslateHit(s, p, mode, access, sum, mxr, frame)
  <2>1. UNCHANGED <<pte, tlb>>  BY <1>2 DEF TranslateHit
  <2>2. PICK e \in tlb : Serves(e, s, p, mode, access, sum, mxr, frame)
    BY <1>2 DEF TranslateHit, Hits, Serves
  <2>. QED  BY <1>2, <2>1, <2>2, AgedSelf DEF TypeOK, Finite, AllAged
<1>3. CASE mode # Machine /\ TranslateWalk(s, p, mode, access, sum, mxr, frame)
  <2>1. pte \in [Slots -> Ptes]  BY DEF TypeOK
  <2>2. PICK l \in WalkLeaves(s, p, mode, access, sum, mxr) :
          /\ frame = FrameOf(Updated(pte[Slot(s, p, l)], access).frame, p, l)
          /\ pte' = [pte EXCEPT ![Slot(s, p, l)] = Updated(pte[Slot(s, p, l)], access)]
          /\ insert(WalkEntry(s, p, l, access))
    BY <1>3 DEF TranslateWalk, WalkEntry
  <2> DEFINE slot == Slot(s, p, l)
             new == WalkEntry(s, p, l, access)
  <2>3. /\ l \in Levels /\ pte[slot] \in Ptes /\ slot \in Slots /\ PathTo(s, p, l)
        /\ privilege_allows(pte[slot].perm, mode, access, sum, mxr)
    BY <2>1, WalkFacts
  <2>4. pte[slot].kind = "leaf"  BY <2>3 DEF PathTo
  <2>5. /\ new \in TlbEntries /\ new.space = s /\ new.level = l /\ new.block = Block(p, l)
        /\ new.leaf.frame = pte[slot].frame /\ new.leaf.perm = pte[slot].perm
    BY <2>1, <2>3, <2>4, WalkEntryFacts
  <2>6. Updated(pte[slot], access) \in Ptes /\ Aged(pte[slot], Updated(pte[slot], access))
    BY <2>3, <2>4, UpdatedAges
  <2>7. Updated(pte[slot], access).frame = pte[slot].frame  BY DEF Updated, Leaf
  <2>8. pte' \in [Slots -> Ptes] /\ AllAged
    <3> DEFINE up == Updated(pte[slot], access)
    <3> HIDE DEF up, slot
    <3>1. pte' = [pte EXCEPT ![slot] = up] /\ up \in Ptes /\ Aged(pte[slot], up) /\ slot \in Slots
      BY <2>2, <2>3, <2>6 DEF up, slot
    <3>. QED  BY <2>1, <3>1, AgedSelf DEF AllAged
  <2>9. PICK victim \in {{}} \cup {{x} : x \in tlb} :
          /\ Cardinality(tlb \ victim) < TlbSize
          /\ tlb' = (tlb \ victim) \cup {new}
    BY <2>2 DEF insert
  <2>10. tlb \subseteq TlbEntries /\ IsFiniteSet(tlb)  BY DEF TypeOK, Finite
  <2>11. ASSUME NEW e, e = new PROVE Right(e)'
    <3> SUFFICES ASSUME NEW q \in Pages, e.block = Block(q, e.level)
                 PROVE  Matches(e, q)'
      BY DEF Right
    <3>1. Block(q, l) = Block(p, l)  BY <2>5, <2>11
    <3>. QED  BY <2>1, <2>2, <2>11, <3>1, WalkMatches
  <2>12. Serves(new, s, p, mode, access, sum, mxr, frame)
    <3>1. frame = FrameOf(pte[slot].frame, p, l)  BY <2>2, <2>7
    <3>. QED  BY <2>3, <2>5, <3>1 DEF Serves
  <2> HIDE DEF new, slot
  <2>13. IsFiniteSet(tlb') /\ Cardinality(tlb') <= TlbSize
    <3>1. IsFiniteSet(tlb \ victim)  BY <2>10, FS_Subset
    <3>2. Cardinality(tlb \ victim) \in Nat  BY <3>1, FS_CardinalityType
    <3>3. /\ IsFiniteSet((tlb \ victim) \cup {new})
          /\ \/ Cardinality((tlb \ victim) \cup {new}) = Cardinality(tlb \ victim)
             \/ Cardinality((tlb \ victim) \cup {new}) = Cardinality(tlb \ victim) + 1
      BY <3>1, FS_AddElement
    <3>. QED  BY <2>9, <3>2, <3>3, TranslationAssumption
  <2>14. tlb' \subseteq TlbEntries  BY <2>5, <2>9, <2>10
  <2>15. \A e \in tlb' : e \in tlb \/ Right(e)'  BY <2>9, <2>11
  <2>16. new \in tlb'  BY <2>9
  <2>. QED  BY <1>3, <2>8, <2>12, <2>13, <2>14, <2>15, <2>16
<1>. QED  BY <1>1, <1>2, <1>3 DEF translate

-----------------------------------------------------------------------------
(* Types and bounds. *)

LEMMA CacheInsert ==
  ASSUME icache \subseteq CacheEntries, IsFiniteSet(icache), NEW c \in CacheEntries,
         insert_instruction_cache(c)
  PROVE  /\ icache' \subseteq CacheEntries /\ IsFiniteSet(icache')
         /\ Cardinality(icache') <= CacheSize
         /\ icache' \subseteq icache \cup {c}
<1>1. PICK victim \in {{}} \cup {{x} : x \in icache} :
        /\ Cardinality(icache \ victim) < CacheSize
        /\ icache' = (icache \ victim) \cup {c}
  BY DEF insert_instruction_cache
<1>2. IsFiniteSet(icache \ victim)  BY FS_Subset
<1>3. Cardinality(icache \ victim) \in Nat  BY <1>2, FS_CardinalityType
<1>4. /\ IsFiniteSet((icache \ victim) \cup {c})
      /\ \/ Cardinality((icache \ victim) \cup {c}) = Cardinality(icache \ victim)
         \/ Cardinality((icache \ victim) \cup {c}) = Cardinality(icache \ victim) + 1
  BY <1>2, FS_AddElement
<1>. QED  BY <1>1, <1>3, <1>4, TranslationAssumption

LEMMA NothingCached ==
  IsFiniteSet({}) /\ Cardinality({}) <= TlbSize /\ Cardinality({}) <= CacheSize
  BY FS_EmptySet, TranslationAssumption

LEMMA TypeInit == Init => TypeOK /\ Finite
<1> SUFFICES ASSUME Init PROVE TypeOK /\ Finite  OBVIOUS
<1>1. Invalid \in Ptes  BY DEF Ptes
<1>. QED  BY <1>1, NothingCached DEF Init, TypeOK, Finite

LEMMA TypeFetch ==
  ASSUME TypeOK, Finite, NEW s \in Spaces, NEW p \in Pages, NEW mode \in Modes,
         NEW cacheable \in BOOLEAN, Fetch(s, p, mode, cacheable)
  PROVE  TypeOK' /\ Finite'
<1>1. PICK frame \in Frames :
        /\ translate(s, p, mode, "InstructionFetch", FALSE, FALSE, frame)
        /\ IF cacheable
           THEN insert_instruction_cache(
                  [space |-> s, page |-> p, mode |-> mode, instruction |-> memory[frame]])
           ELSE UNCHANGED icache
  BY DEF Fetch
<1>2. /\ pte' \in [Slots -> Ptes] /\ tlb' \subseteq TlbEntries
      /\ IsFiniteSet(tlb') /\ Cardinality(tlb') <= TlbSize
  BY <1>1, TranslateFacts DEF Accesses
<1>3. UNCHANGED <<memory, unfenced, unsynced>>  BY DEF Fetch
<1>4. /\ icache' \subseteq CacheEntries /\ IsFiniteSet(icache')
      /\ Cardinality(icache') <= CacheSize
  <2>1. [space |-> s, page |-> p, mode |-> mode, instruction |-> memory[frame]] \in CacheEntries
    BY DEF TypeOK, CacheEntries
  <2>. QED  BY <1>1, <2>1, CacheInsert DEF TypeOK, Finite
<1>. QED  BY <1>2, <1>3, <1>4 DEF TypeOK, Finite

LEMMA TypeLoad ==
  ASSUME TypeOK, Finite, NEW s \in Spaces, NEW p \in Pages, NEW mode \in Modes,
         NEW sum \in BOOLEAN, NEW mxr \in BOOLEAN, Load(s, p, mode, sum, mxr)
  PROVE  TypeOK' /\ Finite'
<1>1. PICK frame \in Frames : translate(s, p, mode, "Load", sum, mxr, frame)  BY DEF Load
<1>2. /\ pte' \in [Slots -> Ptes] /\ tlb' \subseteq TlbEntries
      /\ IsFiniteSet(tlb') /\ Cardinality(tlb') <= TlbSize
  BY <1>1, TranslateFacts DEF Accesses
<1>. QED  BY <1>2 DEF TypeOK, Finite, Load

LEMMA TypeStore ==
  ASSUME TypeOK, Finite, NEW s \in Spaces, NEW p \in Pages, NEW mode \in Modes,
         NEW sum \in BOOLEAN, NEW mxr \in BOOLEAN, NEW i \in Instructions,
         Store(s, p, mode, sum, mxr, i)
  PROVE  TypeOK' /\ Finite'
<1>1. PICK frame \in Frames :
        /\ translate(s, p, mode, "Store", sum, mxr, frame)
        /\ memory' = [memory EXCEPT ![frame] = i]
        /\ unsynced' = unsynced \cup {f \in {frame} : memory[f] # i}
  BY DEF Store
<1>2. /\ pte' \in [Slots -> Ptes] /\ tlb' \subseteq TlbEntries
      /\ IsFiniteSet(tlb') /\ Cardinality(tlb') <= TlbSize
  BY <1>1, TranslateFacts DEF Accesses
<1>. QED  BY <1>1, <1>2 DEF TypeOK, Finite, Store

LEMMA GuestPteTypes ==
  ASSUME NEW slot \in Slots, NEW e \in GuestPtes[slot.level]
  PROVE  e \in Ptes /\ slot.level \in Levels /\ slot.space \in Spaces
<1>1. slot.level \in Levels /\ slot.space \in Spaces  BY DEF Slots
<1>2. GuestPtes[slot.level] \in SUBSET Ptes  BY <1>1, TranslationAssumption
<1>. QED  BY <1>1, <1>2

LEMMA TypeWritePte ==
  ASSUME TypeOK, Finite, NEW slot \in Slots, NEW e \in GuestPtes[slot.level],
         WritePte(slot, e)
  PROVE  TypeOK' /\ Finite'
<1> DEFINE t == "table" \in {pte[slot].kind, e.kind}
           g == IsGlobal(e) \/ \E x \in Through(slot) : IsGlobal(pte[x])
<1>1. /\ pte' = [pte EXCEPT ![slot] = e]
      /\ unfenced' = unfenced \cup {[slot |-> slot, table |-> t, global |-> g]}
      /\ UNCHANGED <<memory, tlb, icache, unsynced>>
  BY DEF WritePte
<1>2. t \in BOOLEAN /\ g \in BOOLEAN  BY DEF IsGlobal
<1> HIDE DEF t, g
<1>3. pte' \in [Slots -> Ptes]  BY <1>1, GuestPteTypes DEF TypeOK
<1>4. unfenced' \subseteq [slot : Slots, table : BOOLEAN, global : BOOLEAN]
  BY <1>1, <1>2 DEF TypeOK
<1>. QED  BY <1>1, <1>3, <1>4 DEF TypeOK, Finite

LEMMA TypeFence ==
  ASSUME TypeOK, Finite, NEW va, NEW asid, sfence_vma(va, asid)
  PROVE  TypeOK' /\ Finite'
<1>1. tlb' \subseteq tlb /\ icache' \subseteq icache  BY DEF sfence_vma
<1>2. /\ IsFiniteSet(tlb') /\ Cardinality(tlb') <= Cardinality(tlb) /\ Cardinality(tlb) \in Nat
      /\ Cardinality(tlb') \in Nat
  BY <1>1, FS_Subset, FS_CardinalityType DEF Finite
<1>3. /\ IsFiniteSet(icache') /\ Cardinality(icache') <= Cardinality(icache)
      /\ Cardinality(icache) \in Nat /\ Cardinality(icache') \in Nat
  BY <1>1, FS_Subset, FS_CardinalityType DEF Finite
<1>. QED  BY <1>1, <1>2, <1>3, TranslationAssumption DEF TypeOK, Finite, sfence_vma

LEMMA TypeInductive == TypeOK /\ Finite /\ [Next]_vars => TypeOK' /\ Finite'
<1> SUFFICES ASSUME TypeOK, Finite, [Next]_vars PROVE TypeOK' /\ Finite'  OBVIOUS
<1>1. CASE \E s \in Spaces, p \in Pages, mode \in Modes, cacheable \in BOOLEAN :
             Fetch(s, p, mode, cacheable)
  BY <1>1, TypeFetch
<1>2. CASE \E s \in Spaces, p \in Pages, mode \in Modes, sum, mxr \in BOOLEAN :
             Load(s, p, mode, sum, mxr)
  BY <1>2, TypeLoad
<1>3. CASE \E s \in Spaces, p \in Pages, mode \in Modes, sum, mxr \in BOOLEAN,
             i \in Instructions : Store(s, p, mode, sum, mxr, i)
  BY <1>3, TypeStore
<1>4. CASE \E slot \in Slots : \E e \in GuestPtes[slot.level] : WritePte(slot, e)
  BY <1>4, TypeWritePte
<1>5. CASE \E va \in Pages \cup {None}, asid \in Asids \cup {None} : sfence_vma(va, asid)
  BY <1>5, TypeFence
<1>6. CASE FenceI  BY <1>6, NothingCached DEF FenceI, TypeOK, Finite
<1>7. CASE ClearCaches  BY <1>7, NothingCached DEF ClearCaches, TypeOK, Finite
<1>8. CASE UNCHANGED vars  BY <1>8 DEF vars, TypeOK, Finite
<1>. QED  BY <1>1, <1>2, <1>3, <1>4, <1>5, <1>6, <1>7, <1>8 DEF Next

\* The page tables hold PTEs, memory instructions, and neither cache outgrows
\* its size: Sv39Tlb::insert and insert_instruction_cache evict when full.
THEOREM TypeCorrect == Spec => []TypeOK
<1>1. Spec => [](TypeOK /\ Finite)
  BY TypeInit, TypeInductive, PTL DEF Spec
<1>. QED  BY <1>1, PTL

-----------------------------------------------------------------------------
(* The TLB against the page tables. *)

\* An access: the tables age, the TLB may gain an entry that is right.
LEMMA BackedByAccess ==
  ASSUME TypeOK, TlbBacked, AllAged, UNCHANGED unfenced,
         \A e \in tlb' : e \in tlb \/ Right(e)'
  PROVE  TlbBacked'
<1> SUFFICES ASSUME NEW e \in tlb', NEW p \in Pages, e.block = Block(p, e.level)
             PROVE  Matches(e, p)' \/ Owed(e.space, p, e.level, e.leaf.global)'
  BY DEF TlbBacked
<1>1. CASE Right(e)'  BY <1>1 DEF Right
<1>2. CASE e \in tlb
  <2>1. e \in TlbEntries  BY <1>2 DEF TypeOK
  <2>2. CASE Matches(e, p)  BY <2>1, <2>2, MatchesKept
  <2>3. CASE Owed(e.space, p, e.level, e.leaf.global)  BY <2>3 DEF Owed
  <2>. QED  BY <1>2, <2>2, <2>3 DEF TlbBacked
<1>. QED  BY <1>1, <1>2

\* A PTE write that takes away the walk of a page leaves a fence due for it.
LEMMA WriteOwes ==
  ASSUME TypeOK, NEW slot \in Slots, NEW new \in GuestPtes[slot.level], WritePte(slot, new),
         NEW t \in Spaces, NEW p \in Pages, NEW l \in Levels, NEW g \in BOOLEAN,
         PathTo(t, p, l), g => GlobalPath(t, p, l)
  PROVE  \/ Owed(t, p, l, g)'
         \/ \A k \in Levels : k >= l => pte'[Slot(t, p, k)] = pte[Slot(t, p, k)]
<1> SUFFICES ASSUME NEW k \in Levels, k >= l, pte'[Slot(t, p, k)] # pte[Slot(t, p, k)]
             PROVE  Owed(t, p, l, g)'
  OBVIOUS
<1>1. Slot(t, p, k) \in Slots /\ pte' = [pte EXCEPT ![slot] = new] /\ pte \in [Slots -> Ptes]
  BY SlotType DEF WritePte, TypeOK
<1>2. slot = Slot(t, p, k)  BY <1>1
<1>3. slot.space = t /\ slot.block = Block(p, k) /\ slot.level = k  BY <1>2 DEF Slot
<1> DEFINE tab == "table" \in {pte[slot].kind, new.kind}
           glob == IsGlobal(new) \/ \E x \in Through(slot) : IsGlobal(pte[x])
           u == [slot |-> slot, table |-> tab, global |-> glob]
<1>4. u \in unfenced'  BY DEF WritePte
<1>5. tab \/ k = l
  <2>1. CASE k > l  BY <1>2, <2>1 DEF PathTo
  <2>2. k \in Nat /\ l \in Nat  BY DEF Levels
  <2>. QED  BY <2>1, <2>2
<1>6. g => glob
  <2> SUFFICES ASSUME g PROVE glob  OBVIOUS
  <2>1. PICK m \in Levels : IsGlobal(pte[Slot(t, p, m)])  BY DEF GlobalPath
  <2>2. Slot(t, p, m) \in Through(slot)  BY <1>3 DEF Through
  <2>. QED  BY <2>1, <2>2
<1>7. u.slot = slot /\ u.table = tab /\ u.global = glob  OBVIOUS
<1> HIDE DEF u, tab, glob
<1>. QED  BY <1>3, <1>4, <1>5, <1>6, <1>7 DEF Owed

LEMMA OwedGrows ==
  ASSUME unfenced \subseteq unfenced', NEW t, NEW p, NEW l, NEW g, Owed(t, p, l, g)
  PROVE  Owed(t, p, l, g)'
  BY DEF Owed

\* A walk reads the same PTEs, so it finds the same.
LEMMA SamePath ==
  ASSUME NEW t \in Spaces, NEW p \in Pages, NEW l \in Levels,
         \A k \in Levels : k >= l => pte'[Slot(t, p, k)] = pte[Slot(t, p, k)]
  PROVE  /\ PathTo(t, p, l) => PathTo(t, p, l)'
         /\ GlobalPath(t, p, l) => GlobalPath(t, p, l)'
         /\ pte'[Slot(t, p, l)] = pte[Slot(t, p, l)]
<1>1. l \in Int /\ l >= l /\ \A k \in Levels : k > l => k >= l  BY DEF Levels
<1>2. pte'[Slot(t, p, l)] = pte[Slot(t, p, l)]  BY <1>1
<1>3. PathTo(t, p, l) => PathTo(t, p, l)'  BY <1>1, <1>2 DEF PathTo
<1>4. GlobalPath(t, p, l) => GlobalPath(t, p, l)'  BY DEF GlobalPath
<1>. QED  BY <1>2, <1>3, <1>4

LEMMA BackedByWritePte ==
  ASSUME TypeOK, TlbBacked, NEW slot \in Slots, NEW new \in GuestPtes[slot.level],
         WritePte(slot, new)
  PROVE  TlbBacked'
<1> SUFFICES ASSUME NEW e \in tlb, NEW p \in Pages, e.block = Block(p, e.level)
             PROVE  Matches(e, p)' \/ Owed(e.space, p, e.level, e.leaf.global)'
  BY DEF TlbBacked, WritePte
<1>1. e.space \in Spaces /\ e.level \in Levels /\ e.leaf.global \in BOOLEAN
  <2>1. e \in TlbEntries  BY DEF TypeOK
  <2>2. e.leaf \in Ptes /\ e.leaf.kind = "leaf"  BY <2>1 DEF TlbEntries
  <2>. QED  BY <2>1, <2>2, PteFacts DEF TlbEntries, IsLeaf
<1>2. CASE Owed(e.space, p, e.level, e.leaf.global)
  BY <1>2, OwedGrows DEF WritePte
<1>3. CASE Matches(e, p)
  <2>1. CASE \A k \in Levels : k >= e.level => pte'[Slot(e.space, p, k)] = pte[Slot(e.space, p, k)]
    BY <1>1, <1>3, <2>1, SamePath DEF Matches
  <2>2. PathTo(e.space, p, e.level) /\ (e.leaf.global => GlobalPath(e.space, p, e.level))
    BY <1>3 DEF Matches
  <2>. QED  BY <1>1, <2>1, <2>2, WriteOwes
<1>. QED  BY <1>2, <1>3 DEF TlbBacked

\* The fence that orders a change removes the entries that the change makes wrong.
LEMMA BackedByFence ==
  ASSUME TypeOK, TlbBacked, NEW va, NEW asid, sfence_vma(va, asid)
  PROVE  TlbBacked'
<1> SUFFICES ASSUME NEW e \in tlb, e \notin TlbFenced(va, asid), NEW p \in Pages,
                    e.block = Block(p, e.level)
             PROVE  Matches(e, p)' \/ Owed(e.space, p, e.level, e.leaf.global)'
  BY DEF TlbBacked, sfence_vma
<1>1. pte' = pte /\ unfenced' = unfenced \ Ordered(va, asid)  BY DEF sfence_vma
<1>2. CASE Matches(e, p)
  BY <1>1, <1>2 DEF Matches, PathTo, GlobalPath
<1>3. CASE Owed(e.space, p, e.level, e.leaf.global)
  <2>1. PICK u \in unfenced : /\ u.slot.space = e.space
                              /\ u.slot.block = Block(p, u.slot.level)
                              /\ u.table \/ u.slot.level = e.level
                              /\ e.leaf.global => u.global
    BY <1>3 DEF Owed
  <2>2. u \notin Ordered(va, asid)  BY <2>1 DEF Ordered, TlbFenced
  <2>. QED  BY <1>1, <2>1, <2>2 DEF Owed
<1>. QED  BY <1>2, <1>3 DEF TlbBacked

LEMMA TlbInductive == TypeOK /\ Finite /\ TlbBacked /\ [Next]_vars => TlbBacked'
<1> SUFFICES ASSUME TypeOK, Finite, TlbBacked, [Next]_vars PROVE TlbBacked'  OBVIOUS
<1>1. ASSUME NEW s \in Spaces, NEW p \in Pages, NEW mode \in Modes, NEW access \in Accesses,
             NEW sum \in BOOLEAN, NEW mxr \in BOOLEAN, NEW frame,
             translate(s, p, mode, access, sum, mxr, frame), UNCHANGED unfenced
      PROVE  TlbBacked'
  <2>1. AllAged /\ \A e \in tlb' : e \in tlb \/ Right(e)'  BY <1>1, TranslateFacts
  <2>. QED  BY <1>1, <2>1, BackedByAccess
<1>2. ASSUME NEW s \in Spaces, NEW p \in Pages, NEW mode \in Modes, NEW cacheable \in BOOLEAN,
             Fetch(s, p, mode, cacheable)
      PROVE  TlbBacked'
  BY <1>1, <1>2 DEF Fetch, Accesses
<1>3. ASSUME NEW s \in Spaces, NEW p \in Pages, NEW mode \in Modes, NEW sum \in BOOLEAN,
             NEW mxr \in BOOLEAN, Load(s, p, mode, sum, mxr)
      PROVE  TlbBacked'
  BY <1>1, <1>3 DEF Load, Accesses
<1>4. ASSUME NEW s \in Spaces, NEW p \in Pages, NEW mode \in Modes, NEW sum \in BOOLEAN,
             NEW mxr \in BOOLEAN, NEW i \in Instructions, Store(s, p, mode, sum, mxr, i)
      PROVE  TlbBacked'
  BY <1>1, <1>4 DEF Store, Accesses
<1>5. CASE \E slot \in Slots : \E e \in GuestPtes[slot.level] : WritePte(slot, e)
  BY <1>5, BackedByWritePte
<1>6. CASE \E va \in Pages \cup {None}, asid \in Asids \cup {None} : sfence_vma(va, asid)
  BY <1>6, BackedByFence
<1>7. CASE FenceI \/ UNCHANGED vars
  BY <1>7 DEF FenceI, vars, TlbBacked, Matches, PathTo, GlobalPath, Owed
<1>8. CASE ClearCaches  BY <1>8 DEF ClearCaches, TlbBacked
<1>. QED  BY <1>2, <1>3, <1>4, <1>5, <1>6, <1>7, <1>8 DEF Next

\* Where the guest has fenced its changes, the walk in another address space
\* finds what the walk in the space of a global mapping finds.
LEMMA SettledAgrees ==
  ASSUME NEW s \in Spaces, NEW t \in Spaces, NEW p \in Pages, NEW l \in Levels,
         Settled(s, p), t # s => GlobalPath(t, p, l)
  PROVE  \A k \in Levels : pte[Slot(t, p, k)] = pte[Slot(s, p, k)]
<1>1. CASE t = s  BY <1>1
<1>2. CASE t # s
  <2>1. PICK m \in Levels : IsGlobal(pte[Slot(t, p, m)])  BY <1>2 DEF GlobalPath
  <2>. QED  BY <2>1 DEF Settled, GlobalAgrees
<1>. QED  BY <1>1, <1>2

LEMMA SettledOwesNothing ==
  ASSUME NEW s, NEW t, NEW p, NEW l, NEW g, Settled(s, p), t # s => g
  PROVE  ~Owed(t, p, l, g)
  BY DEF Settled, Fenced, Owed

LEMMA BackedIsTransparent == TypeOK /\ TlbBacked => TlbTransparent
<1> SUFFICES ASSUME TypeOK, TlbBacked,
                    NEW s \in Spaces, NEW p \in Pages, NEW mode \in Modes \ {Machine},
                    NEW access \in Accesses, NEW sum \in BOOLEAN, NEW mxr \in BOOLEAN,
                    Settled(s, p), NEW e \in Hits(s, p, mode, access, sum, mxr)
             PROVE  \E l \in WalkLeaves(s, p, mode, access, sum, mxr) :
                      LET leaf == pte[Slot(s, p, l)]
                      IN  /\ FrameOf(leaf.frame, p, l) = FrameOf(e.leaf.frame, p, e.level)
                          /\ Updated(leaf, access) = leaf
  BY DEF TlbTransparent
<1> DEFINE l == e.level
           leaf == pte[Slot(s, p, l)]
<1>1. /\ e \in tlb /\ e.block = Block(p, l) /\ (e.leaf.global \/ e.space = s)
      /\ privilege_allows(e.leaf.perm, mode, access, sum, mxr)
      /\ access = "Store" => e.leaf.dirty
  BY DEF Hits
<1>2. e.space \in Spaces /\ l \in Levels  BY <1>1 DEF TypeOK, TlbEntries
<1>3. Matches(e, p)  BY <1>1, SettledOwesNothing DEF TlbBacked
<1>4. \A k \in Levels : pte[Slot(e.space, p, k)] = pte[Slot(s, p, k)]
  <2>1. e.space # s => GlobalPath(e.space, p, l)  BY <1>1, <1>3 DEF Matches
  <2> HIDE DEF l
  <2>. QED  BY <1>2, <2>1, SettledAgrees
<1>5. pte[Slot(e.space, p, l)] = leaf  BY <1>2, <1>4
<1>6. PathTo(s, p, l)  BY <1>2, <1>3, <1>4 DEF Matches, PathTo
<1>7. /\ Sound(leaf, l) /\ leaf.frame = e.leaf.frame /\ leaf.perm = e.leaf.perm
      /\ e.leaf.dirty => leaf.dirty
  BY <1>3, <1>5 DEF Matches
<1>8. leaf \in Ptes /\ leaf.kind = "leaf"  BY <1>2, <1>6, SlotType DEF TypeOK, PathTo
<1>9. IsLeaf(leaf)  BY <1>8, PteFacts
<1> HIDE DEF l
<1>10. l \in WalkLeaves(s, p, mode, access, sum, mxr)
  BY <1>1, <1>2, <1>6, <1>7, <1>8 DEF WalkLeaves, WalkEnds, PathTo, Sound
<1>11. Updated(leaf, access) = leaf
  <2> HIDE DEF leaf
  <2>1. leaf.accessed = TRUE  BY <1>7, <1>9 DEF Sound, IsLeaf
  <2>2. (leaf.dirty \/ access = "Store") = leaf.dirty  BY <1>1, <1>7, <1>9 DEF IsLeaf
  <2>. QED  BY <1>9, <2>1, <2>2 DEF Updated, IsLeaf
<1>. QED  BY <1>7, <1>10, <1>11 DEF l

\* For every shape of the page tables and every TLB size: where the guest has
\* fenced its PTE changes, a hit in Sv39Tlb::translate gives the frame that the
\* walk of Reference mode gives, with no accessed or dirty bit left to set.
THEOREM TlbIsTransparent == Spec => []TlbTransparent
<1>1. Init => TlbBacked  BY DEF Init, TlbBacked
<1>2. Spec => [](TypeOK /\ Finite /\ TlbBacked)
  BY <1>1, TypeInit, TypeInductive, TlbInductive, PTL DEF Spec
<1>. QED  BY <1>2, BackedIsTransparent, PTL

-----------------------------------------------------------------------------
(* The instruction cache against the page tables and memory. *)

\* The guest maps 4 KiB pages only.
SmallLeaves == \A l \in Levels \ {0} : \A e \in GuestPtes[l] : e.kind # "leaf"

\* Then no superpage is in the tables or in the TLB.
NoSuperpage ==
  /\ \A x \in Slots : pte[x].kind = "leaf" => x.level = 0
  /\ \A e \in tlb : e.level = 0

LEMMA NoSuperpageByAccess ==
  ASSUME TypeOK, NoSuperpage, AllAged, pte' \in [Slots -> Ptes], tlb' \subseteq TlbEntries,
         \A e \in tlb' : e \in tlb \/ Right(e)'
  PROVE  NoSuperpage'
<1>1. \A x \in Slots : pte'[x].kind = "leaf" => x.level = 0
  BY DEF NoSuperpage, AllAged, Aged
<1>2. ASSUME NEW e \in tlb' PROVE e.level = 0
  <2>1. CASE e \in tlb  BY <2>1 DEF NoSuperpage
  <2>2. CASE Right(e)'
    <3>1. e.space \in Spaces /\ e.level \in Levels /\ \E p \in Pages : e.block = Block(p, e.level)
      BY DEF TlbEntries
    <3>2. PICK p \in Pages : e.block = Block(p, e.level)  BY <3>1
    <3>3. pte'[Slot(e.space, p, e.level)].kind = "leaf"
      BY <2>2, <3>2 DEF Right, Matches, PathTo
    <3>4. Slot(e.space, p, e.level).level = 0  BY <1>1, <3>1, <3>3, SlotType
    <3>. QED  BY <3>4 DEF Slot
  <2>. QED  BY <2>1, <2>2
<1>. QED  BY <1>1, <1>2 DEF NoSuperpage

LEMMA NoSuperpageByWrite ==
  ASSUME SmallLeaves, TypeOK, NoSuperpage, NEW slot \in Slots,
         NEW new \in GuestPtes[slot.level], WritePte(slot, new)
  PROVE  NoSuperpage'
<1>1. slot.level \in Levels  BY GuestPteTypes
<1>2. new.kind = "leaf" => slot.level = 0  BY <1>1 DEF SmallLeaves
<1>. QED  BY <1>2 DEF NoSuperpage, WritePte, TypeOK

\* What a frame held when it was cached, it holds until unsynced says otherwise.
FramesKept ==
  \A f \in Frames : f \notin unsynced' => f \notin unsynced /\ memory'[f] = memory[f]

LEMMA ZeroLevel == 0 \in Levels  BY TranslationAssumption DEF Levels

LEMMA CacheRightKept ==
  ASSUME TypeOK, AllAged, FramesKept, UNCHANGED unfenced, NEW c \in CacheEntries, CacheRight(c)
  PROVE  CacheRight(c)'
<1>1. c.space \in Spaces /\ c.page \in Pages  BY DEF CacheEntries
<1>2. CASE c.mode = Machine  BY <1>2 DEF CacheRight, FramesKept
<1>3. CASE c.mode # Machine
  <2>1. PICK t \in Spaces : CacheMatches(c, t) \/ Owed(t, c.page, 0, t # c.space)
    BY <1>3 DEF CacheRight
  <2>2. CASE Owed(t, c.page, 0, t # c.space)  BY <1>3, <2>2 DEF CacheRight, Owed
  <2>3. CASE CacheMatches(c, t)
    <3> DEFINE slot == Slot(t, c.page, 0)
    <3>1. PathTo(t, c.page, 0) /\ Sound(pte[slot], 0)  BY <2>3 DEF CacheMatches
    <3>2. slot \in Slots  BY <1>1, ZeroLevel, SlotType
    <3>3. pte[slot] \in Ptes /\ pte[slot].kind = "leaf"  BY <3>1, <3>2 DEF TypeOK, PathTo
    <3>4. /\ PathTo(t, c.page, 0)'
          /\ GlobalPath(t, c.page, 0) => GlobalPath(t, c.page, 0)'
          /\ Sound(pte'[slot], 0) /\ Aged(pte[slot], pte'[slot])
      BY <1>1, <3>1, ZeroLevel, PathKept
    <3>5. pte'[slot].frame = pte[slot].frame /\ pte'[slot].perm = pte[slot].perm
      BY <3>3, <3>4 DEF Aged
    <3>6. pte[slot].frame \in Frames  BY <3>3, PteFacts DEF IsLeaf
    <3>7. FrameOf(pte[slot].frame, c.page, 0) \in Frames  BY <1>1, <3>6, FrameLowest
    <3>8. CacheMatches(c, t)'
      BY <2>3, <3>4, <3>5, <3>7 DEF CacheMatches, FramesKept
    <3>. QED  BY <1>3, <3>8 DEF CacheRight
  <2>. QED  BY <2>1, <2>2, <2>3
<1>. QED  BY <1>2, <1>3

\* What a fetch caches is right, by the TLB entry that served it.
LEMMA FetchedRight ==
  ASSUME TypeOK, TypeOK', TlbBacked', NoSuperpage', NEW s \in Spaces, NEW p \in Pages,
         NEW mode \in Modes, NEW frame \in Frames, UNCHANGED memory,
         mode = Machine => frame = p,
         mode # Machine =>
           \E e \in tlb' : Serves(e, s, p, mode, "InstructionFetch", FALSE, FALSE, frame),
         NEW c, c = [space |-> s, page |-> p, mode |-> mode, instruction |-> memory[frame]]
  PROVE  CacheRight(c)'
<1>1. c.space = s /\ c.page = p /\ c.mode = mode /\ c.instruction = memory'[frame]  OBVIOUS
<1>2. CASE mode = Machine  BY <1>1, <1>2 DEF CacheRight
<1>3. CASE mode # Machine
  <2>1. PICK e \in tlb' : Serves(e, s, p, mode, "InstructionFetch", FALSE, FALSE, frame)
    BY <1>3
  <2>2. e.level = 0 /\ e.space \in Spaces  BY DEF NoSuperpage, TypeOK, TlbEntries
  <2>3. /\ e.block = Block(p, 0) /\ (e.leaf.global \/ e.space = s)
        /\ privilege_allows(e.leaf.perm, mode, "InstructionFetch", FALSE, FALSE)
        /\ frame = FrameOf(e.leaf.frame, p, 0)
    BY <2>1, <2>2 DEF Serves
  <2>4. CASE Matches(e, p)'
    <3>1. CacheMatches(c, e.space)'
      BY <1>1, <2>2, <2>3, <2>4 DEF CacheMatches, Matches
    <3>. QED  BY <1>1, <1>3, <2>2, <3>1 DEF CacheRight
  <2>5. CASE Owed(e.space, p, 0, e.leaf.global)'
    <3>1. Owed(e.space, p, 0, e.space # s)'  BY <2>3, <2>5 DEF Owed
    <3>. QED  BY <1>1, <1>3, <2>2, <3>1 DEF CacheRight
  <2>. QED  BY <2>2, <2>3, <2>4, <2>5 DEF TlbBacked
<1>. QED  BY <1>2, <1>3

LEMMA CacheByWritePte ==
  ASSUME TypeOK, CacheBacked, NEW slot \in Slots, NEW new \in GuestPtes[slot.level],
         WritePte(slot, new)
  PROVE  CacheBacked'
<1> SUFFICES ASSUME NEW c \in icache PROVE CacheRight(c)'  BY DEF CacheBacked, WritePte
<1>1. c.space \in Spaces /\ c.page \in Pages  BY DEF TypeOK, CacheEntries
<1>2. CacheRight(c) /\ UNCHANGED <<memory, unsynced>> /\ unfenced \subseteq unfenced'
  BY DEF CacheBacked, WritePte
<1>3. CASE c.mode = Machine  BY <1>2, <1>3 DEF CacheRight
<1>4. CASE c.mode # Machine
  <2>1. PICK t \in Spaces : CacheMatches(c, t) \/ Owed(t, c.page, 0, t # c.space)
    BY <1>2, <1>4 DEF CacheRight
  <2>2. CASE Owed(t, c.page, 0, t # c.space)
    <3>1. Owed(t, c.page, 0, t # c.space)'  BY <1>2, <2>2 DEF Owed
    <3>. QED  BY <1>4, <3>1 DEF CacheRight
  <2>3. CASE CacheMatches(c, t)
    <3> DEFINE g == t # c.space
    <3>1. PathTo(t, c.page, 0) /\ (g => GlobalPath(t, c.page, 0)) /\ g \in BOOLEAN
      BY <2>3 DEF CacheMatches
    <3>2. CASE Owed(t, c.page, 0, g)'  BY <1>4, <3>2 DEF CacheRight
    <3>3. CASE \A k \in Levels : k >= 0 => pte'[Slot(t, c.page, k)] = pte[Slot(t, c.page, k)]
      <4>1. /\ PathTo(t, c.page, 0) => PathTo(t, c.page, 0)'
            /\ GlobalPath(t, c.page, 0) => GlobalPath(t, c.page, 0)'
            /\ pte'[Slot(t, c.page, 0)] = pte[Slot(t, c.page, 0)]
        BY <1>1, <3>3, ZeroLevel, SamePath
      <4>2. CacheMatches(c, t)'  BY <1>2, <2>3, <4>1 DEF CacheMatches
      <4>. QED  BY <1>4, <4>2 DEF CacheRight
    <3> HIDE DEF g
    <3>. QED  BY <1>1, <3>1, <3>2, <3>3, ZeroLevel, WriteOwes
  <2>. QED  BY <2>1, <2>2, <2>3
<1>. QED  BY <1>3, <1>4

\* The fence that orders a change to a leaf of a 4 KiB page, or to a table,
\* removes the cached instructions of the page.
LEMMA CacheByFence ==
  ASSUME TypeOK, CacheBacked, NEW va \in Pages \cup {None}, NEW asid, sfence_vma(va, asid)
  PROVE  CacheBacked'
<1> SUFFICES ASSUME NEW c \in icache, c \notin CacheFenced(va, asid) PROVE CacheRight(c)'
  BY DEF CacheBacked, sfence_vma
<1>1. c.space \in Spaces /\ c.page \in Pages  BY DEF TypeOK, CacheEntries
<1>2. /\ CacheRight(c) /\ UNCHANGED <<pte, memory, unsynced>>
      /\ unfenced' = unfenced \ Ordered(va, asid)
  BY DEF CacheBacked, sfence_vma
<1>3. CASE c.mode = Machine  BY <1>2, <1>3 DEF CacheRight
<1>4. CASE c.mode # Machine
  <2>1. PICK t \in Spaces : CacheMatches(c, t) \/ Owed(t, c.page, 0, t # c.space)
    BY <1>2, <1>4 DEF CacheRight
  <2>2. CASE CacheMatches(c, t)
    <3>1. CacheMatches(c, t)'  BY <1>2, <2>2 DEF CacheMatches, PathTo, GlobalPath
    <3>. QED  BY <1>4, <3>1 DEF CacheRight
  <2>3. CASE Owed(t, c.page, 0, t # c.space)
    <3>1. PICK u \in unfenced : /\ u.slot.space = t
                                /\ u.slot.block = Block(c.page, u.slot.level)
                                /\ u.table \/ u.slot.level = 0
                                /\ t # c.space => u.global
      BY <2>3 DEF Owed
    <3>2. u \notin Ordered(va, asid)
      <4> SUFFICES ASSUME u \in Ordered(va, asid) PROVE FALSE  OBVIOUS
      <4>1. asid # None => AsidOf[c.space] = asid  BY <3>1 DEF Ordered
      <4>2. va # None => c.page = va
        <5> SUFFICES ASSUME va # None PROVE c.page = va  OBVIOUS
        <5>1. u.slot.level = 0 /\ Block(va, 0) = Block(c.page, 0)  BY <3>1 DEF Ordered
        <5>. QED  BY <1>1, <5>1, LowestBlock
      <4>. QED  BY <4>1, <4>2 DEF CacheFenced
    <3>3. Owed(t, c.page, 0, t # c.space)'  BY <1>2, <3>1, <3>2 DEF Owed
    <3>. QED  BY <1>4, <3>3 DEF CacheRight
  <2>. QED  BY <2>1, <2>2, <2>3
<1>. QED  BY <1>3, <1>4

\* The inductive invariant behind the instruction cache.
FetchInv == TypeOK /\ Finite /\ TlbBacked /\ NoSuperpage /\ CacheBacked

LEMMA FetchByFetch ==
  ASSUME FetchInv, TypeOK', TlbBacked', NEW s \in Spaces, NEW p \in Pages, NEW mode \in Modes,
         NEW cacheable \in BOOLEAN, Fetch(s, p, mode, cacheable)
  PROVE  NoSuperpage' /\ CacheBacked'
<1> USE DEF FetchInv
<1>1. PICK frame \in Frames :
        /\ translate(s, p, mode, "InstructionFetch", FALSE, FALSE, frame)
        /\ IF cacheable
           THEN insert_instruction_cache(
                  [space |-> s, page |-> p, mode |-> mode, instruction |-> memory[frame]])
           ELSE UNCHANGED icache
  BY DEF Fetch
<1>2. UNCHANGED <<memory, unfenced, unsynced>>  BY DEF Fetch
<1>3. /\ pte' \in [Slots -> Ptes] /\ AllAged /\ tlb' \subseteq TlbEntries
      /\ \A e \in tlb' : e \in tlb \/ Right(e)'
      /\ mode = Machine => frame = p
      /\ mode # Machine =>
           \E e \in tlb' : Serves(e, s, p, mode, "InstructionFetch", FALSE, FALSE, frame)
  <2>1. TypeOK /\ Finite /\ "InstructionFetch" \in Accesses /\ FALSE \in BOOLEAN
    BY DEF Accesses
  <2> HIDE DEF FetchInv
  <2>2. \A a \in Accesses, sum, mxr \in BOOLEAN :
          translate(s, p, mode, a, sum, mxr, frame) =>
            /\ pte' \in [Slots -> Ptes] /\ AllAged /\ tlb' \subseteq TlbEntries
            /\ \A e \in tlb' : e \in tlb \/ Right(e)'
            /\ mode = Machine => frame = p
            /\ mode # Machine => \E e \in tlb' : Serves(e, s, p, mode, a, sum, mxr, frame)
    BY <2>1, TranslateFacts
  <2>. QED  BY <1>1, <2>1, <2>2, Zenon
<1>4. NoSuperpage'  BY <1>3, NoSuperpageByAccess
<1> DEFINE c == [space |-> s, page |-> p, mode |-> mode, instruction |-> memory[frame]]
<1>5. icache' \subseteq icache \cup {c}
  <2>1. c \in CacheEntries  BY DEF TypeOK, CacheEntries
  <2>. QED  BY <1>1, <2>1, CacheInsert DEF TypeOK, Finite
<1>6. FramesKept  BY <1>2 DEF FramesKept
<1>7. ASSUME NEW x \in icache' PROVE CacheRight(x)'
  <2>1. CASE x \in icache
    <3>1. x \in CacheEntries /\ CacheRight(x)  BY <2>1 DEF CacheBacked, TypeOK
    <3>. QED  BY <1>2, <1>3, <1>6, <3>1, CacheRightKept
  <2>2. CASE x = c  BY <1>2, <1>3, <1>4, <2>2, FetchedRight
  <2>. QED  BY <1>5, <2>1, <2>2
<1>. QED  BY <1>4, <1>7 DEF CacheBacked

\* A load or a store leaves the instruction cache alone.
LEMMA FetchByData ==
  ASSUME FetchInv, NEW s \in Spaces, NEW p \in Pages, NEW mode \in Modes,
         NEW access \in Accesses, NEW sum \in BOOLEAN, NEW mxr \in BOOLEAN, NEW frame,
         translate(s, p, mode, access, sum, mxr, frame),
         UNCHANGED <<icache, unfenced>>, FramesKept
  PROVE  NoSuperpage' /\ CacheBacked'
<1> USE DEF FetchInv
<1>1. /\ pte' \in [Slots -> Ptes] /\ AllAged /\ tlb' \subseteq TlbEntries
      /\ \A e \in tlb' : e \in tlb \/ Right(e)'
  BY TranslateFacts
<1>2. NoSuperpage'  BY <1>1, NoSuperpageByAccess
<1>3. ASSUME NEW x \in icache' PROVE CacheRight(x)'
  <2>1. x \in CacheEntries /\ CacheRight(x)  BY DEF CacheBacked, TypeOK
  <2>. QED  BY <1>1, <2>1, CacheRightKept
<1>. QED  BY <1>2, <1>3 DEF CacheBacked

LEMMA FetchInductive ==
  ASSUME SmallLeaves
  PROVE  FetchInv /\ [Next]_vars => FetchInv'
<1> SUFFICES ASSUME FetchInv, [Next]_vars PROVE NoSuperpage' /\ CacheBacked'
  BY TypeInductive, TlbInductive DEF FetchInv
<1>0. TypeOK' /\ TlbBacked'  BY TypeInductive, TlbInductive DEF FetchInv
<1>1. CASE \E s \in Spaces, p \in Pages, mode \in Modes, cacheable \in BOOLEAN :
             Fetch(s, p, mode, cacheable)
  BY <1>0, <1>1, FetchByFetch
<1>2. ASSUME NEW s \in Spaces, NEW p \in Pages, NEW mode \in Modes, NEW sum \in BOOLEAN,
             NEW mxr \in BOOLEAN, Load(s, p, mode, sum, mxr)
      PROVE  NoSuperpage' /\ CacheBacked'
  <2>1. FramesKept /\ UNCHANGED <<icache, unfenced>>  BY <1>2 DEF Load, FramesKept
  <2>. QED  BY <1>2, <2>1, FetchByData DEF Load, Accesses
<1>3. ASSUME NEW s \in Spaces, NEW p \in Pages, NEW mode \in Modes, NEW sum \in BOOLEAN,
             NEW mxr \in BOOLEAN, NEW i \in Instructions, Store(s, p, mode, sum, mxr, i)
      PROVE  NoSuperpage' /\ CacheBacked'
  <2>1. PICK frame \in Frames :
          /\ translate(s, p, mode, "Store", sum, mxr, frame)
          /\ memory' = [memory EXCEPT ![frame] = i]
          /\ unsynced' = unsynced \cup {f \in {frame} : memory[f] # i}
    BY <1>3 DEF Store
  <2>2. FramesKept  BY <2>1 DEF FramesKept, FetchInv, TypeOK
  <2>. QED  BY <1>3, <2>1, <2>2, FetchByData DEF Store, Accesses
<1>4. CASE \E slot \in Slots : \E e \in GuestPtes[slot.level] : WritePte(slot, e)
  BY <1>4, NoSuperpageByWrite, CacheByWritePte DEF FetchInv
<1>5. CASE \E va \in Pages \cup {None}, asid \in Asids \cup {None} : sfence_vma(va, asid)
  <2>1. NoSuperpage'  BY <1>5 DEF sfence_vma, FetchInv, NoSuperpage
  <2>. QED  BY <1>5, <2>1, CacheByFence DEF FetchInv
<1>6. CASE FenceI  BY <1>6 DEF FenceI, FetchInv, NoSuperpage, CacheBacked
<1>7. CASE ClearCaches  BY <1>7 DEF ClearCaches, FetchInv, NoSuperpage, CacheBacked
<1>8. CASE UNCHANGED vars
  <2>1. NoSuperpage'  BY <1>8 DEF vars, FetchInv, NoSuperpage
  <2>2. AllAged  BY <1>8, AgedSelf DEF vars, AllAged
  <2>3. FramesKept /\ UNCHANGED <<icache, unfenced>>  BY <1>8 DEF vars, FramesKept
  <2>4. ASSUME NEW x \in icache' PROVE CacheRight(x)'
    <3>1. x \in CacheEntries /\ CacheRight(x)  BY <2>3 DEF CacheBacked, TypeOK, FetchInv
    <3>. QED  BY <2>2, <2>3, <3>1, CacheRightKept DEF FetchInv
  <2>. QED  BY <2>1, <2>4 DEF CacheBacked
<1>. QED  BY <1>1, <1>2, <1>3, <1>4, <1>5, <1>6, <1>7, <1>8 DEF Next

LEMMA CacheIsTransparent == FetchInv => FetchTransparent
<1> SUFFICES ASSUME FetchInv, NEW s \in Spaces, NEW p \in Pages, NEW mode \in Modes,
                    Settled(s, p), NEW c \in Cached(s, p, mode)
             PROVE  \E frame \in FetchFrames(s, p, mode) :
                      frame \notin unsynced => c.instruction = memory[frame]
  BY DEF FetchTransparent
<1>1. c \in icache /\ c.space = s /\ c.page = p /\ c.mode = mode /\ CacheRight(c)
  BY DEF Cached, FetchInv, CacheBacked
<1>2. CASE mode = Machine  BY <1>1, <1>2 DEF CacheRight, FetchFrames
<1>3. CASE mode # Machine
  <2>1. PICK t \in Spaces : CacheMatches(c, t) \/ Owed(t, p, 0, t # s)
    BY <1>1, <1>3 DEF CacheRight
  <2>2. CacheMatches(c, t)  BY <2>1, SettledOwesNothing
  <2>3. \A k \in Levels : pte[Slot(t, p, k)] = pte[Slot(s, p, k)]
    BY <1>1, <2>2, ZeroLevel, SettledAgrees DEF CacheMatches
  <2> DEFINE leaf == pte[Slot(s, p, 0)]
             frame == FrameOf(leaf.frame, p, 0)
  <2>4. pte[Slot(t, p, 0)] = leaf  BY <2>3, ZeroLevel
  <2>5. PathTo(s, p, 0)  BY <1>1, <2>2, <2>3, ZeroLevel DEF CacheMatches, PathTo
  <2>6. /\ Sound(leaf, 0) /\ privilege_allows(leaf.perm, mode, "InstructionFetch", FALSE, FALSE)
        /\ frame \notin unsynced => c.instruction = memory[frame]
    BY <1>1, <2>2, <2>4 DEF CacheMatches
  <2>7. 0 \in WalkLeaves(s, p, mode, "InstructionFetch", FALSE, FALSE)
    BY <2>5, <2>6, ZeroLevel DEF WalkLeaves, WalkEnds, PathTo, Sound
  <2>8. frame \in FetchFrames(s, p, mode)
    BY <1>3, <2>6, <2>7 DEF FetchFrames, Sound
  <2>. QED  BY <2>6, <2>8
<1>. QED  BY <1>2, <1>3

\* While the guest maps 4 KiB pages, a hit in the instruction cache executes
\* what Reference mode would fetch, for every size of the caches. With
\* superpages it does not: sfence_instruction_cache advances the epoch of one
\* 4 KiB page of the superpage whose change the fence orders.
THEOREM FetchIsTransparent ==
  ASSUME SmallLeaves
  PROVE  Spec => []FetchTransparent
<1>1. Init => FetchInv
  <2> SUFFICES ASSUME Init PROVE FetchInv  OBVIOUS
  <2>1. TypeOK /\ Finite  BY TypeInit
  <2>2. TlbBacked /\ CacheBacked  BY DEF Init, TlbBacked, CacheBacked
  <2>3. NoSuperpage  BY DEF Init, NoSuperpage, Invalid
  <2>. QED  BY <2>1, <2>2, <2>3 DEF FetchInv
<1>2. FetchInv /\ [Next]_vars => FetchInv'  BY FetchInductive
<1>3. Spec => []FetchInv  BY <1>1, <1>2, PTL DEF Spec
<1>. QED  BY <1>3, CacheIsTransparent, PTL
=============================================================================
