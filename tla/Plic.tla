-------------------------------- MODULE Plic --------------------------------
(***************************************************************************)
(* The platform-level interrupt controller (devices/src/plic.cpp).         *)
(*                                                                         *)
(* Level-sensitive sources are gated one at a time: a rising level pends   *)
(* a source, a claim moves it from pending to in service, a completion     *)
(* opens the gate again and re-pends a source whose level is still high.   *)
(* Every context has an enable set, a threshold and a cached winner,       *)
(* best_pending_cache, which drives its interrupt line.                    *)
(*                                                                         *)
(* Register accesses arrive from the guest through the system bus,         *)
(* set_source_level from the platform before every instruction.            *)
(***************************************************************************)
EXTENDS Integers, FiniteSets

CONSTANTS
  SourceCount,   \* number of interrupt sources, source_count (53)
  ContextCount,  \* number of contexts, context_count (2)
  PriorityLimit, \* priorities and thresholds are kept modulo this (8)
  WordBits,      \* enable and pending bits per register word (32)
  WordValues     \* the values the guest writes to word registers

ASSUME PlicAssumption ==
  /\ SourceCount \in Nat \ {0}
  /\ ContextCount \in Nat \ {0}
  /\ PriorityLimit \in Nat \ {0}
  /\ WordBits \in Nat \ {0}
  /\ WordValues \subseteq Nat

Sources  == 1 .. SourceCount
Contexts == 0 .. (ContextCount - 1)
Priority == 0 .. (PriorityLimit - 1)

VARIABLES
  priorities,          \* per source
  pending,             \* the set of pending sources
  enables,             \* per context, the set of enabled sources
  thresholds,          \* per context
  claimed,             \* per context, the source in service or 0
  source_levels,       \* the set of sources whose level is high
  best_pending_cache,  \* per context, the source a claim would return or 0
  displaced            \* history: sources whose claim was overwritten by a
                       \* later claim of the same context and which have not
                       \* pended since; no code variable

vars == <<priorities, pending, enables, thresholds, claimed, source_levels,
          best_pending_cache, displaced>>

-----------------------------------------------------------------------------
(* The scan for the winner. *)

\* source_pending, source_enabled and the threshold test of the scan
Eligible(c, prio, pend, en, thr) ==
  {s \in pend : s \in en[c] /\ prio[s] > thr[c]}

\* Highest priority first, lowest number among equals.
Beats(s, t, prio) == prio[s] > prio[t] \/ (prio[s] = prio[t] /\ s <= t)

Winner(E, prio) ==
  IF E = {} THEN 0 ELSE CHOOSE s \in E : \A t \in E : Beats(s, t, prio)

compute_best_pending(c, prio, pend, en, thr) ==
  Winner(Eligible(c, prio, pend, en, thr), prio)

refresh_all_pending(prio, pend, en, thr) ==
  [c \in Contexts |-> compute_best_pending(c, prio, pend, en, thr)]

refresh_pending(c, prio, pend, en, thr) ==
  [best_pending_cache EXCEPT ![c] = compute_best_pending(c, prio, pend, en, thr)]

\* Mutant: the pending bit changes, the cached winners do not follow.
SetPendingNoRefresh(pend) ==
  /\ pending' = pend
  /\ UNCHANGED best_pending_cache

\* set_pending: the cached winners follow only when the pending bit changes.
set_pending(pend) ==
  /\ pending' = pend
  /\ best_pending_cache' =
       IF pend = pending THEN best_pending_cache
       ELSE refresh_all_pending(priorities, pend, enables, thresholds)

\* The code's loop over the sources, one step: the running winner against s.
\* Mutant: the last of equals wins.
ScanStepLastWins(best, s, c) ==
  IF /\ s \in Eligible(c, priorities, pending, enables, thresholds)
     /\ best = 0 \/ priorities[s] >= priorities[best]
  THEN s ELSE best

ScanStep(best, s, c) ==
  IF /\ s \in Eligible(c, priorities, pending, enables, thresholds)
     /\ \/ best = 0
        \/ priorities[s] > priorities[best]
        \/ priorities[s] = priorities[best] /\ s < best
  THEN s ELSE best

\* The running winner after the first n sources, and after all of them.
Scan(c) ==
  LET best[n \in Nat] == IF n = 0 THEN 0 ELSE ScanStep(best[n - 1], n, c)
  IN  best[SourceCount]

-----------------------------------------------------------------------------
Init ==
  /\ priorities = [s \in Sources |-> 0]
  /\ pending = {}
  /\ enables = [c \in Contexts |-> {}]
  /\ thresholds = [c \in Contexts |-> 0]
  /\ claimed = [c \in Contexts |-> 0]
  /\ source_levels = {}
  /\ best_pending_cache = [c \in Contexts |-> 0]
  /\ displaced = {}

\* Mutant: the value is stored unmasked.
WritePriorityUnmasked(s, value) ==
  /\ priorities' = [priorities EXCEPT ![s] = value]
  /\ best_pending_cache' =
       refresh_all_pending(priorities', pending, enables, thresholds)
  /\ UNCHANGED <<pending, enables, thresholds, claimed, source_levels, displaced>>

WritePriority(s, value) ==
  /\ priorities' = [priorities EXCEPT ![s] = value % PriorityLimit]
  /\ best_pending_cache' =
       refresh_all_pending(priorities', pending, enables, thresholds)
  /\ UNCHANGED <<pending, enables, thresholds, claimed, source_levels, displaced>>

\* One enable word. Bit 0 of word 0 is forced to zero and the bits above the
\* last source are never looked at: neither names a source.
WriteEnable(c, word, bits) ==
  /\ enables' = [enables EXCEPT ![c] =
                    {s \in Sources : IF s \div WordBits = word THEN s % WordBits \in bits
                                                              ELSE s \in @}]
  /\ best_pending_cache' =
       refresh_pending(c, priorities, pending, enables', thresholds)
  /\ UNCHANGED <<priorities, pending, thresholds, claimed, source_levels, displaced>>

WriteThreshold(c, value) ==
  /\ thresholds' = [thresholds EXCEPT ![c] = value % PriorityLimit]
  /\ best_pending_cache' =
       refresh_pending(c, priorities, pending, enables, thresholds')
  /\ UNCHANGED <<priorities, pending, enables, claimed, source_levels, displaced>>

\* Mutant: the claim leaves the source pending.
ClaimKeepsPending(c) ==
  LET source == best_pending_cache[c]
  IN  IF source = 0 THEN UNCHANGED vars
      ELSE /\ claimed' = [claimed EXCEPT ![c] = source]
           /\ displaced' = (displaced \cup ({claimed[c]} \ {0})) \ {source}
           /\ UNCHANGED <<priorities, pending, enables, thresholds, source_levels,
                          best_pending_cache>>

\* A read of the claim register. A claim over an uncompleted one replaces it.
claim(c) ==
  LET source == best_pending_cache[c]
  IN  IF source = 0 THEN UNCHANGED vars
      ELSE /\ set_pending(pending \ {source})
           /\ claimed' = [claimed EXCEPT ![c] = source]
           /\ displaced' = (displaced \cup ({claimed[c]} \ {0})) \ {source}
           /\ UNCHANGED <<priorities, enables, thresholds, source_levels>>

\* Mutant: a completion does not look at the level.
CompleteForgetsLevel(c, source) ==
  IF source \notin Sources \/ claimed[c] # source THEN UNCHANGED vars
  ELSE /\ claimed' = [claimed EXCEPT ![c] = 0]
       /\ UNCHANGED <<priorities, pending, enables, thresholds, source_levels,
                      best_pending_cache, displaced>>

\* A write of the claim register: ignored unless it names the claimed source.
complete(c, source) ==
  IF source \notin Sources \/ claimed[c] # source THEN UNCHANGED vars
  ELSE /\ claimed' = [claimed EXCEPT ![c] = 0]
       /\ set_pending(IF source \in source_levels THEN pending \cup {source}
                                                  ELSE pending)
       /\ displaced' = IF source \in source_levels THEN displaced \ {source}
                                                   ELSE displaced
       /\ UNCHANGED <<priorities, enables, thresholds, source_levels>>

\* Mutant: an edge pends a source that is in service.
LevelIgnoresClaims(s, asserted) ==
  LET pends == asserted /\ s \notin source_levels
  IN  /\ source_levels' = IF asserted THEN source_levels \cup {s}
                                      ELSE source_levels \ {s}
      /\ set_pending(IF pends THEN pending \cup {s} ELSE pending)
      /\ displaced' = IF pends THEN displaced \ {s} ELSE displaced
      /\ UNCHANGED <<priorities, enables, thresholds, claimed>>

\* Only a rising edge of a source no context has in service pends it; a falling
\* level leaves a pending source pending.
set_source_level(s, asserted) ==
  LET pends == asserted /\ s \notin source_levels /\ \A c \in Contexts : claimed[c] # s
  IN  /\ source_levels' = IF asserted THEN source_levels \cup {s}
                                      ELSE source_levels \ {s}
      /\ set_pending(IF pends THEN pending \cup {s} ELSE pending)
      /\ displaced' = IF pends THEN displaced \ {s} ELSE displaced
      /\ UNCHANGED <<priorities, enables, thresholds, claimed>>

Next ==
  \/ \E s \in Sources, value \in WordValues : WritePriority(s, value)
  \/ \E c \in Contexts, word \in 0 .. (SourceCount \div WordBits),
        bits \in SUBSET (0 .. (WordBits - 1)) : WriteEnable(c, word, bits)
  \/ \E c \in Contexts, value \in WordValues : WriteThreshold(c, value)
  \/ \E c \in Contexts : claim(c)
  \/ \E c \in Contexts, source \in Sources : complete(c, source)
  \/ \E s \in Sources, asserted \in BOOLEAN : set_source_level(s, asserted)

Spec == Init /\ [][Next]_vars

-----------------------------------------------------------------------------
TypeOK ==
  /\ priorities \in [Sources -> Priority]
  /\ pending \subseteq Sources
  /\ enables \in [Contexts -> SUBSET Sources]
  /\ thresholds \in [Contexts -> Priority]
  /\ claimed \in [Contexts -> Sources \cup {0}]
  /\ source_levels \subseteq Sources
  /\ best_pending_cache \in [Contexts -> Sources \cup {0}]
  /\ displaced \subseteq Sources

\* The cached winner of every context is the winner of the registers as they
\* are now, whatever register write, claim, completion or level change came
\* last: it is an eligible source that beats every other one, or 0 when none
\* is eligible. machine_external_irq, supervisor_external_irq and claim read
\* only the cache (plic.cpp:165-173, 280-288).
WinnerIsCurrent ==
  \A c \in Contexts :
    LET E == Eligible(c, priorities, pending, enables, thresholds)
        w == best_pending_cache[c]
    IN  IF w = 0 THEN E = {}
                 ELSE w \in E /\ \A t \in E : Beats(w, t, priorities)

\* The loop of compute_best_pending (plic.cpp:238-260) finds the winner that
\* the priority order defines, ties included.
ScanFindsWinner ==
  \A c \in Contexts :
    Scan(c) = compute_best_pending(c, priorities, pending, enables, thresholds)

\* A source in service is not pending and is in service in one context only:
\* the two contexts never handle the same interrupt, and it is not offered
\* again before its completion (plic.cpp:159-162, 280-305).
ServedOnce ==
  \A c \in Contexts :
    claimed[c] # 0 =>
      /\ claimed[c] \notin pending
      /\ \A d \in Contexts : claimed[d] = claimed[c] => d = c

\* No high level is lost: a source whose level is high is pending, in service
\* (its completion re-pends it), or its claim was overwritten by a second claim
\* of the same context. The last case is the only way a device that keeps its
\* line high can stop being offered (plic.cpp:159-162, 285, 297-304).
NoLostLevel ==
  \A s \in source_levels :
    s \in pending \/ (\E c \in Contexts : claimed[c] = s) \/ s \in displaced

\* What the controller promises per source (PlicGateway), with the gate of a
\* source read off the pending bits and the claims.
GateOf(s) ==
  IF \E c \in Contexts : claimed[c] = s THEN "service"
  ELSE IF s \in pending THEN "pending" ELSE "idle"

Gateway == INSTANCE PlicGateway WITH
  level <- source_levels,
  gate <- [s \in Sources |-> GateOf(s)]

\* Every step of the controller is a step of the gateways: a level pends an
\* idle source only, one claim moves one source into service, and a completion
\* opens the gate of the source in service only.
GatewaySpec == Gateway!Spec
=============================================================================
