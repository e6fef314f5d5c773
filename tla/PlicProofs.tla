----------------------------- MODULE PlicProofs -----------------------------
(***************************************************************************)
(* Proofs about the interrupt controller, for every number of sources and  *)
(* contexts and every priority width.                                      *)
(***************************************************************************)
EXTENDS Plic, WellOrder, TLAPS

\* The cached winners are what the scan of the current registers returns: the
\* part of the inductive invariant WinnerIsCurrent follows from.
CacheFresh ==
  \A c \in Contexts :
    best_pending_cache[c] = compute_best_pending(c, priorities, pending, enables, thresholds)

IInv == TypeOK /\ CacheFresh /\ ServedOnce /\ NoLostLevel

-----------------------------------------------------------------------------
(* The scan has a winner. *)

\* Among any sources one beats all the others: the least number among those of
\* the highest priority.
LEMMA WinnerExists ==
  ASSUME NEW E \in SUBSET Sources, E # {},
         NEW prio \in [Sources -> Priority]
  PROVE  \E s \in E : \A t \in E : Beats(s, t, prio)
<1>a. PriorityLimit \in Nat /\ \A s \in E : s \in Nat /\ prio[s] \in Int /\ prio[s] < PriorityLimit
  <2>1. \A s \in Sources : prio[s] \in Priority  OBVIOUS
  <2>. QED  BY <2>1, PlicAssumption DEF Sources, Priority
<1> DEFINE Gaps == {PriorityLimit - prio[s] : s \in E}
<1>1. Gaps \in SUBSET Nat /\ Gaps # {}
  <2>1. \A s \in E : PriorityLimit - prio[s] \in Nat  BY <1>a
  <2>. QED  BY <2>1
<1>2. PICK g \in Gaps : \A h \in Gaps : g <= h
  <2> HIDE DEF Gaps
  <2>. QED  BY <1>1, LeastNat
<1>3. PICK m \in E : g = PriorityLimit - prio[m]  BY <1>2
<1>4. \A t \in E : prio[t] <= prio[m]
  <2> TAKE t \in E
  <2>1. PriorityLimit - prio[m] <= PriorityLimit - prio[t]  BY <1>2, <1>3
  <2>. QED  BY <1>a, <2>1
<1> DEFINE Top == {s \in E : prio[s] = prio[m]}
<1>5. Top \in SUBSET Nat /\ Top # {}  BY <1>a
<1>6. PICK s \in Top : \A t \in Top : s <= t
  <2> HIDE DEF Top
  <2>. QED  BY <1>5, LeastNat
<1>7. ASSUME NEW t \in E PROVE Beats(s, t, prio)
  <2>1. CASE prio[t] = prio[m]  BY <1>a, <1>6, <2>1 DEF Beats
  <2>2. CASE prio[t] # prio[m]  BY <1>a, <1>4, <1>6, <2>2 DEF Beats
  <2>. QED  BY <2>1, <2>2
<1>. QED  BY <1>6, <1>7

\* What the scan returns: 0 exactly when no source is eligible, else the
\* eligible source that beats all the others.
LEMMA ScanResult ==
  ASSUME NEW c \in Contexts,
         NEW prio \in [Sources -> Priority],
         NEW pend \in SUBSET Sources, NEW en, NEW thr
  PROVE  LET E == Eligible(c, prio, pend, en, thr)
             w == compute_best_pending(c, prio, pend, en, thr)
         IN  /\ w \in Sources \cup {0}
             /\ w = 0 => E = {}
             /\ w # 0 => w \in E /\ w \in pend /\ \A t \in E : Beats(w, t, prio)
<1> DEFINE E == Eligible(c, prio, pend, en, thr)
           w == compute_best_pending(c, prio, pend, en, thr)
<1>1. E \in SUBSET pend  BY DEF Eligible
<1>2. CASE E = {}
  BY <1>2 DEF compute_best_pending, Winner
<1>3. CASE E # {}
  <2>1. E \in SUBSET Sources  BY <1>1
  <2>2. \E s \in E : \A t \in E : Beats(s, t, prio)
    <3> HIDE DEF E
    <3>. QED  BY <1>3, <2>1, WinnerExists
  <2>3. w \in E /\ \A t \in E : Beats(w, t, prio)
    BY <1>3, <2>2, Zenon DEF compute_best_pending, Winner
  <2>4. w # 0  BY <2>1, <2>3, PlicAssumption DEF Sources
  <2>. QED  BY <1>1, <2>1, <2>3, <2>4
<1>. QED  BY <1>2, <1>3

-----------------------------------------------------------------------------
(* The loop computes it. *)

\* b is the winner among the first n sources, or 0 when none is eligible.
Leads(b, n, E) ==
  IF b = 0 THEN \A t \in E : ~ t <= n
  ELSE b \in E /\ b <= n /\ \A t \in E : t <= n => Beats(b, t, priorities)

\* One turn of the loop carries the winner of n sources to that of n + 1.
LEMMA ScanStepLeads ==
  ASSUME TypeOK, NEW c \in Contexts, NEW n \in Nat, NEW b \in Sources \cup {0},
         Leads(b, n, Eligible(c, priorities, pending, enables, thresholds))
  PROVE  /\ ScanStep(b, n + 1, c) \in Sources \cup {0}
         /\ Leads(ScanStep(b, n + 1, c), n + 1,
                  Eligible(c, priorities, pending, enables, thresholds))
<1> DEFINE E == Eligible(c, priorities, pending, enables, thresholds)
           b2 == ScanStep(b, n + 1, c)
<1>1. E \in SUBSET Sources  BY DEF Eligible, TypeOK
<1>2. \A s \in E : s \in Nat /\ s # 0 /\ priorities[s] \in Int
  <2>1. \A s \in Sources : priorities[s] \in Priority  BY DEF TypeOK
  <2>. QED  BY <1>1, <2>1, PlicAssumption DEF Sources, Priority
<1>3. b2 = IF n + 1 \in E /\ (b = 0 \/ priorities[n + 1] > priorities[b]
                              \/ (priorities[n + 1] = priorities[b] /\ n + 1 < b))
           THEN n + 1 ELSE b
  BY DEF ScanStep
<1>4. Leads(b, n, E)  OBVIOUS
<1> HIDE DEF E, b2
<1>5. b2 \in Sources \cup {0}  BY <1>1, <1>3
<1>6. \A t \in E : t <= n + 1 => t <= n \/ t = n + 1  BY <1>2
<1>7. Leads(b2, n + 1, E)
  <2>1. CASE n + 1 \in E /\ b = 0
    <3>1. b2 = n + 1 /\ n + 1 # 0  BY <1>3, <2>1
    <3>2. \A t \in E : t <= n + 1 => t = n + 1  BY <1>4, <1>6, <2>1 DEF Leads
    <3>. QED  BY <1>2, <2>1, <3>1, <3>2 DEF Leads, Beats
  <2>2. CASE n + 1 \in E /\ b # 0
    <3>1. b \in E /\ b <= n /\ \A t \in E : t <= n => Beats(b, t, priorities)
      BY <1>4, <2>2 DEF Leads
    <3>2. CASE priorities[n + 1] > priorities[b]
      <4>1. b2 = n + 1 /\ n + 1 # 0  BY <1>3, <2>2, <3>2
      <4>2. ASSUME NEW t \in E, t <= n + 1 PROVE Beats(n + 1, t, priorities)
        BY <1>2, <1>6, <2>2, <3>1, <3>2, <4>2 DEF Beats
      <4>. QED  BY <2>2, <4>1, <4>2 DEF Leads
    <3>3. CASE ~ (priorities[n + 1] > priorities[b])
      <4>1. b2 = b  BY <1>2, <1>3, <2>2, <3>1, <3>3
      <4>2. ASSUME NEW t \in E, t <= n + 1 PROVE Beats(b, t, priorities)
        BY <1>2, <1>6, <2>2, <3>1, <3>3, <4>2 DEF Beats
      <4>3. b <= n + 1  BY <1>2, <3>1
      <4>. QED  BY <2>2, <3>1, <4>1, <4>2, <4>3 DEF Leads
    <3>. QED  BY <3>2, <3>3
  <2>3. CASE n + 1 \notin E
    <3>1. b2 = b /\ \A t \in E : t <= n + 1 => t <= n  BY <1>3, <1>6, <2>3
    <3>2. b \in E /\ b <= n => b <= n + 1  BY <1>2
    <3>. QED  BY <1>4, <3>1, <3>2 DEF Leads
  <2>. QED  BY <2>1, <2>2, <2>3
<1>. QED  BY <1>5, <1>7 DEF E, b2

\* The loop leaves the winner among all the sources, by induction on the
\* number of sources it has seen.
LEMMA ScanLeads ==
  ASSUME TypeOK, NEW c \in Contexts
  PROVE  /\ Scan(c) \in Sources \cup {0}
         /\ Leads(Scan(c), SourceCount,
                  Eligible(c, priorities, pending, enables, thresholds))
<1> DEFINE D == Sources \cup {0}
           E == Eligible(c, priorities, pending, enables, thresholds)
           step == [n \in Nat |-> [b \in D |-> ScanStep(b, n + 1, c)]]
           Is(g) == g = [n \in Nat |-> IF n = 0 THEN 0 ELSE ScanStep(g[n - 1], n, c)]
           best == CHOOSE g : Is(g)
<1>1. step \in [Nat -> [D -> D]]
  <2>1. ASSUME NEW n \in Nat, NEW b \in D PROVE ScanStep(b, n + 1, c) \in D
    BY DEF ScanStep, Eligible, TypeOK
  <2> HIDE DEF D
  <2>. QED  BY <2>1
<1>2. PICK f : Recursive(f, D, 0, step)
  <2>1. 0 \in D  OBVIOUS
  <2> HIDE DEF D, step
  <2>. QED  BY <1>1, <2>1, NatRecursion
<1>3. f \in [Nat -> D] /\ f[0] = 0 /\ \A n \in Nat : f[n + 1] = ScanStep(f[n], n + 1, c)
  <2> HIDE DEF D
  <2>. QED  BY <1>2 DEF Recursive
<1>4. Is(f)
  <2>1. ASSUME NEW n \in Nat, n # 0 PROVE f[n] = ScanStep(f[n - 1], n, c)
    <3>1. n - 1 \in Nat /\ (n - 1) + 1 = n  BY <2>1
    <3>. QED  BY <1>3, <3>1
  <2>. QED  BY <1>3, <2>1
<1>5. Is(best)
  <2> HIDE DEF Is
  <2>. QED  BY <1>4
<1>6. Scan(c) = best[SourceCount]  BY DEF Scan
<1> HIDE DEF best
<1>7. best[0] = 0  BY <1>5
<1>8. ASSUME NEW n \in Nat PROVE best[n + 1] = ScanStep(best[n], n + 1, c)
  <2>1. n + 1 \in Nat /\ n + 1 # 0 /\ (n + 1) - 1 = n  OBVIOUS
  <2>. QED  BY <1>5, <2>1
<1> DEFINE S == {n \in Nat : best[n] \in D /\ Leads(best[n], n, E)}
<1>9. S = Nat
  <2>1. 0 \in S
    <3>1. \A t \in E : ~ t <= 0  BY PlicAssumption DEF Eligible, TypeOK, Sources
    <3> HIDE DEF E
    <3>. QED  BY <1>7, <3>1 DEF Leads
  <2>2. ASSUME NEW n \in S PROVE n + 1 \in S
    BY <1>8, ScanStepLeads
  <2>3. S \in SUBSET Nat  OBVIOUS
  <2> HIDE DEF S
  <2>. QED  BY <2>1, <2>2, <2>3, NatSetInduction
<1>. QED  BY <1>6, <1>9, PlicAssumption

-----------------------------------------------------------------------------
(* One lemma per way the cache is updated. *)

\* A full refresh leaves every winner fresh.
LEMMA RefreshAll ==
  ASSUME NEW prio, NEW pend, NEW en, NEW thr, NEW c \in Contexts
  PROVE  refresh_all_pending(prio, pend, en, thr)[c] =
           compute_best_pending(c, prio, pend, en, thr)
  BY DEF refresh_all_pending

\* set_pending keeps the winners fresh, whether or not it changes a bit.
LEMMA SetPendingFresh ==
  ASSUME IInv, NEW pend \in SUBSET Sources, set_pending(pend),
         UNCHANGED <<priorities, enables, thresholds>>
  PROVE  /\ pending' = pend
         /\ best_pending_cache' \in [Contexts -> Sources \cup {0}]
         /\ CacheFresh'
<1>1. pending' = pend  BY DEF set_pending
<1>2. CASE pend = pending
  BY <1>1, <1>2 DEF IInv, TypeOK, CacheFresh, set_pending
<1>3. CASE pend # pending
  <2>1. best_pending_cache' = refresh_all_pending(priorities, pend, enables, thresholds)
    BY <1>3 DEF set_pending
  <2>2. \A c \in Contexts : compute_best_pending(c, priorities, pend, enables, thresholds)
                              \in Sources \cup {0}
    BY ScanResult DEF IInv, TypeOK
  <2>3. best_pending_cache' \in [Contexts -> Sources \cup {0}]
    BY <2>1, <2>2 DEF refresh_all_pending
  <2>4. CacheFresh'
    BY <1>1, <2>1, RefreshAll DEF CacheFresh
  <2>. QED  BY <1>1, <2>3, <2>4
<1>. QED  BY <1>2, <1>3
\* refresh_pending keeps the other winners fresh when only the registers of its
\* context changed.
LEMMA RefreshOneFresh ==
  ASSUME IInv, NEW c \in Contexts,
         UNCHANGED <<priorities, pending>>,
         \A d \in Contexts \ {c} : enables'[d] = enables[d] /\ thresholds'[d] = thresholds[d],
         best_pending_cache' = refresh_pending(c, priorities', pending', enables', thresholds')
  PROVE  best_pending_cache' \in [Contexts -> Sources \cup {0}] /\ CacheFresh'
<1>1. compute_best_pending(c, priorities', pending', enables', thresholds')
        \in Sources \cup {0}
  BY ScanResult DEF IInv, TypeOK
<1>2. ASSUME NEW d \in Contexts \ {c}
      PROVE  compute_best_pending(d, priorities', pending', enables', thresholds') =
               compute_best_pending(d, priorities, pending, enables, thresholds)
  <2>1. Eligible(d, priorities', pending', enables', thresholds') =
          Eligible(d, priorities, pending, enables, thresholds)
    BY DEF Eligible
  <2>. QED  BY <2>1 DEF compute_best_pending
<1>3. best_pending_cache' \in [Contexts -> Sources \cup {0}]
  BY <1>1 DEF IInv, TypeOK, refresh_pending
<1>4. ASSUME NEW d \in Contexts
      PROVE  best_pending_cache'[d] =
               compute_best_pending(d, priorities', pending', enables', thresholds')
  <2>1. CASE d = c
    BY <2>1 DEF IInv, TypeOK, refresh_pending
  <2>2. CASE d # c
    <3>1. best_pending_cache'[d] = best_pending_cache[d]
      BY <2>2 DEF IInv, TypeOK, refresh_pending
    <3>. QED  BY <1>2, <2>2, <3>1 DEF IInv, CacheFresh
  <2>. QED  BY <2>1, <2>2
<1>. QED  BY <1>3, <1>4 DEF CacheFresh

-----------------------------------------------------------------------------
(* The inductive invariant. *)

LEMMA InitIInv == Init => IInv
<1> SUFFICES ASSUME Init PROVE IInv  OBVIOUS
<1> USE PlicAssumption DEF Init
<1>1. TypeOK  BY DEF TypeOK, Sources, Contexts, Priority
<1>2. CacheFresh
  BY DEF CacheFresh, compute_best_pending, Winner, Eligible
<1>3. ServedOnce  BY DEF ServedOnce, Contexts
<1>4. NoLostLevel  BY DEF NoLostLevel
<1>. QED  BY <1>1, <1>2, <1>3, <1>4 DEF IInv

LEMMA WritePriorityIInv ==
  ASSUME IInv, NEW s \in Sources, NEW value \in WordValues, WritePriority(s, value)
  PROVE  IInv'
<1>1. priorities' \in [Sources -> Priority]
  <2>1. value % PriorityLimit \in Priority  BY PlicAssumption DEF Priority
  <2>. QED  BY <2>1 DEF WritePriority, IInv, TypeOK
<1>2. \A c \in Contexts :
        compute_best_pending(c, priorities', pending, enables, thresholds) \in Sources \cup {0}
  BY <1>1, ScanResult DEF IInv, TypeOK
<1>3. TypeOK'
  BY <1>1, <1>2 DEF WritePriority, IInv, TypeOK, refresh_all_pending
<1>4. CacheFresh'
  BY RefreshAll DEF WritePriority, CacheFresh
<1>5. ServedOnce' /\ NoLostLevel'
  BY DEF WritePriority, IInv, ServedOnce, NoLostLevel
<1>. QED  BY <1>3, <1>4, <1>5 DEF IInv

LEMMA WriteEnableIInv ==
  ASSUME IInv, NEW c \in Contexts, NEW word, NEW bits, WriteEnable(c, word, bits)
  PROVE  IInv'
<1>1. enables' \in [Contexts -> SUBSET Sources]
  BY DEF WriteEnable, IInv, TypeOK
<1>2. \A d \in Contexts \ {c} : enables'[d] = enables[d] /\ thresholds'[d] = thresholds[d]
  BY DEF WriteEnable, IInv, TypeOK
<1>3. best_pending_cache' \in [Contexts -> Sources \cup {0}] /\ CacheFresh'
  BY <1>2, RefreshOneFresh DEF WriteEnable
<1>4. TypeOK'  BY <1>1, <1>3 DEF WriteEnable, IInv, TypeOK
<1>5. ServedOnce' /\ NoLostLevel'
  BY DEF WriteEnable, IInv, ServedOnce, NoLostLevel
<1>. QED  BY <1>3, <1>4, <1>5 DEF IInv

LEMMA WriteThresholdIInv ==
  ASSUME IInv, NEW c \in Contexts, NEW value \in WordValues, WriteThreshold(c, value)
  PROVE  IInv'
<1>1. thresholds' \in [Contexts -> Priority]
  <2>1. value % PriorityLimit \in Priority  BY PlicAssumption DEF Priority
  <2>. QED  BY <2>1 DEF WriteThreshold, IInv, TypeOK
<1>2. \A d \in Contexts \ {c} : enables'[d] = enables[d] /\ thresholds'[d] = thresholds[d]
  BY DEF WriteThreshold, IInv, TypeOK
<1>3. best_pending_cache' \in [Contexts -> Sources \cup {0}] /\ CacheFresh'
  BY <1>2, RefreshOneFresh DEF WriteThreshold
<1>4. TypeOK'  BY <1>1, <1>3 DEF WriteThreshold, IInv, TypeOK
<1>5. ServedOnce' /\ NoLostLevel'
  BY DEF WriteThreshold, IInv, ServedOnce, NoLostLevel
<1>. QED  BY <1>3, <1>4, <1>5 DEF IInv

\* What a claim that returns a source knows about it.
LEMMA ClaimedIsPending ==
  ASSUME IInv, NEW c \in Contexts, best_pending_cache[c] # 0
  PROVE  best_pending_cache[c] \in Sources /\ best_pending_cache[c] \in pending
  BY ScanResult DEF IInv, TypeOK, CacheFresh

LEMMA ClaimIInv ==
  ASSUME IInv, NEW c \in Contexts, claim(c)
  PROVE  IInv'
<1>1. CASE best_pending_cache[c] = 0
  BY <1>1 DEF claim, vars, IInv, TypeOK, CacheFresh, ServedOnce, NoLostLevel
<1>2. CASE best_pending_cache[c] # 0
  <2> DEFINE source == best_pending_cache[c]
  <2>1. source \in Sources /\ source \in pending  BY <1>2, ClaimedIsPending
  <2>2. /\ set_pending(pending \ {source})
        /\ claimed' = [claimed EXCEPT ![c] = source]
        /\ displaced' = (displaced \cup ({claimed[c]} \ {0})) \ {source}
        /\ UNCHANGED <<priorities, enables, thresholds, source_levels>>
    BY <1>2 DEF claim
  <2> HIDE DEF source
  <2>3. pending \ {source} \in SUBSET Sources  BY DEF IInv, TypeOK
  <2>4. /\ pending' = pending \ {source}
        /\ best_pending_cache' \in [Contexts -> Sources \cup {0}]
        /\ CacheFresh'
    BY <2>2, <2>3, SetPendingFresh
  <2>5. TypeOK'
    BY <2>1, <2>2, <2>3, <2>4 DEF IInv, TypeOK
  <2>6. ServedOnce'
    BY <2>1, <2>2, <2>4 DEF IInv, TypeOK, ServedOnce
  <2>7. NoLostLevel'
    <3> SUFFICES ASSUME NEW s \in source_levels
                 PROVE  s \in pending' \/ (\E d \in Contexts : claimed'[d] = s) \/ s \in displaced'
      BY <2>2 DEF NoLostLevel
    <3>1. CASE s = source  BY <2>2, <3>1 DEF IInv, TypeOK
    <3>2. CASE s # source /\ s = claimed[c]
      BY <2>2, <3>2, PlicAssumption DEF IInv, TypeOK, Sources
    <3>3. CASE s # source /\ s # claimed[c]
      BY <2>2, <2>4, <3>3 DEF IInv, TypeOK, NoLostLevel
    <3>. QED  BY <3>1, <3>2, <3>3
  <2>. QED  BY <2>4, <2>5, <2>6, <2>7 DEF IInv
<1>. QED  BY <1>1, <1>2

LEMMA CompleteIInv ==
  ASSUME IInv, NEW c \in Contexts, NEW source \in Sources, complete(c, source)
  PROVE  IInv'
<1>1. CASE claimed[c] # source
  BY <1>1 DEF complete, vars, IInv, TypeOK, CacheFresh, ServedOnce, NoLostLevel
<1>2. CASE claimed[c] = source
  <2> DEFINE pend == IF source \in source_levels THEN pending \cup {source} ELSE pending
  <2>1. /\ claimed' = [claimed EXCEPT ![c] = 0]
        /\ set_pending(pend)
        /\ displaced' = IF source \in source_levels THEN displaced \ {source} ELSE displaced
        /\ UNCHANGED <<priorities, enables, thresholds, source_levels>>
    BY <1>2 DEF complete
  <2>2. pend \in SUBSET Sources  BY DEF IInv, TypeOK
  <2>3. /\ pending' = pend
        /\ best_pending_cache' \in [Contexts -> Sources \cup {0}]
        /\ CacheFresh'
    <3> HIDE DEF pend
    <3>. QED  BY <2>1, <2>2, SetPendingFresh
  <2>4. TypeOK'  BY <2>1, <2>2, <2>3 DEF IInv, TypeOK
  <2>5. ServedOnce'
    <3>1. source # 0  BY PlicAssumption DEF Sources
    <3>. QED  BY <1>2, <2>1, <2>3, <3>1 DEF IInv, TypeOK, ServedOnce
  <2>6. NoLostLevel'
    BY <1>2, <2>1, <2>3 DEF IInv, TypeOK, NoLostLevel
  <2>. QED  BY <2>3, <2>4, <2>5, <2>6 DEF IInv
<1>. QED  BY <1>1, <1>2

LEMMA SetSourceLevelIInv ==
  ASSUME IInv, NEW s \in Sources, NEW asserted \in BOOLEAN, set_source_level(s, asserted)
  PROVE  IInv'
<1> DEFINE pends == asserted /\ s \notin source_levels /\ \A c \in Contexts : claimed[c] # s
           pend == IF pends THEN pending \cup {s} ELSE pending
<1>1. /\ source_levels' = IF asserted THEN source_levels \cup {s} ELSE source_levels \ {s}
      /\ set_pending(pend)
      /\ displaced' = IF pends THEN displaced \ {s} ELSE displaced
      /\ UNCHANGED <<priorities, enables, thresholds, claimed>>
  BY DEF set_source_level
<1>2. pend \in SUBSET Sources  BY DEF IInv, TypeOK
<1>3. /\ pending' = pend
      /\ best_pending_cache' \in [Contexts -> Sources \cup {0}]
      /\ CacheFresh'
  <2> HIDE DEF pend
  <2>. QED  BY <1>1, <1>2, SetPendingFresh
<1>4. TypeOK'  BY <1>1, <1>2, <1>3 DEF IInv, TypeOK
<1>5. ServedOnce'  BY <1>1, <1>3 DEF IInv, TypeOK, ServedOnce
<1>6. NoLostLevel'  BY <1>1, <1>3 DEF IInv, TypeOK, NoLostLevel
<1>. QED  BY <1>3, <1>4, <1>5, <1>6 DEF IInv

LEMMA NextIInv == IInv /\ [Next]_vars => IInv'
<1> SUFFICES ASSUME IInv, [Next]_vars PROVE IInv'  OBVIOUS
<1>1. CASE Next
  BY <1>1, WritePriorityIInv, WriteEnableIInv, WriteThresholdIInv, ClaimIInv, CompleteIInv,
     SetSourceLevelIInv DEF Next
<1>2. CASE UNCHANGED vars
  BY <1>2 DEF vars, IInv, TypeOK, CacheFresh, ServedOnce, NoLostLevel
<1>. QED  BY <1>1, <1>2
\* The controller's state stays well formed, for any number of sources and
\* contexts: in particular the cached winner is always a source or 0.
THEOREM TypeCorrect == Spec => []TypeOK
<1>1. IInv => TypeOK  BY DEF IInv
<1>. QED  BY <1>1, InitIInv, NextIInv, PTL DEF Spec

\* WinnerIsCurrent holds always: the interrupt lines and the claim register
\* never act on a stale winner (plic.cpp:165-173, 222-229, 280-288).
THEOREM WinnerAlwaysCurrent == Spec => []WinnerIsCurrent
<1>1. IInv => WinnerIsCurrent
  <2> SUFFICES ASSUME IInv PROVE WinnerIsCurrent  OBVIOUS
  <2>1. priorities \in [Sources -> Priority] /\ pending \in SUBSET Sources
    BY DEF IInv, TypeOK
  <2>. QED  BY <2>1, ScanResult DEF IInv, CacheFresh, WinnerIsCurrent
<1>. QED  BY <1>1, InitIInv, NextIInv, PTL DEF Spec

\* ScanFindsWinner holds always: the loop over the sources leaves the winner
\* that the priority order defines, for any number of sources
\* (plic.cpp:238-260). Two sources that beat each other are the same.
THEOREM ScanAlwaysFindsWinner == Spec => []ScanFindsWinner
<1>1. TypeOK => ScanFindsWinner
  <2> SUFFICES ASSUME TypeOK, NEW c \in Contexts
               PROVE  Scan(c) = compute_best_pending(c, priorities, pending, enables, thresholds)
    BY DEF ScanFindsWinner
  <2> DEFINE E == Eligible(c, priorities, pending, enables, thresholds)
             w == compute_best_pending(c, priorities, pending, enables, thresholds)
             b == Scan(c)
  <2>1. b \in Sources \cup {0} /\ Leads(b, SourceCount, E)  BY ScanLeads
  <2>2. priorities \in [Sources -> Priority] /\ pending \in SUBSET Sources  BY DEF TypeOK
  <2>3. w = 0 => E = {}
    BY <2>2, ScanResult
  <2>4. w # 0 => w \in E /\ \A t \in E : Beats(w, t, priorities)
    BY <2>2, ScanResult
  <2>5. \A t \in E : t \in Nat /\ t <= SourceCount /\ priorities[t] \in Int
    <3>1. E \in SUBSET Sources  BY <2>2 DEF Eligible
    <3>2. \A t \in Sources : priorities[t] \in Priority  BY <2>2
    <3> HIDE DEF E
    <3>. QED  BY <3>1, <3>2, PlicAssumption DEF Sources, Priority
  <2> HIDE DEF E, w, b
  <2>6. b = w
    BY <2>1, <2>3, <2>4, <2>5 DEF Leads, Beats
  <2>. QED  BY <2>6 DEF b, w
<1>. QED  BY <1>1, TypeCorrect, PTL

\* ServedOnce holds always: one interrupt is in service in at most one context
\* and is not offered again meanwhile (plic.cpp:159-162, 280-305).
THEOREM AlwaysServedOnce == Spec => []ServedOnce
<1>1. IInv => ServedOnce  BY DEF IInv
<1>. QED  BY <1>1, InitIInv, NextIInv, PTL DEF Spec

\* NoLostLevel holds always: a device that keeps its line high is pending, in
\* service, or had its claim overwritten (plic.cpp:159-162, 285, 297-304).
THEOREM NeverLosesLevel == Spec => []NoLostLevel
<1>1. IInv => NoLostLevel  BY DEF IInv
<1>. QED  BY <1>1, InitIInv, NextIInv, PTL DEF Spec
-----------------------------------------------------------------------------
(* Refinement: every step is a step of the gateways or leaves them alone. *)

\* Steps that leave levels, pending bits and claims alone stutter.
LEMMA GatewayStutter ==
  ASSUME UNCHANGED <<pending, claimed, source_levels>>
  PROVE  UNCHANGED Gateway!vars
<1>1. \A s \in Sources : GateOf(s)' = GateOf(s)  BY DEF GateOf
<1>. QED  BY <1>1 DEF Gateway!vars

\* A claim moves the winner into service and abandons what its context served.
LEMMA GatewayClaim ==
  ASSUME IInv, NEW c \in Contexts, claim(c)
  PROVE  [Gateway!Next]_(Gateway!vars)
<1>1. CASE best_pending_cache[c] = 0
  BY <1>1, GatewayStutter DEF claim, vars
<1>2. CASE best_pending_cache[c] # 0
  <2> DEFINE s == best_pending_cache[c]
             abandoned == {claimed[c]} \ {0}
  <2>1. s \in Sources /\ s \in pending  BY <1>2, ClaimedIsPending
  <2>2. /\ pending' = pending \ {s}
        /\ claimed' = [claimed EXCEPT ![c] = s]
        /\ UNCHANGED source_levels
    BY <1>2 DEF claim, set_pending
  <2>3. abandoned \in SUBSET Sources  BY DEF IInv, TypeOK
  <2> HIDE DEF s
  <2>4. GateOf(s) = "pending"
    <3>1. s # 0  BY <2>1, PlicAssumption DEF Sources
    <3>2. \A d \in Contexts : claimed[d] # s  BY <2>1, <3>1 DEF IInv, ServedOnce
    <3>. QED  BY <2>1, <3>2 DEF GateOf
  <2>5. \A t \in abandoned : GateOf(t) = "service"
    BY <2>3 DEF IInv, ServedOnce, GateOf
  <2>6. ASSUME NEW t \in Sources
        PROVE  GateOf(t)' = IF t = s THEN "service"
                            ELSE IF t \in abandoned THEN "idle" ELSE GateOf(t)
    <3>1. t # 0  BY PlicAssumption DEF Sources
    <3>2. \A d \in Contexts : claimed'[d] = IF d = c THEN s ELSE claimed[d]
      BY <2>2 DEF IInv, TypeOK
    <3>3. CASE t = s  BY <2>2, <3>2, <3>3 DEF GateOf
    <3>4. CASE t # s /\ t = claimed[c]
      <4>1. t \notin pending /\ \A d \in Contexts : claimed[d] = t => d = c
        BY <3>1, <3>4 DEF IInv, ServedOnce
      <4>. QED  BY <2>2, <3>1, <3>2, <3>4, <4>1 DEF GateOf
    <3>5. CASE t # s /\ t # claimed[c]
      BY <2>2, <3>2, <3>5 DEF GateOf
    <3>. QED  BY <3>3, <3>4, <3>5
  <2>7. Gateway!Accept(s, abandoned)
    BY <2>1, <2>2, <2>3, <2>4, <2>5, <2>6 DEF Gateway!Accept
  <2>. QED  BY <2>1, <2>3, <2>7 DEF Gateway!Next
<1>. QED  BY <1>1, <1>2

\* A completion opens the gate of the source in service.
LEMMA GatewayComplete ==
  ASSUME IInv, NEW c \in Contexts, NEW source \in Sources, complete(c, source)
  PROVE  [Gateway!Next]_(Gateway!vars)
<1>1. CASE claimed[c] # source
  BY <1>1, GatewayStutter DEF complete, vars
<1>2. CASE claimed[c] = source
  <2>1. /\ pending' = IF source \in source_levels THEN pending \cup {source} ELSE pending
        /\ claimed' = [claimed EXCEPT ![c] = 0]
        /\ UNCHANGED source_levels
    BY <1>2 DEF complete, set_pending
  <2>2. source # 0  BY PlicAssumption DEF Sources
  <2>3. source \notin pending /\ \A d \in Contexts : claimed[d] = source => d = c
    BY <1>2, <2>2 DEF IInv, ServedOnce
  <2>4. GateOf(source) = "service"  BY <1>2, <2>3 DEF GateOf
  <2>5. ASSUME NEW t \in Sources
        PROVE  GateOf(t)' = IF t = source
                            THEN IF source \in source_levels THEN "pending" ELSE "idle"
                            ELSE GateOf(t)
    <3>1. t # 0  BY PlicAssumption DEF Sources
    <3>2. \A d \in Contexts : claimed'[d] = IF d = c THEN 0 ELSE claimed[d]
      BY <2>1 DEF IInv, TypeOK
    <3>. QED  BY <1>2, <2>1, <2>3, <3>1, <3>2 DEF GateOf
  <2>6. Gateway!Finish(source)
    BY <2>1, <2>4, <2>5 DEF Gateway!Finish
  <2>. QED  BY <2>6 DEF Gateway!Next
<1>. QED  BY <1>1, <1>2

\* A level change raises, lowers or repeats the level of one source.
LEMMA GatewayLevel ==
  ASSUME IInv, NEW s \in Sources, NEW asserted \in BOOLEAN, set_source_level(s, asserted)
  PROVE  [Gateway!Next]_(Gateway!vars)
<1> DEFINE pends == asserted /\ s \notin source_levels /\ \A c \in Contexts : claimed[c] # s
<1>1. /\ source_levels' = IF asserted THEN source_levels \cup {s} ELSE source_levels \ {s}
      /\ pending' = IF pends THEN pending \cup {s} ELSE pending
      /\ UNCHANGED claimed
  BY DEF set_source_level, set_pending
<1>2. CASE asserted /\ s \in source_levels
  BY <1>1, <1>2, GatewayStutter DEF vars
<1>3. CASE asserted /\ s \notin source_levels
  <2>1. ASSUME NEW t \in Sources
        PROVE  GateOf(t)' = IF t = s /\ GateOf(t) = "idle" THEN "pending" ELSE GateOf(t)
    BY <1>1, <1>3 DEF GateOf
  <2>2. Gateway!Raise(s)  BY <1>1, <1>3, <2>1 DEF Gateway!Raise
  <2>. QED  BY <2>2 DEF Gateway!Next
<1>4. CASE ~asserted
  <2>1. ASSUME NEW t \in Sources PROVE GateOf(t)' = GateOf(t)
    BY <1>1, <1>4 DEF GateOf
  <2>2. Gateway!Lower(s)  BY <1>1, <1>4, <2>1 DEF Gateway!Lower
  <2>. QED  BY <2>2 DEF Gateway!Next
<1>. QED  BY <1>2, <1>3, <1>4

\* The controller implements the per-source gateways (GatewaySpec), whatever the
\* priorities, enables and thresholds do.
THEOREM ImplementsGateways == Spec => GatewaySpec
<1>1. Init => Gateway!Init
  <2> SUFFICES ASSUME Init PROVE Gateway!Init  OBVIOUS
  <2>1. \A s \in Sources : GateOf(s) = "idle"
    BY PlicAssumption DEF Init, GateOf, Sources
  <2>. QED  BY <2>1 DEF Init, Gateway!Init
<1>2. IInv /\ [Next]_vars => [Gateway!Next]_(Gateway!vars)
  <2> SUFFICES ASSUME IInv, [Next]_vars PROVE [Gateway!Next]_(Gateway!vars)  OBVIOUS
  <2>1. ASSUME NEW s \in Sources, NEW value \in WordValues, WritePriority(s, value)
        PROVE  [Gateway!Next]_(Gateway!vars)
    BY <2>1, GatewayStutter DEF WritePriority
  <2>2. ASSUME NEW c \in Contexts, NEW word, NEW bits, WriteEnable(c, word, bits)
        PROVE  [Gateway!Next]_(Gateway!vars)
    BY <2>2, GatewayStutter DEF WriteEnable
  <2>3. ASSUME NEW c \in Contexts, NEW value \in WordValues, WriteThreshold(c, value)
        PROVE  [Gateway!Next]_(Gateway!vars)
    BY <2>3, GatewayStutter DEF WriteThreshold
  <2>4. CASE UNCHANGED vars  BY <2>4, GatewayStutter DEF vars
  <2>. QED
    BY <2>1, <2>2, <2>3, <2>4, GatewayClaim, GatewayComplete, GatewayLevel DEF Next
<1>. QED  BY <1>1, <1>2, InitIInv, NextIInv, PTL DEF Spec, GatewaySpec, Gateway!Spec
=============================================================================
