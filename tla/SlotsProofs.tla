----------------------------- MODULE SlotsProofs -----------------------------
(***************************************************************************)
(* Proofs about BlockSlots, for any block interval, any number of slot     *)
(* bits and any number of witnesses: the incremental counts of             *)
(* update_global_dynamic_data are what they claim to be, and the last      *)
(* irreversible block has the signatures behind it that it needs.          *)
(***************************************************************************)
EXTENDS BlockSlots, FiniteSetTheorems, SequenceTheorems, WellFoundedInduction, TLAPS

-----------------------------------------------------------------------------
(* Induction, in the first-order form the provers can use.                 *)

\* Every set of naturals has a least element.
LEMMA Least ==
  ASSUME NEW S, S \subseteq Nat, S # {}
  PROVE  \E m \in S : \A n \in S : m <= n
<1>1. PICK m \in S : \A n \in S : <<n, m>> \notin OpToRel(<, Nat)
  BY NatLessThanWellFounded, WFMin, Zenon
<1>2. \A n \in S : ~(n < m)
  BY <1>1 DEF OpToRel
<1> QED BY <1>2

\* A set with 0 and with the successor of each of its naturals has them all.
LEMMA NatSetInduction ==
  ASSUME NEW S, 0 \in S, \A n \in Nat : n \in S => n + 1 \in S
  PROVE  Nat \subseteq S
<1> SUFFICES ASSUME Nat \ S # {} PROVE FALSE
  OBVIOUS
<1>1. PICK m \in Nat \ S : \A n \in Nat \ S : m <= n
  BY Least
<1>2. m - 1 \in Nat /\ m - 1 \in S
  BY <1>1
<1> QED BY <1>2

Chosen(S) == CHOOSE x \in S : TRUE

\* One element less is one element less.
LEMMA RemoveChosen ==
  ASSUME NEW S \in SUBSET Witness, S # {}
  PROVE  /\ Chosen(S) \in S /\ S \ {Chosen(S)} \in SUBSET Witness
         /\ Cardinality(S) \in Nat \ {0} /\ Cardinality(S \ {Chosen(S)}) = Cardinality(S) - 1
<1>1. Chosen(S) \in S
  BY DEF Chosen
<1>2. IsFiniteSet(S)
  BY FS_Subset, SlotAssumption
<1>3. Cardinality(S) \in Nat /\ Cardinality(S) # 0
  BY <1>2, FS_CardinalityType, FS_EmptySet
<1>4. Cardinality(S \ {Chosen(S)}) = Cardinality(S) - 1
  BY <1>1, <1>2, FS_RemoveElement
<1> QED BY <1>1, <1>3, <1>4

\* The subsets of the witnesses, built up by one witness at a time.
LEMMA SubsetInduction ==
  ASSUME NEW Q, {} \in Q,
         \A S \in SUBSET Witness : S # {} /\ S \ {Chosen(S)} \in Q => S \in Q
  PROVE  SUBSET Witness \subseteq Q
<1> DEFINE N == {n \in Nat : \A S \in SUBSET Witness : Cardinality(S) = n => S \in Q}
<1>1. \A S \in SUBSET Witness : IsFiniteSet(S) /\ Cardinality(S) \in Nat
  BY FS_Subset, FS_CardinalityType, SlotAssumption
<1>2. 0 \in N
  BY <1>1, FS_EmptySet
<1>3. ASSUME NEW n \in Nat, n \in N PROVE n + 1 \in N
  <2> SUFFICES ASSUME NEW S \in SUBSET Witness, Cardinality(S) = n + 1 PROVE S \in Q
    OBVIOUS
  <2>1. S # {}
    BY <1>1, FS_EmptySet
  <2>2. S \ {Chosen(S)} \in SUBSET Witness /\ Cardinality(S \ {Chosen(S)}) = n
    BY <2>1, RemoveChosen
  <2> QED BY <1>3, <2>1, <2>2
<1> HIDE DEF N
<1>4. Nat \subseteq N
  BY <1>2, <1>3, NatSetInduction
<1> QED BY <1>1, <1>4 DEF N

-----------------------------------------------------------------------------
(* Division by the block interval.                                         *)

LEMMA DivMod ==
  ASSUME NEW a \in Int, NEW d \in Nat \ {0}
  PROVE  a \div d \in Int /\ a = d * (a \div d) + (a % d) /\ a % d \in 0..(d - 1)
OBVIOUS

LEMMA DivUnique ==
  ASSUME NEW d \in Nat \ {0}, NEW k \in Int, NEW r \in 0..(d - 1)
  PROVE  (d * k + r) \div d = k
<1> DEFINE a == d * k + r
           q == a \div d
           s == a % d
<1>1. q \in Int /\ a = d * q + s /\ s \in 0..(d - 1) /\ a \in Int
  BY DivMod
<1> HIDE DEF q, s
<1>2. d * (q - k) = r - s
  BY <1>1
<1>3. ASSUME NEW z \in Int, d * z > -d, d * z < d PROVE z = 0
  BY <1>3
<1>4. d * (q - k) > -d /\ d * (q - k) < d
  BY <1>1, <1>2
<1>5. q - k = 0
  BY <1>1, <1>3, <1>4
<1> QED BY <1>1, <1>5 DEF q

\* Taking off whole intervals takes off as many slots.
LEMMA DivShift ==
  ASSUME NEW d \in Nat \ {0}, NEW a \in Int, NEW k \in Int
  PROVE  (a - k * d) \div d = a \div d - k
<1> DEFINE q == a \div d
           s == a % d
<1>1. q \in Int /\ a = d * q + s /\ s \in 0..(d - 1)
  BY DivMod
<1> HIDE DEF q, s
<1>2. a - k * d = d * (q - k) + s
  BY <1>1
<1>3. (d * (q - k) + s) \div d = q - k
  BY <1>1, DivUnique
<1> QED BY <1>2, <1>3 DEF q

\* Time is counted in slots from genesis, which is at the start of one.
LEMMA SlotOfTime ==
  ASSUME NEW t \in Nat
  PROVE  /\ GenesisTime \div Interval \in Int /\ t \div Interval \in Int
         /\ GenesisTime = (GenesisTime \div Interval) * Interval
         /\ (t - GenesisTime) \div Interval = t \div Interval - GenesisTime \div Interval
<1> DEFINE g == GenesisTime \div Interval
<1>1. g \in Int /\ GenesisTime = Interval * g + 0 /\ t \div Interval \in Int
  BY DivMod, SlotAssumption
<1> HIDE DEF g
<1>2. GenesisTime = g * Interval
  BY <1>1, SlotAssumption
<1>3. (t - g * Interval) \div Interval = t \div Interval - g
  BY <1>1, DivShift, SlotAssumption
<1> QED BY <1>1, <1>2, <1>3 DEF g

\* The slot of a later time, seen from the head block, and the first slot.
LEMMA SlotAtTime ==
  ASSUME IInv, NEW when \in Nat, get_slot_at_time(when) > 0
  PROVE  /\ get_slot_at_time(when) \in Nat \ {0}
         /\ get_slot_at_time(when) = when \div Interval - time \div Interval
<1> DEFINE q == time \div Interval
           first == get_slot_time(1)
<1>1. time \in Nat /\ q \in Int /\ when \div Interval \in Int /\ Interval \in Nat \ {0}
  BY DivMod, SlotAssumption DEF IInv, TypeOK
<1>2. first = (q + 1) * Interval
  <2>1. CASE head_block_number = 0
    <3>1. time = q * Interval
      BY <2>1, SlotOfTime, SlotAssumption DEF IInv, StartsAtGenesis
    <3>2. first = time + 1 * Interval
      BY <2>1 DEF get_slot_time
    <3> HIDE DEF q, first
    <3> QED BY <1>1, <3>1, <3>2
  <2>2. CASE head_block_number # 0
    BY <2>2 DEF get_slot_time
  <2> QED BY <2>1, <2>2
<1> HIDE DEF first
<1>3. when >= first /\ get_slot_at_time(when) = (when - first) \div Interval + 1
  <2> HIDE DEF q
  <2>1. first \in Int
    BY <1>1, <1>2
  <2> QED BY <1>1, <2>1 DEF get_slot_at_time, first
<1>4. (when - (q + 1) * Interval) \div Interval = when \div Interval - (q + 1)
  <2> HIDE DEF q
  <2> QED BY <1>1, DivShift
<1> HIDE DEF q
<1>5. get_slot_at_time(when) = when \div Interval - q
  BY <1>1, <1>2, <1>3, <1>4
<1> QED BY <1>1, <1>5 DEF q

-----------------------------------------------------------------------------
(* Participation.                                                          *)

\* A window of slots whose count is right.
Counted(slots) ==
  slots.bits \subseteq 0..SlotBits - 1 /\ slots.count = Cardinality(slots.bits)

\* Shifting moves every bit up but the topmost, which falls out.
LEMMA ShiftSlotCounts ==
  ASSUME NEW slots, Counted(slots), NEW filled \in BOOLEAN
  PROVE  Counted(ShiftSlot(slots, filled))
<1> DEFINE B == slots.bits
           top == SlotBits - 1
           K == B \ {top}
           M == {p + 1 : p \in K}
           Z == IF filled THEN {0} ELSE {}
<1>1. SlotBits \in Nat \ {0} /\ B \subseteq 0..top /\ slots.count = Cardinality(B)
  BY SlotAssumption DEF Counted
<1>2. IsFiniteSet(B) /\ Cardinality(B) \in Nat
  <2>1. IsFiniteSet(0..top)
    <3>1. 0 \in Int /\ top \in Int
      BY <1>1
    <3> HIDE DEF top
    <3> QED BY <3>1, FS_Interval
  <2>2. IsFiniteSet(B)
    <3> HIDE DEF B, top
    <3> QED BY <1>1, <2>1, FS_Subset
  <2> QED BY <2>2, FS_CardinalityType
<1>3. IsFiniteSet(K) /\ Cardinality(K) = Cardinality(B) - (IF top \in B THEN 1 ELSE 0)
  BY <1>2, FS_RemoveElement
<1>4. IsFiniteSet(M) /\ Cardinality(M) = Cardinality(K)
  <2> DEFINE f == [p \in K |-> p + 1]
  <2>1. f \in Bijection(K, M)
    BY <1>1 DEF Bijection, Injection, Surjection, IsInjective
  <2> HIDE DEF K, M, f
  <2>2. ExistsBijection(K, M)
    BY <2>1 DEF ExistsBijection
  <2> QED BY <1>3, <2>2, FS_Bijection
<1>5. M \subseteq 1..top /\ 0 \notin M
  BY <1>1
<1> DEFINE sh == ShiftSlot(slots, filled)
<1>6. sh.bits = M \cup Z /\ sh.count = Cardinality(B) - (IF top \in B THEN 1 ELSE 0)
                                                     + (IF filled THEN 1 ELSE 0)
  BY <1>1 DEF ShiftSlot
<1>7. sh.bits \subseteq 0..top
  BY <1>1, <1>5, <1>6
<1>8. Cardinality(M \cup Z) = Cardinality(M) + (IF filled THEN 1 ELSE 0)
  <2> HIDE DEF M
  <2>1. CASE filled
    BY <1>4, <1>5, <2>1, FS_AddElement
  <2>2. CASE ~filled
    <3>1. M \cup Z = M /\ Cardinality(M) \in Nat
      BY <1>4, <2>2, FS_CardinalityType
    <3> QED BY <2>2, <3>1
  <2> QED BY <2>1, <2>2
<1> HIDE DEF sh, M, Z, K, B
<1>9. sh.count = Cardinality(sh.bits)
  BY <1>2, <1>3, <1>4, <1>6, <1>8
<1> QED BY <1>7, <1>9 DEF Counted, sh

\* The loop of ShiftSlots, as the function it defines.
Loop(g, m) ==
  [i \in 0..m |-> IF i = 0 THEN [bits |-> recent_slots_filled, count |-> participation_count]
                  ELSE ShiftSlot(g[i - 1], i = 1)]

\* The loop can be run any number of times.
LEMMA LoopRuns ==
  ASSUME NEW m \in Nat
  PROVE  \E g : g = Loop(g, m)
<1> DEFINE S == {k \in Nat : \E g : g = Loop(g, k)}
<1>1. 0 \in S
  <2> DEFINE g == [i \in 0..0 |-> [bits |-> recent_slots_filled, count |-> participation_count]]
  <2>1. g = Loop(g, 0)
    BY DEF Loop
  <2> QED BY <2>1
<1>2. ASSUME NEW k \in Nat, k \in S PROVE k + 1 \in S
  <2>1. PICK g : g = Loop(g, k)
    BY <1>2
  <2> DEFINE h == Loop(g, k + 1)
  <2>2. \A i \in 0..k : h[i] = g[i]
    <3> SUFFICES ASSUME NEW i \in 0..k PROVE h[i] = Loop(g, k)[i]
      BY <2>1
    <3> QED BY DEF Loop
  <2>3. \A i \in 0..k + 1 : i # 0 => i - 1 \in 0..k
    OBVIOUS
  <2>4. h = Loop(h, k + 1)
    BY <2>2, <2>3 DEF Loop
  <2> QED BY <2>4
<1> HIDE DEF S
<1>3. m \in S
  BY <1>1, <1>2, NatSetInduction
<1> QED BY <1>3 DEF S

\* However many slots are missed, the count stays right.
LEMMA ShiftSlotsCounts ==
  ASSUME NEW m \in Nat, recent_slots_filled \subseteq 0..SlotBits - 1, CountsFilledSlots
  PROVE  Counted(ShiftSlots(m))
<1> DEFINE g == CHOOSE f : f = Loop(f, m + 1)
<1>1. ShiftSlots(m) = g[m + 1]
  BY DEF ShiftSlots, Loop
<1>2. g = Loop(g, m + 1)
  <2>1. m + 1 \in Nat
    OBVIOUS
  <2> QED BY <2>1, LoopRuns
<1> HIDE DEF g
<1> DEFINE S == {k \in Nat : k <= m + 1 => Counted(g[k])}
<1>3. 0 \in S
  <2>1. g[0] = [bits |-> recent_slots_filled, count |-> participation_count]
    BY <1>2 DEF Loop
  <2> QED BY <2>1 DEF Counted, CountsFilledSlots
<1>4. ASSUME NEW k \in Nat, k \in S PROVE k + 1 \in S
  <2> SUFFICES ASSUME k + 1 <= m + 1 PROVE Counted(g[k + 1])
    OBVIOUS
  <2>1. g[k + 1] = ShiftSlot(g[k], k + 1 = 1)
    <3>1. k + 1 \in 0..m + 1 /\ k + 1 # 0 /\ (k + 1) - 1 = k
      OBVIOUS
    <3>2. g[k + 1] = Loop(g, m + 1)[k + 1]
      BY <1>2
    <3> QED BY <3>1, <3>2 DEF Loop
  <2>2. Counted(g[k])
    BY <1>4
  <2> QED BY <2>1, <2>2, ShiftSlotCounts
<1> HIDE DEF S
<1>5. m + 1 \in S
  BY <1>3, <1>4, NatSetInduction
<1> QED BY <1>1, <1>5 DEF S

-----------------------------------------------------------------------------
(* Missed slots.                                                           *)

\* The sum of MissedAtMostOnce, as the function it defines.
Adds(f, g, D) ==
  [S \in D |-> IF S = {} THEN 0 ELSE f[Chosen(S)] + g[S \ {Chosen(S)}]]

Total(f) == CHOOSE g : g = Adds(f, g, SUBSET Witness)

\* A sum over all sets of witnesses exists.
LEMMA TotalDefined ==
  ASSUME NEW f
  PROVE  Total(f) = Adds(f, Total(f), SUBSET Witness)
<1> DEFINE D(n) == {S \in SUBSET Witness : Cardinality(S) <= n}
           N == {n \in Nat : \E g : g = Adds(f, g, D(n))}
<1>1. \A S \in SUBSET Witness : IsFiniteSet(S) /\ Cardinality(S) \in Nat
  BY FS_Subset, FS_CardinalityType, SlotAssumption
<1>2. D(0) = {{}}
  <2>1. Cardinality({}) = 0
    BY FS_EmptySet
  <2>2. \A S \in SUBSET Witness : Cardinality(S) <= 0 => S = {}
    BY <1>1, FS_EmptySet
  <2> QED BY <2>1, <2>2
<1>3. \A n \in Nat : \A S \in D(n + 1) : S # {} => S \ {Chosen(S)} \in D(n)
  BY RemoveChosen
<1>4. \A n \in Nat : D(n) \subseteq D(n + 1)
  BY <1>1
<1>5. \A n \in Nat : \A S \in D(n) : S # {} => S \ {Chosen(S)} \in D(n)
  <2> SUFFICES ASSUME NEW n \in Nat, NEW S \in D(n), S # {} PROVE S \ {Chosen(S)} \in D(n)
    OBVIOUS
  <2>1. /\ S \in SUBSET Witness /\ Cardinality(S) <= n /\ Cardinality(S) \in Nat
        /\ S \ {Chosen(S)} \in SUBSET Witness /\ Cardinality(S \ {Chosen(S)}) = Cardinality(S) - 1
    BY RemoveChosen
  <2> QED BY <2>1
<1>6. \A n \in Nat : {} \in D(n)
  BY FS_EmptySet
<1>7. D(Cardinality(Witness)) = SUBSET Witness /\ Cardinality(Witness) \in Nat
  BY FS_Subset, FS_CardinalityType, SlotAssumption
<1> HIDE DEF D
<1>8. 0 \in N
  <2> DEFINE g == [S \in D(0) |-> 0]
  <2>1. g = Adds(f, g, D(0))
    BY <1>2 DEF Adds
  <2> QED BY <2>1
<1>9. ASSUME NEW n \in Nat, n \in N PROVE n + 1 \in N
  <2>1. PICK g : g = Adds(f, g, D(n))
    BY <1>9
  <2> DEFINE h == Adds(f, g, D(n + 1))
  <2>2. \A S \in D(n) : h[S] = g[S]
    <3> SUFFICES ASSUME NEW S \in D(n) PROVE h[S] = Adds(f, g, D(n))[S]
      BY <2>1
    <3>1. S \in D(n + 1)
      BY <1>4
    <3> QED BY <3>1 DEF Adds
  <2>3. h = Adds(f, h, D(n + 1))
    <3> SUFFICES ASSUME NEW S \in D(n + 1), S # {}
                 PROVE  g[S \ {Chosen(S)}] = h[S \ {Chosen(S)}]
      BY DEF Adds
    <3> QED BY <1>3, <2>2
  <2> QED BY <2>3
<1> HIDE DEF N
<1>10. Cardinality(Witness) \in N
  BY <1>7, <1>8, <1>9, NatSetInduction
<1>11. \E g : g = Adds(f, g, SUBSET Witness)
  BY <1>7, <1>10 DEF N
<1> QED BY <1>11 DEF Total

LEMMA TotalOf ==
  ASSUME NEW f
  PROVE  /\ Total(f)[{}] = 0
         /\ \A S \in SUBSET Witness : S # {} =>
              Total(f)[S] = f[Chosen(S)] + Total(f)[S \ {Chosen(S)}]
<1> DEFINE T == Total(f)
<1>1. T = Adds(f, T, SUBSET Witness)
  BY TotalDefined
<1> HIDE DEF T
<1>2. T[{}] = 0
  BY <1>1 DEF Adds
<1>3. ASSUME NEW S \in SUBSET Witness, S # {}
      PROVE  T[S] = f[Chosen(S)] + T[S \ {Chosen(S)}]
  <2>1. T[S] = Adds(f, T, SUBSET Witness)[S]
    BY <1>1
  <2> QED BY <1>3, <2>1 DEF Adds
<1> QED BY <1>2, <1>3 DEF T

LEMMA TotalType ==
  ASSUME NEW f \in [Witness -> Nat]
  PROVE  \A S \in SUBSET Witness : Total(f)[S] \in Nat
<1> DEFINE Q == {S \in SUBSET Witness : Total(f)[S] \in Nat}
<1>1. {} \in Q
  BY TotalOf
<1>2. ASSUME NEW S \in SUBSET Witness, S # {}, S \ {Chosen(S)} \in Q
      PROVE  S \in Q
  <2>1. f[Chosen(S)] \in Nat /\ Total(f)[S \ {Chosen(S)}] \in Nat
    BY <1>2, RemoveChosen
  <2>2. Total(f)[S] = f[Chosen(S)] + Total(f)[S \ {Chosen(S)}]
    BY <1>2, TotalOf
  <2> QED BY <2>1, <2>2
<1> HIDE DEF Q
<1>3. SUBSET Witness \subseteq Q
  BY <1>1, <1>2, SubsetInduction
<1> QED BY <1>3 DEF Q

\* The slots, of m, that are w's.
SlotsOf(w, who, m) == {i \in 1..m : who[i] = w}

\* Slots are numbered, so each is charged to one witness of any set at most:
\* the sum of what the witnesses are charged with is at most their number.
LEMMA ChargedOnce ==
  ASSUME NEW f \in [Witness -> Nat], NEW h \in [Witness -> Nat], NEW m \in Nat, NEW who,
         \A w \in Witness : h[w] <= f[w] + Cardinality(SlotsOf(w, who, m))
  PROVE  Total(h)[Witness] <= Total(f)[Witness] + m
<1> DEFINE C(S) == {i \in 1..m : who[i] \in S}
           Q == {S \in SUBSET Witness : Total(h)[S] <= Total(f)[S] + Cardinality(C(S))}
<1>0. IsFiniteSet(1..m) /\ Cardinality(1..m) = m
  BY FS_Interval
<1>1. \A S : C(S) \subseteq 1..m
  OBVIOUS
<1>2. \A S : IsFiniteSet(C(S)) /\ Cardinality(C(S)) \in Nat /\ Cardinality(C(S)) <= m
  <2> SUFFICES ASSUME NEW S PROVE IsFiniteSet(C(S)) /\ Cardinality(C(S)) \in Nat /\ Cardinality(C(S)) <= m
    OBVIOUS
  <2> HIDE DEF C
  <2>1. IsFiniteSet(C(S)) /\ Cardinality(C(S)) <= m
    BY <1>0, <1>1, FS_Subset
  <2> QED BY <2>1, FS_CardinalityType
<1>3. {} \in Q
  <2>1. Cardinality(C({})) = 0
    <3>1. C({}) = {}
      OBVIOUS
    <3> QED BY <3>1, FS_EmptySet
  <2> QED BY <2>1, TotalOf
<1>4. ASSUME NEW S \in SUBSET Witness, S # {}, S \ {Chosen(S)} \in Q
      PROVE  S \in Q
  <2> DEFINE w == Chosen(S)
             R == S \ {w}
  <2>1. w \in S /\ w \in Witness /\ R \in SUBSET Witness
    BY <1>4, RemoveChosen
  <2>2. C(S) = C(R) \cup C({w}) /\ C(R) \cap C({w}) = {}
    BY <2>1
  <2>3. C({w}) = SlotsOf(w, who, m)
    BY DEF SlotsOf
  <2>4. Total(h)[S] = h[w] + Total(h)[R] /\ Total(f)[S] = f[w] + Total(f)[R]
    BY <1>4, TotalOf
  <2>5. Total(h)[R] \in Nat /\ Total(f)[R] \in Nat /\ h[w] \in Nat /\ f[w] \in Nat
    BY <2>1, TotalType
  <2>6. Total(h)[R] <= Total(f)[R] + Cardinality(C(R))
    BY <1>4
  <2> HIDE DEF C, w, R
  <2>7. Cardinality(C(S)) = Cardinality(C(R)) + Cardinality(C({w}))
    <3>1. Cardinality(C(R) \cup C({w})) =
            Cardinality(C(R)) + Cardinality(C({w})) - Cardinality(C(R) \cap C({w}))
      BY <1>2, FS_Union
    <3>2. Cardinality(C(R) \cap C({w})) = 0
      BY <2>2, FS_EmptySet
    <3>3. Cardinality(C(S)) = Cardinality(C(R) \cup C({w}))
      BY <2>2
    <3>4. Cardinality(C(R)) \in Nat /\ Cardinality(C({w})) \in Nat
      BY <1>2
    <3> QED BY <3>1, <3>2, <3>3, <3>4
  <2>8. h[w] <= f[w] + Cardinality(C({w}))
    BY <2>1, <2>3
  <2>9. Total(h)[S] <= Total(f)[S] + Cardinality(C(S))
    BY <1>2, <2>4, <2>5, <2>6, <2>7, <2>8
  <2> QED BY <2>9
<1> HIDE DEF Q, C
<1>5. Witness \in Q
  BY <1>3, <1>4, SubsetInduction
<1>6. Total(h)[Witness] <= Total(f)[Witness] + Cardinality(C(Witness))
  BY <1>5 DEF Q
<1> QED BY <1>2, <1>6, TotalType

-----------------------------------------------------------------------------
(* Irreversibility.                                                        *)

\* The positions with a value below n, and with one not above n.
Below(c, n) == {i \in DOMAIN c : c[i] < n}

Upto(c, n) == {i \in DOMAIN c : c[i] <= n}

\* What nth_element finds: a value that at most offset of them are below and
\* more than offset of them are not above.
LEMMA NthExists ==
  ASSUME NEW L \in Nat, NEW b \in Nat, NEW c \in [1..L -> 0..b], NEW offset \in Nat, offset < L
  PROVE  \E n \in {c[i] : i \in 1..L} :
           Cardinality(Below(c, n)) <= offset /\ Cardinality(Upto(c, n)) > offset
<1> DEFINE S == {n \in Nat : Cardinality(Upto(c, n)) > offset}
<1>1. \A n : Cardinality(Upto(c, n)) \in Nat
  <2> SUFFICES ASSUME NEW n PROVE Cardinality(Upto(c, n)) \in Nat
    OBVIOUS
  <2>1. IsFiniteSet(1..L)
    BY FS_Interval
  <2>2. Upto(c, n) \in SUBSET (1..L)
    BY DEF Upto
  <2>3. IsFiniteSet(Upto(c, n))
    BY <2>1, <2>2, FS_Subset
  <2> QED BY <2>3, FS_CardinalityType
<1>2. b \in S
  <2>1. Upto(c, b) = 1..L
    BY DEF Upto
  <2>2. Cardinality(1..L) = L
    BY FS_Interval
  <2> QED BY <2>1, <2>2
<1>3. PICK n \in S : \A k \in S : n <= k
  <2>1. S \subseteq Nat /\ S # {}
    BY <1>2
  <2> HIDE DEF S
  <2> QED BY <2>1, Least
<1>4. Cardinality(Below(c, n)) <= offset
  <2>1. CASE n = 0
    <3>1. Below(c, n) = {}
      BY <2>1 DEF Below
    <3> QED BY <3>1, FS_EmptySet
  <2>2. CASE n # 0
    <3>1. Below(c, n) = Upto(c, n - 1)
      BY <2>2 DEF Below, Upto
    <3>2. n - 1 \in Nat /\ n - 1 \notin S
      BY <1>3, <2>2
    <3> QED BY <1>1, <3>1, <3>2
  <2> QED BY <2>1, <2>2
<1>5. n \in {c[i] : i \in 1..L}
  <2> SUFFICES ASSUME \A i \in 1..L : c[i] # n PROVE FALSE
    OBVIOUS
  <2>1. Below(c, n) = Upto(c, n)
    BY DEF Below, Upto
  <2> QED BY <1>1, <1>3, <1>4, <2>1
<1> QED BY <1>3, <1>4, <1>5

\* The round in use.
LEMMA RoundInUse ==
  ASSUME IInv
  PROVE  /\ Len(scheduled) \in Nat \ {0} /\ DOMAIN scheduled = 1..Len(scheduled)
         /\ \A i \in 1..Len(scheduled) : scheduled[i] \in Witness
BY LenProperties, EmptySeq DEF IInv, TypeOK

\* The position update_last_irreversible_block looks at is one of the round's.
LEMMA OffsetInRound ==
  ASSUME IInv
  PROVE  /\ Offset \in Nat /\ Offset < Len(scheduled)
         /\ 100 * Offset <= (100 - Threshold) * Len(scheduled)
<1> DEFINE L == Len(scheduled)
           a == (100 - Threshold) * L
<1>1. L \in Nat \ {0} /\ Threshold \in 51..100
  BY RoundInUse, SlotAssumption
<1>2. a \in Nat /\ a <= 49 * L
  <2> HIDE DEF L
  <2>1. 100 - Threshold \in 0..49
    BY <1>1
  <2>2. \A x \in 0..49 : x * L \in Nat /\ x * L <= 49 * L
    BY <1>1
  <2> QED BY <2>1, <2>2
<1>3. a \div 100 \in Int /\ a = 100 * (a \div 100) + (a % 100) /\ a % 100 \in 0..99
  <2> HIDE DEF a
  <2> QED BY <1>2, DivMod
<1> HIDE DEF a, L
<1>4. a \div 100 \in Nat /\ a \div 100 < L /\ 100 * (a \div 100) <= a
  BY <1>1, <1>2, <1>3
<1> QED BY <1>4 DEF Offset, a, L

\* How far the witnesses of the round have come, after the step.
Confirmed == [i \in DOMAIN scheduled |-> last_confirmed_block_num'[scheduled[i]]]

\* The confirmed block at that position exists, and at most Offset witnesses
\* of the round have not come as far.
LEMMA NthConfirmedIs ==
  ASSUME IInv, NEW b \in Nat, last_confirmed_block_num' \in [Witness -> 0..b]
  PROVE  /\ NthConfirmed(Offset) \in 0..b
         /\ Cardinality(Below(Confirmed, NthConfirmed(Offset))) <= Offset
<1> DEFINE L == Len(scheduled)
           V == {Confirmed[i] : i \in 1..L}
<1>1. L \in Nat /\ DOMAIN scheduled = 1..L /\ \A i \in 1..L : scheduled[i] \in Witness
  BY RoundInUse
<1>2. Confirmed \in [1..L -> 0..b]
  BY <1>1 DEF Confirmed
<1>3. Offset \in Nat /\ Offset < L
  BY OffsetInRound
<1>4. NthConfirmed(Offset) =
        CHOOSE n \in V : Cardinality(Below(Confirmed, n)) <= Offset
                         /\ Cardinality(Upto(Confirmed, n)) > Offset
  <2>1. V = {last_confirmed_block_num'[scheduled[i]] : i \in DOMAIN scheduled}
    BY <1>1 DEF Confirmed
  <2>2. \A n : /\ Below(Confirmed, n) = {i \in DOMAIN scheduled :
                                           last_confirmed_block_num'[scheduled[i]] < n}
               /\ Upto(Confirmed, n) = {i \in DOMAIN scheduled :
                                           last_confirmed_block_num'[scheduled[i]] <= n}
    BY DEF Below, Upto, Confirmed
  <2> HIDE DEF V
  <2> QED BY <2>1, <2>2, Zenon DEF NthConfirmed
<1> HIDE DEF L
<1>5. \E n \in V : Cardinality(Below(Confirmed, n)) <= Offset
                   /\ Cardinality(Upto(Confirmed, n)) > Offset
  BY <1>1, <1>2, <1>3, NthExists
<1>6. V \subseteq 0..b
  BY <1>2
<1> HIDE DEF V
<1> QED BY <1>4, <1>5, <1>6

-----------------------------------------------------------------------------
(* A block is applied.                                                     *)

\* The slot counter and the missed slots.
LEMMA SlotsAdvance ==
  ASSUME IInv, NEW witness \in Witness, NEW t \in GenesisTime..MaxTime,
         apply_block(witness, t)
  PROVE  /\ SlotsSinceGenesis' /\ MissedAtMostOnce' /\ CountsFilledSlots'
         /\ recent_slots_filled' \subseteq 0..SlotBits - 1 /\ total_missed' \in [Witness -> Nat]
         /\ current_aslot' \in Nat /\ current_aslot' > current_aslot
<1> DEFINE slot == get_slot_at_time(t)
           m == slot - 1
           who == [i \in 1..m |-> get_scheduled_witness(i)]
<1>1. t \in Nat /\ slot > 0 /\ time \in Nat /\ current_aslot \in Nat
      /\ total_missed \in [Witness -> Nat] /\ head_block_number \in Nat
  BY SlotAssumption DEF apply_block, validate_block_header, IInv, TypeOK
<1>2. slot \in Nat \ {0} /\ slot = t \div Interval - time \div Interval
  BY <1>1, SlotAtTime
<1>3. /\ total_missed' = [w \in Witness |-> total_missed[w] + MissedBy(w, witness, m)]
      /\ recent_slots_filled' = ShiftSlots(m).bits /\ participation_count' = ShiftSlots(m).count
      /\ head_block_number' = head_block_number + 1 /\ time' = t
      /\ current_aslot' = current_aslot + m + 1
  BY DEF apply_block, update_global_dynamic_data
<1> HIDE DEF slot
<1>4. m \in Nat /\ current_aslot' = current_aslot + slot
  BY <1>1, <1>2, <1>3
<1>5. SlotsSinceGenesis'
  <2>1. /\ (time - GenesisTime) \div Interval = time \div Interval - GenesisTime \div Interval
        /\ (t - GenesisTime) \div Interval = t \div Interval - GenesisTime \div Interval
        /\ {time \div Interval, t \div Interval, GenesisTime \div Interval} \subseteq Int
    BY <1>1, SlotOfTime
  <2>2. current_aslot = (time - GenesisTime) \div Interval
    BY DEF IInv, SlotsCounted, SlotsSinceGenesis
  <2>3. current_aslot' = (t - GenesisTime) \div Interval
    BY <1>1, <1>2, <1>4, <2>1, <2>2
  <2> QED BY <1>3, <2>3 DEF SlotsSinceGenesis
<1>6. Counted(ShiftSlots(m))
  <2> HIDE DEF m
  <2> QED BY <1>4, ShiftSlotsCounts DEF IInv, TypeOK, SlotsCounted
<1>7. CountsFilledSlots' /\ recent_slots_filled' \subseteq 0..SlotBits - 1
  BY <1>3, <1>6 DEF Counted, CountsFilledSlots
<1>8. \A w \in Witness : /\ MissedBy(w, witness, m) \in Nat
                         /\ Cardinality(SlotsOf(w, who, m)) \in Nat
                         /\ MissedBy(w, witness, m) <= Cardinality(SlotsOf(w, who, m))
  <2> SUFFICES ASSUME NEW w \in Witness
               PROVE  /\ MissedBy(w, witness, m) \in Nat
                      /\ Cardinality(SlotsOf(w, who, m)) \in Nat
                      /\ MissedBy(w, witness, m) <= Cardinality(SlotsOf(w, who, m))
    OBVIOUS
  <2> DEFINE I == {i \in 1..m : get_scheduled_witness(i) = w}
  <2>1. SlotsOf(w, who, m) = I
    BY DEF SlotsOf
  <2>2. SlotsOf(w, who, m) \in SUBSET (1..m) /\ IsFiniteSet(1..m)
    BY <1>4, FS_Interval DEF SlotsOf
  <2>3. MissedBy(w, witness, m) = IF w = witness THEN 0 ELSE Cardinality(I)
    BY DEF MissedBy
  <2> HIDE DEF I, m, who
  <2>4. IsFiniteSet(SlotsOf(w, who, m))
    BY <2>2, FS_Subset
  <2>5. Cardinality(SlotsOf(w, who, m)) \in Nat
    BY <2>4, FS_CardinalityType
  <2> QED BY <2>1, <2>3, <2>5
<1> HIDE DEF m, who
<1>9. total_missed' \in [Witness -> Nat]
  <2>1. \A w \in Witness : total_missed[w] + MissedBy(w, witness, m) \in Nat
    BY <1>1, <1>8
  <2> QED BY <1>3, <2>1
<1>10. \A w \in Witness : total_missed'[w] <= total_missed[w] + Cardinality(SlotsOf(w, who, m))
  BY <1>1, <1>3, <1>8
<1>11. Total(total_missed')[Witness] <= Total(total_missed)[Witness] + m
  BY <1>1, <1>4, <1>9, <1>10, ChargedOnce
<1>12. Total(total_missed)[Witness] \in Nat /\ Total(total_missed')[Witness] \in Nat
  BY <1>1, <1>9, TotalType
<1>13. head_block_number + Total(total_missed)[Witness] <= current_aslot
  BY DEF IInv, SlotsCounted, MissedAtMostOnce, Total, Adds, Chosen
<1>14. head_block_number' + Total(total_missed')[Witness] <= current_aslot'
  BY <1>1, <1>3, <1>4, <1>11, <1>12, <1>13
<1>15. MissedAtMostOnce'
  BY <1>14 DEF MissedAtMostOnce, Total, Adds, Chosen
<1>16. current_aslot' \in Nat /\ current_aslot' > current_aslot
  BY <1>1, <1>2, <1>4
<1> QED BY <1>5, <1>7, <1>9, <1>15, <1>16

\* The witnesses' last blocks and who signed what.
LEMMA SignerRecorded ==
  ASSUME IInv, NEW witness \in Witness, NEW t \in GenesisTime..MaxTime,
         apply_block(witness, t)
  PROVE  /\ head_block_number' = head_block_number + 1 /\ head_block_number' \in 1..MaxHeight
         /\ last_confirmed_block_num' \in [Witness -> 0..head_block_number']
         /\ last_confirmed_block_num'[witness] = head_block_number'
         /\ \A w \in Witness : w # witness =>
              last_confirmed_block_num'[w] = last_confirmed_block_num[w]
         /\ ConfirmedSigned'
<1> DEFINE h == head_block_number
           new == last_confirmed_block_num'
<1>1. /\ h \in 0..MaxHeight /\ h < MaxHeight /\ h' = h + 1
      /\ new = [last_confirmed_block_num EXCEPT ![witness] = h']
      /\ signers' = Append(signers, witness)
      /\ last_confirmed_block_num \in [Witness -> 0..h]
  BY DEF apply_block, update_global_dynamic_data, update_signing_witness, IInv, TypeOK
<1>2. h' \in 1..MaxHeight /\ h \in Nat
  BY <1>1, SlotAssumption
<1>3. /\ new \in [Witness -> 0..h'] /\ new[witness] = h'
      /\ \A w \in Witness : w # witness => new[w] = last_confirmed_block_num[w]
  BY <1>1, <1>2
<1>4. signers \in Seq(Witness) /\ Len(signers) = h
      /\ \A w \in Witness : last_confirmed_block_num[w] # 0 => signers[last_confirmed_block_num[w]] = w
  BY DEF IInv, ConfirmedSigned
<1>5. /\ signers' \in Seq(Witness) /\ Len(signers') = h' /\ signers'[h'] = witness
      /\ \A n \in 1..h : signers'[n] = signers[n]
  BY <1>1, <1>4
<1>6. \A w \in Witness : new[w] # 0 => signers'[new[w]] = w
  <2> SUFFICES ASSUME NEW w \in Witness, new[w] # 0 PROVE signers'[new[w]] = w
    OBVIOUS
  <2>1. CASE w = witness
    BY <1>3, <1>5, <2>1
  <2>2. CASE w # witness
    <3>1. new[w] = last_confirmed_block_num[w] /\ new[w] \in 1..h
      BY <1>1, <1>2, <1>3, <2>2
    <3> QED BY <1>4, <1>5, <3>1
  <2> QED BY <2>1, <2>2
<1>7. ConfirmedSigned'
  BY <1>5, <1>6 DEF ConfirmedSigned
<1> QED BY <1>1, <1>2, <1>3, <1>7

LEMMA StepApplyBlock ==
  ASSUME IInv, NEW witness \in Witness, NEW t \in GenesisTime..MaxTime,
         apply_block(witness, t)
  PROVE  IInv'
<1>1. /\ SlotsSinceGenesis' /\ MissedAtMostOnce' /\ CountsFilledSlots'
      /\ recent_slots_filled' \subseteq 0..SlotBits - 1 /\ total_missed' \in [Witness -> Nat]
      /\ current_aslot' \in Nat /\ current_aslot' > current_aslot
  BY SlotsAdvance
<1>2. /\ head_block_number' = head_block_number + 1 /\ head_block_number' \in 1..MaxHeight
      /\ last_confirmed_block_num' \in [Witness -> 0..head_block_number'] /\ ConfirmedSigned'
  BY SignerRecorded
<1>3. participation_count' \in 0..SlotBits
  <2>1. IsFiniteSet(0..SlotBits - 1) /\ Cardinality(0..SlotBits - 1) = SlotBits
    BY FS_Interval, SlotAssumption
  <2>2. IsFiniteSet(recent_slots_filled') /\ Cardinality(recent_slots_filled') <= SlotBits
    BY <1>1, <2>1, FS_Subset
  <2>3. Cardinality(recent_slots_filled') \in Nat
    BY <2>2, FS_CardinalityType
  <2> QED BY <1>1, <2>2, <2>3, SlotAssumption DEF CountsFilledSlots
<1>4. last_irreversible_block_num' \in 0..head_block_number'
  <2>1. NthConfirmed(Offset) \in 0..head_block_number'
    BY <1>2, NthConfirmedIs
  <2>2. last_irreversible_block_num \in 0..head_block_number /\ head_block_number \in Nat
    BY DEF IInv, TypeOK
  <2> QED BY <1>2, <2>1, <2>2 DEF apply_block, update_last_irreversible_block
<1>5. last_aslot' \in [Witness -> 0..current_aslot']
  <2>1. last_aslot' = [last_aslot EXCEPT ![witness] = current_aslot']
        /\ last_aslot \in [Witness -> 0..current_aslot] /\ current_aslot \in Nat
    BY DEF apply_block, update_signing_witness, IInv, TypeOK
  <2> QED BY <1>1, <2>1
<1>6. scheduled' \in Seq(Witness) /\ scheduled' # <<>> /\ RoundDistinct'
  <2>1. CASE scheduled' = scheduled
    BY <2>1 DEF IInv, TypeOK, RoundDistinct
  <2>2. CASE scheduled' \in Rounds
    <3>1. PICK n \in 1..MaxWitnesses : scheduled' \in [1..n -> Witness]
      BY <2>2 DEF Rounds
    <3>2. n \in Nat \ {0}
      BY SlotAssumption
    <3>3. scheduled' \in Seq(Witness) /\ Len(scheduled') = n
      BY <3>1, <3>2
    <3> QED BY <2>2, <3>2, <3>3, EmptySeq DEF Rounds, RoundDistinct
  <2> QED BY <2>1, <2>2 DEF apply_block, update_witness_schedule
<1>7. time' = t
  BY DEF apply_block, update_global_dynamic_data
<1>8. TypeOK'
  <2>1. time' \in GenesisTime..MaxTime /\ head_block_number' \in 0..MaxHeight
    BY <1>2, <1>7, SlotAssumption
  <2> QED BY <1>1, <1>2, <1>3, <1>4, <1>5, <1>6, <2>1 DEF TypeOK
<1>9. StartsAtGenesis'
  BY <1>2 DEF StartsAtGenesis
<1> QED BY <1>1, <1>2, <1>6, <1>8, <1>9 DEF IInv, SlotsCounted

\* What stands behind a block that becomes irreversible.
LEMMA Backed ==
  ASSUME IInv, NEW witness \in Witness, NEW t \in GenesisTime..MaxTime,
         apply_block(witness, t), last_irreversible_block_num' > last_irreversible_block_num
  PROVE  LET backers == {i \in DOMAIN scheduled :
                           \E n \in last_irreversible_block_num'..head_block_number' :
                             signers'[n] = scheduled[i]}
         IN /\ 100 * Cardinality(backers) >= Threshold * Len(scheduled)
            /\ Len(scheduled) > 1 => last_irreversible_block_num' < head_block_number'
<1> DEFINE lib == last_irreversible_block_num'
           L == Len(scheduled)
           back == {i \in DOMAIN scheduled :
                      \E n \in lib..head_block_number' : signers'[n] = scheduled[i]}
           behind == Below(Confirmed, lib)
<1>1. /\ head_block_number' \in Nat \ {0}
      /\ last_confirmed_block_num' \in [Witness -> 0..head_block_number']
      /\ last_confirmed_block_num'[witness] = head_block_number'
      /\ \A w \in Witness : w # witness =>
           last_confirmed_block_num'[w] = last_confirmed_block_num[w]
      /\ head_block_number' = head_block_number + 1 /\ ConfirmedSigned'
  <2>1. head_block_number' \in 1..MaxHeight
    BY SignerRecorded
  <2> QED BY <2>1, SignerRecorded, SlotAssumption
<1>2. lib = NthConfirmed(Offset) /\ lib \in Nat \ {0} /\ lib <= head_block_number'
      /\ Cardinality(behind) <= Offset
  <2>1. NthConfirmed(Offset) \in 0..head_block_number'
        /\ Cardinality(Below(Confirmed, NthConfirmed(Offset))) <= Offset
    BY <1>1, NthConfirmedIs
  <2>2. lib = NthConfirmed(Offset) /\ last_irreversible_block_num \in Nat
    BY DEF apply_block, update_last_irreversible_block, IInv, TypeOK
  <2> QED BY <1>1, <2>1, <2>2
<1>3. L \in Nat \ {0} /\ DOMAIN scheduled = 1..L /\ \A i \in 1..L : scheduled[i] \in Witness
  BY RoundInUse
<1>4. Confirmed \in [1..L -> 0..head_block_number']
      /\ \A i \in 1..L : Confirmed[i] = last_confirmed_block_num'[scheduled[i]]
  BY <1>1, <1>3 DEF Confirmed
<1>5. IsFiniteSet(1..L) /\ Cardinality(1..L) = L
  BY <1>3, FS_Interval
<1>6. behind \in SUBSET (1..L) /\ back \in SUBSET (1..L) /\ (1..L) \ behind \subseteq back
  <2>1. behind \in SUBSET (1..L)
    BY <1>4 DEF Below
  <2>2. back \in SUBSET (1..L)
    BY <1>3
  <2>3. ASSUME NEW i \in 1..L, i \notin behind PROVE i \in back
    <3> DEFINE n == Confirmed[i]
    <3>1. n \in lib..head_block_number' /\ n # 0
      BY <1>1, <1>2, <1>4, <2>3 DEF Below
    <3>2. signers'[n] = scheduled[i]
      BY <1>1, <1>3, <1>4, <3>1 DEF ConfirmedSigned
    <3> QED BY <1>3, <3>1, <3>2
  <2> QED BY <2>1, <2>2, <2>3
<1> HIDE DEF lib, L, back, behind
<1>7. Offset \in Nat /\ 100 * Offset <= (100 - Threshold) * L
  BY OffsetInRound DEF L
<1> DEFINE rest == (1..L) \ behind
<1>8. /\ Cardinality(behind) \in Nat /\ Cardinality(rest) = L - Cardinality(behind)
      /\ IsFiniteSet(back) /\ Cardinality(back) \in Nat
  <2>1. IsFiniteSet(behind) /\ IsFiniteSet(back)
    BY <1>5, <1>6, FS_Subset
  <2>2. (1..L) \cap behind = behind
    BY <1>6
  <2>3. Cardinality(rest) = L - Cardinality(behind)
    <3> DEFINE all == 1..L
    <3>1. IsFiniteSet(all) /\ Cardinality(all) = L /\ all \cap behind = behind
      BY <1>5, <2>2
    <3> HIDE DEF all
    <3>2. Cardinality(all \ behind) = L - Cardinality(behind)
      BY <3>1, FS_Difference
    <3> QED BY <3>2 DEF all
  <2> QED BY <2>1, <2>3, FS_CardinalityType
<1>9. 100 * Cardinality(back) >= Threshold * L
  <2>1. rest \in SUBSET back
    BY <1>6
  <2> HIDE DEF rest
  <2>2. Cardinality(rest) <= Cardinality(back)
    BY <1>8, <2>1, FS_Subset
  <2>3. Cardinality(back) >= L - Offset
    BY <1>2, <1>3, <1>7, <1>8, <2>2
  <2>4. Threshold \in Nat /\ 100 * (L - Offset) >= Threshold * L
    BY <1>3, <1>7, SlotAssumption
  <2> QED BY <1>3, <1>7, <1>8, <2>3, <2>4
<1>10. ASSUME L > 1 PROVE lib < head_block_number'
  <2> SUFFICES ASSUME lib = head_block_number' PROVE FALSE
    BY <1>1, <1>2
  <2>1. \A i \in 1..L : scheduled[i] # witness => i \in behind
    <3> SUFFICES ASSUME NEW i \in 1..L, scheduled[i] # witness PROVE Confirmed[i] < lib
      BY <1>4 DEF behind, Below
    <3>1. last_confirmed_block_num[scheduled[i]] \in 0..head_block_number /\ head_block_number \in Nat
      BY <1>3 DEF IInv, TypeOK
    <3> QED BY <1>1, <1>3, <1>4, <3>1
  <2>2. \A i, j \in rest : i = j
    BY <1>3, <2>1 DEF IInv, RoundDistinct
  <2> HIDE DEF rest
  <2>3. Cardinality(rest) <= 1
    <3>1. CASE rest = {}
      BY <3>1, FS_EmptySet
    <3>2. CASE rest # {}
      <4>1. PICK i : i \in rest
        BY <3>2
      <4>2. rest = {i}
        BY <2>2, <4>1
      <4>3. Cardinality({i}) = 1
        BY FS_Singleton
      <4> QED BY <4>2, <4>3
    <3> QED BY <3>1, <3>2
  <2>4. Offset >= L - 1
    BY <1>2, <1>3, <1>7, <1>8, <2>3
  <2>5. (100 - Threshold) * L <= 49 * L
    <3>1. 100 - Threshold \in 0..49
      BY SlotAssumption
    <3>2. \A x \in 0..49 : x * L <= 49 * L
      BY <1>3
    <3> QED BY <3>1, <3>2
  <2> QED BY <1>3, <1>7, <1>10, <2>4, <2>5, SlotAssumption
<1> QED BY <1>9, <1>10 DEF lib, L, back

-----------------------------------------------------------------------------
(* The theorems.                                                           *)

LEMMA Initial == Init => IInv
<1> SUFFICES ASSUME Init PROVE IInv
  OBVIOUS
<1>1. IsFiniteSet(0..SlotBits - 1) /\ Cardinality(0..SlotBits - 1) = SlotBits
  BY FS_Interval, SlotAssumption
<1>2. scheduled \in Seq(Witness) /\ scheduled # <<>> /\ DOMAIN scheduled = {1}
  BY SlotAssumption DEF Init
<1>3. TypeOK
  BY <1>2, SlotAssumption DEF Init, TypeOK
<1>4. CountsFilledSlots
  BY <1>1 DEF Init, CountsFilledSlots
<1>5. SlotsSinceGenesis
  <2>1. GenesisTime - GenesisTime = 0 /\ 0 = Interval * 0 + 0 /\ Interval \in Nat \ {0}
    BY SlotAssumption
  <2>2. 0 \div Interval = 0
    BY <2>1, DivUnique
  <2> QED BY <2>1, <2>2 DEF Init, SlotsSinceGenesis
<1>6. MissedAtMostOnce
  <2> DEFINE Q == {S \in SUBSET Witness : Total(total_missed)[S] = 0}
  <2>1. {} \in Q
    BY TotalOf
  <2>2. ASSUME NEW S \in SUBSET Witness, S # {}, S \ {Chosen(S)} \in Q PROVE S \in Q
    <3>1. total_missed[Chosen(S)] = 0
      BY <2>2, RemoveChosen DEF Init
    <3>2. Total(total_missed)[S] = total_missed[Chosen(S)] + Total(total_missed)[S \ {Chosen(S)}]
      BY <2>2, TotalOf
    <3> QED BY <2>2, <3>1, <3>2
  <2> HIDE DEF Q
  <2>3. Witness \in Q
    BY <2>1, <2>2, SubsetInduction
  <2>4. head_block_number + Total(total_missed)[Witness] <= current_aslot
    BY <2>3 DEF Q, Init
  <2> QED BY <2>4 DEF MissedAtMostOnce, Total, Adds, Chosen
<1>7. RoundDistinct /\ StartsAtGenesis
  BY <1>2 DEF Init, RoundDistinct, StartsAtGenesis
<1>8. ConfirmedSigned
  BY DEF Init, ConfirmedSigned
<1> QED BY <1>3, <1>4, <1>5, <1>6, <1>7, <1>8 DEF IInv, SlotsCounted

LEMMA Stutter ==
  ASSUME IInv, UNCHANGED vars
  PROVE  IInv'
<1>1. TypeOK' /\ RoundDistinct' /\ ConfirmedSigned' /\ StartsAtGenesis'
  BY DEF vars, IInv, TypeOK, RoundDistinct, ConfirmedSigned, StartsAtGenesis
<1>2. CountsFilledSlots' /\ SlotsSinceGenesis'
  BY DEF vars, IInv, SlotsCounted, CountsFilledSlots, SlotsSinceGenesis
<1>3. MissedAtMostOnce'
  <2>1. head_block_number + Total(total_missed)[Witness] <= current_aslot
    BY DEF IInv, SlotsCounted, MissedAtMostOnce, Total, Adds, Chosen
  <2>2. total_missed' = total_missed /\ head_block_number' = head_block_number
        /\ current_aslot' = current_aslot
    BY DEF vars
  <2>3. head_block_number' + Total(total_missed')[Witness] <= current_aslot'
    BY <2>1, <2>2
  <2> QED BY <2>3 DEF MissedAtMostOnce, Total, Adds, Chosen
<1> QED BY <1>1, <1>2, <1>3 DEF IInv, SlotsCounted

\* The invariant is inductive.
THEOREM Invariant == Spec => []IInv
<1>1. ASSUME IInv, [Next]_vars
      PROVE  IInv'
  BY <1>1, StepApplyBlock, Stutter DEF Next
<1> QED BY <1>1, Initial, PTL DEF Spec

\* Type correctness; in particular the last irreversible block is one there
\* is, and no witness has confirmed a block beyond the head.
THEOREM TypeCorrect == Spec => []TypeOK
<1>1. IInv => TypeOK
  BY DEF IInv
<1> QED BY <1>1, Invariant, PTL

\* For any block interval, any width of recent_slots_filled and any run of
\* missed slots the counts of update_global_dynamic_data are exact.
THEOREM CountingCorrect == Spec => []SlotsCounted
<1>1. IInv => SlotsCounted
  BY DEF IInv
<1> QED BY <1>1, Invariant, PTL

\* For any round of witnesses and any threshold above a half, a block becomes
\* irreversible only with the signatures of the threshold behind it.
THEOREM IrreversibilityCorrect == Spec => BackedByThreshold
<1>1. ASSUME IInv, [Next]_vars
      PROVE  [last_irreversible_block_num' > last_irreversible_block_num =>
      LET backers == {i \in DOMAIN scheduled :
                        \E n \in last_irreversible_block_num'..head_block_number' :
                          signers'[n] = scheduled[i]}
      IN /\ 100 * Cardinality(backers) >= Threshold * Len(scheduled)
         /\ Len(scheduled) > 1 => last_irreversible_block_num' < head_block_number']_vars
  BY <1>1, Backed DEF Next
<1> QED BY <1>1, Invariant, PTL DEF Spec, BackedByThreshold
=============================================================================
