----------------------------- MODULE ChainProofs -----------------------------
(***************************************************************************)
(* Proofs about ChainDatabase, for any tree of blocks, any validity and    *)
(* any irreversible numbers that consensus allows: with crashes, replays,  *)
(* failed and successful fork switches in any order, the block log is one  *)
(* chain, the irreversible part of the state is on it and stays.           *)
(***************************************************************************)
EXTENDS ChainDatabase, FiniteSetTheorems, SequenceTheorems, WellFoundedInduction, TLAPS

-----------------------------------------------------------------------------
(* Branches: a block's ancestors are its prefixes.                         *)

\* The first n labels of a block are a sequence of n labels.
LEMMA UpToIs ==
  ASSUME NEW b \in Seq(Label), NEW n \in 0..Len(b)
  PROVE  /\ UpTo(b, n) \in Seq(Label) /\ Len(UpTo(b, n)) = n
         /\ \A i \in 1..n : UpTo(b, n)[i] = b[i]
  BY DEF UpTo

\* Sequences of the same length and labels are the same block.
LEMMA SameLabels ==
  ASSUME NEW b \in Seq(Label), NEW c \in Seq(Label), Len(b) = Len(c),
         \A i \in 1..Len(b) : b[i] = c[i]
  PROVE  b = c
  BY SeqEqual

\* A block is its own last ancestor.
LEMMA UpToAll ==
  ASSUME NEW b \in Seq(Label)
  PROVE  UpTo(b, Len(b)) = b
<1>1. UpTo(b, Len(b)) \in Seq(Label) /\ Len(UpTo(b, Len(b))) = Len(b)
      /\ \A i \in 1..Len(b) : UpTo(b, Len(b))[i] = b[i]
  BY UpToIs
<1> QED BY <1>1, SameLabels

\* An ancestor of an ancestor is an ancestor.
LEMMA UpToUpTo ==
  ASSUME NEW b \in Seq(Label), NEW n \in 0..Len(b), NEW m \in 0..n
  PROVE  UpTo(UpTo(b, n), m) = UpTo(b, m)
<1> DEFINE c == UpTo(b, n)
<1>1. c \in Seq(Label) /\ Len(c) = n /\ \A i \in 1..n : c[i] = b[i]
  BY UpToIs
<1>2. UpTo(b, m) \in Seq(Label) /\ Len(UpTo(b, m)) = m /\ \A i \in 1..m : UpTo(b, m)[i] = b[i]
  BY UpToIs
<1> HIDE DEF c
<1>3. UpTo(c, m) \in Seq(Label) /\ Len(UpTo(c, m)) = m /\ \A i \in 1..m : UpTo(c, m)[i] = c[i]
  BY <1>1, UpToIs
<1>4. UpTo(c, m) = UpTo(b, m)
  BY <1>1, <1>2, <1>3, SameLabels
<1> QED BY <1>4 DEF c

\* Blocks with a common ancestor have its ancestors in common.
LEMMA CommonBelow ==
  ASSUME NEW b \in Seq(Label), NEW c \in Seq(Label), NEW n \in 0..Len(b), n <= Len(c),
         UpTo(b, n) = UpTo(c, n), NEW m \in 0..n
  PROVE  UpTo(b, m) = UpTo(c, m)
<1>1. n \in 0..Len(c)
  OBVIOUS
<1>2. UpTo(UpTo(b, n), m) = UpTo(b, m) /\ UpTo(UpTo(c, n), m) = UpTo(c, m)
  BY <1>1, UpToUpTo
<1> QED BY <1>2

\* The zero id is everybody's first ancestor.
LEMMA UpToNone ==
  ASSUME NEW b \in Seq(Label)
  PROVE  UpTo(b, 0) = NoBlock
<1>1. UpTo(b, 0) \in Seq(Label) /\ Len(UpTo(b, 0)) = 0
  BY UpToIs
<1> QED BY <1>1, EmptySeq DEF NoBlock

\* Every block is a sequence of labels, and there is one before it.
LEMMA BlockIs ==
  ASSUME NEW b \in Block
  PROVE  b \in Seq(Label) /\ Len(b) \in Nat \ {0} /\ b # NoBlock /\ Lib[b] \in 0..Len(b)
<1>1. b \in Seq(Label) /\ b # <<>>
  BY BlockAssumption
<1>2. Len(b) \in Nat /\ Len(b) # 0
  BY <1>1, EmptySeq
<1> QED BY <1>1, <1>2, LibAssumption DEF NoBlock

\* Every set of naturals has a least element.
LEMMA Least ==
  ASSUME NEW S, S \subseteq Nat, S # {}
  PROVE  \E m \in S : \A n \in S : m <= n
<1>1. PICK m \in S : \A n \in S : <<n, m>> \notin OpToRel(<, Nat)
  BY NatLessThanWellFounded, WFMin, Zenon
<1>2. \A n \in S : ~(n < m)
  BY <1>1 DEF OpToRel
<1> QED BY <1>2

\* What the ancestors of a block are.
Ancestor(b, n) ==
  /\ UpTo(b, n) \in Block
  /\ Lib[UpTo(b, n)] <= Lib[b]
  /\ b \in Valid => UpTo(b, n) \in Valid

\* The ancestors of a block are blocks, valid if it is, and make no more
\* blocks irreversible than it does.
LEMMA AncestorIs ==
  ASSUME NEW b \in Block, NEW n \in 1..Len(b)
  PROVE  Ancestor(b, n)
<1> DEFINE len == Len(b)
           S == {k \in 0..len - 1 : ~Ancestor(b, len - k)}
<1>1. b \in Seq(Label) /\ len \in Nat \ {0}
  BY BlockIs
<1> SUFFICES ASSUME S # {} PROVE FALSE
  <2>1. len - n \in 0..len - 1 /\ len - (len - n) = n
    BY <1>1
  <2> HIDE DEF len
  <2> QED BY <2>1
<1> HIDE DEF len
<1>2. PICK k \in S : \A m \in S : k <= m
  <2>1. S \subseteq Nat
    BY <1>1
  <2> HIDE DEF S
  <2> QED BY <2>1, Least
<1>3. k # 0
  <2>1. UpTo(b, len) = b
    BY <1>1, UpToAll DEF len
  <2>2. Lib[b] \in Nat
    BY LibAssumption
  <2>3. Ancestor(b, len)
    BY <2>1, <2>2 DEF Ancestor
  <2>4. k = 0 => len - k = len
    BY <1>1
  <2> QED BY <1>2, <2>3, <2>4
<1>4. k - 1 \in 0..len - 1 /\ k - 1 \notin S
  <2>1. k \in 0..len - 1
    BY <1>2
  <2> HIDE DEF S
  <2> QED BY <1>1, <1>2, <1>3, <2>1
<1> DEFINE p == len - k
           c == UpTo(b, p + 1)
<1>5. p \in 1..len - 1 /\ len - (k - 1) = p + 1
  BY <1>1, <1>2, <1>3
<1>6. Ancestor(b, p + 1) /\ ~Ancestor(b, p)
  BY <1>2, <1>4, <1>5
<1> HIDE DEF p, S
<1>7. Len(c) = p + 1 /\ c \in Seq(Label)
  BY <1>1, <1>5, UpToIs DEF len
<1>8. previous(c) = UpTo(b, p)
  <2>1. UpTo(UpTo(b, p + 1), p) = UpTo(b, p)
    BY <1>1, <1>5, UpToUpTo DEF len
  <2> QED BY <1>5, <1>7, <2>1 DEF previous
<1>9. c \in Block /\ Lib[c] <= Lib[b] /\ (b \in Valid => c \in Valid)
  BY <1>6 DEF Ancestor
<1> HIDE DEF c
<1>10. previous(c) \in Block /\ Lib[previous(c)] <= Lib[c] /\ (c \in Valid => previous(c) \in Valid)
  <2>1. Len(c) > 1
    BY <1>5, <1>7
  <2>2. SubSeq(c, 1, Len(c) - 1) \in Block
    BY <1>9, <2>1, BlockAssumption
  <2> QED BY <1>9, <2>1, <2>2, LibAssumption DEF previous, UpTo
<1>11. Lib[previous(c)] \in Nat /\ Lib[c] \in Nat /\ Lib[b] \in Nat
  BY <1>9, <1>10, LibAssumption
<1> QED BY <1>6, <1>8, <1>9, <1>10, <1>11 DEF Ancestor

\* Two branches part somewhere below the second tip.
LEMMA ForkPointIs ==
  ASSUME NEW first \in Seq(Label), NEW second \in Seq(Label),
         second # NoBlock, Len(first) > Len(second)
  PROVE  /\ ForkPoint(first, second) \in 0..Len(second) - 1
         /\ UpTo(first, ForkPoint(first, second)) = UpTo(second, ForkPoint(first, second))
<1> DEFINE top == Len(second) - 1
           Common(n) == UpTo(first, n) = UpTo(second, n)
           S == {k \in 0..top : Common(top - k)}
<1>1. top \in Nat /\ Len(second) = top + 1
  BY EmptySeq DEF NoBlock
<1>2. Common(0)
  BY UpToNone
<1> HIDE DEF top, Common
<1>3. top \in S
  <2>1. top - top = 0 /\ top \in 0..top
    BY <1>1
  <2> QED BY <1>2, <2>1
<1>4. S \subseteq 0..top /\ S \subseteq Nat /\ S # {}
  <2>1. S \subseteq 0..top
    OBVIOUS
  <2> HIDE DEF S
  <2> QED BY <1>1, <1>3, <2>1
<1>5. PICK k \in S : \A m \in S : k <= m
  <2> HIDE DEF S
  <2> QED BY <1>4, Least
<1> DEFINE n == top - k
<1>6. n \in 0..top /\ Common(n)
  BY <1>1, <1>5
<1>7. \A m \in n + 1..top : ~Common(m)
  <2> SUFFICES ASSUME NEW m \in n + 1..top, Common(m) PROVE FALSE
    OBVIOUS
  <2>1. top - m \in 0..top /\ top - (top - m) = m /\ top - m < k
    BY <1>1, <1>4, <1>5
  <2>2. top - m \in S
    BY <2>1
  <2>3. k <= top - m
    BY <1>5, <2>2
  <2> HIDE DEF S, n
  <2> QED BY <1>1, <1>4, <2>1, <2>3
<1> HIDE DEF n, S
<1>8. \E x \in 0..top : Common(x) /\ \A m \in x + 1..top : ~Common(m)
  BY <1>6, <1>7
<1>9. \E x \in 0..Len(second) - 1 :
        /\ UpTo(first, x) = UpTo(second, x)
        /\ \A m \in x + 1..Len(second) - 1 : UpTo(first, m) # UpTo(second, m)
  BY <1>8 DEF top, Common
<1> QED BY <1>9 DEF ForkPoint

\* A block of b's branch that is in the fork database is what is fetched at
\* its height, if anything is, from the side of any tip of the same branch.
LEMMA FetchOwn ==
  ASSUME IsFiniteSet(index), NEW b, NEW tip, NEW held, NEW n \in Nat,
         UpTo(b, n) \in index, Len(UpTo(b, n)) = n, UpTo(tip, n) = UpTo(b, n),
         FetchOnMainBranch(tip, n, held) # NoBlock
  PROVE  FetchOnMainBranch(tip, n, held) = UpTo(b, n)
<1> DEFINE blocks == {c \in index : Len(c) = n}
<1>1. UpTo(b, n) \in blocks
  OBVIOUS
<1>2. IsFiniteSet(blocks)
  BY FS_Subset
<1>3. FetchOnMainBranch(tip, n, held) =
        IF Cardinality(blocks) = 1 THEN CHOOSE c \in blocks : TRUE
        ELSE IF blocks # {} /\ n <= Len(tip) /\ LinkedDownTo(tip, n, held)
        THEN UpTo(tip, n) ELSE NoBlock
  BY DEF FetchOnMainBranch
<1> HIDE DEF blocks
<1>4. ASSUME Cardinality(blocks) = 1 PROVE (CHOOSE c \in blocks : TRUE) = UpTo(b, n)
  <2>1. Cardinality(blocks \ {UpTo(b, n)}) = 0 /\ IsFiniteSet(blocks \ {UpTo(b, n)})
    BY <1>1, <1>2, <1>4, FS_RemoveElement
  <2>2. blocks \ {UpTo(b, n)} = {}
    BY <2>1, FS_EmptySet
  <2>3. (CHOOSE c \in blocks : TRUE) \in blocks
    BY <1>1
  <2> QED BY <2>2, <2>3
<1> QED BY <1>3, <1>4

-----------------------------------------------------------------------------
(* What the invariant says of the parts of the state.                      *)

\* Both heads and both tips are blocks or none.
LEMMA Heads ==
  ASSUME TypeOK
  PROVE  /\ head \in Seq(Label) /\ Len(head) \in Nat
         /\ head # NoBlock => /\ head \in Valid /\ head \in Block
                              /\ Len(head) > 0 /\ Lib[head] \in 0..Len(head)
         /\ fork_head \in Seq(Label) /\ Len(fork_head) \in Nat
         /\ target \in Seq(Label) /\ origin \in Seq(Label)
         /\ Len(target) \in Nat /\ Len(origin) \in Nat
         /\ Len(block_log) \in Nat /\ committed \in Nat
<1>1. NoBlock \in Seq(Label) /\ Len(NoBlock) = 0
  BY EmptySeq DEF NoBlock
<1>2. head \in Valid \cup {NoBlock} /\ {fork_head, target, origin} \subseteq Block \cup {NoBlock}
      /\ block_log \in Seq(Block) /\ committed \in Nat
  BY DEF TypeOK, ForkTypeOK
<1>3. Valid \subseteq Block
  BY LibAssumption
<1>4. \A b \in Block : b \in Seq(Label) /\ Len(b) \in Nat /\ Len(b) > 0 /\ Lib[b] \in 0..Len(b)
  BY BlockIs
<1>5. head \in Seq(Label) /\ fork_head \in Seq(Label) /\ target \in Seq(Label) /\ origin \in Seq(Label)
  BY <1>1, <1>2, <1>3, <1>4
<1>6. head # NoBlock => head \in Valid /\ head \in Block /\ Len(head) > 0 /\ Lib[head] \in 0..Len(head)
  BY <1>2, <1>3, <1>4
<1>7. /\ Len(head) \in Nat /\ Len(fork_head) \in Nat /\ Len(target) \in Nat
      /\ Len(origin) \in Nat /\ Len(block_log) \in Nat
  BY <1>2, <1>5
<1> QED BY <1>2, <1>5, <1>6, <1>7

\* Of two valid blocks the irreversible parts agree, as far as both go.
LEMMA Agreement ==
  ASSUME NEW b \in Valid, NEW c \in Valid, NEW n \in Nat, n <= Lib[b], n <= Lib[c]
  PROVE  UpTo(b, n) = UpTo(c, n)
<1>1. b \in Block /\ c \in Block
  BY LibAssumption
<1>2. /\ b \in Seq(Label) /\ c \in Seq(Label) /\ Lib[b] \in 0..Len(b) /\ Lib[c] \in 0..Len(c)
      /\ Len(b) \in Nat /\ Len(c) \in Nat
  BY <1>1, BlockIs
<1>3. CASE Lib[b] <= Lib[c]
  <2>1. UpTo(b, Lib[b]) = UpTo(c, Lib[b])
    BY <1>3, AgreementAssumption
  <2>2. Lib[b] \in 0..Len(b) /\ Lib[b] <= Len(c) /\ n \in 0..Lib[b]
    BY <1>2, <1>3
  <2> QED BY <1>2, <2>1, <2>2, CommonBelow
<1>4. CASE Lib[c] <= Lib[b]
  <2>1. UpTo(c, Lib[c]) = UpTo(b, Lib[c])
    BY <1>4, AgreementAssumption
  <2>2. Lib[c] \in 0..Len(c) /\ Lib[c] <= Len(b) /\ n \in 0..Lib[c]
    BY <1>2, <1>4
  <2>3. UpTo(c, n) = UpTo(b, n)
    BY <1>2, <2>1, <2>2, CommonBelow
  <2> QED BY <2>3
<1> QED BY <1>2, <1>3, <1>4

\* What is logged of heights that a valid block makes irreversible is its own
\* branch.
LEMMA LogAgrees ==
  ASSUME TypeOK, LogIrreversible, NEW b \in Valid, NEW n \in DOMAIN block_log, n <= Lib[b]
  PROVE  block_log[n] = UpTo(b, n)
<1>1. block_log \in Seq(Block)
  BY DEF TypeOK
<1>2. n \in 1..Len(block_log) /\ n \in Nat /\ Len(block_log) \in Nat /\ block_log # <<>>
  BY <1>1
<1>3. PICK c \in Valid : Len(block_log) <= Lib[c] /\ \A i \in DOMAIN block_log : block_log[i] = UpTo(c, i)
  BY <1>2 DEF LogIrreversible
<1>4. Lib[c] \in Nat
  BY LibAssumption
<1>5. n <= Lib[c]
  BY <1>2, <1>3, <1>4
<1>6. UpTo(b, n) = UpTo(c, n)
  BY <1>2, <1>5, Agreement
<1> QED BY <1>3, <1>6

\* blocks_to_write are the blocks of the applied block's own branch, provided
\* the fork database has them and its head is on the same branch.
LEMMA WritesOwn ==
  ASSUME IInv, NEW b \in Block, NEW tip \in Seq(Label), Applies(b, tip),
         \A n \in 1..Len(b) : n >= committed => UpTo(b, n) \in index,
         \A n \in 1..Lib[b] : UpTo(tip, n) = UpTo(b, n)
  PROVE  /\ BlocksToWrite(b, tip) \in Seq(Block)
         /\ Len(BlocksToWrite(b, tip)) = AtLeastZero(Lib[b] - Len(block_log))
         /\ \A i \in DOMAIN BlocksToWrite(b, tip) :
              BlocksToWrite(b, tip)[i] = UpTo(b, Len(block_log) + i)
<1> DEFINE w == BlocksToWrite(b, tip)
           m == AtLeastZero(Lib[b] - Len(block_log))
<1>1. b \in Seq(Label) /\ Len(b) \in Nat /\ Lib[b] \in 0..Len(b)
  BY BlockIs
<1>2. Len(block_log) \in Nat /\ committed \in Nat /\ committed <= Len(block_log) /\ IsFiniteSet(index)
  BY Heads DEF IInv, CommittedLogged
<1>3. m \in Nat /\ \A i \in 1..m : Len(block_log) + i \in 1..Lib[b] /\ Len(block_log) + i >= committed
  BY <1>1, <1>2 DEF AtLeastZero
<1>4. w = [i \in 1..m |-> FetchOnMainBranch(tip, Len(block_log) + i, Held)]
  BY DEF BlocksToWrite
<1>5. \A i \in DOMAIN w : w[i] # NoBlock
  BY DEF Applies
<1> HIDE DEF w, m
<1>6. ASSUME NEW i \in 1..m
      PROVE  w[i] = UpTo(b, Len(block_log) + i) /\ UpTo(b, Len(block_log) + i) \in Block
  <2> DEFINE n == Len(block_log) + i
  <2>0. n \in 1..Lib[b] /\ n >= committed
    BY <1>3
  <2>2. w[i] = FetchOnMainBranch(tip, n, Held) /\ w[i] # NoBlock
    BY <1>4, <1>5
  <2> HIDE DEF n
  <2>1. n \in 1..Len(b) /\ n \in 1..Lib[b] /\ n >= committed /\ n \in Nat
    BY <1>1, <2>0
  <2>3. UpTo(b, n) \in index /\ UpTo(tip, n) = UpTo(b, n)
    BY <2>1
  <2>4. Len(UpTo(b, n)) = n
    BY <1>1, <2>1, UpToIs
  <2>5. w[i] = UpTo(b, n)
    BY <1>2, <2>1, <2>2, <2>3, <2>4, FetchOwn
  <2>6. UpTo(b, n) \in Block
    BY <2>1, AncestorIs DEF Ancestor
  <2> QED BY <2>5, <2>6 DEF n
<1>7. w \in [1..m -> Block]
  BY <1>4, <1>6
<1>8. w \in Seq(Block) /\ Len(w) = m
  BY <1>3, <1>7
<1> QED BY <1>6, <1>7, <1>8 DEF w, m

-----------------------------------------------------------------------------
(* The steps.                                                              *)

\* Between pushes nothing is said of a push.
LEMMA IdleParts ==
  ASSUME phase' = "idle"
  PROVE  ReceivedIsNew' /\ BranchesPart' /\ HeadsOnBranch'
  BY DEF ReceivedIsNew, BranchesPart, HeadsOnBranch, Switching

\* A push ends and leaves chain, log and fork database as they are.
LEMMA StepFinish ==
  ASSUME IInv, ~migrating, NEW outcome \in Results, Finish(outcome),
         UNCHANGED <<index, orphans, max_size, diskVars, migrating, to_write, crashes>>,
         fork_head' \in Block \cup {NoBlock}
  PROVE  IInv'
<1>1. TypeOK'
  BY DEF IInv, TypeOK, ForkTypeOK, Finish, diskVars, Phases
<1>2. phase' = "idle"
  BY DEF Finish
<1>3. ReceivedIsNew' /\ BranchesPart' /\ HeadsOnBranch'
  BY <1>2, IdleParts
<1>4. IsFiniteSet(index)' /\ LogIrreversible' /\ CommittedLogged' /\ WritesOwnBranch' /\ Kept(head)'
  BY DEF IInv, diskVars, LogIrreversible, CommittedLogged, WritesOwnBranch, Kept
<1> QED BY <1>1, <1>3, <1>4 DEF IInv

\* A block is written to the log: it is the next one of the head's branch,
\* and what the log has already is of the same branch.
LEMMA StepAppend ==
  ASSUME IInv, append
  PROVE  IInv'
<1> USE DEF IInv
<1>1. /\ migrating /\ to_write # <<>> /\ UNCHANGED <<index, orphans, fork_head, max_size>>
      /\ block_log' = Append(block_log, Head(to_write)) /\ to_write' = Tail(to_write)
      /\ UNCHANGED <<head, committed, phase, target, origin, fork_point, result, migrating, crashes>>
  BY DEF append, forkVars, pushVars
<1>2. block_log \in Seq(Block) /\ to_write \in Seq(Block)
  BY DEF TypeOK
<1>3. /\ Len(block_log) \in Nat /\ Len(to_write) \in Nat /\ Len(to_write) > 0
      /\ Head(to_write) = to_write[1] /\ 1 \in DOMAIN to_write /\ to_write[1] \in Block
  BY <1>1, <1>2, EmptySeq
<1>4. /\ head # NoBlock /\ Len(to_write) = AtLeastZero(Lib[head] - Len(block_log))
      /\ \A i \in DOMAIN to_write : to_write[i] = UpTo(head, Len(block_log) + i)
      /\ phase \in {"extend", "apply", "restore"} /\ Len(fork_head) = Len(head)
  BY <1>1 DEF WritesOwnBranch
<1>5. head \in Valid /\ Lib[head] \in Nat /\ committed \in Nat
  BY <1>4, Heads
<1>6. Len(to_write) = Lib[head] - Len(block_log) /\ Lib[head] > Len(block_log)
  BY <1>3, <1>4, <1>5 DEF AtLeastZero
<1>7. /\ block_log' \in Seq(Block) /\ Len(block_log') = Len(block_log) + 1
      /\ \A i \in 1..Len(block_log) : block_log'[i] = block_log[i]
      /\ block_log'[Len(block_log) + 1] = UpTo(head, Len(block_log) + 1)
  BY <1>1, <1>2, <1>3, <1>4, AppendProperties
<1>8. /\ to_write' \in Seq(Block) /\ Len(to_write') = Len(to_write) - 1
      /\ \A i \in 1..Len(to_write') : to_write'[i] = to_write[i + 1]
  BY <1>1, <1>2, <1>3, HeadTailProperties
<1>9. TypeOK'
  BY <1>1, <1>7, <1>8 DEF TypeOK, ForkTypeOK
<1>10. LogIrreversible'
  <2>1. \A i \in 1..Len(block_log) : block_log[i] = UpTo(head, i)
    <3> SUFFICES ASSUME NEW i \in 1..Len(block_log) PROVE block_log[i] = UpTo(head, i)
      OBVIOUS
    <3>1. i \in DOMAIN block_log /\ i <= Lib[head]
      BY <1>2, <1>3, <1>5, <1>6
    <3> QED BY <1>5, <3>1, LogAgrees
  <2>2. \A i \in 1..Len(block_log) + 1 : block_log'[i] = UpTo(head, i)
    <3> SUFFICES ASSUME NEW i \in 1..Len(block_log) + 1 PROVE block_log'[i] = UpTo(head, i)
      OBVIOUS
    <3>1. CASE i = Len(block_log) + 1
      BY <1>7, <3>1
    <3>2. CASE i \in 1..Len(block_log)
      BY <1>7, <2>1, <3>2
    <3> QED BY <1>3, <3>1, <3>2
  <2>3. DOMAIN block_log' = 1..Len(block_log) + 1
    BY <1>7
  <2>4. Len(block_log') <= Lib[head]
    BY <1>3, <1>5, <1>6, <1>7
  <2> QED BY <1>5, <2>2, <2>3, <2>4 DEF LogIrreversible
<1>11. CommittedLogged'
  <2>1. committed \in 1..Len(block_log) \/ committed = 0
    BY <1>3, <1>5 DEF CommittedLogged
  <2>2. committed > 0 => block_log'[committed] = UpTo(head, committed)
    BY <1>5, <1>7, <2>1 DEF CommittedLogged
  <2> QED BY <1>1, <1>3, <1>5, <1>7, <2>2 DEF CommittedLogged
<1>12. WritesOwnBranch'
  <2>1. Len(to_write') = AtLeastZero(Lib[head] - Len(block_log'))
    BY <1>3, <1>5, <1>6, <1>7, <1>8 DEF AtLeastZero
  <2>2. ASSUME NEW i \in DOMAIN to_write'
        PROVE  to_write'[i] = UpTo(head, Len(block_log') + i)
    <3>1. i \in 1..Len(to_write) - 1
      BY <1>3, <1>8, <2>2
    <3>2. to_write'[i] = to_write[i + 1] /\ i + 1 \in DOMAIN to_write
      BY <1>2, <1>3, <1>8, <3>1
    <3>3. to_write[i + 1] = UpTo(head, Len(block_log) + (i + 1))
      BY <1>4, <3>2
    <3>4. Len(block_log) + (i + 1) = Len(block_log') + i
      BY <1>3, <1>7, <3>1
    <3> QED BY <3>2, <3>3, <3>4
  <2> QED BY <1>1, <1>4, <2>1, <2>2 DEF WritesOwnBranch
<1>13. Kept(head)' /\ IsFiniteSet(index)'
  BY <1>1 DEF Kept
<1>14. ReceivedIsNew' /\ HeadsOnBranch'
  BY <1>1 DEF ReceivedIsNew, HeadsOnBranch, Switching
<1>15. BranchesPart'
  <2> SUFFICES ASSUME Switching PROVE BranchesPart'
    BY <1>1 DEF BranchesPart, Switching
  <2>1. Lib[origin] <= Len(block_log) /\ origin \in Valid
    BY DEF BranchesPart
  <2>2. Lib[origin] \in Nat
    BY <2>1, LibAssumption
  <2>3. Lib[origin'] <= Len(block_log')
    BY <1>1, <1>3, <1>7, <2>1, <2>2
  <2> QED BY <1>1, <2>3 DEF BranchesPart, Switching, Kept
<1> QED BY <1>9, <1>10, <1>11, <1>12, <1>13, <1>14, <1>15

\* The irreversible block is committed; the fork database keeps what lies
\* above it.
LEMMA StepCommit ==
  ASSUME IInv, commit
  PROVE  IInv'
<1> USE DEF IInv
<1>1. /\ migrating /\ to_write = <<>> /\ migrating' = FALSE
      /\ max_size' = Len(head) - Lib[head] + 1
      /\ Keep(Within(max_size'))
      /\ committed' = IF Lib[head] > committed THEN Lib[head] ELSE committed
      /\ UNCHANGED <<fork_head, head, block_log, phase, target, origin, fork_point, result,
                     to_write, crashes>>
  BY DEF commit, pushVars
<1>2. head # NoBlock /\ Len(to_write) = AtLeastZero(Lib[head] - Len(block_log))
      /\ phase \in {"extend", "apply", "restore"} /\ Len(fork_head) = Len(head)
  BY <1>1 DEF WritesOwnBranch
<1>3. /\ head \in Valid /\ Lib[head] \in 0..Len(head) /\ committed \in Nat
      /\ Len(block_log) \in Nat /\ Len(head) \in Nat
  BY <1>2, Heads
<1>4. Lib[head] <= Len(block_log)
  <2>1. Len(to_write) = 0
    BY <1>1, EmptySeq
  <2> QED BY <1>2, <1>3, <2>1 DEF AtLeastZero
<1>5. committed' \in Nat /\ committed' >= committed /\ committed' >= Lib[head]
  BY <1>1, <1>3
<1>6. index' \subseteq index /\ orphans' \subseteq index' /\ max_size' \in Nat
  BY <1>1, <1>3 DEF Keep, Within, ChildrenOf, TypeOK, ForkTypeOK
<1>7. \A b \in index : Len(b) >= committed' => b \in index'
  <2> SUFFICES ASSUME NEW b \in index, Len(b) >= committed' PROVE b \in index'
    OBVIOUS
  <2>1. index' = {c \in index : Len(c) >= AtLeastZero(Len(fork_head) - max_size')}
    BY <1>1 DEF Keep, Within
  <2>2. AtLeastZero(Len(fork_head) - max_size') <= Lib[head]
    BY <1>1, <1>2, <1>3 DEF AtLeastZero
  <2>3. AtLeastZero(Len(fork_head) - max_size') \in Nat
    BY <1>1, <1>2, <1>3 DEF AtLeastZero
  <2>4. Len(b) \in Nat
    <3>1. b \in Block
      BY DEF TypeOK, ForkTypeOK
    <3> QED BY <3>1, BlockIs
  <2> QED BY <1>3, <1>5, <2>1, <2>2, <2>3, <2>4
<1>8. TypeOK'
  BY <1>1, <1>5, <1>6 DEF TypeOK, ForkTypeOK
<1>9. IsFiniteSet(index)'
  BY <1>6, FS_Subset
<1>10. LogIrreversible' /\ ReceivedIsNew'
  BY <1>1, <1>2 DEF LogIrreversible, ReceivedIsNew
<1>11. CommittedLogged'
  <2>1. CASE committed' = committed
    BY <1>1, <2>1 DEF CommittedLogged
  <2>2. CASE committed' = Lib[head] /\ Lib[head] > committed
    <3>1. Lib[head] \in DOMAIN block_log
      <4>1. block_log \in Seq(Block)
        BY DEF TypeOK
      <4> QED BY <1>3, <1>4, <2>2, <4>1
    <3>2. Lib[head] <= Lib[head]
      BY <1>3
    <3>3. block_log[Lib[head]] = UpTo(head, Lib[head])
      BY <1>3, <3>1, <3>2, LogAgrees
    <3> QED BY <1>1, <1>3, <1>4, <2>2, <3>3 DEF CommittedLogged
  <2> QED BY <1>1, <2>1, <2>2
<1>12. WritesOwnBranch'
  BY <1>1, <1>4 DEF WritesOwnBranch
<1>13. ASSUME NEW b \in Seq(Label), Kept(b)
       PROVE  \A n \in 1..Len(b) : n >= committed' => UpTo(b, n) \in index'
  <2> SUFFICES ASSUME NEW n \in 1..Len(b), n >= committed' PROVE UpTo(b, n) \in index'
    OBVIOUS
  <2>1. n >= committed
    BY <1>3, <1>5
  <2>2. UpTo(b, n) \in index
    BY <1>13, <2>1 DEF Kept
  <2>3. Len(UpTo(b, n)) = n
    BY UpToIs
  <2> QED BY <1>7, <2>2, <2>3
<1>14. Kept(head)'
  BY <1>1, <1>13, Heads DEF Kept
<1>15. BranchesPart'
  <2> SUFFICES ASSUME Switching PROVE BranchesPart'
    BY <1>1 DEF BranchesPart, Switching
  <2>1. Kept(origin) /\ (phase \in {"pop", "apply"} => Kept(target))
    BY DEF BranchesPart
  <2>2. Kept(origin)' /\ (phase \in {"pop", "apply"} => Kept(target)')
    BY <1>1, <1>13, <2>1, Heads DEF Kept
  <2> QED BY <1>1, <2>2 DEF BranchesPart, Switching
<1>16. HeadsOnBranch'
  <2> SUFFICES ASSUME Switching PROVE HeadsOnBranch'
    BY <1>1 DEF HeadsOnBranch, Switching
  <2> QED BY <1>1, <1>2 DEF HeadsOnBranch, Switching
<1> QED BY <1>8, <1>9, <1>10, <1>11, <1>12, <1>14, <1>15, <1>16

\* A block enters the fork database or is refused; what enters is not yet a
\* block of the head's branch.
LEMMA StepPush ==
  ASSUME IInv, ~Redelivery, NEW b \in Block, push_block(b)
  PROVE  IInv'
<1> USE DEF IInv
<1>1. /\ phase = "idle" /\ ~is_known_block(b)
      /\ UNCHANGED <<max_size, head, committed, block_log, migrating, to_write, crashes>>
  BY DEF push_block, diskVars
<1>2. ~migrating
  BY <1>1 DEF WritesOwnBranch
<1>3. CASE ~(RecentEnough(b) /\ Links(b))
  <2>1. Finish("failed") /\ UNCHANGED <<index, orphans, fork_head>>
    BY <1>3 DEF push_block
  <2> QED BY <1>1, <1>2, <2>1, StepFinish DEF Results, diskVars, TypeOK, ForkTypeOK
<1>4. CASE RecentEnough(b) /\ Links(b)
  <2>1. /\ Insert(b) /\ phase' = "received" /\ target' = b /\ origin' = head
        /\ result' = "none" /\ UNCHANGED fork_point
    BY <1>4 DEF push_block
  <2>2. /\ index' = index \cup {b} /\ orphans' \subseteq index'
        /\ fork_head' \in Block \cup {NoBlock}
    BY <2>1 DEF Insert, NewForkHead, TypeOK, ForkTypeOK
  <2>3. head \in Block \cup {NoBlock}
    BY LibAssumption DEF TypeOK
  <2>4. TypeOK'
    BY <1>1, <2>1, <2>2, <2>3 DEF TypeOK, ForkTypeOK, Phases, Results
  <2>5. IsFiniteSet(index)'
    BY <2>2, FS_AddElement
  <2>6. LogIrreversible' /\ CommittedLogged'
    BY <1>1 DEF LogIrreversible, CommittedLogged
  <2>7. WritesOwnBranch'
    BY <1>1, <1>2 DEF WritesOwnBranch
  <2>8. Kept(head)'
    BY <1>1, <2>2 DEF Kept
  <2>9. ReceivedIsNew'
    <3>1. \A n \in 1..Len(head) : n >= committed => b # UpTo(head, n)
      BY <1>1 DEF is_known_block, Kept
    <3> QED BY <1>1, <2>1, <2>2, <3>1 DEF ReceivedIsNew
  <2>10. BranchesPart' /\ HeadsOnBranch'
    BY <2>1 DEF BranchesPart, HeadsOnBranch, Switching
  <2> QED BY <2>4, <2>5, <2>6, <2>7, <2>8, <2>9, <2>10
<1> QED BY <1>3, <1>4

\* What applying b on top of the head means for the head's branch.
LEMMA Applied ==
  ASSUME IInv, NEW b \in Block, NEW tip \in Seq(Label), Applies(b, tip), Apply(b, tip), ~migrating,
         UNCHANGED <<index, committed, block_log>>,
         \A n \in 1..Len(b) : n >= committed => UpTo(b, n) \in index,
         \A n \in 1..Lib[b] : UpTo(tip, n) = UpTo(b, n),
         Len(fork_head') = Len(b), phase' \in {"extend", "apply", "restore"}
  PROVE  /\ head' = b /\ head' \in Valid /\ to_write' \in Seq(Block) /\ migrating' = TRUE
         /\ LogIrreversible' /\ CommittedLogged' /\ WritesOwnBranch' /\ Kept(head)'
         /\ Len(b) = Len(head) + 1 /\ previous(b) = head
<1> USE DEF IInv
<1>1. head' = b /\ to_write' = BlocksToWrite(b, tip) /\ migrating' = TRUE
  BY DEF Apply
<1>2. previous(b) = head /\ b \in Valid
  BY DEF Applies
<1>3. b \in Seq(Label) /\ Len(b) \in Nat \ {0} /\ b # NoBlock
  BY BlockIs
<1>4. Len(b) = Len(head) + 1 /\ head = UpTo(b, Len(head))
  <2>1. UpTo(b, Len(b) - 1) = head /\ Len(b) - 1 \in 0..Len(b)
    BY <1>2, <1>3 DEF previous
  <2>2. Len(head) = Len(b) - 1
    BY <1>3, <2>1, UpToIs
  <2> QED BY <1>3, <2>1, <2>2
<1>5. /\ to_write' \in Seq(Block)
      /\ Len(to_write') = AtLeastZero(Lib[b] - Len(block_log))
      /\ \A i \in DOMAIN to_write' : to_write'[i] = UpTo(b, Len(block_log) + i)
  BY <1>1, WritesOwn
<1>6. LogIrreversible'
  BY DEF LogIrreversible
<1>7. CommittedLogged'
  <2>1. committed \in 0..Len(head) /\ Len(head) \in Nat
    BY Heads DEF CommittedLogged
  <2>2. UpTo(b, committed) = UpTo(head, committed)
    <3>1. Len(head) \in 0..Len(b)
      BY <1>3, <1>4, <2>1
    <3>2. UpTo(UpTo(b, Len(head)), committed) = UpTo(b, committed)
      BY <1>3, <2>1, <3>1, UpToUpTo
    <3> QED BY <1>4, <3>2
  <2>3. committed <= Len(b)
    BY <1>4, <2>1
  <2> QED BY <1>1, <2>2, <2>3 DEF CommittedLogged
<1>8. WritesOwnBranch'
  BY <1>1, <1>3, <1>5 DEF WritesOwnBranch
<1>9. Kept(head)'
  BY <1>1 DEF Kept
<1> QED BY <1>1, <1>2, <1>4, <1>5, <1>6, <1>7, <1>8, <1>9

\* The received block is applied, or taken out of the fork database again.
LEMMA StepExtend ==
  ASSUME IInv, extend
  PROVE  IInv'
<1> USE DEF IInv
<1>1. /\ phase = "received" /\ previous(fork_head) = head
      /\ UNCHANGED <<fork_head, max_size, committed, block_log, crashes>>
  BY DEF extend
<1>2. /\ target \in index /\ origin = head /\ ~migrating
      /\ \A n \in 1..Len(head) : n >= committed => target # UpTo(head, n)
  BY <1>1 DEF ReceivedIsNew, WritesOwnBranch
<1>3. target \in Block /\ target \in Seq(Label) /\ fork_head \in Seq(Label)
  BY <1>2, Heads DEF TypeOK, ForkTypeOK
<1>4. CASE Applies(target, fork_head)
  <2>1. /\ Apply(target, fork_head) /\ phase' = "extend"
        /\ UNCHANGED <<index, orphans, result, target, origin, fork_point>>
    BY <1>4 DEF extend
  <2>2. previous(target) = head /\ target \in Valid /\ Len(fork_head) = Len(target)
    BY <1>4 DEF Applies
  <2>3. Len(target) \in Nat \ {0} /\ Lib[target] \in 0..Len(target) /\ fork_head \in Block
    <3>1. Len(target) \in Nat \ {0} /\ Lib[target] \in 0..Len(target)
      BY <1>3, BlockIs
    <3>2. fork_head # NoBlock
      BY <2>2, <3>1, EmptySeq DEF NoBlock
    <3> QED BY <3>1, <3>2 DEF TypeOK, ForkTypeOK
  <2>4. UpTo(target, Len(target) - 1) = head /\ UpTo(fork_head, Len(target) - 1) = head
    BY <1>1, <2>2 DEF previous
  <2>5. ASSUME NEW n \in 1..Len(target) - 1
        PROVE  UpTo(target, n) = UpTo(head, n) /\ UpTo(fork_head, n) = UpTo(head, n) /\ n \in 1..Len(head)
    <3>1. Len(target) - 1 \in 0..Len(target) /\ n \in 0..Len(target) - 1
      BY <2>3
    <3>2. UpTo(UpTo(target, Len(target) - 1), n) = UpTo(target, n)
      BY <1>3, <3>1, UpToUpTo
    <3>3. UpTo(UpTo(fork_head, Len(target) - 1), n) = UpTo(fork_head, n)
      BY <1>3, <2>2, <3>1, UpToUpTo
    <3>4. Len(head) = Len(target) - 1
      BY <1>3, <2>4, <3>1, UpToIs
    <3> QED BY <2>4, <3>2, <3>3, <3>4
  <2>6. \A n \in 1..Len(target) : n >= committed => UpTo(target, n) \in index
    <3> SUFFICES ASSUME NEW n \in 1..Len(target), n >= committed PROVE UpTo(target, n) \in index
      OBVIOUS
    <3>1. CASE n = Len(target)
      BY <1>2, <1>3, <3>1, UpToAll
    <3>2. CASE n \in 1..Len(target) - 1
      BY <2>5, <3>2 DEF Kept
    <3> QED BY <2>3, <3>1, <3>2
  <2>7. \A n \in 1..Lib[target] : UpTo(fork_head, n) = UpTo(target, n)
    <3> SUFFICES ASSUME NEW n \in 1..Lib[target] PROVE UpTo(fork_head, n) = UpTo(target, n)
      OBVIOUS
    <3>1. CASE n = Len(target)
      <4>1. Lib[target] = Len(target)
        BY <2>3, <3>1
      <4>2. fork_head = target
        BY <1>1, <2>2, <2>3, <4>1, SoleWitnessAssumption
      <4> QED BY <4>2
    <3>2. CASE n # Len(target)
      <4>1. n \in 1..Len(target) - 1
        BY <2>3, <3>2
      <4> QED BY <2>5, <4>1
    <3> QED BY <3>1, <3>2
  <2>8. /\ head' = target /\ head' \in Valid /\ to_write' \in Seq(Block) /\ migrating' = TRUE
        /\ LogIrreversible' /\ CommittedLogged' /\ WritesOwnBranch' /\ Kept(head)'
    <3>1. Len(fork_head') = Len(target) /\ UNCHANGED <<index, committed, block_log>>
          /\ phase' \in {"extend", "apply", "restore"}
      BY <1>1, <2>1, <2>2
    <3> QED BY <1>2, <1>3, <1>4, <2>1, <2>6, <2>7, <3>1, Applied
  <2>9. TypeOK'
    BY <1>1, <2>1, <2>8 DEF TypeOK, ForkTypeOK, Phases
  <2>10. ReceivedIsNew' /\ BranchesPart' /\ HeadsOnBranch' /\ IsFiniteSet(index)'
    BY <2>1 DEF ReceivedIsNew, BranchesPart, HeadsOnBranch, Switching
  <2> QED BY <2>8, <2>9, <2>10
<1>5. CASE ~Applies(target, fork_head)
  <2>1. Keep(index \ {target}) /\ Finish("failed") /\ UNCHANGED <<head, to_write, migrating>>
    BY <1>5 DEF extend
  <2>2. index' = index \ {target} /\ orphans' \subseteq index'
    BY <2>1 DEF Keep, ChildrenOf
  <2>3. TypeOK'
    BY <1>1, <2>1, <2>2 DEF TypeOK, ForkTypeOK, Finish, Phases, Results
  <2>4. IsFiniteSet(index)'
    BY <2>2, FS_Subset
  <2>5. ReceivedIsNew' /\ BranchesPart' /\ HeadsOnBranch'
    BY <2>1, IdleParts DEF Finish
  <2>6. LogIrreversible' /\ CommittedLogged'
    BY <1>1, <2>1 DEF LogIrreversible, CommittedLogged
  <2>7. WritesOwnBranch'
    BY <1>1, <1>2, <2>1 DEF WritesOwnBranch
  <2>8. Kept(head)'
    BY <1>1, <1>2, <2>1, <2>2 DEF Kept
  <2> QED BY <2>3, <2>4, <2>5, <2>6, <2>7, <2>8
<1> QED BY <1>4, <1>5

\* A fork switch begins: both branches are in the fork database down to where
\* they part, and what lies below is the head's branch.
LEMMA StepSwitch ==
  ASSUME IInv, switch
  PROVE  IInv'
<1> USE DEF IInv
<1>1. /\ phase = "received"
      /\ UNCHANGED <<index, orphans, fork_head, max_size, head, committed, block_log,
                     migrating, to_write, crashes>>
  BY DEF switch, forkVars, diskVars
<1>2. ~migrating /\ origin = head
  BY <1>1 DEF ReceivedIsNew, WritesOwnBranch
<1>3. CASE ~(Len(fork_head) > Len(head) /\ BranchesFound(fork_head, head))
  <2>1. Finish(IF Len(fork_head) > Len(head) THEN "failed" ELSE "stored")
    BY <1>3 DEF switch
  <2>2. (IF Len(fork_head) > Len(head) THEN "failed" ELSE "stored") \in Results
    BY DEF Results
  <2>3. UNCHANGED <<index, orphans, max_size, diskVars, migrating, to_write, crashes>>
        /\ fork_head' \in Block \cup {NoBlock}
    BY <1>1 DEF diskVars, TypeOK, ForkTypeOK
  <2> QED BY <1>2, <2>1, <2>2, <2>3, StepFinish
<1>4. CASE Len(fork_head) > Len(head) /\ BranchesFound(fork_head, head)
  <2>1. /\ phase' = "pop" /\ target' = fork_head /\ fork_point' = ForkPoint(fork_head, head)
        /\ UNCHANGED <<result, origin>>
    BY <1>4 DEF switch
  <2> DEFINE fp == ForkPoint(fork_head, head)
  <2>2. /\ fork_head \in index /\ head \in index
        /\ LinkedDownTo(fork_head, fp + 1, {})
    BY <1>4 DEF BranchesFound
  <2>3. fork_head \in Block /\ head \in Block /\ head # NoBlock /\ head \in Valid
    <3>1. fork_head \in Block /\ head \in Block
      BY <2>2 DEF TypeOK, ForkTypeOK
    <3> QED BY <3>1, BlockIs, Heads
  <2>4. /\ fork_head \in Seq(Label) /\ head \in Seq(Label)
        /\ Len(fork_head) \in Nat /\ Len(head) \in Nat /\ committed \in Nat
    BY Heads
  <2>5. fp \in 0..Len(head) - 1 /\ UpTo(fork_head, fp) = UpTo(head, fp)
    BY <1>4, <2>3, <2>4, ForkPointIs
  <2> HIDE DEF fp
  <2>6. ASSUME NEW n \in 1..Len(fork_head), n >= committed PROVE UpTo(fork_head, n) \in index
    <3>1. CASE n = Len(fork_head)
      BY <2>2, <2>4, <3>1, UpToAll
    <3>2. CASE n > fp /\ n < Len(fork_head)
      <4>1. n + 1 \in fp + 1 + 1..Len(fork_head) /\ n + 1 \in 0..Len(fork_head) /\ n \in 0..n + 1
        BY <2>4, <2>5, <3>2
      <4>2. LinkAlive(UpTo(fork_head, n + 1), {})
        BY <2>2, <4>1 DEF LinkedDownTo
      <4>3. previous(UpTo(fork_head, n + 1)) \in index
        BY <4>2 DEF LinkAlive
      <4>4. Len(UpTo(fork_head, n + 1)) - 1 = n
        BY <2>4, <4>1, UpToIs
      <4>5. UpTo(UpTo(fork_head, n + 1), n) = UpTo(fork_head, n)
        BY <2>4, <4>1, UpToUpTo
      <4> QED BY <4>3, <4>4, <4>5 DEF previous
    <3>3. CASE n <= fp
      <4>1. fp \in 0..Len(fork_head) /\ fp <= Len(head) /\ n \in 0..fp /\ n \in 1..Len(head)
        BY <1>4, <2>4, <2>5, <3>3
      <4>2. UpTo(fork_head, n) = UpTo(head, n)
        BY <2>4, <2>5, <4>1, CommonBelow
      <4> QED BY <2>6, <4>1, <4>2 DEF Kept
    <3> QED BY <2>4, <2>5, <3>1, <3>2, <3>3
  <2>7. TypeOK'
    <3>1. fork_point' \in Nat
      BY <2>1, <2>4, <2>5 DEF fp
    <3> QED BY <1>1, <2>1, <2>3, <3>1 DEF TypeOK, ForkTypeOK, Phases
  <2>8. LogIrreversible' /\ CommittedLogged' /\ Kept(head)' /\ IsFiniteSet(index)'
    BY <1>1 DEF LogIrreversible, CommittedLogged, Kept
  <2>9. WritesOwnBranch' /\ ReceivedIsNew'
    BY <1>1, <1>2, <2>1 DEF WritesOwnBranch, ReceivedIsNew
  <2>10. BranchesPart'
    <3>1. Lib[head] <= Len(block_log)
      BY <1>2, <2>3 DEF WritesOwnBranch
    <3>2. Kept(origin)' /\ Kept(target)'
      BY <1>1, <1>2, <2>1, <2>6 DEF Kept
    <3>3. fp < Len(head)
      BY <2>4, <2>5
    <3> QED BY <1>1, <1>2, <1>4, <2>1, <2>3, <2>5, <3>1, <3>2, <3>3 DEF BranchesPart, fp
  <2>11. HeadsOnBranch'
    <3>1. UpTo(head, Len(head)) = head /\ UpTo(fork_head, Len(fork_head)) = fork_head
      BY <2>4, UpToAll
    <3>2. fp <= Len(head) /\ Len(head) <= Len(head)
          /\ Len(fork_head) - (Len(head) - Len(head)) = Len(fork_head)
      BY <2>4, <2>5
    <3> QED BY <1>1, <1>2, <2>1, <3>1, <3>2 DEF HeadsOnBranch, fp
  <2> QED BY <2>7, <2>8, <2>9, <2>10, <2>11
<1> QED BY <1>3, <1>4

\* During a fork switch: the branches as sequences, and that the head is above
\* the fork point unless it is there.
LEMMA SwitchFacts ==
  ASSUME IInv, Switching
  PROVE  /\ origin \in Valid /\ origin \in Block /\ target \in Block
         /\ origin \in Seq(Label) /\ target \in Seq(Label)
         /\ head \in Seq(Label) /\ fork_head \in Seq(Label)
         /\ Len(head) \in Nat /\ Len(origin) \in Nat /\ Len(target) \in Nat
         /\ committed \in Nat /\ Len(block_log) \in Nat /\ fork_point \in Nat
         /\ fork_point < Len(origin) /\ Len(origin) < Len(target)
         /\ fork_point <= Len(head)
         /\ Lib[origin] \in Nat /\ Lib[origin] <= Len(block_log)
         /\ UpTo(target, fork_point) = UpTo(origin, fork_point)
         /\ AtForkPoint <=> Len(head) = fork_point
<1> USE DEF IInv
<1>1. /\ origin \in Valid /\ target \in Block /\ fork_point < Len(origin)
      /\ Len(origin) < Len(target) /\ UpTo(target, fork_point) = UpTo(origin, fork_point)
      /\ Lib[origin] <= Len(block_log)
  BY DEF BranchesPart
<1>2. /\ origin \in Seq(Label) /\ target \in Seq(Label) /\ Len(head) \in Nat
      /\ head \in Seq(Label) /\ fork_head \in Seq(Label) /\ Len(block_log) \in Nat
      /\ Len(origin) \in Nat /\ Len(target) \in Nat /\ committed \in Nat
  BY Heads
<1>3. fork_point \in Nat /\ origin \in Block /\ Lib[origin] \in Nat
  BY <1>1, LibAssumption DEF TypeOK
<1>4. fork_point <= Len(head) /\ (head = UpTo(origin, Len(head)) \/ head = UpTo(target, Len(head)))
  BY DEF HeadsOnBranch
<1>5. AtForkPoint <=> Len(head) = fork_point
  <2>1. Len(UpTo(origin, fork_point)) = fork_point
    BY <1>1, <1>2, <1>3, UpToIs
  <2> QED BY <1>1, <1>4, <2>1 DEF AtForkPoint
<1> QED BY <1>1, <1>2, <1>3, <1>4, <1>5

\* The block before the head of a branch.
LEMMA OneDown ==
  ASSUME NEW b \in Seq(Label), NEW n \in 1..Len(b)
  PROVE  previous(UpTo(b, n)) = UpTo(b, n - 1) /\ Len(UpTo(b, n)) = n
<1>1. Len(UpTo(b, n)) = n
  BY UpToIs
<1>2. UpTo(UpTo(b, n), n - 1) = UpTo(b, n - 1)
  BY UpToUpTo
<1> QED BY <1>1, <1>2 DEF previous

\* As long as no irreversible block is in the way, blocks can be popped down
\* to the fork point.
LEMMA PopWorks ==
  ASSUME IInv, phase \in {"pop", "unwind"}, ~AtForkPoint, committed <= fork_point
  PROVE  /\ is_known_block(head) /\ LinkAlive(fork_head, Held)
         /\ Len(head) > committed
         /\ phase = "pop" => previous(fork_head) =
              UpTo(target, Len(target) - (Len(origin) - (Len(head) - 1)))
         /\ phase = "unwind" => Len(head) < Len(target) /\ previous(fork_head) = head
<1> USE DEF IInv
<1>1. Switching
  BY DEF Switching
<1>2. /\ origin \in Seq(Label) /\ target \in Seq(Label) /\ head \in Seq(Label)
      /\ Len(head) \in Nat /\ Len(origin) \in Nat /\ Len(target) \in Nat
      /\ committed \in Nat /\ fork_point \in Nat
      /\ fork_point < Len(origin) /\ Len(origin) < Len(target)
      /\ Len(head) > fork_point
  BY <1>1, SwitchFacts
<1>3. Len(head) \in 1..Len(head) /\ Len(head) >= committed /\ Len(head) > committed
  BY <1>2
<1>4. head \in index
  <2>1. UpTo(head, Len(head)) \in index
    BY <1>3 DEF Kept
  <2> QED BY <1>2, <2>1, UpToAll
<1>5. is_known_block(head)
  BY <1>4 DEF is_known_block
<1>6. Held = {UpTo(target, n) : n \in fork_point + 1..Len(target)} \cup
             {UpTo(origin, n) : n \in fork_point + 1..Len(origin)}
  BY DEF Held
<1>7. CASE phase = "pop"
  <2> DEFINE k == Len(target) - (Len(origin) - Len(head))
  <2>1. fork_head = UpTo(target, k) /\ Len(head) <= Len(origin) /\ Kept(target)
    BY <1>1, <1>7 DEF HeadsOnBranch, BranchesPart
  <2>2. /\ k \in 1..Len(target) /\ k - 1 \in fork_point + 1..Len(target) /\ k - 1 >= committed
        /\ k - 1 = Len(target) - (Len(origin) - (Len(head) - 1)) /\ k - 1 \in 1..Len(target)
    BY <1>2, <2>1
  <2> HIDE DEF k
  <2>3. previous(fork_head) = UpTo(target, k - 1)
    BY <1>2, <2>1, <2>2, OneDown
  <2>4. UpTo(target, k - 1) \in index
    BY <2>1, <2>2 DEF Kept
  <2>5. UpTo(target, k - 1) \in Held
    BY <1>6, <2>2
  <2>6. LinkAlive(fork_head, Held)
    BY <2>3, <2>4, <2>5 DEF LinkAlive
  <2> QED BY <1>3, <1>5, <1>7, <2>2, <2>3, <2>6
<1>8. CASE phase = "unwind"
  <2>1. fork_head = UpTo(target, Len(head) + 1) /\ Len(head) < Len(target) /\ head = UpTo(target, Len(head))
    BY <1>1, <1>8 DEF HeadsOnBranch
  <2>2. Len(head) + 1 \in 1..Len(target) /\ Len(head) + 1 - 1 = Len(head)
        /\ Len(head) \in fork_point + 1..Len(target)
    BY <1>2, <2>1
  <2>3. previous(fork_head) = head
    BY <1>2, <2>1, <2>2, OneDown
  <2>4. head \in Held
    BY <1>6, <2>1, <2>2
  <2>5. LinkAlive(fork_head, Held)
    BY <1>4, <2>3, <2>4 DEF LinkAlive
  <2> QED BY <1>3, <1>5, <1>8, <2>1, <2>3, <2>5
<1> QED BY <1>7, <1>8

\* The head moves down its branch, unless the block is committed.
LEMMA StepPop ==
  ASSUME IInv, pop_block
  PROVE  IInv'
<1> USE DEF IInv
<1>1. /\ phase \in {"pop", "unwind"} /\ ~AtForkPoint
      /\ UNCHANGED <<index, orphans, max_size, committed, block_log, migrating, to_write, crashes>>
  BY DEF pop_block
<1>2. ~migrating /\ Switching
  BY <1>1 DEF WritesOwnBranch, Switching
<1>3. CASE ~(is_known_block(head) /\ LinkAlive(fork_head, Held))
  <2>1. Finish("failed") /\ UNCHANGED <<fork_head, head>>
    BY <1>3 DEF pop_block
  <2>2. UNCHANGED <<index, orphans, max_size, diskVars, migrating, to_write, crashes>>
        /\ fork_head' \in Block \cup {NoBlock} /\ "failed" \in Results
    BY <1>1, <2>1 DEF diskVars, TypeOK, ForkTypeOK, Results
  <2> QED BY <1>2, <2>1, <2>2, StepFinish
<1>4. CASE is_known_block(head) /\ LinkAlive(fork_head, Held)
  <2>1. /\ fork_head' = previous(fork_head)
        /\ head' = IF Len(head) > committed THEN previous(head) ELSE head
        /\ UNCHANGED <<phase, target, origin, fork_point, result>>
    BY <1>4 DEF pop_block, pushVars
  <2>2. /\ origin \in Seq(Label) /\ target \in Seq(Label) /\ head \in Seq(Label)
        /\ Len(head) \in Nat /\ Len(origin) \in Nat /\ Len(target) \in Nat
        /\ origin \in Block /\ target \in Block
        /\ committed \in Nat /\ fork_point \in Nat /\ Len(block_log) \in Nat
        /\ fork_point < Len(origin) /\ Len(origin) < Len(target)
        /\ Len(head) > fork_point
    BY <1>1, <1>2, SwitchFacts
  <2>3. head # NoBlock /\ head \in Valid /\ head \in Block
    <3>1. head # NoBlock
      BY <2>2, EmptySeq DEF NoBlock
    <3> QED BY <3>1, Heads
  <2>4. fork_head' \in Block
    <3>1. previous(fork_head) \in index \cup Held
      BY <1>4 DEF LinkAlive
    <3>2. Held \subseteq Block
      <4>1. Held = {UpTo(target, n) : n \in fork_point + 1..Len(target)} \cup
                   {UpTo(origin, n) : n \in fork_point + 1..Len(origin)}
        BY <1>1 DEF Held
      <4>2. \A n \in fork_point + 1..Len(target) : UpTo(target, n) \in Block
        <5>1. \A n \in fork_point + 1..Len(target) : n \in 1..Len(target)
          BY <2>2
        <5> QED BY <2>2, <5>1, AncestorIs DEF Ancestor
      <4>3. \A n \in fork_point + 1..Len(origin) : UpTo(origin, n) \in Block
        <5>1. \A n \in fork_point + 1..Len(origin) : n \in 1..Len(origin)
          BY <2>2
        <5> QED BY <2>2, <5>1, AncestorIs DEF Ancestor
      <4> QED BY <4>1, <4>2, <4>3
    <3> QED BY <2>1, <3>1, <3>2 DEF TypeOK, ForkTypeOK
  <2>5. \* where the new head is
        /\ head' \in Valid \cup {NoBlock} /\ Len(head') \in Nat
        /\ Len(head') <= Len(head) /\ head' = UpTo(head, Len(head'))
        /\ committed <= Len(head') /\ fork_point <= Len(head')
        /\ head' # NoBlock => Lib[head'] <= Len(block_log)
    <3>1. Lib[head] <= Len(block_log) /\ Lib[head] \in Nat
      BY <1>2, <2>3, LibAssumption DEF WritesOwnBranch
    <3>2. CASE head' = head
      BY <2>2, <2>3, <3>1, <3>2, UpToAll DEF CommittedLogged
    <3>3. CASE Len(head) > committed /\ head' = previous(head)
      <4> DEFINE n == Len(head) - 1
      <4>1. n \in 0..Len(head) /\ head' = UpTo(head, n) /\ committed <= n /\ fork_point <= n
        BY <2>2, <3>3 DEF previous
      <4>2. Len(head') = n
        BY <2>2, <4>1, UpToIs
      <4>3. CASE n = 0
        <5>1. head' = NoBlock
          BY <2>2, <4>1, <4>3, UpToNone
        <5> QED BY SMTT(40), <2>2, <4>1, <4>2, <5>1
      <4>4. CASE n # 0
        <5>1. n \in 1..Len(head)
          <6> HIDE DEF n
          <6> QED BY <2>2, <4>1, <4>4
        <5>2. head' \in Valid /\ Lib[head'] <= Lib[head] /\ head' \in Block
          BY <2>3, <4>1, <5>1, AncestorIs DEF Ancestor
        <5>3. Lib[head'] \in Nat
          BY <5>2, LibAssumption
        <5>4. Lib[head'] <= Len(block_log)
          BY <2>2, <3>1, <5>2, <5>3
        <5> QED BY SMTT(40), <2>2, <4>1, <4>2, <5>2, <5>4
      <4> QED BY <4>3, <4>4
    <3> QED BY <2>1, <3>2, <3>3
  <2>6. ASSUME NEW n \in 0..Len(head') PROVE UpTo(head', n) = UpTo(head, n)
    <3>1. Len(head') \in 0..Len(head)
      BY <2>2, <2>5
    <3>2. UpTo(UpTo(head, Len(head')), n) = UpTo(head, n)
      BY <2>2, <3>1, UpToUpTo
    <3> QED BY <2>5, <3>2
  <2>7. TypeOK'
    BY <1>1, <2>1, <2>4, <2>5 DEF TypeOK, ForkTypeOK
  <2>8. LogIrreversible' /\ IsFiniteSet(index)'
    BY <1>1 DEF LogIrreversible
  <2>9. CommittedLogged'
    <3>1. UpTo(head', committed) = UpTo(head, committed)
      BY <2>2, <2>5, <2>6
    <3> QED BY <1>1, <2>5, <3>1 DEF CommittedLogged
  <2>10. WritesOwnBranch'
    BY <1>1, <1>2, <2>5 DEF WritesOwnBranch
  <2>11. Kept(head)'
    <3> SUFFICES ASSUME NEW n \in 1..Len(head'), n >= committed PROVE UpTo(head', n) \in index
      BY <1>1 DEF Kept
    <3>1. n \in 0..Len(head') /\ n \in 1..Len(head)
      BY <2>2, <2>5
    <3> QED BY <2>6, <3>1 DEF Kept
  <2>12. ReceivedIsNew' /\ BranchesPart'
    BY <1>1, <2>1 DEF ReceivedIsNew, BranchesPart, Switching, Kept
  <2>13. ASSUME NEW b \in Seq(Label), Len(head) <= Len(b), head = UpTo(b, Len(head))
         PROVE  Len(head') <= Len(b) /\ head' = UpTo(b, Len(head')) /\ Len(b) \in Nat
    <3>1. Len(b) \in Nat /\ Len(head') \in 0..Len(head) /\ Len(head) \in 0..Len(b)
      BY <2>2, <2>5, <2>13
    <3>2. UpTo(UpTo(b, Len(head)), Len(head')) = UpTo(b, Len(head'))
      BY <3>1, UpToUpTo
    <3> QED BY <2>2, <2>5, <2>13, <3>1, <3>2
  <2>14. HeadsOnBranch'
    <3>1. CASE phase = "pop"
      <4>1. Len(head) <= Len(origin) /\ head = UpTo(origin, Len(head))
        BY <1>2, <3>1 DEF HeadsOnBranch
      <4>2. Len(head') <= Len(origin) /\ head' = UpTo(origin, Len(head'))
        BY <2>2, <2>13, <4>1
      <4>3. committed <= fork_point =>
              fork_head' = UpTo(target, Len(target) - (Len(origin) - Len(head')))
        <5> SUFFICES ASSUME committed <= fork_point
                     PROVE fork_head' = UpTo(target, Len(target) - (Len(origin) - Len(head')))
          OBVIOUS
        <5>1. Len(head) > committed
              /\ previous(fork_head) = UpTo(target, Len(target) - (Len(origin) - (Len(head) - 1)))
          BY <1>1, <3>1, PopWorks
        <5>2. Len(head') = Len(head) - 1
          <6>1. head' = UpTo(head, Len(head) - 1) /\ Len(head) - 1 \in 0..Len(head)
            BY <2>1, <2>2, <5>1 DEF previous
          <6> QED BY <2>2, <6>1, UpToIs
        <5> QED BY <2>1, <5>1, <5>2
      <4> QED BY <1>1, <2>1, <2>5, <3>1, <4>2, <4>3 DEF HeadsOnBranch
    <3>2. CASE phase = "unwind"
      <4>1. Len(head) <= Len(target) /\ head = UpTo(target, Len(head))
        BY <1>2, <3>2 DEF HeadsOnBranch
      <4>2. Len(head') <= Len(target) /\ head' = UpTo(target, Len(head'))
        BY <2>2, <2>13, <4>1
      <4>3. committed <= fork_point =>
              Len(head') < Len(target) /\ fork_head' = UpTo(target, Len(head') + 1)
        <5> SUFFICES ASSUME committed <= fork_point
                     PROVE Len(head') < Len(target) /\ fork_head' = UpTo(target, Len(head') + 1)
          OBVIOUS
        <5>1. Len(head) > committed /\ previous(fork_head) = head /\ Len(head) < Len(target)
          BY <1>1, <3>2, PopWorks
        <5>2. Len(head') = Len(head) - 1
          <6>1. head' = UpTo(head, Len(head) - 1) /\ Len(head) - 1 \in 0..Len(head)
            BY <2>1, <2>2, <5>1 DEF previous
          <6> QED BY <2>2, <6>1, UpToIs
        <5>3. Len(head') + 1 = Len(head) /\ Len(head') < Len(target)
          BY <2>2, <5>1, <5>2
        <5> QED BY <2>1, <4>1, <5>1, <5>3
      <4> QED BY <1>1, <2>1, <2>5, <3>2, <4>2, <4>3 DEF HeadsOnBranch
    <3> QED BY <1>1, <3>1, <3>2
  <2> QED BY <2>7, <2>8, <2>9, <2>10, <2>11, <2>12, <2>14
<1> QED BY <1>3, <1>4

\* At the fork point both branches go on from the same block.
LEMMA StepPopped ==
  ASSUME IInv, popped
  PROVE  IInv'
<1> USE DEF IInv
<1>1. /\ phase \in {"pop", "unwind"} /\ AtForkPoint
      /\ phase' = IF phase = "pop" THEN "apply" ELSE "restore"
      /\ UNCHANGED <<index, orphans, fork_head, max_size, head, committed, block_log,
                     target, origin, fork_point, result, migrating, to_write, crashes>>
  BY DEF popped, forkVars, diskVars
<1>2. ~migrating /\ Switching
  BY <1>1 DEF WritesOwnBranch, Switching
<1>3. /\ Len(head) = fork_point /\ UpTo(target, fork_point) = UpTo(origin, fork_point)
      /\ fork_point < Len(origin) /\ Len(origin) < Len(target)
      /\ Len(origin) \in Nat /\ Len(target) \in Nat /\ fork_point \in Nat
  BY <1>1, <1>2, SwitchFacts
<1>4. TypeOK'
  BY <1>1 DEF TypeOK, ForkTypeOK, Phases
<1>5. IsFiniteSet(index)' /\ LogIrreversible' /\ CommittedLogged' /\ Kept(head)'
  BY <1>1 DEF LogIrreversible, CommittedLogged, Kept
<1>6. WritesOwnBranch' /\ ReceivedIsNew'
  BY <1>1, <1>2 DEF WritesOwnBranch, ReceivedIsNew
<1>7. BranchesPart'
  BY <1>1, <1>2 DEF BranchesPart, Switching, Kept
<1>8. HeadsOnBranch'
  <2>1. head = UpTo(origin, Len(head)) /\ head = UpTo(target, Len(head))
    BY <1>2, <1>3 DEF HeadsOnBranch
  <2>2. Len(head) <= Len(origin) /\ Len(head) <= Len(target) /\ ~(Len(head) > fork_point)
        /\ fork_point <= Len(head)
    BY <1>3
  <2> QED BY <1>1, <2>1, <2>2 DEF HeadsOnBranch
<1> QED BY <1>4, <1>5, <1>6, <1>7, <1>8

\* A block of the branch the node was on can always be applied again, and
\* nothing has to be written for it.
LEMMA OriginApplies ==
  ASSUME IInv, Switching, NEW n \in 1..Len(origin), head = UpTo(origin, n - 1)
  PROVE  Applies(UpTo(origin, n), UpTo(origin, n))
<1> DEFINE b == UpTo(origin, n)
<1>1. /\ origin \in Valid /\ origin \in Block /\ origin \in Seq(Label) /\ Lib[origin] \in Nat
      /\ Lib[origin] <= Len(block_log) /\ Len(block_log) \in Nat
  BY SwitchFacts
<1>2. b \in Block /\ Lib[b] <= Lib[origin] /\ b \in Valid
  BY <1>1, AncestorIs DEF Ancestor
<1>3. previous(b) = head
  BY <1>1, OneDown
<1> HIDE DEF b
<1>4. Lib[b] \in Nat
  BY <1>2, LibAssumption
<1>5. AtLeastZero(Lib[b] - Len(block_log)) = 0
  BY <1>1, <1>2, <1>4 DEF AtLeastZero
<1>6. DOMAIN BlocksToWrite(b, b) = {}
  BY <1>5 DEF BlocksToWrite
<1>7. Applies(b, b)
  BY <1>2, <1>3, <1>6 DEF Applies
<1> QED BY <1>7 DEF b

\* The new branch is applied block by block.  A block that fails is not one of
\* the old branch, so that the old branch stays in the fork database.
LEMMA StepApplyNext ==
  ASSUME IInv, apply_next
  PROVE  IInv'
<1> USE DEF IInv
<1> DEFINE b == UpTo(target, Len(head) + 1)
<1>1. /\ phase = "apply" /\ ~migrating /\ head # target /\ fork_head' = b
      /\ UNCHANGED <<max_size, committed, block_log, target, origin, fork_point, result, crashes>>
  BY DEF apply_next
<1>2. Switching
  BY <1>1 DEF Switching
<1>3. /\ origin \in Block /\ target \in Block
      /\ origin \in Seq(Label) /\ target \in Seq(Label) /\ head \in Seq(Label)
      /\ Len(head) \in Nat /\ Len(origin) \in Nat /\ Len(target) \in Nat
      /\ committed \in Nat /\ fork_point \in Nat
      /\ fork_point < Len(origin) /\ Len(origin) < Len(target) /\ fork_point <= Len(head)
  BY <1>2, SwitchFacts
<1>4. head = UpTo(target, Len(head)) /\ Len(head) <= Len(target)
  BY <1>1, <1>2 DEF HeadsOnBranch
<1>5. Len(head) < Len(target) /\ Len(head) + 1 \in 1..Len(target)
  <2>1. Len(head) # Len(target)
    BY <1>1, <1>3, <1>4, UpToAll
  <2> QED BY <1>3, <1>4, <2>1
<1>6. /\ b \in Block /\ b \in Seq(Label) /\ Len(b) = Len(head) + 1
      /\ \A n \in 0..Len(head) + 1 : UpTo(b, n) = UpTo(target, n)
  <2>1. b \in Block
    BY <1>3, <1>5, AncestorIs DEF Ancestor
  <2>2. Len(head) + 1 \in 0..Len(target)
    BY <1>3, <1>5
  <2>3. \A n \in 0..Len(head) + 1 : UpTo(b, n) = UpTo(target, n)
    BY <1>3, <2>2, UpToUpTo
  <2> QED BY <1>3, <2>1, <2>2, <2>3, UpToIs
<1>7. Kept(target) /\ Kept(origin) /\ Kept(head)
  BY <1>1, <1>2 DEF BranchesPart
<1> HIDE DEF b
<1>8. CASE Applies(b, b)
  <2>1. Apply(b, b) /\ UNCHANGED <<index, orphans, phase>>
    BY <1>8 DEF apply_next, b
  <2>2. \A n \in 1..Len(b) : n >= committed => UpTo(b, n) \in index
    <3> SUFFICES ASSUME NEW n \in 1..Len(b), n >= committed PROVE UpTo(b, n) \in index
      OBVIOUS
    <3>1. n \in 0..Len(head) + 1 /\ n \in 1..Len(target)
      BY <1>3, <1>5, <1>6
    <3> QED BY <1>6, <1>7, <3>1 DEF Kept
  <2>3. /\ head' = b /\ head' \in Valid /\ to_write' \in Seq(Block) /\ migrating' = TRUE
        /\ LogIrreversible' /\ CommittedLogged' /\ WritesOwnBranch' /\ Kept(head)'
    <3>1. Len(fork_head') = Len(b) /\ UNCHANGED <<index, committed, block_log>>
          /\ phase' \in {"extend", "apply", "restore"}
      BY <1>1, <2>1
    <3> QED BY <1>1, <1>6, <1>8, <2>1, <2>2, <3>1, Applied
  <2>4. TypeOK'
    BY <1>1, <1>6, <2>1, <2>3 DEF TypeOK, ForkTypeOK
  <2>5. IsFiniteSet(index)' /\ ReceivedIsNew' /\ BranchesPart'
    BY <1>1, <1>2, <2>1 DEF ReceivedIsNew, BranchesPart, Switching, Kept
  <2>6. HeadsOnBranch'
    <3>1. fork_point <= Len(head') /\ Len(head') <= Len(target) /\ head' = UpTo(target, Len(head'))
      BY <1>3, <1>5, <1>6, <2>3 DEF b
    <3> QED BY <1>1, <2>1, <2>3, <3>1 DEF HeadsOnBranch
  <2> QED BY <2>3, <2>4, <2>5, <2>6
<1>9. CASE ~Applies(b, b)
  <2> DEFINE dropped == {UpTo(target, n) : n \in Len(b)..Len(target)}
  <2>1. Keep(index \ dropped) /\ phase' = "unwind" /\ UNCHANGED <<head, to_write, migrating>>
    BY <1>9 DEF apply_next, b
  <2>2. index' = index \ dropped /\ orphans' \subseteq index'
    BY <2>1 DEF Keep, ChildrenOf
  <2>3. ASSUME NEW m \in Len(b)..Len(target)
        PROVE  Len(UpTo(target, m)) = m /\ m \in Nat /\ m > Len(head)
    <3>1. m \in 0..Len(target) /\ m \in Nat /\ m > Len(head)
      BY <1>3, <1>6
    <3> QED BY <1>3, <3>1, UpToIs
  <2>4. TypeOK'
    BY <1>1, <1>6, <2>1, <2>2 DEF TypeOK, ForkTypeOK, Phases
  <2>5. IsFiniteSet(index)'
    BY <2>2, FS_Subset
  <2>6. LogIrreversible' /\ CommittedLogged' /\ WritesOwnBranch' /\ ReceivedIsNew'
    BY <1>1, <2>1 DEF LogIrreversible, CommittedLogged, WritesOwnBranch, ReceivedIsNew
  <2>7. Kept(head)'
    <3> SUFFICES ASSUME NEW n \in 1..Len(head), n >= committed PROVE UpTo(head, n) \in index'
      BY <1>1, <2>1 DEF Kept
    <3>1. UpTo(head, n) \in index
      BY <1>7 DEF Kept
    <3>2. Len(UpTo(head, n)) = n
      BY <1>3, UpToIs
    <3>3. UpTo(head, n) \notin dropped
      <4> SUFFICES ASSUME NEW m \in Len(b)..Len(target), UpTo(head, n) = UpTo(target, m) PROVE FALSE
        OBVIOUS
      <4>1. n = m /\ m > Len(head)
        BY <2>3, <3>2
      <4> QED BY <1>3, <4>1
    <3> QED BY <2>2, <3>1, <3>3
  <2>8. Kept(origin)'
    <3> SUFFICES ASSUME NEW n \in 1..Len(origin), n >= committed PROVE UpTo(origin, n) \in index'
      BY <1>1, <2>1 DEF Kept
    <3>1. UpTo(origin, n) \in index
      BY <1>7 DEF Kept
    <3>2. Len(UpTo(origin, n)) = n
      BY <1>3, UpToIs
    <3>3. UpTo(origin, n) \notin dropped
      <4> SUFFICES ASSUME NEW m \in Len(b)..Len(target), UpTo(origin, n) = UpTo(target, m) PROVE FALSE
        OBVIOUS
      <4>1. n = m /\ m > Len(head)
        BY <2>3, <3>2
      <4>2. /\ n \in 0..Len(target) /\ n <= Len(origin) /\ Len(head) + 1 \in 0..n
            /\ Len(head) \in 0..n /\ Len(head) + 1 \in 1..Len(origin)
        BY <1>3, <1>5, <1>6, <4>1
      <4>3. UpTo(target, Len(head) + 1) = UpTo(origin, Len(head) + 1)
            /\ UpTo(target, Len(head)) = UpTo(origin, Len(head))
        BY <1>3, <4>1, <4>2, CommonBelow
      <4>4. head = UpTo(origin, Len(head) + 1 - 1)
        <5>1. Len(head) + 1 - 1 = Len(head)
          BY <1>3
        <5> QED BY <1>4, <4>3, <5>1
      <4>5. Applies(UpTo(origin, Len(head) + 1), UpTo(origin, Len(head) + 1))
        BY <1>2, <4>2, <4>4, OriginApplies
      <4> QED BY <1>9, <4>3, <4>5 DEF b
    <3> QED BY <2>2, <3>1, <3>3
  <2>9. BranchesPart'
    BY <1>1, <1>2, <2>1, <2>8 DEF BranchesPart, Switching
  <2>10. HeadsOnBranch'
    BY <1>1, <1>2, <1>3, <1>4, <1>5, <2>1 DEF HeadsOnBranch, b
  <2> QED BY <2>4, <2>5, <2>6, <2>7, <2>9, <2>10
<1> QED BY <1>8, <1>9

\* The old branch is applied again, and that never fails.
LEMMA StepRestoreNext ==
  ASSUME IInv, restore_next
  PROVE  IInv' /\ phase' = "restore"
<1> USE DEF IInv
<1> DEFINE b == UpTo(origin, Len(head) + 1)
<1>1. /\ phase = "restore" /\ ~migrating /\ head # origin /\ fork_head' = b
      /\ UNCHANGED <<index, orphans, max_size, committed, block_log, crashes>>
  BY DEF restore_next
<1>2. Switching
  BY <1>1 DEF Switching
<1>3. /\ origin \in Block /\ origin \in Seq(Label) /\ target \in Seq(Label) /\ head \in Seq(Label)
      /\ Len(head) \in Nat /\ Len(origin) \in Nat /\ Len(target) \in Nat
      /\ committed \in Nat /\ fork_point \in Nat
      /\ fork_point < Len(origin) /\ fork_point <= Len(head)
  BY <1>2, SwitchFacts
<1>4. head = UpTo(origin, Len(head)) /\ Len(head) <= Len(origin)
  BY <1>1, <1>2 DEF HeadsOnBranch
<1>5. Len(head) < Len(origin) /\ Len(head) + 1 \in 1..Len(origin) /\ Len(head) + 1 - 1 = Len(head)
  <2>1. Len(head) # Len(origin)
    BY <1>1, <1>3, <1>4, UpToAll
  <2> QED BY <1>3, <1>4, <2>1
<1>6. /\ b \in Block /\ b \in Seq(Label) /\ Len(b) = Len(head) + 1
      /\ \A n \in 0..Len(head) + 1 : UpTo(b, n) = UpTo(origin, n)
  <2>1. b \in Block
    BY <1>3, <1>5, AncestorIs DEF Ancestor
  <2>2. Len(head) + 1 \in 0..Len(origin)
    BY <1>3, <1>5
  <2>3. \A n \in 0..Len(head) + 1 : UpTo(b, n) = UpTo(origin, n)
    BY <1>3, <2>2, UpToUpTo
  <2> QED BY <1>3, <2>1, <2>2, <2>3, UpToIs
<1>7. Applies(b, b)
  BY <1>2, <1>4, <1>5, OriginApplies
<1>8. Kept(origin)
  BY <1>2 DEF BranchesPart
<1> HIDE DEF b
<1>9. Apply(b, b) /\ UNCHANGED <<phase, target, origin, fork_point, result>>
  BY <1>7 DEF restore_next, pushVars, b
<1>10. \A n \in 1..Len(b) : n >= committed => UpTo(b, n) \in index
  <2> SUFFICES ASSUME NEW n \in 1..Len(b), n >= committed PROVE UpTo(b, n) \in index
    OBVIOUS
  <2>1. n \in 0..Len(head) + 1 /\ n \in 1..Len(origin)
    BY <1>3, <1>5, <1>6
  <2> QED BY <1>6, <1>8, <2>1 DEF Kept
<1>11. /\ head' = b /\ head' \in Valid /\ to_write' \in Seq(Block) /\ migrating' = TRUE
       /\ LogIrreversible' /\ CommittedLogged' /\ WritesOwnBranch' /\ Kept(head)'
  <2>1. Len(fork_head') = Len(b) /\ UNCHANGED <<index, committed, block_log>>
        /\ phase' \in {"extend", "apply", "restore"}
    BY <1>1, <1>9
  <2> QED BY <1>1, <1>6, <1>7, <1>9, <1>10, <2>1, Applied
<1>12. TypeOK'
  BY <1>1, <1>6, <1>9, <1>11 DEF TypeOK, ForkTypeOK
<1>13. IsFiniteSet(index)' /\ ReceivedIsNew' /\ BranchesPart'
  BY <1>1, <1>2, <1>9 DEF ReceivedIsNew, BranchesPart, Switching, Kept
<1>14. HeadsOnBranch'
  <2>1. fork_point <= Len(head') /\ Len(head') <= Len(origin) /\ head' = UpTo(origin, Len(head'))
    BY <1>3, <1>5, <1>6, <1>11 DEF b
  <2> QED BY <1>1, <1>9, <1>11, <2>1 DEF HeadsOnBranch
<1> QED BY <1>1, <1>9, <1>11, <1>12, <1>13, <1>14

\* A restarted node works on a block whose branch is in the log.
LEMMA RestartParts ==
  ASSUME IInv, NEW h \in Valid \cup {NoBlock}, Restart(h), Len(h) = committed',
         committed' \in Nat, committed' <= Len(block_log), max_size' \in Nat,
         crashes' \in 0..MaxCrashes,
         committed' > 0 => block_log[committed'] = h
  PROVE  IInv'
<1> USE DEF IInv
<1>1. /\ head' = h /\ Finish("none") /\ migrating' = FALSE /\ to_write' = <<>>
      /\ block_log' = block_log
  BY DEF Restart
<1>2. /\ h = NoBlock => index' = {} /\ orphans' = {} /\ fork_head' = NoBlock
      /\ h # NoBlock => index' = {h} /\ orphans' = {h} /\ fork_head' = h
  BY DEF Restart, start_block
<1>3. /\ h \in Seq(Label) /\ Len(h) \in Nat
      /\ h # NoBlock => h \in Block /\ Lib[h] \in 0..Len(h)
  <2>1. h # NoBlock => h \in Block
    BY LibAssumption
  <2>2. NoBlock \in Seq(Label) /\ Len(NoBlock) = 0
    BY EmptySeq DEF NoBlock
  <2> QED BY <2>1, <2>2, BlockIs
<1>4. TypeOK'
  <2>1. to_write' \in Seq(Block)
    BY <1>1
  <2>2. ForkTypeOK'
    BY <1>2, <1>3 DEF ForkTypeOK
  <2> QED BY <1>1, <2>1, <2>2 DEF TypeOK, Finish, Phases, Results
<1>5. IsFiniteSet(index)'
  <2>1. IsFiniteSet({}) /\ IsFiniteSet({h})
    BY FS_EmptySet, FS_Singleton
  <2> QED BY <1>2, <2>1
<1>6. LogIrreversible'
  BY <1>1 DEF LogIrreversible
<1>7. CommittedLogged'
  <2>1. UpTo(h, committed') = h
    BY <1>3, UpToAll
  <2>2. committed' <= Len(h)
    BY <1>3
  <2> QED BY <1>1, <2>1, <2>2 DEF CommittedLogged
<1>8. WritesOwnBranch'
  <2>1. h # NoBlock => Lib[h] <= Len(block_log)
    BY <1>3, Heads
  <2> QED BY <1>1, <2>1 DEF WritesOwnBranch
<1>9. Kept(head)'
  <2> SUFFICES ASSUME NEW n \in 1..Len(h), n >= committed' PROVE UpTo(h, n) \in index'
    BY <1>1 DEF Kept
  <2>1. n = Len(h) /\ Len(h) # 0
    BY <1>3
  <2>2. h # NoBlock
    BY <2>1, EmptySeq DEF NoBlock
  <2> QED BY <1>2, <1>3, <2>1, <2>2, UpToAll
<1>10. ReceivedIsNew' /\ BranchesPart' /\ HeadsOnBranch'
  BY <1>1, IdleParts DEF Finish
<1> QED BY <1>4, <1>5, <1>6, <1>7, <1>8, <1>9, <1>10

\* A crash keeps the committed part of the state; a replay rebuilds the state
\* from the log.  Either has the committed part of the state before.
LEMMA StepRestart ==
  ASSUME IInv, crash \/ reindex
  PROVE  /\ IInv' /\ phase' = "idle" /\ result' = "none"
         /\ committed' >= committed /\ Len(head') = committed'
         /\ UpTo(head', committed) = UpTo(head, committed)
<1> USE DEF IInv
<1>1. /\ head \in Seq(Label) /\ Len(head) \in Nat /\ committed \in Nat /\ Len(block_log) \in Nat
      /\ block_log \in Seq(Block) /\ crashes \in 0..MaxCrashes
  BY Heads DEF TypeOK
<1>2. committed <= Len(head) /\ committed <= Len(block_log)
      /\ (committed > 0 => block_log[committed] = UpTo(head, committed))
  BY DEF CommittedLogged
<1>3. CASE crash
  <2> DEFINE h == UpTo(head, committed)
  <2>1. Restart(h) /\ committed' = committed /\ max_size' = InitMaxSize
        /\ crashes < MaxCrashes /\ crashes' = crashes + 1
    BY <1>3 DEF crash
  <2>2. h \in Seq(Label) /\ Len(h) = committed /\ UpTo(h, committed) = h
    <3>1. h \in Seq(Label) /\ Len(h) = committed
      BY <1>1, <1>2, UpToIs
    <3> QED BY <3>1, UpToAll
  <2>3. h \in Valid \cup {NoBlock}
    <3>1. CASE committed = 0
      BY <1>1, <3>1, UpToNone
    <3>2. CASE committed # 0
      <4>1. committed \in 1..Len(head) /\ head # NoBlock
        BY <1>1, <1>2, <3>2, EmptySeq DEF NoBlock
      <4>2. head \in Valid /\ head \in Block
        BY <4>1, Heads
      <4> QED BY <4>1, <4>2, AncestorIs DEF Ancestor
    <3> QED BY <3>1, <3>2
  <2>4. max_size' \in Nat /\ crashes' \in 0..MaxCrashes
    BY <1>1, <2>1, BlockAssumption, LibAssumption
  <2> HIDE DEF h
  <2>5. committed > 0 => block_log[committed] = h
    BY <1>2 DEF h
  <2>6. IInv'
    BY <1>1, <1>2, <2>1, <2>2, <2>3, <2>4, <2>5, RestartParts
  <2>7. head' = h /\ phase' = "idle" /\ result' = "none"
    BY <2>1 DEF Restart, Finish
  <2> QED BY <1>1, <2>1, <2>2, <2>6, <2>7 DEF h
<1>4. CASE reindex
  <2> DEFINE last == Len(block_log)
             h == block_log[last]
  <2>1. /\ Restart(h) /\ committed' = Len(h) /\ max_size' = Len(h) - Lib[h] + 1
        /\ crashes < MaxCrashes /\ crashes' = crashes + 1 /\ block_log # <<>>
    BY <1>4 DEF reindex
  <2>2. last \in Nat /\ last > 0 /\ last \in DOMAIN block_log
    BY <1>1, <2>1, EmptySeq
  <2>3. PICK c \in Valid : last <= Lib[c] /\ \A i \in DOMAIN block_log : block_log[i] = UpTo(c, i)
    BY <2>1 DEF LogIrreversible
  <2>4. c \in Block /\ c \in Seq(Label) /\ Len(c) \in Nat /\ Lib[c] \in 0..Len(c)
    BY LibAssumption, BlockIs
  <2> HIDE DEF last
  <2>5. last \in 1..Len(c) /\ last \in 0..Len(c)
    BY <2>2, <2>3, <2>4
  <2>6. h = UpTo(c, last)
    BY <2>2, <2>3
  <2>7. h \in Valid /\ h \in Block /\ Len(h) = last
    BY <2>4, <2>5, <2>6, AncestorIs, UpToIs DEF Ancestor
  <2>8. UpTo(h, committed) = UpTo(head, committed)
    <3>1. committed \in 0..last
      BY <1>1, <1>2 DEF last
    <3>2. UpTo(h, committed) = UpTo(c, committed)
      BY <2>4, <2>5, <2>6, <3>1, UpToUpTo
    <3>3. CASE committed = 0
      BY <1>1, <2>4, <3>2, <3>3, UpToNone
    <3>4. CASE committed # 0
      <4>1. committed > 0 /\ committed \in DOMAIN block_log
        BY <1>1, <1>2, <3>4
      <4> QED BY <1>2, <2>3, <3>2, <4>1
    <3> QED BY <3>3, <3>4
  <2> HIDE DEF h
  <2>9. max_size' \in Nat /\ crashes' \in 0..MaxCrashes
    <3>1. Lib[h] \in 0..Len(h) /\ Len(h) \in Nat
      BY <2>2, <2>7, BlockIs
    <3> QED BY <1>1, <2>1, <3>1, LibAssumption
  <2>10. Len(h) = committed' /\ committed' \in Nat /\ committed' <= Len(block_log)
         /\ block_log[committed'] = h
    BY <2>1, <2>2, <2>7 DEF h, last
  <2>11. IInv'
    BY <2>1, <2>7, <2>9, <2>10, RestartParts
  <2>12. head' = h /\ phase' = "idle" /\ result' = "none"
    BY <2>1 DEF Restart, Finish
  <2>13. committed' >= committed
    BY <1>1, <1>2, <2>1, <2>7 DEF last
  <2> QED BY <2>1, <2>8, <2>11, <2>12, <2>13
<1> QED BY <1>3, <1>4

\* A push ends after its last block.
LEMMA StepEnds ==
  ASSUME IInv, extended \/ switched
  PROVE  IInv'
<1>1. ~migrating /\ UNCHANGED <<index, orphans, fork_head, max_size, diskVars, migrating, to_write, crashes>>
  BY DEF extended, switched, forkVars
<1>2. PICK outcome \in Results : Finish(outcome)
  BY DEF extended, switched, Results
<1>3. fork_head' \in Block \cup {NoBlock}
  BY <1>1 DEF IInv, TypeOK, ForkTypeOK
<1> QED BY <1>1, <1>2, <1>3, StepFinish

\* A node starts with nothing.
LEMMA Initial == Init => IInv
<1> SUFFICES ASSUME Init PROVE IInv
  OBVIOUS
<1>1. Len(NoBlock) = 0 /\ IsFiniteSet({}) /\ Len(<<>>) = 0
  BY EmptySeq, FS_EmptySet DEF NoBlock
<1>2. TypeOK
  <2>1. ForkTypeOK
    BY BlockAssumption DEF Init, ForkInit, ForkTypeOK
  <2>2. committed \in Nat /\ fork_point \in Nat /\ crashes \in 0..MaxCrashes
    BY LibAssumption DEF Init
  <2>3. block_log \in Seq(Block) /\ to_write \in Seq(Block)
    BY DEF Init
  <2> QED BY <2>1, <2>2, <2>3 DEF Init, TypeOK, Phases, Results
<1>3. IsFiniteSet(index) /\ Kept(head)
  BY <1>1 DEF Init, ForkInit, Kept
<1>4. LogIrreversible /\ CommittedLogged /\ WritesOwnBranch
  BY <1>1 DEF Init, LogIrreversible, CommittedLogged, WritesOwnBranch
<1>5. ReceivedIsNew /\ BranchesPart /\ HeadsOnBranch
  BY DEF Init, ReceivedIsNew, BranchesPart, HeadsOnBranch, Switching
<1> QED BY <1>2, <1>3, <1>4, <1>5 DEF IInv

\* Nothing happens.
LEMMA Stutter ==
  ASSUME IInv, UNCHANGED vars
  PROVE  IInv'
<1>1. /\ UNCHANGED <<index, orphans, fork_head, max_size, head, committed, block_log>>
      /\ UNCHANGED <<phase, target, origin, fork_point, result, migrating, to_write, crashes>>
  BY DEF vars, forkVars, diskVars, pushVars
<1>2. TypeOK' /\ IsFiniteSet(index)'
  BY <1>1 DEF IInv, TypeOK, ForkTypeOK
<1>3. LogIrreversible' /\ CommittedLogged' /\ WritesOwnBranch' /\ Kept(head)'
  BY <1>1 DEF IInv, LogIrreversible, CommittedLogged, WritesOwnBranch, Kept
<1>4. ReceivedIsNew' /\ BranchesPart' /\ HeadsOnBranch'
  BY <1>1 DEF IInv, ReceivedIsNew, BranchesPart, HeadsOnBranch, Switching, Kept
<1> QED BY <1>2, <1>3, <1>4 DEF IInv

\* Every step of a node to which no block it has is pushed again.
LEMMA StepNext ==
  ASSUME IInv, ~Redelivery, [Next]_vars
  PROVE  IInv'
<1>1. CASE UNCHANGED vars
  BY <1>1, Stutter
<1>2. ASSUME NEW b \in Block, push_block(b) PROVE IInv'
  BY <1>2, StepPush
<1>3. CASE append
  BY <1>3, StepAppend
<1>4. CASE commit
  BY <1>4, StepCommit
<1>5. CASE extend
  BY <1>5, StepExtend
<1>6. CASE switch
  BY <1>6, StepSwitch
<1>7. CASE extended \/ switched
  BY <1>7, StepEnds
<1>8. CASE pop_block
  BY <1>8, StepPop
<1>9. CASE popped
  BY <1>9, StepPopped
<1>10. CASE apply_next
  BY <1>10, StepApplyNext
<1>11. CASE restore_next
  BY <1>11, StepRestoreNext
<1>12. CASE crash \/ reindex
  BY <1>12, StepRestart
<1> QED BY <1>1, <1>2, <1>3, <1>4, <1>5, <1>6, <1>7, <1>8, <1>9, <1>10, <1>11, <1>12 DEF Next, Round

-----------------------------------------------------------------------------
(* The theorems.                                                           *)

\* The inductive invariant holds for a node to which no block it has is pushed
\* again.
THEOREM Invariant == ~Redelivery => (Spec => []IInv)
<1> SUFFICES ASSUME ~Redelivery PROVE Spec => []IInv
  OBVIOUS
<1>1. Init => IInv
  BY Initial
<1>2. IInv /\ [Next]_vars => IInv'
  BY StepNext
<1> QED BY <1>1, <1>2, PTL DEF Spec

\* Type correctness of fork database, chain state, log and push.
THEOREM TypeCorrect == ~Redelivery => (Spec => []TypeOK)
<1> SUFFICES ASSUME ~Redelivery PROVE Spec => []TypeOK
  OBVIOUS
<1>1. IInv => TypeOK
  BY DEF IInv
<1> QED BY <1>1, Invariant, PTL

\* The log is one chain, and the committed state is on it.
LEMMA LogFollows ==
  ASSUME IInv
  PROVE  LogIsIrreversibleChain
<1> USE DEF IInv
<1>1. /\ head \in Seq(Label) /\ Len(head) \in Nat /\ committed \in Nat /\ Len(block_log) \in Nat
      /\ block_log \in Seq(Block)
  BY Heads DEF TypeOK
<1>2. ASSUME NEW i \in DOMAIN block_log
      PROVE  Len(block_log[i]) = i /\ block_log[i] = UpTo(block_log[Len(block_log)], i)
  <2> DEFINE last == Len(block_log)
  <2>1. last \in DOMAIN block_log /\ i \in 1..last /\ block_log # <<>>
    BY <1>1
  <2>2. PICK c \in Valid : last <= Lib[c] /\ \A j \in DOMAIN block_log : block_log[j] = UpTo(c, j)
    BY <2>1 DEF LogIrreversible
  <2>3. c \in Seq(Label) /\ Len(c) \in Nat /\ Lib[c] \in 0..Len(c)
    BY LibAssumption, BlockIs
  <2>4. last \in 0..Len(c) /\ i \in 0..last /\ i \in 0..Len(c)
    BY <1>1, <2>1, <2>2, <2>3
  <2>5. Len(UpTo(c, i)) = i /\ UpTo(UpTo(c, last), i) = UpTo(c, i)
    BY <2>3, <2>4, UpToIs, UpToUpTo
  <2> QED BY <2>1, <2>2, <2>5
<1>3. committed <= Len(head)
  BY DEF CommittedLogged
<1>4. StateMatchesLog
  <2> SUFFICES ASSUME committed > 0 PROVE LogHolds(UpTo(head, committed))
    BY DEF StateMatchesLog
  <2>1. Len(UpTo(head, committed)) = committed
    BY <1>1, <1>3, UpToIs
  <2> QED BY <1>1, <2>1 DEF CommittedLogged, LogHolds
<1> QED BY <1>2, <1>3, <1>4 DEF LogIsIrreversibleChain

\* Through crashes in the middle of a write, replays, failed and successful
\* fork switches the log is one chain and the committed state lies on it.
THEOREM LogCorrect == ~Redelivery => (Spec => []LogIsIrreversibleChain)
<1> SUFFICES ASSUME ~Redelivery PROVE Spec => []LogIsIrreversibleChain
  OBVIOUS
<1>1. IInv => LogIsIrreversibleChain
  BY LogFollows
<1> QED BY <1>1, Invariant, PTL

\* What a step may do to the irreversible part of the chain.
LEMMA Stays ==
  ASSUME IInv, IInv', [Next]_vars
  PROVE  /\ committed' >= committed /\ Len(head') >= committed
         /\ UpTo(head', committed) = UpTo(head, committed)
<1>1. /\ head \in Seq(Label) /\ Len(head) \in Nat /\ committed \in Nat
      /\ committed <= Len(head) /\ committed \in 0..Len(head)
  BY Heads DEF IInv, CommittedLogged
<1>2. Len(head') \in Nat /\ committed' \in Nat /\ head' \in Seq(Label) /\ committed' <= Len(head')
  <2>1. TypeOK' /\ CommittedLogged'
    BY DEF IInv
  <2>2. head' \in Block \cup {NoBlock} /\ committed' \in Nat
    BY <2>1, LibAssumption DEF TypeOK
  <2>3. NoBlock \in Seq(Label) /\ \A b \in Block : b \in Seq(Label)
    BY BlockIs DEF NoBlock
  <2>4. head' \in Seq(Label)
    BY <2>2, <2>3
  <2> QED BY <2>1, <2>2, <2>4 DEF CommittedLogged
<1>3. CASE crash \/ reindex
  BY <1>1, <1>2, <1>3, StepRestart
<1>4. ASSUME committed' >= committed, previous(head') = head, Len(head') > 0
      PROVE  /\ Len(head') >= committed
             /\ UpTo(head', committed) = UpTo(head, committed)
  <2>1. Len(head') - 1 \in 0..Len(head') /\ head = UpTo(head', Len(head') - 1)
    BY <1>2, <1>4 DEF previous
  <2>2. Len(head) = Len(head') - 1
    BY <1>2, <2>1, UpToIs
  <2>3. UpTo(UpTo(head', Len(head') - 1), committed) = UpTo(head', committed)
    BY <1>1, <1>2, <2>1, <2>2, UpToUpTo
  <2> QED BY <1>1, <1>2, <2>1, <2>2, <2>3
<1>5. CASE head' = head /\ committed' >= committed
  BY <1>1, <1>2, <1>5
<1>6. ASSUME NEW b \in Block, NEW tip, Applies(b, tip), Apply(b, tip), committed' = committed
      PROVE  /\ committed' >= committed /\ Len(head') >= committed
             /\ UpTo(head', committed) = UpTo(head, committed)
  <2>1. head' = b /\ previous(b) = head /\ Len(b) > 0
    BY <1>6, BlockIs DEF Applies, Apply
  <2> QED BY <1>1, <1>4, <1>6, <2>1
<1>7. CASE extend
  <2>1. committed' = committed
    BY <1>7 DEF extend
  <2>2. CASE Applies(target, fork_head)
    <3>1. target \in Block /\ Apply(target, fork_head)
      BY <1>7, <2>2 DEF extend, IInv, ReceivedIsNew, TypeOK, ForkTypeOK
    <3> QED BY <1>6, <2>1, <2>2, <3>1
  <2>3. CASE ~Applies(target, fork_head)
    BY <1>1, <1>5, <1>7, <2>1, <2>3 DEF extend
  <2> QED BY <2>2, <2>3
<1>8. CASE pop_block
  <2>1. committed' = committed
    BY <1>8 DEF pop_block
  <2>2. CASE head' = head
    BY <1>1, <1>5, <2>1, <2>2
  <2>3. CASE Len(head) > committed /\ head' = previous(head)
    <3>1. Len(head) - 1 \in 0..Len(head) /\ committed \in 0..Len(head) - 1
          /\ head' = UpTo(head, Len(head) - 1)
      BY <1>1, <2>3 DEF previous
    <3>2. UpTo(UpTo(head, Len(head) - 1), committed) = UpTo(head, committed)
      BY <1>1, <3>1, UpToUpTo
    <3> QED BY <1>1, <1>2, <2>1, <3>1, <3>2
  <2> QED BY <1>8, <2>2, <2>3 DEF pop_block
<1>9. CASE apply_next
  <2> DEFINE b == UpTo(target, Len(head) + 1)
  <2>1. committed' = committed
    BY <1>9 DEF apply_next
  <2>2. CASE Applies(b, b)
    <3>1. Apply(b, b)
      BY <1>9, <2>2 DEF apply_next
    <3>2. b \in Valid /\ b \in Block
      BY <2>2, LibAssumption DEF Applies
    <3> QED BY <1>6, <2>1, <2>2, <3>1, <3>2
  <2>3. CASE ~Applies(b, b)
    BY <1>1, <1>5, <1>9, <2>1, <2>3 DEF apply_next
  <2> QED BY <2>2, <2>3
<1>10. CASE restore_next
  <2> DEFINE b == UpTo(origin, Len(head) + 1)
  <2>1. committed' = committed
    BY <1>10 DEF restore_next
  <2>2. CASE Applies(b, b)
    <3>1. Apply(b, b)
      BY <1>10, <2>2 DEF restore_next
    <3>2. b \in Valid /\ b \in Block
      BY <2>2, LibAssumption DEF Applies
    <3> QED BY <1>6, <2>1, <2>2, <3>1, <3>2
  <2>3. CASE ~Applies(b, b)
    BY <1>1, <1>5, <1>10, <2>1, <2>3 DEF restore_next
  <2> QED BY <2>2, <2>3
<1>11. CASE commit
  <2>1. head' = head /\ committed' \in {Lib[head], committed} /\ (committed' # committed => Lib[head] > committed)
    BY <1>11 DEF commit
  <2> QED BY <1>1, <1>2, <1>5, <2>1
<1>12. CASE \/ append \/ switch \/ extended \/ switched \/ popped \/ UNCHANGED vars
            \/ \E b \in Block : push_block(b)
  <2>1. head' = head /\ committed' = committed
    BY <1>12 DEF append, switch, extended, switched, popped, push_block, vars, diskVars
  <2> QED BY <1>1, <1>5, <2>1
<1> QED BY <1>3, <1>7, <1>8, <1>9, <1>10, <1>11, <1>12 DEF Next, Round

\* No push, pop, failed fork switch, crash or replay takes an irreversible
\* block back.
THEOREM IrreversibilityKept == ~Redelivery => (Spec => IrreversibleStays)
<1> SUFFICES ASSUME ~Redelivery PROVE Spec => IrreversibleStays
  OBVIOUS
<1>1. IInv /\ IInv' /\ [Next]_vars =>
        [/\ committed' >= committed
         /\ Len(head') >= committed
         /\ UpTo(head', committed) = UpTo(head, committed)]_vars
  BY Stays
<1> QED BY <1>1, Invariant, PTL DEF Spec, IrreversibleStays

\* How a fork switch may end.
LEMMA SwitchEnds ==
  ASSUME IInv, [Next]_vars, Switching, phase' = "idle"
  PROVE  /\ result' = "switched" => head' = target /\ fork_head' = target
         /\ result' = "failed" /\ committed <= fork_point => head' = origin /\ fork_head' = origin
<1>1. /\ fork_point < Len(origin) /\ Len(origin) < Len(target)
      /\ fork_point \in Nat /\ Len(origin) \in Nat /\ Len(target) \in Nat
  BY SwitchFacts
<1>2. CASE crash \/ reindex
  BY <1>2, StepRestart
<1>3. CASE switched
  <2>1. UNCHANGED <<fork_head, head>>
    BY <1>3 DEF switched, forkVars, diskVars
  <2>2. CASE phase = "apply" /\ head = target /\ Finish("switched")
    <3>1. fork_head = head
      BY <1>1, <2>2 DEF IInv, HeadsOnBranch, Switching
    <3> QED BY <2>1, <2>2, <3>1 DEF Finish
  <2>3. CASE phase = "restore" /\ head = origin /\ Finish("failed")
    <3>1. fork_head = head
      BY <1>1, <2>3 DEF IInv, HeadsOnBranch, Switching
    <3> QED BY <2>1, <2>3, <3>1 DEF Finish
  <2> QED BY <1>3, <2>2, <2>3 DEF switched
<1>4. CASE pop_block
  <2>1. phase \in {"pop", "unwind"} /\ ~AtForkPoint
    BY <1>4 DEF pop_block
  <2>2. ~(is_known_block(head) /\ LinkAlive(fork_head, Held)) /\ Finish("failed")
    BY <1>4, <2>1 DEF pop_block, pushVars
  <2>3. ~(committed <= fork_point)
    BY <2>1, <2>2, PopWorks
  <2> QED BY <2>2, <2>3 DEF Finish
<1>5. CASE restore_next
  BY <1>5, StepRestoreNext
<1>6. CASE \/ append \/ commit \/ popped \/ apply_next \/ UNCHANGED vars
  BY <1>6 DEF append, commit, popped, apply_next, vars, pushVars, Switching
<1>7. CASE \/ extend \/ switch \/ extended \/ \E b \in Block : push_block(b)
  BY <1>7 DEF extend, switch, extended, push_block, Switching
<1> QED BY <1>2, <1>3, <1>4, <1>5, <1>6, <1>7 DEF Next, Round

\* A fork switch ends on the new branch or, no irreversible block being in the
\* way, with both heads where they were.
THEOREM SwitchCorrect == ~Redelivery => (Spec => SwitchAllOrNothing)
<1> SUFFICES ASSUME ~Redelivery PROVE Spec => SwitchAllOrNothing
  OBVIOUS
<1>1. IInv /\ [Next]_vars =>
        [(phase \in {"pop", "apply", "unwind", "restore"} /\ phase' = "idle") =>
          ((result' = "switched" => head' = target /\ fork_head' = target) /\
           (result' = "failed" /\ committed <= fork_point =>
              head' = origin /\ fork_head' = origin))]_vars
  BY SwitchEnds DEF Switching
<1> QED BY <1>1, Invariant, PTL DEF Spec, SwitchAllOrNothing
=============================================================================
