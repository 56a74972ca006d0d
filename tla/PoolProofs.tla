------------------------------ MODULE PoolProofs ------------------------------
(***************************************************************************)
(* Proofs about TransactionPool: its types, that no transaction is ever    *)
(* applied twice, that pushes of blocks lose none, and that the node       *)
(* accepts the blocks it makes.                                            *)
(***************************************************************************)
EXTENDS TransactionPool, TLAPS

\* The genesis state, from which nothing can be repeated.
LEMMA GenesisGood == Genesis \in State /\ \A r : Unrepeatable(r, Genesis)
BY PoolAssumption DEF Genesis, State, Unrepeatable

\* The head state is a state from which nothing can be repeated.
LEMMA HeadGood ==
  ASSUME IInv
  PROVE  HeadState \in State /\ Unrepeatable(replayed, HeadState)
<1>1. CASE chain = <<>>
  BY <1>1, GenesisGood DEF HeadState
<1>2. CASE chain # <<>>
  <2>1. chain \in Seq(Block) /\ Len(chain) \in 1..Len(chain)
    BY <1>2 DEF IInv, TypeOK
  <2>2. chain[Len(chain)] \in Block
    BY <2>1
  <2> QED BY <1>2, <2>1, <2>2 DEF HeadState, Block, IInv, UnrepeatableChain
<1> QED BY <1>1, <1>2

\* So is the current state, pending session or head.
LEMMA CurrentGood ==
  ASSUME IInv
  PROVE  Current \in State /\ Unrepeatable(replayed, Current)
BY HeadGood DEF Current, IInv, TypeOK

-----------------------------------------------------------------------------
(* Applying transactions.                                                  *)

\* Applying transactions gives a state.
LEMMA ApplyAllType ==
  ASSUME NEW s \in State, NEW txs \in Seq(Tx)
  PROVE  /\ ApplyAll(s, txs) \in State
         /\ ApplyAll(s, txs).time = s.time
         /\ ApplyAll(s, txs).applied = s.applied \o txs
         /\ ApplyAll(s, txs).known = s.known \cup Items(txs)
<1>1. Items(txs) \subseteq Tx
  BY DEF Items
<1>2. s.applied \o txs \in Seq(Tx)
  BY DEF State
<1> QED BY <1>1, <1>2 DEF ApplyAll, State

\* What a block's transactions being applicable in turn means for them.
LEMMA BlockTransactionsFresh ==
  ASSUME NEW s \in State, NEW txs \in Seq(Tx), BlockApplies(s, txs),
         NEW j \in DOMAIN txs
  PROVE  /\ txs[j] \notin s.known /\ s.time <= Expiration[txs[j]]
         /\ \A i \in 1..j - 1 : txs[i] # txs[j]
<1> DEFINE front == SubSeq(txs, 1, j - 1)
<1>1. j \in 1..Len(txs) /\ Len(txs) \in Nat
  OBVIOUS
<1>2. front \in Seq(Tx) /\ Len(front) = j - 1
      /\ \A i \in 1..j - 1 : front[i] = txs[i]
  BY <1>1
<1>3. Acceptable(ApplyAll(s, front), txs[j])
  BY DEF BlockApplies
<1>4. \A i \in 1..j - 1 : txs[i] \in Items(front)
  BY <1>1, <1>2 DEF Items
<1>5. s.time \in Nat /\ Expiration[txs[j]] \in Nat
  BY PoolAssumption DEF State
<1>6. /\ ApplyAll(s, front).time = s.time
      /\ ApplyAll(s, front).known = s.known \cup Items(front)
  BY <1>2, ApplyAllType
<1> QED BY <1>3, <1>4, <1>5, <1>6 DEF Acceptable, InTime

\* Applying a block's transactions keeps a state from being repeatable.
LEMMA ApplyAllGood ==
  ASSUME NEW s \in State, Unrepeatable(replayed, s), NEW txs \in Seq(Tx), BlockApplies(s, txs)
  PROVE  Unrepeatable(replayed, ApplyAll(s, txs))
<1> SUFFICES ASSUME ~replayed
             PROVE  Unrepeatable(replayed, ApplyAll(s, txs))
  BY DEF Unrepeatable
<1> DEFINE r == ApplyAll(s, txs)
           n == Len(s.applied)
<1>1. s.applied \in Seq(Tx) /\ n \in Nat /\ Len(txs) \in Nat /\ s.time \in Int
  BY DEF State
<1>2. /\ r.applied = s.applied \o txs
      /\ r.known = s.known \cup Items(txs)
      /\ r.time = s.time
  BY ApplyAllType
<1>3. /\ DOMAIN r.applied = 1..n + Len(txs)
      /\ \A i \in 1..n : r.applied[i] = s.applied[i]
      /\ \A i \in n + 1..n + Len(txs) : r.applied[i] = txs[i - n] /\ i - n \in DOMAIN txs
  BY <1>1, <1>2
<1>4. \A j \in DOMAIN txs : \A i \in 1..n : s.applied[i] # txs[j]
  <2> SUFFICES ASSUME NEW j \in DOMAIN txs, NEW i \in 1..n, s.applied[i] = txs[j]
               PROVE  FALSE
    OBVIOUS
  <2>1. txs[j] \notin s.known /\ s.time <= Expiration[txs[j]]
    BY BlockTransactionsFresh
  <2>2. Expiration[txs[j]] \in Int
    BY PoolAssumption
  <2>3. s.applied[i] \in s.known \/ Expiration[s.applied[i]] < s.time
    BY <1>1 DEF Unrepeatable
  <2> QED BY <1>1, <2>1, <2>2, <2>3
<1>5. \A i, j \in DOMAIN txs : txs[i] = txs[j] => i = j
  <2> SUFFICES ASSUME NEW i \in DOMAIN txs, NEW j \in DOMAIN txs, i < j
               PROVE  txs[i] # txs[j]
    BY <1>1
  <2>1. i \in 1..j - 1
    BY <1>1
  <2> QED BY <2>1, BlockTransactionsFresh
<1>6. \A i \in 1..n : \A j \in 1..n : s.applied[i] = s.applied[j] => i = j
  BY <1>1 DEF Unrepeatable
<1>7. ASSUME NEW i \in DOMAIN r.applied, NEW j \in DOMAIN r.applied,
             r.applied[i] = r.applied[j]
      PROVE  i = j
  <2>1. CASE i \in 1..n /\ j \in 1..n
    BY <1>3, <1>6, <1>7, <2>1
  <2>2. CASE i \in 1..n /\ j \in n + 1..n + Len(txs)
    BY <1>3, <1>4, <1>7, <2>2
  <2>3. CASE i \in n + 1..n + Len(txs) /\ j \in 1..n
    BY <1>3, <1>4, <1>7, <2>3, SMTT(30)
  <2>4. CASE i \in n + 1..n + Len(txs) /\ j \in n + 1..n + Len(txs)
    <3>1. /\ i - n \in DOMAIN txs /\ j - n \in DOMAIN txs
          /\ txs[i - n] = txs[j - n]
      BY <1>3, <1>7, <2>4
    <3>2. i - n = j - n
      BY <1>5, <3>1
    <3> QED BY <1>1, <2>4, <3>2
  <2> QED BY <1>1, <1>3, <2>1, <2>2, <2>3, <2>4
<1>8. ASSUME NEW i \in DOMAIN r.applied
      PROVE  r.applied[i] \in r.known \/ Expiration[r.applied[i]] < r.time
  <2>1. CASE i \in 1..n
    <3>1. i \in DOMAIN s.applied
      BY <1>1, <2>1
    <3>2. s.applied[i] \in s.known \/ Expiration[s.applied[i]] < s.time
      BY <3>1 DEF Unrepeatable
    <3> QED BY <1>2, <1>3, <2>1, <3>2
  <2>2. CASE i \in n + 1..n + Len(txs)
    <3>1. txs[i - n] \in Items(txs)
      BY <1>3, <2>2 DEF Items
    <3> QED BY <1>2, <1>3, <2>2, <3>1
  <2> QED BY <1>1, <1>3, <2>1, <2>2
<1> QED BY <1>7, <1>8 DEF Unrepeatable

\* Later, with expired transactions forgotten, a state is still not repeatable.
LEMMA LaterGood ==
  ASSUME NEW s \in State, Unrepeatable(replayed, s), NEW time \in 0..MaxTime, s.time <= time
  PROVE  /\ clear_expired_transactions([s EXCEPT !.time = time]) \in State
         /\ Unrepeatable(replayed, clear_expired_transactions([s EXCEPT !.time = time]))
<1> DEFINE r == clear_expired_transactions([s EXCEPT !.time = time])
<1>1. /\ r.applied = s.applied /\ r.time = time
      /\ r.known = {t \in s.known : time <= Expiration[t]}
  BY DEF clear_expired_transactions, State
<1>2. r \in State
  BY DEF clear_expired_transactions, State
<1>3. ASSUME NEW i \in DOMAIN s.applied, ~replayed
      PROVE  s.applied[i] \in r.known \/ Expiration[s.applied[i]] < time
  <2>1. s.applied[i] \in Tx
    BY DEF State
  <2>2. Expiration[s.applied[i]] \in Int /\ time \in Int /\ s.time \in Int
    BY <2>1, PoolAssumption DEF State
  <2>3. s.applied[i] \in s.known \/ Expiration[s.applied[i]] < s.time
    BY <1>3 DEF Unrepeatable
  <2> QED BY <1>1, <2>2, <2>3
<1>4. ~replayed => \A i, j \in DOMAIN s.applied : s.applied[i] = s.applied[j] => i = j
  BY DEF Unrepeatable
<1>5. Unrepeatable(replayed, r)
  BY <1>1, <1>3, <1>4 DEF Unrepeatable
<1> QED BY <1>2, <1>5

\* A block that applies ends in a state that is not repeatable.
LEMMA BlockOnGood ==
  ASSUME NEW s \in State, Unrepeatable(replayed, s), NEW txs \in Seq(Tx), BlockApplies(s, txs),
         NEW time \in 0..MaxTime, s.time < time
  PROVE  BlockOn(s, txs, time) \in Block /\ Unrepeatable(replayed, BlockOn(s, txs, time).state)
<1> DEFINE r == ApplyAll(s, txs)
<1>1. r \in State /\ r.time = s.time
  BY ApplyAllType
<1>2. Unrepeatable(replayed, r)
  BY ApplyAllGood
<1>3. r.time <= time
  BY <1>1 DEF State
<1> HIDE DEF r
<1>4. /\ clear_expired_transactions([r EXCEPT !.time = time]) \in State
      /\ Unrepeatable(replayed, clear_expired_transactions([r EXCEPT !.time = time]))
  BY <1>1, <1>2, <1>3, LaterGood
<1> QED BY <1>4 DEF BlockOn, Block, r

\* One transaction is a block of one.
LEMMA OneTransaction ==
  ASSUME NEW s \in State, NEW t \in Tx, Acceptable(s, t)
  PROVE  BlockApplies(s, <<t>>)
<1>1. SubSeq(<<t>>, 1, 0) = <<>>
  OBVIOUS
<1>2. s.applied \o <<>> = s.applied /\ Items(<<>>) = {}
  BY DEF State, Items
<1>3. ApplyAll(s, <<>>) = s
  BY <1>2 DEF ApplyAll, State
<1> SUFFICES ASSUME NEW i \in DOMAIN <<t>>
             PROVE  Acceptable(ApplyAll(s, SubSeq(<<t>>, 1, i - 1)), <<t>>[i])
  BY DEF BlockApplies
<1>4. i = 1 /\ i - 1 = 0 /\ <<t>>[i] = t
  OBVIOUS
<1> QED BY <1>1, <1>3, <1>4

\* Applying one transaction keeps a state from being repeatable.
LEMMA ApplyOneGood ==
  ASSUME NEW s \in State, Unrepeatable(replayed, s), NEW t \in Tx, Acceptable(s, t)
  PROVE  ApplyAll(s, <<t>>) \in State /\ Unrepeatable(replayed, ApplyAll(s, <<t>>))
<1>1. <<t>> \in Seq(Tx)
  OBVIOUS
<1> QED BY <1>1, OneTransaction, ApplyAllType, ApplyAllGood

\* A chain grows by a good block.
LEMMA AppendChain ==
  ASSUME NEW c \in Seq(Block), UnrepeatableChain(replayed, c), Len(c) < MaxHeight,
         NEW b \in Block, Unrepeatable(replayed, b.state)
  PROVE  Append(c, b) \in Seq(Block) /\ UnrepeatableChain(replayed, Append(c, b))
BY PoolAssumption DEF UnrepeatableChain

\* A chain shrinks from the end.
LEMMA FrontChain ==
  ASSUME NEW c \in Seq(Block), UnrepeatableChain(replayed, c), c # <<>>
  PROVE  /\ SubSeq(c, 1, Len(c) - 1) \in Seq(Block)
         /\ UnrepeatableChain(replayed, SubSeq(c, 1, Len(c) - 1))
         /\ Len(SubSeq(c, 1, Len(c) - 1)) = Len(c) - 1
<1> DEFINE k == Len(c) - 1
<1>1. Len(c) \in Nat /\ k \in Nat /\ k <= Len(c)
  OBVIOUS
<1> HIDE DEF k
<1>2. /\ SubSeq(c, 1, k) \in Seq(Block) /\ Len(SubSeq(c, 1, k)) = k
      /\ \A n \in 1..k : SubSeq(c, 1, k)[n] = c[n]
  BY <1>1
<1>3. UnrepeatableChain(replayed, SubSeq(c, 1, k))
  BY <1>1, <1>2, PoolAssumption DEF UnrepeatableChain
<1> QED BY <1>2, <1>3 DEF k

-----------------------------------------------------------------------------
(* The inductive invariant.                                                *)

\* The initial state satisfies the inductive invariant.
LEMMA InitIInv == Init => IInv
<1> SUFFICES ASSUME Init PROVE IInv
  OBVIOUS
<1>1. <<>> \in Seq(Block) /\ <<>> \in Seq(Tx)
  OBVIOUS
<1>2. MaxHeight \in Nat /\ MaxTime \in Nat /\ MaxRestarts \in Nat
  BY PoolAssumption
<1>3. 0 \in 0..MaxHeight /\ 0 \in 0..MaxTime /\ 0 \in 0..MaxRestarts
  BY <1>2
<1>4. TypeOK
  BY <1>1, <1>3, GenesisGood DEF Init, TypeOK
<1>5. UnrepeatableChain(replayed, <<>>)
  BY <1>2 DEF UnrepeatableChain
<1> QED BY <1>4, <1>5, GenesisGood DEF Init, IInv

\* _push_transaction opens the session and applies the transaction in it or not.
LEMMA PushTransactionGood ==
  ASSUME IInv, NEW t \in Tx, _push_transaction(t)
  PROVE  /\ session_open' = TRUE
         /\ session' \in State /\ Unrepeatable(replayed, session')
         /\ pending' \in Seq(Tx)
<1>1. pending \in Seq(Tx)
  BY DEF IInv, TypeOK
<1>2. CASE Acceptable(Current, t)
  BY <1>1, <1>2, CurrentGood, ApplyOneGood DEF _push_transaction
<1>3. CASE ~Acceptable(Current, t)
  BY <1>1, <1>3, CurrentGood DEF _push_transaction
<1> QED BY <1>2, <1>3 DEF _push_transaction

\* The last block of a chain can be popped.
LEMMA PopGood ==
  ASSUME IInv, Pop
  PROVE  /\ chain' \in Seq(Block) /\ UnrepeatableChain(replayed, chain')
         /\ popped' \in Seq(Tx)
         /\ Len(chain) \in Nat /\ Len(chain) > 0 /\ Len(chain') = Len(chain) - 1
<1>1. chain \in Seq(Block) /\ chain # <<>> /\ UnrepeatableChain(replayed, chain)
  <2>1. chain \in Seq(Block) /\ committed \in Nat /\ Len(chain) > committed
    BY DEF Pop, IInv, TypeOK
  <2> QED BY <2>1 DEF IInv
<1>2. Len(chain) \in Nat /\ Len(chain) > 0 /\ Len(chain) \in 1..Len(chain)
  BY <1>1
<1>3. chain[Len(chain)] \in Block
  BY <1>1, <1>2
<1>4. chain[Len(chain)].txs \in Seq(Tx)
  BY <1>3 DEF Block
<1>5. popped \in Seq(Tx)
  BY DEF IInv, TypeOK
<1>6. popped' \in Seq(Tx)
  BY <1>4, <1>5 DEF Pop
<1> QED BY <1>1, <1>2, <1>6, FrontChain DEF Pop

\* The restorer starts with a queue of transactions and nothing set aside.
LEMMA StartRestoringGood ==
  ASSUME IInv, StartRestoring
  PROVE  phase' = "restoring" /\ {queue', popped', saved'} \subseteq Seq(Tx)
BY DEF StartRestoring, IInv, TypeOK

\* Each action preserves the inductive invariant.
LEMMA PushTransactionPreserves ==
  ASSUME IInv, NEW t \in Tx, push_transaction(t)
  PROVE  IInv'
<1>1. /\ session_open' = TRUE
      /\ session' \in State /\ Unrepeatable(replayed, session')
      /\ pending' \in Seq(Tx)
  BY PushTransactionGood DEF push_transaction
<1>2. phase' = phase /\ phase = "idle"
  BY DEF push_transaction
<1>3. TypeOK'
  BY <1>1 DEF push_transaction, pushVars, blockVars, restartVars, IInv, TypeOK
<1> QED BY <1>1, <1>2, <1>3 DEF restartVars, push_transaction, pushVars, IInv

\* push_block: the height of the chain is within the bound.
LEMMA PushBlockPreserves ==
  ASSUME IInv, push_block
  PROVE  IInv'
<1>1. pending \in Seq(Tx) /\ Current.applied \in Seq(Tx)
  BY CurrentGood DEF IInv, TypeOK, State
<1>2. Items(Current.applied) \subseteq Tx
  BY <1>1 DEF Items
<1>3. chain \in Seq(Block) /\ Len(chain) <= MaxHeight /\ MaxHeight \in Nat
  BY PoolAssumption DEF IInv, TypeOK, UnrepeatableChain
<1>4. Len(chain) \in 0..MaxHeight
  BY <1>3
<1>5. <<>> \in Seq(Tx)
  OBVIOUS
<1>6. base' \in 0..MaxHeight /\ owed' \subseteq Tx
  BY <1>2, <1>4 DEF push_block
<1>7. {pending', popped', saved', queue', block'} \subseteq Seq(Tx)
  BY <1>1, <1>5 DEF push_block, blockVars, restartVars, IInv, TypeOK
<1>8. TypeOK'
  BY <1>3, <1>6, <1>7, GenesisGood DEF push_block, blockVars, restartVars, IInv,
       TypeOK
<1> QED BY <1>8, GenesisGood DEF restartVars, push_block, IInv

\* pop_block: one block fewer is left in place, and the chain is one shorter.
LEMMA PopBlockPreserves ==
  ASSUME IInv, pop_block
  PROVE  IInv'
<1>1. /\ chain' \in Seq(Block) /\ UnrepeatableChain(replayed, chain') /\ popped' \in Seq(Tx)
      /\ Len(chain) \in Nat /\ Len(chain) > 0 /\ Len(chain') = Len(chain) - 1
  BY PopGood DEF pop_block
<1>2. base = Len(chain) /\ base' = base - 1 /\ phase' = phase
  BY DEF pop_block, IInv
<1>3. base \in 0..MaxHeight /\ MaxHeight \in Nat
  BY PoolAssumption DEF IInv, TypeOK
<1>4. base' \in 0..MaxHeight /\ base' = Len(chain')
  BY <1>1, <1>2, <1>3
<1>5. TypeOK'
  BY <1>1, <1>2, <1>4 DEF pop_block, blockVars, restartVars, IInv, TypeOK
<1> QED BY <1>1, <1>4, <1>5 DEF restartVars, pop_block, IInv

\* apply_block: the new block ends in a state that is not repeatable.
LEMMA ApplyBlockPreserves ==
  ASSUME IInv, NEW txs \in BlockTxs, NEW time \in 1..MaxTime, apply_block(txs, time)
  PROVE  IInv'
<1>1. txs \in Seq(Tx)
  <2>1. PICK n \in 0..MaxBlockTxs : txs \in [1..n -> Tx]
    BY DEF BlockTxs
  <2>2. n \in Nat
    BY PoolAssumption
  <2> QED BY <2>1, <2>2
<1>2. time \in 0..MaxTime /\ MaxTime \in Nat /\ HeadState.time < time
  BY PoolAssumption, HeadGood, SMTT(30) DEF apply_block, State
<1> DEFINE b == BlockOn(HeadState, txs, time)
<1>3. b \in Block /\ Unrepeatable(replayed, b.state)
  BY <1>1, <1>2, HeadGood, BlockOnGood DEF apply_block
<1>4. chain' = Append(chain, b) /\ Len(chain) < MaxHeight
  BY DEF apply_block
<1> HIDE DEF b
<1>5. chain \in Seq(Block) /\ UnrepeatableChain(replayed, chain)
  BY DEF IInv, TypeOK
<1>6. chain' \in Seq(Block) /\ UnrepeatableChain(replayed, chain')
  BY <1>3, <1>4, <1>5, AppendChain
<1>7. TypeOK' /\ phase' \notin {"popping", "generating"}
  BY <1>6 DEF apply_block, pushVars, blockVars, restartVars, IInv, TypeOK
<1> QED BY <1>6, <1>7 DEF apply_block, pushVars, restartVars, IInv,
     UnrepeatableChain, Unrepeatable

\* pushed: only the restorer starts.
LEMMA PushedPreserves ==
  ASSUME IInv, pushed
  PROVE  IInv'
<1>1. phase' = "restoring" /\ {queue', popped', saved'} \subseteq Seq(Tx)
  BY StartRestoringGood DEF pushed
<1>2. TypeOK'
  BY <1>1 DEF pushed, blockVars, restartVars, IInv, TypeOK
<1> QED BY <1>1, <1>2 DEF restartVars, pushed, IInv

\* apply_throws: only the phase changes.
LEMMA ApplyThrowsPreserves ==
  ASSUME IInv, apply_throws
  PROVE  IInv'
BY DEF apply_throws, pushVars, blockVars, restartVars, IInv, TypeOK,
     UnrepeatableChain, Unrepeatable

\* unwind: a block of the bad branch is popped, or the old chain is back.
LEMMA UnwindPreserves ==
  ASSUME IInv, unwind
  PROVE  IInv'
<1>1. CASE Pop /\ UNCHANGED <<phase, queue, saved>>
  <2>1. chain' \in Seq(Block) /\ UnrepeatableChain(replayed, chain') /\ popped' \in Seq(Tx)
    BY <1>1, PopGood
  <2>2. TypeOK' /\ phase' \notin {"popping", "generating"}
    BY <1>1, <2>1 DEF unwind, blockVars, restartVars, IInv, TypeOK
  <2> QED BY <2>1, <2>2 DEF unwind, restartVars, IInv, UnrepeatableChain,
       Unrepeatable
<1>2. CASE chain' = original /\ StartRestoring
  <2>1. phase' = "restoring" /\ {queue', popped', saved'} \subseteq Seq(Tx)
    BY <1>2, StartRestoringGood
  <2>2. TypeOK'
    BY <1>2, <2>1 DEF unwind, blockVars, restartVars, IInv, TypeOK
  <2> QED BY <1>2, <2>1, <2>2 DEF unwind, restartVars, IInv, UnrepeatableChain,
       Unrepeatable
<1> QED BY <1>1, <1>2 DEF unwind

\* restore_next: the head of the queue is known, or pushed.
LEMMA RestoreNextPreserves ==
  ASSUME IInv, restore_next
  PROVE  IInv'
<1>1. queue \in Seq(Tx) /\ queue # <<>>
  BY DEF restore_next, IInv, TypeOK
<1>2. Head(queue) \in Tx /\ Tail(queue) \in Seq(Tx)
  BY <1>1
<1>3. /\ session_open' \in BOOLEAN /\ session' \in State /\ Unrepeatable(replayed, session')
      /\ pending' \in Seq(Tx)
  <2>1. CASE _push_transaction(Head(queue))
    BY <1>2, <2>1, PushTransactionGood
  <2>2. CASE UNCHANGED <<session_open, session, pending>>
    BY <2>2 DEF IInv, TypeOK, Unrepeatable
  <2> QED BY <2>1, <2>2 DEF restore_next
<1>4. TypeOK' /\ phase' \notin {"popping", "generating"}
  BY <1>2, <1>3 DEF restore_next, pushVars, blockVars, restartVars, IInv, TypeOK
<1> QED BY <1>3, <1>4 DEF restore_next, pushVars, restartVars, IInv,
     UnrepeatableChain

\* postpone_next: the head of the queue goes to the pool unapplied.
LEMMA PostponeNextPreserves ==
  ASSUME IInv, postpone_next
  PROVE  IInv'
<1>1. queue \in Seq(Tx) /\ queue # <<>> /\ pending \in Seq(Tx)
  BY DEF postpone_next, IInv, TypeOK
<1>2. Append(pending, Head(queue)) \in Seq(Tx) /\ Tail(queue) \in Seq(Tx)
  BY <1>1
<1>3. TypeOK' /\ phase' \notin {"popping", "generating"}
  BY <1>2 DEF postpone_next, pushVars, blockVars, restartVars, IInv, TypeOK
<1> QED BY <1>3 DEF postpone_next, pushVars, restartVars, IInv,
     UnrepeatableChain, Unrepeatable

\* restored: the push is over.
LEMMA RestoredPreserves ==
  ASSUME IInv, restored
  PROVE  IInv'
<1>1. <<>> \in Seq(Block) /\ MaxHeight \in Nat
  BY PoolAssumption
<1>2. UnrepeatableChain(replayed, <<>>) /\ 0 \in 0..MaxHeight
  BY <1>1 DEF UnrepeatableChain
<1>3. TypeOK' /\ phase' \notin {"popping", "generating"}
  BY <1>1, <1>2 DEF restored, blockVars, restartVars, IInv, TypeOK
<1> QED BY <1>2, <1>3 DEF restartVars, restored, IInv

\* generate_block: the session is the head state again.
LEMMA GenerateBlockPreserves ==
  ASSUME IInv, NEW time \in 1..MaxTime, generate_block(time)
  PROVE  IInv'
<1>1. time \in 0..MaxTime /\ HeaderSize \in Nat
  BY PoolAssumption
<1>2. session' \in State /\ Unrepeatable(replayed, session')
  BY HeadGood DEF generate_block
<1>3. <<>> \in Seq(Tx) /\ Current.applied \in Seq(Tx)
  BY CurrentGood DEF State
<1>4. /\ {pending', popped', saved', queue', block'} \subseteq Seq(Tx)
      /\ owed' \subseteq Tx
  BY <1>3 DEF generate_block, Items, IInv, TypeOK
<1>5. TypeOK' /\ phase' # "popping"
  BY <1>1, <1>2, <1>4 DEF generate_block, restartVars, IInv, TypeOK
<1>6. HeadState'.time < when' /\ Len(chain') < MaxHeight
  BY HeadGood, <1>1 DEF generate_block, HeadState, State
<1> QED BY <1>2, <1>5, <1>6 DEF restartVars, generate_block, IInv

\* generate_next: a transaction gets into the block only if it applies.
LEMMA GenerateNextPreserves ==
  ASSUME IInv, generate_next
  PROVE  IInv'
<1> DEFINE t == Head(queue)
<1>1. queue \in Seq(Tx) /\ queue # <<>> /\ block \in Seq(Tx)
  BY DEF generate_next, IInv, TypeOK
<1>2. t \in Tx /\ Tail(queue) \in Seq(Tx)
  BY <1>1
<1>3. total \in Nat /\ postponed \in Nat /\ Size[t] \in Nat /\ session \in State
      /\ Unrepeatable(replayed, session)
  BY <1>2, PoolAssumption DEF IInv, TypeOK
<1>4. postponed' \in Nat
  BY <1>3 DEF generate_next
<1> HIDE DEF t
<1>5. /\ session' \in State /\ Unrepeatable(replayed, session')
      /\ block' \in Seq(Tx) /\ total' \in Nat
  <2>1. CASE Included(t)
    <3>1. /\ session' = ApplyAll(session, <<t>>)
          /\ block' = Append(block, t) /\ total' = total + Size[t]
      BY <2>1 DEF generate_next, t
    <3>2. Acceptable(session, t)
      BY <2>1 DEF Included
    <3> QED BY <1>1, <1>2, <1>3, <3>1, <3>2, ApplyOneGood
  <2>2. CASE ~Included(t)
    BY <1>1, <1>3, <2>2 DEF generate_next, Unrepeatable, t
  <2> QED BY <2>1, <2>2
<1>6. TypeOK' /\ phase' # "popping"
  BY <1>2, <1>4, <1>5 DEF generate_next, pushVars, restartVars, IInv, TypeOK
<1>7. HeadState'.time < when' /\ Len(chain') < MaxHeight
  BY DEF generate_next, HeadState, IInv
<1> QED BY <1>5, <1>6, <1>7 DEF generate_next, pushVars, restartVars, IInv,
     UnrepeatableChain

\* generated: the block is one that applies, or the chain stays.
LEMMA GeneratedPreserves ==
  ASSUME IInv, generated
  PROVE  IInv'
<1>1. pending \in Seq(Tx) /\ block \in Seq(Tx)
  BY DEF IInv, TypeOK
<1>2. owed' \subseteq Tx
  BY DEF generated, pushVars, restartVars, IInv, TypeOK
<1>3. when \in 0..MaxTime /\ HeadState.time < when /\ Len(chain) < MaxHeight
      /\ chain \in Seq(Block) /\ UnrepeatableChain(replayed, chain)
  BY DEF generated, IInv, TypeOK
<1>4. chain' \in Seq(Block) /\ UnrepeatableChain(replayed, chain')
  <2>1. CASE BlockApplies(HeadState, block)
    <3> DEFINE b == BlockOn(HeadState, block, when)
    <3>1. b \in Block /\ Unrepeatable(replayed, b.state)
      BY <1>1, <1>3, <2>1, HeadGood, BlockOnGood
    <3>2. chain' = Append(chain, b)
      BY <2>1 DEF generated
    <3> HIDE DEF b
    <3> QED BY <1>3, <3>1, <3>2, AppendChain
  <2>2. CASE ~BlockApplies(HeadState, block)
    BY <1>3, <2>2 DEF generated
  <2> QED BY <2>1, <2>2
<1>5. <<>> \in Seq(Tx) /\ 0 \in 0..MaxTime
  BY PoolAssumption
<1>6. {pending', popped', saved', queue', block'} \subseteq Seq(Tx) /\ owed' \subseteq Tx
  BY <1>1, <1>2, <1>5 DEF generated, pushVars, restartVars, IInv, TypeOK
<1>7. TypeOK' /\ phase' \notin {"popping", "generating"}
  BY <1>4, <1>5, <1>6, GenesisGood DEF generated, pushVars, restartVars, IInv,
       TypeOK
<1> QED BY <1>4, <1>7, GenesisGood DEF generated, pushVars, restartVars, IInv,
     UnrepeatableChain, Unrepeatable

\* What a restart forgets leaves nothing to check but the chain it starts from.
LEMMA RestartPreserves ==
  ASSUME IInv, ForgetPool, chain' \in Seq(Block), UnrepeatableChain(replayed', chain'),
         committed' \in Nat, replayed' \in BOOLEAN
  PROVE  IInv'
<1>1. <<>> \in Seq(Block) /\ <<>> \in Seq(Tx) /\ MaxHeight \in Nat /\ MaxTime \in Nat
      /\ MaxRestarts \in Nat
  BY PoolAssumption
<1>2. UnrepeatableChain(replayed', <<>>) /\ 0 \in 0..MaxHeight /\ 0 \in 0..MaxTime
  BY <1>1 DEF UnrepeatableChain
<1>3. restarts' \in 0..MaxRestarts
  BY <1>1 DEF ForgetPool, IInv, TypeOK
<1>4. TypeOK'
  BY <1>1, <1>2, <1>3, GenesisGood DEF ForgetPool, TypeOK
<1> QED BY <1>2, <1>4, GenesisGood DEF ForgetPool, IInv

\* open: what is left of the chain is a front of it.
LEMMA OpenPreserves ==
  ASSUME IInv, NEW n \in 0..MaxHeight, open(n)
  PROVE  IInv'
<1>1. chain \in Seq(Block) /\ UnrepeatableChain(replayed, chain) /\ n \in Nat /\ n <= Len(chain)
      /\ MaxHeight \in Nat
  BY PoolAssumption DEF open, IInv, TypeOK
<1>2. /\ SubSeq(chain, 1, n) \in Seq(Block) /\ Len(SubSeq(chain, 1, n)) = n
      /\ \A i \in 1..n : SubSeq(chain, 1, n)[i] = chain[i]
  BY <1>1
<1>3. UnrepeatableChain(replayed, SubSeq(chain, 1, n))
  BY <1>1, <1>2 DEF UnrepeatableChain
<1>4. replayed' = replayed /\ replayed' \in BOOLEAN /\ committed' \in Nat
  BY <1>1 DEF open, IInv, TypeOK
<1> QED BY <1>2, <1>3, <1>4, RestartPreserves DEF open

\* reindex: nothing is claimed of the states of a replayed chain.
LEMMA ReindexPreserves ==
  ASSUME IInv, NEW n \in 0..MaxHeight, reindex(n)
  PROVE  IInv'
<1>1. chain \in Seq(Block) /\ n \in Nat /\ n <= Len(chain) /\ MaxHeight \in Nat
  BY PoolAssumption DEF reindex, IInv, TypeOK
<1> DEFINE c == [i \in 1..n |-> [chain[i] EXCEPT !.state.known = {}]]
<1>2. \A i \in 1..n : chain[i] \in Block
  BY <1>1
<1>3. \A i \in 1..n : [chain[i] EXCEPT !.state.known = {}] \in Block
  BY <1>2 DEF Block, State
<1>4. c \in Seq(Block) /\ Len(c) = n
  BY <1>1, <1>3
<1>5. UnrepeatableChain(TRUE, c)
  BY <1>1, <1>4 DEF UnrepeatableChain, Unrepeatable
<1> QED BY <1>1, <1>4, <1>5, RestartPreserves DEF reindex

\* A step that changes nothing preserves the inductive invariant.
LEMMA StutterPreserves ==
  ASSUME IInv, UNCHANGED vars
  PROVE  IInv'
BY DEF vars, pushVars, blockVars, restartVars, IInv, TypeOK, UnrepeatableChain,
     Unrepeatable, HeadState

\* Every step preserves the inductive invariant.
LEMMA NextIInv == IInv /\ [Next]_vars => IInv'
BY PushTransactionPreserves, PushBlockPreserves, PopBlockPreserves, ApplyBlockPreserves,
   PushedPreserves, ApplyThrowsPreserves, UnwindPreserves, RestoreNextPreserves,
   PostponeNextPreserves, RestoredPreserves, GenerateBlockPreserves,
   GenerateNextPreserves, GeneratedPreserves, OpenPreserves, ReindexPreserves, StutterPreserves DEF Next

\* The inductive invariant holds in every state the pool can reach.
THEOREM Invariant == Spec => []IInv
BY InitIInv, NextIInv, PTL DEF Spec

\* Type correctness, for every set of transactions, every limit and every bound.
THEOREM TypeCorrect == Spec => []TypeOK
<1>1. IInv => TypeOK
  BY DEF IInv
<1> QED BY <1>1, Invariant, PTL

\* Unless the state is rebuilt from the block log, no transaction is applied
\* twice, on the chain or between chain and pool, for every set of transactions
\* with any expirations, dependencies and conflicts, however many blocks are
\* popped, applied, rolled back or generated and however often the node restarts.
THEOREM TransactionsAppliedOnce == Spec => []AppliedOnceUnlessReplayed
<1>1. IInv => AppliedOnceUnlessReplayed
  BY CurrentGood DEF AppliedOnceUnlessReplayed, AppliedOnce, Unrepeatable
<1> QED BY <1>1, Invariant, PTL
-----------------------------------------------------------------------------
(* What becomes of the pool: the invariant behind PoolKept and             *)
(* GeneratedBlockApplies.                                                  *)

\* What the block under construction contains is what its session holds.
Building ==
  phase = "generating" =>
    /\ session_open /\ session = ApplyAll(HeadState, block)
    /\ BlockApplies(HeadState, block)
    /\ total <= HeaderSize \/ total < MaxBlockSize

\* The transactions applied after the first n blocks of chain c.
AppliedAt(c, n) == IF n = 0 THEN <<>> ELSE c[n].state.applied

\* Every transaction comes after those it builds on.
Founded(a) ==
  \A k \in DOMAIN a : \A u \in Needs[a[k]] : \E j \in DOMAIN a : j < k /\ a[j] = u

\* The blocks of c continue one another.
Linked(c) ==
  \A n \in DOMAIN c :
    /\ c[n].state.applied = AppliedAt(c, n - 1) \o c[n].txs
    /\ Founded(c[n].state.applied)
    /\ \A m \in 0..n : Items(AppliedAt(c, m)) \subseteq Items(c[n].state.applied)

\* Each transaction of o is in B or has a place in q, such that those it
\* builds on are in B or have a place before it: going through q in order
\* meets no transaction of o before its foundations.
Supported(o, B, q) ==
  \E P \in SUBSET DOMAIN q :
    /\ \A i \in P : \A u \in Needs[q[i]] : u \in B \/ \E j \in P : j < i /\ q[j] = u
    /\ \A t \in o : t \in B \/ \E i \in P : q[i] = t

\* The transactions of D are not applied in s and cannot be from now on: each
\* is refused for good, or builds on another one of D.
Dead(s, D) ==
  /\ D \cap Items(s.applied) = {}
  /\ \A t \in D : \/ t \in s.known \/ ~InTime(s, t)
                  \/ Conflicts[t] \cap Items(s.applied) # {}
                  \/ Needs[t] \cap D # {}

\* Outside a push nothing is set aside, and during one no session is open.
SetAside ==
  /\ phase \in {"idle", "generating", "restoring"} => popped = <<>> /\ saved = <<>>
  /\ phase \in {"popping", "applying", "unwinding"} => ~session_open

\* Where the transactions are that were applied when the push began.
Owing ==
  /\ phase = "generating" =>
       Supported(owed, Items(HeadState.applied), pending)
  /\ phase \in {"popping", "applying"} =>
       /\ base \in 0..Len(chain)
       /\ Supported(owed, Items(AppliedAt(chain, base)), popped \o saved)
  /\ phase \in {"popping", "applying", "unwinding"} =>
       Supported(owed, Items(AppliedAt(original, Len(original))), saved)
  /\ phase = "restoring" =>
       \E D \in SUBSET Tx :
         /\ Dead(Current, D)
         /\ IF applying THEN Supported(owed, Items(Current.applied) \cup D, queue)
            ELSE owed \subseteq Items(Current.applied) \cup D \cup Items(pending) \cup Items(queue)

\* The inductive invariant of the pool's contents.
PoolInv ==
  /\ Linked(chain) /\ Linked(original)
  /\ Founded(Current.applied)
  /\ Building /\ SetAside /\ SessionFromPool /\ Owing

\* The members of two sequences, one after the other.
LEMMA ItemsConcat ==
  ASSUME NEW S, NEW a \in Seq(S), NEW b \in Seq(S)
  PROVE  Items(a \o b) = Items(a) \cup Items(b)
<1>1. /\ a \o b \in Seq(S) /\ DOMAIN (a \o b) = 1..Len(a) + Len(b)
      /\ Len(a) \in Nat /\ Len(b) \in Nat
      /\ DOMAIN a = 1..Len(a) /\ DOMAIN b = 1..Len(b)
  OBVIOUS
<1>2. \A i \in 1..Len(a) : (a \o b)[i] = a[i]
  OBVIOUS
<1>3. \A i \in 1..Len(b) : (a \o b)[Len(a) + i] = b[i]
  BY <1>1
<1>4. ASSUME NEW x \in Items(a \o b) PROVE x \in Items(a) \cup Items(b)
  <2>1. PICK i \in 1..Len(a) + Len(b) : x = (a \o b)[i]
    BY <1>1, <1>4 DEF Items
  <2>2. CASE i <= Len(a)
    BY <1>1, <1>2, <2>1, <2>2 DEF Items
  <2>3. CASE ~(i <= Len(a))
    <3>1. i - Len(a) \in 1..Len(b) /\ Len(a) + (i - Len(a)) = i
      BY <1>1, <2>1, <2>3
    <3>2. x = b[i - Len(a)]
      BY <1>3, <2>1, <3>1
    <3> QED BY <1>1, <3>1, <3>2 DEF Items
  <2> QED BY <2>2, <2>3
<1>5. ASSUME NEW x \in Items(a) PROVE x \in Items(a \o b)
  <2>1. PICK i \in 1..Len(a) : x = a[i]
    BY <1>1, <1>5 DEF Items
  <2>2. i \in DOMAIN (a \o b) /\ x = (a \o b)[i]
    BY <1>1, <1>2, <2>1
  <2> QED BY <2>2 DEF Items
<1>6. ASSUME NEW x \in Items(b) PROVE x \in Items(a \o b)
  <2>1. PICK i \in 1..Len(b) : x = b[i]
    BY <1>1, <1>6 DEF Items
  <2>2. Len(a) + i \in DOMAIN (a \o b) /\ x = (a \o b)[Len(a) + i]
    BY <1>1, <1>3, <2>1
  <2> QED BY <2>2 DEF Items
<1> QED BY <1>4, <1>5, <1>6

\* The members of a sequence and one more.
LEMMA ItemsAppend ==
  ASSUME NEW S, NEW a \in Seq(S), NEW t \in S
  PROVE  Items(Append(a, t)) = Items(a) \cup {t}
<1> DEFINE b == <<t>>
<1>1. b \in Seq(S) /\ Items(b) = {t} /\ Append(a, t) = a \o b
  BY DEF Items
<1> HIDE DEF b
<1>2. Items(a \o b) = Items(a) \cup Items(b)
  BY <1>1, ItemsConcat
<1> QED BY <1>1, <1>2

\* The head state's transactions are those after all blocks of the chain.
LEMMA HeadApplied ==
  ASSUME chain \in Seq(Block)
  PROVE  HeadState.applied = AppliedAt(chain, Len(chain))
BY DEF HeadState, AppliedAt, Genesis

\* What a block of a chain has applied.
LEMMA AppliedAtType ==
  ASSUME NEW c \in Seq(Block), NEW n \in 0..Len(c)
  PROVE  AppliedAt(c, n) \in Seq(Tx)
<1>1. CASE n = 0
  BY <1>1 DEF AppliedAt
<1>2. CASE n # 0
  <2>1. c[n] \in Block
    BY <1>2
  <2> QED BY <1>2, <2>1 DEF AppliedAt, Block, State
<1> QED BY <1>1, <1>2

\* Transactions that apply come after those they build on.
LEMMA FoundedApply ==
  ASSUME NEW s \in State, Founded(s.applied), NEW txs \in Seq(Tx), BlockApplies(s, txs)
  PROVE  Founded(s.applied \o txs)
<1> DEFINE a == s.applied
           r == a \o txs
<1>1. a \in Seq(Tx) /\ Len(a) \in Nat /\ Len(txs) \in Nat
  BY DEF State
<1>2. /\ DOMAIN r = 1..Len(a) + Len(txs)
      /\ DOMAIN a = 1..Len(a) /\ DOMAIN txs = 1..Len(txs)
      /\ \A i \in 1..Len(a) : r[i] = a[i]
      /\ \A i \in Len(a) + 1..Len(a) + Len(txs) : r[i] = txs[i - Len(a)]
  BY <1>1
<1> SUFFICES ASSUME NEW k \in DOMAIN r, NEW u \in Needs[r[k]]
             PROVE  \E j \in DOMAIN r : j < k /\ r[j] = u
  BY DEF Founded
<1>3. CASE k <= Len(a)
  <2>1. k \in DOMAIN a /\ r[k] = a[k]
    BY <1>1, <1>2, <1>3
  <2>2. PICK j \in DOMAIN a : j < k /\ a[j] = u
    BY <2>1 DEF Founded
  <2>3. j \in DOMAIN r /\ r[j] = u
    BY <1>1, <1>2, <2>2
  <2> QED BY <2>2, <2>3
<1>4. CASE ~(k <= Len(a))
  <2> DEFINE i == k - Len(a)
             f == SubSeq(txs, 1, i - 1)
  <2>1. i \in DOMAIN txs /\ r[k] = txs[i] /\ i \in Nat /\ i - 1 <= Len(txs)
    BY <1>1, <1>2, <1>4
  <2>2. /\ f \in Seq(Tx) /\ Len(f) = i - 1
        /\ \A j \in 1..i - 1 : f[j] = txs[j]
    BY <2>1, SMTT(30)
  <2>3. Acceptable(ApplyAll(s, f), txs[i])
    BY <2>1 DEF BlockApplies
  <2>4. u \in Items(ApplyAll(s, f).applied)
    BY <2>1, <2>3 DEF Acceptable
  <2>5. ApplyAll(s, f).applied = a \o f
    BY <2>2, ApplyAllType
  <2>6. u \in Items(a) \cup Items(f)
    <3> HIDE DEF a, f
    <3>1. Items(a \o f) = Items(a) \cup Items(f)
      BY <1>1, <2>2, ItemsConcat
    <3> QED BY <2>4, <2>5, <3>1
  <2> HIDE DEF i, f, a
  <2>7. CASE u \in Items(a)
    <3>1. PICK j \in 1..Len(a) : a[j] = u
      BY <1>2, <2>7 DEF Items
    <3>2. j \in DOMAIN r /\ r[j] = u /\ j < k
      BY <1>1, <1>2, <1>4, <3>1
    <3> QED BY <3>2
  <2>8. CASE u \in Items(f)
    <3>1. PICK j \in 1..i - 1 : f[j] = u
      BY <2>1, <2>2, <2>8 DEF Items
    <3>2. Len(a) + j \in DOMAIN r /\ Len(a) + j < k /\ (Len(a) + j) - Len(a) = j
      BY <1>1, <1>2, <1>4, <2>1, <3>1 DEF i
    <3>3. r[Len(a) + j] = u
      BY <1>1, <1>2, <2>1, <2>2, <3>1, <3>2
    <3> QED BY <3>2, <3>3
  <2> QED BY <2>6, <2>7, <2>8
<1> QED BY <1>3, <1>4

\* A front of a chain is one whose blocks continue one another.
LEMMA LinkedFront ==
  ASSUME NEW c \in Seq(Block), Linked(c), NEW k \in 0..Len(c)
  PROVE  /\ Linked(SubSeq(c, 1, k))
         /\ \A m \in 0..k : AppliedAt(SubSeq(c, 1, k), m) = AppliedAt(c, m)
<1> DEFINE d == SubSeq(c, 1, k)
<1>1. /\ d \in Seq(Block) /\ Len(d) = k /\ DOMAIN d = 1..k /\ k \in Nat /\ k <= Len(c)
      /\ Len(c) \in Nat /\ DOMAIN c = 1..Len(c)
      /\ \A n \in 1..k : d[n] = c[n]
  OBVIOUS
<1> HIDE DEF d
<1>2. \A m \in 0..k : AppliedAt(d, m) = AppliedAt(c, m)
  BY <1>1 DEF AppliedAt
<1>3. \A n \in DOMAIN d : n \in DOMAIN c /\ n - 1 \in 0..k /\ n \in 1..k
  BY <1>1
<1>4. Linked(d)
  <2> SUFFICES ASSUME NEW n \in DOMAIN d
               PROVE  /\ d[n].state.applied = AppliedAt(d, n - 1) \o d[n].txs
                      /\ Founded(d[n].state.applied)
                      /\ \A m \in 0..n : Items(AppliedAt(d, m)) \subseteq Items(d[n].state.applied)
    BY DEF Linked
  <2>1. n \in DOMAIN c /\ n - 1 \in 0..k /\ n \in 1..k /\ d[n] = c[n]
    BY <1>1, <1>3
  <2>2. \A m \in 0..n : m \in 0..k
    BY <1>1, <2>1
  <2> QED BY <1>2, <2>1, <2>2 DEF Linked
<1> QED BY <1>2, <1>4 DEF d

\* A block that continues the chain.
LEMMA LinkedAppend ==
  ASSUME NEW c \in Seq(Block), Linked(c), NEW b \in Block,
         b.state.applied = AppliedAt(c, Len(c)) \o b.txs, Founded(b.state.applied)
  PROVE  /\ Linked(Append(c, b))
         /\ \A m \in 0..Len(c) : AppliedAt(Append(c, b), m) = AppliedAt(c, m)
<1> DEFINE d == Append(c, b)
           l == Len(c)
<1>1. /\ d \in Seq(Block) /\ Len(d) = l + 1 /\ DOMAIN d = 1..l + 1 /\ l \in Nat
      /\ DOMAIN c = 1..l
      /\ \A n \in 1..l : d[n] = c[n]
      /\ d[l + 1] = b
  OBVIOUS
<1> HIDE DEF d, l
<1>2. \A m \in 0..l : AppliedAt(d, m) = AppliedAt(c, m)
  BY <1>1 DEF AppliedAt
<1>3. AppliedAt(d, l + 1) = b.state.applied
  <2>1. l + 1 # 0 /\ d[l + 1] = b
    BY <1>1
  <2> QED BY <2>1 DEF AppliedAt
<1>4. AppliedAt(c, l) \in Seq(Tx) /\ b.txs \in Seq(Tx)
  <2>1. l \in 0..Len(c)
    BY <1>1 DEF l
  <2>2. b.txs \in Seq(Tx)
    BY DEF Block
  <2> QED BY <2>1, <2>2, AppliedAtType
<1>5. Items(AppliedAt(c, l)) \subseteq Items(b.state.applied)
  BY <1>4, ItemsConcat DEF l
<1>6. \A m \in 0..l : Items(AppliedAt(c, m)) \subseteq Items(AppliedAt(c, l))
  <2>1. CASE l = 0
    BY <1>1, <2>1
  <2>2. CASE l # 0
    <3>1. l \in DOMAIN c /\ AppliedAt(c, l) = c[l].state.applied
      BY <1>1, <2>2 DEF AppliedAt
    <3> QED BY <3>1 DEF Linked
  <2> QED BY <2>1, <2>2
<1>7. Linked(d)
  <2> SUFFICES ASSUME NEW n \in DOMAIN d
               PROVE  /\ d[n].state.applied = AppliedAt(d, n - 1) \o d[n].txs
                      /\ Founded(d[n].state.applied)
                      /\ \A m \in 0..n : Items(AppliedAt(d, m)) \subseteq Items(d[n].state.applied)
    BY DEF Linked
  <2>1. CASE n = l + 1
    <3>1. n - 1 = l /\ d[n] = b
      BY <1>1, <2>1
    <3>2. \A m \in 0..n : m = l + 1 \/ m \in 0..l
      BY <1>1, <2>1
    <3>3. \A m \in 0..n : Items(AppliedAt(d, m)) \subseteq Items(b.state.applied)
      BY <1>2, <1>3, <1>5, <1>6, <3>2
    <3>4. AppliedAt(d, n - 1) = AppliedAt(c, l)
      BY <1>1, <1>2, <3>1
    <3> QED BY <3>1, <3>3, <3>4 DEF l
  <2>2. CASE n # l + 1
    <3>1. n \in DOMAIN c /\ n - 1 \in 0..l /\ d[n] = c[n]
      BY <1>1, <2>2
    <3>2. \A m \in 0..n : m \in 0..l
      BY <1>1, <3>1
    <3> QED BY <1>2, <3>1, <3>2 DEF Linked
  <2> QED BY <2>1, <2>2
<1> QED BY <1>2, <1>7 DEF d, l

-----------------------------------------------------------------------------
(* Transactions that have a place in a queue after their foundations.      *)

\* More may be in place already.
LEMMA SupportedGrows ==
  ASSUME NEW o, NEW B, NEW C, NEW q, Supported(o, B, q), B \subseteq C
  PROVE  Supported(o, C, q)
<1>1. PICK P \in SUBSET DOMAIN q :
        /\ \A i \in P : \A u \in Needs[q[i]] : u \in B \/ \E j \in P : j < i /\ q[j] = u
        /\ \A t \in o : t \in B \/ \E i \in P : q[i] = t
  BY DEF Supported
<1>2. \A i \in P : \A u \in Needs[q[i]] : u \in C \/ \E j \in P : j < i /\ q[j] = u
  BY <1>1
<1>3. \A t \in o : t \in C \/ \E i \in P : q[i] = t
  BY <1>1
<1> QED BY <1>2, <1>3 DEF Supported

\* All are in place or in the queue.
LEMMA SupportedCovers ==
  ASSUME NEW o, NEW B, NEW q, Supported(o, B, q)
  PROVE  o \subseteq B \cup Items(q)
BY DEF Supported, Items

\* Other transactions may be put in front of the queue.
LEMMA SupportedBehind ==
  ASSUME NEW o, NEW B, NEW p \in Seq(Tx), NEW q \in Seq(Tx), Supported(o, B, q)
  PROVE  Supported(o, B, p \o q)
<1> DEFINE r == p \o q
           l == Len(p)
<1>1. PICK P \in SUBSET DOMAIN q :
        /\ \A i \in P : \A u \in Needs[q[i]] : u \in B \/ \E j \in P : j < i /\ q[j] = u
        /\ \A t \in o : t \in B \/ \E i \in P : q[i] = t
  BY DEF Supported
<1> DEFINE R == {l + i : i \in P}
<1>2. /\ l \in Nat /\ Len(q) \in Nat /\ DOMAIN q = 1..Len(q) /\ DOMAIN r = 1..l + Len(q)
      /\ \A i \in 1..Len(q) : r[l + i] = q[i]
  OBVIOUS
<1> HIDE DEF l, r
<1>3. R \in SUBSET DOMAIN r
  BY <1>2
<1>4. \A i \in P : l + i \in R /\ r[l + i] = q[i] /\ i \in Int
  BY <1>2
<1>5. \A i \in R : \A u \in Needs[r[i]] : u \in B \/ \E j \in R : j < i /\ r[j] = u
  <2> SUFFICES ASSUME NEW k \in P, NEW u \in Needs[r[l + k]], u \notin B
               PROVE  \E j \in R : j < l + k /\ r[j] = u
    OBVIOUS
  <2>1. PICK j \in P : j < k /\ q[j] = u
    BY <1>1, <1>4
  <2>2. l + j \in R /\ l + j < l + k /\ r[l + j] = u
    BY <1>2, <1>4, <2>1, SMTT(30)
  <2> QED BY <2>2
<1>6. \A t \in o : t \in B \/ \E i \in R : r[i] = t
  <2> SUFFICES ASSUME NEW t \in o, t \notin B
               PROVE  \E i \in R : r[i] = t
    OBVIOUS
  <2>1. PICK i \in P : q[i] = t
    BY <1>1
  <2> QED BY <1>4, <2>1
<1>7. Supported(o, B, r)
  BY <1>3, <1>5, <1>6 DEF Supported
<1> QED BY <1>7 DEF r

\* Transactions that came last, one after the other, may go from what is in
\* place to the front of the queue.
LEMMA SupportedPop ==
  ASSUME NEW o, NEW a \in Seq(Tx), NEW p \in Seq(Tx), NEW q \in Seq(Tx),
         Founded(a \o p), Supported(o, Items(a \o p), q)
  PROVE  Supported(o, Items(a), p \o q)
<1> DEFINE r == p \o q
           l == Len(p)
           B == Items(a)
           C == Items(a \o p)
           n == Len(a)
           h == a \o p
<1>1. PICK P \in SUBSET DOMAIN q :
        /\ \A i \in P : \A u \in Needs[q[i]] : u \in C \/ \E j \in P : j < i /\ q[j] = u
        /\ \A t \in o : t \in C \/ \E i \in P : q[i] = t
  BY DEF Supported
<1> DEFINE R == 1..l \cup {l + i : i \in P}
<1>2. /\ l \in Nat /\ Len(q) \in Nat /\ DOMAIN q = 1..Len(q) /\ DOMAIN r = 1..l + Len(q)
      /\ \A i \in 1..Len(q) : r[l + i] = q[i]
      /\ \A i \in 1..l : r[i] = p[i]
      /\ DOMAIN p = 1..l
  OBVIOUS
<1>3. /\ n \in Nat /\ DOMAIN a = 1..n /\ DOMAIN h = 1..n + l
      /\ \A i \in 1..n : h[i] = a[i]
      /\ \A i \in 1..l : h[n + i] = p[i]
  OBVIOUS
<1>4. C = B \cup Items(p)
  BY ItemsConcat
<1>5. Founded(h)
  OBVIOUS
<1> HIDE DEF l, r, h, n, B, C
<1>6. R \in SUBSET DOMAIN r
  BY <1>2
<1>7. \A i \in P : l + i \in R /\ r[l + i] = q[i] /\ i \in Int /\ i > 0
  BY <1>2
<1>8. \A u \in C : u \in B \/ \E j \in 1..l : r[j] = u
  BY <1>2, <1>4 DEF Items
<1>9. ASSUME NEW i \in 1..l, NEW u \in Needs[r[i]], u \notin B
      PROVE  \E j \in R : j < i /\ r[j] = u
  <2>1. n + i \in DOMAIN h /\ h[n + i] = r[i]
    BY <1>2, <1>3
  <2>2. PICK k \in DOMAIN h : k < n + i /\ h[k] = u
    BY <1>5, <1>9, <2>1 DEF Founded
  <2>3. CASE k <= n
    <3>1. k \in DOMAIN a /\ a[k] = u
      BY <1>3, <2>2, <2>3
    <3> QED BY <1>9, <3>1 DEF Items, B
  <2>4. CASE ~(k <= n)
    <3>1. k - n \in 1..l /\ k - n < i /\ n + (k - n) = k
      BY <1>2, <1>3, <2>2, <2>4
    <3>2. r[k - n] = u
      BY <1>2, <1>3, <2>2, <3>1
    <3> QED BY <3>1, <3>2
  <2> QED BY <2>3, <2>4
<1>10. ASSUME NEW k \in P, NEW u \in Needs[r[l + k]], u \notin B
       PROVE  \E j \in R : j < l + k /\ r[j] = u
  <2>1. CASE u \in C
    <3>1. PICK j \in 1..l : r[j] = u
      BY <1>8, <1>10, <2>1
    <3>2. j < l + k
      BY <1>2, <1>7, <3>1
    <3> QED BY <3>1, <3>2
  <2>2. CASE u \notin C
    <3>1. PICK j \in P : j < k /\ q[j] = u
      BY <1>1, <1>7, <2>2
    <3>2. l + j \in R /\ l + j < l + k /\ r[l + j] = u
      BY <1>2, <1>7, <3>1
    <3> QED BY <3>2
  <2> QED BY <2>1, <2>2
<1>11. \A i \in R : \A u \in Needs[r[i]] : u \in B \/ \E j \in R : j < i /\ r[j] = u
  BY <1>9, <1>10
<1>12. \A t \in o : t \in B \/ \E i \in R : r[i] = t
  <2> SUFFICES ASSUME NEW t \in o, t \notin B
               PROVE  \E i \in R : r[i] = t
    OBVIOUS
  <2>1. CASE t \in C
    BY <1>8, <2>1
  <2>2. CASE t \notin C
    <3>1. PICK i \in P : q[i] = t
      BY <1>1, <2>2
    <3> QED BY <1>7, <3>1
  <2> QED BY <2>1, <2>2
<1>13. Supported(o, B, r)
  BY <1>6, <1>11, <1>12 DEF Supported
<1> QED BY <1>13 DEF r, B

\* What a session holds beyond the head block has its place in the pool.
LEMMA SupportedSession ==
  ASSUME NEW a \in Seq(Tx), NEW h \in Seq(Tx), NEW q \in Seq(Tx), Founded(a),
         Len(h) <= Len(a), SubSeq(a, 1, Len(h)) = h,
         IsSubsequence(SubSeq(a, Len(h) + 1, Len(a)), q)
  PROVE  Supported(Items(a), Items(h), q)
<1> DEFINE l == Len(h)
           n == Len(a) - l
           x == SubSeq(a, l + 1, Len(a))
           B == Items(h)
<1>1. /\ l \in Nat /\ Len(a) \in Nat /\ n \in Nat /\ DOMAIN a = 1..Len(a) /\ DOMAIN h = 1..l
      /\ Len(a) = l + n
  OBVIOUS
<1>2. \A i \in 1..l : a[i] = h[i]
  BY <1>1
<1>3. DOMAIN x = 1..n /\ \A i \in 1..n : x[i] = a[l + i]
  BY <1>1
<1>4. PICK f \in [DOMAIN x -> DOMAIN q] :
        /\ \A i \in DOMAIN x : x[i] = q[f[i]]
        /\ \A i, j \in DOMAIN x : i < j => f[i] < f[j]
  BY DEF IsSubsequence
<1> HIDE DEF l, n, x, B
<1> DEFINE P == {f[i] : i \in 1..n}
<1>5. P \in SUBSET DOMAIN q
  BY <1>3, <1>4
<1>6. ASSUME NEW k \in 1..Len(a)
      PROVE  a[k] \in B \/ (k - l \in 1..n /\ f[k - l] \in P /\ q[f[k - l]] = a[k])
  <2>1. CASE k <= l
    <3>1. k \in DOMAIN h /\ a[k] = h[k]
      BY <1>1, <1>2, <2>1
    <3> QED BY <3>1 DEF Items, B
  <2>2. CASE ~(k <= l)
    <3>1. k - l \in 1..n /\ l + (k - l) = k
      BY <1>1, <2>2
    <3> QED BY <1>3, <1>4, <3>1
  <2> QED BY <2>1, <2>2
<1>7. ASSUME NEW i \in 1..n, NEW u \in Needs[q[f[i]]], u \notin B
      PROVE  \E j \in P : j < f[i] /\ q[j] = u
  <2>1. l + i \in DOMAIN a /\ a[l + i] = q[f[i]]
    <3>1. l + i \in DOMAIN a
      BY <1>1
    <3>2. x[i] = a[l + i] /\ x[i] = q[f[i]]
      BY <1>3, <1>4
    <3> QED BY <3>1, <3>2
  <2>2. PICK k \in DOMAIN a : k < l + i /\ a[k] = u
    BY <1>7, <2>1 DEF Founded
  <2>3. k - l \in 1..n /\ f[k - l] \in P /\ q[f[k - l]] = u
    BY <1>1, <1>6, <1>7, <2>2
  <2>4. k - l < i
    BY <1>1, <2>2
  <2>5. f[k - l] < f[i]
    BY <1>3, <1>4, <2>3, <2>4
  <2> QED BY <2>3, <2>5
<1>8. \A i \in P : \A u \in Needs[q[i]] : u \in B \/ \E j \in P : j < i /\ q[j] = u
  BY <1>7
<1>9. \A t \in Items(a) : t \in B \/ \E i \in P : q[i] = t
  BY <1>1, <1>6, SMTT(30) DEF Items
<1>10. Supported(Items(a), B, q)
  BY <1>5, <1>8, <1>9 DEF Supported
<1> QED BY <1>10 DEF B

\* The head of the queue is looked at: it is in place, or it is applied, or
\* it is dead, and the others keep their places.
LEMMA SupportedTail ==
  ASSUME NEW o, NEW B, NEW C, NEW q \in Seq(Tx), q # <<>>, Supported(o, B, q), B \subseteq C,
         Needs[Head(q)] \subseteq B => Head(q) \in C
  PROVE  Supported(o, C, Tail(q))
<1> DEFINE r == Tail(q)
<1>1. PICK P \in SUBSET DOMAIN q :
        /\ \A i \in P : \A u \in Needs[q[i]] : u \in B \/ \E j \in P : j < i /\ q[j] = u
        /\ \A t \in o : t \in B \/ \E i \in P : q[i] = t
  BY DEF Supported
<1>2. /\ Len(q) \in Nat \ {0} /\ DOMAIN q = 1..Len(q) /\ DOMAIN r = 1..Len(q) - 1
      /\ \A i \in 1..Len(q) - 1 : r[i] = q[i + 1]
      /\ Head(q) = q[1]
  OBVIOUS
<1> HIDE DEF r
<1> DEFINE R == {i \in DOMAIN r : i + 1 \in P}
<1>3. \A i \in P : (i = 1) \/ (i - 1 \in R /\ r[i - 1] = q[i])
  <2> SUFFICES ASSUME NEW i \in P, i # 1 PROVE i - 1 \in R /\ r[i - 1] = q[i]
    OBVIOUS
  <2>1. i \in 1..Len(q) /\ i - 1 \in 1..Len(q) - 1 /\ (i - 1) + 1 = i
    BY <1>2
  <2> QED BY <1>2, <2>1
<1>4. 1 \in P => q[1] \in C
  <2> SUFFICES ASSUME 1 \in P PROVE Needs[q[1]] \subseteq B
    BY <1>2
  <2> SUFFICES ASSUME NEW u \in Needs[q[1]], u \notin B PROVE FALSE
    OBVIOUS
  <2>1. PICK j \in P : j < 1
    BY <1>1
  <2> QED BY <1>2, <2>1
<1>5. ASSUME NEW i \in R, NEW u \in Needs[r[i]], u \notin C
      PROVE  \E j \in R : j < i /\ r[j] = u
  <2>1. i + 1 \in P /\ q[i + 1] = r[i] /\ i \in Int
    BY <1>2
  <2>2. PICK j \in P : j < i + 1 /\ q[j] = u
    BY <1>1, <1>5, <2>1
  <2>3. j # 1
    BY <1>4, <1>5, <2>2
  <2>4. j - 1 \in R /\ r[j - 1] = u /\ j \in Int
    BY <1>2, <1>3, <2>2, <2>3
  <2>5. j - 1 < i
    BY <2>1, <2>2, <2>4
  <2> QED BY <2>4, <2>5
<1>6. ASSUME NEW t \in o, t \notin C
      PROVE  \E i \in R : r[i] = t
  <2>1. PICK i \in P : q[i] = t
    BY <1>1, <1>6
  <2> QED BY <1>3, <1>4, <1>6, <2>1
<1>7. Supported(o, C, r)
  <2>1. R \in SUBSET DOMAIN r
    OBVIOUS
  <2>2. \A i \in R : \A u \in Needs[r[i]] : u \in C \/ \E j \in R : j < i /\ r[j] = u
    BY <1>5
  <2>3. \A t \in o : t \in C \/ \E i \in R : r[i] = t
    BY <1>6
  <2> HIDE DEF R
  <2> QED BY <2>1, <2>2, <2>3 DEF Supported
<1> QED BY <1>7 DEF r

-----------------------------------------------------------------------------
(* The session and the pool.                                               *)

\* Beyond h, sequence a is made from q, in the order of q.
FromPool(a, h, q) ==
  \E n \in 0..Len(q) :
    /\ Len(a) = Len(h) + n
    /\ SubSeq(a, 1, Len(h)) = h
    /\ IsSubsequence(SubSeq(a, Len(h) + 1, Len(a)), q)

\* Nothing is made from any pool.
LEMMA FromPoolNothing ==
  ASSUME NEW h \in Seq(Tx), NEW q \in Seq(Tx)
  PROVE  FromPool(h, h, q)
<1> DEFINE x == SubSeq(h, Len(h) + 1, Len(h))
<1>1. Len(h) \in Nat /\ 0 \in 0..Len(q) /\ Len(h) = Len(h) + 0
  OBVIOUS
<1>2. SubSeq(h, 1, Len(h)) = h
  OBVIOUS
<1>3. DOMAIN x = {}
  BY <1>1
<1> HIDE DEF x
<1>4. [i \in {} |-> 0] \in [DOMAIN x -> DOMAIN q]
  BY <1>3
<1>5. IsSubsequence(x, q)
  BY <1>3, <1>4 DEF IsSubsequence
<1> QED BY <1>1, <1>2, <1>5 DEF FromPool, x

\* The pool may take more transactions than the session.
LEMMA FromPoolPostpone ==
  ASSUME NEW a \in Seq(Tx), NEW h \in Seq(Tx), NEW q \in Seq(Tx), NEW t \in Tx,
         FromPool(a, h, q)
  PROVE  FromPool(a, h, Append(q, t))
<1> DEFINE r == Append(q, t)
           x == SubSeq(a, Len(h) + 1, Len(a))
<1>1. /\ Len(q) \in Nat /\ DOMAIN q = 1..Len(q) /\ Len(r) = Len(q) + 1 /\ DOMAIN r = 1..Len(q) + 1
      /\ \A i \in 1..Len(q) : r[i] = q[i]
  OBVIOUS
<1> HIDE DEF r, x
<1>2. PICK n \in 0..Len(q) :
        Len(a) = Len(h) + n /\ SubSeq(a, 1, Len(h)) = h /\ IsSubsequence(x, q)
  BY DEF FromPool, x
<1>3. n \in 0..Len(r)
  BY <1>1
<1>4. PICK f \in [DOMAIN x -> DOMAIN q] :
        /\ \A i \in DOMAIN x : x[i] = q[f[i]]
        /\ \A i, j \in DOMAIN x : i < j => f[i] < f[j]
  BY <1>2 DEF IsSubsequence
<1>5. f \in [DOMAIN x -> DOMAIN r]
  BY <1>1, <1>4
<1>6. \A i \in DOMAIN x : x[i] = r[f[i]]
  BY <1>1, <1>4
<1>7. IsSubsequence(x, r)
  BY <1>4, <1>5, <1>6 DEF IsSubsequence
<1>8. FromPool(a, h, r)
  BY <1>2, <1>3, <1>7 DEF FromPool, x
<1> QED BY <1>8 DEF r

\* A transaction goes to the session and to the pool.
LEMMA FromPoolPush ==
  ASSUME NEW a \in Seq(Tx), NEW h \in Seq(Tx), NEW q \in Seq(Tx), NEW t \in Tx,
         FromPool(a, h, q)
  PROVE  FromPool(a \o <<t>>, h, Append(q, t))
<1> DEFINE r == Append(q, t)
           x == SubSeq(a, Len(h) + 1, Len(a))
           b == a \o <<t>>
           y == SubSeq(b, Len(h) + 1, Len(b))
<1>1. /\ Len(q) \in Nat /\ DOMAIN q = 1..Len(q) /\ Len(r) = Len(q) + 1 /\ DOMAIN r = 1..Len(q) + 1
      /\ \A i \in 1..Len(q) : r[i] = q[i]
      /\ r[Len(q) + 1] = t
  OBVIOUS
<1>2. PICK n \in 0..Len(q) :
        Len(a) = Len(h) + n /\ SubSeq(a, 1, Len(h)) = h /\ IsSubsequence(x, q)
  BY DEF FromPool
<1>3. n \in Nat /\ n + 1 \in 0..Len(r) /\ Len(h) \in Nat /\ Len(a) \in Nat
  BY <1>1
<1>4. /\ b \in Seq(Tx) /\ Len(b) = Len(h) + (n + 1) /\ b[Len(a) + 1] = t
      /\ \A i \in 1..Len(a) : b[i] = a[i]
  <2>1. /\ b \in Seq(Tx) /\ Len(b) = Len(a) + 1 /\ b[Len(a) + 1] = t
        /\ \A i \in 1..Len(a) : b[i] = a[i]
    OBVIOUS
  <2>2. Len(a) + 1 = Len(h) + (n + 1)
    BY <1>2, <1>3
  <2> QED BY <2>1, <2>2
<1>5. DOMAIN x = 1..n /\ \A i \in 1..n : x[i] = a[Len(h) + i]
  BY <1>2, <1>3
<1> HIDE DEF r, x, b
<1>6. DOMAIN y = 1..n + 1 /\ \A i \in 1..n + 1 : y[i] = b[Len(h) + i]
  BY <1>3, <1>4
<1>7. SubSeq(b, 1, Len(h)) = h
  <2>1. /\ SubSeq(b, 1, Len(h)) \in Seq(Tx) /\ Len(SubSeq(b, 1, Len(h))) = Len(h)
        /\ \A i \in 1..Len(h) : SubSeq(b, 1, Len(h))[i] = b[i]
    BY <1>3, <1>4
  <2>2. \A i \in 1..Len(h) : SubSeq(a, 1, Len(h))[i] = a[i]
    BY <1>2, <1>3
  <2>3. \A i \in 1..Len(h) : i \in 1..Len(a) /\ b[i] = h[i]
    BY <1>2, <1>3, <1>4, <2>2
  <2> QED BY <2>1, <2>3
<1> HIDE DEF y
<1>8. /\ y[n + 1] = t
      /\ \A i \in 1..n : y[i] = x[i]
  <2>1. Len(h) + (n + 1) = Len(a) + 1
    BY <1>2, <1>3
  <2>2. \A i \in 1..n : Len(h) + i \in 1..Len(a) /\ i \in 1..n + 1
    BY <1>2, <1>3
  <2>3. n + 1 \in 1..n + 1
    BY <1>3
  <2>4. y[n + 1] = t
    BY <1>4, <1>6, <2>1, <2>3
  <2>5. \A i \in 1..n : y[i] = x[i]
    BY <1>4, <1>5, <1>6, <2>2
  <2> QED BY <2>4, <2>5
<1>9. PICK f \in [DOMAIN x -> DOMAIN q] :
        /\ \A i \in DOMAIN x : x[i] = q[f[i]]
        /\ \A i, j \in DOMAIN x : i < j => f[i] < f[j]
  BY <1>2 DEF IsSubsequence
<1> DEFINE g == [i \in 1..n + 1 |-> IF i <= n THEN f[i] ELSE Len(q) + 1]
<1>10. \A i \in 1..n + 1 : i = n + 1 \/ (i \in 1..n /\ i <= n)
  BY <1>3
<1>11. \A i \in 1..n : g[i] = f[i] /\ g[i] \in 1..Len(q) /\ y[i] = r[g[i]]
  <2> SUFFICES ASSUME NEW i \in 1..n
               PROVE  g[i] = f[i] /\ g[i] \in 1..Len(q) /\ y[i] = r[g[i]]
    OBVIOUS
  <2>1. g[i] = f[i]
    BY <1>3
  <2>2. f[i] \in 1..Len(q) /\ x[i] = q[f[i]]
    BY <1>1, <1>5, <1>9
  <2> QED BY <1>1, <1>8, <2>1, <2>2
<1>12. g[n + 1] = Len(q) + 1 /\ y[n + 1] = r[g[n + 1]]
  <2>1. n + 1 \in 1..n + 1 /\ ~(n + 1 <= n)
    BY <1>3
  <2>2. g[n + 1] = Len(q) + 1
    BY <2>1
  <2> QED BY <1>1, <1>8, <2>2
<1>13. g \in [DOMAIN y -> DOMAIN r]
  <2>1. ASSUME NEW i \in 1..n + 1 PROVE g[i] \in 1..Len(q) + 1
    <3> HIDE DEF g
    <3>1. CASE i = n + 1
      BY <1>1, <1>12, <3>1
    <3>2. CASE i \in 1..n
      BY <1>1, <1>11, <3>2
    <3> QED BY <1>10, <3>1, <3>2
  <2>2. DOMAIN g = 1..n + 1 /\ g = [i \in 1..n + 1 |-> g[i]]
    OBVIOUS
  <2> HIDE DEF g
  <2> QED BY <1>1, <1>6, <2>1, <2>2
<1> HIDE DEF g
<1>14. \A i \in DOMAIN y : y[i] = r[g[i]]
  BY <1>6, <1>10, <1>11, <1>12
<1>15. ASSUME NEW i \in DOMAIN y, NEW j \in DOMAIN y, i < j
       PROVE  g[i] < g[j]
  <2>1. i \in 1..n
    BY <1>3, <1>6, <1>15
  <2>2. CASE j \in 1..n
    BY <1>5, <1>9, <1>11, <1>15, <2>1, <2>2
  <2>3. CASE j = n + 1
    BY <1>1, <1>11, <1>12, <2>1, <2>3
  <2> QED BY <1>6, <1>10, <2>2, <2>3
<1>16. IsSubsequence(y, r)
  BY <1>13, <1>14, <1>15 DEF IsSubsequence
<1>17. FromPool(b, h, r)
  BY <1>3, <1>4, <1>7, <1>16 DEF FromPool, y
<1> QED BY <1>17 DEF b, r

-----------------------------------------------------------------------------
(* Transactions that cannot be applied any more.                           *)

\* A dead transaction is refused.
LEMMA DeadRefused ==
  ASSUME NEW s \in State, NEW D \in SUBSET Tx, Dead(s, D), NEW t \in D
  PROVE  ~Acceptable(s, t)
BY PoolAssumption DEF Dead, Acceptable

\* Dead transactions stay dead when another one is applied.
LEMMA DeadStays ==
  ASSUME NEW s \in State, NEW D \in SUBSET Tx, Dead(s, D), NEW t \in Tx, Acceptable(s, t)
  PROVE  /\ Dead(ApplyAll(s, <<t>>), D)
         /\ Items(ApplyAll(s, <<t>>).applied) = Items(s.applied) \cup {t}
<1> DEFINE r == ApplyAll(s, <<t>>)
<1>1. <<t>> \in Seq(Tx) /\ Items(<<t>>) = {t} /\ s.applied \in Seq(Tx)
  BY DEF Items, State
<1>2. r.time = s.time /\ r.applied = s.applied \o <<t>> /\ r.known = s.known \cup {t}
  BY <1>1, ApplyAllType
<1> HIDE DEF r
<1>3. Items(r.applied) = Items(s.applied) \cup {t}
  <2> DEFINE a == s.applied
             b == <<t>>
  <2>1. a \in Seq(Tx) /\ b \in Seq(Tx) /\ Items(b) = {t} /\ r.applied = a \o b
    BY <1>1, <1>2
  <2> HIDE DEF a, b
  <2>2. Items(a \o b) = Items(a) \cup Items(b)
    BY <2>1, ItemsConcat
  <2> QED BY <2>1, <2>2 DEF a
<1>4. t \notin D
  BY DeadRefused
<1>5. D \cap Items(r.applied) = {}
  BY <1>3, <1>4 DEF Dead
<1>6. ASSUME NEW u \in D
      PROVE  \/ u \in r.known \/ ~InTime(r, u)
             \/ Conflicts[u] \cap Items(r.applied) # {}
             \/ Needs[u] \cap D # {}
  BY <1>2, <1>3 DEF Dead, InTime
<1>7. Dead(r, D)
  BY <1>5, <1>6 DEF Dead
<1> QED BY <1>3, <1>7 DEF r

\* A transaction whose foundations are applied or dead is dead once refused.
LEMMA DeadMore ==
  ASSUME NEW s \in State, NEW D \in SUBSET Tx, Dead(s, D), NEW t \in Tx,
         t \notin Items(s.applied), ~Acceptable(s, t),
         Needs[t] \subseteq Items(s.applied) \cup D
  PROVE  Dead(s, D \cup {t})
BY DEF Dead, Acceptable

\* A refused transaction leaves the queue: it is in place, or dead, or had no
\* claim to a place.
LEMMA RefusedLeaves ==
  ASSUME NEW s \in State, NEW D \in SUBSET Tx, Dead(s, D), NEW o, NEW q \in Seq(Tx), q # <<>>,
         ~Acceptable(s, Head(q)), Supported(o, Items(s.applied) \cup D, q)
  PROVE  \E E \in SUBSET Tx : Dead(s, E) /\ Supported(o, Items(s.applied) \cup E, Tail(q))
<1> DEFINE t == Head(q)
           B == Items(s.applied) \cup D
<1>1. t \in Tx
  OBVIOUS
<1>2. CASE t \notin Items(s.applied) /\ Needs[t] \subseteq B
  <2>1. Dead(s, D \cup {t}) /\ D \cup {t} \in SUBSET Tx
    BY <1>1, <1>2, DeadMore
  <2>2. Supported(o, Items(s.applied) \cup (D \cup {t}), Tail(q))
    BY SupportedTail
  <2> QED BY <2>1, <2>2
<1>3. CASE ~(t \notin Items(s.applied) /\ Needs[t] \subseteq B)
  <2>1. Needs[t] \subseteq B => t \in B
    BY <1>3
  <2> HIDE DEF B
  <2>2. Supported(o, B, Tail(q))
    BY <2>1, SupportedTail DEF B
  <2> QED BY <2>2 DEF B
<1> QED BY <1>2, <1>3

-----------------------------------------------------------------------------
(* The chain, the session and the queues together.                         *)

\* The head state under the invariant.
LEMMA HeadFounded ==
  ASSUME IInv, PoolInv
  PROVE  /\ HeadState \in State /\ HeadState.applied \in Seq(Tx) /\ Founded(HeadState.applied)
         /\ HeadState.applied = AppliedAt(chain, Len(chain))
<1>1. HeadState \in State /\ chain \in Seq(Block) /\ Linked(chain)
  BY HeadGood DEF IInv, TypeOK, PoolInv
<1>2. HeadState.applied = AppliedAt(chain, Len(chain))
  BY <1>1, HeadApplied
<1>3. Founded(HeadState.applied)
  <2>1. CASE chain = <<>>
    BY <2>1 DEF HeadState, Genesis, Founded
  <2>2. CASE chain # <<>>
    <3>1. Len(chain) \in DOMAIN chain
      BY <1>1, <2>2
    <3> QED BY <1>1, <2>2, <3>1 DEF HeadState, Linked
  <2> QED BY <2>1, <2>2
<1> QED BY <1>1, <1>2, <1>3 DEF State

\* A block on the head state continues the chain.
LEMMA BlockOnLinked ==
  ASSUME IInv, PoolInv, NEW txs \in Seq(Tx), BlockApplies(HeadState, txs),
         NEW time \in 0..MaxTime, HeadState.time < time,
         chain' = Append(chain, BlockOn(HeadState, txs, time))
  PROVE  /\ Linked(chain)' /\ Len(chain') = Len(chain) + 1
         /\ \A m \in 0..Len(chain) : AppliedAt(chain', m) = AppliedAt(chain, m)
         /\ Founded(HeadState'.applied) /\ HeadState'.applied \in Seq(Tx)
         /\ Items(HeadState.applied) \subseteq Items(HeadState'.applied)
<1> DEFINE b == BlockOn(HeadState, txs, time)
           s == HeadState
           r == ApplyAll(s, txs)
<1>1. /\ s \in State /\ s.applied \in Seq(Tx) /\ Founded(s.applied)
      /\ s.applied = AppliedAt(chain, Len(chain))
      /\ Unrepeatable(replayed, s) /\ chain \in Seq(Block) /\ Linked(chain)
  BY HeadFounded, HeadGood DEF IInv, TypeOK, PoolInv
<1>2. b \in Block
  BY <1>1, BlockOnGood
<1>3. r \in State /\ r.applied = s.applied \o txs
  BY <1>1, ApplyAllType
<1>4. b.txs = txs /\ b.state.applied = r.applied
  <2> HIDE DEF r
  <2>1. b = [txs |-> txs, state |-> clear_expired_transactions([r EXCEPT !.time = time])]
    BY DEF BlockOn, r
  <2>2. clear_expired_transactions([r EXCEPT !.time = time]).applied = r.applied
    BY <1>3 DEF clear_expired_transactions, State
  <2> QED BY <2>1, <2>2
<1>5. Founded(b.state.applied)
  BY <1>1, <1>3, <1>4, FoundedApply
<1> HIDE DEF b, r
<1>6. chain' = Append(chain, b)
  BY DEF b
<1>7. /\ Linked(Append(chain, b))
      /\ \A m \in 0..Len(chain) : AppliedAt(Append(chain, b), m) = AppliedAt(chain, m)
  BY <1>1, <1>2, <1>3, <1>4, <1>5, LinkedAppend
<1>8. HeadState' = b.state /\ Len(chain') = Len(chain) + 1
  <2>1. /\ chain' # <<>> /\ Len(chain') = Len(chain) + 1
        /\ chain'[Len(chain) + 1] = b
    BY <1>1, <1>2, <1>6, SMTT(30)
  <2> QED BY <2>1 DEF HeadState
<1>9. Items(HeadState.applied) \subseteq Items(b.state.applied)
  <2> DEFINE a == s.applied
  <2>1. a \in Seq(Tx)
    BY <1>1
  <2> HIDE DEF a
  <2>2. Items(a \o txs) = Items(a) \cup Items(txs)
    BY <2>1, ItemsConcat
  <2> QED BY <1>3, <1>4, <2>2 DEF a
<1>10. b.state.applied \in Seq(Tx)
  BY <1>2 DEF Block, State
<1>11. Linked(chain')
  BY <1>6, <1>7
<1> QED BY <1>5, <1>6, <1>7, <1>8, <1>9, <1>10, <1>11

\* Outside the production of a block, the current state is made from the pool.
LEMMA CurrentFromPool ==
  ASSUME IInv, PoolInv, phase # "generating"
  PROVE  /\ FromPool(Current.applied, HeadState.applied, pending)
         /\ Current.applied \in Seq(Tx) /\ HeadState.applied \in Seq(Tx)
         /\ pending \in Seq(Tx)
<1>1. Current.applied \in Seq(Tx) /\ HeadState.applied \in Seq(Tx) /\ pending \in Seq(Tx)
  BY CurrentGood, HeadGood DEF IInv, TypeOK, State
<1>2. CASE session_open
  BY <1>1, <1>2 DEF PoolInv, SessionFromPool, FromPool, Current
<1>3. CASE ~session_open
  BY <1>1, <1>3, FromPoolNothing DEF Current
<1> QED BY <1>1, <1>2, <1>3

\* What the current state holds has its place in the pool or is on the chain.
LEMMA PoolSupports ==
  ASSUME IInv, PoolInv, phase # "generating"
  PROVE  Supported(Items(Current.applied), Items(HeadState.applied), pending)
<1> DEFINE a == Current.applied
           h == HeadState.applied
<1>1. FromPool(a, h, pending) /\ a \in Seq(Tx) /\ h \in Seq(Tx) /\ pending \in Seq(Tx)
  BY CurrentFromPool
<1>2. Founded(a)
  BY DEF PoolInv
<1> HIDE DEF a, h
<1>3. PICK n \in 0..Len(pending) :
        /\ Len(a) = Len(h) + n /\ SubSeq(a, 1, Len(h)) = h
        /\ IsSubsequence(SubSeq(a, Len(h) + 1, Len(a)), pending)
  BY <1>1 DEF FromPool
<1>4. Len(h) <= Len(a)
  BY <1>1, <1>3
<1>5. Supported(Items(a), Items(h), pending)
  BY <1>1, <1>2, <1>3, <1>4, SupportedSession
<1> QED BY <1>5 DEF a, h

\* _push_transaction keeps the session made from the pool.
LEMMA PushKeepsSession ==
  ASSUME IInv, PoolInv, phase # "generating", NEW t \in Tx, _push_transaction(t), chain' = chain
  PROVE  SessionFromPool' /\ Founded(Current.applied)' /\ Current' = session'
<1> DEFINE a == Current.applied
           h == HeadState.applied
<1>1. /\ FromPool(a, h, pending) /\ a \in Seq(Tx) /\ h \in Seq(Tx) /\ pending \in Seq(Tx)
      /\ Founded(a) /\ Current \in State
  BY CurrentFromPool, CurrentGood DEF PoolInv
<1>2. HeadState' = HeadState /\ session_open' = TRUE /\ Current' = session'
  BY DEF HeadState, Current, _push_transaction
<1>3. FromPool(session'.applied, h, pending') /\ Founded(session'.applied)
  <2>1. CASE Acceptable(Current, t)
    <3>1. session' = ApplyAll(Current, <<t>>) /\ pending' = Append(pending, t)
      BY <2>1 DEF _push_transaction
    <3>2. <<t>> \in Seq(Tx) /\ BlockApplies(Current, <<t>>)
      BY <1>1, <2>1, OneTransaction
    <3>3. session'.applied = a \o <<t>>
      BY <1>1, <3>1, <3>2, ApplyAllType
    <3>4. Founded(session'.applied)
      BY <1>1, <3>2, <3>3, FoundedApply
    <3> HIDE DEF a, h
    <3>5. FromPool(a \o <<t>>, h, Append(pending, t))
      BY <1>1, FromPoolPush
    <3> QED BY <3>1, <3>3, <3>4, <3>5
  <2>2. CASE ~Acceptable(Current, t)
    BY <1>1, <2>2 DEF _push_transaction
  <2> QED BY <2>1, <2>2
<1>4. SessionFromPool'
  BY <1>2, <1>3 DEF SessionFromPool, FromPool
<1> QED BY <1>2, <1>3, <1>4

\* No transactions are applied by applying none.
LEMMA ApplyNone ==
  ASSUME NEW s \in State
  PROVE  ApplyAll(s, <<>>) = s /\ BlockApplies(s, <<>>)
<1>1. s.applied \o <<>> = s.applied /\ Items(<<>>) = {}
  BY DEF State, Items
<1>2. ApplyAll(s, <<>>) = s
  BY <1>1 DEF ApplyAll, State
<1> QED BY <1>2 DEF BlockApplies

\* A state is its time, its transactions and its index.
LEMMA StatesEqual ==
  ASSUME NEW s \in State, NEW r \in State,
         s.time = r.time, s.applied = r.applied, s.known = r.known
  PROVE  s = r
BY DEF State

\* A block grows by a transaction that applies after it.
LEMMA ApplyOneMore ==
  ASSUME NEW s \in State, NEW txs \in Seq(Tx), NEW t \in Tx,
         BlockApplies(s, txs), Acceptable(ApplyAll(s, txs), t)
  PROVE  /\ ApplyAll(ApplyAll(s, txs), <<t>>) = ApplyAll(s, Append(txs, t))
         /\ BlockApplies(s, Append(txs, t))
<1> DEFINE u == Append(txs, t)
           n == Len(txs)
<1>1. /\ u \in Seq(Tx) /\ n \in Nat /\ DOMAIN u = 1..n + 1 /\ DOMAIN txs = 1..n
      /\ u[n + 1] = t /\ \A i \in 1..n : u[i] = txs[i]
      /\ <<t>> \in Seq(Tx) /\ s.applied \in Seq(Tx) /\ s.known \subseteq Tx
  BY DEF State
<1>2. ApplyAll(ApplyAll(s, txs), <<t>>) = ApplyAll(s, u)
  <2> DEFINE a == s.applied
             r == ApplyAll(s, txs)
  <2>1. (a \o txs) \o <<t>> = a \o u
    <3>1. a \in Seq(Tx) /\ u = txs \o <<t>>
      BY <1>1
    <3> HIDE DEF a, u
    <3> QED BY <1>1, <3>1
  <2>2. Items(u) = Items(txs) \cup Items(<<t>>)
    <3>1. u = txs \o <<t>>
      BY <1>1
    <3>2. txs \in Seq(Tx) /\ <<t>> \in Seq(Tx)
      BY <1>1
    <3>3. Items(txs \o <<t>>) = Items(txs) \cup Items(<<t>>)
      BY <3>2, ItemsConcat
    <3> QED BY <3>1, <3>3
  <2>3. /\ r \in State /\ r.time = s.time /\ r.applied = a \o txs
        /\ r.known = s.known \cup Items(txs)
    BY ApplyAllType
  <2> HIDE DEF r, u
  <2>4. /\ ApplyAll(r, <<t>>) \in State /\ ApplyAll(r, <<t>>).time = s.time
        /\ ApplyAll(r, <<t>>).applied = (a \o txs) \o <<t>>
        /\ ApplyAll(r, <<t>>).known = (s.known \cup Items(txs)) \cup Items(<<t>>)
    BY <1>1, <2>3, ApplyAllType
  <2>5. /\ ApplyAll(s, u) \in State /\ ApplyAll(s, u).time = s.time
        /\ ApplyAll(s, u).applied = a \o u
        /\ ApplyAll(s, u).known = s.known \cup Items(u)
    BY <1>1, ApplyAllType
  <2>6. (s.known \cup Items(txs)) \cup Items(<<t>>) = s.known \cup Items(u)
    BY <2>2
  <2>7. ApplyAll(r, <<t>>) = ApplyAll(s, u)
    BY <2>1, <2>4, <2>5, <2>6, StatesEqual
  <2> QED BY <2>7 DEF r
<1>3. ASSUME NEW i \in DOMAIN u
      PROVE  Acceptable(ApplyAll(s, SubSeq(u, 1, i - 1)), u[i])
  <2>1. SubSeq(u, 1, i - 1) = SubSeq(txs, 1, i - 1)
    BY <1>1
  <2>2. CASE i = n + 1
    <3>1. SubSeq(txs, 1, i - 1) = txs
      BY <1>1, <2>2
    <3> QED BY <1>1, <2>1, <2>2, <3>1
  <2>3. CASE i # n + 1
    <3>1. i \in DOMAIN txs /\ u[i] = txs[i]
      BY <1>1, <2>3
    <3> QED BY <2>1, <3>1 DEF BlockApplies
  <2> QED BY <2>2, <2>3
<1> QED BY <1>2, <1>3 DEF BlockApplies

-----------------------------------------------------------------------------
(* Each action preserves the invariant of the pool's contents.             *)

\* The node starts with an empty pool.
LEMMA InitPool == Init => PoolInv
<1> SUFFICES ASSUME Init PROVE PoolInv
  OBVIOUS
<1>1. Linked(<<>>) /\ Founded(<<>>)
  BY DEF Linked, Founded
<1>2. Current.applied = <<>>
  BY DEF Init, Current, HeadState, Genesis
<1> QED BY <1>1, <1>2 DEF Init, PoolInv, Building, SetAside, SessionFromPool, Owing

\* A transaction is taken into the pool or refused.
LEMMA PushTransactionKeeps ==
  ASSUME IInv, PoolInv, NEW t \in Tx, push_transaction(t)
  PROVE  PoolInv'
<1>1. SessionFromPool' /\ Founded(Current.applied)'
  BY PushKeepsSession DEF push_transaction
<1>2. Linked(chain)' /\ Linked(original)'
  BY DEF push_transaction, pushVars, PoolInv
<1>3. phase' = "idle" /\ popped' = popped /\ saved' = saved /\ phase = "idle"
  BY DEF push_transaction, pushVars
<1>4. Building' /\ SetAside' /\ Owing'
  BY <1>3 DEF Building, SetAside, Owing, PoolInv
<1> QED BY <1>1, <1>2, <1>4 DEF PoolInv

\* A push of blocks sets the pool aside.
LEMMA PushBlockKeeps ==
  ASSUME IInv, PoolInv, push_block
  PROVE  PoolInv'
<1>1. /\ chain' = chain /\ original' = chain /\ base' = Len(chain) /\ popped' = popped
      /\ saved' = pending /\ owed' = Items(Current.applied)
      /\ phase = "idle" /\ phase' = "popping" /\ session_open' = FALSE
  BY DEF push_block
<1>2. /\ HeadState' = HeadState /\ Current' = HeadState
  BY <1>1 DEF HeadState, Current
<1>3. HeadState.applied = AppliedAt(chain, Len(chain)) /\ Founded(HeadState.applied)
  BY HeadFounded
<1>4. Supported(Items(Current.applied), Items(AppliedAt(chain, Len(chain))), pending)
  BY <1>1, <1>3, PoolSupports
<1>5. popped = <<>> /\ pending \in Seq(Tx) /\ chain \in Seq(Block)
  BY <1>1 DEF PoolInv, SetAside, IInv, TypeOK
<1>6. popped' \o saved' = pending /\ base' \in 0..Len(chain')
  BY <1>1, <1>5
<1>7. Owing'
  BY <1>1, <1>4, <1>6 DEF Owing
<1>8. Building' /\ SetAside' /\ SessionFromPool'
  BY <1>1 DEF Building, SetAside, SessionFromPool
<1> QED BY <1>1, <1>2, <1>3, <1>7, <1>8 DEF PoolInv

\* The last block goes from the chain to the front of what was popped.
LEMMA PopKeeps ==
  ASSUME IInv, PoolInv, Pop, ~session_open, ~session_open'
  PROVE  /\ Linked(chain)' /\ Founded(Current.applied)'
         /\ \A m \in 0..Len(chain) - 1 : AppliedAt(chain', m) = AppliedAt(chain, m)
         /\ AppliedAt(chain, Len(chain)) = AppliedAt(chain, Len(chain) - 1) \o chain[Len(chain)].txs
         /\ Founded(AppliedAt(chain, Len(chain)))
         /\ chain[Len(chain)].txs \in Seq(Tx)
         /\ AppliedAt(chain, Len(chain) - 1) \in Seq(Tx)
<1> DEFINE k == Len(chain) - 1
<1>1. /\ chain \in Seq(Block) /\ Linked(chain)
      /\ Len(chain) \in Nat /\ Len(chain) > 0 /\ Len(chain') = k
      /\ chain' \in Seq(Block)
  BY PopGood DEF PoolInv, IInv, TypeOK
<1>2. k \in 0..Len(chain) /\ Len(chain) \in DOMAIN chain /\ k \in Nat /\ Len(chain) # 0
  BY <1>1
<1>3. chain' = SubSeq(chain, 1, k)
  BY DEF Pop
<1>4. /\ Linked(chain') /\ \A m \in 0..k : AppliedAt(chain', m) = AppliedAt(chain, m)
  <2> HIDE DEF k
  <2> QED BY <1>1, <1>2, <1>3, LinkedFront
<1>5. /\ AppliedAt(chain, Len(chain)) = chain[Len(chain)].state.applied
      /\ chain[Len(chain)].state.applied = AppliedAt(chain, k) \o chain[Len(chain)].txs
      /\ Founded(chain[Len(chain)].state.applied)
  BY <1>1, <1>2 DEF Linked, AppliedAt
<1>6. chain[Len(chain)].txs \in Seq(Tx)
  <2>1. chain[Len(chain)] \in Block
    BY <1>1, <1>2
  <2> QED BY <2>1 DEF Block
<1>7. AppliedAt(chain, k) \in Seq(Tx)
  <2> HIDE DEF k
  <2> QED BY <1>1, <1>2, AppliedAtType
<1>8. Founded(Current'.applied)
  <2>1. Current' = HeadState'
    BY DEF Current
  <2>2. CASE chain' = <<>>
    BY <2>1, <2>2 DEF HeadState, Genesis, Founded
  <2>3. CASE chain' # <<>>
    <3>1. HeadState' = chain'[Len(chain')].state /\ Len(chain') \in DOMAIN chain'
      BY <1>1, <2>3 DEF HeadState
    <3> QED BY <1>4, <2>1, <3>1 DEF Linked
  <2> QED BY <2>2, <2>3
<1> QED BY <1>4, <1>5, <1>6, <1>7, <1>8

\* A block is popped, and its transactions with it.
LEMMA PopBlockKeeps ==
  ASSUME IInv, PoolInv, pop_block
  PROVE  PoolInv'
<1> DEFINE k == Len(chain) - 1
           a == AppliedAt(chain, k)
           x == chain[Len(chain)].txs
<1>1. /\ phase = "popping" /\ phase' = "popping" /\ base' = base - 1 /\ saved' = saved
      /\ owed' = owed /\ original' = original /\ session_open' = session_open
      /\ popped' = x \o popped /\ Pop
  BY DEF pop_block, Pop
<1>2. ~session_open /\ ~session_open' /\ base = Len(chain)
  BY <1>1 DEF PoolInv, SetAside, IInv
<1>3. /\ Linked(chain)' /\ Founded(Current.applied)'
      /\ \A m \in 0..k : AppliedAt(chain', m) = AppliedAt(chain, m)
      /\ AppliedAt(chain, Len(chain)) = a \o x /\ Founded(a \o x)
      /\ x \in Seq(Tx) /\ a \in Seq(Tx)
  <2>1. /\ Linked(chain)' /\ Founded(Current.applied)'
        /\ \A m \in 0..Len(chain) - 1 : AppliedAt(chain', m) = AppliedAt(chain, m)
        /\ AppliedAt(chain, Len(chain)) = AppliedAt(chain, Len(chain) - 1) \o chain[Len(chain)].txs
        /\ Founded(AppliedAt(chain, Len(chain)))
        /\ chain[Len(chain)].txs \in Seq(Tx)
        /\ AppliedAt(chain, Len(chain) - 1) \in Seq(Tx)
    BY <1>1, <1>2, PopKeeps
  <2> QED BY <2>1
<1>4. Len(chain') = k /\ k \in Nat /\ base' = k
  <2>1. Len(chain) \in Nat /\ Len(chain) > 0 /\ Len(chain') = Len(chain) - 1
    BY <1>1, PopGood
  <2> QED BY <1>1, <1>2, <2>1
<1>5. popped \in Seq(Tx) /\ saved \in Seq(Tx)
  BY DEF IInv, TypeOK
<1> HIDE DEF k, a, x
<1>6. Supported(owed, Items(a \o x), popped \o saved)
  BY <1>1, <1>2, <1>3 DEF PoolInv, Owing
<1>7. popped \o saved \in Seq(Tx) /\ x \o (popped \o saved) = popped' \o saved'
  BY <1>1, <1>3, <1>5
<1>8. Supported(owed, Items(a), popped' \o saved')
  <2>1. Supported(owed, Items(a), x \o (popped \o saved))
    BY <1>3, <1>6, <1>7, SupportedPop
  <2> QED BY <1>7, <2>1
<1>9. AppliedAt(chain', base') = a /\ base' \in 0..Len(chain')
  BY <1>3, <1>4 DEF a
<1>10. Supported(owed, Items(AppliedAt(original, Len(original))), saved)
  BY <1>1 DEF PoolInv, Owing
<1>11. Owing'
  BY <1>1, <1>8, <1>9, <1>10 DEF Owing
<1>12. Building' /\ SetAside' /\ SessionFromPool'
  BY <1>1, <1>2 DEF Building, SetAside, SessionFromPool
<1> QED BY <1>1, <1>3, <1>11, <1>12 DEF PoolInv

\* A block of the new branch is applied.
LEMMA ApplyBlockKeeps ==
  ASSUME IInv, PoolInv, NEW txs \in BlockTxs, NEW time \in 1..MaxTime, apply_block(txs, time)
  PROVE  PoolInv'
<1>1. txs \in Seq(Tx)
  <2>1. PICK n \in 0..MaxBlockTxs : txs \in [1..n -> Tx]
    BY DEF BlockTxs
  <2>2. n \in Nat
    BY PoolAssumption
  <2> QED BY <2>1, <2>2
<1>2. time \in 0..MaxTime /\ MaxTime \in Nat /\ HeadState.time < time
  BY PoolAssumption, HeadGood DEF apply_block, State
<1>3. BlockApplies(HeadState, txs) /\ chain' = Append(chain, BlockOn(HeadState, txs, time))
  BY DEF apply_block
<1>4. /\ Linked(chain)' /\ Len(chain') = Len(chain) + 1
      /\ \A m \in 0..Len(chain) : AppliedAt(chain', m) = AppliedAt(chain, m)
      /\ Founded(HeadState'.applied)
  BY <1>1, <1>2, <1>3, BlockOnLinked
<1>5. /\ phase \in {"popping", "applying"} /\ phase' = "applying" /\ base' = base
      /\ saved' = saved /\ popped' = popped /\ owed' = owed /\ original' = original
      /\ session_open' = session_open
  BY DEF apply_block, pushVars
<1>6. ~session_open
  BY <1>5 DEF PoolInv, SetAside
<1>7. /\ base \in 0..Len(chain)
      /\ Supported(owed, Items(AppliedAt(chain, base)), popped \o saved)
      /\ Supported(owed, Items(AppliedAt(original, Len(original))), saved)
  BY <1>5 DEF PoolInv, Owing
<1>8. base' \in 0..Len(chain') /\ AppliedAt(chain', base') = AppliedAt(chain, base)
  <2>1. chain \in Seq(Block)
    BY DEF IInv, TypeOK
  <2>2. Len(chain) \in Nat
    BY <2>1
  <2> QED BY <1>4, <1>5, <1>7, <2>2
<1>9. Owing'
  BY <1>5, <1>7, <1>8 DEF Owing
<1>10. Current' = HeadState'
  BY <1>5, <1>6 DEF Current
<1>11. Building' /\ SetAside' /\ SessionFromPool'
  BY <1>5, <1>6 DEF Building, SetAside, SessionFromPool
<1> QED BY <1>4, <1>5, <1>9, <1>10, <1>11 DEF PoolInv

\* The restorer starts: what is owed is on the chain, or in the queue.
LEMMA RestoringStarts ==
  ASSUME phase' = "restoring", ~session_open',
         Supported(owed', Items(HeadState'.applied), queue')
  PROVE  Owing'
<1>1. Current' = HeadState'
  BY DEF Current
<1>2. {} \in SUBSET Tx /\ Dead(Current', {})
  BY DEF Dead
<1>3. Items(HeadState'.applied) \cup {} = Items(HeadState'.applied)
  OBVIOUS
<1>4. owed' \subseteq Items(HeadState'.applied) \cup {} \cup Items(pending') \cup Items(queue')
  <2>1. owed' \subseteq Items(HeadState'.applied) \cup Items(queue')
    BY SupportedCovers
  <2> QED BY <2>1
<1>5. \E D \in SUBSET Tx :
         /\ Dead(Current', D)
         /\ IF applying' THEN Supported(owed', Items(Current'.applied) \cup D, queue')
            ELSE owed' \subseteq Items(Current'.applied) \cup D \cup Items(pending') \cup Items(queue')
  <2> WITNESS {} \in SUBSET Tx
  <2> QED BY <1>1, <1>2, <1>3, <1>4
<1> QED BY <1>5 DEF Owing

\* The new branch is higher; the pool comes back next.
LEMMA PushedKeeps ==
  ASSUME IInv, PoolInv, pushed
  PROVE  PoolInv'
<1>1. /\ phase = "applying" /\ phase' = "restoring" /\ chain' = chain /\ original' = original
      /\ session_open' = session_open /\ queue' = popped \o saved
      /\ popped' = <<>> /\ saved' = <<>> /\ owed' = owed
  BY DEF pushed, StartRestoring
<1>2. ~session_open
  BY <1>1 DEF PoolInv, SetAside
<1>3. HeadState' = HeadState /\ Current' = HeadState /\ Current = HeadState
  BY <1>1, <1>2 DEF HeadState, Current
<1>4. /\ base \in 0..Len(chain)
      /\ Supported(owed, Items(AppliedAt(chain, base)), popped \o saved)
  BY <1>1 DEF PoolInv, Owing
<1>5. Items(AppliedAt(chain, base)) \subseteq Items(AppliedAt(chain, Len(chain)))
  <2>1. chain \in Seq(Block) /\ Linked(chain)
    BY DEF PoolInv, IInv, TypeOK
  <2>2. CASE Len(chain) = 0
    BY <1>4, <2>2
  <2>3. CASE Len(chain) # 0
    <3>1. Len(chain) \in DOMAIN chain /\ AppliedAt(chain, Len(chain)) = chain[Len(chain)].state.applied
      BY <2>1, <2>3 DEF AppliedAt
    <3> QED BY <1>4, <2>1, <3>1 DEF Linked
  <2> QED BY <2>2, <2>3
<1>6. Supported(owed, Items(HeadState.applied), popped \o saved)
  BY <1>4, <1>5, HeadFounded, SupportedGrows
<1>7. Owing'
  BY <1>1, <1>2, <1>3, <1>6, RestoringStarts
<1>8. Building' /\ SetAside' /\ SessionFromPool'
  BY <1>1, <1>2 DEF Building, SetAside, SessionFromPool
<1> QED BY <1>1, <1>3, <1>7, <1>8 DEF PoolInv

\* A block of the new branch throws.
LEMMA ApplyThrowsKeeps ==
  ASSUME IInv, PoolInv, apply_throws
  PROVE  PoolInv'
<1>1. /\ phase \in {"popping", "applying"} /\ phase' = "unwinding" /\ saved' = saved /\ owed' = owed
      /\ chain' = chain /\ original' = original /\ session_open' = session_open
      /\ session' = session
  BY DEF apply_throws, pushVars
<1>2. ~session_open /\ Current' = Current
  BY <1>1 DEF PoolInv, SetAside, Current, HeadState
<1>3. Supported(owed, Items(AppliedAt(original, Len(original))), saved)
  BY <1>1 DEF PoolInv, Owing
<1>4. Owing'
  BY <1>1, <1>3 DEF Owing
<1>5. Building' /\ SetAside' /\ SessionFromPool'
  BY <1>1, <1>2 DEF Building, SetAside, SessionFromPool
<1> QED BY <1>1, <1>2, <1>4, <1>5 DEF PoolInv

\* The old branch is put back.
LEMMA UnwindKeeps ==
  ASSUME IInv, PoolInv, unwind
  PROVE  PoolInv'
<1>1. /\ phase = "unwinding" /\ session_open' = session_open /\ owed' = owed
      /\ original' = original
  BY DEF unwind
<1>2. /\ ~session_open /\ ~session_open'
      /\ Supported(owed, Items(AppliedAt(original, Len(original))), saved)
      /\ popped \in Seq(Tx) /\ saved \in Seq(Tx)
  BY <1>1 DEF PoolInv, SetAside, Owing, IInv, TypeOK
<1>3. CASE Pop /\ UNCHANGED <<phase, queue, saved>>
  <2>1. Linked(chain)' /\ Founded(Current.applied)'
    BY <1>2, <1>3, PopKeeps
  <2>2. Owing'
    BY <1>1, <1>2, <1>3 DEF Owing
  <2>3. Building' /\ SetAside' /\ SessionFromPool'
    BY <1>1, <1>2, <1>3 DEF Building, SetAside, SessionFromPool
  <2> QED BY <1>1, <2>1, <2>2, <2>3 DEF PoolInv
<1>4. CASE chain' = original /\ StartRestoring
  <2>1. phase' = "restoring" /\ queue' = popped \o saved /\ popped' = <<>> /\ saved' = <<>>
    BY <1>4 DEF StartRestoring
  <2>2. /\ original \in Seq(Block) /\ chain' \in Seq(Block) /\ Linked(original)
    BY <1>4 DEF IInv, TypeOK, PoolInv
  <2>3. HeadState'.applied = AppliedAt(original, Len(original)) /\ Founded(HeadState'.applied)
    <3>1. CASE original = <<>>
      BY <1>4, <3>1 DEF HeadState, Genesis, Founded, AppliedAt
    <3>2. CASE original # <<>>
      <4>1. Len(original) \in DOMAIN original /\ Len(original) # 0
        BY <2>2, <3>2
      <4> QED BY <1>4, <2>2, <3>2, <4>1 DEF HeadState, AppliedAt, Linked
    <3> QED BY <3>1, <3>2
  <2>4. Supported(owed, Items(AppliedAt(original, Len(original))), popped \o saved)
    BY <1>2, SupportedBehind
  <2>5. Owing'
    BY <1>1, <1>2, <2>1, <2>3, <2>4, RestoringStarts
  <2>6. Building' /\ SetAside' /\ SessionFromPool'
    BY <1>2, <2>1 DEF Building, SetAside, SessionFromPool
  <2>7. Current' = HeadState'
    BY <1>2 DEF Current
  <2> QED BY <1>1, <1>4, <2>2, <2>3, <2>5, <2>6, <2>7 DEF PoolInv
<1> QED BY <1>3, <1>4 DEF unwind

\* The next transaction is applied again, or dropped.
LEMMA RestoreNextKeeps ==
  ASSUME IInv, PoolInv, restore_next
  PROVE  PoolInv'
<1> DEFINE t == Head(queue)
           s == Current
<1>1. /\ phase = "restoring" /\ phase' = "restoring" /\ queue # <<>> /\ applying /\ applying' = applying
      /\ queue' = Tail(queue) /\ chain' = chain /\ original' = original /\ owed' = owed
      /\ popped' = popped /\ saved' = saved
  BY DEF restore_next, pushVars
<1>2. queue \in Seq(Tx) /\ t \in Tx /\ s \in State
  <2>1. queue \in Seq(Tx) /\ s \in State
    BY CurrentGood DEF IInv, TypeOK
  <2> QED BY <1>1, <2>1
<1>3. PICK D \in SUBSET Tx : Dead(s, D) /\ Supported(owed, Items(s.applied) \cup D, queue)
  BY <1>1 DEF PoolInv, Owing
<1>4. HeadState' = HeadState
  BY <1>1 DEF HeadState
<1>5. CASE _push_transaction(t) /\ Acceptable(s, t)
  <2>1. Current' = ApplyAll(s, <<t>>) /\ SessionFromPool' /\ Founded(Current.applied)'
    <3>1. SessionFromPool' /\ Founded(Current.applied)' /\ Current' = session'
      BY <1>1, <1>2, <1>5, PushKeepsSession
    <3> QED BY <1>5, <3>1 DEF _push_transaction
  <2>2. Dead(Current', D) /\ Items(Current'.applied) = Items(s.applied) \cup {t}
    BY <1>2, <1>3, <1>5, <2>1, DeadStays
  <2> HIDE DEF s
  <2>3. Supported(owed, Items(Current'.applied) \cup D, Tail(queue))
    <3> DEFINE B == Items(s.applied) \cup D
               C == Items(Current'.applied) \cup D
    <3>1. B \subseteq C /\ Head(queue) \in C /\ Supported(owed, B, queue)
      BY <1>3, <2>2
    <3> HIDE DEF B, C
    <3>2. Supported(owed, C, Tail(queue))
      BY <1>1, <1>2, <3>1, SupportedTail
    <3> QED BY <3>2 DEF C
  <2>4. Owing'
    BY <1>1, <2>2, <2>3 DEF Owing
  <2>5. Building' /\ SetAside'
    BY <1>1 DEF Building, SetAside, PoolInv
  <2> QED BY <1>1, <2>1, <2>4, <2>5 DEF PoolInv
<1>6. CASE ~Acceptable(s, t)
  <2>1. SessionFromPool' /\ Current' = s
    <3>1. CASE _push_transaction(t)
      <4>1. SessionFromPool' /\ Current' = session'
        BY <1>1, <1>2, <3>1, PushKeepsSession
      <4> QED BY <1>6, <3>1, <4>1 DEF _push_transaction
    <3>2. CASE UNCHANGED <<session_open, session, pending>>
      BY <1>1, <1>4, <3>2 DEF SessionFromPool, PoolInv, Current
    <3> QED BY <3>1, <3>2 DEF restore_next
  <2>2. Founded(Current.applied)'
    BY <2>1 DEF PoolInv
  <2>3. PICK E \in SUBSET Tx : Dead(s, E) /\ Supported(owed, Items(s.applied) \cup E, Tail(queue))
    <3> HIDE DEF s
    <3> QED BY <1>1, <1>2, <1>3, <1>6, RefusedLeaves
  <2> HIDE DEF s
  <2>4. Owing'
    BY <1>1, <2>1, <2>3 DEF Owing
  <2>5. Building' /\ SetAside'
    BY <1>1 DEF Building, SetAside, PoolInv
  <2> QED BY <1>1, <2>1, <2>2, <2>4, <2>5 DEF PoolInv
<1>7. t \in s.known => ~Acceptable(s, t)
  BY DEF Acceptable
<1> QED BY <1>5, <1>6, <1>7 DEF restore_next

\* The next transaction is kept without being applied.
LEMMA PostponeNextKeeps ==
  ASSUME IInv, PoolInv, postpone_next
  PROVE  PoolInv'
<1> DEFINE t == Head(queue)
<1>1. /\ phase = "restoring" /\ phase' = "restoring" /\ queue # <<>> /\ ~applying'
      /\ queue' = Tail(queue) /\ chain' = chain /\ original' = original /\ owed' = owed
      /\ popped' = popped /\ saved' = saved /\ pending' = Append(pending, t)
      /\ session' = session /\ session_open' = session_open
  BY DEF postpone_next, pushVars
<1>2. queue \in Seq(Tx) /\ t \in Tx /\ pending \in Seq(Tx)
  <2>1. queue \in Seq(Tx) /\ pending \in Seq(Tx)
    BY DEF IInv, TypeOK
  <2> QED BY <1>1, <2>1
<1>3. HeadState' = HeadState /\ Current' = Current
  BY <1>1 DEF HeadState, Current
<1>4. Items(pending) \cup Items(queue) \subseteq Items(pending') \cup Items(queue')
  <2>1. Items(Append(pending, t)) = Items(pending) \cup {t}
    BY <1>2, ItemsAppend
  <2>2. \A i \in DOMAIN queue : i = 1 \/ (i - 1 \in DOMAIN Tail(queue) /\ Tail(queue)[i - 1] = queue[i])
    BY <1>1, <1>2
  <2>3. queue[1] = t
    BY <1>1, <1>2
  <2> HIDE DEF t
  <2>4. Items(queue) \subseteq {t} \cup Items(Tail(queue))
    BY <2>2, <2>3 DEF Items
  <2> QED BY <1>1, <2>1, <2>4
<1>5. Owing'
  <2>1. PICK D \in SUBSET Tx :
          /\ Dead(Current, D)
          /\ IF applying THEN Supported(owed, Items(Current.applied) \cup D, queue)
             ELSE owed \subseteq Items(Current.applied) \cup D \cup Items(pending) \cup Items(queue)
    BY <1>1 DEF PoolInv, Owing
  <2>2. owed \subseteq Items(Current.applied) \cup D \cup Items(pending) \cup Items(queue)
    <3>1. CASE applying
      <4>1. owed \subseteq (Items(Current.applied) \cup D) \cup Items(queue)
        BY <2>1, <3>1, SupportedCovers
      <4> QED BY <4>1
    <3>2. CASE ~applying
      BY <2>1, <3>2
    <3> QED BY <3>1, <3>2
  <2>3. owed' \subseteq Items(Current'.applied) \cup D \cup Items(pending') \cup Items(queue')
    BY <1>1, <1>3, <1>4, <2>2
  <2> QED BY <1>1, <1>3, <2>1, <2>3 DEF Owing
<1>6. SessionFromPool'
  <2>1. CASE session_open
    <3>1. FromPool(session.applied, HeadState.applied, pending)
      BY <1>1, <2>1, CurrentFromPool DEF Current
    <3>2. session.applied \in Seq(Tx) /\ HeadState.applied \in Seq(Tx)
      BY HeadGood DEF IInv, TypeOK, State
    <3>3. FromPool(session.applied, HeadState.applied, Append(pending, t))
      BY <1>2, <3>1, <3>2, FromPoolPostpone
    <3> QED BY <1>1, <1>3, <3>3 DEF SessionFromPool, FromPool
  <2>2. CASE ~session_open
    BY <1>1, <2>2 DEF SessionFromPool
  <2> QED BY <2>1, <2>2
<1>7. Building' /\ SetAside'
  BY <1>1 DEF Building, SetAside, PoolInv
<1> QED BY <1>1, <1>3, <1>5, <1>6, <1>7 DEF PoolInv

\* The pool is back.
LEMMA RestoredKeeps ==
  ASSUME IInv, PoolInv, restored
  PROVE  PoolInv'
<1>1. /\ phase = "restoring" /\ phase' = "idle" /\ original' = <<>> /\ chain' = chain
      /\ popped' = popped /\ saved' = saved /\ pending' = pending
      /\ session' = session /\ session_open' = session_open
  BY DEF restored
<1>2. HeadState' = HeadState /\ Current' = Current
  BY <1>1 DEF HeadState, Current
<1>3. Linked(<<>>)
  BY DEF Linked
<1>4. SessionFromPool'
  BY <1>1, <1>2 DEF SessionFromPool, PoolInv
<1>5. Building' /\ SetAside' /\ Owing'
  BY <1>1 DEF Building, SetAside, Owing, PoolInv
<1> QED BY <1>1, <1>2, <1>3, <1>4, <1>5 DEF PoolInv

\* A block is begun.
LEMMA GenerateBlockKeeps ==
  ASSUME IInv, PoolInv, NEW time \in 1..MaxTime, generate_block(time)
  PROVE  PoolInv'
<1>1. /\ phase = "idle" /\ phase' = "generating" /\ chain' = chain /\ original' = original
      /\ popped' = popped /\ saved' = saved /\ pending' = pending /\ owed' = Items(Current.applied)
      /\ session' = HeadState /\ session_open' = TRUE /\ block' = <<>> /\ total' = HeaderSize
  BY DEF generate_block
<1>2. HeadState' = HeadState /\ Current' = HeadState
  BY <1>1 DEF HeadState, Current
<1>3. HeadState \in State /\ Founded(HeadState.applied)
  BY HeadFounded
<1>4. session' = ApplyAll(HeadState, <<>>) /\ BlockApplies(HeadState, <<>>)
  BY <1>1, <1>3, ApplyNone
<1>5. HeaderSize <= HeaderSize
  BY PoolAssumption
<1>6. Building'
  BY <1>1, <1>2, <1>4, <1>5 DEF Building
<1>7. Supported(Items(Current.applied), Items(HeadState.applied), pending)
  BY <1>1, PoolSupports
<1>8. Owing'
  BY <1>1, <1>2, <1>7 DEF Owing
<1>9. SetAside' /\ SessionFromPool'
  BY <1>1 DEF SetAside, SessionFromPool, PoolInv
<1> QED BY <1>1, <1>2, <1>3, <1>6, <1>8, <1>9 DEF PoolInv

\* The next transaction of the pool is put into the block, or left.
LEMMA GenerateNextKeeps ==
  ASSUME IInv, PoolInv, generate_next
  PROVE  PoolInv'
<1> DEFINE t == Head(queue)
<1>1. /\ phase = "generating" /\ phase' = "generating" /\ chain' = chain /\ original' = original
      /\ popped' = popped /\ saved' = saved /\ pending' = pending /\ owed' = owed
      /\ session_open' = session_open /\ queue # <<>>
  BY DEF generate_next, pushVars
<1>2. queue \in Seq(Tx) /\ t \in Tx /\ block \in Seq(Tx)
  <2>1. queue \in Seq(Tx) /\ block \in Seq(Tx)
    BY DEF IInv, TypeOK
  <2> QED BY <1>1, <2>1
<1>3. HeadState' = HeadState /\ HeadState \in State /\ Founded(HeadState.applied)
  BY <1>1, HeadFounded DEF HeadState
<1>4. /\ session_open /\ session = ApplyAll(HeadState, block) /\ BlockApplies(HeadState, block)
      /\ total <= HeaderSize \/ total < MaxBlockSize
  BY <1>1 DEF PoolInv, Building
<1>5. /\ session' = ApplyAll(HeadState, block') /\ BlockApplies(HeadState, block')
      /\ block' \in Seq(Tx)
      /\ total' <= HeaderSize \/ total' < MaxBlockSize
  <2>1. CASE Included(t)
    <3>1. /\ session' = ApplyAll(session, <<t>>)
          /\ block' = Append(block, t) /\ total' = total + Size[t]
      BY <2>1 DEF generate_next
    <3>2. Acceptable(session, t) /\ total + Size[t] < MaxBlockSize
      BY <2>1 DEF Included, Fits
    <3> HIDE DEF t
    <3>3. /\ ApplyAll(ApplyAll(HeadState, block), <<t>>) = ApplyAll(HeadState, Append(block, t))
          /\ BlockApplies(HeadState, Append(block, t))
      BY <1>2, <1>3, <1>4, <3>2, ApplyOneMore
    <3> QED BY <1>2, <1>4, <3>1, <3>2, <3>3
  <2>2. CASE ~Included(t)
    BY <1>2, <1>4, <2>2 DEF generate_next
  <2> QED BY <2>1, <2>2
<1>6. Building'
  BY <1>1, <1>3, <1>4, <1>5 DEF Building
<1>7. Founded(Current.applied)'
  <2>1. Current' = session'
    BY <1>1, <1>4 DEF Current
  <2>2. session'.applied = HeadState.applied \o block'
    BY <1>3, <1>5, ApplyAllType
  <2> QED BY <1>3, <1>5, <2>1, <2>2, FoundedApply
<1>8. SetAside' /\ SessionFromPool' /\ Owing'
  BY <1>1, <1>3 DEF SetAside, SessionFromPool, Owing, PoolInv
<1> QED BY <1>1, <1>6, <1>7, <1>8 DEF PoolInv

\* The generated block is pushed.
LEMMA GeneratedKeeps ==
  ASSUME IInv, PoolInv, generated
  PROVE  PoolInv'
<1>1. /\ phase = "generating" /\ phase' = "restoring" /\ original' = original
      /\ popped' = popped /\ saved' = saved /\ queue' = pending /\ owed' = owed
      /\ session_open' = FALSE
  BY DEF generated, pushVars
<1>2. /\ BlockApplies(HeadState, block) /\ block \in Seq(Tx)
      /\ when \in 0..MaxTime /\ HeadState.time < when
      /\ Supported(owed, Items(HeadState.applied), pending)
  BY <1>1 DEF PoolInv, Building, Owing, IInv, TypeOK
<1>3. chain' = Append(chain, BlockOn(HeadState, block, when))
  BY <1>2 DEF generated
<1>4. /\ Linked(chain)' /\ Founded(HeadState'.applied)
      /\ Items(HeadState.applied) \subseteq Items(HeadState'.applied)
  BY <1>2, <1>3, BlockOnLinked
<1>5. Supported(owed', Items(HeadState'.applied), queue')
  BY <1>1, <1>2, <1>4, SupportedGrows
<1>6. Owing'
  BY <1>1, <1>5, RestoringStarts
<1>7. Current' = HeadState'
  BY <1>1 DEF Current
<1>8. Building' /\ SetAside' /\ SessionFromPool'
  BY <1>1 DEF Building, SetAside, SessionFromPool, PoolInv
<1> QED BY <1>1, <1>4, <1>6, <1>7, <1>8 DEF PoolInv

\* After a restart the chain is all there is.
LEMMA RestartKeeps ==
  ASSUME ForgetPool, chain' \in Seq(Block), Linked(chain')
  PROVE  PoolInv'
<1>1. /\ phase' = "idle" /\ ~session_open' /\ popped' = <<>> /\ saved' = <<>> /\ original' = <<>>
  BY DEF ForgetPool
<1>2. Linked(<<>>)
  BY DEF Linked
<1>3. Current' = HeadState'
  BY <1>1 DEF Current
<1>4. Founded(HeadState'.applied)
  <2>1. CASE chain' = <<>>
    BY <2>1 DEF HeadState, Genesis, Founded
  <2>2. CASE chain' # <<>>
    <3>1. HeadState' = chain'[Len(chain')].state /\ Len(chain') \in DOMAIN chain'
      BY <2>2 DEF HeadState
    <3> QED BY <3>1 DEF Linked
  <2> QED BY <2>1, <2>2
<1>5. Building' /\ SetAside' /\ SessionFromPool' /\ Owing'
  BY <1>1 DEF Building, SetAside, SessionFromPool, Owing
<1> QED BY <1>1, <1>2, <1>3, <1>4, <1>5 DEF PoolInv

\* The node is opened again.
LEMMA OpenKeeps ==
  ASSUME IInv, PoolInv, NEW n \in 0..MaxHeight, open(n)
  PROVE  PoolInv'
<1>1. chain \in Seq(Block) /\ Linked(chain) /\ n \in Nat /\ n <= Len(chain) /\ chain' = SubSeq(chain, 1, n)
  BY PoolAssumption DEF open, PoolInv, IInv, TypeOK
<1>2. n \in 0..Len(chain)
  BY <1>1
<1>3. Linked(chain')
  BY <1>1, <1>2, LinkedFront
<1>4. chain' \in Seq(Block)
  BY <1>1
<1> QED BY <1>3, <1>4, RestartKeeps DEF open

\* The blocks of the log are replayed.
LEMMA ReindexKeeps ==
  ASSUME IInv, PoolInv, NEW n \in 0..MaxHeight, reindex(n)
  PROVE  PoolInv'
<1> DEFINE c == [i \in 1..n |-> [chain[i] EXCEPT !.state.known = {}]]
<1>1. chain \in Seq(Block) /\ Linked(chain) /\ n \in Nat /\ n <= Len(chain) /\ chain' = c
  BY PoolAssumption DEF reindex, PoolInv, IInv, TypeOK
<1>2. \A i \in 1..n : chain[i] \in Block /\ i \in DOMAIN chain
  BY <1>1
<1>3. \A i \in 1..n : c[i] = [chain[i] EXCEPT !.state.known = {}]
  OBVIOUS
<1>4. \A i \in 1..n : /\ c[i] \in Block /\ c[i].txs = chain[i].txs
                      /\ c[i].state.applied = chain[i].state.applied
  BY <1>2 DEF Block, State
<1>5. c \in Seq(Block) /\ DOMAIN c = 1..n
  BY <1>1, <1>4
<1> HIDE DEF c
<1>6. \A m \in 0..n : AppliedAt(c, m) = AppliedAt(chain, m)
  BY <1>1, <1>4 DEF AppliedAt
<1>7. Linked(c)
  <2> SUFFICES ASSUME NEW i \in 1..n
               PROVE  /\ c[i].state.applied = AppliedAt(c, i - 1) \o c[i].txs
                      /\ Founded(c[i].state.applied)
                      /\ \A m \in 0..i : Items(AppliedAt(c, m)) \subseteq Items(c[i].state.applied)
    BY <1>5 DEF Linked
  <2>1. i - 1 \in 0..n /\ \A m \in 0..i : m \in 0..n
    BY <1>1
  <2>2. /\ chain[i].state.applied = AppliedAt(chain, i - 1) \o chain[i].txs
        /\ Founded(chain[i].state.applied)
        /\ \A m \in 0..i : Items(AppliedAt(chain, m)) \subseteq Items(chain[i].state.applied)
    BY <1>1, <1>2 DEF Linked
  <2> QED BY <1>4, <1>6, <2>1, <2>2
<1> QED BY <1>1, <1>5, <1>7, RestartKeeps DEF reindex

\* A step that changes nothing.
LEMMA StutterKeeps ==
  ASSUME IInv, PoolInv, UNCHANGED vars
  PROVE  PoolInv'
<1>1. HeadState' = HeadState /\ Current' = Current
  BY DEF vars, HeadState, Current
<1> QED BY <1>1 DEF vars, pushVars, blockVars, restartVars, PoolInv, Building, SetAside,
     SessionFromPool, Owing

\* Every step preserves the invariant of the pool's contents.
LEMMA NextPool == IInv /\ PoolInv /\ [Next]_vars => PoolInv'
BY PushTransactionKeeps, PushBlockKeeps, PopBlockKeeps, ApplyBlockKeeps, PushedKeeps,
   ApplyThrowsKeeps, UnwindKeeps, RestoreNextKeeps, PostponeNextKeeps, RestoredKeeps,
   GenerateBlockKeeps, GenerateNextKeeps, GeneratedKeeps, OpenKeeps, ReindexKeeps,
   StutterKeeps DEF Next

\* The invariant of the pool's contents holds in every state the pool can reach.
THEOREM PoolInvariant == Spec => []PoolInv
BY Invariant, InitPool, NextPool, PTL DEF Spec

\* For all transactions, whatever they build on and conflict with: the pending
\* session is made from the pool in the pool's order, and a push of blocks,
\* a fork switch, its roll-back or a block of the node's own, cut short by the
\* time limit or not, loses no transaction that could still be applied.
THEOREM NothingLost == Spec => []PoolKept
<1>1. IInv /\ PoolInv => PoolKept
  <2> SUFFICES ASSUME IInv, PoolInv PROVE NoTransactionLost
    BY DEF PoolKept, PoolInv
  <2> SUFFICES ASSUME phase = "restoring", queue = <<>>, NEW t \in owed,
                      t \notin Items(Current.applied) \cup Items(pending)
               PROVE  ~Acceptable(Current, t)
    BY DEF NoTransactionLost
  <2>1. Items(queue) = {}
    BY DEF Items
  <2>2. PICK D \in SUBSET Tx :
          /\ Dead(Current, D)
          /\ IF applying THEN Supported(owed, Items(Current.applied) \cup D, queue)
             ELSE owed \subseteq Items(Current.applied) \cup D \cup Items(pending) \cup Items(queue)
    BY DEF PoolInv, Owing
  <2>3. t \in D
    <3>1. CASE applying
      <4>1. owed \subseteq (Items(Current.applied) \cup D) \cup Items(queue)
        BY <2>2, <3>1, SupportedCovers
      <4> QED BY <2>1, <4>1
    <3>2. CASE ~applying
      BY <2>1, <2>2, <3>2
    <3> QED BY <3>1, <3>2
  <2> QED BY <2>2, <2>3, CurrentGood, DeadRefused
<1> QED BY <1>1, Invariant, PoolInvariant, PTL

\* A block under construction always applies on the head block and respects the
\* size limit, whatever the pool holds: the node accepts the block it makes.
THEOREM GeneratedBlockAccepted == Spec => []GeneratedBlockApplies
<1>1. PoolInv => GeneratedBlockApplies
  BY DEF PoolInv, Building, GeneratedBlockApplies
<1> QED BY <1>1, PoolInvariant, PTL
=============================================================================
