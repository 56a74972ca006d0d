--------------------------- MODULE TransactionPool ---------------------------
(***************************************************************************)
(* The pending transactions of blurt::chain::database: push_transaction,   *)
(* what push_block does to the pool around a block or a fork switch        *)
(* (pending_transactions_restorer), and block production from the pool.    *)
(*                                                                         *)
(* A state of the chain is the transactions applied so far, the            *)
(* transaction_index that detects duplicates, and the head block time.     *)
(* Everything runs under the write lock; the loops take one step per       *)
(* round because the clock may cut the restorer short after any of them.   *)
(* Which blocks a push pops and applies is left open here (ChainDatabase   *)
(* has the choice); signatures, TaPoS and fees are part of what Needs and  *)
(* Conflicts decide.                                                       *)
(***************************************************************************)
EXTENDS Integers, Sequences, FiniteSets

CONSTANTS
  Tx,              \* signed transactions
  Expiration,      \* trx.expiration
  Size,            \* pack_size(trx)
  Needs,           \* transactions a transaction builds on
  Conflicts,       \* transactions a transaction cannot follow
  MaxUntil,        \* BLURT_MAX_TIME_UNTIL_EXPIRATION
  MaxBlockSize,    \* maximum_block_size
  HeaderSize,      \* size of a block without transactions, plus 4
  Reserve,         \* the 256 bytes push_transaction keeps free
  PostponedLimit,  \* BLURT_BLOCK_GENERATION_POSTPONED_TX_LIMIT
  MaxTime,         \* bound: block times
  MaxRestarts,     \* bound: restarts
  MaxHeight,       \* bound: blocks
  MaxBlockTxs,     \* bound: transactions in a block from the network
  MaxPending       \* bound: transactions in the pool, but for popped ones

ASSUME PoolAssumption ==
  /\ Expiration \in [Tx -> Nat] /\ Size \in [Tx -> Nat]
  /\ Needs \in [Tx -> SUBSET Tx] /\ Conflicts \in [Tx -> SUBSET Tx]
  /\ {MaxUntil, MaxBlockSize, HeaderSize, Reserve, PostponedLimit, MaxTime,
      MaxRestarts, MaxHeight, MaxBlockTxs, MaxPending} \subseteq Nat

VARIABLES
  chain,         \* the blocks, each with the state it ends in
  session_open,  \* _pending_tx_session.valid()
  session,       \* the state in the pending session
  pending,       \* _pending_tx
  popped,        \* _popped_tx
  phase,         \* where push_block or generate_block is
  original,      \* the blocks when the push began
  base,          \* number of blocks the push has left in place
  saved,         \* _pending_transactions of the restorer
  queue,         \* transactions the loop under way still has to look at
  applying,      \* apply_trxs: the restorer's time limit is not exceeded
  block,         \* transactions of the block being generated
  when,          \* its timestamp
  total,         \* its size
  postponed,     \* postponed_tx_count
  committed,     \* number of blocks that cannot be undone
  restarts,      \* restarts so far
  replayed,      \* history: has the state been rebuilt from the block log?
  owed           \* history: what was applied when the push began

pushVars == <<original, base, saved, owed>>
blockVars == <<block, when, total, postponed>>
restartVars == <<committed, restarts, replayed>>
vars == <<chain, session_open, session, pending, popped, phase, queue, applying,
          pushVars, blockVars, restartVars>>

State == [time : 0..MaxTime, applied : Seq(Tx), known : SUBSET Tx]

Block == [txs : Seq(Tx), state : State]

Items(s) == {s[i] : i \in DOMAIN s}

Genesis == [time |-> 0, applied |-> <<>>, known |-> {}]

HeadState == IF chain = <<>> THEN Genesis ELSE chain[Len(chain)].state

Current == IF session_open THEN session ELSE HeadState

-----------------------------------------------------------------------------
(* Transactions and blocks.                                                *)

\* Before the first block there is nothing to expire by.
InTime(s, t) ==
  s.time > 0 => s.time < Expiration[t] /\ Expiration[t] <= s.time + MaxUntil

\* Mutant of Acceptable: the duplicate check is left to the expiration.
Acceptable_without_dupe_check(s, t) ==
  /\ InTime(s, t)
  /\ Needs[t] \subseteq Items(s.applied)
  /\ Conflicts[t] \cap Items(s.applied) = {}

\* _apply_transaction does not throw.
Acceptable(s, t) ==
  /\ t \notin s.known
  /\ InTime(s, t)
  /\ Needs[t] \subseteq Items(s.applied)
  /\ Conflicts[t] \cap Items(s.applied) = {}

ApplyAll(s, txs) ==
  [s EXCEPT !.applied = @ \o txs, !.known = @ \cup Items(txs)]

\* Every transaction of a block applies after the ones before it.
BlockApplies(s, txs) ==
  \A i \in DOMAIN txs : Acceptable(ApplyAll(s, SubSeq(txs, 1, i - 1)), txs[i])

\* Mutant of clear_expired_transactions: an entry goes one second too early.
clear_expired_transactions_early(s) ==
  [s EXCEPT !.known = {t \in s.known : s.time + 1 < Expiration[t]}]

clear_expired_transactions(s) ==
  [s EXCEPT !.known = {t \in s.known : s.time <= Expiration[t]}]

\* The block with these transactions on top of state s.
BlockOn(s, txs, time) ==
  [txs |-> txs,
   state |-> clear_expired_transactions([ApplyAll(s, txs) EXCEPT !.time = time])]

\* Mutant of _push_transaction: the transaction is applied and not kept.
_push_transaction_forgets(t) ==
  /\ session_open' = TRUE
  /\ session' = IF Acceptable(Current, t) THEN ApplyAll(Current, <<t>>) ELSE Current
  /\ UNCHANGED pending

\* _push_transaction: the pending session is opened, and stays open when the
\* transaction is refused.
_push_transaction(t) ==
  /\ session_open' = TRUE
  /\ IF Acceptable(Current, t)
     THEN session' = ApplyAll(Current, <<t>>) /\ pending' = Append(pending, t)
     ELSE session' = Current /\ UNCHANGED pending

push_transaction(t) ==
  /\ phase = "idle"
  /\ Len(pending) < MaxPending
  /\ Size[t] <= MaxBlockSize - Reserve
  /\ _push_transaction(t)
  /\ UNCHANGED <<chain, popped, phase, queue, applying, pushVars, blockVars,
                 restartVars>>

-----------------------------------------------------------------------------
(* push_block: pop any number of blocks, apply others, or fail.            *)

\* without_pending_transactions: the pool is set aside, its session undone.
push_block ==
  /\ phase = "idle"
  /\ phase' = "popping"
  /\ saved' = pending /\ pending' = <<>> /\ session_open' = FALSE
  /\ session' = Genesis
  /\ original' = chain /\ base' = Len(chain)
  /\ owed' = Items(Current.applied)
  /\ UNCHANGED <<chain, popped, queue, applying, blockVars, restartVars>>

\* The last block goes, if it can be undone; its transactions go in front of
\* those popped before.
Pop ==
  /\ Len(chain) > committed
  /\ chain' = SubSeq(chain, 1, Len(chain) - 1)
  /\ popped' = chain[Len(chain)].txs \o popped

pop_block ==
  /\ phase = "popping"
  /\ Len(saved) < MaxPending
  /\ Pop
  /\ base' = base - 1
  /\ UNCHANGED <<session_open, session, pending, phase, original, saved, queue,
                 applying, owed, blockVars, restartVars>>

apply_block(txs, time) ==
  /\ phase \in {"popping", "applying"}
  /\ Len(chain) <= Len(original) /\ Len(chain) < MaxHeight
  /\ time > HeadState.time
  /\ BlockApplies(HeadState, txs)
  /\ chain' = Append(chain, BlockOn(HeadState, txs, time))
  /\ phase' = "applying"
  /\ UNCHANGED <<session_open, session, pending, popped, queue, applying,
                 pushVars, blockVars, restartVars>>

\* Mutant of StartRestoring: popped transactions are forgotten.
StartRestoring_drops_popped ==
  /\ phase' = "restoring"
  /\ queue' = saved
  /\ popped' = <<>> /\ saved' = <<>>

\* The restorer's destructor: popped transactions first, then the pool's.
StartRestoring ==
  /\ phase' = "restoring"
  /\ queue' = popped \o saved
  /\ popped' = <<>> /\ saved' = <<>>

\* The push succeeds once the new branch is higher than the old one.
pushed ==
  /\ phase = "applying"
  /\ Len(chain) > Len(original)
  /\ StartRestoring
  /\ UNCHANGED <<chain, session_open, session, pending, original, base,
                 applying,
                 owed, blockVars, restartVars>>

\* A block of the new branch throws.
apply_throws ==
  /\ phase \in {"popping", "applying"}
  /\ Len(chain) <= Len(original)
  /\ phase' = "unwinding"
  /\ UNCHANGED <<chain, session_open, session, pending, popped, queue, applying,
                 pushVars, blockVars, restartVars>>

\* The blocks of the bad branch are popped, the old ones applied again.
unwind ==
  /\ phase = "unwinding"
  /\ \/ Len(chain) > base /\ Pop /\ UNCHANGED <<phase, queue, saved>>
     \/ Len(chain) = base /\ chain' = original /\ StartRestoring
  /\ UNCHANGED <<session_open, session, pending, original, base, applying, owed,
                 blockVars, restartVars>>

\* A round of the restorer within the time limit, and one past it.
restore_next ==
  /\ phase = "restoring"
  /\ queue # <<>>
  /\ applying
  /\ IF Head(queue) \in Current.known
     THEN UNCHANGED <<session_open, session, pending>>
     ELSE _push_transaction(Head(queue))
  /\ queue' = Tail(queue)
  /\ UNCHANGED <<chain, popped, phase, applying, pushVars, blockVars,
                 restartVars>>

postpone_next ==
  /\ phase = "restoring"
  /\ queue # <<>>
  /\ applying' = FALSE
  /\ pending' = Append(pending, Head(queue))
  /\ queue' = Tail(queue)
  /\ UNCHANGED <<chain, session_open, session, popped, phase, pushVars,
                 blockVars, restartVars>>

restored ==
  /\ phase = "restoring"
  /\ queue = <<>>
  /\ phase' = "idle" /\ applying' = TRUE
  /\ original' = <<>> /\ base' = 0 /\ owed' = {}
  /\ UNCHANGED <<chain, session_open, session, pending, popped, saved, queue,
                 blockVars, restartVars>>

-----------------------------------------------------------------------------
(* Block production.                                                       *)

\* _generate_block up to the loop of apply_pending_transactions.
generate_block(time) ==
  /\ phase = "idle"
  /\ Len(chain) < MaxHeight
  /\ time > HeadState.time
  /\ phase' = "generating"
  /\ session_open' = TRUE /\ session' = HeadState
  /\ queue' = pending
  /\ block' = <<>> /\ when' = time /\ total' = HeaderSize /\ postponed' = 0
  /\ owed' = Items(Current.applied)
  /\ UNCHANGED <<chain, pending, popped, applying, original, base, saved,
                 restartVars>>

Fits(t) == total + Size[t] < MaxBlockSize

\* Mutant of Included: the block takes transactions in the state the pool
\* left behind.
Included_unchecked(t) == when <= Expiration[t] /\ Fits(t)

Included(t) ==
  /\ when <= Expiration[t]
  /\ Fits(t)
  /\ Acceptable(session, t)

\* A round of the loop.  Expired and invalid transactions are passed over.
generate_next ==
  /\ phase = "generating"
  /\ queue # <<>>
  /\ postponed <= PostponedLimit
  /\ queue' = Tail(queue)
  /\ LET t == Head(queue)
     IN /\ postponed' = IF when <= Expiration[t] /\ ~Fits(t)
                        THEN postponed + 1 ELSE postponed
        /\ IF Included(t)
           THEN /\ session' = ApplyAll(session, <<t>>)
                /\ block' = Append(block, t)
                /\ total' = total + Size[t]
           ELSE UNCHANGED <<session, block, total>>
  /\ UNCHANGED <<chain, session_open, pending, popped, phase, applying, when,
                 pushVars, restartVars>>

\* The block is pushed like any other; the whole pool goes through the
\* restorer, where the transactions in the block are known.
generated ==
  /\ phase = "generating"
  /\ queue = <<>> \/ postponed > PostponedLimit
  /\ chain' = IF BlockApplies(HeadState, block)
              THEN Append(chain, BlockOn(HeadState, block, when))
              ELSE chain
  /\ session_open' = FALSE /\ session' = Genesis
  /\ pending' = <<>> /\ queue' = pending
  /\ phase' = "restoring"
  /\ block' = <<>> /\ when' = 0 /\ total' = 0 /\ postponed' = 0
  /\ UNCHANGED <<popped, applying, pushVars, restartVars>>

-----------------------------------------------------------------------------
(* Restarts.  The pool is in memory only.                                  *)

\* What a restarted process has not got: a pool, a session, a push under way.
ForgetPool ==
  /\ restarts < MaxRestarts
  /\ restarts' = restarts + 1
  /\ session_open' = FALSE /\ session' = Genesis
  /\ pending' = <<>> /\ popped' = <<>> /\ saved' = <<>> /\ queue' = <<>>
  /\ phase' = "idle" /\ applying' = TRUE
  /\ original' = <<>> /\ base' = 0 /\ owed' = {}
  /\ block' = <<>> /\ when' = 0 /\ total' = 0 /\ postponed' = 0

\* database::open undoes the blocks that are not irreversible.
open(n) ==
  /\ committed <= n /\ n <= Len(chain)
  /\ chain' = SubSeq(chain, 1, n)
  /\ committed' = n
  /\ ForgetPool
  /\ UNCHANGED replayed

\* database::reindex applies the blocks of the log again, without the check
\* for duplicates and without noting their transactions in transaction_index.
reindex(n) ==
  /\ 0 < n /\ committed <= n /\ n <= Len(chain)
  /\ chain' = [i \in 1..n |-> [chain[i] EXCEPT !.state.known = {}]]
  /\ committed' = n
  /\ replayed' = TRUE
  /\ ForgetPool

Init ==
  /\ chain = <<>>
  /\ session_open = FALSE /\ session = Genesis
  /\ pending = <<>> /\ popped = <<>> /\ saved = <<>> /\ queue = <<>>
  /\ phase = "idle" /\ original = <<>> /\ base = 0 /\ owed = {}
  /\ applying = TRUE
  /\ block = <<>> /\ when = 0 /\ total = 0 /\ postponed = 0
  /\ committed = 0 /\ restarts = 0 /\ replayed = FALSE

\* The transactions of a block from the network.
BlockTxs == UNION {[1..n -> Tx] : n \in 0..MaxBlockTxs}

Next ==
  \/ \E t \in Tx : push_transaction(t)
  \/ push_block
  \/ pop_block
  \/ \E txs \in BlockTxs, time \in 1..MaxTime : apply_block(txs, time)
  \/ pushed
  \/ apply_throws
  \/ unwind
  \/ restore_next
  \/ postpone_next
  \/ restored
  \/ \E time \in 1..MaxTime : generate_block(time)
  \/ generate_next
  \/ generated
  \/ \E n \in 0..MaxHeight : open(n) \/ reindex(n)

Spec == Init /\ [][Next]_vars

-----------------------------------------------------------------------------
\* Type correctness of the pool.
TypeOK ==
  /\ chain \in Seq(Block) /\ original \in Seq(Block)
  /\ session \in State
  /\ {pending, popped, saved, queue, block} \subseteq Seq(Tx)
  /\ phase \in {"idle", "popping", "applying", "unwinding", "restoring", "generating"}
  /\ session_open \in BOOLEAN /\ applying \in BOOLEAN
  /\ base \in 0..MaxHeight /\ when \in 0..MaxTime
  /\ total \in Nat /\ postponed \in Nat
  /\ committed \in Nat /\ restarts \in 0..MaxRestarts
  /\ replayed \in BOOLEAN
  /\ owed \subseteq Tx

\* No transaction is applied twice, neither on the chain nor between chain
\* and pool.  ("The purpose of this object is to enable the detection of
\* duplicate transactions.")
AppliedOnce ==
  \A i, j \in DOMAIN Current.applied :
    Current.applied[i] = Current.applied[j] => i = j

\* As long as the state was not rebuilt from the block log no transaction is
\* applied twice, whatever was popped, postponed or pushed again, and although
\* transaction_index forgets a transaction once it has expired.
AppliedOnceUnlessReplayed == ~replayed => AppliedOnce

\* What keeps a transaction from being applied again to state s, although
\* transaction_index forgets: it was applied once so far, and either the index
\* still knows it or it has expired.  A replay (r) voids this.
Unrepeatable(r, s) ==
  ~r =>
    /\ \A i, j \in DOMAIN s.applied : s.applied[i] = s.applied[j] => i = j
    /\ \A i \in DOMAIN s.applied :
         s.applied[i] \in s.known \/ Expiration[s.applied[i]] < s.time

UnrepeatableChain(r, c) ==
  /\ Len(c) <= MaxHeight
  /\ \A n \in DOMAIN c : Unrepeatable(r, c[n].state)

\* The inductive invariant the proofs rest on.
IInv ==
  /\ TypeOK
  /\ UnrepeatableChain(replayed, chain) /\ UnrepeatableChain(replayed, original)
  /\ Unrepeatable(replayed, session)
  /\ phase = "popping" => base = Len(chain)
  /\ phase = "generating" => HeadState.time < when /\ Len(chain) < MaxHeight

IsSubsequence(s, t) ==
  \E f \in [DOMAIN s -> DOMAIN t] :
    /\ \A i \in DOMAIN s : s[i] = t[f[i]]
    /\ \A i, j \in DOMAIN s : i < j => f[i] < f[j]

\* What the pending session holds beyond the head block is in the pool, in
\* the pool's order: setting the pool aside loses nothing that was applied.
SessionFromPool ==
  session_open /\ phase # "generating" =>
    \E n \in 0..Len(pending) :
      /\ Len(session.applied) = Len(HeadState.applied) + n
      /\ SubSeq(session.applied, 1, Len(HeadState.applied)) = HeadState.applied
      /\ IsSubsequence(
           SubSeq(session.applied, Len(HeadState.applied) + 1, Len(session.applied)),
           pending)

\* When a push ends, every transaction that was applied before it, in a block
\* or in the pending session, is in a block or in the pool again, unless it
\* can no longer be applied: fork switches, roll-backs and the time limit
\* lose none.
NoTransactionLost ==
  phase = "restoring" /\ queue = <<>> =>
    \A t \in owed : \/ t \in Items(Current.applied) \cup Items(pending)
                    \/ ~Acceptable(Current, t)

\* The pool keeps what it stands for: the pending session was made from it,
\* and pushes of blocks lose none of its transactions.
PoolKept == SessionFromPool /\ NoTransactionLost

\* A block under construction could be pushed as it is: no transaction gets
\* into it that would make the witness's own node refuse the block.
GeneratedBlockApplies ==
  phase = "generating" =>
    /\ BlockApplies(HeadState, block)
    /\ total <= HeaderSize \/ total < MaxBlockSize
=============================================================================
