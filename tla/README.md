# A TLA+ development of Blurt: node, clients and web services

Blurt (`src/`) is a delegated-proof-of-stake social blockchain descended from
Steem.  This directory holds TLA+ modules that model the core of its node, of
its two JavaScript client libraries, of its web wallet and web interface and of
its image service, the TLC configurations that check them on small instances,
and TLAPS proofs of the safety properties the runs check.  `PROJECT.json` lists
the components, runs, mutants, findings, hazards and theorems, and maps every
definition to the lines it models.

To check a run: `tlc -config <run>.cfg <module>`; to check proofs:
`tlapm <module>.tla` for each module whose name ends in `Proofs`.

## 1. The system

| Component | State | Operations | Talks to |
|---|---|---|---|
| chainbase `generic_index` (`libraries/chainbase`) | objects by id, `_next_id`, a stack of `undo_state`s, `_revision` | `emplace`, `modify`, `remove`, `start_undo_session`, `undo`, `squash`, `commit`, `set_revision`, `undo_all` | every object of the chain state lives in one of these |
| chainbase `database` locks | ring of ten read-write mutexes, `_current_lock` | `with_read_lock`, `with_write_lock`, `next_lock` | API threads (readers), the writer thread |
| `fork_database` | tree of received blocks with weak back pointers, `_head`, `_max_size` | `push_block`, `pop_block`, `set_head`, `remove`, `set_max_size`, `fetch_branch_from`, `fetch_block_on_main_branch_by_number` | called by `database` only |
| `database`: blocks | head block, undo sessions, last irreversible block | `push_block` (extend or switch forks), `pop_block`, `apply_block`, `migrate_irreversible_state`, `open`, `reindex` | fork database, block log, chainbase |
| block log | append-only file of irreversible blocks | `append`, `read_block` | survives a crash, feeds `reindex` |
| `database`: pending transactions | `_pending_tx`, `_popped_tx`, `_pending_tx_session`, `transaction_index` | `push_transaction`, `pending_transactions_restorer`, `clear_expired_transactions` | emptied and refilled by every push |
| block producer (`plugins/witness`) | none of its own | `generate_block`, `apply_pending_transactions` | reads the pool, pushes the block |
| witness plugin | timer, keys, production flags | production loop | queues `generate_block` requests |
| witness schedule | votes, keys, virtual positions and times, the round | `update_witness_schedule`, `adjust_witness_vote`, `witness_update` | run by `apply_block` at the end of a round |
| slots and irreversibility | `current_aslot`, `recent_slots_filled`, `participation_count`, confirmations | `get_slot_time`, `get_slot_at_time`, `update_global_dynamic_data`, `update_signing_witness`, `update_last_irreversible_block` | run by `apply_block` for every block |
| chain plugin | queue of pointers to write contexts, the writer thread, sync or live mode | `accept_block`, `accept_transaction`, `generate_block`, `start_write_processing`, `stop_write_processing` | p2p and API threads wait on promises; takes the write lock |
| balances, vesting, rewards (`database.cpp`, `steem_evaluator.cpp`) | account balances, vesting fund, reward fund, escrows, savings, supply | transfers, vesting, savings, escrow, claims, `process_funds`, cashouts, withdrawals, burning | run by `apply_block` and the transactions in it |
| dblurt client (`client-libs/dblurt`) | the address in use | `call` with `retryingFetch` and `failover`, `sendOperations`, `getBlockNumbers`, `getBlocks` | API endpoints; several calls at a time share the address |
| blurtjs client (`client-libs/blurtjs`) | transport, endpoint index, error count; per socket a map of pending requests | `send`, `start`, `stop`, `setOptions`, `call`, `signedCall`, `notifyError`, `streamBlockNumber`, `streamBlock` | API endpoints over web socket or http |
| web wallet (`ui/wallet`) | current user and private keys, saved login, two dialogs with an operation each | login, logout, navigation, `broadcastOperation`, `findSigningKey` | node and wallet server, at every `yield`; localStorage |
| web interface (`ui/condenser`) | lists of posts, their fetching status, follow lists | `loadMore`, `fetchData`, `fetchState`, `loadFollows`, `accepted_custom_json` | node, at every `yield`; `takeLatest` cancels |
| image service (`storage/imagehoster`) | upload store and proxy store | `proxyHandler`, `uploadHandler` | upstream servers, S3; handlers interleave |
| proposals, hardforks, resource credits, plugins, APIs, p2p, mira, mobile app, API proxy | | | see PROJECT.json |

How they interact.  All writes go through one queue and one writer thread,
which holds the write lock while it pushes blocks and transactions; API
threads read under read locks.  A pushed block first enters the fork database,
which answers with the highest block it knows.  If that one builds on the
head, the block is applied; otherwise, if it is higher, the node pops blocks
(undo sessions and the fork database's head together) to the common ancestor
and applies the other branch, and on a failure goes back.  Around every push
the pool is set aside and put back by a destructor.  Each applied block moves
the last irreversible block; what became irreversible goes to the block log
and its undo sessions are dropped.

The clients see the node through calls that may fail, hang, or have their
answer lost, at endpoints that are not at the same block.  Both libraries
repeat calls and change endpoints.  The web applications are sets of
redux-saga tasks over one store: a task runs until it waits, others run then,
and some are cancelled by the action that starts their successor.

What is hard here:

- *partial failure*: a fork switch that fails in the middle; a destructor in
  which every transaction may throw; a crash between two writes;
- *stale state*: weak pointers into a tree that is trimmed; transactions that
  were valid in another state; a duplicate index that forgets;
- *order*: blocks of several branches in any order, delivered again, long
  sequences of nested undo sessions;
- *concurrency*: a lock that times out and is replaced by a fresh one; write
  contexts on the stack of a thread that is waiting;
- *numbers*: virtual time that is meant to wrap around, slot arithmetic with
  unaligned times, a shift register shorter than a gap; conversions between
  BLURT and shares that round at every step;
- *retries*: a broadcast repeated after its answer was lost, at an endpoint
  that may or may not have seen it; an endpoint changed by one call under
  another;
- *tasks that wait*: a session, a list or a key that was read before a `yield`
  or an `await` and is used after it; a task cancelled with its flag still set.

The list with lines is under `hazards` in PROJECT.json, each with the
properties that would catch it.

## 2. The modules

```
SnapshotStack   <- refined by -  UndoHistory = UndoIndex + history;  MCUndo; UndoProofs
ForkDatabase    <- EXTENDS - ChainDatabase;                          MCChain; ChainProofs
TransactionPool                                                      MCPool; PoolProofs
BlockSlots                                                           SlotsProofs
WriteQueue, WitnessSchedule                                          NodeProofs
Ledger                                                               MCLedger; LedgerProofs
RpcClient                                                            MCRpc; ClientProofs
WsTransport, ApiFailover, WalletSession  <- EXTENDS -                MCWallet; ClientProofs, WebProofs
PostLists, FollowLoader, ImageProxy  <- EXTENDS -                    MCContent; WebProofs
```

The modules share no variables; each takes what its neighbours decide as an
open choice or a constant, and says so in its head comment.  ChainDatabase
takes "undo restores the state before the block" from UndoIndex (proved as a
refinement there), and `Lib`, the irreversible number each block leads to,
from what BlockSlots computes; TransactionPool takes any sequence of pops and
applications that ChainDatabase can produce; BlockSlots takes any round
WitnessSchedule may choose; WriteQueue takes the writes as one step; Ledger is
what applying blocks and transactions does to tokens.  The client modules take
the node as external: RpcClient's endpoints accept a transaction once and never
after its expiration, which is what TransactionPool shows of the node, and know
the chain up to an irreversible block of their own.

### UndoIndex, UndoHistory, SnapshotStack (`chainbase.hpp`)

`indices` is the multi-index container (id to value), `stack` the deque of
`undo_state`s with their `old_values`, `removed_values`, `new_ids`,
`old_next_id`.  One action per public member function; `undo_all` is a loop of
`undo` during which nothing else runs.  `on_create`, `on_modify`, `on_remove`
record differences as the code does, `Merge` is squash's case matrix.
UndoHistory adds the history variable `snapshots`: the full contents at the
start of every open session.  SnapshotStack is the abstract specification, a
stack of such copies; `ImplementsSnapshots` states the refinement.

*Run `undo_index`*: two values, ids up to 2, three nested sessions, revisions
to 4.  Merging looks at one object across two consecutive sessions, and the
case matrix is exhausted by an object that is created, changed and removed in
turn, which two ids and three levels include, as well as an id that is handed
out again after an undo.  52,461 states.

### ForkDatabase, ChainDatabase (`fork_database.cpp`, `database.cpp`)

A block is the sequence of labels of its history (its id commits to it), so
`previous` and `block_num` are functions of the block.  The weak `prev`
pointers are kept as the set `orphans` of items whose pointer no longer locks,
with the items a fork switch holds alive (`Held`).  The loops of `_push_block`
take a step per round (`pop_block`, `apply_next`, `restore_next`), so that a
crash can come between any two; the appends of `migrate_irreversible_state`
(`append`, one block each) and the trimming and commit after them (`commit`)
are steps of their own for the same reason.  `crash` is a kill followed by
`database::open`, which undoes the sessions that were not committed; `reindex`
rebuilds the state from the log.

*Run `chain_database`*: the tree of MCChain: the chain `aaaa`, the rival
branch `abbb` that leaves below an irreversible block, `aaccc` with invalid
blocks on top of two of its blocks, two crashes or replays, every order of
arrival.  This includes extension, storage of a shorter branch, a switch that
succeeds, one that fails at the first and at a later block, one that wants to
go below the irreversible block, and trimming while branches are held.
27,302 states.  `AgreementAssumption` (no two valid blocks make different
blocks irreversible) is what consensus provides; it is assumed, not shown.
`SoleWitnessAssumption` says that a block which makes itself irreversible (one
witness alone makes blocks, as at the start of the chain) has no rival of the
same height and parent.
Fairness: weak fairness of `Round`, the thread that holds the write lock goes
on running.  Deadlock is not checked: with the blocks used up the model stops.

### TransactionPool (`database.cpp`, `db_with.hpp`, `block_producer.cpp`)

A chain state is the sequence of transactions applied, the content of
`transaction_index` and the head time.  `push_block` sets the pool aside;
`pop_block`, `apply_block`, `apply_throws`, `unwind` are what a push may do to
the chain; `restore_next` and `postpone_next` are the rounds of the restorer's
destructor within and past its time limit.  `generate_block`, `generate_next`,
`generated` are `_generate_block`.  `open` and `reindex` restart the node.
A transaction may need another one or conflict with it, which is all the
properties tell apart of what evaluators do.

*Run `transaction_pool`*: three transactions (one needs another, two
conflict), blocks of at most two, four times, three blocks, one restart; small
enough block and pool sizes that transactions are postponed, do not fit,
expire, and are popped and applied again.  2,373,095 states.

### WitnessSchedule (`witness_schedule.cpp`, `database.cpp` 1230-1262)

Virtual time is an unsigned integer with the largest value `MaxTime` and wraps
as in the code.
`update_witness_schedule` is one action: elected witnesses, then the timeshare
witness whose virtual race comes first, the new virtual time, and the reset of
the lap on overflow.

*Run `witness_schedule`*: four witnesses, rounds of two with one elected,
times up to 15 (4 bits), votes up to 2, three vote changes.  The lap wraps many times in
every behaviour; changing the width scales times and not the order of events.
5,923 states.  Fairness: weak fairness of `update_witness_schedule`: blocks
keep coming.

### BlockSlots (`database.cpp`)

One action, `apply_block(witness, timestamp)`: header check, then missed
slots, participation, the signing witness, the irreversible block, and the
next round.  Times are seconds and may lie anywhere in their slot.

*Run `block_slots`*: three witnesses, interval 2, a shift register of three
bits, seven blocks in 22 seconds: gaps longer than the register, unaligned
times, rounds of one to three witnesses.  39,994 states.

### WriteQueue (`chain_plugin.cpp`, `chainbase.hpp` 1160-1225)

Callers, the writer thread and readers are processes; contexts are named by
the callers whose stack they are on.  A lock counts its readers and has a gate
the waiting writer closes (boost's mutex, external).  `next_lock` overwrites
the next lock of the ring with a new one; a reader that still holds the old
one later decrements the new one's count, which wraps (the outcome the build
produces for this undefined use).  The variable `timed` is the build: with it
write locks time out, without it (MIRA) the writer waits.

*Run `write_queue`*: two callers, two readers, three locks, both builds.  The
ring is walked around several times, so locks are made anew under readers.
141,908 states.  Fairness: the writer thread keeps running (weak fairness of
`Writing`), and strong fairness of closing an empty lock's gate and of being
granted a lock without readers: readers cannot for ever come first.  Readers
may stay for ever where write locks time out; without timeouts they have to
finish (weak fairness of `unlock_read`).  Deadlock is not checked because the
writer thread may be stopped.

### Ledger (`database.cpp`, `steem_evaluator.cpp`, `global_property_object.hpp`)

`ledger` is one record: six balances per account (liquid, savings, three kinds
of rewards to be claimed, shares) and the global counters.  The helpers of
`database.cpp` (`adjust_balance`, `create_vesting2`, ...) are operators from
ledger to ledger, so that an action composes them in the order the code calls
them and each sees the price the one before has left.  Actions are the
evaluators that move tokens (transfer, vesting, savings, escrow, claims,
routes, fees) and the block's own work: `clear_null_account_balance`,
`process_funds`, `cashout_comment_helper`, `process_vesting_withdrawals`,
`process_savings_withdraws`, `expire_escrow_ratification`,
`transfer_payments`.  Failed assertions are guards: a transaction that throws
changes nothing.  Left open are dates, the size of a withdrawal, what a comment
has earned and which account made the block.  Two parts of the state are history:
`uncredited` (see `lost_payout` below) and the ledger's `unbacked`, the BLURT of
rewards that were worth no shares.  Such a reward is filed as BLURT by
`modify_reward_balance` while `create_vesting2` still counts it as pending.
That takes a price of one share per BLURT or less, which the real chain is far
from; the theorems hold of it, the run never sees it.

*Run `ledger`*: three users, one with nothing at first, the null account and
the treasury; four shares to a BLURT at genesis, so that every conversion
rounds; one escrow, one savings request per account, two routes; three
operations or payouts (`MaxOps`) and, uncounted, whatever follows from them:
approvals, disputes, releases, refunds, completions, proposal payments,
burning.  Three are enough for a deposit or a payout, a change of the price
and a withdrawal or claim to meet.  The first bound to be raised is `MaxOps`;
prices stay above one share per BLURT, as on the real chain.  441,072 states.

### RpcClient (`dblurt/src/utils.ts`, `client.ts`, `helpers/`)

Two users of one client: a sender (`sendOperations`) and a block stream
(`getBlocks` over `getBlockNumbers`).  Each has at most one call under way; a
call is the loop of `retryingFetch` with its address, its round and whether it
is past its timeout.  Every failure takes the branch of the catch block that
its kind of error and the time select (`SameAddress`, `NextAddress`,
`NextRound`, `Throw`), and the endpoint may have acted before the connection
broke.  `Answered` moves the client's address, whatever the other user has made
of it meanwhile.  External are the endpoints and the chain.

*Run `rpc_client`*: two endpoints, the first of which always answers, all kinds
of errors, one `sendOperations`, streams from block 1 on and of block 2 only,
three irreversible blocks; the client starts at either address.  Two endpoints
are enough for a call to fail over and come back, and for one user to move the
address under the other.  218,614 states.  Fairness: a call goes on (weak
fairness of `CallGoesOn`: fetch ends, timers fire), a call that is repeated
over and over is answered or at last late (strong fairness, the code reads the
clock at each failure), transactions expire, and the chain grows.  Deadlock is
not checked: the model ends with the stream at the last block.

### WsTransport, ApiFailover (`blurtjs/src/api/`)

WsTransport: `startPromise`, `ws` and `_requests` as in the class; sockets are
numbered, each with the messages the node will still answer.  `Proceed` is the
continuation of `send` after the start promise; it may find another socket or
none.  `onError` and `onClose` do what the code does: iterating over the
entries of the map they throw when a request is pending.  The block stream
(`update`, `Update`, `BlockArrives`) uses the transport and is the source of
its requests.  ApiFailover: requests over http with the transport they were
given to, its `retry` and `nonRetriableOperations` options and, for those made
with `send`, the method they call; `notifyError`, which counts no errors of
`overseer` methods; and `setOptions`, which makes a new transport and keeps a
threshold it was once given.

### WalletSession (`ui/wallet/src/app/redux`)

`current`, `autopost` (localStorage: a name, the posting key and the memo key),
the login task, the two dialogs, and for every operation where it is, the
account it was dispatched for, whether a dialog has shown it (`asked`), what was
typed for it, and which keys it has read from the session.  A saga is cut into
actions where it yields to the network: a login at the account and at the
server, an operation at the account and at the broadcast.  `broadcastOperation`
asks for confirmation, warns of a private key in the text (`hasPrivateKeys`) or
looks for the key that signs; a click on the dialog, or a password typed into
the login form, runs it again.  SET_USER merges keys into those that are there,
and a new login cancels the one under way, as `mergeDeep` and `takeLatest` do.
A page loaded in read-only mode (`readOnly`) sends nothing.  `kept` and `fresh`
are history variables.

How an operation that fails calls back depends on who sees the error.  The
saga `put`s it to the reducer (`ErrorReducer`), which may throw over it, call
the error callback, which may throw, or throw because there is none.
redux-saga is at 0.16.0 (`ui/wallet/package.json:130`, `yarn.lock:8793`), whose
`put` logs what a reducer throws and returns without an error, so that the
catch of `broadcastOperation` does not run; a `put` that passed the exception
on is the mutant `SendFails_Rethrown`, which calls back twice.

*Run `wallet_and_blurtjs`*: the session, or the api object with its web socket,
or the api object over http, one part at a time.  Session: two users, one
with a key for every role, the other with one key for posting and active and
one for owner and memo; four ways to fill in the form, one of them with another
user's key; a claim of posting authority without an error callback, and a
transfer that asks for confirmation and whose text holds a key; two forms
submitted.  Two logins are what it takes for keys of two users to meet in one
session.  Web socket: three requests at a time, three sockets, six messages,
block numbers to 4.  Http: three endpoints and a url that is not in the list,
two requests, one retry, two methods with any set of them excepted from it,
thresholds of 1 (every error fails over) and 3.  The bounds admit a stop
between a request and its answer followed by a new socket, answers that come in
the other order, and a failover while a request of the former endpoint is under
way.  945,154 states.  Deadlock is not checked: the bounds on forms, operations,
sockets and messages end the model.

### PostLists, FollowLoader, ImageProxy (`ui/condenser`, `storage/imagehoster`)

PostLists: posts of a list are numbered by age, the node's and the store's copy
are kept apart, and `task` and `state` are the tasks that `takeLatest` keeps
one of each.  FollowLoader: one profile's list, `loader` the forked task, `seen`
what the node has said of follows since the load began.  ImageProxy: handlers
are cut at every await; an image is known by its source, the version of it, the
mode, the format, the width and the height it was converted with, and a key by
what `getImageKey` puts into its text, where outside the legacy convention the
numbers follow each other without their names (`Numbers`); `settled` are the
answers to requests that no other request for the same image overlapped.

*Run `web_content`*: one of the three parts at a time.  Lists: two blogs that
share a status key and an index, batches of two posts, at most two batches, one
post written or deleted.  Follows: every set of three names, pages of two.
Images: one image elsewhere with two versions and one upload, for which a width
alone and a height alone are asked, two requests at a time.  A full page followed by an empty one, a filter that
needs a second batch, a cancelled task and a restart between the two writes of
a handler all occur.  321,990 states.  Fairness (lists): calls to the node end,
time passes, and the reader scrolls on, which is the premise of ScrollsToEnd.

## 3. What the runs show

| Run | Property | Meaning |
|---|---|---|
| undo_index | StackIsDifferences | every `undo_state` is exactly the difference its session made |
| | IdsBelowNext, RevisionsContiguous | ids handed out again never collide with an older record; revisions number the sessions |
| | ImplementsSnapshots | undo restores the copy, squash and commit change no object |
| | UndoAllEnds | `undo_all` ends with an empty stack |
| chain_database | LogIsIrreversibleChain | the log is one chain and the committed state lies on it, through crashes in the middle of a migration |
| | IrreversibleStays | no push, failed switch or restart takes an irreversible block back |
| | SwitchAllOrNothing | a fork switch ends on the new branch or, no irreversible block being in the way, where it began |
| | PushEnds | every push ends |
| transaction_pool | AppliedOnceUnlessReplayed | no transaction is applied twice although the duplicate index forgets |
| | PoolKept (SessionFromPool, NoTransactionLost) | what the session holds is in the pool, in order; a push loses no transaction that could still be applied |
| | GeneratedBlockApplies | a generated block passes the node's own checks |
| witness_schedule | RaceAhead | no race ends in the past, whatever wraps |
| | EveryoneTakesTurns | a witness with a key and a vote is scheduled again and again |
| block_slots | SlotsCounted (CountsFilledSlots, SlotsSinceGenesis, MissedAtMostOnce) | the incremental counters agree with what they are said to count |
| | BackedByThreshold | a block becomes irreversible only with the required share of witnesses on top of it |
| write_queue | ContextsAlive | the writer never touches a context whose caller has left |
| | PlainLockExclusive | without lock timeouts reads and writes exclude each other |
| | RequestsAnswered | every request is answered while the writer runs |
| ledger | SupplyAccounted | the sum of `validate_invariants` for BLURT, up to `uncredited` |
| | SharesBacked (SharesAccounted, NothingStranded) | its sums for shares and rewards; rewards claimed in parts leave no BLURT behind |
| | SharesKeepValue | no deposit, withdrawal, payout or burning lowers what a share is worth, however it rounds |
| | TypeOK | no balance, fund or counter becomes negative |
| rpc_client | EffectsAsReported (AppliedAtMostOnce, ConfirmedOnChain) | however often and wherever a broadcast is repeated, its operations take effect at most once, and what is confirmed did |
| | HealthyEndpointFound | with a threshold that lets a call visit every endpoint it does not give up while one of them answers |
| | StreamCorrect (StreamInOrder, FinalUnlessMoved) | the stream yields consecutive blocks of the final chain, unless the endpoint changed between number and block |
| | Settles | `sendOperations` returns, the stream arrives or fails |
| wallet_and_blurtjs | SignedForItsAccount | an operation that no dialog has shown is signed with a key of the account it was dispatched for, whoever logs in meanwhile; keys typed for one operation sign no other |
| | SavedLoginIsLow | the posting key saved has no high authority in the account it is saved for; no key saved is an active or owner key of an account that uses it for nothing less |
| | KeysLeave (OnlyKeptKeys, HighKeysAreFresh) | keys typed for one operation do not stay; active and owner keys do not outlive a change to a low-security page |
| | CalledBackOnce | an operation calls back at most once, and does when it is accepted or has failed, up to the exceptions below |
| | OwnAnswer | no answer meets a transport that has forgotten its request; a callback gets its own answer |
| | AnsweredUnlessBroken | until a socket fails or is stopped every request is on its way to an answer |
| | ConsecutiveNumbers | the stream passes each number on once, in order, although answers go backwards |
| | FailoverMoves | a failover comes at the threshold and leaves the endpoint in use for another one of the list |
| web_content | NoGaps, ScrollsToEnd | a list has no holes or repetitions, and scrolling leads to its end, up to the exceptions below |
| | FollowsComplete | a loaded follow list has everyone followed throughout and nobody never followed |
| | AnswersKept (AnsweredAsAsked, AnswersImmutable) | the image proxy serves the image that was asked for, converted as asked up to the exchange of width and height below, and what it once served as immutable stays, through restarts |

A name in parentheses is a conjunct of the property before it.  `TypeOK`
describes the state of each module.  It is a property of the ledger's run,
where it says that nothing is negative, and a theorem for every module that has
a proof module; the other runs do not list it, as it adds nothing to their
properties.

Every property has at least one mutant of a mapped definition (the operators
named `<definition>_<change>`) under which TLC finds it violated.

Two runs end in a violation and show where the code does not do what an
assertion or a comment says.

- `lost_payout` (SupplyMatches).  Since hardfork 0.6 a quarter of the author's
  tokens is computed as BLURT, announced in the virtual operation, taken from
  the reward fund and credited to nobody; the assertion of
  `validate_invariants` that `current_supply` is the sum of everything fails.
- `image_key` (AnswerHasItsSize).  The comments on the options of the image
  proxy say "Image width, if unset" and "Image height, if unset" for its two
  numbers (proxy.ts:79, 81).  Outside Fit and Match, `getImageKey` joins those
  that are set without saying which is which (proxy.ts:150-156), so a request
  for a height alone is answered with the image stored for the same number as a
  width.

Met on the way in the node and not kept as runs: a branch that is higher but
forks off below the irreversible block makes the push fail with the chain at
the irreversible block, because `undo()` does nothing there while the fork
database's head goes on (database.cpp:810), although database.cpp:718 says that
every partial change is unwound (SwitchAllOrNothing leaves this case out); a
block pushed again whose second push fails is removed from the fork database,
and a sibling that is then alone at its height can be written to the log
(fork_database.cpp:227; `Redelivery` is FALSE in the run); after a replay the
duplicate index does not know the unexpired transactions of the log
(database.cpp:269, 3083), which is what `replayed` in AppliedOnceUnlessReplayed
stands for; witnesses without a signing key count as expected and cannot be
scheduled, and when too few have one the assertion witness_schedule.cpp:221
refuses every block that starts a round (`RoundIsFull` is a guard of the
action, and the run disables one key only); a writer whose lock times out goes on to
the next lock of the ring and writes while readers of the former lock still
read (chainbase.hpp:1211), although chainbase's README wants all writes
protected by a mutex; a block that fails to apply leaves the
fork database but stays its `_head` (database.cpp:866), although push_block
promises the longest fork; past the time limit the restorer keeps transactions
it has not applied (db_with.hpp:118), so the pool is not always what the
pending session was made from (block_producer.cpp:65-67 says it is);
`transaction_index` forgets a transaction at its expiration
(database.cpp:3507), not two forking windows later as the comment above says,
which AppliedOnceUnlessReplayed shows to be enough; and sync mode ends when
the head block is near the time the writer thread was *started*
(chain_plugin.cpp:266), not near the system time.

Met on the way in the clients and web services, and built into the models where
they touch a property:

- *dblurt.*  On an array of addresses an error without a code never ends a
  call, although the timeout option promises that the call fails then
  (utils.ts:124, client.ts:131-137).  The threshold counts failovers, not
  rounds through the list.  A stream in Irreversible mode may yield null or a
  block of a branch when the endpoint changes between number and block
  (FinalUnlessMoved states that this is the only way).  `sendOperations` may
  report an error although the transaction took effect.
- *blurtjs.*  `onError` and `onClose` of the web socket iterate over the
  entries of the map and throw when a request is pending: nothing is rejected,
  and after `onClose` the transport stays dead (ws.js:100, 108).  `stop`
  forgets callbacks.  A start that fails calls nobody back.  The default list
  names the same endpoint twice (index.js:24), so a failover need not move;
  `failover_threshold` has no effect in the constructor; `setOptions` without
  a url makes a web socket transport; a failover drops the retry option
  (index.js:432).  The `nonRetriableOperations` option replaces the default
  list (http.js:102-110), so an application that passes one has broadcasts
  repeated unless it names them again.
- *wallet.*  A login under way survives a logout.  Keys of two users can be
  merged into one session (UserReducer.js:202), so a login may be saved with
  one user's name and another's posting key, which is checked against the
  named account only; and the memo key is saved without any check
  (UserSaga.js:522-533).  So an account that uses its active or owner key for
  posting or memo as well can have a high key saved, although the code means
  the saved login for low security keys (UserReducer.js:107, UserSaga.js:534);
  SavedLoginIsLow states that this is the only way (`KeepsApart`).  A dialog
  keeps its operation but not its user: confirmed after another user has logged
  in, it is signed with that user's key and refused by the node
  (SignedForItsAccount speaks of operations that no dialog has shown,
  `Accepted` of what the node takes).  An operation in a dialog that is closed
  or taken over by another one calls nobody back (`dropped`).  Nor does one in
  read-only mode (TransactionSaga.js:245, `ignored`), nor a transfer whose error
  has no `data.stack`, over which the reducer throws (TransactionReducer.js:67,
  `lost`).  Without an error callback the reducer throws PANIC, which is only
  logged.
- *condenser.*  A fetch that fails or is cancelled leaves its fetching flag
  set, and since the flag's key does not name the account it blocks the same
  page of other profiles (`abandoned`).  `RECEIVE_STATE` merges a list with the
  one that is there by position, which can repeat or lose posts (`remerged`).
  When the last post of a list is deleted, loading more fails for good.
  `by_replies` asks for the same batch again while its filter is not
  satisfied.  A cancelled follow loader leaves `blog_loading` set; a follow
  accepted before the list was loaded makes it look loaded; an error in
  `loadFollows` ends the root saga.
- *image service.*  First requests that overlap may be answered with different
  versions, each marked immutable.  For the exchange of width and height see
  the run `image_key`.

## 4. What is proved

TLAPS checks the modules named `...Proofs` to the last leaf, for every value of
the constants that meets the named assumptions.  For every component there is
an inductive invariant and a theorem that the specification implies it
(ChainProofs and LedgerProofs under a hypothesis on the behaviour, stated
below); the theorems listed in PROJECT.json follow from it.  Where the invariant
is called `IInv` (WalletInv in WalletSession) it is defined at the end of the
component's module; PoolInv,
RaceInv, TransportInv, FailoverInv, ContentInv, FollowInv and ImageInv are
defined beside their proofs.  Every one was first checked with TLC on the run
of its module.

*UndoProofs.*  The invariant is `IInv`: TypeOK, StackIsDifferences,
IdsBelowNext and RevisionsContiguous together.  StackIsDifferences alone is
not inductive: an undo after a removal would be wrong if an id could be used
that a session below still mentions, which IdsBelowNext excludes, and `commit`
and the abstract `Discard` need the revisions.  The heart is the lemma
MergeDifference: if one record is the difference from A to B and the next from
B to C, squash's merge of the two is the difference from A to C; and
its counterpart for `undo`, which rebuilds B from C.  With those, each action
preserves IInv, and each step of UndoHistory is a step of SnapshotStack or
leaves it unchanged (`Refinement`).  The theorems are about any number of ids,
values, sessions and revisions; the only assumptions are that the bounds are
natural numbers.

*PoolProofs.*  A transaction can only be applied again if the index has
forgotten it, and it forgets only what has expired.  So `IInv` says of every
state on the chain, on the chain the push began with, and in the session: no
transaction occurs twice, and each is known or has expired (`Unrepeatable`).
This is needed of the old blocks, not only of the current state, because a
fork switch returns to one of them.  Applying a block whose transactions are
acceptable in turn preserves it, and so does advancing the time and forgetting
(LaterGood).  A replay voids it, which is why the theorem is about histories
without one (`replayed`).

PoolKept is the harder one: a push of blocks sets the pool aside, pops blocks,
applies others and then hands every transaction back one by one, and each of
them may build on others that are refused on the new branch.  `PoolInv` keeps
account of what is owed (`Owing`): what was applied, in the chain or in the
session, when the push began.  While the branch changes, all of it is in the
part of the chain that stays or among the popped and saved transactions, which
in this order bring each after those it needs.  While they come back, every one is applied, has a place in the queue before which its
foundations come (`Supported`), or belongs to a set D of transactions that
cannot be applied any more, each refused for good or building on another one of
D (`Dead`).  The set as a whole is what makes the step provable: one
transaction that conflicts takes all that build on it along, without any of
them being refused for a reason of its own.  Neither part
assumes that there was no replay.  GeneratedBlockApplies needs that what the
producer has put into the block so far is a sequence that the head accepts one
after the other, in the state it keeps beside it (`Building`).

*ChainProofs.*  LogIsIrreversibleChain says that the log is one chain and that
the committed state lies on it.  To preserve it a step has to know where the
log came from and what is still to be written, so `IInv` adds: the log is the
beginning of the irreversible part of some valid branch (LogIrreversible), the
committed part of the state is in it (CommittedLogged), what is being written
now belongs to the branch of the head (WritesOwnBranch), the fork database
still has every block of that branch that may be popped (Kept), and during a
fork switch the two branches part above the fork point, with both heads on the
branch the phase says (BranchesPart, HeadsOnBranch).  With AgreementAssumption
two branches agree up to the irreversible number of either, so a switch never
has to give up a logged block and `crash` finds in the log what it undoes to.
The theorems are about any tree of blocks and any number of crashes and
replays, and carry the hypothesis `~Redelivery`: with blocks delivered again
they are false (section 3).  SoleWitnessAssumption was found by the proof.
Without it TLC confirms the following: a switch fails below the committed block
and leaves rivals in the index; an invalid child X of the head is removed from
the index but stays the fork database's head; a sibling Y of X arrives that
makes itself irreversible; and `migrate_irreversible_state`, which asks the fork
database for its main branch, finds X at that height and writes it to the log.

*SlotsProofs.*  SlotsCounted relates counters that are updated incrementally to
what they count: the number of one-bits of the shift register, of slots and of
blocks since genesis.  The loop over missed slots is a recursive function; its
value is established by induction over the number of slots (SlotsProofs proves
the induction it needs from the well-foundedness of `<` on Nat, for a set of
numbers instead of a predicate).  BackedByThreshold needs that a round names
nobody twice (RoundDistinct) and that what a witness object says of its last
confirmed block is true (ConfirmedSigned); the argument is that the element at
`offset` of a sorted sequence has at least `Len - offset` elements not below
it.  `Threshold` is from 51 to 100, as the code's 75 percent is: for a
threshold of 50 or less the half of the property that speaks of blocks already
irreversible would be false.

*NodeProofs.*  ContextsAlive becomes inductive with ContextTaken: the
context the writer works on has left the queue, so no caller is answered twice
and none leaves while its context is in the queue.  PlainLockExclusive becomes
inductive with OneLock: in the build without timeouts there is one lock, which
counts exactly the readers that read and whose gate is closed from the moment
the writer waits for it.  For any finite sets of callers and readers and any
number of locks.

RaceAhead of the witness schedule becomes inductive with what is true of
witnesses that are not registered yet: their race ends with virtual time
(`RaceInv`).  A change of votes recomputes the end of a race from the position
reached, and the sum may wrap; a sum that lies in the past becomes the
largest time.  The new virtual time of a round is the latest end among the
witnesses looked at, and the others' races end no earlier, because the
witnesses are looked at in the order of their ends; when a next lap would wrap,
the reset puts every race at its start.  For any number of witnesses, votes and
elected places and any largest time.

*ClientProofs.*  EffectsAsReported needs SignedOnce: a `sendOperations` signs one
transaction, every repeated broadcast carries that one, and endpoints accept
it once.  HealthyEndpointFound counts: the failovers a
call has left suffice for the distance, going around the list, from its address
to an endpoint that answers (HealthyAhead).  This holds for lists of distinct
addresses and is stated for them: `failover` looks its address up with
`indexOf`, which finds the first entry of that name, so with a repeated address
a call may go around a part of the list for ever.  StreamCorrect
needs to know, for every state of the stream, which number is asked for and
which have been yielded (StreamPlace).

The websocket of blurtjs (`TransportInv`): sockets are used one after the other
and only the transport's own can be alive (OneSocket), the map names each
request that was sent once, under a number of its own (MapOfSent), and each
answer to come on an open socket has its request in the map (AnswersKnown);
OwnAnswer follows.  AnsweredUnlessBroken needs that, before anything breaks, the promise
a request waits for is the one of the socket in use (Unbroken).
ConsecutiveNumbers needs that the last number passed on is the current one
(EndsWithCurrent).  The endpoints (`FailoverInv`): the index always is that of
the address in use, or of the first one when the application has chosen an
address that is not in the list; from this follows FailoverMoves, an action
property, for lists without repetition, any thresholds and any methods.

*WebProofs.*  The session of the wallet (`WalletInv`).  SignedForItsAccount needs
that what no dialog has shown looks for its key in the name it was dispatched
in, with keys of logins that stay (SignsAsDispatched), and that a dialog shows
an operation that waits for it and is marked as asked about (DialogsHold).
SavedLoginIsLow needs that the posting and the memo key in memory and those that
are saved, whatever logins were merged, are the posting and the memo key of some
user (KeysOfTheirRole, SavedOfTheirRole): `saveLogin_localStorage` compares with
the keys of one account only.  It is proved action by action for any users,
keys, operations, callbacks and forms.

NoGaps of the lists of posts becomes inductive with two facts: a fetch goes on
from a post that its list shows (StartsInside), and posts get rising numbers
(PostsNumbered).  The page the node sends has all posts from the start of the
fetch down to its last one (PageNewest); what of it the list does not show yet
is older than the list's last post, because the list had no gap; so that
RECEIVE_DATA, which appends one key after the other, appends in order
(AppendedFalls) and leaves no gap (AppendedWhole).  FollowsComplete becomes
inductive with what the pages so far have gathered: everybody up to the start of
the next page who was followed all the time (`FollowInv`); PageGood says what a
page of names contains.  Both rest on the lemma Ranks, which numbers a finite
set by counting.  AnswersKept of the image proxy relates three things
(`ImageInv`): what is stored under a key is the image the key stands for, and
equal keys stand for the same conversion or for one with width and height
exchanged (KeysHold; EqualKeys); a handler that no other one for its URL
has overlapped finds the stores as it left them (Undisturbed); and once an
answer is settled, every handler for the same URL, wherever it is, is past the
steps that could change it (Finds).

*LedgerProofs.*  The four properties of the run `ledger`, for any accounts,
percentages, fees, prices and rewards.  What the code's loops do (curators,
beneficiaries, routes, fees) is folded over finite sets, and the ledger's sums
are folds too; the module treats all of them as one function `Fold` over the
subsets of a set and shows how a sum changes when one or two accounts do
(TotalIsSum and the lemmas after it).  About prices four lemmas carry the rest:
shares bought or redeemed never lower what a share is worth (Bought,
Redeemed), a part of a reward is claimed for no more BLURT than the whole has
(ClaimedPart), and parts rounded down never exceed the whole (PartsFit).
`IInv` adds to the properties: shares in the fund mean BLURT in the fund
(`Sound`), an escrow approved by both has paid its fee, so that a release can
empty it (`FeePaid`), and routes take no more than all of a withdrawal
(`RoutesFit`, which `process_vesting_withdrawals` relies on and
`set_withdraw_vesting_route` asserts).

These theorems carry a hypothesis, `NeverAbandoned`: while rewards wait to be
claimed as shares, somebody has shares.  Without it they are false, and
even TypeOK fails; TLC shows it with one user, at four shares per BLURT.  The
user withdraws all shares; a payout leaves eight shares to be claimed, backed
by 2 BLURT; the user claims one share and then three, each claim moving no BLURT
because its part rounds down; now there are four shares in an empty fund,
worth one BLURT at the genesis price that `get_vesting_share_price` falls back
to; and redeeming them takes the fund below zero.  Every state of the run
`ledger` satisfies the hypothesis and so does, for all practical purposes, the
real chain, where somebody always has shares; but no code enforces it.  The
assumptions are what genesis and the `validate` functions of operations
establish: amounts are positive, percentages are at most 100 percent
(`InputAssumption`), the weights of a comment's votes and beneficiaries add up
to at most the whole (`CommentAssumption`).

Induction.  The library's induction theorems cannot be instantiated by the
installed provers.  Where a proof needs induction over numbers or finite sets
(SlotsProofs, ChainProofs, LedgerProofs, WebProofs) it is derived in the module for a *set* of numbers
or of subsets, from WFMin and NatLessThanWellFounded.

Only model-checked: all liveness (UndoAllEnds, PushEnds, EveryoneTakesTurns,
ScrollsToEnd and the other properties under fairness), because TLAPS 1.4.5 does
not do fairness and ENABLED here.  Every safety property of a passing run is
also a theorem.

## 5. What is not modelled

Listed with reasons in PROJECT.json under `components`.  In short, of the node:
the content of operations other than what the modules above need, unique
secondary keys of chainbase (undo restores values one by one, chainbase.hpp:422,
and two objects that exchanged a unique key would make it throw half way), the
files behind block log and shared memory (torn writes), the p2p protocol (its
effect, blocks and transactions in any order, is the input of the models), the
witness plugin's production loop (it reads slot, witness and key without the
write lock, witness_plugin.cpp:392; `generate_block` checks them again),
requests left in the write queue at shutdown (chain_plugin.cpp:293), votes along
chains of proxies (database.cpp:1198), the batched removal of proposals
(sps_helper.hpp:47), plugins that only derive indices from applied blocks, and
APIs.

Of the JavaScript and TypeScript, 209,000 lines in 812 files, the modules cover
the parts that keep state across calls or tasks, about 2,700 lines; that share
cannot become large.  Nearly half of those lines are recorded API answers
(`api_mockdata`) and generated documentation with its scripts.  Most of the
rest are React components and their styles and translations, server-side
rendering, the generated wrappers of API methods, the serializer and the
cryptography: functions of their arguments without a state machine to check,
or presentation.  What remains that has state and is not modelled: callbacks of the wallet that
throw where the saga itself calls them, the browser extension that can hold keys
instead of it, condenser's own login (a smaller copy of the wallet's), the polling and notification sagas,
the market and the key-change dialogs of the wallet, the upload limits of the
image service, and the mobile application.

## 6. Plan

1. *Vesting*: power-down plans, delegations and their return, beside Ledger:
   shares delegated or being withdrawn are never spent twice, and a plan ends.
2. *Consensus*: several nodes with BlockSlots' rule, to discharge
   AgreementAssumption or find what it needs.
3. *BlockProduction*: the witness plugin's loop racing the writer thread, and
   whether a witness can sign two blocks of one slot.
4. *UniqueIndex*: unique secondary keys under undo.
5. *WitnessVotes* (votes along chains of proxies), *Proposals* (payments and
   batched removal), hardfork votes, resource credits.
6. *Clients*: condenser's session, the wallet's change of keys
   (`updateAuthorities`), the upload limits of the image service.
