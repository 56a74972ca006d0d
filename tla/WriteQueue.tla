------------------------------ MODULE WriteQueue ------------------------------
(***************************************************************************)
(* Who may touch the database, and when: the chain plugin's write queue    *)
(* and its one writer thread, the threads that wait for their writes, the  *)
(* reader threads, and chainbase's ring of read-write locks.               *)
(*                                                                         *)
(* A caller (accept_block, accept_transaction, generate_block) puts a      *)
(* pointer to a write context on its own stack into the queue and blocks   *)
(* on the promise in it.  The writer pops contexts, takes the write lock,  *)
(* performs as many writes as it can, and lets the lock go.  A write lock  *)
(* that does not come within a second makes the writer move on to the next *)
(* lock of the ring, which it initialises anew.  What a write does is left *)
(* to ChainDatabase and TransactionPool, and the clock to choice: when a   *)
(* lock times out, when it has been held for long enough, and when the     *)
(* head block is recent enough to leave sync mode.                         *)
(***************************************************************************)
EXTENDS Integers, Sequences, FiniteSets

CONSTANTS
  Caller,       \* threads that write
  Reader,       \* threads that read
  NumLocks,     \* CHAINBASE_NUM_RW_LOCKS (10)
  Builds,       \* TRUE: with_write_lock gives up on a lock; FALSE: the MIRA build
  MaxShared     \* readers a lock can count (2^31 - 1)

ASSUME QueueAssumption ==
  /\ IsFiniteSet(Caller) /\ IsFiniteSet(Reader)
  /\ NumLocks \in Nat \ {0} /\ MaxShared \in Nat \ {0}
  /\ Builds \subseteq BOOLEAN

VARIABLES
  caller,       \* what each caller is doing
  write_queue,  \* the contexts in the queue, named by their callers
  running,      \* chain_plugin_impl::running
  writer,       \* where the writer thread is
  cxt,          \* the context it works on
  is_syncing,   \* sync mode
  timed,        \* the build: do write locks time out?
  locks,        \* _locks: readers in each, and whether its gate is closed
  current,      \* _current_lock, of which only the remainder is used
  writer_lock,  \* the lock the writer waits for or holds
  reader,       \* what each reader is doing
  reader_lock   \* the lock it waits for or holds

callVars == <<caller, write_queue, running>>
writerVars == <<writer, cxt, is_syncing, writer_lock>>
readVars == <<reader, reader_lock>>
lockVars == <<timed, locks, current>>
vars == <<callVars, writerVars, lockVars, readVars>>

NoOne == "no one"

Lock == 0..NumLocks - 1

Free == [readers |-> 0, writer |-> FALSE]

-----------------------------------------------------------------------------
(* The callers.                                                            *)

accept(c) ==
  /\ caller[c] = "idle"
  /\ caller' = [caller EXCEPT ![c] = "waiting"]
  /\ write_queue' = Append(write_queue, c)
  /\ UNCHANGED <<running, writerVars, lockVars, readVars>>

\* The promise is set: the caller goes on, and its context is gone.
accepted(c) ==
  /\ caller[c] = "answered"
  /\ caller' = [caller EXCEPT ![c] = "idle"]
  /\ UNCHANGED <<write_queue, running, writerVars, lockVars, readVars>>

stop_write_processing ==
  /\ running
  /\ running' = FALSE
  /\ UNCHANGED <<caller, write_queue, writerVars, lockVars, readVars>>

-----------------------------------------------------------------------------
(* The writer thread.                                                      *)

\* The head of the outer loop, with a context in the queue.
pop ==
  /\ writer = "polling" /\ running /\ write_queue # <<>>
  /\ cxt' = Head(write_queue) /\ write_queue' = Tail(write_queue)
  /\ writer' = "locking" /\ writer_lock' = current
  /\ UNCHANGED <<caller, running, is_syncing, lockVars, readVars>>

leave_loop ==
  /\ writer = "polling" /\ ~running
  /\ writer' = "stopped"
  /\ UNCHANGED <<callVars, cxt, is_syncing, writer_lock, lockVars, readVars>>

\* The mutex lets no new reader in once the writer waits for it.
close_gate ==
  /\ writer = "locking"
  /\ locks' = [locks EXCEPT ![writer_lock].writer = TRUE]
  /\ writer' = "draining"
  /\ UNCHANGED <<callVars, cxt, is_syncing, writer_lock,
                 timed, current, readVars>>

\* Mutant of lock_write: the lock is not waited for.
lock_write_at_once ==
  /\ writer = "draining"
  /\ writer' = "locked"
  /\ UNCHANGED <<callVars, cxt, is_syncing, writer_lock, lockVars, readVars>>

lock_write ==
  /\ writer = "draining"
  /\ locks[writer_lock].readers = 0
  /\ writer' = "locked"
  /\ UNCHANGED <<callVars, cxt, is_syncing, writer_lock, lockVars, readVars>>

\* Mutant of next_lock: the lock that timed out is tried again.
next_lock_same ==
  /\ timed
  /\ writer = "draining"
  /\ locks[writer_lock].readers # 0
  /\ locks' = [locks EXCEPT ![writer_lock].writer = FALSE]
  /\ writer' = "locking"
  /\ UNCHANGED <<callVars, cxt, is_syncing, writer_lock,
                 timed, current, readVars>>

\* The lock did not come in time: on to the next one, which is made anew.
next_lock ==
  /\ timed
  /\ writer = "draining"
  /\ locks[writer_lock].readers # 0
  /\ current' = (current + 1) % NumLocks
  /\ locks' = [locks EXCEPT ![writer_lock].writer = FALSE, ![current'] = Free]
  /\ writer_lock' = current'
  /\ writer' = "locking"
  /\ UNCHANGED <<callVars, cxt, is_syncing, timed, readVars>>

\* The write, which catches every exception, and its result.
visit ==
  /\ writer = "locked"
  /\ writer' = "visited"
  /\ UNCHANGED <<callVars, cxt, is_syncing, writer_lock, lockVars, readVars>>

\* Mutant of set_value: a write that throws sets no promise.
set_value_unless_thrown ==
  /\ writer = "visited"
  /\ caller' \in {caller, [caller EXCEPT ![cxt] = "answered"]}
  /\ writer' = "answered"
  /\ UNCHANGED <<write_queue, running, cxt, is_syncing,
                 writer_lock, lockVars, readVars>>

\* Mutant of set_value: the caller is let go and its context looked at again.
set_value_early ==
  /\ writer = "visited"
  /\ caller' = [caller EXCEPT ![cxt] = "answered"]
  /\ writer' = IF caller[cxt] = "waiting" THEN "visited" ELSE "answered"
  /\ UNCHANGED <<write_queue, running, cxt, is_syncing,
                 writer_lock, lockVars, readVars>>

set_value ==
  /\ writer = "visited"
  /\ caller' = [caller EXCEPT ![cxt] = "answered"]
  /\ writer' = "answered"
  /\ UNCHANGED <<write_queue, running, cxt, is_syncing,
                 writer_lock, lockVars, readVars>>

\* The rest of the inner loop: sync mode may end, the lock may have been held
\* for long enough, and the next context is taken if there is one.
Unlock ==
  /\ locks' = [locks EXCEPT ![writer_lock].writer = FALSE]
  /\ writer' = "polling" /\ cxt' = NoOne
  /\ UNCHANGED write_queue

next_write ==
  /\ writer = "answered"
  /\ is_syncing' \in {is_syncing, FALSE}
  /\ \/ ~is_syncing' /\ Unlock
     \/ write_queue = <<>> /\ Unlock
     \/ /\ write_queue # <<>>
        /\ cxt' = Head(write_queue) /\ write_queue' = Tail(write_queue)
        /\ writer' = "locked"
        /\ UNCHANGED locks
  /\ UNCHANGED <<caller, running, writer_lock, timed, current, readVars>>

-----------------------------------------------------------------------------
(* The readers.                                                            *)

with_read_lock(r) ==
  /\ reader[r] = "idle"
  /\ reader' = [reader EXCEPT ![r] = "waiting"]
  /\ reader_lock' = [reader_lock EXCEPT ![r] = current]
  /\ UNCHANGED <<callVars, writerVars, lockVars>>

Shut(l) == locks[l].writer \/ locks[l].readers = MaxShared

lock_read(r) ==
  /\ reader[r] = "waiting"
  /\ ~Shut(reader_lock[r])
  /\ reader' = [reader EXCEPT ![r] = "reading"]
  /\ locks' = [locks EXCEPT ![reader_lock[r]].readers = @ + 1]
  /\ UNCHANGED <<callVars, writerVars, timed, current, reader_lock>>

\* lock_exception: the lock did not come within a second.
read_timeout(r) ==
  /\ reader[r] = "waiting"
  /\ Shut(reader_lock[r])
  /\ reader' = [reader EXCEPT ![r] = "idle"]
  /\ UNCHANGED <<callVars, writerVars, lockVars, reader_lock>>

\* A lock made anew while r was reading does not count r; the count wraps.
unlock_read(r) ==
  /\ reader[r] = "reading"
  /\ reader' = [reader EXCEPT ![r] = "idle"]
  /\ locks' = [locks EXCEPT ![reader_lock[r]].readers =
                 IF @ = 0 THEN MaxShared ELSE @ - 1]
  /\ UNCHANGED <<callVars, writerVars, timed, current, reader_lock>>

Init ==
  /\ caller = [c \in Caller |-> "idle"] /\ write_queue = <<>> /\ running = TRUE
  /\ writer = "polling" /\ cxt = NoOne /\ is_syncing = TRUE
  /\ timed \in Builds
  /\ locks = [l \in Lock |-> Free] /\ current = 0 /\ writer_lock = 0
  /\ reader = [r \in Reader |-> "idle"] /\ reader_lock = [r \in Reader |-> 0]

Writing ==
  pop \/ leave_loop \/ close_gate \/ lock_write \/ next_lock \/ visit \/ set_value
  \/ next_write

Next ==
  \/ \E c \in Caller : accept(c) \/ accepted(c)
  \/ stop_write_processing
  \/ Writing
  \/ \E r \in Reader :
       with_read_lock(r) \/ lock_read(r) \/ read_timeout(r) \/ unlock_read(r)

Spec == Init /\ [][Next]_vars

\* The writer thread keeps running, and neither loses the race for a new lock
\* for ever against readers that come in before it closes the gate, nor is a
\* lock without readers for ever upset before it is granted.
WriterFairness ==
  /\ WF_vars(Writing)
  /\ SF_vars(close_gate /\ locks[writer_lock].readers = 0)
  /\ SF_vars(lock_write)

\* Where write locks do not time out, the writer depends on readers that end
\* what they are doing.
FairSpec ==
  Spec /\ WriterFairness /\ (timed \/ \A r \in Reader : WF_vars(unlock_read(r)))

-----------------------------------------------------------------------------
\* Type correctness of queue, threads and locks.
TypeOK ==
  /\ caller \in [Caller -> {"idle", "waiting", "answered"}]
  /\ write_queue \in Seq(Caller) /\ Len(write_queue) <= Cardinality(Caller)
  /\ writer \in {"polling", "locking", "draining", "locked", "visited",
                "answered", "stopped"}
  /\ cxt \in Caller \cup {NoOne}
  /\ is_syncing \in BOOLEAN /\ running \in BOOLEAN /\ timed \in BOOLEAN
  /\ locks \in [Lock -> [readers : 0..MaxShared, writer : BOOLEAN]]
  /\ current \in Lock /\ writer_lock \in Lock
  /\ reader \in [Reader -> {"idle", "waiting", "reading"}]
  /\ reader_lock \in [Reader -> Lock]

\* "The pointer to the write context remains valid until the contained
\* promise is complete": whenever the writer may look at a context, and for
\* every context in the queue, the caller it belongs to is still waiting.
ContextsAlive ==
  /\ writer \in {"locking", "draining", "locked", "visited"} => caller[cxt] = "waiting"
  /\ \A i \in DOMAIN write_queue : caller[write_queue[i]] = "waiting"
  /\ \A i, j \in DOMAIN write_queue : write_queue[i] = write_queue[j] => i = j

\* Every request is answered while the writer thread runs.
RequestsAnswered ==
  \A c \in Caller : caller[c] = "waiting" ~> (caller[c] # "waiting" \/ ~running)

\* "Two or more threads may read the database at the same time, but all writes
\* must be protected by a mutex": nobody reads while the writer writes.
WritesExclusive ==
  writer \in {"locked", "visited", "answered"} => \A r \in Reader : reader[r] # "reading"

\* In the build that waits for its one lock, reads and writes exclude each
\* other, whatever readers time out.
PlainLockExclusive == ~timed => WritesExclusive

\* What the proofs carry along.  The context the writer works on has left the
\* queue, so that no caller is served twice; and where write locks do not time
\* out there is one lock, which counts exactly the readers that read and whose
\* gate is closed from the moment the writer waits for it until it lets go.
ContextTaken ==
  writer \in {"locking", "draining", "locked", "visited"} =>
    cxt \in Caller /\ \A i \in DOMAIN write_queue : write_queue[i] # cxt

Reading == {r \in Reader : reader[r] = "reading"}

OneLock ==
  ~timed =>
    /\ current = 0 /\ writer_lock = 0 /\ \A r \in Reader : reader_lock[r] = 0
    /\ locks[0].readers = Cardinality(Reading)
    /\ locks[0].writer = (writer \in {"draining", "locked", "visited", "answered"})
    /\ writer \in {"locked", "visited", "answered"} => locks[0].readers = 0

IInv == TypeOK /\ ContextsAlive /\ ContextTaken /\ OneLock
=============================================================================
