------------------------------ MODULE NodeProofs ------------------------------
(***************************************************************************)
(* Proofs about two machines of the node.                                  *)
(*                                                                         *)
(* WriteQueue: every context the writer can reach belongs to a caller that *)
(* still waits, the queue is never longer than there are callers, and in   *)
(* the build whose write lock does not time out no reader reads while the  *)
(* writer writes.                                                          *)
(*                                                                         *)
(* WitnessSchedule: the virtual race stays ahead of virtual time.          *)
(***************************************************************************)
EXTENDS WriteQueue, WitnessSchedule, FiniteSetTheorems, SequenceTheorems,
        WellFoundedInduction, TLAPS

\* The states in which the writer looks at its context.
Busy == {"locking", "draining", "locked", "visited"}

-----------------------------------------------------------------------------
(* The queue.                                                              *)

\* A queue in which nobody stands twice is no longer than there are callers.
LEMMA DistinctIsShort ==
  ASSUME NEW q \in Seq(Caller),
         \A i, j \in DOMAIN q : q[i] = q[j] => i = j
  PROVE  Len(q) <= Cardinality(Caller)
<1>1. Len(q) \in Nat /\ q \in [1..Len(q) -> Caller] /\ DOMAIN q = 1..Len(q)
  BY LenProperties
<1>2. q \in Injection(1..Len(q), Caller)
  BY <1>1 DEF Injection, IsInjective
<1>3. Cardinality(1..Len(q)) <= Cardinality(Caller)
  BY <1>2, FS_Injection, QueueAssumption
<1>4. Cardinality(1..Len(q)) = Len(q)
  BY <1>1, FS_Interval
<1> QED BY <1>3, <1>4

\* What is left of the queue when its first context is taken.
LEMMA HeadTaken ==
  ASSUME IInv, write_queue # <<>>
  PROVE  LET h == Head(write_queue)  t == Tail(write_queue) IN
         /\ h \in Caller /\ caller[h] = "waiting"
         /\ t \in Seq(Caller) /\ Len(t) <= Cardinality(Caller)
         /\ \A i \in DOMAIN t : t[i] # h /\ caller[t[i]] = "waiting"
         /\ \A i, j \in DOMAIN t : t[i] = t[j] => i = j
<1> DEFINE h == Head(write_queue)
           t == Tail(write_queue)
<1>1. write_queue \in Seq(Caller) /\ Len(write_queue) \in Nat /\ DOMAIN write_queue = 1..Len(write_queue)
  BY LenProperties DEF IInv, TypeOK
<1>2. 1 \in DOMAIN write_queue /\ h = write_queue[1] /\ h \in Caller
  BY <1>1
<1>3. /\ t \in Seq(Caller) /\ DOMAIN t = 1..(Len(write_queue) - 1)
      /\ \A i \in 1..(Len(write_queue) - 1) : t[i] = write_queue[i + 1]
  BY <1>1
<1>4. \A i \in DOMAIN t : i + 1 \in DOMAIN write_queue /\ i + 1 # 1
  BY <1>1, <1>3
<1>5. \A i, j \in DOMAIN t : t[i] = t[j] => i = j
  <2> SUFFICES ASSUME NEW i \in DOMAIN t, NEW j \in DOMAIN t, t[i] = t[j] PROVE i = j
    OBVIOUS
  <2>1. write_queue[i + 1] = write_queue[j + 1] /\ {i, j} \subseteq Int
    BY <1>3
  <2>2. i + 1 = j + 1
    BY <1>4, <2>1 DEF IInv, ContextsAlive
  <2> QED BY <2>1, <2>2
<1>6. \A i \in DOMAIN t : t[i] # h /\ caller[t[i]] = "waiting"
  BY <1>2, <1>3, <1>4 DEF IInv, ContextsAlive
<1>7. caller[h] = "waiting"
  BY <1>2 DEF IInv, ContextsAlive
<1>8. Len(t) <= Cardinality(Caller)
  BY <1>3, <1>5, DistinctIsShort
<1> QED BY <1>2, <1>3, <1>5, <1>6, <1>7, <1>8

\* A caller that is idle stands nowhere in the queue.
LEMMA Queued ==
  ASSUME IInv, NEW c \in Caller, caller[c] = "idle"
  PROVE  LET q == Append(write_queue, c) IN
         /\ q \in Seq(Caller) /\ Len(q) <= Cardinality(Caller)
         /\ \A i \in DOMAIN q : q[i] = c \/ \E j \in DOMAIN write_queue : q[i] = write_queue[j]
         /\ \A i, j \in DOMAIN q : q[i] = q[j] => i = j
<1> DEFINE q == Append(write_queue, c)
           n == Len(write_queue)
<1>1. write_queue \in Seq(Caller) /\ n \in Nat /\ DOMAIN write_queue = 1..n
  BY LenProperties DEF IInv, TypeOK
<1>2. /\ q \in Seq(Caller) /\ DOMAIN q = 1..(n + 1) /\ q[n + 1] = c
      /\ \A i \in 1..n : q[i] = write_queue[i]
  BY <1>1
<1>3. \A i \in 1..n : write_queue[i] # c
  BY <1>1 DEF IInv, ContextsAlive
<1>4. \A i, j \in DOMAIN q : q[i] = q[j] => i = j
  <2> SUFFICES ASSUME NEW i \in DOMAIN q, NEW j \in DOMAIN q, q[i] = q[j] PROVE i = j
    OBVIOUS
  <2>1. CASE i \in 1..n /\ j \in 1..n
    BY <1>1, <1>2, <2>1 DEF IInv, ContextsAlive
  <2>2. CASE ~(i \in 1..n /\ j \in 1..n)
    BY <1>1, <1>2, <1>3, <2>2
  <2> QED BY <2>1, <2>2
<1>5. \A i \in DOMAIN q : q[i] = c \/ \E j \in DOMAIN write_queue : q[i] = write_queue[j]
  BY <1>1, <1>2
<1>6. Len(q) <= Cardinality(Caller)
  BY <1>2, <1>4, DistinctIsShort
<1> QED BY <1>2, <1>4, <1>5, <1>6

-----------------------------------------------------------------------------
(* The readers that read.                                                  *)

\* One reader that starts, or ends, moves the count by one.
LEMMA ReadingCounted ==
  ASSUME IInv
  PROVE  /\ IsFiniteSet(Reading) /\ Cardinality(Reading) \in Nat
         /\ Cardinality(Reading) = 0 => \A r \in Reader : reader[r] # "reading"
         /\ \A r \in Reader :
              /\ r \notin Reading => Cardinality(Reading \cup {r}) = Cardinality(Reading) + 1
              /\ r \in Reading => /\ Cardinality(Reading \ {r}) = Cardinality(Reading) - 1
                                  /\ Cardinality(Reading) # 0
<1>1. IsFiniteSet(Reading)
  BY FS_Subset, QueueAssumption DEF Reading
<1>2. Cardinality(Reading) \in Nat
  BY <1>1, FS_CardinalityType
<1>3. Cardinality(Reading) = 0 <=> Reading = {}
  BY <1>1, FS_EmptySet
<1>4. ASSUME NEW r \in Reader, r \notin Reading
      PROVE  Cardinality(Reading \cup {r}) = Cardinality(Reading) + 1
  BY <1>1, <1>4, FS_AddElement
<1>5. ASSUME NEW r \in Reader, r \in Reading
      PROVE  Cardinality(Reading \ {r}) = Cardinality(Reading) - 1
  BY <1>1, <1>5, FS_RemoveElement
<1>6. Reading = {} => \A r \in Reader : reader[r] # "reading"
  BY DEF Reading
<1> QED BY <1>1, <1>2, <1>3, <1>4, <1>5, <1>6

\* Who reads is told by the readers alone.
LEMMA ReadingUnchanged ==
  ASSUME reader' = reader
  PROVE  Reading' = Reading
BY DEF Reading

-----------------------------------------------------------------------------
(* Every step keeps the invariant.                                         *)

\* At first nothing waits and no lock is held.
LEMMA Initial == Init => IInv
<1> SUFFICES ASSUME Init PROVE IInv
  OBVIOUS
<1>1. 0 \in Lock /\ Cardinality(Caller) \in Nat
  BY QueueAssumption, FS_CardinalityType DEF Lock
<1>2. Free \in [readers : 0..MaxShared, writer : BOOLEAN] /\ Free.readers = 0 /\ Free.writer = FALSE
  BY QueueAssumption DEF Free
<1>3. TypeOK
  BY <1>1, <1>2, QueueAssumption DEF Init, TypeOK
<1>4. Reading = {}
  BY DEF Init, Reading
<1>5. OneLock
  BY <1>1, <1>2, <1>4, FS_EmptySet DEF Init, OneLock
<1>6. ContextsAlive /\ ContextTaken
  BY DEF Init, ContextsAlive, ContextTaken
<1> QED BY <1>3, <1>5, <1>6 DEF IInv

\* The callers queue a request and take its answer.
LEMMA StepOfCallers ==
  ASSUME IInv, NEW c \in Caller, accept(c) \/ accepted(c)
  PROVE  IInv'
<1>1. UNCHANGED <<running, writerVars, lockVars, readVars>>
  BY DEF accept, accepted
<1>2. OneLock'
  BY <1>1, ReadingUnchanged DEF IInv, OneLock, writerVars, lockVars, readVars
<1>3. CASE accept(c)
  <2>1. caller[c] = "idle" /\ caller' = [caller EXCEPT ![c] = "waiting"]
        /\ write_queue' = Append(write_queue, c)
    BY <1>3 DEF accept
  <2> DEFINE q == write_queue'
  <2>2. /\ q \in Seq(Caller) /\ Len(q) <= Cardinality(Caller)
        /\ \A i \in DOMAIN q : q[i] = c \/ \E j \in DOMAIN write_queue : q[i] = write_queue[j]
        /\ \A i, j \in DOMAIN q : q[i] = q[j] => i = j
    BY <2>1, Queued
  <2>3. TypeOK'
    BY <1>1, <2>1, <2>2 DEF IInv, TypeOK, writerVars, lockVars, readVars
  <2>4. \A d \in Caller : caller[d] = "waiting" => caller'[d] = "waiting" /\ d # c
    BY <2>1 DEF IInv, TypeOK
  <2>5. caller'[c] = "waiting"
    BY <2>1 DEF IInv, TypeOK
  <2>6. \A j \in DOMAIN write_queue : write_queue[j] \in Caller
    BY LenProperties DEF IInv, TypeOK
  <2> HIDE DEF q
  <2>7. ContextsAlive'
    <3>1. \A i \in DOMAIN q : caller'[q[i]] = "waiting"
      BY <2>2, <2>4, <2>5, <2>6 DEF IInv, ContextsAlive
    <3>2. writer' \in Busy => caller'[cxt'] = "waiting"
      BY <1>1, <2>4 DEF IInv, ContextsAlive, ContextTaken, Busy, writerVars
    <3> QED BY <2>2, <3>1, <3>2 DEF ContextsAlive, Busy, q
  <2>8. ContextTaken'
    <3> SUFFICES ASSUME writer' \in Busy PROVE cxt' \in Caller /\ \A i \in DOMAIN q : q[i] # cxt'
      BY DEF ContextTaken, Busy, q
    <3>1. cxt' = cxt /\ writer \in Busy
      BY <1>1 DEF writerVars
    <3>2. cxt \in Caller /\ cxt # c /\ \A j \in DOMAIN write_queue : write_queue[j] # cxt
      BY <2>4, <3>1 DEF IInv, ContextsAlive, ContextTaken, Busy
    <3> QED BY <2>2, <3>1, <3>2
  <2> QED BY <1>2, <2>3, <2>7, <2>8 DEF IInv
<1>4. CASE accepted(c)
  <2>1. caller[c] = "answered" /\ caller' = [caller EXCEPT ![c] = "idle"] /\ UNCHANGED write_queue
    BY <1>4 DEF accepted
  <2>2. TypeOK'
    BY <1>1, <2>1 DEF IInv, TypeOK, writerVars, lockVars, readVars
  <2>3. \A d \in Caller : caller[d] = "waiting" => caller'[d] = "waiting"
    BY <2>1 DEF IInv, TypeOK
  <2>4. \A j \in DOMAIN write_queue : write_queue[j] \in Caller
    BY LenProperties DEF IInv, TypeOK
  <2>5. ContextsAlive' /\ ContextTaken'
    BY <1>1, <2>1, <2>3, <2>4 DEF IInv, ContextsAlive, ContextTaken, writerVars
  <2> QED BY <1>2, <2>2, <2>5 DEF IInv
<1> QED BY <1>3, <1>4

\* Taking a context, from the head of the loop or under the lock.
LEMMA ContextPopped ==
  ASSUME IInv, write_queue # <<>>,
         cxt' = Head(write_queue), write_queue' = Tail(write_queue), UNCHANGED caller
  PROVE  /\ write_queue' \in Seq(Caller) /\ Len(write_queue') <= Cardinality(Caller)
         /\ cxt' \in Caller /\ ContextsAlive' /\ ContextTaken'
<1> DEFINE q == write_queue'
<1>1. /\ cxt' \in Caller /\ caller'[cxt'] = "waiting"
      /\ q \in Seq(Caller) /\ Len(q) <= Cardinality(Caller)
      /\ \A i \in DOMAIN q : q[i] # cxt' /\ caller'[q[i]] = "waiting"
      /\ \A i, j \in DOMAIN q : q[i] = q[j] => i = j
  BY HeadTaken
<1>2. ContextsAlive'
  BY <1>1 DEF ContextsAlive
<1>3. ContextTaken'
  BY <1>1 DEF ContextTaken
<1> QED BY <1>1, <1>2, <1>3

\* The steps of the writer before it writes.
LEMMA StepOfLocking ==
  ASSUME IInv, leave_loop \/ close_gate \/ lock_write \/ visit \/ stop_write_processing
  PROVE  IInv'
<1>1. UNCHANGED <<caller, write_queue, cxt, is_syncing, writer_lock, timed, current, readVars>>
  BY DEF leave_loop, close_gate, lock_write, visit, stop_write_processing,
         callVars, writerVars, lockVars
<1>2. reader' = reader /\ reader_lock' = reader_lock /\ Reading' = Reading
  BY <1>1, ReadingUnchanged DEF readVars
<1>3. writer_lock \in Lock /\ locks \in [Lock -> [readers : 0..MaxShared, writer : BOOLEAN]]
      /\ 0 \in Lock
  BY QueueAssumption DEF IInv, TypeOK, Lock
<1>4. writer' \in Busy => writer \in Busy
  BY DEF leave_loop, close_gate, lock_write, visit, stop_write_processing, Busy, writerVars
<1>5. ContextsAlive' /\ ContextTaken'
  BY <1>1, <1>4 DEF IInv, ContextsAlive, ContextTaken, Busy
<1>6. CASE close_gate
  <2>1. writer = "locking" /\ writer' = "draining" /\ running' = running
        /\ locks' = [locks EXCEPT ![writer_lock].writer = TRUE]
    BY <1>6 DEF close_gate, callVars
  <2>2. TypeOK'
    BY <1>1, <1>2, <1>3, <2>1 DEF IInv, TypeOK
  <2>3. OneLock'
    <3> SUFFICES ASSUME ~timed
                 PROVE  /\ writer_lock = 0 /\ locks'[0].readers = locks[0].readers
                        /\ locks'[0].writer = TRUE
      BY <1>1, <1>2, <2>1 DEF IInv, OneLock
    <3> QED BY <1>3, <2>1 DEF IInv, OneLock
  <2> QED BY <1>5, <2>2, <2>3 DEF IInv
<1>7. CASE leave_loop \/ lock_write \/ visit \/ stop_write_processing
  <2>1. locks' = locks /\ running' \in {running, FALSE}
    BY <1>7 DEF leave_loop, lock_write, visit, stop_write_processing, lockVars, callVars
  <2>2. TypeOK'
    BY <1>1, <1>2, <1>7, <2>1 DEF IInv, TypeOK, leave_loop, lock_write, visit,
                                  stop_write_processing, writerVars
  <2>3. OneLock'
    <3> SUFFICES ASSUME ~timed
                 PROVE  /\ (writer' \in Busy \cup {"answered"} /\ writer' # "locking")
                             = (writer \in Busy \cup {"answered"} /\ writer # "locking")
                        /\ writer' \in {"locked", "visited", "answered"} => locks[0].readers = 0
      BY <1>1, <1>2, <2>1 DEF IInv, OneLock, Busy
    <3> QED BY <1>7 DEF IInv, OneLock, Busy, leave_loop, lock_write, visit,
                        stop_write_processing, writerVars
  <2> QED BY <1>5, <2>2, <2>3 DEF IInv
<1> QED BY <1>6, <1>7

\* The writer takes the next request.
LEMMA StepPop ==
  ASSUME IInv, pop
  PROVE  IInv'
<1>1. /\ writer = "polling" /\ write_queue # <<>> /\ writer' = "locking"
      /\ writer_lock' = current /\ cxt' = Head(write_queue) /\ write_queue' = Tail(write_queue)
      /\ UNCHANGED <<caller, running, is_syncing, timed, locks, current, reader, reader_lock>>
  BY DEF pop, lockVars, readVars
<1>2. /\ write_queue' \in Seq(Caller) /\ Len(write_queue') <= Cardinality(Caller)
      /\ cxt' \in Caller /\ ContextsAlive' /\ ContextTaken'
  BY <1>1, ContextPopped
<1>3. TypeOK'
  BY <1>1, <1>2 DEF IInv, TypeOK
<1>4. OneLock'
  BY <1>1, ReadingUnchanged DEF IInv, OneLock
<1> QED BY <1>2, <1>3, <1>4 DEF IInv

\* Only a build whose write locks time out moves on to the next lock.
LEMMA StepNextLock ==
  ASSUME IInv, next_lock
  PROVE  IInv'
<1>1. /\ timed /\ writer = "draining" /\ writer' = "locking"
      /\ current' = (current + 1) % NumLocks /\ writer_lock' = current'
      /\ locks' = [locks EXCEPT ![writer_lock].writer = FALSE, ![current'] = Free]
      /\ UNCHANGED <<caller, write_queue, running, cxt, is_syncing, timed, reader, reader_lock>>
  BY DEF next_lock, callVars, readVars
<1>2. current' \in Lock
  BY <1>1, QueueAssumption DEF IInv, TypeOK, Lock
<1>3. Free \in [readers : 0..MaxShared, writer : BOOLEAN]
  BY QueueAssumption DEF Free
<1>4. locks' \in [Lock -> [readers : 0..MaxShared, writer : BOOLEAN]]
  BY <1>1, <1>2, <1>3 DEF IInv, TypeOK
<1>5. TypeOK'
  BY <1>1, <1>2, <1>4 DEF IInv, TypeOK
<1>6. ContextsAlive' /\ ContextTaken'
  BY <1>1 DEF IInv, ContextsAlive, ContextTaken
<1>7. OneLock'
  BY <1>1 DEF OneLock
<1> QED BY <1>5, <1>6, <1>7 DEF IInv

\* The promise is set: from here on the writer does not look at the context.
LEMMA StepSetValue ==
  ASSUME IInv, set_value
  PROVE  IInv'
<1>1. /\ writer = "visited" /\ writer' = "answered" /\ caller' = [caller EXCEPT ![cxt] = "answered"]
      /\ UNCHANGED <<write_queue, running, cxt, is_syncing, writer_lock, timed, locks, current,
                     reader, reader_lock>>
  BY DEF set_value, lockVars, readVars
<1>2. cxt \in Caller /\ \A i \in DOMAIN write_queue : write_queue[i] # cxt
  BY <1>1 DEF IInv, ContextTaken
<1>3. TypeOK'
  BY <1>1, <1>2 DEF IInv, TypeOK
<1>4. \A i \in DOMAIN write_queue : write_queue[i] \in Caller
  BY LenProperties DEF IInv, TypeOK
<1>5. \A i \in DOMAIN write_queue : caller'[write_queue[i]] = caller[write_queue[i]]
  BY <1>1, <1>2, <1>4 DEF IInv, TypeOK
<1>6. ContextsAlive' /\ ContextTaken'
  BY <1>1, <1>5 DEF IInv, ContextsAlive, ContextTaken
<1>7. OneLock'
  BY <1>1, ReadingUnchanged DEF IInv, OneLock
<1> QED BY <1>3, <1>6, <1>7 DEF IInv

\* The lock is let go, or kept for the next context.
LEMMA StepNextWrite ==
  ASSUME IInv, next_write
  PROVE  IInv'
<1>1. /\ writer = "answered" /\ is_syncing' \in {is_syncing, FALSE}
      /\ UNCHANGED <<caller, running, writer_lock, timed, current, reader, reader_lock>>
  BY DEF next_write, readVars
<1>2. Reading' = Reading
  BY <1>1, ReadingUnchanged
<1>3. CASE Unlock
  <2>1. /\ locks' = [locks EXCEPT ![writer_lock].writer = FALSE]
        /\ writer' = "polling" /\ cxt' = NoOne /\ write_queue' = write_queue
    BY <1>3 DEF Unlock
  <2>2. locks' \in [Lock -> [readers : 0..MaxShared, writer : BOOLEAN]]
    BY <2>1 DEF IInv, TypeOK
  <2>3. TypeOK'
    BY <1>1, <2>1, <2>2 DEF IInv, TypeOK
  <2>4. ContextsAlive' /\ ContextTaken'
    BY <1>1, <2>1 DEF IInv, ContextsAlive, ContextTaken
  <2>5. OneLock'
    <3>1. 0 \in Lock
      BY QueueAssumption DEF Lock
    <3>2. ASSUME ~timed
          PROVE  /\ writer_lock = 0 /\ locks'[0].readers = locks[0].readers
                 /\ locks'[0].writer = FALSE
      BY <2>1, <3>1, <3>2 DEF IInv, OneLock, TypeOK
    <3>3. (writer' \in {"draining", "locked", "visited", "answered"}) = FALSE
          /\ writer' \notin {"locked", "visited", "answered"}
      BY <2>1
    <3> QED BY <1>1, <1>2, <3>2, <3>3 DEF IInv, OneLock
  <2> QED BY <2>3, <2>4, <2>5 DEF IInv
<1>4. CASE /\ write_queue # <<>> /\ cxt' = Head(write_queue) /\ write_queue' = Tail(write_queue)
           /\ writer' = "locked" /\ UNCHANGED locks
  <2>1. /\ write_queue' \in Seq(Caller) /\ Len(write_queue') <= Cardinality(Caller)
        /\ cxt' \in Caller /\ ContextsAlive' /\ ContextTaken'
    BY <1>1, <1>4, ContextPopped
  <2>2. TypeOK'
    BY <1>1, <1>4, <2>1 DEF IInv, TypeOK
  <2>3. OneLock'
    BY <1>1, <1>2, <1>4 DEF IInv, OneLock
  <2> QED BY <2>1, <2>2, <2>3 DEF IInv
<1> QED BY <1>3, <1>4 DEF next_write

\* The readers: the one lock counts each of them once, and lets none in while
\* the writer waits for it or holds it.
LEMMA StepOfReaders ==
  ASSUME IInv, NEW r \in Reader,
         with_read_lock(r) \/ lock_read(r) \/ read_timeout(r) \/ unlock_read(r)
  PROVE  IInv'
<1>1. UNCHANGED <<caller, write_queue, running, writer, cxt, is_syncing, writer_lock, timed, current>>
  BY DEF with_read_lock, lock_read, read_timeout, unlock_read, callVars, writerVars, lockVars
<1>2. ContextsAlive' /\ ContextTaken'
  BY <1>1 DEF IInv, ContextsAlive, ContextTaken
<1>3. /\ reader_lock[r] \in Lock /\ locks[reader_lock[r]] \in [readers : 0..MaxShared, writer : BOOLEAN]
      /\ current \in Lock /\ 0 \in Lock /\ reader \in [Reader -> {"idle", "waiting", "reading"}]
  BY QueueAssumption DEF IInv, TypeOK, Lock
<1>4. CASE with_read_lock(r) \/ read_timeout(r)
  <2>1. /\ reader' \in [Reader -> {"idle", "waiting", "reading"}]
        /\ reader_lock' \in [Reader -> Lock] /\ locks' = locks
        /\ ~timed => \A s \in Reader : reader_lock'[s] = 0
    <3>1. /\ reader_lock \in [Reader -> Lock]
          /\ ~timed => current = 0 /\ \A s \in Reader : reader_lock[s] = 0
      BY DEF IInv, TypeOK, OneLock
    <3>2. /\ \E pc \in {"waiting", "idle"} : reader' = [reader EXCEPT ![r] = pc]
          /\ locks' = locks
      BY <1>4 DEF with_read_lock, read_timeout, lockVars
    <3>3. reader_lock' = [reader_lock EXCEPT ![r] = current] \/ reader_lock' = reader_lock
      BY <1>4 DEF with_read_lock, read_timeout
    <3>4. reader_lock' \in [Reader -> Lock] /\ (~timed => \A s \in Reader : reader_lock'[s] = 0)
      BY <1>3, <3>1, <3>3
    <3>5. reader' \in [Reader -> {"idle", "waiting", "reading"}]
      BY <1>3, <3>2
    <3> QED BY <3>2, <3>4, <3>5
  <2>2. Reading' = Reading
    BY <1>3, <1>4 DEF Reading, with_read_lock, read_timeout
  <2>3. TypeOK'
    BY <1>1, <2>1 DEF IInv, TypeOK
  <2>4. OneLock'
    BY <1>1, <2>1, <2>2 DEF IInv, OneLock
  <2> QED BY <1>2, <2>3, <2>4 DEF IInv
<1>5. CASE lock_read(r)
  <2>1. /\ reader[r] = "waiting" /\ reader' = [reader EXCEPT ![r] = "reading"]
        /\ ~locks[reader_lock[r]].writer /\ locks[reader_lock[r]].readers # MaxShared
        /\ locks' = [locks EXCEPT ![reader_lock[r]].readers = @ + 1]
        /\ reader_lock' = reader_lock
    BY <1>5 DEF lock_read, Shut
  <2>2. locks[reader_lock[r]].readers + 1 \in 0..MaxShared
    BY <1>3, <2>1, QueueAssumption
  <2>3. locks' \in [Lock -> [readers : 0..MaxShared, writer : BOOLEAN]]
    BY <1>3, <2>1, <2>2 DEF IInv, TypeOK
  <2>4. TypeOK'
    BY <1>1, <1>3, <2>1, <2>3 DEF IInv, TypeOK
  <2>5. r \notin Reading /\ Reading' = Reading \cup {r}
    BY <1>3, <2>1 DEF Reading
  <2>6. Cardinality(Reading') = Cardinality(Reading) + 1
    BY <2>5, ReadingCounted
  <2>7. ASSUME ~timed
        PROVE  /\ reader_lock[r] = 0 /\ locks'[0].readers = locks[0].readers + 1
               /\ locks'[0].writer = locks[0].writer /\ ~locks[0].writer
    BY <1>3, <2>1, <2>7 DEF IInv, TypeOK, OneLock
  <2>8. OneLock'
    BY <1>1, <2>1, <2>6, <2>7 DEF IInv, OneLock
  <2> QED BY <1>2, <2>4, <2>8 DEF IInv
<1>6. CASE unlock_read(r)
  <2>1. /\ reader[r] = "reading" /\ reader' = [reader EXCEPT ![r] = "idle"]
        /\ locks' = [locks EXCEPT ![reader_lock[r]].readers = IF @ = 0 THEN MaxShared ELSE @ - 1]
        /\ reader_lock' = reader_lock
    BY <1>6 DEF unlock_read
  <2> DEFINE n == locks[reader_lock[r]].readers
             m == IF n = 0 THEN MaxShared ELSE n - 1
  <2>2. m \in 0..MaxShared
    BY <1>3, QueueAssumption
  <2>3. locks' = [locks EXCEPT ![reader_lock[r]].readers = m]
    BY <2>1
  <2> HIDE DEF m
  <2>4. locks' \in [Lock -> [readers : 0..MaxShared, writer : BOOLEAN]]
    BY <1>3, <2>2, <2>3 DEF IInv, TypeOK
  <2>5. TypeOK'
    BY <1>1, <1>3, <2>1, <2>4 DEF IInv, TypeOK
  <2>6. r \in Reading /\ Reading' = Reading \ {r}
    BY <1>3, <2>1 DEF Reading
  <2>7. Cardinality(Reading') = Cardinality(Reading) - 1 /\ Cardinality(Reading) # 0
    BY <2>6, ReadingCounted
  <2>8. ASSUME ~timed
        PROVE  /\ reader_lock[r] = 0 /\ locks'[0].readers = m
               /\ locks'[0].writer = locks[0].writer
    BY <1>3, <2>3, <2>8 DEF IInv, TypeOK, OneLock
  <2>9. ~timed => m = Cardinality(Reading')
    BY <2>7, <2>8 DEF IInv, OneLock, m
  <2>10. OneLock'
    BY <1>1, <2>1, <2>7, <2>8, <2>9 DEF IInv, OneLock
  <2> QED BY <1>2, <2>5, <2>10 DEF IInv
<1> QED BY <1>4, <1>5, <1>6

\* A step that changes nothing.
LEMMA Stutter ==
  ASSUME IInv, UNCHANGED vars
  PROVE  IInv'
<1>1. UNCHANGED <<caller, write_queue, running, writer, cxt, is_syncing, writer_lock, timed, locks,
                  current, reader, reader_lock>>
  BY DEF vars, callVars, writerVars, lockVars, readVars
<1>2. TypeOK' /\ ContextsAlive' /\ ContextTaken'
  BY <1>1 DEF IInv, TypeOK, ContextsAlive, ContextTaken
<1>3. OneLock'
  BY <1>1, ReadingUnchanged DEF IInv, OneLock
<1> QED BY <1>2, <1>3 DEF IInv

-----------------------------------------------------------------------------
(* The theorems.                                                           *)

\* The invariant is inductive: it holds at first, and every step of a caller,
\* the writer or a reader keeps it.
THEOREM Invariant == Spec => []IInv
<1>1. ASSUME IInv, [Next]_vars
      PROVE  IInv'
  <2>1. ASSUME NEW c \in Caller, accept(c) \/ accepted(c)
        PROVE  IInv'
    BY <1>1, <2>1, StepOfCallers
  <2>2. CASE Writing
    BY <1>1, <2>2, StepPop, StepOfLocking, StepNextLock, StepSetValue, StepNextWrite DEF Writing
  <2>3. CASE stop_write_processing
    BY <1>1, <2>3, StepOfLocking
  <2>4. ASSUME NEW r \in Reader,
               with_read_lock(r) \/ lock_read(r) \/ read_timeout(r) \/ unlock_read(r)
        PROVE  IInv'
    BY <1>1, <2>4, StepOfReaders
  <2>5. CASE UNCHANGED vars
    BY <1>1, <2>5, Stutter
  <2> QED BY <1>1, <2>1, <2>2, <2>3, <2>4, <2>5 DEF Next
<1> QED BY <1>1, Initial, PTL DEF Spec

\* Type correctness; in particular the queue never holds more contexts than
\* there are callers, and no lock counts more readers than it can.
THEOREM TypeCorrect == Spec => []TypeOK
<1>1. IInv => TypeOK
  BY DEF IInv
<1> QED BY <1>1, Invariant, PTL

\* The promise of accept_block and accept_transaction, for any number of
\* callers, readers and locks: a context the writer may still look at belongs
\* to a caller that has not returned, and no context is queued twice.
THEOREM ContextsCorrect == Spec => []ContextsAlive
<1>1. IInv => ContextsAlive
  BY DEF IInv
<1> QED BY <1>1, Invariant, PTL

\* A build that waits for its one lock never reads while it writes, for any
\* number of readers and any limit on the readers a lock counts.
THEOREM PlainLockCorrect == Spec => []PlainLockExclusive
<1>1. ASSUME IInv PROVE PlainLockExclusive
  <2> SUFFICES ASSUME ~timed, writer \in {"locked", "visited", "answered"}
               PROVE  \A r \in Reader : reader[r] # "reading"
    BY DEF PlainLockExclusive, WritesExclusive
  <2>1. Cardinality(Reading) = 0
    BY <1>1 DEF IInv, OneLock
  <2> QED BY <1>1, <2>1, ReadingCounted
<1> QED BY <1>1, Invariant, PTL

-----------------------------------------------------------------------------
(* The virtual race of the witnesses.                                      *)

\* The inductive invariant: who is not registered yet will start at the end
\* of virtual time.
RaceInv ==
  /\ ScheduleTypeOK /\ RaceAhead
  /\ \A w \in Witness \ registered :
       virtual_last_update[w] <= current_virtual_time /\ virtual_scheduled_time[w] = MaxTime

\* Every set of naturals has a least element.
LEMMA LeastTime ==
  ASSUME NEW S, S \subseteq Nat, S # {}
  PROVE  \E m \in S : \A n \in S : m <= n
<1>1. PICK m \in S : \A n \in S : <<n, m>> \notin OpToRel(<, Nat)
  BY NatLessThanWellFounded, WFMin, Zenon
<1>2. \A n \in S : ~(n < m)
  BY <1>1 DEF OpToRel
<1> QED BY <1>2

\* The constants of the schedule.
LEMMA ScheduleConstants ==
  /\ MaxTime \in Nat /\ NumWitnesses \in Nat /\ MaxVotes \in Nat /\ MaxVoteChanges \in Nat
  /\ IsFiniteSet(Witness) /\ Witness \subseteq Int
<1>1. MaxTime \in Nat /\ NumWitnesses \in Nat /\ MaxVotes \in Nat /\ MaxVoteChanges \in Nat
  BY ScheduleAssumption
<1>2. IsFiniteSet(1..NumWitnesses)
  BY <1>1, FS_Interval
<1> QED BY <1>1, <1>2 DEF Witness

\* Virtual time wraps around.
LEMMA WrapType ==
  ASSUME NEW n \in Int
  PROVE  Wrap(n) \in 0..MaxTime /\ (n \in 0..MaxTime => Wrap(n) = n)
<1>1. MaxTime \in Nat
  BY ScheduleConstants
<1>2. n % (MaxTime + 1) \in 0..MaxTime
  BY <1>1
<1>3. n \in 0..MaxTime => n % (MaxTime + 1) = n
  BY <1>1
<1> QED BY <1>2, <1>3 DEF Wrap

\* The time for a lap is a virtual time.
LEMMA LapTimeType ==
  ASSUME ScheduleTypeOK, NEW w \in Witness
  PROVE  LapTime(w) \in 0..MaxTime
<1>1. MaxTime \in Nat /\ votes[w] \in 0..MaxVotes /\ MaxVotes \in Nat
  BY ScheduleConstants DEF ScheduleTypeOK
<1> DEFINE b == votes[w] + 1
           q == MaxTime \div b
<1>2. b \in Nat \ {0}
  BY <1>1
<1> HIDE DEF b
<1>3. q \in Nat /\ b * q <= MaxTime
  BY <1>1, <1>2
<1> HIDE DEF q
<1>4. q <= b * q
  BY <1>2, <1>3
<1>5. q \in 0..MaxTime
  BY <1>1, <1>2, <1>3, <1>4
<1> QED BY <1>5 DEF LapTime, Lap, q, b

\* Whoever the loop has not come to is scheduled no earlier than those it
\* has looked at.
LEMMA ProcessedFirst ==
  ASSUME ScheduleTypeOK, NEW p \in Processed, NEW w \in registered \ Processed
  PROVE  virtual_scheduled_time[p] <= virtual_scheduled_time[w]
<1>1. /\ p \in Witness /\ w \in Witness /\ MaxTime \in Nat
      /\ \A u \in Witness : virtual_scheduled_time[u] \in Int
      /\ Witness \subseteq Int /\ IsFiniteSet(Witness)
  BY ScheduleConstants DEF ScheduleTypeOK, Processed
<1> SUFFICES ASSUME virtual_scheduled_time[w] < virtual_scheduled_time[p]
             PROVE  FALSE
  BY <1>1
<1> DEFINE before(x) == {u \in Timeshare : Earlier(u, x)}
<1>2. Timeshare \subseteq Witness
  BY DEF Timeshare, First, ScheduleTypeOK
<1>3. before(w) \subseteq before(p)
  <2> SUFFICES ASSUME NEW u \in Timeshare, Earlier(u, w) PROVE Earlier(u, p)
    OBVIOUS
  <2>1. u \in Witness /\ virtual_scheduled_time[u] \in Int /\ virtual_scheduled_time[w] \in Int
        /\ virtual_scheduled_time[p] \in Int
    BY <1>1, <1>2
  <2> QED BY <2>1 DEF Earlier
<1>4. IsFiniteSet(before(p))
  BY <1>1, <1>2, FS_Subset
<1>5. /\ Cardinality(before(w)) <= Cardinality(before(p))
      /\ Cardinality(before(w)) \in Nat /\ Cardinality(before(p)) \in Nat
  BY <1>3, <1>4, FS_Subset, FS_CardinalityType
<1>6. /\ Cardinality(before(p)) < Places /\ ~(Cardinality(before(w)) < Places)
  BY DEF Processed
<1>7. Places \in Int
  <2>1. Elected \subseteq Witness
    BY DEF Elected, First, ScheduleTypeOK
  <2>2. IsFiniteSet(Elected)
    BY <1>1, <2>1, FS_Subset
  <2>3. Cardinality(Elected) \in Nat /\ MaxWitnesses \in Nat
    BY <2>2, FS_CardinalityType, ScheduleAssumption
  <2> QED BY <2>3 DEF Places
<1> QED BY <1>5, <1>6, <1>7

\* The new virtual time is the latest scheduled time of those looked at.
LEMMA LatestTime ==
  ASSUME RaceInv, Processed # {}
  PROVE  /\ NewVirtualTime \in 0..MaxTime
         /\ current_virtual_time <= NewVirtualTime
         /\ \E w \in Processed : NewVirtualTime = virtual_scheduled_time[w]
<1> DEFINE T == {virtual_scheduled_time[w] : w \in Processed}
           S == {MaxTime - t : t \in T}
<1>1. MaxTime \in Nat /\ T # {} /\ T \subseteq 0..MaxTime /\ Processed \subseteq registered
      /\ current_virtual_time \in 0..MaxTime
  BY ScheduleConstants DEF RaceInv, ScheduleTypeOK, Processed
<1>2. S \subseteq Nat /\ S # {}
  <2> HIDE DEF T
  <2>1. \A t \in T : MaxTime - t \in Nat /\ MaxTime - t \in S
    BY <1>1
  <2>2. PICK t \in T : TRUE
    BY <1>1
  <2> QED BY <2>1, <2>2
<1>3. PICK m \in S : \A n \in S : m <= n
  BY <1>2, LeastTime
<1>4. PICK t \in T : m = MaxTime - t
  BY <1>3
<1>5. \A x \in T : x <= t
  <2> HIDE DEF T
  <2>1. \A x \in T : MaxTime - t <= MaxTime - x
    BY <1>3, <1>4
  <2> QED BY <1>1, <1>4, <2>1
<1>6. \A w \in Processed : virtual_scheduled_time[w] <= t
  BY <1>5
<1>7. NewVirtualTime \in T
  BY <1>6 DEF NewVirtualTime
<1>8. \A w \in Processed : current_virtual_time <= virtual_scheduled_time[w]
  BY <1>1 DEF RaceInv, RaceAhead
<1> QED BY <1>1, <1>7, <1>8

\* At the start of the race all are at its start.
LEMMA InitRace == ScheduleInit => RaceInv
<1> SUFFICES ASSUME ScheduleInit PROVE RaceInv
  OBVIOUS
<1>1. /\ MaxTime \in Nat /\ MaxVotes \in Nat /\ MaxVoteChanges \in Nat /\ FirstWitnesses \in Nat
      /\ NumWitnesses \in Nat /\ FirstWitnesses <= NumWitnesses
  BY ScheduleAssumption
<1>2. 1..FirstWitnesses \subseteq Witness
  BY <1>1 DEF Witness
<1>3. ScheduleTypeOK
  BY <1>1, <1>2 DEF ScheduleInit, ScheduleTypeOK
<1>4. RaceAhead
  BY <1>1, <1>2 DEF ScheduleInit, RaceAhead
<1> QED BY <1>1, <1>3, <1>4 DEF ScheduleInit, RaceInv

\* A witness registers, or changes its key.
LEMMA WitnessUpdateRaces ==
  ASSUME RaceInv, NEW w \in Witness, NEW key \in BOOLEAN, witness_update(w, key)
  PROVE  RaceInv'
<1>1. /\ votes' = votes /\ virtual_position' = virtual_position
      /\ virtual_last_update' = virtual_last_update
      /\ virtual_scheduled_time' = virtual_scheduled_time
      /\ current_virtual_time' = current_virtual_time /\ active' = active /\ changes' = changes
      /\ registered' = registered \cup {w}
      /\ has_key' \subseteq has_key \cup {w}
  BY DEF witness_update, virtualVars
<1>2. ScheduleTypeOK'
  BY <1>1 DEF RaceInv, ScheduleTypeOK
<1>3. current_virtual_time <= MaxTime
  BY ScheduleConstants DEF RaceInv, ScheduleTypeOK
<1>4. \A u \in Witness : /\ virtual_last_update[u] <= current_virtual_time
                         /\ current_virtual_time <= virtual_scheduled_time[u]
  BY <1>3 DEF RaceInv, RaceAhead
<1>5. RaceAhead'
  BY <1>1, <1>2, <1>4 DEF RaceAhead, ScheduleTypeOK
<1>6. \A u \in Witness \ registered' :
        virtual_last_update[u] <= current_virtual_time /\ virtual_scheduled_time[u] = MaxTime
  BY <1>1 DEF RaceInv
<1> QED BY <1>1, <1>2, <1>5, <1>6 DEF RaceInv

\* The votes for a witness change.
LEMMA AdjustVoteRaces ==
  ASSUME RaceInv, NEW w \in Witness, NEW v \in 0..MaxVotes, adjust_witness_vote(w, v)
  PROVE  RaceInv'
<1> DEFINE position == Wrap(virtual_position[w] + votes[w] *
                              (current_virtual_time - virtual_last_update[w]))
           t == Wrap(current_virtual_time + (Lap - position) \div (v + 1))
           s == IF t < current_virtual_time THEN MaxTime ELSE t
<1>1. /\ w \in registered /\ changes < MaxVoteChanges /\ changes' = changes + 1
      /\ votes' = [votes EXCEPT ![w] = v]
      /\ virtual_position' = [virtual_position EXCEPT ![w] = position]
      /\ virtual_last_update' = [virtual_last_update EXCEPT ![w] = current_virtual_time]
      /\ virtual_scheduled_time' = [virtual_scheduled_time EXCEPT ![w] = s]
      /\ registered' = registered /\ has_key' = has_key /\ active' = active
      /\ current_virtual_time' = current_virtual_time
  BY DEF adjust_witness_vote
<1>2. /\ MaxTime \in Nat /\ MaxVotes \in Nat /\ MaxVoteChanges \in Nat
      /\ current_virtual_time \in 0..MaxTime /\ changes \in 0..MaxVoteChanges
      /\ virtual_position[w] \in Int /\ votes[w] \in Int /\ virtual_last_update[w] \in Int
  BY ScheduleConstants DEF RaceInv, ScheduleTypeOK
<1>3. position \in 0..MaxTime
  <2>1. virtual_position[w] + votes[w] * (current_virtual_time - virtual_last_update[w]) \in Int
    BY <1>2
  <2> QED BY <2>1, WrapType
<1> HIDE DEF position
<1>4. t \in 0..MaxTime
  <2>1. current_virtual_time + (Lap - position) \div (v + 1) \in Int
    BY <1>2, <1>3 DEF Lap
  <2> QED BY <2>1, WrapType
<1> HIDE DEF t
<1>5. s \in 0..MaxTime /\ current_virtual_time <= s
  BY <1>2, <1>4
<1> HIDE DEF s
<1>6. changes' \in 0..MaxVoteChanges
  BY <1>1, <1>2
<1>7. ScheduleTypeOK'
  BY <1>1, <1>2, <1>3, <1>5, <1>6 DEF RaceInv, ScheduleTypeOK
<1>8. RaceAhead'
  <2> SUFFICES ASSUME NEW u \in registered
               PROVE  /\ virtual_last_update'[u] <= current_virtual_time
                      /\ current_virtual_time <= virtual_scheduled_time'[u]
    BY <1>1 DEF RaceAhead
  <2>1. u \in Witness
    BY DEF RaceInv, ScheduleTypeOK
  <2>2. CASE u = w
    <3>1. virtual_last_update'[u] = current_virtual_time /\ virtual_scheduled_time'[u] = s
      BY <1>1, <2>1, <2>2 DEF RaceInv, ScheduleTypeOK
    <3> QED BY <1>2, <1>5, <3>1
  <2>3. CASE u # w
    <3>1. /\ virtual_last_update'[u] = virtual_last_update[u]
          /\ virtual_scheduled_time'[u] = virtual_scheduled_time[u]
      BY <1>1, <2>1, <2>3 DEF RaceInv, ScheduleTypeOK
    <3> QED BY <3>1 DEF RaceInv, RaceAhead
  <2> QED BY <2>2, <2>3
<1>9. \A u \in Witness \ registered' :
        virtual_last_update'[u] <= current_virtual_time' /\ virtual_scheduled_time'[u] = MaxTime
  <2> SUFFICES ASSUME NEW u \in Witness \ registered
               PROVE  /\ virtual_last_update'[u] <= current_virtual_time
                      /\ virtual_scheduled_time'[u] = MaxTime
    BY <1>1
  <2>1. /\ virtual_last_update'[u] = virtual_last_update[u]
        /\ virtual_scheduled_time'[u] = virtual_scheduled_time[u]
    BY <1>1 DEF RaceInv, ScheduleTypeOK
  <2> QED BY <2>1 DEF RaceInv
<1> QED BY <1>7, <1>8, <1>9 DEF RaceInv

\* The next round is drawn up.
LEMMA UpdateScheduleRaces ==
  ASSUME RaceInv, update_witness_schedule
  PROVE  RaceInv'
<1>1. /\ registered' = registered /\ has_key' = has_key /\ votes' = votes /\ changes' = changes
      /\ active' = Elected \cup Timeshare
  BY DEF update_witness_schedule
<1>2. active' \subseteq registered /\ ScheduleTypeOK /\ MaxTime \in Nat
      /\ registered \subseteq Witness /\ current_virtual_time \in 0..MaxTime
  BY <1>1, ScheduleConstants DEF RaceInv, ScheduleTypeOK, Elected, Timeshare, First
<1>3. \A w \in Witness : LapTime(w) \in 0..MaxTime
  BY <1>2, LapTimeType
<1>4. CASE reset_virtual_schedule_time
  <2>1. /\ current_virtual_time' = 0
        /\ virtual_position' = [w \in Witness |-> 0]
        /\ virtual_last_update' = [w \in Witness |-> 0]
        /\ virtual_scheduled_time' =
             [w \in Witness |-> IF w \in registered THEN LapTime(w) ELSE MaxTime]
    BY <1>4 DEF reset_virtual_schedule_time
  <2>2. 0 \in 0..MaxTime /\ MaxTime \in 0..MaxTime
    BY <1>2
  <2>3. ScheduleTypeOK'
    BY <1>1, <1>2, <1>3, <2>1, <2>2 DEF ScheduleTypeOK
  <2>4. RaceAhead'
    BY <1>1, <1>2, <1>3, <2>1 DEF RaceAhead
  <2> QED BY <1>1, <2>1, <2>2, <2>3, <2>4 DEF RaceInv
<1>5. CASE StartNextLap /\ ~Overflow
  <2> DEFINE t == NewVirtualTime
  <2>1. /\ current_virtual_time' = t
        /\ virtual_position' = [w \in Witness |-> IF w \in Processed THEN 0 ELSE virtual_position[w]]
        /\ virtual_last_update' =
             [w \in Witness |-> IF w \in Processed THEN t ELSE virtual_last_update[w]]
        /\ virtual_scheduled_time' =
             [w \in Witness |-> IF w \in Processed THEN Wrap(t + LapTime(w))
                                ELSE virtual_scheduled_time[w]]
    BY <1>5 DEF StartNextLap
  <2>2. t \in 0..MaxTime /\ current_virtual_time <= t
    <3>1. CASE Processed = {}
      BY <1>2, <3>1 DEF NewVirtualTime
    <3>2. CASE Processed # {}
      BY <3>2, LatestTime
    <3> QED BY <3>1, <3>2
  <2>3. Processed \subseteq registered
    BY DEF Processed
  <2>4. \A w \in registered \ Processed : t <= virtual_scheduled_time[w]
    <3>1. CASE Processed = {}
      BY <3>1 DEF NewVirtualTime, RaceInv, RaceAhead
    <3>2. CASE Processed # {}
      <4>1. PICK p \in Processed : t = virtual_scheduled_time[p]
        BY <3>2, LatestTime
      <4> QED BY <1>2, <4>1, ProcessedFirst
    <3> QED BY <3>1, <3>2
  <2>5. \A w \in Processed : Wrap(t + LapTime(w)) = t + LapTime(w) /\ t + LapTime(w) \in 0..MaxTime
    <3> SUFFICES ASSUME NEW w \in Processed
                 PROVE  Wrap(t + LapTime(w)) = t + LapTime(w) /\ t + LapTime(w) \in 0..MaxTime
      OBVIOUS
    <3>1. ~(t + LapTime(w) > MaxTime) /\ LapTime(w) \in 0..MaxTime
      BY <1>2, <1>3, <1>5, <2>3 DEF Overflow
    <3> HIDE DEF t
    <3>2. t + LapTime(w) \in 0..MaxTime
      BY <1>2, <2>2, <3>1
    <3> QED BY <1>2, <3>2, WrapType
  <2> HIDE DEF t
  <2>6. ScheduleTypeOK'
    <3>1. /\ virtual_position' \in [Witness -> 0..MaxTime]
          /\ virtual_last_update' \in [Witness -> 0..MaxTime]
          /\ virtual_scheduled_time' \in [Witness -> 0..MaxTime]
      BY <1>2, <2>1, <2>2, <2>5 DEF ScheduleTypeOK
    <3> QED BY <1>1, <1>2, <2>1, <2>2, <3>1 DEF ScheduleTypeOK
  <2>7. \A w \in Witness : virtual_last_update[w] <= current_virtual_time /\ virtual_last_update[w] \in Int
    BY <1>2 DEF RaceInv, RaceAhead, ScheduleTypeOK
  <2>8. \A w \in Witness : virtual_last_update'[w] <= t
    BY <1>2, <2>1, <2>2, <2>7
  <2>9. \A w \in registered : t <= virtual_scheduled_time'[w]
    <3> SUFFICES ASSUME NEW w \in registered PROVE t <= virtual_scheduled_time'[w]
      OBVIOUS
    <3>1. CASE w \in Processed
      <4>1. virtual_scheduled_time'[w] = t + LapTime(w) /\ LapTime(w) \in 0..MaxTime
        BY <1>2, <1>3, <2>1, <2>5, <3>1
      <4> QED BY <1>2, <2>2, <4>1
    <3>2. CASE w \notin Processed
      BY <1>2, <2>1, <2>4, <3>2
    <3> QED BY <3>1, <3>2
  <2>10. RaceAhead'
    BY <1>1, <1>2, <2>1, <2>8, <2>9 DEF RaceAhead
  <2>11. \A w \in Witness \ registered : virtual_scheduled_time'[w] = MaxTime
    BY <2>1, <2>3 DEF RaceInv
  <2> QED BY <1>1, <2>1, <2>6, <2>8, <2>10, <2>11 DEF RaceInv
<1> QED BY <1>4, <1>5 DEF update_witness_schedule

\* Every step keeps the invariant of the race.
LEMMA NextRace == RaceInv /\ [ScheduleNext]_scheduleVars => RaceInv'
<1> SUFFICES ASSUME RaceInv, [ScheduleNext]_scheduleVars PROVE RaceInv'
  OBVIOUS
<1>1. CASE UNCHANGED scheduleVars
  BY <1>1 DEF scheduleVars, virtualVars, RaceInv, ScheduleTypeOK, RaceAhead
<1> QED BY <1>1, WitnessUpdateRaces, AdjustVoteRaces, UpdateScheduleRaces DEF ScheduleNext

\* Type correctness of the schedule.
THEOREM ScheduleTypeCorrect == ScheduleSpec => []ScheduleTypeOK
<1>1. RaceInv => ScheduleTypeOK
  BY DEF RaceInv
<1> QED BY <1>1, InitRace, NextRace, PTL DEF ScheduleSpec

\* For any number of witnesses, any round and any largest virtual time: however
\* votes change and witnesses come and go, no race is scheduled to end in the
\* past and no position was updated in the future.
THEOREM RaceStaysAhead == ScheduleSpec => []RaceAhead
<1>1. RaceInv => RaceAhead
  BY DEF RaceInv
<1> QED BY <1>1, InitRace, NextRace, PTL DEF ScheduleSpec
==============================================================================
