------------------------------ MODULE UndoIndex ------------------------------
(***************************************************************************)
(* chainbase::generic_index: a table of objects with an undo stack.  Every *)
(* open session keeps an undo_state, a difference against the state at its *)
(* start: the values it overwrote, the objects it removed and the ids it   *)
(* created.  undo() plays the newest difference back, squash() merges the  *)
(* two newest ones, commit() drops the oldest ones.                        *)
(*                                                                         *)
(* Abstractions: an object is its id and an opaque value; the secondary    *)
(* indices are left out.  The index is only written under the database's   *)
(* write lock, so each operation is one step; undo_all, a loop of undo(),  *)
(* takes one step per round.                                               *)
(***************************************************************************)
EXTENDS Integers, Sequences

CONSTANTS
  Value,        \* the values an object may hold, its id aside
  MaxId,        \* bound: ids handed out
  MaxDepth,     \* bound: sessions open at a time
  MaxRevision   \* bound: revision numbers

ASSUME BoundAssumption == MaxId \in Nat /\ MaxDepth \in Nat /\ MaxRevision \in Nat

VARIABLES
  indices,   \* _indices: id -> value, for the ids that exist
  next_id,   \* _next_id
  stack,     \* _stack: the undo_states of the open sessions, oldest first
  revision,  \* _revision
  unwinding  \* undo_all() has rounds left

vars == <<indices, next_id, stack, revision, unwinding>>

Ids == 0..MaxId - 1

\* Partial functions from ids to values: the table, and the two maps of an
\* undo_state.
Table == UNION {[D -> Value] : D \in SUBSET Ids}

UndoState ==
  [old_values : Table, removed_values : Table, new_ids : SUBSET Ids,
   old_next_id : 0..MaxId, revision : Int]

Put(f, id, v) == [i \in DOMAIN f \cup {id} |-> IF i = id THEN v ELSE f[i]]

Drop(f, ids) == [i \in DOMAIN f \ ids |-> f[i]]

\* map::emplace of every item of g: keys already present keep their value.
EmplaceAll(f, g) ==
  [i \in DOMAIN f \cup DOMAIN g |-> IF i \in DOMAIN f THEN f[i] ELSE g[i]]

enabled == stack # <<>>

Back == stack[Len(stack)]

PopBack == SubSeq(stack, 1, Len(stack) - 1)

WithBack(s) == [stack EXCEPT ![Len(stack)] = s]

\* Mutant of EmptyState: old_next_id is never filled in.
EmptyState_forgets_next_id(next, rev) ==
  [old_values |-> <<>>, removed_values |-> <<>>, new_ids |-> {},
   old_next_id |-> 0, revision |-> rev]

\* The undo_state a new session starts from.
EmptyState(next, rev) ==
  [old_values |-> <<>>, removed_values |-> <<>>, new_ids |-> {},
   old_next_id |-> next, revision |-> rev]

-----------------------------------------------------------------------------
(* What each change records in the newest undo_state.                      *)

on_create(s, id) == [s EXCEPT !.new_ids = @ \cup {id}]

on_modify(s, id, was) ==
  IF id \in s.new_ids \cup DOMAIN s.old_values
  THEN s
  ELSE [s EXCEPT !.old_values = Put(@, id, was)]

\* Mutant of on_remove: the object's creation in this session is overlooked.
on_remove_ignores_new_ids(s, id, was) ==
  [s EXCEPT !.removed_values = EmplaceAll(@, Put(<<>>, id, was)),
            !.old_values = Drop(@, {id})]

on_remove(s, id, was) ==
  IF id \in s.new_ids
  THEN [s EXCEPT !.new_ids = @ \ {id}]
  ELSE IF id \in DOMAIN s.old_values
  THEN [s EXCEPT !.removed_values = EmplaceAll(@, Put(<<>>, id, s.old_values[id])),
                 !.old_values = Drop(@, {id})]
  ELSE [s EXCEPT !.removed_values = EmplaceAll(@, Put(<<>>, id, was))]

\* The table after undo() has played s back: overwritten values first (an
\* object that is gone is put back), then the created ids, then the removals.
Undone(s, table) ==
  EmplaceAll(Drop(EmplaceAll(s.old_values, table), s.new_ids), s.removed_values)

\* squash(): the difference s merged into the one before it, container by
\* container, in the order of the code's three loops.
Merge(prev, s) ==
  LET old   == EmplaceAll(prev.old_values, Drop(s.old_values, prev.new_ids))
      new   == prev.new_ids \cup s.new_ids
      gone  == DOMAIN s.removed_values \ new
      moved == [i \in gone |-> IF i \in DOMAIN old THEN old[i]
                                                   ELSE s.removed_values[i]]
  IN [prev EXCEPT !.old_values = Drop(old, gone),
                  !.new_ids = new \ DOMAIN s.removed_values,
                  !.removed_values = EmplaceAll(@, moved)]

-----------------------------------------------------------------------------
(* The operations.                                                         *)

emplace(v) ==
  /\ next_id < MaxId
  /\ indices' = Put(indices, next_id, v)
  /\ next_id' = next_id + 1
  /\ stack' = IF enabled THEN WithBack(on_create(Back, next_id)) ELSE stack
  /\ UNCHANGED revision

modify(id, v) ==
  /\ stack' = IF enabled THEN WithBack(on_modify(Back, id, indices[id])) ELSE stack
  /\ indices' = Put(indices, id, v)
  /\ UNCHANGED <<next_id, revision>>

remove(id) ==
  /\ stack' = IF enabled THEN WithBack(on_remove(Back, id, indices[id])) ELSE stack
  /\ indices' = Drop(indices, {id})
  /\ UNCHANGED <<next_id, revision>>

start_undo_session ==
  /\ Len(stack) < MaxDepth
  /\ revision < MaxRevision
  /\ revision' = revision + 1
  /\ stack' = Append(stack, EmptyState(next_id, revision + 1))
  /\ UNCHANGED <<indices, next_id>>

\* Mutants of undo: the next id, the revision or the stack is left alone.
undo_keeps_next_id ==
  /\ enabled
  /\ indices' = Undone(Back, indices)
  /\ stack' = PopBack
  /\ revision' = revision - 1
  /\ UNCHANGED next_id

undo_keeps_revision ==
  /\ enabled
  /\ indices' = Undone(Back, indices)
  /\ next_id' = Back.old_next_id
  /\ stack' = PopBack
  /\ UNCHANGED revision

undo_keeps_state ==
  /\ enabled
  /\ indices' = Undone(Back, indices)
  /\ next_id' = Back.old_next_id
  /\ UNCHANGED <<stack, revision>>

undo ==
  /\ enabled
  /\ indices' = Undone(Back, indices)
  /\ next_id' = Back.old_next_id
  /\ stack' = PopBack
  /\ revision' = revision - 1

\* The only session on the stack is dropped and keeps its revision number.
squash ==
  /\ enabled
  /\ IF Len(stack) = 1
     THEN stack' = <<>> /\ UNCHANGED revision
     ELSE /\ stack' = [PopBack EXCEPT ![Len(stack) - 1] = Merge(@, Back)]
          /\ revision' = revision - 1
  /\ UNCHANGED <<indices, next_id>>

\* Drops the undo_states at the front while their revision is at most r.
commit(r) ==
  /\ \E k \in 1..Len(stack) :
       /\ \A i \in 1..k : stack[i].revision <= r
       /\ k < Len(stack) => stack[k + 1].revision > r
       /\ stack' = SubSeq(stack, k + 1, Len(stack))
  /\ UNCHANGED <<indices, next_id, revision>>

\* Throws while the undo stack is not empty.
set_revision(r) ==
  /\ ~enabled
  /\ revision' = r
  /\ UNCHANGED <<indices, next_id, stack>>

\* The loop of undo_all(): one undo() per round until the stack is empty.
undo_all ==
  /\ enabled
  /\ unwinding' = TRUE
  /\ UNCHANGED <<indices, next_id, stack, revision>>

undo_all_done ==
  /\ unwinding
  /\ ~enabled
  /\ unwinding' = FALSE
  /\ UNCHANGED <<indices, next_id, stack, revision>>

Init ==
  /\ indices = <<>>
  /\ next_id = 0
  /\ stack = <<>>
  /\ revision = 0
  /\ unwinding = FALSE

Operation ==
  \/ \E v \in Value : emplace(v)
  \/ \E id \in DOMAIN indices, v \in Value : modify(id, v)
  \/ \E id \in DOMAIN indices : remove(id)
  \/ start_undo_session
  \/ undo
  \/ squash
  \/ \E r \in 0..MaxRevision : commit(r)
  \/ \E r \in 0..MaxRevision : set_revision(r)

\* A round of the loop: nothing else runs under the write lock meanwhile.
undo_all_round == unwinding /\ undo /\ UNCHANGED unwinding

Next ==
  \/ ~unwinding /\ Operation /\ UNCHANGED unwinding
  \/ ~unwinding /\ undo_all
  \/ undo_all_round
  \/ undo_all_done

Spec == Init /\ [][Next]_vars

=============================================================================
