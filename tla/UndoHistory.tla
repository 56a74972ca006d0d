----------------------------- MODULE UndoHistory -----------------------------
(***************************************************************************)
(* UndoIndex with a history variable: the full table and the next id as    *)
(* they were when each open session started.  The code keeps no such copy; *)
(* it is here to state that the difference records carry the same          *)
(* information, and that the index therefore implements SnapshotStack.     *)
(***************************************************************************)
EXTENDS UndoIndex

VARIABLE
  snapshots  \* what each open session started from, oldest first

hvars == <<indices, next_id, stack, revision, unwinding, snapshots>>

Snapshot == [objects : Table, nextId : 0..MaxId, revision : Int]

HInit == Init /\ snapshots = <<>>

Change ==
  \/ \E v \in Value : emplace(v)
  \/ \E id \in DOMAIN indices, v \in Value : modify(id, v)
  \/ \E id \in DOMAIN indices : remove(id)

\* The history is driven by how the undo stack grows and shrinks, never by
\* what the undo_states contain.
HOperation ==
  \/ Change /\ UNCHANGED snapshots
  \/ /\ start_undo_session
     /\ snapshots' = Append(snapshots,
          [objects |-> indices, nextId |-> next_id, revision |-> revision + 1])
  \/ (undo \/ squash) /\ snapshots' = SubSeq(snapshots, 1, Len(snapshots) - 1)
  \/ /\ \E r \in 0..MaxRevision : commit(r)
     /\ snapshots' = SubSeq(snapshots, 1 + Len(stack) - Len(stack'), Len(snapshots))
  \/ (\E r \in 0..MaxRevision : set_revision(r)) /\ UNCHANGED snapshots

HNext ==
  \/ ~unwinding /\ HOperation /\ UNCHANGED unwinding
  \/ ~unwinding /\ undo_all /\ UNCHANGED snapshots
  \/ undo_all_round /\ snapshots' = SubSeq(snapshots, 1, Len(snapshots) - 1)
  \/ undo_all_done /\ UNCHANGED snapshots

HSpec == HInit /\ [][HNext]_hvars

\* undo_all() runs to its end on its caller's thread, under the write lock.
LoopFairness ==
  /\ WF_hvars(undo_all_round /\ snapshots' = SubSeq(snapshots, 1, Len(snapshots) - 1))
  /\ WF_hvars(undo_all_done /\ UNCHANGED snapshots)

FairSpec == HSpec /\ LoopFairness

-----------------------------------------------------------------------------
\* Type correctness: table, undo stack and history have their types, and the
\* history has one entry per open session.
TypeOK ==
  /\ indices \in Table
  /\ next_id \in 0..MaxId
  /\ stack \in Seq(UndoState)
  /\ revision \in Int
  /\ unwinding \in BOOLEAN
  /\ snapshots \in Seq(Snapshot)
  /\ Len(snapshots) = Len(stack)

\* The table at the end of session i: the current one, or what the session
\* opened inside it started from.
After(i) == IF i = Len(stack) THEN indices ELSE snapshots[i + 1].objects

NextIdAfter(i) == IF i = Len(stack) THEN next_id ELSE snapshots[i + 1].nextId

\* s is exactly the difference between the table `before' and the table
\* `after': new_ids are the ids only `after' has, removed_values the objects
\* only `before' has, and old_values holds every object both have but with
\* different values, under its earlier value.
Difference(before, s, after) ==
  /\ s.new_ids = DOMAIN after \ DOMAIN before
  /\ DOMAIN s.removed_values = DOMAIN before \ DOMAIN after
  /\ DOMAIN s.old_values \subseteq DOMAIN before \cap DOMAIN after
  /\ \A i \in DOMAIN s.removed_values : s.removed_values[i] = before[i]
  /\ \A i \in DOMAIN s.old_values : s.old_values[i] = before[i]
  /\ \A i \in (DOMAIN before \cap DOMAIN after) \ DOMAIN s.old_values :
       before[i] = after[i]

\* Every undo_state on the stack, however it came about (directly or by
\* squashing), is exactly the difference its session made.  This is what
\* lets undo() find every object it has to erase and no object in the place
\* of one it has to put back, the cases in which the code throws or erases
\* end().
StackIsDifferences ==
  \A i \in 1..Len(stack) : Difference(snapshots[i].objects, stack[i], After(i))

\* No id is in use that was not handed out yet, a session creates no id that
\* was in use when it started, and next ids grow with the stack: undo() may
\* hand an id out again only once every trace of its object is gone.
IdsBelowNext ==
  /\ DOMAIN indices \subseteq 0..next_id - 1
  /\ \A i \in 1..Len(stack) :
       /\ stack[i].old_next_id = snapshots[i].nextId
       /\ snapshots[i].nextId <= NextIdAfter(i)
       /\ DOMAIN snapshots[i].objects \subseteq 0..snapshots[i].nextId - 1
       /\ \A id \in stack[i].new_ids : id >= stack[i].old_next_id

\* Revisions number the open sessions without gaps up to the head revision:
\* commit(r) therefore drops a prefix of the stack and undo() arrives at the
\* revision before its session.
RevisionsContiguous ==
  \A i \in 1..Len(stack) :
    /\ stack[i].revision = revision - (Len(stack) - i)
    /\ snapshots[i].revision = stack[i].revision

\* The inductive invariant the proofs rest on.
IInv == TypeOK /\ StackIsDifferences /\ IdsBelowNext /\ RevisionsContiguous

\* The index implements a stack of full snapshots.
Abs == INSTANCE SnapshotStack
         WITH objects <- indices, nextId <- next_id, head <- revision

\* Undo restores the state prior to the session ("Restores the state to how
\* it was prior to the current session"), squash and commit never change the
\* table, and everything else is what an index without undo would do.
ImplementsSnapshots == Abs!AbsSpec

\* undo_all() ends, with every session closed.
UndoAllEnds == unwinding ~> (~unwinding /\ stack = <<>>)
=============================================================================
