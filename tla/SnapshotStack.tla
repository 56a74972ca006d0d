---------------------------- MODULE SnapshotStack ----------------------------
(***************************************************************************)
(* What chainbase promises of one index: a table of objects with a stack   *)
(* of full snapshots.  Opening a session takes a snapshot, undo restores   *)
(* the newest one, squash and commit forget snapshots and never touch the  *)
(* objects.  UndoIndex implements this with difference records.            *)
(***************************************************************************)
EXTENDS Integers, Sequences

CONSTANTS
  Value   \* the values an object may hold, its id aside

VARIABLES
  objects,    \* id -> value, for the ids that exist
  nextId,     \* the id the next object gets
  snapshots,  \* the open snapshots, oldest first
  head        \* the revision number

absVars == <<objects, nextId, snapshots, head>>

Put(f, id, v) == [i \in DOMAIN f \cup {id} |-> IF i = id THEN v ELSE f[i]]

Drop(f, ids) == [i \in DOMAIN f \ ids |-> f[i]]

Create(v) ==
  /\ objects' = Put(objects, nextId, v)
  /\ nextId' = nextId + 1
  /\ UNCHANGED <<snapshots, head>>

Change(id, v) ==
  /\ id \in DOMAIN objects
  /\ objects' = Put(objects, id, v)
  /\ UNCHANGED <<nextId, snapshots, head>>

Delete(id) ==
  /\ id \in DOMAIN objects
  /\ objects' = Drop(objects, {id})
  /\ UNCHANGED <<nextId, snapshots, head>>

Take ==
  /\ head' = head + 1
  /\ snapshots' = Append(snapshots,
       [objects |-> objects, nextId |-> nextId, revision |-> head + 1])
  /\ UNCHANGED <<objects, nextId>>

Restore ==
  /\ snapshots # <<>>
  /\ LET s == snapshots[Len(snapshots)]
     IN /\ objects' = s.objects
        /\ nextId' = s.nextId
  /\ snapshots' = SubSeq(snapshots, 1, Len(snapshots) - 1)
  /\ head' = head - 1

\* Forgetting the only snapshot keeps the revision; forgetting the newest of
\* several gives its revision back.
Forget ==
  /\ snapshots # <<>>
  /\ snapshots' = SubSeq(snapshots, 1, Len(snapshots) - 1)
  /\ head' = IF Len(snapshots) = 1 THEN head ELSE head - 1
  /\ UNCHANGED <<objects, nextId>>

\* Forgets some of the oldest snapshots.
Discard ==
  /\ \E k \in 1..Len(snapshots) :
       snapshots' = SubSeq(snapshots, k + 1, Len(snapshots))
  /\ UNCHANGED <<objects, nextId, head>>

Renumber ==
  /\ snapshots = <<>>
  /\ head' \in Int
  /\ UNCHANGED <<objects, nextId, snapshots>>

AbsInit ==
  /\ objects = <<>>
  /\ nextId = 0
  /\ snapshots = <<>>
  /\ head = 0

AbsNext ==
  \/ \E v \in Value : Create(v)
  \/ \E id \in DOMAIN objects, v \in Value : Change(id, v)
  \/ \E id \in DOMAIN objects : Delete(id)
  \/ Take
  \/ Restore
  \/ Forget
  \/ Discard
  \/ Renumber

AbsSpec == AbsInit /\ [][AbsNext]_absVars
=============================================================================
