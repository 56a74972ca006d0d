------------------------------ MODULE UndoProofs ------------------------------
(***************************************************************************)
(* The undo stack of chainbase::generic_index carries, in its difference   *)
(* records, the same information as a stack of full snapshots: proofs for  *)
(* every set of values and every bound.                                    *)
(***************************************************************************)
EXTENDS UndoHistory, TLAPS

\* Tables are functions from some of the ids to values.
LEMMA TableDomain ==
  ASSUME NEW t \in Table
  PROVE  /\ DOMAIN t \subseteq Ids
         /\ t = [i \in DOMAIN t |-> t[i]]
         /\ \A i \in DOMAIN t : t[i] \in Value
BY DEF Table

\* A function from some of the ids to values is a table.
LEMMA TableIntro ==
  ASSUME NEW D \in SUBSET Ids, NEW t \in [D -> Value]
  PROVE  t \in Table
BY DEF Table

\* The empty sequence is a sequence over any set.
LEMMA EmptySeqType == \A S : <<>> \in Seq(S)
OBVIOUS

\* The empty function is a table.
LEMMA EmptyTable == <<>> \in Table
BY DEF Table

\* Put, Drop and EmplaceAll build tables from tables.
LEMMA PutTable ==
  ASSUME NEW t \in Table, NEW id \in Ids, NEW v \in Value
  PROVE  /\ Put(t, id, v) \in Table
         /\ DOMAIN Put(t, id, v) = DOMAIN t \cup {id}
<1> DEFINE D == DOMAIN t \cup {id}
<1>1. D \in SUBSET Ids
  BY TableDomain
<1>2. Put(t, id, v) \in [D -> Value]
  BY TableDomain DEF Put
<1> QED BY <1>1, <1>2, TableIntro DEF Put

\* Dropping ids from a table leaves a table.
LEMMA DropTable ==
  ASSUME NEW t \in Table, NEW S
  PROVE  Drop(t, S) \in Table /\ DOMAIN Drop(t, S) = DOMAIN t \ S
<1>1. DOMAIN t \ S \in SUBSET Ids
  BY TableDomain
<1>2. Drop(t, S) \in [DOMAIN t \ S -> Value]
  BY TableDomain DEF Drop
<1> QED BY <1>1, <1>2, TableIntro DEF Drop

\* Emplacing a table into a table gives a table.
LEMMA EmplaceTable ==
  ASSUME NEW t \in Table, NEW u \in Table
  PROVE  /\ EmplaceAll(t, u) \in Table
         /\ DOMAIN EmplaceAll(t, u) = DOMAIN t \cup DOMAIN u
<1> DEFINE D == DOMAIN t \cup DOMAIN u
<1>1. D \in SUBSET Ids
  BY TableDomain
<1>2. EmplaceAll(t, u) \in [D -> Value]
  BY TableDomain DEF EmplaceAll
<1> QED BY <1>1, <1>2, TableIntro DEF EmplaceAll

\* Playing a difference back on the later table gives the earlier one.
LEMMA UndoneRestores ==
  ASSUME NEW before \in Table, NEW after \in Table, NEW s \in UndoState,
         Difference(before, s, after)
  PROVE  Undone(s, after) = before
<1>1. /\ before = [i \in DOMAIN before |-> before[i]]
      /\ s.old_values \in Table /\ s.removed_values \in Table
  BY TableDomain DEF UndoState
<1>2. DOMAIN Undone(s, after) = DOMAIN before
  BY DEF Undone, EmplaceAll, Drop, Difference
<1>3. \A i \in DOMAIN before : Undone(s, after)[i] = before[i]
  BY DEF Undone, EmplaceAll, Drop, Difference
<1>4. Undone(s, after) = [i \in DOMAIN Undone(s, after) |-> Undone(s, after)[i]]
  BY DEF Undone, EmplaceAll
<1> QED BY <1>1, <1>2, <1>3, <1>4

\* A fresh session has made no difference.
LEMMA EmptyStateType ==
  ASSUME NEW n \in 0..MaxId, NEW r \in Int
  PROVE  EmptyState(n, r) \in UndoState
BY EmptyTable DEF EmptyState, UndoState

\* The undo_state of a new session is the difference between a table and itself.
LEMMA EmptyDifference ==
  ASSUME NEW t \in Table, NEW n, NEW r
  PROVE  Difference(t, EmptyState(n, r), t)
BY DEF Difference, EmptyState

\* What each change records keeps the newest undo_state a difference.
LEMMA CreateDifference ==
  ASSUME NEW before \in Table, NEW after \in Table, NEW s \in UndoState,
         Difference(before, s, after),
         NEW id \in Ids, NEW v \in Value, id \notin DOMAIN before
  PROVE  /\ on_create(s, id) \in UndoState
         /\ Difference(before, on_create(s, id), Put(after, id, v))
<1> DEFINE t == on_create(s, id)
<1>1. t \in UndoState
  BY DEF on_create, UndoState
<1>2. /\ t.new_ids = s.new_ids \cup {id}
      /\ t.old_values = s.old_values
      /\ t.removed_values = s.removed_values
  BY DEF on_create, UndoState
<1> QED BY <1>1, <1>2 DEF Difference, Put

\* on_modify: the value before the first modification is kept.
LEMMA ModifyDifference ==
  ASSUME NEW before \in Table, NEW after \in Table, NEW s \in UndoState,
         Difference(before, s, after),
         NEW id \in DOMAIN after, NEW v \in Value
  PROVE  /\ on_modify(s, id, after[id]) \in UndoState
         /\ Difference(before, on_modify(s, id, after[id]), Put(after, id, v))
<1> DEFINE t == on_modify(s, id, after[id])
<1>1. id \in Ids /\ after[id] \in Value
  BY TableDomain
<1>2. CASE id \in s.new_ids \cup DOMAIN s.old_values
  <2>1. t = s
    BY <1>2 DEF on_modify
  <2> QED BY <1>2, <2>1 DEF Difference, Put
<1>3. CASE id \notin s.new_ids \cup DOMAIN s.old_values
  <2>1. t = [s EXCEPT !.old_values = Put(s.old_values, id, after[id])]
    BY <1>3 DEF on_modify
  <2>2. s.old_values \in Table
    BY DEF UndoState
  <2>3. Put(s.old_values, id, after[id]) \in Table
    BY <1>1, <2>2, PutTable
  <2>4. t \in UndoState
    BY <2>1, <2>3 DEF UndoState
  <2>5. /\ t.new_ids = s.new_ids
        /\ t.old_values = Put(s.old_values, id, after[id])
        /\ t.removed_values = s.removed_values
    BY <2>1 DEF UndoState
  <2> QED BY <1>3, <2>4, <2>5 DEF Difference, Put
<1> QED BY <1>2, <1>3

\* on_remove: created, modified and untouched objects each leave the right trace.
LEMMA RemoveDifference ==
  ASSUME NEW before \in Table, NEW after \in Table, NEW s \in UndoState,
         Difference(before, s, after),
         NEW id \in DOMAIN after
  PROVE  /\ on_remove(s, id, after[id]) \in UndoState
         /\ Difference(before, on_remove(s, id, after[id]), Drop(after, {id}))
<1> DEFINE t == on_remove(s, id, after[id])
<1>1. id \in Ids /\ after[id] \in Value
  BY TableDomain
<1>0. s.old_values \in Table /\ s.removed_values \in Table
  BY DEF UndoState
<1>2. CASE id \in s.new_ids
  <2>1. t = [s EXCEPT !.new_ids = s.new_ids \ {id}]
    BY <1>2 DEF on_remove
  <2>2. /\ t.new_ids = s.new_ids \ {id}
        /\ t.old_values = s.old_values
        /\ t.removed_values = s.removed_values
        /\ t \in UndoState
    BY <2>1 DEF UndoState
  <2> QED BY <1>2, <2>2 DEF Difference, Drop
<1>3. CASE id \notin s.new_ids /\ id \in DOMAIN s.old_values
  <2> DEFINE r == EmplaceAll(s.removed_values, Put(<<>>, id, s.old_values[id]))
             o == Drop(s.old_values, {id})
  <2>1. t = [s EXCEPT !.removed_values = r, !.old_values = o]
    BY <1>3 DEF on_remove
  <2>2. r \in Table /\ o \in Table
    BY <1>0, <1>1, <1>3, EmptyTable, TableDomain, PutTable, DropTable, EmplaceTable
  <2>3. /\ t.new_ids = s.new_ids
        /\ t.old_values = o
        /\ t.removed_values = r
        /\ t \in UndoState
    BY <2>1, <2>2 DEF UndoState
  <2>4. /\ DOMAIN r = DOMAIN s.removed_values \cup {id}
        /\ \A i \in DOMAIN s.removed_values : r[i] = s.removed_values[i]
        /\ id \notin DOMAIN s.removed_values => r[id] = s.old_values[id]
    BY DEF EmplaceAll, Put
  <2>5. DOMAIN o = DOMAIN s.old_values \ {id} /\ \A i \in DOMAIN o : o[i] = s.old_values[i]
    BY DEF Drop
  <2> HIDE DEF r, o
  <2> QED BY <1>3, <2>3, <2>4, <2>5 DEF Difference, Drop
<1>4. CASE id \notin s.new_ids /\ id \notin DOMAIN s.old_values
  <2> DEFINE r == EmplaceAll(s.removed_values, Put(<<>>, id, after[id]))
  <2>1. t = [s EXCEPT !.removed_values = r]
    BY <1>4 DEF on_remove
  <2>2. r \in Table
    BY <1>0, <1>1, EmptyTable, PutTable, EmplaceTable
  <2>3. /\ t.new_ids = s.new_ids
        /\ t.old_values = s.old_values
        /\ t.removed_values = r
        /\ t \in UndoState
    BY <2>1, <2>2 DEF UndoState
  <2>4. /\ DOMAIN r = DOMAIN s.removed_values \cup {id}
        /\ \A i \in DOMAIN s.removed_values : r[i] = s.removed_values[i]
        /\ id \notin DOMAIN s.removed_values => r[id] = after[id]
    BY DEF EmplaceAll, Put
  <2> HIDE DEF r
  <2> QED BY <1>4, <2>3, <2>4 DEF Difference, Drop
<1> QED BY <1>2, <1>3, <1>4

\* The merge matrix of squash(): merging the differences of two consecutive
\* sessions gives the difference the two made together, provided the second
\* one created no id the first one started with.
THEOREM MergeDifference ==
  ASSUME NEW before \in Table, NEW middle \in Table, NEW after \in Table,
         NEW p \in UndoState, NEW s \in UndoState,
         Difference(before, p, middle), Difference(middle, s, after),
         s.new_ids \cap DOMAIN before = {}
  PROVE  /\ Merge(p, s) \in UndoState
         /\ Difference(before, Merge(p, s), after)
<1> DEFINE rest  == Drop(s.old_values, p.new_ids)
           old   == EmplaceAll(p.old_values, rest)
           new   == p.new_ids \cup s.new_ids
           gone  == DOMAIN s.removed_values \ new
           moved == [i \in gone |-> IF i \in DOMAIN old THEN old[i]
                                                        ELSE s.removed_values[i]]
           kept  == Drop(old, gone)
           rem   == EmplaceAll(p.removed_values, moved)
           m     == Merge(p, s)
<1>1. /\ p.old_values \in Table /\ p.removed_values \in Table
      /\ s.old_values \in Table /\ s.removed_values \in Table
  BY DEF UndoState
<1>2. rest \in Table /\ old \in Table /\ kept \in Table
  BY <1>1, DropTable, EmplaceTable
<1>3. moved \in Table /\ rem \in Table
  <2>1. gone \in SUBSET Ids
    BY <1>1, TableDomain
  <2>2. \A i \in gone : i \in DOMAIN old => old[i] \in Value
    BY <1>2, TableDomain
  <2>3. \A i \in gone : s.removed_values[i] \in Value
    BY <1>1, TableDomain
  <2>4. moved \in [gone -> Value]
    <3> HIDE DEF old, gone
    <3> QED BY <2>2, <2>3
  <2>5. moved \in Table
    <3> HIDE DEF moved, gone
    <3> QED BY <2>1, <2>4, TableIntro
  <2> HIDE DEF moved
  <2> QED BY <1>1, <2>5, EmplaceTable
<1>4. m = [p EXCEPT !.old_values = kept, !.new_ids = new \ DOMAIN s.removed_values,
                    !.removed_values = rem]
  BY DEF Merge
<1>5. /\ m.old_values = kept
      /\ m.new_ids = new \ DOMAIN s.removed_values
      /\ m.removed_values = rem
      /\ m \in UndoState
  <2> HIDE DEF m, kept, rem
  <2> QED BY <1>2, <1>3, <1>4 DEF UndoState
<1>6. /\ DOMAIN old = DOMAIN p.old_values \cup (DOMAIN s.old_values \ p.new_ids)
      /\ \A i \in DOMAIN old : old[i] = before[i]
  BY DEF EmplaceAll, Drop, Difference
<1>7. /\ DOMAIN kept = DOMAIN old \ gone
      /\ \A i \in DOMAIN kept : kept[i] = old[i]
  BY DEF Drop
<1>8. /\ DOMAIN rem = DOMAIN p.removed_values \cup gone
      /\ \A i \in DOMAIN p.removed_values : rem[i] = p.removed_values[i]
      /\ \A i \in gone \ DOMAIN p.removed_values :
           rem[i] = IF i \in DOMAIN old THEN old[i] ELSE s.removed_values[i]
  BY DEF EmplaceAll
<1> HIDE DEF rest, old, kept, rem, moved, m
<1>9. m.new_ids = DOMAIN after \ DOMAIN before
  BY <1>5 DEF Difference
<1>10. DOMAIN rem = DOMAIN before \ DOMAIN after
  BY <1>8 DEF Difference
<1>11. \A i \in DOMAIN rem : rem[i] = before[i]
  BY <1>6, <1>8 DEF Difference
<1>12. DOMAIN kept \subseteq DOMAIN before \cap DOMAIN after
  BY <1>6, <1>7 DEF Difference
<1>13. \A i \in DOMAIN kept : kept[i] = before[i]
  BY <1>6, <1>7
<1>14. \A i \in (DOMAIN before \cap DOMAIN after) \ DOMAIN kept : before[i] = after[i]
  BY <1>6, <1>7 DEF Difference
<1> QED BY <1>5, <1>9, <1>10, <1>11, <1>12, <1>13, <1>14 DEF Difference, m

-----------------------------------------------------------------------------
(* The inductive invariant.                                                *)

\* The empty index satisfies the inductive invariant.
LEMMA InitIInv == HInit => IInv
<1> SUFFICES ASSUME HInit PROVE IInv
  OBVIOUS
<1>1. TypeOK
  <2>1. indices \in Table /\ next_id \in 0..MaxId /\ revision \in Int
    BY EmptyTable, BoundAssumption DEF HInit, Init
  <2>2. stack \in Seq(UndoState) /\ snapshots \in Seq(Snapshot)
    BY DEF HInit, Init
  <2>3. unwinding \in BOOLEAN /\ Len(snapshots) = Len(stack)
    BY DEF HInit, Init
  <2> QED BY <2>1, <2>2, <2>3 DEF TypeOK
<1>2. StackIsDifferences /\ RevisionsContiguous
  BY DEF HInit, Init, StackIsDifferences, RevisionsContiguous
<1>3. IdsBelowNext
  BY DEF HInit, Init, IdsBelowNext
<1> QED BY <1>1, <1>2, <1>3 DEF IInv

\* Facts about the newest session that several actions use.
LEMMA BackFacts ==
  ASSUME IInv, enabled
  PROVE  /\ Len(stack) \in Nat \ {0}
         /\ Len(snapshots) = Len(stack)
         /\ Back \in UndoState
         /\ snapshots[Len(stack)] \in Snapshot
         /\ snapshots[Len(stack)].objects \in Table
         /\ Difference(snapshots[Len(stack)].objects, Back, indices)
         /\ Back.old_next_id = snapshots[Len(stack)].nextId
         /\ DOMAIN snapshots[Len(stack)].objects \subseteq 0..snapshots[Len(stack)].nextId - 1
         /\ snapshots[Len(stack)].nextId <= next_id
         /\ snapshots[Len(stack)].nextId \in 0..MaxId
         /\ snapshots[Len(stack)].revision = revision
         /\ Back.revision = revision
         /\ \A id \in Back.new_ids : id >= Back.old_next_id
<1>1. Len(stack) \in Nat \ {0} /\ Len(snapshots) = Len(stack)
  BY DEF IInv, TypeOK, enabled
<1>2. Back \in UndoState /\ snapshots[Len(stack)] \in Snapshot
  BY <1>1 DEF IInv, TypeOK, Back
<1>3. /\ snapshots[Len(stack)].objects \in Table
      /\ snapshots[Len(stack)].nextId \in 0..MaxId
  BY <1>2 DEF Snapshot
<1>4. Difference(snapshots[Len(stack)].objects, Back, indices)
  BY <1>1 DEF IInv, StackIsDifferences, After, Back
<1>5. /\ Back.old_next_id = snapshots[Len(stack)].nextId
      /\ DOMAIN snapshots[Len(stack)].objects \subseteq 0..snapshots[Len(stack)].nextId - 1
      /\ snapshots[Len(stack)].nextId <= next_id
      /\ \A id \in Back.new_ids : id >= Back.old_next_id
  BY <1>1 DEF IInv, IdsBelowNext, NextIdAfter, Back
<1>6. snapshots[Len(stack)].revision = revision /\ Back.revision = revision
  BY <1>1 DEF IInv, TypeOK, RevisionsContiguous, Back
<1> QED BY <1>1, <1>2, <1>3, <1>4, <1>5, <1>6

\* A change of the table that replaces the newest undo_state, when there is
\* one, by the difference to the new table keeps the invariant.
LEMMA ChangePreserves ==
  ASSUME IInv, NEW t \in Table, NEW n \in 0..MaxId, n >= next_id,
         DOMAIN t \subseteq 0..n - 1,
         NEW s,
         enabled => /\ s \in UndoState
                    /\ Difference(snapshots[Len(stack)].objects, s, t)
                    /\ s.old_next_id = Back.old_next_id
                    /\ s.revision = Back.revision
             /\ \A i \in s.new_ids : i >= s.old_next_id
                    /\ \A id \in s.new_ids : id >= s.old_next_id,
         indices' = t, next_id' = n,
         stack' = IF enabled THEN WithBack(s) ELSE stack,
         UNCHANGED <<revision, unwinding, snapshots>>
  PROVE  IInv'
<1>1. CASE ~enabled
  <2>1. stack = <<>> /\ stack' = <<>> /\ Len(stack) = 0
    BY <1>1 DEF enabled
  <2>2. TypeOK'
    BY <2>1 DEF IInv, TypeOK
  <2>3. StackIsDifferences' /\ RevisionsContiguous'
    BY <2>1 DEF StackIsDifferences, RevisionsContiguous
  <2>4. IdsBelowNext'
    BY <2>1 DEF IdsBelowNext
  <2> QED BY <2>2, <2>3, <2>4 DEF IInv
<1>2. CASE enabled
  <2>1. Len(stack) \in Nat \ {0} /\ Len(snapshots) = Len(stack)
    BY <1>2, BackFacts
  <2>2. /\ stack' = [stack EXCEPT ![Len(stack)] = s]
        /\ stack' \in Seq(UndoState)
        /\ Len(stack') = Len(stack)
        /\ stack'[Len(stack)] = s
        /\ \A i \in 1..Len(stack) : i # Len(stack) => stack'[i] = stack[i]
    BY <1>2, <2>1 DEF IInv, TypeOK, WithBack
  <2>3. TypeOK'
    BY <2>2 DEF IInv, TypeOK
  <2>4. StackIsDifferences'
    <3> SUFFICES ASSUME NEW i \in 1..Len(stack)
                 PROVE  Difference(snapshots[i].objects, stack'[i], After(i)')
      BY <2>2 DEF StackIsDifferences
    <3>1. CASE i = Len(stack)
      BY <1>2, <2>2, <3>1 DEF After
    <3>2. CASE i # Len(stack)
      BY <2>2, <3>2 DEF After, IInv, StackIsDifferences
    <3> QED BY <3>1, <3>2
  <2>5. IdsBelowNext'
    <3> SUFFICES ASSUME NEW i \in 1..Len(stack)
                 PROVE  /\ stack'[i].old_next_id = snapshots[i].nextId
                        /\ snapshots[i].nextId <= NextIdAfter(i)'
                        /\ DOMAIN snapshots[i].objects \subseteq 0..snapshots[i].nextId - 1
                        /\ \A id \in stack'[i].new_ids : id >= stack'[i].old_next_id
      BY <2>2 DEF IdsBelowNext
    <3>1. CASE i = Len(stack)
      <4>1. snapshots[i].nextId \in 0..MaxId /\ snapshots[i].nextId <= next_id
        BY <1>2, <3>1, BackFacts
      <4>2. snapshots[i].nextId <= NextIdAfter(i)'
        BY <2>2, <3>1, <4>1, BoundAssumption DEF NextIdAfter, IInv, TypeOK
      <4> QED BY <1>2, <2>2, <3>1, <4>2, BackFacts
    <3>2. CASE i # Len(stack)
      BY <2>2, <3>2 DEF NextIdAfter, IInv, IdsBelowNext
    <3> QED BY <3>1, <3>2
  <2>6. RevisionsContiguous'
    <3> SUFFICES ASSUME NEW i \in 1..Len(stack)
                 PROVE  /\ stack'[i].revision = revision - (Len(stack) - i)
                        /\ snapshots[i].revision = stack'[i].revision
      BY <2>2 DEF RevisionsContiguous
    <3>1. stack'[i].revision = stack[i].revision
      BY <1>2, <2>2 DEF Back
    <3> QED BY <3>1 DEF IInv, RevisionsContiguous
  <2> QED BY <2>3, <2>4, <2>5, <2>6 DEF IInv
<1> QED BY <1>1, <1>2

\* emplace preserves the inductive invariant.
LEMMA EmplacePreserves ==
  ASSUME IInv, NEW v \in Value, emplace(v), UNCHANGED <<unwinding, snapshots>>
  PROVE  IInv'
<1> DEFINE t == Put(indices, next_id, v)
           s == on_create(Back, next_id)
<1>1. next_id \in Ids /\ next_id + 1 \in 0..MaxId /\ next_id + 1 >= next_id
  BY BoundAssumption DEF IInv, TypeOK, emplace, Ids
<1>2. t \in Table /\ DOMAIN t = DOMAIN indices \cup {next_id}
  BY <1>1, PutTable DEF IInv, TypeOK
<1>3. DOMAIN t \subseteq 0..(next_id + 1) - 1
  BY <1>1, <1>2, BoundAssumption DEF IInv, IdsBelowNext, Ids
<1>4. ASSUME enabled
      PROVE  /\ s \in UndoState
             /\ Difference(snapshots[Len(stack)].objects, s, t)
             /\ s.old_next_id = Back.old_next_id
             /\ s.revision = Back.revision
             /\ \A i \in s.new_ids : i >= s.old_next_id
  <2>1. next_id \notin DOMAIN snapshots[Len(stack)].objects
    BY <1>4, <1>1, BackFacts
  <2>2. s \in UndoState /\ Difference(snapshots[Len(stack)].objects, s, t)
    BY <1>4, <1>1, <2>1, BackFacts, CreateDifference DEF IInv, TypeOK
  <2>3. /\ s.old_next_id = Back.old_next_id /\ s.revision = Back.revision
        /\ s.new_ids = Back.new_ids \cup {next_id}
    BY <1>4, BackFacts DEF on_create, UndoState
  <2>4. \A i \in s.new_ids : i >= s.old_next_id
    BY <1>4, <2>3, BackFacts
  <2> QED BY <2>2, <2>3, <2>4
<1>5. /\ indices' = t /\ next_id' = next_id + 1
      /\ stack' = IF enabled THEN WithBack(s) ELSE stack
      /\ UNCHANGED <<revision, unwinding, snapshots>>
  BY DEF emplace
<1> HIDE DEF t, s
<1> QED BY <1>1, <1>2, <1>3, <1>4, <1>5, ChangePreserves

\* modify preserves the inductive invariant.
LEMMA ModifyPreserves ==
  ASSUME IInv, NEW id \in DOMAIN indices, NEW v \in Value, modify(id, v),
         UNCHANGED <<unwinding, snapshots>>
  PROVE  IInv'
<1> DEFINE t == Put(indices, id, v)
           s == on_modify(Back, id, indices[id])
<1>1. id \in Ids /\ indices \in Table /\ next_id \in 0..MaxId /\ next_id >= next_id
  BY TableDomain, BoundAssumption DEF IInv, TypeOK
<1>2. t \in Table /\ DOMAIN t = DOMAIN indices
  BY <1>1, PutTable
<1>3. DOMAIN t \subseteq 0..next_id - 1
  BY <1>2 DEF IInv, IdsBelowNext
<1>4. ASSUME enabled
      PROVE  /\ s \in UndoState
             /\ Difference(snapshots[Len(stack)].objects, s, t)
             /\ s.old_next_id = Back.old_next_id
             /\ s.revision = Back.revision
             /\ \A i \in s.new_ids : i >= s.old_next_id
  <2>1. s \in UndoState /\ Difference(snapshots[Len(stack)].objects, s, t)
    BY <1>4, <1>1, BackFacts, ModifyDifference
  <2>2. /\ s.old_next_id = Back.old_next_id /\ s.revision = Back.revision
        /\ s.new_ids \subseteq Back.new_ids
    BY <1>4, BackFacts DEF on_modify, UndoState
  <2>3. \A i \in s.new_ids : i >= s.old_next_id
    BY <1>4, <2>2, BackFacts
  <2> QED BY <2>1, <2>2, <2>3
<1>5. /\ indices' = t /\ next_id' = next_id
      /\ stack' = IF enabled THEN WithBack(s) ELSE stack
      /\ UNCHANGED <<revision, unwinding, snapshots>>
  BY DEF modify
<1> HIDE DEF t, s
<1> QED BY <1>1, <1>2, <1>3, <1>4, <1>5, ChangePreserves

\* remove preserves the inductive invariant.
LEMMA RemovePreserves ==
  ASSUME IInv, NEW id \in DOMAIN indices, remove(id),
         UNCHANGED <<unwinding, snapshots>>
  PROVE  IInv'
<1> DEFINE t == Drop(indices, {id})
           s == on_remove(Back, id, indices[id])
<1>1. indices \in Table /\ next_id \in 0..MaxId /\ next_id >= next_id
  BY BoundAssumption DEF IInv, TypeOK
<1>2. t \in Table /\ DOMAIN t = DOMAIN indices \ {id}
  BY <1>1, DropTable
<1>3. DOMAIN t \subseteq 0..next_id - 1
  BY <1>2 DEF IInv, IdsBelowNext
<1>4. ASSUME enabled
      PROVE  /\ s \in UndoState
             /\ Difference(snapshots[Len(stack)].objects, s, t)
             /\ s.old_next_id = Back.old_next_id
             /\ s.revision = Back.revision
             /\ \A i \in s.new_ids : i >= s.old_next_id
  <2>1. s \in UndoState /\ Difference(snapshots[Len(stack)].objects, s, t)
    BY <1>4, <1>1, BackFacts, RemoveDifference
  <2>2. /\ s.old_next_id = Back.old_next_id /\ s.revision = Back.revision
        /\ s.new_ids \subseteq Back.new_ids
    BY <1>4, BackFacts DEF on_remove, UndoState
  <2>3. \A i \in s.new_ids : i >= s.old_next_id
    BY <1>4, <2>2, BackFacts
  <2> QED BY <2>1, <2>2, <2>3
<1>5. /\ indices' = t /\ next_id' = next_id
      /\ stack' = IF enabled THEN WithBack(s) ELSE stack
      /\ UNCHANGED <<revision, unwinding, snapshots>>
  BY DEF remove
<1> HIDE DEF t, s
<1> QED BY <1>1, <1>2, <1>3, <1>4, <1>5, ChangePreserves

\* start_undo_session preserves the inductive invariant.
LEMMA StartPreserves ==
  ASSUME IInv, start_undo_session, UNCHANGED unwinding,
         snapshots' = Append(snapshots,
           [objects |-> indices, nextId |-> next_id, revision |-> revision + 1])
  PROVE  IInv'
<1> DEFINE e == EmptyState(next_id, revision + 1)
           w == [objects |-> indices, nextId |-> next_id, revision |-> revision + 1]
           n == Len(stack)
<1>1. e \in UndoState /\ w \in Snapshot
  BY EmptyStateType DEF IInv, TypeOK, Snapshot
<1>2. /\ n \in Nat /\ Len(snapshots) = n
      /\ stack' = Append(stack, e) /\ snapshots' = Append(snapshots, w)
      /\ stack' \in Seq(UndoState) /\ snapshots' \in Seq(Snapshot)
      /\ Len(stack') = n + 1 /\ Len(snapshots') = n + 1
      /\ stack'[n + 1] = e /\ snapshots'[n + 1] = w
      /\ \A i \in 1..n : stack'[i] = stack[i] /\ snapshots'[i] = snapshots[i]
  <2> HIDE DEF e, w
  <2> QED BY <1>1 DEF IInv, TypeOK, start_undo_session, e, w
<1>3. TypeOK'
  BY <1>2 DEF IInv, TypeOK, start_undo_session
<1>4. StackIsDifferences'
  <2> SUFFICES ASSUME NEW i \in 1..n + 1
               PROVE  Difference(snapshots'[i].objects, stack'[i], After(i)')
    BY <1>2 DEF StackIsDifferences
  <2>1. CASE i = n + 1
    <3>1. After(i)' = indices
      BY <1>2, <2>1 DEF After, start_undo_session
    <3> QED BY <1>2, <2>1, <3>1, EmptyDifference DEF IInv, TypeOK
  <2>2. CASE i \in 1..n
    <3>1. After(i)' = After(i)
      BY <1>2, <2>2 DEF After, start_undo_session
    <3> QED BY <1>2, <2>2, <3>1 DEF IInv, StackIsDifferences
  <2> QED BY <1>2, <2>1, <2>2
<1>5. IdsBelowNext'
  <2>1. DOMAIN indices' \subseteq 0..next_id' - 1
    BY DEF IInv, IdsBelowNext, start_undo_session
  <2>2. ASSUME NEW i \in 1..n + 1
        PROVE  /\ stack'[i].old_next_id = snapshots'[i].nextId
               /\ snapshots'[i].nextId <= NextIdAfter(i)'
               /\ DOMAIN snapshots'[i].objects \subseteq 0..snapshots'[i].nextId - 1
               /\ \A id \in stack'[i].new_ids : id >= stack'[i].old_next_id
    <3>1. CASE i = n + 1
      <4>1. NextIdAfter(i)' = next_id
        BY <1>2, <3>1 DEF NextIdAfter, start_undo_session
      <4>2. e.new_ids = {} /\ e.old_next_id = next_id /\ w.nextId = next_id /\ w.objects = indices
        BY DEF EmptyState
      <4> QED BY <1>2, <2>1, <3>1, <4>1, <4>2 DEF IInv, TypeOK, start_undo_session
    <3>2. CASE i \in 1..n
      <4>1. NextIdAfter(i)' = NextIdAfter(i)
        BY <1>2, <3>2 DEF NextIdAfter, start_undo_session
      <4> QED BY <1>2, <3>2, <4>1 DEF IInv, IdsBelowNext
    <3> QED BY <1>2, <3>1, <3>2
  <2> QED BY <1>2, <2>1, <2>2 DEF IdsBelowNext
<1>6. RevisionsContiguous'
  <2> SUFFICES ASSUME NEW i \in 1..n + 1
               PROVE  /\ stack'[i].revision = revision' - (n + 1 - i)
                      /\ snapshots'[i].revision = stack'[i].revision
    BY <1>2 DEF RevisionsContiguous
  <2>0. revision \in Int /\ revision' = revision + 1
    BY DEF IInv, TypeOK, start_undo_session
  <2>1. CASE i = n + 1
    BY <1>2, <2>0, <2>1 DEF EmptyState
  <2>2. CASE i \in 1..n
    BY <1>2, <2>0, <2>2 DEF IInv, RevisionsContiguous
  <2> QED BY <1>2, <2>1, <2>2
<1> QED BY <1>3, <1>4, <1>5, <1>6 DEF IInv

\* undo() brings back the table and the next id its session started from.
LEMMA UndoEffect ==
  ASSUME IInv, undo
  PROVE  /\ indices' = snapshots[Len(snapshots)].objects
         /\ next_id' = snapshots[Len(snapshots)].nextId
<1>1. Undone(Back, indices) = snapshots[Len(stack)].objects
  BY BackFacts, UndoneRestores DEF undo, IInv, TypeOK
<1> QED BY <1>1, BackFacts DEF undo

\* undo preserves the inductive invariant.
LEMMA UndoPreserves ==
  ASSUME IInv, undo, unwinding' \in BOOLEAN,
         snapshots' = SubSeq(snapshots, 1, Len(snapshots) - 1)
  PROVE  IInv'
<1> DEFINE n == Len(stack)
<1>1. n \in Nat \ {0} /\ Len(snapshots) = n
  BY BackFacts DEF undo
<1>2. /\ stack' \in Seq(UndoState) /\ snapshots' \in Seq(Snapshot)
      /\ Len(stack') = n - 1 /\ Len(snapshots') = n - 1
      /\ \A i \in 1..n - 1 : stack'[i] = stack[i] /\ snapshots'[i] = snapshots[i]
  BY <1>1 DEF IInv, TypeOK, undo, PopBack
<1>3. /\ indices' = snapshots[n].objects /\ next_id' = snapshots[n].nextId
      /\ revision' = revision - 1
  BY <1>1, UndoEffect DEF undo
<1>4. TypeOK'
  BY <1>2, <1>3, BackFacts DEF IInv, TypeOK, undo
<1>5. StackIsDifferences'
  <2> SUFFICES ASSUME NEW i \in 1..n - 1
               PROVE  Difference(snapshots'[i].objects, stack'[i], After(i)')
    BY <1>2 DEF StackIsDifferences
  <2>1. After(i)' = After(i)
    BY <1>1, <1>2, <1>3 DEF After
  <2> QED BY SMTT(40), <1>1, <1>2, <2>1 DEF IInv, StackIsDifferences
<1>6. IdsBelowNext'
  <2>1. DOMAIN indices' \subseteq 0..next_id' - 1
    BY <1>3, BackFacts DEF undo
  <2>2. ASSUME NEW i \in 1..n - 1
        PROVE  /\ stack'[i].old_next_id = snapshots'[i].nextId
               /\ snapshots'[i].nextId <= NextIdAfter(i)'
               /\ DOMAIN snapshots'[i].objects \subseteq 0..snapshots'[i].nextId - 1
               /\ \A id \in stack'[i].new_ids : id >= stack'[i].old_next_id
    <3>1. NextIdAfter(i)' = NextIdAfter(i)
      BY <1>1, <1>2, <1>3 DEF NextIdAfter
    <3> QED BY <1>1, <1>2, <3>1 DEF IInv, IdsBelowNext
  <2> QED BY <1>2, <2>1, <2>2 DEF IdsBelowNext
<1>7. RevisionsContiguous'
  <2> SUFFICES ASSUME NEW i \in 1..n - 1
               PROVE  /\ stack'[i].revision = revision' - (n - 1 - i)
                      /\ snapshots'[i].revision = stack'[i].revision
    BY <1>2 DEF RevisionsContiguous
  <2>1. /\ stack[i].revision = revision - (n - i)
        /\ snapshots[i].revision = stack[i].revision
    BY SMTT(40), <1>1 DEF IInv, RevisionsContiguous
  <2>2. revision \in Int
    BY DEF IInv, TypeOK
  <2>3. stack'[i] = stack[i] /\ snapshots'[i] = snapshots[i]
    BY <1>2
  <2>4. revision' = revision - 1
    BY <1>3
  <2>5. (revision - 1) - (n - 1 - i) = revision - (n - i)
    BY <1>1, <2>2
  <2> HIDE DEF n
  <2> QED BY <2>1, <2>3, <2>4, <2>5
<1> QED BY <1>4, <1>5, <1>6, <1>7 DEF IInv

\* squash preserves the inductive invariant: the merged state is a difference.
LEMMA SquashPreserves ==
  ASSUME IInv, squash, UNCHANGED unwinding,
         snapshots' = SubSeq(snapshots, 1, Len(snapshots) - 1)
  PROVE  IInv'
<1> DEFINE n == Len(stack)
           p == stack[n - 1]
           m == Merge(p, Back)
<1>1. n \in Nat \ {0} /\ Len(snapshots) = n
  BY BackFacts DEF squash
<1>2. CASE n = 1
  <2>1. stack' = <<>> /\ snapshots' = <<>> /\ Len(stack') = 0 /\ Len(snapshots') = 0
    BY <1>1, <1>2 DEF squash, IInv, TypeOK
  <2>2. TypeOK'
    <3>1. stack' \in Seq(UndoState) /\ snapshots' \in Seq(Snapshot)
      BY <2>1, EmptySeqType
    <3> QED BY <1>2, <2>1, <3>1 DEF IInv, TypeOK, squash
  <2>3. StackIsDifferences' /\ RevisionsContiguous'
    BY <2>1 DEF StackIsDifferences, RevisionsContiguous
  <2>4. IdsBelowNext'
    BY <2>1 DEF IInv, IdsBelowNext, squash
  <2> QED BY <2>2, <2>3, <2>4 DEF IInv
<1>3. CASE n # 1
  <2>1. /\ n - 1 \in 1..n /\ n - 1 # n /\ n - 1 + 1 = n
        /\ p \in UndoState
        /\ snapshots[n - 1] \in Snapshot
        /\ snapshots[n - 1].objects \in Table
    <3>1. n - 1 \in 1..n /\ n - 1 # n /\ n - 1 + 1 = n
      BY <1>1, <1>3
    <3>2. p \in UndoState /\ snapshots[n - 1] \in Snapshot
      BY <1>1, <3>1 DEF IInv, TypeOK
    <3> QED BY <3>1, <3>2 DEF Snapshot
  <2>2. /\ Difference(snapshots[n - 1].objects, p, snapshots[n].objects)
        /\ p.old_next_id = snapshots[n - 1].nextId
        /\ snapshots[n - 1].nextId <= snapshots[n].nextId
        /\ DOMAIN snapshots[n - 1].objects \subseteq 0..snapshots[n - 1].nextId - 1
        /\ \A id \in p.new_ids : id >= p.old_next_id
        /\ snapshots[n - 1].revision = p.revision
        /\ p.revision = revision - 1
        /\ snapshots[n - 1].nextId \in 0..MaxId
    <3>1. Difference(snapshots[n - 1].objects, p, snapshots[n].objects)
      BY <2>1 DEF IInv, StackIsDifferences, After
    <3>2. /\ p.old_next_id = snapshots[n - 1].nextId
          /\ snapshots[n - 1].nextId <= snapshots[n].nextId
          /\ DOMAIN snapshots[n - 1].objects \subseteq 0..snapshots[n - 1].nextId - 1
          /\ \A id \in p.new_ids : id >= p.old_next_id
      BY <2>1 DEF IInv, IdsBelowNext, NextIdAfter
    <3>3. snapshots[n - 1].revision = p.revision /\ p.revision = revision - 1
      BY <1>1, <2>1 DEF IInv, TypeOK, RevisionsContiguous
    <3> QED BY <2>1, <3>1, <3>2, <3>3 DEF Snapshot
  <2>3. /\ Back \in UndoState /\ snapshots[n].objects \in Table
        /\ Difference(snapshots[n].objects, Back, indices)
        /\ Back.old_next_id = snapshots[n].nextId
        /\ \A id \in Back.new_ids : id >= Back.old_next_id
        /\ snapshots[n].nextId <= next_id
        /\ snapshots[n].nextId \in 0..MaxId
    BY BackFacts DEF squash
  <2>4. Back.new_ids \cap DOMAIN snapshots[n - 1].objects = {}
    <3> SUFFICES ASSUME NEW id \in Back.new_ids, id \in DOMAIN snapshots[n - 1].objects
                 PROVE  FALSE
      OBVIOUS
    <3>1. id >= snapshots[n].nextId /\ id \in 0..snapshots[n - 1].nextId - 1
      BY <2>2, <2>3
    <3> QED BY <2>2, <2>3, <3>1, BoundAssumption
  <2>5. m \in UndoState /\ Difference(snapshots[n - 1].objects, m, indices)
    BY <2>1, <2>2, <2>3, <2>4, MergeDifference DEF IInv, TypeOK
  <2>6. /\ m.old_next_id = p.old_next_id /\ m.revision = p.revision
        /\ m.new_ids \subseteq p.new_ids \cup Back.new_ids
    BY <2>1 DEF Merge, UndoState
  <2>7. \A id \in m.new_ids : id >= m.old_next_id
    <3> SUFFICES ASSUME NEW id \in m.new_ids PROVE id >= p.old_next_id
      BY <2>6
    <3>1. CASE id \in p.new_ids
      BY <2>2, <3>1
    <3>2. CASE id \in Back.new_ids
      <4>1. id \in Ids
        BY <2>3, <3>2 DEF UndoState
      <4> QED BY <2>2, <2>3, <3>2, <4>1, BoundAssumption DEF Ids
    <3> QED BY <2>6, <3>1, <3>2
  <2> HIDE DEF m
  <2>8. /\ stack' = [PopBack EXCEPT ![n - 1] = m]
        /\ revision' = revision - 1 /\ UNCHANGED <<indices, next_id>>
    <3>1. PopBack \in Seq(UndoState) /\ Len(PopBack) = n - 1 /\ PopBack[n - 1] = p
      BY <1>1, <2>1 DEF IInv, TypeOK, PopBack
    <3> QED BY <1>3, <3>1 DEF squash, m
  <2>9. /\ stack' \in Seq(UndoState) /\ snapshots' \in Seq(Snapshot)
        /\ Len(stack') = n - 1 /\ Len(snapshots') = n - 1
        /\ stack'[n - 1] = m
        /\ \A i \in 1..n - 1 : i # n - 1 => stack'[i] = stack[i]
        /\ \A i \in 1..n - 1 : snapshots'[i] = snapshots[i]
    <3>1. PopBack \in Seq(UndoState) /\ Len(PopBack) = n - 1
      BY <1>1, <2>1 DEF IInv, TypeOK, PopBack
    <3>2. \A i \in 1..n - 1 : PopBack[i] = stack[i]
      BY <1>1, <2>1 DEF IInv, TypeOK, PopBack
    <3>3. /\ snapshots' \in Seq(Snapshot) /\ Len(snapshots') = n - 1
          /\ \A i \in 1..n - 1 : snapshots'[i] = snapshots[i]
      BY <1>1, <2>1 DEF IInv, TypeOK
    <3>4. /\ stack' \in Seq(UndoState) /\ Len(stack') = n - 1
          /\ stack'[n - 1] = m
      BY <1>1, <2>1, <2>5, <2>8, <3>1
    <3>5. \A i \in 1..n - 1 : i # n - 1 => stack'[i] = PopBack[i]
      BY <1>1, <2>8, <3>1
    <3> QED BY <3>2, <3>3, <3>4, <3>5
  <2>10. TypeOK'
    BY <2>8, <2>9 DEF IInv, TypeOK
  <2>11. StackIsDifferences'
    <3> SUFFICES ASSUME NEW i \in 1..n - 1
                 PROVE  Difference(snapshots'[i].objects, stack'[i], After(i)')
      BY <2>9 DEF StackIsDifferences
    <3>1. CASE i = n - 1
      BY <2>5, <2>8, <2>9, <3>1 DEF After
    <3>2. CASE i # n - 1
      <4>1. After(i)' = After(i)
        BY <1>1, <2>8, <2>9, <3>2 DEF After
      <4> QED BY <1>1, <2>9, <3>2, <4>1 DEF IInv, StackIsDifferences
    <3> QED BY <3>1, <3>2
  <2>12. IdsBelowNext'
    <3>1. ASSUME NEW i \in 1..n - 1
          PROVE  /\ stack'[i].old_next_id = snapshots'[i].nextId
                 /\ snapshots'[i].nextId <= NextIdAfter(i)'
                 /\ DOMAIN snapshots'[i].objects \subseteq 0..snapshots'[i].nextId - 1
                 /\ \A id \in stack'[i].new_ids : id >= stack'[i].old_next_id
      <4>1. CASE i = n - 1
        <5>1. NextIdAfter(i)' = next_id
          BY <2>8, <2>9, <4>1 DEF NextIdAfter
        <5>2. snapshots[n - 1].nextId <= next_id
          BY <2>2, <2>3, BoundAssumption DEF IInv, TypeOK
        <5> QED BY <2>2, <2>6, <2>7, <2>9, <4>1, <5>1, <5>2
      <4>2. CASE i # n - 1
        <5>1. NextIdAfter(i)' = NextIdAfter(i)
          BY <1>1, <2>8, <2>9, <4>2 DEF NextIdAfter
        <5> QED BY <1>1, <2>9, <4>2, <5>1 DEF IInv, IdsBelowNext
      <4> QED BY <4>1, <4>2
    <3> QED BY <2>8, <2>9, <3>1 DEF IInv, IdsBelowNext
  <2>13. RevisionsContiguous'
    <3> SUFFICES ASSUME NEW i \in 1..n - 1
                 PROVE  /\ stack'[i].revision = revision' - (n - 1 - i)
                        /\ snapshots'[i].revision = stack'[i].revision
      BY <2>9 DEF RevisionsContiguous
    <3>1. CASE i = n - 1
      BY <1>1, <2>2, <2>6, <2>8, <2>9, <3>1 DEF IInv, TypeOK
    <3>2. CASE i # n - 1
      BY <1>1, <2>8, <2>9, <3>2 DEF IInv, TypeOK, RevisionsContiguous
    <3> QED BY <3>1, <3>2
  <2> QED BY <2>10, <2>11, <2>12, <2>13 DEF IInv
<1> QED BY <1>2, <1>3

\* commit preserves the inductive invariant.
LEMMA CommitPreserves ==
  ASSUME IInv, NEW r \in Int, commit(r), UNCHANGED unwinding,
         snapshots' = SubSeq(snapshots, 1 + Len(stack) - Len(stack'), Len(snapshots))
  PROVE  IInv'
<1> DEFINE n == Len(stack)
<1>1. PICK k \in 1..n : stack' = SubSeq(stack, k + 1, n)
  BY DEF commit
<1>2. n \in Nat /\ Len(snapshots) = n /\ k \in Nat /\ k <= n
  BY DEF IInv, TypeOK
<1>3. /\ stack' \in Seq(UndoState) /\ Len(stack') = n - k
      /\ \A i \in 1..n - k : stack'[i] = stack[i + k]
  BY <1>1, <1>2 DEF IInv, TypeOK
<1>4. snapshots' = SubSeq(snapshots, k + 1, n)
  BY <1>2, <1>3
<1>5. /\ snapshots' \in Seq(Snapshot) /\ Len(snapshots') = n - k
      /\ \A i \in 1..n - k : snapshots'[i] = snapshots[i + k]
  BY <1>2, <1>4 DEF IInv, TypeOK
<1>6. UNCHANGED <<indices, next_id, revision>>
  BY DEF commit
<1>7. ASSUME NEW i \in 1..n - k
      PROVE  /\ i + k \in 1..n
             /\ After(i)' = After(i + k)
             /\ NextIdAfter(i)' = NextIdAfter(i + k)
  <2>1. i + k \in 1..n /\ (i = n - k <=> i + k = n)
    BY <1>2
  <2>2. CASE i = n - k
    BY <1>3, <1>6, <2>1, <2>2 DEF After, NextIdAfter
  <2>3. CASE i # n - k
    <3>1. i + 1 \in 1..n - k /\ (i + 1) + k = (i + k) + 1
      BY <1>2, <2>3
    <3> QED BY <1>3, <1>5, <2>1, <2>3, <3>1 DEF After, NextIdAfter
  <2> QED BY <2>1, <2>2, <2>3
<1>8. TypeOK'
  BY <1>3, <1>5, <1>6 DEF IInv, TypeOK
<1>9. StackIsDifferences'
  BY <1>3, <1>5, <1>7 DEF IInv, StackIsDifferences
<1>10. IdsBelowNext'
  <2>1. ASSUME NEW i \in 1..n - k
        PROVE  /\ stack'[i].old_next_id = snapshots'[i].nextId
               /\ snapshots'[i].nextId <= NextIdAfter(i)'
               /\ DOMAIN snapshots'[i].objects \subseteq 0..snapshots'[i].nextId - 1
               /\ \A id \in stack'[i].new_ids : id >= stack'[i].old_next_id
    BY <1>3, <1>5, <1>7 DEF IInv, IdsBelowNext
  <2> QED BY <1>3, <1>6, <2>1 DEF IInv, IdsBelowNext
<1>11. RevisionsContiguous'
  <2> SUFFICES ASSUME NEW i \in 1..n - k
               PROVE  /\ stack'[i].revision = revision - (n - k - i)
                      /\ snapshots'[i].revision = stack'[i].revision
    BY <1>3, <1>6 DEF RevisionsContiguous
  <2>1. /\ stack[i + k].revision = revision - (n - (i + k))
        /\ snapshots[i + k].revision = stack[i + k].revision
    BY <1>7 DEF IInv, RevisionsContiguous
  <2>2. n - (i + k) = n - k - i
    BY <1>2
  <2> QED BY <1>3, <1>5, <2>1, <2>2
<1> QED BY <1>8, <1>9, <1>10, <1>11 DEF IInv

\* set_revision preserves the inductive invariant.
LEMMA SetRevisionPreserves ==
  ASSUME IInv, NEW r \in Int, set_revision(r), UNCHANGED <<unwinding, snapshots>>
  PROVE  IInv'
<1>1. stack = <<>> /\ stack' = <<>> /\ Len(stack) = 0 /\ Len(stack') = 0
  BY DEF set_revision, enabled
<1>2. TypeOK'
  BY DEF IInv, TypeOK, set_revision
<1>3. StackIsDifferences' /\ RevisionsContiguous'
  BY <1>1 DEF StackIsDifferences, RevisionsContiguous
<1>4. IdsBelowNext'
  BY <1>1 DEF IInv, IdsBelowNext, set_revision
<1> QED BY <1>2, <1>3, <1>4 DEF IInv

\* Steps that leave the table, the stack and the history alone.
LEMMA FramePreserves ==
  ASSUME IInv, unwinding' \in BOOLEAN,
         UNCHANGED <<indices, next_id, stack, revision, snapshots>>
  PROVE  IInv'
<1>1. TypeOK'
  BY DEF IInv, TypeOK
<1>2. StackIsDifferences'
  BY DEF IInv, StackIsDifferences, After
<1>3. IdsBelowNext'
  BY DEF IInv, IdsBelowNext, NextIdAfter
<1>4. RevisionsContiguous'
  BY DEF IInv, RevisionsContiguous
<1> QED BY <1>1, <1>2, <1>3, <1>4 DEF IInv

\* Every step preserves the inductive invariant.
LEMMA NextIInv == IInv /\ [HNext]_hvars => IInv'
<1> SUFFICES ASSUME IInv, [HNext]_hvars PROVE IInv'
  OBVIOUS
<1>0. unwinding \in BOOLEAN
  BY DEF IInv, TypeOK
<1>1. ASSUME HOperation, UNCHANGED unwinding PROVE IInv'
  <2>1. ASSUME NEW v \in Value, emplace(v), UNCHANGED snapshots PROVE IInv'
    BY <1>1, <2>1, EmplacePreserves
  <2>2. ASSUME NEW id \in DOMAIN indices, NEW v \in Value, modify(id, v),
               UNCHANGED snapshots PROVE IInv'
    BY <1>1, <2>2, ModifyPreserves
  <2>3. ASSUME NEW id \in DOMAIN indices, remove(id), UNCHANGED snapshots PROVE IInv'
    BY <1>1, <2>3, RemovePreserves
  <2>4. ASSUME start_undo_session,
               snapshots' = Append(snapshots,
                 [objects |-> indices, nextId |-> next_id, revision |-> revision + 1])
        PROVE IInv'
    BY <1>1, <2>4, StartPreserves
  <2>5. ASSUME undo, snapshots' = SubSeq(snapshots, 1, Len(snapshots) - 1) PROVE IInv'
    BY <1>0, <1>1, <2>5, UndoPreserves
  <2>6. ASSUME squash, snapshots' = SubSeq(snapshots, 1, Len(snapshots) - 1) PROVE IInv'
    BY <1>1, <2>6, SquashPreserves
  <2>7. ASSUME NEW r \in 0..MaxRevision, commit(r),
               snapshots' = SubSeq(snapshots, 1 + Len(stack) - Len(stack'), Len(snapshots))
        PROVE IInv'
    BY <1>1, <2>7, CommitPreserves
  <2>8. ASSUME NEW r \in 0..MaxRevision, set_revision(r), UNCHANGED snapshots PROVE IInv'
    BY <1>1, <2>8, SetRevisionPreserves
  <2> QED BY <1>1, <2>1, <2>2, <2>3, <2>4, <2>5, <2>6, <2>7, <2>8 DEF HOperation, Change
<1>2. ASSUME undo_all, UNCHANGED snapshots PROVE IInv'
  BY <1>2, FramePreserves DEF undo_all
<1>3. ASSUME undo_all_round, snapshots' = SubSeq(snapshots, 1, Len(snapshots) - 1)
      PROVE IInv'
  BY <1>0, <1>3, UndoPreserves DEF undo_all_round
<1>4. ASSUME undo_all_done, UNCHANGED snapshots PROVE IInv'
  BY <1>4, FramePreserves DEF undo_all_done
<1>5. ASSUME UNCHANGED hvars PROVE IInv'
  BY <1>0, <1>5, FramePreserves DEF hvars
<1> QED BY <1>1, <1>2, <1>3, <1>4, <1>5 DEF HNext

\* The inductive invariant holds in every reachable state.
THEOREM Invariant == HSpec => []IInv
BY InitIInv, NextIInv, PTL DEF HSpec

\* Type correctness of generic_index's table and undo stack.
THEOREM TypeCorrect == HSpec => []TypeOK
<1>1. IInv => TypeOK
  BY DEF IInv
<1> QED BY <1>1, Invariant, PTL

\* Every undo_state on the stack is exactly the difference its session made,
\* through any sequence of emplace, modify, remove, undo, squash and commit.
THEOREM DifferencesCorrect == HSpec => []StackIsDifferences
<1>1. IInv => StackIsDifferences
  BY DEF IInv
<1> QED BY <1>1, Invariant, PTL

\* Object ids stay below the next id, and sessions create fresh ids.
THEOREM IdsCorrect == HSpec => []IdsBelowNext
<1>1. IInv => IdsBelowNext
  BY DEF IInv
<1> QED BY <1>1, Invariant, PTL

\* Revisions number the open sessions without gaps.
THEOREM RevisionsCorrect == HSpec => []RevisionsContiguous
<1>1. IInv => RevisionsContiguous
  BY DEF IInv
<1> QED BY <1>1, Invariant, PTL

-----------------------------------------------------------------------------
(* Refinement: every step of the index is a step of the snapshot stack.    *)

\* Every step of the index is a step of the stack of snapshots, or a stutter.
LEMMA StepSimulation == IInv /\ [HNext]_hvars => [Abs!AbsNext]_(Abs!absVars)
<1> SUFFICES ASSUME IInv, [HNext]_hvars
             PROVE  Abs!AbsNext \/ UNCHANGED Abs!absVars
  BY DEF Abs!absVars
<1>1. ASSUME NEW v \in Value, emplace(v), UNCHANGED snapshots PROVE Abs!AbsNext
  BY <1>1 DEF emplace, Put, Abs!AbsNext, Abs!Create, Abs!Put
<1>2. ASSUME NEW id \in DOMAIN indices, NEW v \in Value, modify(id, v),
             UNCHANGED snapshots
      PROVE Abs!AbsNext
  BY <1>2 DEF modify, Put, Abs!AbsNext, Abs!Change, Abs!Put
<1>3. ASSUME NEW id \in DOMAIN indices, remove(id), UNCHANGED snapshots
      PROVE Abs!AbsNext
  BY <1>3 DEF remove, Drop, Abs!AbsNext, Abs!Delete, Abs!Drop
<1>4. ASSUME start_undo_session,
             snapshots' = Append(snapshots,
               [objects |-> indices, nextId |-> next_id, revision |-> revision + 1])
      PROVE Abs!AbsNext
  BY <1>4 DEF start_undo_session, Abs!AbsNext, Abs!Take
<1>5. ASSUME undo, snapshots' = SubSeq(snapshots, 1, Len(snapshots) - 1)
      PROVE Abs!AbsNext
  <2>1. snapshots # <<>>
    BY <1>5, BackFacts DEF undo
  <2> QED BY <1>5, <2>1, UndoEffect DEF undo, Abs!AbsNext, Abs!Restore
<1>6. ASSUME squash, snapshots' = SubSeq(snapshots, 1, Len(snapshots) - 1)
      PROVE Abs!AbsNext
  <2>1. snapshots # <<>> /\ Len(snapshots) = Len(stack)
    BY <1>6, BackFacts DEF squash
  <2> QED BY <1>6, <2>1 DEF squash, Abs!AbsNext, Abs!Forget
<1>7. ASSUME NEW r \in 0..MaxRevision, commit(r),
             snapshots' = SubSeq(snapshots, 1 + Len(stack) - Len(stack'), Len(snapshots))
      PROVE Abs!AbsNext
  <2>1. PICK k \in 1..Len(stack) : stack' = SubSeq(stack, k + 1, Len(stack))
    BY <1>7 DEF commit
  <2>2. Len(stack) \in Nat /\ Len(snapshots) = Len(stack)
    BY DEF IInv, TypeOK
  <2>3. Len(stack') = Len(stack) - k
    BY <2>1, <2>2 DEF IInv, TypeOK
  <2>4. snapshots' = SubSeq(snapshots, k + 1, Len(snapshots))
    BY <1>7, <2>2, <2>3
  <2> QED BY <1>7, <2>2, <2>4 DEF commit, Abs!AbsNext, Abs!Discard
<1>8. ASSUME NEW r \in 0..MaxRevision, set_revision(r), UNCHANGED snapshots
      PROVE Abs!AbsNext
  <2>1. snapshots = <<>>
    <3>1. stack = <<>> /\ Len(stack) = 0
      BY <1>8 DEF set_revision, enabled
    <3>2. snapshots \in Seq(Snapshot) /\ Len(snapshots) = 0
      BY <3>1 DEF IInv, TypeOK
    <3> QED BY <3>2
  <2> QED BY <1>8, <2>1 DEF set_revision, Abs!AbsNext, Abs!Renumber
<1>9. ASSUME undo_all \/ undo_all_done, UNCHANGED snapshots
      PROVE UNCHANGED Abs!absVars
  BY <1>9 DEF undo_all, undo_all_done, Abs!absVars
<1>10. ASSUME UNCHANGED hvars PROVE UNCHANGED Abs!absVars
  BY <1>10 DEF hvars, Abs!absVars
<1> QED BY <1>1, <1>2, <1>3, <1>4, <1>5, <1>6, <1>7, <1>8, <1>9, <1>10
        DEF HNext, HOperation, Change, undo_all_round

\* generic_index, with its difference records, implements a stack of full
\* snapshots: undo() restores exactly the table its session started from,
\* squash() and commit() never change it.
THEOREM Refinement == HSpec => ImplementsSnapshots
<1>1. HInit => Abs!AbsInit
  BY DEF HInit, Init, Abs!AbsInit
<1> QED BY <1>1, Invariant, StepSimulation, PTL
        DEF HSpec, ImplementsSnapshots, Abs!AbsSpec
=============================================================================
