------------------------------ MODULE BlockSlots ------------------------------
(***************************************************************************)
(* The slot arithmetic of blurt::chain::database and what a block does to  *)
(* it: which witness may sign at which time (validate_block_header), the   *)
(* slots counted as filled or missed (update_global_dynamic_data), and the *)
(* last irreversible block (update_last_irreversible_block).               *)
(*                                                                         *)
(* The state is the part of dynamic_global_property_object and of the      *)
(* witness objects that these functions touch.  Times are seconds and need *)
(* not be aligned to the block interval.  recent_slots_filled is the set   *)
(* of the positions of its one-bits.  The witnesses of a new round are     *)
(* left open (WitnessSchedule has the choice), transactions are left out.  *)
(***************************************************************************)
EXTENDS Integers, Sequences, FiniteSets

CONSTANTS
  Witness,         \* witness accounts
  InitMiner,       \* BLURT_INIT_MINER_NAME
  Interval,        \* BLURT_BLOCK_INTERVAL (3)
  GenesisTime,     \* BLURT_GENESIS_TIME
  SlotBits,        \* bits of recent_slots_filled (128)
  MaxWitnesses,    \* BLURT_MAX_WITNESSES (21)
  Threshold,       \* BLURT_IRREVERSIBLE_THRESHOLD, in percent (75)
  MaxUndoHistory,  \* BLURT_MAX_UNDO_HISTORY (10000)
  MaxTime,         \* bound: block times
  MaxHeight        \* bound: blocks

\* Both networks start on a multiple of the block interval, and more than
\* half of the witnesses must confirm a block.
ASSUME SlotAssumption ==
  /\ IsFiniteSet(Witness) /\ InitMiner \in Witness
  /\ Interval \in Nat \ {0} /\ SlotBits \in Nat \ {0}
  /\ MaxWitnesses \in Nat \ {0} /\ MaxUndoHistory \in Nat \ {0}
  /\ GenesisTime \in Nat /\ MaxTime \in Nat /\ MaxHeight \in Nat
  /\ GenesisTime % Interval = 0 /\ GenesisTime <= MaxTime
  /\ Threshold \in 51..100

VARIABLES
  time,                         \* dgp.time, the head block time
  head_block_number,            \* dgp.head_block_number
  current_aslot,                \* dgp.current_aslot
  recent_slots_filled,          \* dgp.recent_slots_filled
  participation_count,          \* dgp.participation_count
  last_irreversible_block_num,  \* dgp.last_irreversible_block_num
  scheduled,                    \* wso.current_shuffled_witnesses
  last_confirmed_block_num,     \* witness.last_confirmed_block_num
  last_aslot,                   \* witness.last_aslot
  total_missed,                 \* witness.total_missed
  signers                       \* history: who signed each block

vars == <<time, head_block_number, current_aslot, recent_slots_filled,
          participation_count, last_irreversible_block_num, scheduled,
          last_confirmed_block_num, last_aslot, total_missed, signers>>

-----------------------------------------------------------------------------
(* Slots.                                                                  *)

\* Mutant of get_slot_time: the time of the head block is not rounded down.
get_slot_time_unaligned(slot_num) ==
  IF slot_num = 0 THEN 0 ELSE time + slot_num * Interval

\* Slot 0 is never; slot 1 is the first after the head block's.
get_slot_time(slot_num) ==
  IF slot_num = 0 THEN 0
  ELSE IF head_block_number = 0 THEN time + slot_num * Interval
  ELSE (time \div Interval + slot_num) * Interval

get_slot_at_time(when) ==
  IF when < get_slot_time(1) THEN 0
  ELSE (when - get_slot_time(1)) \div Interval + 1

get_scheduled_witness(slot_num) ==
  scheduled[((current_aslot + slot_num) % Len(scheduled)) + 1]

validate_block_header(witness, timestamp) ==
  /\ time < timestamp
  /\ get_slot_at_time(timestamp) > 0
  /\ witness = get_scheduled_witness(get_slot_at_time(timestamp))

-----------------------------------------------------------------------------
(* Participation.                                                          *)

\* Mutant of ShiftSlot: the bit that falls out is not taken off the count.
ShiftSlot_counts_only_up(slots, filled) ==
  [bits  |-> {p + 1 : p \in slots.bits \ {SlotBits - 1}} \cup (IF filled THEN {0} ELSE {}),
   count |-> slots.count + (IF filled THEN 1 ELSE 0)]

\* One round of the loop that shifts recent_slots_filled.
ShiftSlot(slots, filled) ==
  [bits  |-> {p + 1 : p \in slots.bits \ {SlotBits - 1}} \cup (IF filled THEN {0} ELSE {}),
   count |-> slots.count - (IF SlotBits - 1 \in slots.bits THEN 1 ELSE 0)
                         + (IF filled THEN 1 ELSE 0)]

\* The loop: the block's own slot goes in first, then one per missed slot.
ShiftSlots(missed_blocks) ==
  LET after[i \in 0..missed_blocks + 1] ==
        IF i = 0
        THEN [bits |-> recent_slots_filled, count |-> participation_count]
        ELSE ShiftSlot(after[i - 1], i = 1)
  IN after[missed_blocks + 1]

\* Mutant of MissedBy: the loop runs one slot too far and spares nobody.
MissedBy_off_by_one(w, witness, missed_blocks) ==
  Cardinality({i \in 1..missed_blocks + 1 : get_scheduled_witness(i) = w})

\* The missed slots a witness is charged with, the signer being let off.
MissedBy(w, witness, missed_blocks) ==
  IF w = witness THEN 0
  ELSE Cardinality({i \in 1..missed_blocks : get_scheduled_witness(i) = w})

update_global_dynamic_data(witness, timestamp) ==
  LET missed_blocks == get_slot_at_time(timestamp) - 1
      slots == ShiftSlots(missed_blocks)
  IN /\ total_missed' =
          [w \in Witness |-> total_missed[w] + MissedBy(w, witness, missed_blocks)]
     /\ recent_slots_filled' = slots.bits
     /\ participation_count' = slots.count
     /\ head_block_number' = head_block_number + 1
     /\ time' = timestamp
     /\ current_aslot' = current_aslot + missed_blocks + 1
     /\ head_block_number' - last_irreversible_block_num < MaxUndoHistory

\* Runs after the slot counter has moved on, so the block's slot is "slot 0".
update_signing_witness(witness) ==
  /\ last_confirmed_block_num' =
       [last_confirmed_block_num EXCEPT ![witness] = head_block_number']
  /\ last_aslot' = [last_aslot EXCEPT ![witness] = current_aslot']

-----------------------------------------------------------------------------
(* Irreversibility.                                                        *)

\* Mutant of Offset: counted from the wrong end.
Offset_from_top == (Threshold * Len(scheduled)) \div 100

\* How many of the scheduled witnesses may be behind an irreversible block.
Offset == ((100 - Threshold) * Len(scheduled)) \div 100

\* The element nth_element leaves at position `offset' of the scheduled
\* witnesses' last confirmed blocks.
NthConfirmed(offset) ==
  LET confirmed(i) == last_confirmed_block_num'[scheduled[i]]
  IN CHOOSE n \in {confirmed(i) : i \in DOMAIN scheduled} :
       /\ Cardinality({i \in DOMAIN scheduled : confirmed(i) < n}) <= offset
       /\ Cardinality({i \in DOMAIN scheduled : confirmed(i) <= n}) > offset

\* The number never falls, though a new round may bring in witnesses that
\* have not signed for long.
update_last_irreversible_block ==
  last_irreversible_block_num' =
    IF NthConfirmed(Offset) > last_irreversible_block_num
    THEN NthConfirmed(Offset) ELSE last_irreversible_block_num

-----------------------------------------------------------------------------
Rounds ==
  {s \in UNION {[1..n -> Witness] : n \in 1..MaxWitnesses} :
     \A i, j \in DOMAIN s : s[i] = s[j] => i = j}

\* Every MaxWitnesses blocks a new round begins.
update_witness_schedule ==
  IF head_block_number' % MaxWitnesses = 0 THEN scheduled' \in Rounds
                                           ELSE UNCHANGED scheduled

\* The part of _apply_block that concerns the header, in its order.
apply_block(witness, timestamp) ==
  /\ head_block_number < MaxHeight
  /\ validate_block_header(witness, timestamp)
  /\ update_global_dynamic_data(witness, timestamp)
  /\ update_signing_witness(witness)
  /\ update_last_irreversible_block
  /\ update_witness_schedule
  /\ signers' = Append(signers, witness)

Init ==
  /\ time = GenesisTime
  /\ head_block_number = 0
  /\ current_aslot = 0
  /\ recent_slots_filled = 0..SlotBits - 1
  /\ participation_count = SlotBits
  /\ last_irreversible_block_num = 0
  /\ scheduled = <<InitMiner>>
  /\ last_confirmed_block_num = [w \in Witness |-> 0]
  /\ last_aslot = [w \in Witness |-> 0]
  /\ total_missed = [w \in Witness |-> 0]
  /\ signers = <<>>

Next == \E w \in Witness, t \in GenesisTime..MaxTime : apply_block(w, t)

Spec == Init /\ [][Next]_vars

-----------------------------------------------------------------------------
\* Type correctness of the slot state.
TypeOK ==
  /\ time \in GenesisTime..MaxTime
  /\ head_block_number \in 0..MaxHeight
  /\ current_aslot \in Nat
  /\ recent_slots_filled \subseteq 0..SlotBits - 1
  /\ participation_count \in 0..SlotBits
  /\ last_irreversible_block_num \in 0..head_block_number
  /\ scheduled \in Seq(Witness) /\ scheduled # <<>>
  /\ last_confirmed_block_num \in [Witness -> 0..head_block_number]
  /\ last_aslot \in [Witness -> 0..current_aslot]
  /\ total_missed \in [Witness -> Nat]

\* The incremental participation_count is the number of one-bits that
\* witness_participation_rate counts, through any run of missed slots, longer
\* ones than recent_slots_filled has bits included.
CountsFilledSlots == participation_count = Cardinality(recent_slots_filled)

\* "current_aslot [is] equal to the total number of slots since genesis", for
\* block times that lie anywhere within their slot.
SlotsSinceGenesis == current_aslot = (time - GenesisTime) \div Interval

\* Every slot since genesis is accounted for: it has a block, or it is missed
\* and charged to at most one witness.
MissedAtMostOnce ==
  LET all[S \in SUBSET Witness] ==
        IF S = {} THEN 0
        ELSE LET w == CHOOSE x \in S : TRUE IN total_missed[w] + all[S \ {w}]
  IN head_block_number + all[Witness] <= current_aslot

\* Blocks, slots, one-bits and missed blocks are counted consistently, each
\* by an update of its own (update_global_dynamic_data).
SlotsCounted == CountsFilledSlots /\ SlotsSinceGenesis /\ MissedAtMostOnce

\* A block becomes irreversible only when at least Threshold percent of the
\* witnesses of the round have each signed it or a block on top of it, and
\* never on the signature of its own producer alone, unless that is the only
\* witness.
BackedByThreshold ==
  [][last_irreversible_block_num' > last_irreversible_block_num =>
      LET backers == {i \in DOMAIN scheduled :
                        \E n \in last_irreversible_block_num'..head_block_number' :
                          signers'[n] = scheduled[i]}
      IN /\ 100 * Cardinality(backers) >= Threshold * Len(scheduled)
         /\ Len(scheduled) > 1 => last_irreversible_block_num' < head_block_number']_vars

-----------------------------------------------------------------------------
\* What the proofs carry along: nobody stands twice in a round, and what a
\* witness object says of the last block it signed is true.
RoundDistinct ==
  \A i, j \in DOMAIN scheduled : scheduled[i] = scheduled[j] => i = j

ConfirmedSigned ==
  /\ signers \in Seq(Witness) /\ Len(signers) = head_block_number
  /\ \A w \in Witness : last_confirmed_block_num[w] # 0 =>
       signers[last_confirmed_block_num[w]] = w

StartsAtGenesis == head_block_number = 0 => time = GenesisTime

IInv == TypeOK /\ SlotsCounted /\ RoundDistinct /\ ConfirmedSigned /\ StartsAtGenesis
=============================================================================
