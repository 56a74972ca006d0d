--------------------------- MODULE WitnessSchedule ---------------------------
(***************************************************************************)
(* Which witnesses produce the next round of blocks: the most voted ones,  *)
(* and the one whose virtual race comes first (update_witness_schedule),   *)
(* as votes change (adjust_witness_vote) and witnesses register or give up *)
(* their signing key (witness_update).                                     *)
(*                                                                         *)
(* Virtual time is a fixed-width unsigned integer (128 bits in the code),  *)
(* and a lap is as long as it can count, so the wrap-around is part of the *)
(* algorithm.  Witnesses are numbered in the order of their names and ids. *)
(* The order of the round is a shuffle and does not matter here; median    *)
(* properties and the hardfork vote are not part of this module.           *)
(***************************************************************************)
EXTENDS Integers, FiniteSets

CONSTANTS
  NumWitnesses,    \* accounts that may become witnesses
  FirstWitnesses,  \* witnesses of the genesis state
  MaxWitnesses,    \* BLURT_MAX_WITNESSES (21)
  MaxVoted,        \* max_voted_witnesses (20)
  MaxTime,         \* the largest virtual time (2^128 - 1)
  MaxVotes,        \* bound: votes for one witness
  MaxDisabled,     \* bound: witnesses without a signing key
  MaxVoteChanges   \* bound: vote changes

ASSUME ScheduleAssumption ==
  /\ {NumWitnesses, FirstWitnesses, MaxWitnesses, MaxVoted, MaxTime, MaxVotes,
      MaxDisabled, MaxVoteChanges} \subseteq Nat
  /\ FirstWitnesses <= NumWitnesses
  /\ 1 <= MaxVoted /\ MaxVoted <= MaxWitnesses

VARIABLES
  registered,              \* the witness objects
  has_key,                 \* those whose signing_key is not null
  votes,                   \* votes
  virtual_position,        \* virtual_position
  virtual_last_update,     \* virtual_last_update
  virtual_scheduled_time,  \* virtual_scheduled_time
  current_virtual_time,    \* wso.current_virtual_time
  active,                  \* the witnesses of the round
  changes                  \* vote changes so far

virtualVars == <<virtual_position, virtual_last_update, virtual_scheduled_time>>
scheduleVars == <<registered, has_key, votes, virtualVars, current_virtual_time, active,
                  changes>>

Witness == 1..NumWitnesses

Lap == MaxTime

Wrap(n) == n % (MaxTime + 1)

-----------------------------------------------------------------------------
(* Votes and keys.                                                         *)

\* witness_update and witness_set_properties: a new witness starts its race
\* at the end of virtual time.
witness_update(w, key) ==
  /\ registered' = registered \cup {w}
  /\ has_key' = IF key THEN has_key \cup {w} ELSE has_key \ {w}
  /\ Cardinality(registered' \ has_key') <= MaxDisabled
  /\ UNCHANGED <<votes, virtualVars, current_virtual_time, active, changes>>

\* Mutant of adjust_witness_vote: a time that has wrapped around is kept.
adjust_witness_vote_keeps_wrapped(w, v) ==
  LET position == Wrap(virtual_position[w] + votes[w] *
                         (current_virtual_time - virtual_last_update[w]))
      time == Wrap(current_virtual_time + (Lap - position) \div (v + 1))
  IN /\ w \in registered /\ v # votes[w]
     /\ changes < MaxVoteChanges
     /\ changes' = changes + 1
     /\ votes' = [votes EXCEPT ![w] = v]
     /\ virtual_position' = [virtual_position EXCEPT ![w] = position]
     /\ virtual_last_update' =
          [virtual_last_update EXCEPT ![w] = current_virtual_time]
     /\ virtual_scheduled_time' = [virtual_scheduled_time EXCEPT ![w] = time]
     /\ UNCHANGED <<registered, has_key, current_virtual_time, active>>

\* The votes of w become v: its position is brought up to date, and the time
\* at which it will complete its lap follows from the new speed.
adjust_witness_vote(w, v) ==
  LET position == Wrap(virtual_position[w] + votes[w] *
                         (current_virtual_time - virtual_last_update[w]))
      time == Wrap(current_virtual_time + (Lap - position) \div (v + 1))
  IN /\ w \in registered /\ v # votes[w]
     /\ changes < MaxVoteChanges
     /\ changes' = changes + 1
     /\ votes' = [votes EXCEPT ![w] = v]
     /\ virtual_position' = [virtual_position EXCEPT ![w] = position]
     /\ virtual_last_update' =
          [virtual_last_update EXCEPT ![w] = current_virtual_time]
     /\ virtual_scheduled_time' =
          [virtual_scheduled_time EXCEPT
             ![w] = IF time < current_virtual_time THEN MaxTime ELSE time]
     /\ UNCHANGED <<registered, has_key, current_virtual_time, active>>

-----------------------------------------------------------------------------
(* update_witness_schedule.                                                *)

\* by_vote_name and by_schedule_time.
MoreVotes(u, w) == votes[u] > votes[w] \/ (votes[u] = votes[w] /\ u < w)

Earlier(u, w) ==
  \/ virtual_scheduled_time[u] < virtual_scheduled_time[w]
  \/ virtual_scheduled_time[u] = virtual_scheduled_time[w] /\ u < w

\* The first n of a set of witnesses in an order.
First(n, set, Before(_, _)) ==
  {w \in set : Cardinality({u \in set : Before(u, w)}) < n}

Elected == First(MaxVoted, has_key, MoreVotes)

Places == MaxWitnesses - Cardinality(Elected)

Timeshare == First(Places, has_key \ Elected, Earlier)

\* The witnesses the timeshare loop looks at before the round is full, those
\* it passes over included.
Processed ==
  {w \in registered : Cardinality({u \in Timeshare : Earlier(u, w)}) < Places}

\* Mutant of NewVirtualTime: time stands still.
NewVirtualTime_stands_still == current_virtual_time

\* Everyone advances to the scheduled time of the last witness looked at.
NewVirtualTime ==
  IF Processed = {} THEN current_virtual_time
  ELSE CHOOSE t \in {virtual_scheduled_time[w] : w \in Processed} :
         \A w \in Processed : virtual_scheduled_time[w] <= t

LapTime(w) == Lap \div (votes[w] + 1)

Overflow == \E w \in Processed : NewVirtualTime + LapTime(w) > MaxTime

\* FC_ASSERT( active_witnesses.size() == expected_active_witnesses ): a block
\* for which it fails is refused.
RoundIsFull ==
  Cardinality(Elected \cup Timeshare) =
    IF Cardinality(registered) < MaxWitnesses THEN Cardinality(registered)
                                              ELSE MaxWitnesses

reset_virtual_schedule_time ==
  /\ current_virtual_time' = 0
  /\ virtual_position' = [w \in Witness |-> 0]
  /\ virtual_last_update' = [w \in Witness |-> 0]
  /\ virtual_scheduled_time' =
       [w \in Witness |-> IF w \in registered THEN LapTime(w) ELSE MaxTime]

\* The witnesses looked at start their next lap.
StartNextLap ==
  /\ current_virtual_time' = NewVirtualTime
  /\ virtual_position' =
       [w \in Witness |-> IF w \in Processed THEN 0 ELSE virtual_position[w]]
  /\ virtual_last_update' =
       [w \in Witness |-> IF w \in Processed THEN NewVirtualTime
                          ELSE virtual_last_update[w]]
  /\ virtual_scheduled_time' =
       [w \in Witness |-> IF w \in Processed THEN Wrap(NewVirtualTime + LapTime(w))
                          ELSE virtual_scheduled_time[w]]

update_witness_schedule ==
  /\ RoundIsFull
  /\ active' = Elected \cup Timeshare
  /\ IF Overflow THEN reset_virtual_schedule_time ELSE StartNextLap
  /\ UNCHANGED <<registered, has_key, votes, changes>>

ScheduleInit ==
  /\ registered = 1..FirstWitnesses
  /\ has_key = registered
  /\ votes = [w \in Witness |-> 0]
  /\ virtual_position = [w \in Witness |-> 0]
  /\ virtual_last_update = [w \in Witness |-> 0]
  /\ virtual_scheduled_time = [w \in Witness |-> MaxTime]
  /\ current_virtual_time = 0
  /\ active = {}
  /\ changes = 0

ScheduleNext ==
  \/ \E w \in Witness, key \in BOOLEAN : witness_update(w, key)
  \/ \E w \in Witness, v \in 0..MaxVotes : adjust_witness_vote(w, v)
  \/ update_witness_schedule

ScheduleSpec == ScheduleInit /\ [][ScheduleNext]_scheduleVars

\* Blocks keep coming, so a new round begins again and again.
FairScheduleSpec == ScheduleSpec /\ WF_scheduleVars(update_witness_schedule)

-----------------------------------------------------------------------------
\* Type correctness of the schedule.
ScheduleTypeOK ==
  /\ registered \subseteq Witness /\ has_key \subseteq registered
  /\ active \subseteq registered
  /\ votes \in [Witness -> 0..MaxVotes]
  /\ virtual_position \in [Witness -> 0..MaxTime]
  /\ virtual_last_update \in [Witness -> 0..MaxTime]
  /\ virtual_scheduled_time \in [Witness -> 0..MaxTime]
  /\ current_virtual_time \in 0..MaxTime
  /\ changes \in 0..MaxVoteChanges

\* No race is scheduled to end in the past and no position was updated in
\* the future, whatever the votes and however often virtual time wraps.
RaceAhead ==
  \A w \in registered :
    /\ virtual_last_update[w] <= current_virtual_time
    /\ current_virtual_time <= virtual_scheduled_time[w]

\* "The top N witnesses by votes are scheduled every round, every one else
\* takes turns": a witness that keeps a key and at least one vote is
\* scheduled again and again.
EveryoneTakesTurns ==
  \A w \in Witness :
    []<>(w \in active \/ w \notin has_key \/ votes[w] = 0)
=============================================================================
