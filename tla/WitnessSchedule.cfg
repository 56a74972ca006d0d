SPECIFICATION FairScheduleSpec
CONSTANTS
  NumWitnesses = 4
  FirstWitnesses = 3
  MaxWitnesses = 2
  MaxVoted = 1
  MaxTime = 15
  MaxVotes = 2
  MaxDisabled = 1
  MaxVoteChanges = 3
INVARIANT RaceAhead
PROPERTY EveryoneTakesTurns
