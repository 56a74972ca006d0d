SPECIFICATION FairSpec
CONSTANTS
  Value = {a, b}
  MaxId = 2
  MaxDepth = 3
  MaxRevision = 4
INVARIANTS StackIsDifferences IdsBelowNext RevisionsContiguous
PROPERTIES ImplementsSnapshots UndoAllEnds
