CONSTANTS
  List = {"blog", "other", "index"}
  Category = {"by_author", "created"}
  CategoryOf <- MCCategoryOf
  Replies = {"other"}
  BatchSize = 2
  MaxBatches = 2
  Own = {1, 5}
  FirstPosts <- MCFirstPosts
  MaxChanges = 1
  Name = {1, 2, 3}
  Limit = 2
  Web = {"w"}
  Blob = {"x"}
  Ask <- MCAsk
  Slot = {1, 2}
  MaxVersion = 2
SPECIFICATION Spec
INVARIANTS NoGaps FollowsComplete AnswersKept
PROPERTY ScrollsToEnd
CHECK_DEADLOCK FALSE
