---------------------------- MODULE PostLists -------------------------------
(***************************************************************************)
(* How the web interface fills its lists of posts page by page while the   *)
(* reader scrolls and moves about (FetchDataSaga, GlobalReducer).          *)
(*                                                                         *)
(* A saga gives way where it waits for the node.  redux-saga's takeLatest  *)
(* lets a new REQUEST_DATA cancel the task of the one before, and a new    *)
(* location cancel fetchState, but not fetchData.  The posts of a list are *)
(* numbered by age; the node lists them newest first.                      *)
(***************************************************************************)
EXTENDS Integers, FiniteSets, SequencesExt

CONSTANTS
  List,          \* content lists: an order and a tag, or a page of a profile
  Category,      \* keys of global.status
  CategoryOf,    \* the key of each list: it does not name the account
  Replies,       \* the lists of order by_replies
  BatchSize,     \* FETCH_DATA_BATCH_SIZE
  MaxBatches,    \* MAX_BATCHES
  Own,           \* the posts that postFilter lets through
  FirstPosts,    \* the number of posts in each list at first
  MaxChanges     \* bound: posts that are written or deleted

ASSUME ContentAssumption ==
  /\ CategoryOf \in [List -> Category] /\ Replies \subseteq List
  /\ BatchSize \in Nat \ {0, 1} /\ MaxBatches \in Nat \ {0}
  /\ FirstPosts \in [List -> Nat]

VARIABLES
  server,     \* the posts of every list at the node
  changes,    \* how often they have changed
  posts,      \* discussion_idx or accounts: the keys of every list, in order
  status,     \* global.status: fetching, recent (last_fetch) or none
  task,       \* the task of fetchData
  view,       \* the list of the page that is shown
  state,      \* the task of fetchState
  abandoned,  \* categories whose fetch has failed or was cancelled
  remerged    \* lists that a second fetchState was merged into

nodeVars == <<server, changes>>
listVars == <<posts, status, task, abandoned>>
pageVars == <<view, state, remerged>>
contentVars == <<nodeVars, listVars, pageVars>>

Idle == [pc |-> "none"]

Descending(S) ==
  [i \in 1 .. Cardinality(S) |-> CHOOSE p \in S : Cardinality({q \in S : q >= p}) = i]

UpTo(s, n) == SubSeq(s, 1, IF Len(s) < n THEN Len(s) ELSE n)

Page_ByCount(l, start) ==
  LET rest == SubSeq(Descending(server[l]), Len(posts[l]) + 1, Cardinality(server[l]))
  IN  UpTo(rest, BatchSize)

(* A page of a list: at most BatchSize posts, the start among them. *)
Page(l, start) == UpTo(Descending({p \in server[l] : p <= start}), BatchSize)

(* What get_state knows of a list. *)
FirstPage(l) == UpTo(Descending(server[l]), BatchSize)

(* The page comes with the state of its list (ignore_fetch). *)
ContentInit ==
  /\ server = [l \in List |-> 1 .. FirstPosts[l]] /\ changes = 0
  /\ view \in List /\ state = Idle /\ remerged = {}
  /\ posts = [l \in List |-> IF l = view THEN FirstPage(l) ELSE <<>>]
  /\ status = [c \in Category |-> "none"] /\ task = Idle /\ abandoned = {}

-----------------------------------------------------------------------------
(* The node: a post is written or deleted. *)
Write(l) ==
  /\ changes < MaxChanges /\ changes' = changes + 1
  /\ server' = [server EXCEPT ![l] = @ \union {FirstPosts[l] + changes + 1}]
  /\ UNCHANGED <<listVars, pageVars>>

Delete(l) ==
  /\ changes < MaxChanges /\ changes' = changes + 1
  /\ \E p \in server[l] : server' = [server EXCEPT ![l] = @ \ {p}]
  /\ UNCHANGED <<listVars, pageVars>>

-----------------------------------------------------------------------------
last_post_First == Head(posts[view])

(* The post that the list hands to loadMore. *)
last_post == Last(posts[view])

(* loadMore of the page that is shown, unless isFetchingOrRecentlyUpdated: *)
(* FETCHING_DATA, and the task that calls the node from the last post on.  *)
(* takeLatest cancels the task of before, and its status stays fetching.   *)
loadMore(filter) ==
  /\ posts[view] # <<>> /\ status[CategoryOf[view]] = "none"
  /\ status' = [status EXCEPT ![CategoryOf[view]] = "fetching"]
  /\ task' = [pc |-> "fetching", list |-> view, start |-> last_post,
              batch |-> 0, fetched |-> 0, filter |-> filter]
  /\ abandoned' = IF task.pc = "none" THEN abandoned
                  ELSE abandoned \union {CategoryOf[task.list]}
  /\ UNCHANGED <<nodeVars, posts, pageVars>>

(* The batch is the last one at the end of the data, at MAX_BATCHES, or    *)
(* when enough posts pass the filter.                                      *)
fetchDone(data, batch, fetched) ==
  \/ Len(data) < BatchSize
  \/ batch >= MaxBatches
  \/ fetched >= BatchSize

Counted(data) == Cardinality({i \in DOMAIN data : task.filter => data[i] \in Own})

(* RECEIVE_DATA: key by key, what the list does not hold is appended. *)
Appended(list, data) ==
  LET appended[i \in 0 .. Len(data)] ==
        IF i = 0 THEN list
        ELSE IF data[i] \in Range(appended[i - 1]) THEN appended[i - 1]
        ELSE Append(appended[i - 1], data[i])
  IN  appended[Len(data)]

Received(data, done) ==
  /\ posts' = [posts EXCEPT ![task.list] = Appended(@, data)]
  /\ status' = [status EXCEPT ![CategoryOf[task.list]] =
                  IF ~done THEN "fetching"
                  ELSE IF Len(data) < BatchSize THEN "recent" ELSE "none"]

(* One batch of fetchData.  The node knows no list that starts at a post   *)
(* it does not have.                                                       *)
fetchData ==
  /\ task.pc = "fetching" /\ task.start \in server[task.list]
  /\ LET data == Page(task.list, task.start)
         fetched == task.fetched + Counted(data)
         done == fetchDone(data, task.batch + 1, fetched)
     IN  /\ Received(data, done)
         /\ task' = IF done THEN Idle
                    ELSE [task EXCEPT !.batch = @ + 1, !.fetched = fetched,
                            !.start = IF task.list \in Replies THEN @ ELSE Last(data)]
  /\ UNCHANGED <<nodeVars, abandoned, pageVars>>

(* The call throws: fetchData reports it and ends. *)
fetchFails ==
  /\ task.pc = "fetching"
  /\ task' = Idle /\ abandoned' = abandoned \union {CategoryOf[task.list]}
  /\ UNCHANGED <<nodeVars, posts, status, pageVars>>

(* FETCH_DATA_EXPIRE_SEC after last_fetch. *)
Expire(c) ==
  /\ status[c] = "recent" /\ status' = [status EXCEPT ![c] = "none"]
  /\ UNCHANGED <<nodeVars, posts, task, abandoned, pageVars>>

-----------------------------------------------------------------------------
(* A new location: takeLatest cancels the fetchState of the one before. *)
Visit(l) ==
  /\ l # view /\ view' = l /\ state' = [pc |-> "fetching", list |-> l]
  /\ UNCHANGED <<nodeVars, listVars, remerged>>

(* RECEIVE_STATE: mergeDeep of two lists goes by position. *)
Merged(old, new) ==
  [i \in 1 .. (IF Len(old) > Len(new) THEN Len(old) ELSE Len(new)) |->
     IF i <= Len(new) THEN new[i] ELSE old[i]]

fetchState ==
  /\ state.pc = "fetching" /\ state' = Idle
  /\ \/ /\ posts' = [posts EXCEPT ![state.list] = Merged(@, FirstPage(state.list))]
        /\ remerged' = IF posts[state.list] = <<>> THEN remerged
                       ELSE remerged \union {state.list}
     \/ UNCHANGED <<posts, remerged>>  \* the call throws
  /\ UNCHANGED <<nodeVars, status, task, abandoned, view>>

-----------------------------------------------------------------------------
ContentNext ==
  \/ \E l \in List : Write(l) \/ Delete(l) \/ Visit(l)
  \/ \E filter \in BOOLEAN : loadMore(filter)
  \/ fetchData \/ fetchFails \/ fetchState
  \/ \E c \in Category : Expire(c)

ContentSpec == ContentInit /\ [][ContentNext]_contentVars

-----------------------------------------------------------------------------
TaskTypeOK ==
  task = Idle \/
    /\ task.pc = "fetching" /\ task.list \in List /\ task.start \in Nat
    /\ task.batch \in 0 .. MaxBatches - 1 /\ task.fetched \in 0 .. BatchSize - 1
    /\ task.filter \in BOOLEAN

ContentTypeOK ==
  /\ changes \in 0 .. MaxChanges /\ DOMAIN server = List /\ DOMAIN posts = List
  /\ \A l \in List :
       server[l] \union Range(posts[l]) \subseteq 1 .. FirstPosts[l] + MaxChanges
  /\ status \in [Category -> {"none", "fetching", "recent"}]
  /\ view \in List /\ (state = Idle \/ state = [pc |-> "fetching", list |-> view])
  /\ remerged \subseteq List /\ abandoned \subseteq Category
  /\ TaskTypeOK

(* A list shows the posts from its first to its last one as the node has   *)
(* them, newest first, none twice and none left out, whatever is written,  *)
(* deleted, cancelled or fetched for other lists meanwhile - as long as    *)
(* RECEIVE_STATE did not meet a list that was already there (fetchData,    *)
(* RECEIVE_DATA).                                                          *)
NoGaps ==
  \A l \in List \ remerged :
    /\ \A i, j \in DOMAIN posts[l] : i < j => posts[l][i] > posts[l][j]
    /\ \A p \in server[l] :
         posts[l] # <<>> /\ p < Head(posts[l]) /\ p > Last(posts[l])
         => p \in Range(posts[l])

AtEnd(l) ==
  /\ posts[l] # <<>>
  /\ \A p \in server[l] : p < Last(posts[l]) => p \in Range(posts[l])

(* A reader who stays on a page and scrolls on comes to the end of its     *)
(* list, again and again while posts are deleted, unless its state could   *)
(* not be loaded or a fetch of its category has failed or was cancelled    *)
(* (loadMore, fetchData, isFetchingOrRecentlyUpdated).                     *)
ScrollsToEnd ==
  \/ []<><<view' # view>>_contentVars
  \/ []<>(posts[view] = <<>> \/ CategoryOf[view] \in abandoned \/ AtEnd(view))
=============================================================================
