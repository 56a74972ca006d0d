---------------------------- MODULE FollowLoader -----------------------------
(***************************************************************************)
(* The accounts that the owner of a profile follows, as the web interface  *)
(* loads them (FollowSaga) and keeps them up to date when operations of    *)
(* the owner are accepted (TransactionSaga).                               *)
(*                                                                         *)
(* fetchState forks the loader; a new location cancels fetchState, and     *)
(* with it the loader (redux-saga's takeLatest).  An error that no saga    *)
(* catches ends the root saga and with it every watcher.                   *)
(***************************************************************************)
EXTENDS Integers, FiniteSets, SequencesExt

CONSTANTS
  Name,   \* accounts, numbered by name
  Limit   \* limit of loadFollowsLoop

ASSUME LoaderAssumption ==
  Name \subseteq Nat \ {0} /\ IsFiniteSet(Name) /\ Limit \in Nat \ {0, 1}

VARIABLES
  following,  \* whom the profile follows, at the node
  profile,    \* the profile's page is shown
  follow,     \* blog_result, whether it is there, blog_loading
  loader,     \* the task of loadFollows
  accepted,   \* a follow operation on its way to accepted_custom_json
  alive,      \* the root saga runs
  seen        \* what the node has said of following since the load began

followVars == <<following, profile, follow, loader, accepted, alive, seen>>

NoTask == [pc |-> "none"]

Loader == [pc |-> "asking", start |-> 0, names |-> {}]

Watched == [complete |-> FALSE, always |-> following, ever |-> following]

FollowInit ==
  /\ following \in SUBSET Name /\ profile = FALSE
  /\ follow = [result |-> {}, has |-> FALSE, loading |-> FALSE]
  /\ loader = NoTask /\ accepted = NoTask /\ alive = TRUE /\ seen = Watched

(* A new location cancels the loader that runs, and blog_loading stays.    *)
(* The page of the profile loads the accounts unless they are loading or   *)
(* there.                                                                  *)
ChangePage ==
  /\ alive /\ profile' \in BOOLEAN
  /\ IF profile' /\ ~follow.loading /\ ~follow.has
     THEN /\ loader' = Loader /\ seen' = Watched
          /\ follow' = [follow EXCEPT !.loading = TRUE]
     ELSE loader' = NoTask /\ UNCHANGED <<follow, seen>>
  /\ UNCHANGED <<following, accepted, alive>>

(* The node's answer: names from start on, in order. *)
FollowPage(start) ==
  LET names == {n \in following : n >= start}
      before(n) == Cardinality({k \in names : k <= n})
  IN  [i \in 1 .. Cardinality({n \in names : before(n) <= Limit}) |->
         CHOOSE n \in names : before(n) = i]

FullPage_OffByOne(res) == Len(res) > Limit

FullPage(res) == Len(res) = Limit

(* A page of limit names is followed by the next one, which starts at its  *)
(* last name; a shorter one is the last, and what was gathered becomes     *)
(* blog_result.                                                            *)
loadFollowsLoop ==
  /\ alive /\ loader.pc = "asking"
  /\ LET res == FollowPage(loader.start)
         names == loader.names \union Range(res)
     IN  IF FullPage(res)
         THEN /\ loader' = [loader EXCEPT !.names = names, !.start = Last(res)]
              /\ UNCHANGED <<follow, seen>>
         ELSE /\ loader' = NoTask
              /\ follow' = [result |-> names, has |-> TRUE, loading |-> FALSE]
              /\ seen' = [seen EXCEPT !.complete = TRUE]
  /\ UNCHANGED <<following, profile, accepted, alive>>

(* Nothing catches what the node's call throws. *)
loadFollowsFails ==
  /\ alive /\ loader.pc = "asking" /\ alive' = FALSE
  /\ UNCHANGED <<following, profile, follow, loader, accepted, seen>>

(* A follow operation of the profile's owner takes effect at the node ... *)
Follow(n) ==
  /\ alive /\ accepted.pc = "none"
  /\ accepted' = [pc |-> "accepted", name |-> n, blog |-> n \notin following]
  /\ following' = IF n \in following THEN following \ {n} ELSE following \union {n}
  /\ seen' = [seen EXCEPT !.always = @ \ {n}, !.ever = @ \union {n}]
  /\ UNCHANGED <<profile, follow, loader, alive>>

(* ... and in the store: updateFollowState, which makes a blog_result if   *)
(* there is none.                                                          *)
accepted_custom_json ==
  /\ alive /\ accepted.pc = "accepted" /\ accepted' = NoTask
  /\ follow' = [follow EXCEPT !.has = TRUE,
                  !.result = IF accepted.blog THEN @ \union {accepted.name}
                             ELSE @ \ {accepted.name}]
  /\ UNCHANGED <<following, profile, loader, seen, alive>>

-----------------------------------------------------------------------------
FollowNext ==
  \/ ChangePage \/ loadFollowsLoop \/ loadFollowsFails
  \/ \E n \in Name : Follow(n)
  \/ accepted_custom_json

FollowSpec == FollowInit /\ [][FollowNext]_followVars

FollowTypeOK ==
  /\ following \subseteq Name /\ follow.result \subseteq Name
  /\ follow.has \in BOOLEAN /\ follow.loading \in BOOLEAN
  /\ profile \in BOOLEAN /\ alive \in BOOLEAN
  /\ loader = NoTask \/ (loader.pc = "asking" /\ loader.names \subseteq Name)
  /\ accepted = NoTask \/ accepted.name \in Name

(* When the pages of loadFollowsLoop are through, blog_result has every    *)
(* account that was followed all the time and none that never was, though  *)
(* follows and unfollows are accepted between the pages.                   *)
FollowsComplete ==
  seen.complete =>
    seen.always \subseteq follow.result /\ follow.result \subseteq seen.ever
=============================================================================
