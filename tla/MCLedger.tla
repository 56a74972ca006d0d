------------------------------ MODULE MCLedger ------------------------------
(***************************************************************************)
(* Ledger with three users, one of whom owns nothing at first.             *)
(***************************************************************************)
EXTENDS Ledger, TLC

CONSTANTS alice, bob, carol

\* A comment of which both rich users are curators, one with beneficiaries,
\* and one without curators whose author takes no BLURT.
Votes(some) == [u \in Users |-> IF u \in some THEN 1 ELSE 0]
MCComments ==
  {[author |-> alice, reward |-> 8, weights |-> Votes({bob, carol}),
    total_vote_weight |-> 2, beneficiaries |-> <<>>, percent_blurt |-> Full],
   [author |-> carol, reward |-> 5, weights |-> Votes({alice}),
    total_vote_weight |-> 2, percent_blurt |-> Full,
    beneficiaries |-> (Treasury :> 1 @@ Null :> 1)],
   [author |-> bob, reward |-> 3, weights |-> Votes({}),
    total_vote_weight |-> 0, beneficiaries |-> (alice :> 1), percent_blurt |-> 0]}
=============================================================================
