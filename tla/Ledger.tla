------------------------------- MODULE Ledger -------------------------------
(***************************************************************************)
(* Where the tokens are.  The node keeps two units: BLURT, of which        *)
(* current_supply counts all there is, and VESTS, the shares of the        *)
(* vesting fund.  BLURT lies in balances, savings, escrows, savings        *)
(* withdrawals, the reward fund, the vesting fund and in rewards not yet   *)
(* claimed.  The operations of users (steem_evaluator.cpp) and the work    *)
(* done in every block (database.cpp, _apply_block) move it between them,  *)
(* each updating two or more of the counters that                          *)
(* database::validate_invariants() relates.                                *)
(*                                                                         *)
(* All hardforks are applied.  Dates are left out: what waits for a date   *)
(* may happen at any time.  How much a power-down withdraws, and how much  *)
(* of the reward fund a comment earns, is any amount the funds allow.      *)
(* There is one escrow at a time; escrows do not touch each other.         *)
(***************************************************************************)
EXTENDS Integers, FiniteSets, FiniteSetsExt

CONSTANTS
  Users,          \* accounts somebody has the keys of
  Rich,           \* the users that own something in the genesis snapshot
  Null,           \* BLURT_NULL_ACCOUNT: what it receives is burned
  Treasury,       \* BLURT_TREASURY_ACCOUNT: pays the proposals
  NoEscrow,       \* there is no escrow
  Full,           \* BLURT_100_PERCENT
  GenesisVests,   \* VESTS for one BLURT while nothing is vested
  Balance0, Power0, Fund0,   \* what a rich user and the reward fund start with
  ContentPercent, VestingPercent, SpsPercent,   \* where new BLURT goes
  MaxWitnesses, ElectedWeight, TimeshareWeight, Normalization, \* witness pay
  CurationPercent,           \* percent_curation_rewards
  Fee,            \* fee of a transaction, of a new account, of a proposal
  Amounts, Shares, Percents, \* bounds: what operations are tried with, in
                             \* BLURT, in VESTS, and as percent of a route
  Comments,       \* bound: the comments that are paid out
  NewBlurt,       \* bound: the BLURT a block is tried with as inflation
  MaxSupply,      \* bound on inflation
  MaxRequests,    \* BLURT_SAVINGS_WITHDRAW_REQUEST_LIMIT
  MaxRoutes,      \* BLURT_MAX_WITHDRAW_ROUTES
  MaxOps          \* bound on the operations and payouts of a behaviour

Accounts == Users \cup {Null, Treasury}

PerAccount == [Accounts -> Nat]

Total(f) == MapThenSumSet(LAMBDA a : f[a], DOMAIN f)

ASSUME LedgerAssumption ==
  /\ Rich \subseteq Users /\ Rich # {} /\ IsFiniteSet(Users)
  /\ Null \notin Users /\ Treasury \notin Users /\ Null # Treasury
  /\ Full \in Nat \ {0} /\ GenesisVests \in Nat \ {0}
  /\ Normalization \in Nat \ {0} /\ Power0 \in Nat \ {0}
  /\ Balance0 \in Nat /\ Fund0 \in Nat /\ Fee \in Nat
  /\ MaxWitnesses \in Nat /\ ElectedWeight \in Nat /\ TimeshareWeight \in Nat
  /\ ContentPercent \in Nat /\ VestingPercent \in Nat /\ SpsPercent \in Nat
  /\ ContentPercent + VestingPercent + SpsPercent <= Full
  /\ CurationPercent \in 0..Full

\* What the validate() of operations lets through: amounts are positive, and
\* no more than everything is routed.
ASSUME InputAssumption ==
  /\ Amounts \subseteq Nat \ {0} /\ Shares \subseteq Nat \ {0}
  /\ Percents \subseteq 0..Full /\ NewBlurt \subseteq Nat
  /\ MaxRequests \in Nat /\ MaxRoutes \in Nat /\ MaxOps \in Nat /\ MaxSupply \in Nat
  /\ NoEscrow \notin [from : Users, to : Users, agent : Users, blurt_balance : Nat,
                      pending_fee : Nat, to_approved : BOOLEAN,
                      agent_approved : BOOLEAN, disputed : BOOLEAN]

\* Comments are voted for by users, the weights adding up to no more than
\* total_vote_weight, and give beneficiaries no more than everything.
ASSUME CommentAssumption ==
  \A c \in Comments :
    /\ c.author \in Users /\ c.reward \in Nat /\ c.percent_blurt \in 0..Full
    /\ c.weights \in [Users -> Nat] /\ c.total_vote_weight \in Nat
    /\ Total(c.weights) <= c.total_vote_weight
    /\ c.beneficiaries \in [DOMAIN c.beneficiaries -> Nat]
    /\ DOMAIN c.beneficiaries \subseteq Accounts /\ Total(c.beneficiaries) <= Full

VARIABLES
  ledger,      \* the balances of all accounts and the global counters
  escrow,      \* the escrow_object of the model, or NoEscrow
  requests,    \* the savings_withdraw_objects
  routes,      \* withdraw_vesting_route_objects: account -> account -> route
  uncredited,  \* history: rewards taken from the fund and given to nobody
  ops          \* number of operations and payouts so far

vars == <<ledger, escrow, requests, routes, uncredited, ops>>
objectVars == <<escrow, requests, routes>>

LedgerRecords ==
  [balance : PerAccount, savings_balance : PerAccount,
   reward_blurt_balance : PerAccount, reward_vesting_blurt : PerAccount,
   reward_vesting_balance : PerAccount, vesting_shares : PerAccount,
   total_vesting_fund_blurt : Nat, total_vesting_shares : Nat,
   pending_rewarded_vesting_shares : Nat, pending_rewarded_vesting_blurt : Nat,
   reward_balance : Nat, current_supply : Nat, unbacked : Nat]
Escrows ==
  [from : Users, to : Users, agent : Users, blurt_balance : Nat \ {0},
   pending_fee : Nat, to_approved : BOOLEAN, agent_approved : BOOLEAN,
   disputed : BOOLEAN]
Requests ==
  [from : Users, to : Accounts, amount : Nat \ {0}, request_id : 1..MaxRequests]
Routes == [percent : 1..Full, auto_vest : BOOLEAN]

----------------------------------------------------------------------------
(***************************************************************************)
(* Prices.  A price is a pair of amounts; multiplying rounds down.         *)
(***************************************************************************)
\* Mutant: the one who leaves is paid the rounded-up value.
ToBlurt_rounds_up(n, p) == (n * p.blurt + p.vests - 1) \div p.vests

ToVests(n, p) == (n * p.vests) \div p.blurt
ToBlurt(n, p) == (n * p.blurt) \div p.vests

get_vesting_share_price(l) ==
  IF l.total_vesting_fund_blurt = 0 \/ l.total_vesting_shares = 0
  THEN [vests |-> GenesisVests, blurt |-> 1]
  ELSE [vests |-> l.total_vesting_shares, blurt |-> l.total_vesting_fund_blurt]

get_reward_vesting_share_price(l) ==
  IF \/ l.pending_rewarded_vesting_shares = 0
     \/ l.pending_rewarded_vesting_blurt = 0
  THEN get_vesting_share_price(l)
  ELSE [vests |-> l.total_vesting_shares + l.pending_rewarded_vesting_shares,
        blurt |-> l.total_vesting_fund_blurt + l.pending_rewarded_vesting_blurt]

----------------------------------------------------------------------------
(***************************************************************************)
(* What the helpers of database.cpp do to the ledger.  adjust_balance      *)
(* refuses to take more than there is: its callers have Has as a guard.    *)
(***************************************************************************)
Has(a, n) == ledger.balance[a] >= n

adjust_balance(l, a, delta) == [l EXCEPT !.balance[a] = @ + delta]

adjust_savings_balance(l, a, delta) ==
  [l EXCEPT !.savings_balance[a] = @ + delta]

\* A reward worth no shares at all is kept as BLURT.
modify_reward_balance(l, a, value, shares) ==
  IF shares = 0
  THEN [l EXCEPT !.reward_blurt_balance[a] = @ + value]
  ELSE [l EXCEPT !.reward_vesting_blurt[a] = @ + value,
                 !.reward_vesting_balance[a] = @ + shares]

\* Liquid BLURT becomes shares of a, at once or as a reward to be claimed.  A
\* reward worth no shares is counted as backing all the same (unbacked is a
\* history of that).
create_vesting2(l, a, liquid, to_reward_balance) ==
  IF to_reward_balance
  THEN LET new_vesting == ToVests(liquid, get_reward_vesting_share_price(l))
       IN [modify_reward_balance(l, a, liquid, new_vesting) EXCEPT
             !.pending_rewarded_vesting_shares = @ + new_vesting,
             !.pending_rewarded_vesting_blurt = @ + liquid,
             !.unbacked = IF new_vesting = 0 THEN @ + liquid ELSE @]
  ELSE LET new_vesting == ToVests(liquid, get_vesting_share_price(l))
       IN [l EXCEPT !.vesting_shares[a] = @ + new_vesting,
                    !.total_vesting_fund_blurt = @ + liquid,
                    !.total_vesting_shares = @ + new_vesting]

\* n shares are handed to a and stay in the vesting fund.
HandVests(l, a, n) == [l EXCEPT !.vesting_shares[a] = @ + n]

\* n shares leave the vesting fund and their value is paid to a.
RedeemVests(l, a, n) ==
  LET converted == ToBlurt(n, get_vesting_share_price(l))
  IN [adjust_balance(l, a, converted) EXCEPT
        !.total_vesting_fund_blurt = @ - converted,
        !.total_vesting_shares = @ - n]

----------------------------------------------------------------------------
(***************************************************************************)
(* Operations of users.                                                    *)
(***************************************************************************)
Move(l, from, to, n) == adjust_balance(adjust_balance(l, from, -n), to, n)

transfer(from, to, n) ==
  /\ Has(from, n)
  /\ ledger' = Move(ledger, from, to, n)
  /\ UNCHANGED <<objectVars, uncredited>>

transfer_to_vesting(from, to, n) ==
  /\ Has(from, n)
  /\ ledger' = create_vesting2(adjust_balance(ledger, from, -n), to, n, FALSE)
  /\ UNCHANGED <<objectVars, uncredited>>

\* Every account whose authority a transaction needs pays the fee, and the
\* fee is burned.
process_tx_fee(required) ==
  /\ \A a \in required : Has(a, Fee)
  /\ ledger' = FoldSet(LAMBDA a, l : Move(l, a, Null, Fee), ledger, required)
  /\ UNCHANGED <<objectVars, uncredited>>

\* A new account costs its creator a fee, which is burned; it owns nothing.
account_create(creator) ==
  /\ Has(creator, Fee)
  /\ ledger' = Move(ledger, creator, Null, Fee)
  /\ UNCHANGED <<objectVars, uncredited>>

\* A proposal costs its creator a fee, which goes to the treasury.
create_proposal(creator) ==
  /\ Has(creator, Fee)
  /\ ledger' = Move(ledger, creator, Treasury, Fee)
  /\ UNCHANGED <<objectVars, uncredited>>

transfer_to_savings(from, to, n) ==
  /\ to # Treasury
  /\ Has(from, n)
  /\ ledger' = adjust_savings_balance(adjust_balance(ledger, from, -n), to, n)
  /\ UNCHANGED <<objectVars, uncredited>>

RequestsOf(a) == {r \in requests : r.from = a}

transfer_from_savings(from, to, n, id) ==
  /\ Cardinality(RequestsOf(from)) < MaxRequests
  /\ \A r \in RequestsOf(from) : r.request_id # id
  /\ ledger.savings_balance[from] >= n
  /\ ledger' = adjust_savings_balance(ledger, from, -n)
  /\ requests' = requests \cup
       {[from |-> from, to |-> to, amount |-> n, request_id |-> id]}
  /\ UNCHANGED <<escrow, routes, uncredited>>

cancel_transfer_from_savings(r) ==
  /\ ledger' = adjust_savings_balance(ledger, r.from, r.amount)
  /\ requests' = requests \ {r}
  /\ UNCHANGED <<escrow, routes, uncredited>>

\* Mutant: the backing is computed from the price of shares now.
claim_reward_balance_at_price(a, reward_blurt, reward_vests) ==
  LET value == ToBlurt(reward_vests, get_vesting_share_price(ledger))
      moved == IF value > ledger.reward_vesting_blurt[a]
               THEN ledger.reward_vesting_blurt[a] ELSE value
  IN /\ reward_blurt + reward_vests > 0
     /\ reward_blurt <= ledger.reward_blurt_balance[a]
     /\ reward_vests <= ledger.reward_vesting_balance[a]
     /\ ledger' = [adjust_balance(ledger, a, reward_blurt) EXCEPT
                     !.reward_blurt_balance[a] = @ - reward_blurt,
                     !.vesting_shares[a] = @ + reward_vests,
                     !.reward_vesting_balance[a] = @ - reward_vests,
                     !.reward_vesting_blurt[a] = @ - moved,
                     !.total_vesting_shares = @ + reward_vests,
                     !.total_vesting_fund_blurt = @ + moved,
                     !.pending_rewarded_vesting_shares = @ - reward_vests,
                     !.pending_rewarded_vesting_blurt = @ - moved]
     /\ UNCHANGED <<objectVars, uncredited>>

\* Part of the rewards, or all of them, become balance and shares of a.  The
\* BLURT that backs the shares moves in proportion, and all of it at the end.
claim_reward_balance(a, reward_blurt, reward_vests) ==
  LET backing == ledger.reward_vesting_blurt[a]
      shares == ledger.reward_vesting_balance[a]
      moved == IF reward_vests = shares THEN backing
               ELSE (reward_vests * backing) \div shares
  IN /\ reward_blurt + reward_vests > 0
     /\ reward_blurt <= ledger.reward_blurt_balance[a]
     /\ reward_vests <= shares
     /\ ledger' = [adjust_balance(ledger, a, reward_blurt) EXCEPT
                     !.reward_blurt_balance[a] = @ - reward_blurt,
                     !.vesting_shares[a] = @ + reward_vests,
                     !.reward_vesting_balance[a] = @ - reward_vests,
                     !.reward_vesting_blurt[a] = @ - moved,
                     !.total_vesting_shares = @ + reward_vests,
                     !.total_vesting_fund_blurt = @ + moved,
                     !.pending_rewarded_vesting_shares = @ - reward_vests,
                     !.pending_rewarded_vesting_blurt = @ - moved]
     /\ UNCHANGED <<objectVars, uncredited>>

\* How much of a withdrawal an account's routes take, in percent.
Routed(r) == Total([a \in DOMAIN r |-> r[a].percent])

\* Route percent of what from withdraws to another account (0: no more).
set_withdraw_vesting_route(from, to, percent, auto_vest) ==
  LET others == DOMAIN routes[from] \ {to}
      new == [percent |-> percent, auto_vest |-> auto_vest]
  IN /\ to # Treasury
     /\ \/ to \in DOMAIN routes[from]
        \/ percent # 0 /\ Cardinality(DOMAIN routes[from]) < MaxRoutes
     /\ routes' = [routes EXCEPT ![from] =
          [a \in IF percent = 0 THEN others ELSE others \cup {to} |->
             IF a = to THEN new ELSE @[a]]]
     /\ Routed(routes'[from]) <= Full
     /\ UNCHANGED <<ledger, escrow, requests, uncredited>>

----------------------------------------------------------------------------
(***************************************************************************)
(* Escrows: from pays to through an agent.  Both approve, for a fee to the *)
(* agent, or the money goes back.                                          *)
(***************************************************************************)
Ratified == escrow.to_approved /\ escrow.agent_approved

escrow_transfer(from, to, agent, n, fee) ==
  /\ escrow = NoEscrow
  /\ agent \notin {from, to}
  /\ Has(from, n + fee)
  /\ ledger' = adjust_balance(ledger, from, -(n + fee))
  /\ escrow' = [from |-> from, to |-> to, agent |-> agent,
                blurt_balance |-> n, pending_fee |-> fee,
                to_approved |-> FALSE, agent_approved |-> FALSE,
                disputed |-> FALSE]
  /\ UNCHANGED <<requests, routes, uncredited>>

\* What is in the escrow goes back to the sender.
RefundEscrow ==
  /\ ledger' = adjust_balance(adjust_balance(ledger, escrow.from,
                 escrow.blurt_balance), escrow.from, escrow.pending_fee)
  /\ escrow' = NoEscrow
  /\ UNCHANGED <<requests, routes, uncredited>>

\* Mutant: the fee paid to the agent stays in the escrow as well.
escrow_approve_keeps_fee(who, approve) ==
  LET to_approved == escrow.to_approved \/ who = escrow.to
      agent_approved == escrow.agent_approved \/ who = escrow.agent
  IN /\ escrow # NoEscrow
     /\ \/ who = escrow.to /\ ~escrow.to_approved
        \/ who = escrow.agent /\ ~escrow.agent_approved
     /\ \/ ~approve /\ RefundEscrow
        \/ /\ approve
           /\ ledger' = IF to_approved /\ agent_approved
                        THEN adjust_balance(ledger, escrow.agent, escrow.pending_fee)
                        ELSE ledger
           /\ escrow' = [escrow EXCEPT !.to_approved = to_approved,
                                       !.agent_approved = agent_approved]
           /\ UNCHANGED <<requests, routes, uncredited>>

\* One of the two approves or rejects; the agent is paid by the second approval.
escrow_approve(who, approve) ==
  LET to_approved == escrow.to_approved \/ who = escrow.to
      agent_approved == escrow.agent_approved \/ who = escrow.agent
      ratified == to_approved /\ agent_approved
      fee == IF ratified THEN escrow.pending_fee ELSE 0
  IN /\ escrow # NoEscrow
     /\ \/ who = escrow.to /\ ~escrow.to_approved
        \/ who = escrow.agent /\ ~escrow.agent_approved
     /\ \/ /\ ~approve
           /\ RefundEscrow
        \/ /\ approve
           /\ ledger' = adjust_balance(ledger, escrow.agent, fee)
           /\ escrow' = [escrow EXCEPT !.to_approved = to_approved,
                                       !.agent_approved = agent_approved,
                                       !.pending_fee = @ - fee]
           /\ UNCHANGED <<requests, routes, uncredited>>

escrow_dispute ==
  /\ escrow # NoEscrow
  /\ Ratified /\ ~escrow.disputed
  /\ escrow' = [escrow EXCEPT !.disputed = TRUE]
  /\ UNCHANGED <<ledger, requests, routes, uncredited>>

\* Who may send the money where: under dispute the agent decides; before the
\* expiration a party may only give it to the other; afterwards either takes it.
MayRelease(who, receiver, expired) ==
  \/ escrow.disputed /\ who = escrow.agent
  \/ /\ ~escrow.disputed
     /\ who \in {escrow.from, escrow.to}
     /\ ~expired => receiver = IF who = escrow.from THEN escrow.to ELSE escrow.from

\* Mutant: more may be released than the escrow holds.
escrow_release_unchecked(who, receiver, n, expired) ==
  /\ escrow # NoEscrow
  /\ Ratified
  /\ receiver \in {escrow.from, escrow.to}
  /\ MayRelease(who, receiver, expired)
  /\ ledger' = adjust_balance(ledger, receiver, n)
  /\ escrow' = IF n = escrow.blurt_balance THEN NoEscrow
               ELSE [escrow EXCEPT !.blurt_balance = @ - n]
  /\ UNCHANGED <<requests, routes, uncredited>>

escrow_release(who, receiver, n, expired) ==
  /\ escrow # NoEscrow
  /\ Ratified
  /\ receiver \in {escrow.from, escrow.to}
  /\ n <= escrow.blurt_balance
  /\ MayRelease(who, receiver, expired)
  /\ ledger' = adjust_balance(ledger, receiver, n)
  /\ escrow' = IF n = escrow.blurt_balance THEN NoEscrow
               ELSE [escrow EXCEPT !.blurt_balance = @ - n]
  /\ UNCHANGED <<requests, routes, uncredited>>

\* The deadline passes before both approved.
expire_escrow_ratification ==
  /\ escrow # NoEscrow
  /\ ~Ratified
  /\ RefundEscrow

----------------------------------------------------------------------------
(***************************************************************************)
(* What every block does.                                                  *)
(***************************************************************************)

\* All that the null account holds is burned.
clear_null_account_balance ==
  LET shares == ledger.vesting_shares[Null]
      value == ToBlurt(shares, get_vesting_share_price(ledger))
      backing == IF ledger.reward_vesting_balance[Null] > 0
                 THEN ledger.reward_vesting_blurt[Null] ELSE 0
      total == ledger.balance[Null] + ledger.savings_balance[Null] + value
               + ledger.reward_blurt_balance[Null] + backing
  IN /\ ledger' = [ledger EXCEPT
          !.balance[Null] = 0,
          !.savings_balance[Null] = 0,
          !.vesting_shares[Null] = 0,
          !.reward_blurt_balance[Null] = 0,
          !.reward_vesting_balance[Null] = 0,
          !.reward_vesting_blurt[Null] = @ - backing,
          !.total_vesting_shares = @ - shares,
          !.total_vesting_fund_blurt = @ - value,
          !.pending_rewarded_vesting_shares =
             @ - ledger.reward_vesting_balance[Null],
          !.pending_rewarded_vesting_blurt = @ - backing,
          !.current_supply = @ - total]
     /\ UNCHANGED <<objectVars, uncredited>>

\* new BLURT for the reward fund, the vesting fund, the treasury and, as
\* shares, for the witness who made the block.
process_funds(new, producer, weight) ==
  LET content == (new * ContentPercent) \div Full
      vesting == (new * VestingPercent) \div Full
      sps == (new * SpsPercent) \div Full
      rest == new - content - vesting - sps
      pay == (rest * MaxWitnesses * weight) \div Normalization
      funded == [adjust_balance(ledger, Treasury, sps) EXCEPT
                   !.reward_balance = @ + content,
                   !.total_vesting_fund_blurt = @ + vesting,
                   !.current_supply = @ + content + vesting + pay + sps]
  IN /\ ledger.current_supply + content + vesting + pay + sps <= MaxSupply
     /\ ledger' = create_vesting2(funded, producer, pay, FALSE)
     /\ UNCHANGED <<objectVars, uncredited>>

\* A voter's share of max_rewards, by the weight of the vote.  The weights may
\* add up to less than total_vote_weight; the rest stays in the reward fund.
Claim(c, max_rewards, voter) ==
  IF c.total_vote_weight = 0 THEN 0
  ELSE (max_rewards * c.weights[voter]) \div c.total_vote_weight

pay_curators(l, c, max_rewards) ==
  FoldSet(LAMBDA v, m : create_vesting2(m, v, Claim(c, max_rewards, v), TRUE),
          l, {v \in Users : Claim(c, max_rewards, v) > 0})

\* A beneficiary gets a share of the author's tokens, the treasury as balance.
PayBeneficiary(l, account, tokens) ==
  IF account = Treasury THEN adjust_balance(l, Treasury, tokens)
  ELSE create_vesting2(l, account, tokens, TRUE)

\* A comment c is paid out from the reward fund, of which it has earned
\* c.reward.  The author's part in BLURT is computed and given to nobody.
cashout_comment_helper(c) ==
  LET max_rewards == (c.reward * CurationPercent) \div Full
      curation == Total([v \in Users |-> Claim(c, max_rewards, v)])
      author_tokens == c.reward - max_rewards
      Benefit(b) == (author_tokens * c.beneficiaries[b]) \div Full
      benefactors == DOMAIN c.beneficiaries
      rest == author_tokens - Total([b \in benefactors |-> Benefit(b)])
      author_blurt == (rest * c.percent_blurt) \div (4 * Full)
      shared == FoldSet(LAMBDA b, l : PayBeneficiary(l, b, Benefit(b)),
                        pay_curators(ledger, c, max_rewards), benefactors)
  IN /\ c.reward <= ledger.reward_balance
     /\ ledger' = [create_vesting2(shared, c.author, rest - author_blurt, TRUE)
                     EXCEPT !.reward_balance = @ - (author_tokens + curation)]
     /\ uncredited' = uncredited + author_blurt
     /\ UNCHANGED objectVars

\* Mutant: shares that only change their owner leave the fund's count too.
process_vesting_withdrawals_counts_routed(from, to_withdraw) ==
  LET Deposit(a) == (to_withdraw * routes[from][a].percent) \div Full
      autoVest == {a \in DOMAIN routes[from] : routes[from][a].auto_vest}
      liquid == DOMAIN routes[from] \ autoVest
      vested == FoldSet(LAMBDA a, l : [l EXCEPT !.vesting_shares[a] = @ + Deposit(a),
                                                !.total_vesting_shares = @ - Deposit(a)],
                        ledger, autoVest)
      paid == FoldSet(LAMBDA a, l : RedeemVests(l, a, Deposit(a)), vested, liquid)
      to_convert == to_withdraw - Total([a \in DOMAIN routes[from] |-> Deposit(a)])
  IN /\ to_withdraw <= ledger.vesting_shares[from]
     /\ ledger' = [RedeemVests(paid, from, to_convert) EXCEPT
                     !.vesting_shares[from] = @ - to_withdraw]
     /\ UNCHANGED <<objectVars, uncredited>>

\* One payment of a power-down, of any size: the routes that keep shares first, then those
\* that pay BLURT, each at the price the one before left, then the owner.
process_vesting_withdrawals(from, to_withdraw) ==
  LET Deposit(a) == (to_withdraw * routes[from][a].percent) \div Full
      autoVest == {a \in DOMAIN routes[from] : routes[from][a].auto_vest}
      liquid == DOMAIN routes[from] \ autoVest
      vested == FoldSet(LAMBDA a, l : HandVests(l, a, Deposit(a)), ledger, autoVest)
      paid == FoldSet(LAMBDA a, l : RedeemVests(l, a, Deposit(a)), vested, liquid)
      to_convert == to_withdraw - Total([a \in DOMAIN routes[from] |-> Deposit(a)])
  IN /\ to_withdraw <= ledger.vesting_shares[from]
     /\ ledger' = [RedeemVests(paid, from, to_convert) EXCEPT
                     !.vesting_shares[from] = @ - to_withdraw]
     /\ UNCHANGED <<objectVars, uncredited>>

process_savings_withdraws(r) ==
  /\ ledger' = adjust_balance(ledger, r.to, r.amount)
  /\ requests' = requests \ {r}
  /\ UNCHANGED <<escrow, routes, uncredited>>

\* The treasury pays a proposal out of what it has.
transfer_payments(receiver, payment) ==
  /\ Has(Treasury, payment)
  /\ ledger' = Move(ledger, Treasury, receiver, payment)
  /\ UNCHANGED <<objectVars, uncredited>>

----------------------------------------------------------------------------
\* The genesis snapshot gives the rich users a balance and vested BLURT.
init_genesis ==
  LET power == [a \in Accounts |-> IF a \in Rich THEN Power0 ELSE 0]
      none == [a \in Accounts |-> 0]
      n == Cardinality(Rich)
  IN [balance |-> [a \in Accounts |-> IF a \in Rich THEN Balance0 ELSE 0],
      savings_balance |-> none,
      reward_blurt_balance |-> none,
      reward_vesting_blurt |-> none,
      reward_vesting_balance |-> none,
      vesting_shares |-> [a \in Accounts |-> power[a] * GenesisVests],
      total_vesting_fund_blurt |-> n * Power0,
      total_vesting_shares |-> n * Power0 * GenesisVests,
      pending_rewarded_vesting_shares |-> 0,
      pending_rewarded_vesting_blurt |-> 0,
      reward_balance |-> Fund0,
      current_supply |-> n * (Balance0 + Power0) + Fund0,
      unbacked |-> 0]

Init ==
  /\ ledger = init_genesis
  /\ escrow = NoEscrow
  /\ requests = {}
  /\ routes = [a \in Users |-> <<>>]
  /\ uncredited = 0
  /\ ops = 0

\* What puts tokens in motion; a behaviour has at most MaxOps of these.
Operation ==
  \/ \E from \in Users, to \in Accounts, n \in Amounts :
       \/ transfer(from, to, n)
       \/ transfer_to_vesting(from, to, n)
       \/ transfer_to_savings(from, to, n)
       \/ \E id \in 1..MaxRequests : transfer_from_savings(from, to, n, id)
  \/ \E required \in SUBSET Users \ {{}} : process_tx_fee(required)
  \/ \E creator \in Users : account_create(creator) \/ create_proposal(creator)
  \/ \E from, to, agent \in Users, n \in Amounts, fee \in 0..1 :
       escrow_transfer(from, to, agent, n, fee)
  \/ \E from \in Users, to \in Accounts, percent \in Percents, auto \in BOOLEAN :
       set_withdraw_vesting_route(from, to, percent, auto)
  \/ \E from \in Users : \E n \in Shares \cup {ledger.vesting_shares[from]} :
       process_vesting_withdrawals(from, n)
  \/ \E new \in NewBlurt, producer \in Users,
        weight \in {ElectedWeight, TimeshareWeight} :
       process_funds(new, producer, weight)
  \/ \E c \in Comments : cashout_comment_helper(c)
  \/ \E a \in Users : \E v \in Shares \cup {ledger.reward_vesting_balance[a]} :
       claim_reward_balance(a, ledger.reward_blurt_balance[a], v)

\* What follows from these and comes to an end by itself.
Consequence ==
  \/ \E r \in requests :
       \/ cancel_transfer_from_savings(r)
       \/ process_savings_withdraws(r)
  \/ \E who \in Users, approve \in BOOLEAN : escrow_approve(who, approve)
  \/ escrow_dispute
  \/ \E who, receiver \in Users, n \in {1} \cup Amounts, expired \in BOOLEAN :
       escrow_release(who, receiver, n, expired)
  \/ expire_escrow_ratification
  \/ \E receiver \in Accounts, n \in Amounts : transfer_payments(receiver, n)
  \/ clear_null_account_balance

Next ==
  \/ ops < MaxOps /\ Operation /\ ops' = ops + 1
  \/ Consequence /\ UNCHANGED ops

Spec == Init /\ [][Next]_vars

----------------------------------------------------------------------------
(***************************************************************************)
(* Properties.                                                             *)
(***************************************************************************)

\* Nothing is ever negative: no account, fund, escrow or counter goes below
\* zero through any sequence of operations and payouts.
TypeOK ==
  /\ ledger \in LedgerRecords
  /\ escrow \in Escrows \cup {NoEscrow}
  /\ requests \subseteq Requests
  /\ DOMAIN routes = Users
  /\ \A a \in Users : /\ DOMAIN routes[a] \subseteq Accounts
                      /\ \A b \in DOMAIN routes[a] : routes[a][b] \in Routes
  /\ uncredited \in Nat
  /\ ops \in 0..MaxOps

\* All the BLURT that validate_invariants() adds up.
total_supply ==
  Total(ledger.balance) + Total(ledger.savings_balance)
  + Total(ledger.reward_blurt_balance)
  + (IF escrow = NoEscrow THEN 0 ELSE escrow.blurt_balance + escrow.pending_fee)
  + Total([r \in requests |-> r.amount])
  + ledger.reward_balance + ledger.total_vesting_fund_blurt
  + ledger.pending_rewarded_vesting_blurt

\* validate_invariants() asserts that current_supply is all the BLURT there is.
SupplyMatches == ledger.current_supply = total_supply

\* No BLURT appears or disappears: current_supply is all the BLURT there is
\* and, besides that, only what cashout_comment_helper took from the reward
\* fund for the author without giving it to anybody, less what is counted
\* twice because it is a reward worth no shares.
SupplyAccounted ==
  ledger.current_supply + ledger.unbacked = total_supply + uncredited

\* validate_invariants() for shares: the shares of the accounts and of the
\* rewards still to be claimed are the two global counters, and the BLURT
\* behind those rewards is pending_rewarded_vesting_blurt.
SharesAccounted ==
  /\ ledger.total_vesting_shares + ledger.pending_rewarded_vesting_shares
       = Total(ledger.vesting_shares) + Total(ledger.reward_vesting_balance)
  /\ ledger.pending_rewarded_vesting_blurt
       = Total(ledger.reward_vesting_blurt) + ledger.unbacked

\* However an account splits its claims, no BLURT stays behind a reward whose
\* shares have all been claimed, and no shares are promised without backing.
NothingStranded ==
  \A a \in Accounts : ledger.reward_vesting_balance[a] = 0
                        => ledger.reward_vesting_blurt[a] = 0

\* Shares and the BLURT behind rewards are accounted for, in total and for
\* every account, through every order of payouts, claims and withdrawals.
SharesBacked == SharesAccounted /\ NothingStranded

\* create_vesting2's comment: adding funds does not change the ratio of shares
\* to BLURT.  Roundings always favour those who stay: unless rewards are
\* claimed or burned, no step lowers what a share is worth.
SharesKeepValue ==
  [][/\ ledger'.pending_rewarded_vesting_shares >= ledger.pending_rewarded_vesting_shares
     /\ ledger.total_vesting_shares > 0 /\ ledger'.total_vesting_shares > 0
     => ledger'.total_vesting_fund_blurt * ledger.total_vesting_shares
          >= ledger.total_vesting_fund_blurt * ledger'.total_vesting_shares]_vars

----------------------------------------------------------------------------
(***************************************************************************)
(* What the proofs carry along.                                            *)
(***************************************************************************)

\* A ledger as it is before, between and after the changes of an operation:
\* rewards to be claimed are counted and backed, and while there are shares
\* the vesting fund is not empty.
Sound(l) ==
  /\ l \in LedgerRecords
  /\ l.pending_rewarded_vesting_shares = Total(l.reward_vesting_balance)
  /\ l.pending_rewarded_vesting_blurt = Total(l.reward_vesting_blurt) + l.unbacked
  /\ \A a \in Accounts : l.reward_vesting_balance[a] = 0 => l.reward_vesting_blurt[a] = 0
  /\ l.total_vesting_shares # 0 => l.total_vesting_fund_blurt # 0

\* Once both have approved an escrow its fee is paid, so that what is left to
\* release is all there is in it.
FeePaid(e) ==
  e # NoEscrow /\ e.to_approved /\ e.agent_approved => e.pending_fee = 0

\* An account's routes take no more than all of a withdrawal.
RoutesFit == \A a \in Users : Routed(routes[a]) <= Full

IInv ==
  /\ TypeOK /\ Sound(ledger) /\ SupplyAccounted
  /\ ledger.total_vesting_shares = Total(ledger.vesting_shares)
  /\ FeePaid(escrow) /\ IsFiniteSet(requests) /\ RoutesFit

\* The fund is never abandoned: as long as rewards wait to be claimed as shares
\* somebody has shares.  (In an empty fund a part of a reward too small to be
\* backed by one BLURT would make shares without backing.)
NeverAbandoned ==
  ledger.total_vesting_shares = 0 => ledger.pending_rewarded_vesting_shares = 0
=============================================================================
