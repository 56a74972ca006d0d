---------------------------- MODULE ChainDatabase ----------------------------
(***************************************************************************)
(* blurt::chain::database as the keeper of one chain: push_block with its  *)
(* fork switch and roll-back, pop_block, migrate_irreversible_state, the   *)
(* block log, and the restart after a crash.                               *)
(*                                                                         *)
(* The chain state is a function of the blocks applied, so it is modelled  *)
(* by its head block.  An undo session per block above the last committed  *)
(* one can be undone; undo() below that is silently nothing (see UndoIndex *)
(* for the sessions themselves).  Whether a block can be applied on top of *)
(* its predecessor, and the last irreversible block number its state ends  *)
(* with, are properties of the block.  The loops of _push_block take one   *)
(* step per round: the write lock keeps other threads out meanwhile, but   *)
(* the process may crash between any two of them.                          *)
(***************************************************************************)
EXTENDS ForkDatabase

CONSTANTS
  Valid,        \* the blocks that apply without an exception
  Lib,          \* last_irreversible_block_num after applying a block
  Redelivery,   \* may a block the node already has be pushed again?
  MaxCrashes    \* bound: crashes

\* A block can only be valid on a valid predecessor, and the irreversible block
\* number never falls.  With one scheduled witness, as in the first round, a
\* block makes itself irreversible.
ASSUME LibAssumption ==
  /\ Valid \subseteq Block
  /\ \A b \in Valid : Len(b) > 1 => previous(b) \in Valid
  /\ Lib \in [Block -> Nat]
  /\ \A b \in Block : /\ Lib[b] <= Len(b)
                      /\ Len(b) > 1 => Lib[b] >= Lib[previous(b)]
  /\ MaxCrashes \in Nat
  /\ Redelivery \in BOOLEAN

\* What consensus provides: no two blocks that can be applied make different
\* blocks irreversible.
ASSUME AgreementAssumption ==
  \A b, c \in Valid : Lib[b] <= Lib[c] => UpTo(b, Lib[b]) = UpTo(c, Lib[b])

\* While one witness alone makes the blocks, and each of them irreversible, no
\* other block comes in the place of one of them.  (A block that could not be
\* applied stays the fork database's head; it is what would be logged then.)
ASSUME SoleWitnessAssumption ==
  \A b \in Valid : Lib[b] = Len(b) =>
    \A c \in Block : Len(c) = Len(b) /\ previous(c) = previous(b) => c = b

VARIABLES
  head,        \* the head block of the chain state
  committed,   \* height up to which the undo history was discarded
  block_log,   \* the blocks in the block log
  phase,       \* where push_block is: "idle" when no push is under way
  target,      \* new_head, or the block that extends the chain
  origin,      \* the head block when the push began
  fork_point,  \* height of the last common block while switching forks
  migrating,   \* migrate_irreversible_state is writing
  to_write,    \* blocks_to_write not yet in the log
  result,      \* how the last push ended
  crashes      \* crashes so far

pushVars == <<phase, target, origin, fork_point, result>>
diskVars == <<head, committed, block_log>>
vars == <<forkVars, diskVars, pushVars, migrating, to_write, crashes>>

Phases == {"idle", "received", "extend", "pop", "apply", "unwind", "restore"}

Results == {"none", "applied", "switched", "stored", "failed"}

\* The items the two branches of a fork switch keep alive.
Held ==
  IF phase \in {"pop", "apply", "unwind", "restore"}
  THEN {UpTo(target, n) : n \in fork_point + 1..Len(target)} \cup
       {UpTo(origin, n) : n \in fork_point + 1..Len(origin)}
  ELSE {}

-----------------------------------------------------------------------------
(* Applying a block and making blocks irreversible.                        *)

\* migrate_irreversible_state's blocks_to_write once b is applied and the
\* fork database's head is tip.
BlocksToWrite(b, tip) ==
  [i \in 1..AtLeastZero(Lib[b] - Len(block_log)) |->
     FetchOnMainBranch(tip, Len(block_log) + i, Held)]

\* apply_block succeeds: header and operations are valid on top of the head,
\* and migrate_irreversible_state's assertions hold.
Applies(b, tip) ==
  /\ previous(b) = head
  /\ b \in Valid
  /\ Len(tip) = Len(b)
  /\ \A i \in DOMAIN BlocksToWrite(b, tip) : BlocksToWrite(b, tip)[i] # NoBlock

\* The changes of apply_block, up to the writes of migrate_irreversible_state.
Apply(b, tip) ==
  /\ head' = b
  /\ to_write' = BlocksToWrite(b, tip)
  /\ migrating' = TRUE

append ==
  /\ migrating
  /\ to_write # <<>>
  /\ block_log' = Append(block_log, Head(to_write))
  /\ to_write' = Tail(to_write)
  /\ UNCHANGED <<forkVars, head, committed, pushVars, migrating, crashes>>

\* The end of migrate_irreversible_state: the fork database is cut back to
\* the irreversible block, then the undo history below it is dropped.
commit ==
  /\ migrating
  /\ to_write = <<>>
  /\ max_size' = Len(head) - Lib[head] + 1
  /\ Keep(Within(max_size'))
  /\ committed' = IF Lib[head] > committed THEN Lib[head] ELSE committed
  /\ migrating' = FALSE
  /\ UNCHANGED <<fork_head, head, block_log, pushVars, to_write, crashes>>

-----------------------------------------------------------------------------
(* push_block.                                                             *)

Finish(outcome) ==
  /\ phase' = "idle" /\ result' = outcome
  /\ target' = NoBlock /\ origin' = NoBlock /\ fork_point' = 0

LogHolds(b) == Len(block_log) >= Len(b) /\ block_log[Len(b)] = b

is_known_block(b) == b \in index \/ LogHolds(b)

\* The block enters the fork database, or is refused by it.  The network code
\* asks is_known_block before it fetches a block; the block APIs do not.
push_block(b) ==
  /\ phase = "idle"
  /\ Redelivery \/ ~is_known_block(b)
  /\ IF RecentEnough(b) /\ Links(b)
     THEN /\ Insert(b)
          /\ phase' = "received" /\ target' = b /\ origin' = head
          /\ result' = "none"
          /\ UNCHANGED fork_point
     ELSE Finish("failed") /\ UNCHANGED <<index, orphans, fork_head>>
  /\ UNCHANGED <<max_size, diskVars, migrating, to_write, crashes>>

\* The fork database's head builds on the chain's: the received block is
\* applied.  If that throws the block leaves the fork database, whose head
\* stays what it was.
extend ==
  /\ phase = "received"
  /\ previous(fork_head) = head
  /\ IF Applies(target, fork_head)
     THEN /\ Apply(target, fork_head)
          /\ phase' = "extend"
          /\ UNCHANGED <<index, orphans, result, target, origin, fork_point>>
     ELSE /\ Keep(index \ {target})
          /\ Finish("failed")
          /\ UNCHANGED <<head, to_write, migrating>>
  /\ UNCHANGED <<fork_head, max_size, committed, block_log, crashes>>

extended ==
  /\ phase = "extend"
  /\ ~migrating
  /\ Finish("applied")
  /\ UNCHANGED <<forkVars, diskVars, migrating, to_write, crashes>>

\* The fork database's head is on another branch: the node switches to it if
\* it is higher and both branches can be followed to where they part.
switch ==
  /\ phase = "received"
  /\ previous(fork_head) # head
  /\ IF Len(fork_head) > Len(head) /\ BranchesFound(fork_head, head)
     THEN /\ phase' = "pop"
          /\ target' = fork_head
          /\ fork_point' = ForkPoint(fork_head, head)
          /\ UNCHANGED <<result, origin>>
     ELSE Finish(IF Len(fork_head) > Len(head) THEN "failed" ELSE "stored")
  /\ UNCHANGED <<forkVars, diskVars, migrating, to_write, crashes>>

AtForkPoint == head = UpTo(origin, fork_point)

\* Mutant of pop_block: the undo history is never exhausted.
pop_block_undoes_committed ==
  /\ phase \in {"pop", "unwind"}
  /\ ~AtForkPoint
  /\ IF is_known_block(head) /\ LinkAlive(fork_head, Held)
     THEN /\ fork_head' = previous(fork_head)
          /\ head' = previous(head)
          /\ UNCHANGED pushVars
     ELSE Finish("failed") /\ UNCHANGED <<fork_head, head>>
  /\ UNCHANGED <<index, orphans, max_size, committed, block_log, migrating,
                 to_write, crashes>>

\* One round of either pop_block loop.  The head block must be at hand, the
\* fork database's head moves first, and it is an error when it has nowhere
\* to go.
pop_block ==
  /\ phase \in {"pop", "unwind"}
  /\ ~AtForkPoint
  /\ IF is_known_block(head) /\ LinkAlive(fork_head, Held)
     THEN /\ fork_head' = previous(fork_head)
          /\ head' = IF Len(head) > committed THEN previous(head) ELSE head
          /\ UNCHANGED pushVars
     ELSE Finish("failed") /\ UNCHANGED <<fork_head, head>>
  /\ UNCHANGED <<index, orphans, max_size, committed, block_log, migrating,
                 to_write, crashes>>

\* Mutant of popped: the new branch is tried again after it has failed.
popped_retries ==
  /\ phase \in {"pop", "unwind"}
  /\ AtForkPoint
  /\ phase' = "apply"
  /\ UNCHANGED <<forkVars, diskVars, target, origin, fork_point, result,
                 migrating, to_write, crashes>>

\* Mutant of popped: the branch the node was on is not applied again.
popped_skips_restore ==
  /\ phase \in {"pop", "unwind"}
  /\ AtForkPoint
  /\ IF phase = "pop" THEN phase' = "apply" /\ UNCHANGED <<target, origin, fork_point, result>>
                      ELSE Finish("failed")
  /\ UNCHANGED <<forkVars, diskVars, migrating, to_write, crashes>>

popped ==
  /\ phase \in {"pop", "unwind"}
  /\ AtForkPoint
  /\ phase' = IF phase = "pop" THEN "apply" ELSE "restore"
  /\ UNCHANGED <<forkVars, diskVars, target, origin, fork_point, result,
                 migrating, to_write, crashes>>

\* The next block of the new branch; on an exception it and the rest of the
\* branch leave the fork database.
apply_next ==
  /\ phase = "apply"
  /\ ~migrating
  /\ head # target
  /\ LET b == UpTo(target, Len(head) + 1)
     IN /\ fork_head' = b
        /\ IF Applies(b, b)
           THEN Apply(b, b) /\ UNCHANGED <<index, orphans, phase>>
           ELSE /\ Keep(index \ {UpTo(target, n) : n \in Len(b)..Len(target)})
                /\ phase' = "unwind"
                /\ UNCHANGED <<head, to_write, migrating>>
  /\ UNCHANGED <<max_size, committed, block_log, target, origin, fork_point,
                 result, crashes>>

\* The next block of the branch the node was on.
restore_next ==
  /\ phase = "restore"
  /\ ~migrating
  /\ head # origin
  /\ LET b == UpTo(origin, Len(head) + 1)
     IN /\ fork_head' = b
        /\ IF Applies(b, b)
           THEN Apply(b, b) /\ UNCHANGED pushVars
           ELSE Finish("failed") /\ UNCHANGED <<head, to_write, migrating>>
  /\ UNCHANGED <<index, orphans, max_size, committed, block_log, crashes>>

switched ==
  /\ ~migrating
  /\ \/ phase = "apply" /\ head = target /\ Finish("switched")
     \/ phase = "restore" /\ head = origin /\ Finish("failed")
  /\ UNCHANGED <<forkVars, diskVars, migrating, to_write, crashes>>

-----------------------------------------------------------------------------
(* Restart.  The chain state and the block log survive a crash, the fork   *)
(* database does not.                                                      *)

\* database::open accepts what it finds after undo_all().
StateMatchesLog ==
  committed > 0 => LogHolds(UpTo(head, committed))

\* The state a restarted process works with.
Restart(h) ==
  /\ head' = h
  /\ IF h = NoBlock
     THEN index' = {} /\ orphans' = {} /\ fork_head' = NoBlock
     ELSE start_block(h)
  /\ Finish("none")
  /\ migrating' = FALSE /\ to_write' = <<>>
  /\ UNCHANGED block_log

\* A crash at any point, then database::open.
crash ==
  /\ crashes < MaxCrashes
  /\ StateMatchesLog
  /\ crashes' = crashes + 1
  /\ max_size' = InitMaxSize
  /\ Restart(UpTo(head, committed))
  /\ UNCHANGED committed

\* A crash, then database::reindex: the state is rebuilt from the block log
\* and has no undo history.
reindex ==
  /\ crashes < MaxCrashes
  /\ block_log # <<>>
  /\ crashes' = crashes + 1
  /\ LET h == block_log[Len(block_log)]
     IN /\ Restart(h)
        /\ committed' = Len(h)
        /\ max_size' = Len(h) - Lib[h] + 1

Init ==
  /\ ForkInit
  /\ head = NoBlock /\ committed = 0 /\ block_log = <<>>
  /\ phase = "idle" /\ result = "none"
  /\ target = NoBlock /\ origin = NoBlock /\ fork_point = 0
  /\ migrating = FALSE /\ to_write = <<>>
  /\ crashes = 0

\* The rounds of a push under way: deterministic, run by the pushing thread.
Round ==
  append \/ commit \/ extend \/ switch \/ extended \/ pop_block \/ popped
  \/ apply_next \/ restore_next \/ switched

Next == (\E b \in Block : push_block(b)) \/ Round \/ crash \/ reindex

Spec == Init /\ [][Next]_vars

FairSpec == Spec /\ WF_vars(Round)

-----------------------------------------------------------------------------
\* Type correctness of the chain database.
TypeOK ==
  /\ ForkTypeOK
  /\ head \in Valid \cup {NoBlock}
  /\ {target, origin} \subseteq Block \cup {NoBlock}
  /\ committed \in Nat /\ fork_point \in Nat /\ crashes \in 0..MaxCrashes
  /\ phase \in Phases /\ result \in Results /\ migrating \in BOOLEAN
  /\ block_log \in Seq(Block) /\ to_write \in Seq(Block)

\* The block log is one chain, block by block, whatever forks were switched
\* to while it was written and wherever a crash cut a write short, and the
\* irreversible part of the state is the same chain.
LogIsIrreversibleChain ==
  /\ \A i \in DOMAIN block_log :
       Len(block_log[i]) = i /\ block_log[i] = UpTo(block_log[Len(block_log)], i)
  /\ committed <= Len(head)
  /\ StateMatchesLog

\* An irreversible block stays on the chain: no push, pop, failed fork switch
\* or restart ever takes it back.
IrreversibleStays ==
  [][/\ committed' >= committed
     /\ Len(head') >= committed
     /\ UpTo(head', committed) = UpTo(head, committed)]_vars

\* A fork switch ends on the new branch, or, where no irreversible block
\* stood in the way, exactly where it began.
SwitchAllOrNothing ==
  [][(phase \in {"pop", "apply", "unwind", "restore"} /\ phase' = "idle") =>
      ((result' = "switched" => head' = target /\ fork_head' = target) /\
       (result' = "failed" /\ committed <= fork_point =>
          head' = origin /\ fork_head' = origin))]_vars

\* Every push ends.
PushEnds == phase # "idle" ~> phase = "idle"

-----------------------------------------------------------------------------
(* What the proofs carry along, for a node to which no block it has is     *)
(* pushed again.                                                           *)

Switching == phase \in {"pop", "apply", "unwind", "restore"}

\* The log is the beginning of the irreversible part of some branch.
LogIrreversible ==
  block_log # <<>> =>
    \E c \in Valid : /\ Len(block_log) <= Lib[c]
                     /\ \A i \in DOMAIN block_log : block_log[i] = UpTo(c, i)

\* The committed part of the state is in the log.
CommittedLogged ==
  /\ committed <= Len(head) /\ committed <= Len(block_log)
  /\ committed > 0 => block_log[committed] = UpTo(head, committed)

\* Blocks are written to the log when they become irreversible, and they are
\* those of the head's branch.
WritesOwnBranch ==
  /\ migrating => /\ phase \in {"extend", "apply", "restore"}
                  /\ head # NoBlock /\ Len(fork_head) = Len(head)
                  /\ Len(to_write) = AtLeastZero(Lib[head] - Len(block_log))
                  /\ \A i \in DOMAIN to_write :
                       to_write[i] = UpTo(head, Len(block_log) + i)
  /\ ~migrating => /\ to_write = <<>>
                   /\ head # NoBlock => Lib[head] <= Len(block_log)

\* The fork database has the blocks of b's branch that may still be popped.
Kept(b) == \A n \in 1..Len(b) : n >= committed => UpTo(b, n) \in index

\* The block received is not one of the head's branch.
ReceivedIsNew ==
  phase = "received" =>
    /\ target \in index /\ origin = head
    /\ \A n \in 1..Len(head) : n >= committed => target # UpTo(head, n)

\* A fork switch works on two branches that part above fork_point, the old
\* one of which the fork database keeps and the log needs nothing of.
BranchesPart ==
  Switching =>
    /\ origin \in Valid /\ target \in Block
    /\ fork_point < Len(origin) /\ Len(origin) < Len(target)
    /\ UpTo(target, fork_point) = UpTo(origin, fork_point)
    /\ Lib[origin] <= Len(block_log)
    /\ Kept(origin)
    /\ phase \in {"pop", "apply"} => Kept(target)

\* Where the two heads are during a fork switch.
HeadsOnBranch ==
  Switching =>
    LET branch == IF phase \in {"pop", "restore"} THEN origin ELSE target
    IN /\ fork_point <= Len(head) /\ Len(head) <= Len(branch)
       /\ head = UpTo(branch, Len(head))
       /\ phase \in {"apply", "restore"} /\ Len(head) > fork_point => fork_head = head
       /\ phase = "pop" /\ committed <= fork_point =>
            fork_head = UpTo(target, Len(target) - (Len(origin) - Len(head)))
       /\ phase = "unwind" /\ committed <= fork_point =>
            Len(head) < Len(target) /\ fork_head = UpTo(target, Len(head) + 1)

\* The inductive invariant the proofs rest on.
IInv ==
  /\ TypeOK /\ IsFiniteSet(index)
  /\ LogIrreversible /\ CommittedLogged /\ WritesOwnBranch
  /\ Kept(head) /\ ReceivedIsNew /\ BranchesPart /\ HeadsOnBranch
=============================================================================
