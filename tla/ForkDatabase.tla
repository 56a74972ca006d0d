----------------------------- MODULE ForkDatabase -----------------------------
(***************************************************************************)
(* fork_database: the blocks the node has received and may still switch    *)
(* to.  It is only called by the chain database, under the write lock.     *)
(*                                                                         *)
(* A block id is a hash that commits to the block's whole history, so a    *)
(* block is modelled as that history: the sequence of the labels of its    *)
(* ancestors, oldest first, and its own.  previous is the sequence without *)
(* its last label, block_num the length, and the zero id the empty         *)
(* sequence.  An item holds a weak pointer to the item before it; orphans  *)
(* are the items whose pointer no longer leads to an item of the index.    *)
(* _unlinked_index is always empty (push_block throws before it would      *)
(* insert there) and no code sets fork_item::invalid.                      *)
(***************************************************************************)
EXTENDS Integers, Sequences, FiniteSets

CONSTANTS
  Label,        \* what tells a block from its siblings
  Block,        \* every block that may reach the node
  InitMaxSize   \* _max_size of a new fork database (1024 in the code)

ASSUME BlockAssumption ==
  /\ \A b \in Block : /\ b \in Seq(Label) /\ b # <<>>
                      /\ Len(b) > 1 => SubSeq(b, 1, Len(b) - 1) \in Block
  /\ InitMaxSize \in Nat

VARIABLES
  index,      \* _index
  orphans,    \* items of the index whose prev pointer is null or expired
  fork_head,  \* _head; no item is <<>>
  max_size    \* _max_size

forkVars == <<index, orphans, fork_head, max_size>>

NoBlock == <<>>

UpTo(b, n) == SubSeq(b, 1, n)

previous(b) == UpTo(b, Len(b) - 1)

AtLeastZero(n) == IF n < 0 THEN 0 ELSE n

ChildrenOf(removed, among) == {b \in among : previous(b) \in removed}

\* Items leave the index.  An item whose predecessor leaves keeps a pointer
\* that no longer locks.
Keep(items) ==
  /\ index' = items
  /\ orphans' = (orphans \cap items) \cup ChildrenOf(index \ items, items)

\* The prev pointer of b locks: its predecessor is in the index, or left it
\* while a caller still holds it.
LinkAlive(b, held) == previous(b) \in (IF b \in orphans THEN held ELSE index)

\* Every item of b's branch above height n can be left towards height n.
LinkedDownTo(b, n, held) ==
  \A k \in n + 1..Len(b) : LinkAlive(UpTo(b, k), held)

\* _push_block's two assertions.
RecentEnough(b) ==
  fork_head = NoBlock \/ Len(b) > AtLeastZero(Len(fork_head) - max_size)

Links(b) ==
  fork_head = NoBlock \/ previous(b) = NoBlock \/ previous(b) \in index

NewForkHead(b) ==
  IF fork_head = NoBlock \/ Len(b) > Len(fork_head) THEN b ELSE fork_head

\* _push_block past its assertions.  A block that is already there is not
\* replaced; a block pushed into an empty database gets no predecessor.
Insert(b) ==
  /\ index' = index \cup {b}
  /\ orphans' = IF b \notin index /\ (fork_head = NoBlock \/ previous(b) = NoBlock)
                THEN orphans \cup {b}
                ELSE orphans
  /\ fork_head' = NewForkHead(b)

start_block(b) ==
  /\ index' = {b}
  /\ orphans' = {b}
  /\ fork_head' = b

\* The items set_max_size(s) keeps.
Within(s) == {b \in index : Len(b) >= AtLeastZero(Len(fork_head) - s)}

\* fetch_branch_from for two blocks of which `first' is higher: the height of
\* the last common block strictly below both tips.  The blocks above it, on
\* either side, are the branches.
ForkPoint(first, second) ==
  CHOOSE n \in 0..Len(second) - 1 :
    /\ UpTo(first, n) = UpTo(second, n)
    /\ \A m \in n + 1..Len(second) - 1 : UpTo(first, m) # UpTo(second, m)

\* fetch_branch_from's assertions: both tips are known and every step down
\* the two branches locks.
BranchesFound(first, second) ==
  /\ {first, second} \subseteq index
  /\ LinkedDownTo(first, ForkPoint(first, second) + 1, {})
  /\ LinkedDownTo(second, ForkPoint(first, second) + 1, {})

\* Mutant of FetchOnMainBranch: any block of the height will do.
FetchOnMainBranch_any_branch(tip, n, held) ==
  LET blocks == {b \in index : Len(b) = n}
  IN IF blocks # {} THEN CHOOSE b \in blocks : TRUE ELSE NoBlock

\* fetch_block_on_main_branch_by_number, given the items a caller holds.  A
\* block that is alone at its height is taken without looking at its branch.
FetchOnMainBranch(tip, n, held) ==
  LET blocks == {b \in index : Len(b) = n}
  IN IF Cardinality(blocks) = 1 THEN CHOOSE b \in blocks : TRUE
     ELSE IF blocks # {} /\ n <= Len(tip) /\ LinkedDownTo(tip, n, held)
     THEN UpTo(tip, n)
     ELSE NoBlock

ForkInit ==
  /\ index = {}
  /\ orphans = {}
  /\ fork_head = NoBlock
  /\ max_size = InitMaxSize

ForkTypeOK ==
  /\ index \subseteq Block
  /\ orphans \subseteq index
  /\ fork_head \in Block \cup {NoBlock}
  /\ max_size \in Nat
=============================================================================
