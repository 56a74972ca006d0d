------------------------------- MODULE MCChain -------------------------------
(***************************************************************************)
(* ChainDatabase on a small tree of blocks.  Branches "a" and "c" make     *)
(* blocks irreversible; "b" is a longer rival that leaves them below the   *)
(* irreversible block "aa"; "d" marks invalid continuations of "c".        *)
(***************************************************************************)
EXTENDS ChainDatabase

A(n) == [i \in 1..n |-> "a"]

MCBlock ==
  {A(n) : n \in 1..4} \cup
  {A(1) \o <<"b">>, A(1) \o <<"b", "b">>, A(1) \o <<"b", "b", "b">>,
   A(2) \o <<"c">>, A(2) \o <<"c", "c">>, A(2) \o <<"c", "c", "c">>,
   A(2) \o <<"c", "d">>, A(2) \o <<"c", "c", "d">>}

MCValid == {b \in MCBlock : \A i \in DOMAIN b : b[i] # "d"}

\* The first block is produced by the only witness.
MCLib == [b \in MCBlock |->
  CASE b = A(2) \o <<"c", "c", "c">> -> 3
    [] b \in {A(3), A(4), A(2) \o <<"c", "c">>, A(2) \o <<"c", "c", "d">>} -> 2
    [] OTHER -> 1]
=============================================================================
