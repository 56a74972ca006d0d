-------------------------------- MODULE MCPool --------------------------------
(***************************************************************************)
(* TransactionPool with three transactions: "fund", "spend" that needs it, *)
(* and "rival" that cannot follow "spend".                                 *)
(***************************************************************************)
EXTENDS TransactionPool

MCTx == {"fund", "spend", "rival"}

MCExpiration == [t \in MCTx |-> IF t = "fund" THEN 3 ELSE 4]

MCSize == [t \in MCTx |-> IF t = "spend" THEN 2 ELSE 1]

MCNeeds == [t \in MCTx |-> IF t = "spend" THEN {"fund"} ELSE {}]

MCConflicts ==
  [t \in MCTx |-> CASE t = "spend" -> {"rival"} [] t = "rival" -> {"spend"}
                    [] OTHER -> {}]
===============================================================================
