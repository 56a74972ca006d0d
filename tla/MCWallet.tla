------------------------------- MODULE MCWallet -------------------------------
(* The session of the wallet, or the blurtjs api object it talks to the node *)
(* with, and one of its two transports; one part at a time.                  *)
EXTENDS WalletSession, WsTransport, ApiFailover

VARIABLE part  \* the part that is looked at

vars == <<part, walletVars, transportVars, failoverVars>>

Init ==
  /\ part \in {"session", "ws", "http"}
  /\ WalletInit /\ TransportInit /\ FailoverInit
  /\ part # "session" => ~readOnly

Next ==
  /\ UNCHANGED part
  /\ \/ part = "session" /\ WalletNext /\ UNCHANGED <<transportVars, failoverVars>>
     \/ part = "ws" /\ TransportNext /\ UNCHANGED <<walletVars, failoverVars>>
     \/ part = "http" /\ FailoverNext /\ UNCHANGED <<walletVars, transportVars>>

Spec == Init /\ [][Next]_vars

TypeOK == WalletTypeOK /\ TransportTypeOK /\ FailoverTypeOK

(* Alice has a key for every role; bob one for posting and active, and one   *)
(* for owner and memo.                                                       *)
MCKeyOf ==
  [alice |-> [posting |-> "ap", active |-> "aa", owner |-> "ao", memo |-> "am"],
   bob |-> [posting |-> "bk", active |-> "bk", owner |-> "bo", memo |-> "bo"]]

(* Alice with her password; bob with his active key, with his password for   *)
(* his owner role only, and with a key that is not his.                      *)
MCLogin ==
  {[username |-> "alice", role |-> None, password |-> [of |-> "alice", is |-> "master"]],
   [username |-> "bob", role |-> None, password |-> [of |-> "bob", is |-> "active"]],
   [username |-> "bob", role |-> "owner", password |-> [of |-> "bob", is |-> "master"]],
   [username |-> "bob", role |-> None, password |-> [of |-> "alice", is |-> "active"]]}

(* A claim of rewards is dispatched without an error callback.               *)
MCCallbacks == [claim |-> {"success"}, transfer |-> {"success", "error"}]

MCEndpoints == <<"a", "b", "c">>
===============================================================================
