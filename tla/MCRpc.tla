-------------------------------- MODULE MCRpc --------------------------------
(* Two endpoints, of which the first one always answers. *)
EXTENDS RpcClient

MCAddresses == <<"a", "b">>

(* From the first block on without end, and the second block only. *)
MCOptions == {[from |-> 1, to |-> Undefined], [from |-> 2, to |-> 2]}
=============================================================================
