--------------------------- MODULE MCPushClient ---------------------------
(* Small instances of PushClient: clients are interchangeable. *)
EXTENDS PushClient, TLC

ClientSymmetry == Permutations(Client)
===========================================================================
