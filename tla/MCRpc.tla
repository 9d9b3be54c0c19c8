------------------------------- MODULE MCRpc -------------------------------
(* Rpc on small instances: calls that succeed and calls of the kinds that  *)
(* fail.  Method ids and guids come from the functions of MCUtil.          *)
EXTENDS Rpc, MCUtil

CONSTANTS c1, c2, c3, c4

Mixed ==
  [c \in Calls |-> CASE c = c3 -> "badreply" [] c = c4 -> "nomethod" [] OTHER -> "good"]
============================================================================
