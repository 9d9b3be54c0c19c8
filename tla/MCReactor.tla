----------------------------- MODULE MCReactor -----------------------------
(* Reactor on small instances.                                             *)
EXTENDS Reactor

CONSTANT Busy

Units ==
  [s \in Servers \cup Clients |-> IF s = Busy THEN 2 ELSE 1]
Input ==
  [s \in Servers \cup Clients |-> IF s = Busy THEN 2 ELSE IF s \in Clients THEN 0 ELSE 1]
============================================================================
