------------------------------ MODULE MCServe ------------------------------
(* Constants for TLC: both services at one endpoint, or one at each.       *)
EXTENDS Serve

CONSTANTS l1, l2, s1, s2

OneEndpoint == [s \in {s1, s2} |-> l1]
TwoEndpoints == [s \in {s1, s2} |-> IF s = s1 THEN l1 ELSE l2]
============================================================================
