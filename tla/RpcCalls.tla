------------------------------ MODULE RpcCalls ------------------------------
(***************************************************************************)
(* What the RPC layer promises to an application: a call that was made is  *)
(* answered at most once, with the answer to that very call.  A call that  *)
(* fails is not answered at all (the code has no other way to tell).       *)
(***************************************************************************)
EXTENDS Sequences

CONSTANT Calls     \* calls, each with one request message

VARIABLES
  made,     \* the calls that were made
  answers   \* the answers done was run with, per call

vars == <<made, answers>>

Init == made = {} /\ answers = [c \in Calls |-> <<>>]

Make(c) == c \notin made /\ made' = made \cup {c} /\ UNCHANGED answers

Answer(c) ==
  /\ c \in made /\ answers[c] = <<>>
  /\ answers' = [answers EXCEPT ![c] = <<c>>]
  /\ UNCHANGED made

Next == \E c \in Calls : Make(c) \/ Answer(c)

Spec == Init /\ [][Next]_vars
=============================================================================
