------------------------------ MODULE Channel ------------------------------
(***************************************************************************)
(* What a mailbox promises to the threads that use it: a FIFO channel with *)
(* many senders and one receiver.  A message that was put is delivered     *)
(* once, in the order of the puts, and eventually.                         *)
(*                                                                         *)
(* Mailbox.tla (the lock-free pipe, the eventfd and the worker's event     *)
(* loop) is shown to implement this module.                                *)
(***************************************************************************)
EXTENDS Naturals, Sequences

CONSTANT Message

VARIABLES sent,      \* every message put so far, in the order of the puts
          delivered  \* every message the receiver has processed so far

chanVars == <<sent, delivered>>

Init == sent = <<>> /\ delivered = <<>>

Put(m) ==
  /\ sent' = Append(sent, m)
  /\ UNCHANGED delivered

Deliver ==
  /\ Len(delivered) < Len(sent)
  /\ delivered' = Append(delivered, sent[Len(delivered) + 1])
  /\ UNCHANGED sent

Next == Deliver \/ \E m \in Message : Put(m)

Safe == Init /\ [][Next]_chanVars

Live == WF_chanVars(Deliver)

Spec == Safe /\ Live
============================================================================
