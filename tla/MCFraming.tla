----------------------------- MODULE MCFraming -----------------------------
(* Framing with buffers that are shorter than most packets.                *)
EXTENDS Framing

MCLists == {"write", "read"}
=============================================================================
