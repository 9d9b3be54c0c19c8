------------------------------- MODULE MCLog -------------------------------
(***************************************************************************)
(* Log for TLC: one thread logs a FATAL line, the others two ERROR lines.  *)
(***************************************************************************)
EXTENDS Log

CONSTANT Dier

LinesOf == [r \in Readers |-> IF r = Dier THEN 1 ELSE 2]
LevelsOf == [r \in Readers |-> IF r = Dier THEN {"FATAL"} ELSE {"ERROR"}]
============================================================================
