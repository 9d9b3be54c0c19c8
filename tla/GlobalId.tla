------------------------------ MODULE GlobalId -----------------------------
(***************************************************************************)
(* util/global_id.cc: a thread's generator.  It draws a random number for  *)
(* the upper bits of a batch of ids, and steps through the lower bits by   *)
(* an odd increment.  The hash it draws with is opaque: draws is what its  *)
(* calls return, in order.                                                 *)
(***************************************************************************)
EXTENDS Integers, Sequences, SequencesExt

CONSTANTS
  kNumIDsInBatch,
  draws

kBatchMask == kNumIDsInBatch - 1

\* What v & kBatchMask and v & ~kBatchMask keep of v, a power of 2 being masked.
Lower(v) == v % kNumIDsInBatch
Upper(v) == v - Lower(v)

\* A thread_local: zero before the constructor runs.
idGenerator ==
  [upper_bits |-> 0, lower_bits |-> 0, increment |-> 0, remaining |-> 0, drawn |-> 0]

\* increment_ |= 1
Odd(n) == IF n % 2 = 0 THEN n + 1 ELSE n

reset(g) ==
  LET v == draws[g.drawn + 1] IN
  [upper_bits |-> Upper(v), lower_bits |-> Lower(v),
   increment |-> Odd(Lower(draws[g.drawn + 2])),
   remaining |-> kNumIDsInBatch, drawn |-> g.drawn + 2]

NewID(g) ==
  LET h == IF g.remaining = 0 THEN reset(g) ELSE g IN
  [h EXCEPT !.remaining = @ - 1, !.lower_bits = Lower(@ + h.increment)]

Returned(g) == g.upper_bits + g.lower_bits

\* The first n ids of a thread.
Ids(n) ==
  LET step(run, k) == LET g == NewID(run.g) IN [g |-> g, ids |-> Append(run.ids, Returned(g))]
  IN FoldLeft(step, [g |-> idGenerator, ids |-> <<>>], [k \in 1..n |-> k]).ids
============================================================================
