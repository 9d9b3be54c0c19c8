------------------------------- MODULE Hashes ------------------------------
(***************************************************************************)
(* util/lookup8.cc and base/hash.cc: where the bytes of a key go.  A hash  *)
(* is the sequence of its mixing rounds, and a round the set of the key's  *)
(* bytes that are added in it, each with the word (lane) and the shift it  *)
(* is added at.  The mixing itself, arithmetic on 64-bit words, is left    *)
(* out: two hashes with the same rounds have the same value.               *)
(***************************************************************************)
EXTENDS Integers, Sequences

\* A little-endian word of eight bytes, from byte `from`, added to a lane.
Word(lane, from) == {[lane |-> lane, shift |-> 8 * i, byte |-> from + i] : i \in 0..7}

\* len rounds out of blocks of n bytes or words each, and one round for the rest.
Rounds(len, n, Full(_), Left(_)) ==
  [r \in 1..(len \div n + 1) |->
     IF r <= len \div n THEN Full((r - 1) * n) ELSE Left((r - 1) * n)]

\* The case for byte i of the last round of hash and hash3, i from 0: the
\* first byte of c is reserved for the length.
Case(i) ==
  CASE i < 8 -> [lane |-> "a", shift |-> 8 * i]
    [] i >= 8 /\ i < 16 -> [lane |-> "b", shift |-> 8 * (i - 8)]
    [] i >= 16 -> [lane |-> "c", shift |-> 8 * (i - 15)]

\* The switch falls through, from case len down.
Switch(from, len) ==
  {[lane |-> Case(i).lane, shift |-> Case(i).shift, byte |-> from + i] : i \in 0..(len - 1)}

\* hash: each byte is shifted into place by itself.
hash(length) ==
  LET full(from) ==
        {[lane |-> <<"a", "b", "c">>[i \div 8 + 1], shift |-> 8 * (i % 8), byte |-> from + i]
           : i \in 0..23}
      tail(from) == Switch(from, length - from)
  IN Rounds(length, 24, full, tail)

\* hash2: the key is an array of length words.
hash2(length) ==
  LET full(w) == Word("a", 8 * w) \cup Word("b", 8 * (w + 1)) \cup Word("c", 8 * (w + 2))
      tail(w) ==
        (IF length - w = 2 THEN Word("b", 8 * (w + 1)) ELSE {})
          \cup IF length - w >= 1 THEN Word("a", 8 * w) ELSE {}
  IN Rounds(length, 3, full, tail)

\* hash3: whole words when the key is aligned.
hash3(length, aligned) ==
  LET full(from) == Word("a", from) \cup Word("b", from + 8) \cup Word("c", from + 16)
      tail(from) == Switch(from, length - from)
  IN IF aligned THEN Rounds(length, 24, full, tail) ELSE hash(length)

\* MurmurHash64A; the last round is made only if bytes are left.
MurmurHash64A(len) ==
  LET full(from) == Word("h", from)
      tail(from) == {[lane |-> "h", shift |-> 8 * i, byte |-> from + i] : i \in 0..((len % 8) - 1)}
      rounds == Rounds(len, 8, full, tail)
  IN IF len % 8 = 0 THEN SubSeq(rounds, 1, len \div 8) ELSE rounds
============================================================================
