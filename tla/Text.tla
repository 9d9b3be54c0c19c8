-------------------------------- MODULE Text -------------------------------
(***************************************************************************)
(* Text that may not fit: the stream of a log line (base/log.h), and       *)
(* StringPrintf (util/string.cc).  Texts are their lengths.                *)
(***************************************************************************)
EXTENDS Integers, Sequences, SequencesExt

\* LogMessageData: text_ has len + 1 bytes, and setp leaves two of len free.
Room(len) == len - 2

\* operator<< of n characters, some of them dropped by overflow: pcount after it.
Streamed(pcount, n, len) == IF pcount + n <= Room(len) THEN pcount + n ELSE Room(len)

\* A line of n characters, after finish() has added "\n" and then '\0'.
LogLine(n, len) ==
  LET before == Streamed(0, n, len)
      pcount == Streamed(before, 1, len)
  IN [pcount |-> pcount, newline |-> pcount > before, zero |-> pcount]

\* vsnprintf of a text of `need` characters, by C99 or by older libraries.
vsnprintf(need, length, c99) == IF c99 \/ need < length THEN need ELSE -1

\* One call into a buffer of `length` bytes; the next length if it did not fit.
Try(s, need, c99) ==
  LET result == vsnprintf(need, s.length, c99) IN
  IF result >= 0 /\ result < s.length
  THEN [s EXCEPT !.appended = result, !.tries = @ + 1]
  ELSE [s EXCEPT !.length = IF result < 0 THEN s.length * 2 ELSE result + 1, !.tries = @ + 1]

\* stringAppendV; appended is -1 if nothing is, tries counts its vsnprintfs.
stringAppendV(need, c99, kSmallFixedSize, kMaxAppendSize) ==
  LET step(s, k) ==
        IF s.appended >= 0 \/ s.length > kMaxAppendSize THEN s ELSE Try(s, need, c99)
      first == [length |-> kSmallFixedSize, appended |-> -1, tries |-> 0]
  IN FoldLeft(step, first, [k \in 1..(kMaxAppendSize \div kSmallFixedSize + 2) |-> k])
============================================================================
