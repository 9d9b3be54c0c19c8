-------------------------------- MODULE Time -------------------------------
(***************************************************************************)
(* util/time.cc: the calendar date that goes into log lines, and absolute  *)
(* deadlines.  Division truncates in C++; the numerators that are negative *)
(* there are written as minus a quotient here.                             *)
(***************************************************************************)
EXTENDS Integers

\* Localtime: local time is UTC+8, the date by the Julian day number.
Localtime(unix_sec) ==
  LET i == unix_sec \div 3600 + 8
      a == i \div 24 + 2472632
      b == (a * 4 + 3) \div 146097
      c == a - (b * 146097) \div 4
      d == (c * 4 + 3) \div 1461
      e == c - (d * 1461) \div 4
      m == (5 * e + 2) \div 153
  IN [sec |-> unix_sec % 60, min |-> (unix_sec \div 60) % 60, hour |-> i % 24,
      mday |-> e + 1 - (153 * m + 2) \div 5,
      mon |-> m + 2 - 12 * (m \div 10),
      year |-> b * 100 + d - 6700 + m \div 10]

\* MakeTimespec: ms after the given time of day.
MakeTimespec(sec, usec, ms) ==
  LET t == IF ms < 0 THEN 0 ELSE ms
      nsec == usec * 1000 + (t % 1000) * 1000000
      carry == IF nsec >= 1000000000 THEN 1 ELSE 0
  IN [sec |-> sec + t \div 1000 + carry, nsec |-> nsec - carry * 1000000000]
============================================================================
