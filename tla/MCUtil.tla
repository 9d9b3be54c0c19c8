------------------------------- MODULE MCUtil ------------------------------
(***************************************************************************)
(* What util/ and base/hash.cc compute, checked over bounded inputs: TLC   *)
(* evaluates the assumptions before the run of a module that extends this  *)
(* one.                                                                    *)
(***************************************************************************)
EXTENDS Integers

T == INSTANCE Time
H == INSTANCE Hashes
X == INSTANCE Text
G(n, s) == INSTANCE GlobalId WITH kNumIDsInBatch <- n, draws <- s

----------------------------------------------------------------------------
\* Gregorian calendar, months from 0 and years from 1900 as in struct tm.
LeapYear(y) == y % 4 = 0 /\ (y % 100 # 0 \/ y % 400 = 0)
DaysIn(mon, y) ==
  <<31, IF LeapYear(y) THEN 29 ELSE 28, 31, 30, 31, 30, 31, 31, 30, 31, 30, 31>>[mon + 1]

DateOf(t) == <<t.year, t.mon, t.mday>>
DayAfter(t) ==
  CASE t.mday < DaysIn(t.mon, t.year + 1900) -> <<t.year, t.mon, t.mday + 1>>
    [] t.mday >= DaysIn(t.mon, t.year + 1900) /\ t.mon < 11 -> <<t.year, t.mon + 1, 1>>
    [] OTHER -> <<t.year + 1, 0, 1>>

LastDay == 24854 \* bound: 2038-01-18, the last whole day below 2^31 seconds

\* Localtime gives every date of the calendar from 1970-01-01, and changes
\* it where the day of UTC+8 begins.
ASSUME LocaltimeDates ==
  /\ DateOf(T!Localtime(0)) = <<70, 0, 1>>
  /\ \A day \in 0..(LastDay - 1) :
       LET noon == day * 86400 + 43200 - 28800 IN
       DateOf(T!Localtime(noon + 86400)) = DayAfter(T!Localtime(noon))

\* Within a day, Localtime gives the time of UTC+8, and its date.
ASSUME LocaltimeTimes ==
  \A s \in 0..86399 :
    LET t == T!Localtime(s) IN
    /\ t.sec < 60 /\ t.min < 60 /\ t.hour < 24
    /\ (t.hour * 60 + t.min) * 60 + t.sec = (s + 28800) % 86400
    /\ t.mday = 1 + (s + 28800) \div 86400

\* A timespec is normal, and the time that was asked for.
ASSUME TimespecNormal ==
  \A usec \in {0, 1, 499999, 500000, 999000, 999999}, ms \in {-5, 0, 1, 500, 999, 1000, 1500, 1999} :
    LET ts == T!MakeTimespec(10, usec, ms) IN
    /\ ts.nsec \in 0..999999999
    /\ (ts.sec - 10) * 1000000 + ts.nsec \div 1000 = usec + 1000 * IF ms < 0 THEN 0 ELSE ms

----------------------------------------------------------------------------
Seqs2 == {<<v, inc, w, jnc>> : v, w \in {0, 5, 15, 16, 40}, inc, jnc \in 0..7}

\* A batch steps through every residue once, whatever was drawn: its ids
\* differ from each other, and from another batch's if their upper bits do.
ASSUME BatchesDistinct ==
  \A s \in Seqs2 :
    LET ids == G(8, s)!Ids(16) IN
    /\ \A i, j \in 1..16 : (i - 1) \div 8 = (j - 1) \div 8 /\ i # j => ids[i] # ids[j]
    /\ \A i \in 1..8, j \in 9..16 : s[1] \div 8 # s[3] \div 8 => ids[i] # ids[j]
    /\ \A i \in 1..16 : ids[i] \div 8 = s[IF i <= 8 THEN 1 ELSE 3] \div 8

----------------------------------------------------------------------------
Lengths == 0..75 \* bound: keys up to three rounds and every rest

\* Every byte of a key goes into one round, at a place of its own.
Covers(rounds, len) ==
  /\ \A i \in 0..(len - 1) :
       \E r \in DOMAIN rounds :
         /\ \E x \in rounds[r] : x.byte = i
         /\ \A q \in DOMAIN rounds : \A x, y \in rounds[r], z \in rounds[q] :
              /\ x.byte = i /\ y.byte = i => x = y
              /\ x.byte = i /\ z.byte = i => q = r
  /\ \A r \in DOMAIN rounds : \A x, y \in rounds[r] :
       /\ x.lane = y.lane /\ x.shift = y.shift => x = y
       /\ x.byte \in 0..(len - 1) /\ x.shift \in 0..56

ASSUME EveryByteHashed ==
  \A len \in Lengths : Covers(H!hash(len), len) /\ Covers(H!MurmurHash64A(len), len)

\* The length is added to c in the last round, where no byte of the key is.
ASSUME LengthApart ==
  \A len \in Lengths :
    LET rounds == H!hash(len) IN
    \A x \in rounds[len \div 24 + 1] : ~(x.lane = "c" /\ x.shift = 0)

\* "identical to hash() on little-endian machines" (lookup8.cc:146, 188).
ASSUME HashesAgree ==
  /\ \A len \in Lengths, aligned \in BOOLEAN : H!hash3(len, aligned) = H!hash(len)
  /\ \A words \in 0..9 : H!hash2(words) = H!hash(8 * words)

----------------------------------------------------------------------------
\* A log line stays in text_, '\0' included; it ends in "\n" unless it was
\* cut: the two bytes kept free for "\n" and '\0' are not used for "\n".
ASSUME LogLineFits ==
  \A len \in 2..6, n \in 0..10 :
    LET l == X!LogLine(n, len) IN
    /\ l.zero <= len /\ l.pcount <= l.zero
    /\ l.newline <=> n < len - 2

\* StringPrintf gives the whole text or nothing, and nothing only if the
\* text does not fit into the largest buffer; by C99 in at most two tries.
ASSUME AppendsAllOrNothing ==
  \A small \in {2, 4}, need \in 0..40, c99 \in BOOLEAN :
    LET big == small * 8
        r == X!stringAppendV(need, c99, small, big)
    IN /\ r.appended = IF need < big THEN need ELSE -1
       /\ c99 => r.tries <= 2
============================================================================
