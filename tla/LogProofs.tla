----------------------------- MODULE LogProofs -----------------------------
(***************************************************************************)
(* The ring of cached times, under everything that Log lets threads do:    *)
(* for every number of slots, set of readers and bound on a reader that    *)
(* the slots allow, no text is written while it is copied.                 *)
(***************************************************************************)
EXTENDS Log, SequenceTheorems, TLAPS

\* The ring has moved on by k slots since reader r took its pointer.
Behind(r, k) == index = reading[r] + k \/ index + kTimeSlots = reading[r] + k

RingType ==
  /\ index \in Slots /\ cached \in Slots /\ upc \in {"sleep", "write"}
  /\ reading \in [Readers -> Slots \cup {NULL}] /\ lag \in [Readers -> Nat]

\* The published slot is the last one, or the one before it during an update.
Published == IF upc = "sleep" THEN cached = index ELSE index = (cached + 1) % kTimeSlots

\* A reader's slot is as far back as updates were begun since, or one more if
\* it took its pointer during an update.
Readable ==
  \A r \in Readers :
    IF reading[r] = NULL THEN lag[r] = 0
    ELSE lag[r] <= MaxLag /\ (Behind(r, lag[r]) \/ Behind(r, lag[r] + 1))

RingInv == RingType /\ Published /\ Readable /\ torn = {}

----------------------------------------------------------------------------
(* What is in a list of messages, and whether only once, after push_back   *)
(* and splice.                                                             *)

LEMMA RangeEmpty == Range(<<>>) = {}
BY DEF Range

LEMMA RangeElement ==
  ASSUME NEW S, NEW s \in Seq(S), NEW e
  PROVE  /\ e \in Range(s) <=> \E i \in 1..Len(s) : e = s[i]
         /\ e \in Range(s) => e \in S
BY DEF Range

LEMMA RangeAppend ==
  ASSUME NEW S, NEW q \in Seq(S), NEW e \in S
  PROVE  /\ Append(q, e) \in Seq(S) /\ Range(Append(q, e)) = Range(q) \cup {e}
         /\ IsInjective(q) /\ e \notin Range(q) => IsInjective(Append(q, e))
<1>1. /\ Append(q, e) \in Seq(S) /\ DOMAIN Append(q, e) = 1..(Len(q) + 1)
      /\ DOMAIN q = 1..Len(q) /\ Len(q) \in Nat
      /\ \A i \in 1..Len(q) : Append(q, e)[i] = q[i]
      /\ Append(q, e)[Len(q) + 1] = e
  BY AppendProperties
<1>2. \A i \in 1..(Len(q) + 1) : i \in 1..Len(q) \/ i = Len(q) + 1
  BY <1>1
<1>3. Len(q) + 1 \in 1..(Len(q) + 1) /\ \A i \in 1..Len(q) : i \in 1..(Len(q) + 1)
  BY <1>1
<1>4. Range(Append(q, e)) = Range(q) \cup {e}
  BY <1>1, <1>2, <1>3 DEF Range
<1>5. ASSUME IsInjective(q), e \notin Range(q) PROVE IsInjective(Append(q, e))
  BY <1>1, <1>2, <1>5 DEF Range, IsInjective
<1>6. QED
  BY <1>1, <1>4, <1>5

LEMMA RangeConcat ==
  ASSUME NEW S, NEW q \in Seq(S), NEW t \in Seq(S)
  PROVE  /\ q \o t \in Seq(S) /\ Range(q \o t) = Range(q) \cup Range(t)
         /\ IsInjective(q) /\ IsInjective(t) /\ Range(q) \cap Range(t) = {}
              => IsInjective(q \o t)
<1>1. /\ q \o t \in Seq(S) /\ DOMAIN (q \o t) = 1..(Len(q) + Len(t))
      /\ DOMAIN q = 1..Len(q) /\ DOMAIN t = 1..Len(t) /\ Len(q) \in Nat /\ Len(t) \in Nat
      /\ \A i \in 1..(Len(q) + Len(t)) :
           (q \o t)[i] = IF i <= Len(q) THEN q[i] ELSE t[i - Len(q)]
  BY ConcatProperties
<1>2. \A i \in 1..(Len(q) + Len(t)) :
        \/ i \in 1..Len(q) /\ (q \o t)[i] = q[i]
        \/ i - Len(q) \in 1..Len(t) /\ (q \o t)[i] = t[i - Len(q)]
  BY <1>1
<1>3. Range(q \o t) = Range(q) \cup Range(t)
  <2>1. \A i \in 1..Len(q) : i \in 1..(Len(q) + Len(t)) /\ (q \o t)[i] = q[i]
    BY <1>1
  <2>2. \A i \in 1..Len(t) : /\ Len(q) + i \in 1..(Len(q) + Len(t))
                             /\ (q \o t)[Len(q) + i] = t[i]
    BY <1>1
  <2>3. ASSUME NEW x \in Range(q \o t) PROVE x \in Range(q) \cup Range(t)
    <3>1. PICK i \in 1..(Len(q) + Len(t)) : x = (q \o t)[i]
      BY <1>1 DEF Range
    <3>2. \/ i \in 1..Len(q) /\ x = q[i]
          \/ i - Len(q) \in 1..Len(t) /\ x = t[i - Len(q)]
      BY <1>2, <3>1
    <3>3. QED
      BY <1>1, <3>2 DEF Range
  <2>4. ASSUME NEW x \in Range(q) PROVE x \in Range(q \o t)
    <3>1. PICK i \in 1..Len(q) : x = q[i]
      BY <1>1 DEF Range
    <3>2. i \in DOMAIN (q \o t) /\ (q \o t)[i] = x
      BY <1>1, <2>1, <3>1
    <3>3. QED
      BY <3>2 DEF Range
  <2>5. ASSUME NEW x \in Range(t) PROVE x \in Range(q \o t)
    <3>1. PICK i \in 1..Len(t) : x = t[i]
      BY <1>1 DEF Range
    <3>2. Len(q) + i \in DOMAIN (q \o t) /\ (q \o t)[Len(q) + i] = x
      BY <1>1, <2>2, <3>1
    <3>3. QED
      BY <3>2 DEF Range
  <2>6. QED
    BY <2>3, <2>4, <2>5
<1>4. ASSUME IsInjective(q), IsInjective(t), Range(q) \cap Range(t) = {},
             NEW i \in 1..(Len(q) + Len(t)), NEW j \in 1..(Len(q) + Len(t)),
             (q \o t)[i] = (q \o t)[j]
      PROVE  i = j
  <2>1. CASE i \in 1..Len(q) /\ (q \o t)[i] = q[i] /\ j \in 1..Len(q) /\ (q \o t)[j] = q[j]
    BY <1>1, <1>4, <2>1 DEF IsInjective
  <2>2. CASE /\ i - Len(q) \in 1..Len(t) /\ (q \o t)[i] = t[i - Len(q)]
             /\ j - Len(q) \in 1..Len(t) /\ (q \o t)[j] = t[j - Len(q)]
    <3>1. i - Len(q) = j - Len(q)
      BY <1>1, <1>4, <2>2 DEF IsInjective
    <3>2. QED
      BY <1>1, <3>1
  <2>3. CASE /\ i \in 1..Len(q) /\ (q \o t)[i] = q[i]
             /\ j - Len(q) \in 1..Len(t) /\ (q \o t)[j] = t[j - Len(q)]
    BY <1>1, <1>4, <2>3 DEF Range
  <2>4. CASE /\ j \in 1..Len(q) /\ (q \o t)[j] = q[j]
             /\ i - Len(q) \in 1..Len(t) /\ (q \o t)[i] = t[i - Len(q)]
    BY <1>1, <1>4, <2>4 DEF Range
  <2>5. QED
    BY <1>2, <2>1, <2>2, <2>3, <2>4
<1>5. QED
  BY <1>1, <1>3, <1>4 DEF IsInjective

LEMMA InjectiveTail ==
  ASSUME NEW S, NEW q \in Seq(S), q # <<>>, IsInjective(q)
  PROVE  /\ Head(q) \in S /\ Head(q) \in Range(q) /\ Tail(q) \in Seq(S)
         /\ IsInjective(Tail(q)) /\ Range(Tail(q)) = Range(q) \ {Head(q)}
<1>1. /\ Head(q) \in S /\ Tail(q) \in Seq(S) /\ Head(q) = q[1]
      /\ Len(q) \in Nat \ {0} /\ DOMAIN q = 1..Len(q) /\ DOMAIN Tail(q) = 1..(Len(q) - 1)
      /\ \A i \in 1..(Len(q) - 1) : Tail(q)[i] = q[i + 1]
  BY EmptySeq, HeadTailProperties
<1>2. 1 \in 1..Len(q) /\ \A i \in 1..(Len(q) - 1) : i + 1 \in 1..Len(q) /\ i + 1 # 1
  BY <1>1
<1>3. \A i \in 1..Len(q) : i = 1 \/ (i - 1 \in 1..(Len(q) - 1) /\ q[i] = Tail(q)[i - 1])
  BY <1>1
<1>4. Head(q) \in Range(q)
  BY <1>1, <1>2 DEF Range
<1>5. ASSUME NEW x \in Range(Tail(q)) PROVE x \in Range(q) \ {Head(q)}
  <2>1. PICK i \in 1..(Len(q) - 1) : x = q[i + 1]
    BY <1>1 DEF Range
  <2>2. QED
    BY <1>1, <1>2, <2>1 DEF Range, IsInjective
<1>6. ASSUME NEW x \in Range(q) \ {Head(q)} PROVE x \in Range(Tail(q))
  <2>1. PICK i \in 1..Len(q) : x = q[i]
    BY <1>1 DEF Range
  <2>2. QED
    BY <1>1, <1>3, <2>1 DEF Range
<1>7. ASSUME NEW i \in 1..(Len(q) - 1), NEW j \in 1..(Len(q) - 1), Tail(q)[i] = Tail(q)[j]
      PROVE  i = j
  <2>1. i + 1 = j + 1
    BY <1>1, <1>2, <1>7 DEF IsInjective
  <2>2. QED
    BY <1>1, <2>1
<1>8. QED
  BY <1>1, <1>4, <1>5, <1>6, <1>7 DEF IsInjective

----------------------------------------------------------------------------
\* NextSlot without the remainder.
LEMMA NextSlotValue ==
  ASSUME NEW i \in Slots
  PROVE  /\ (i + 1) % kTimeSlots = IF i + 1 = kTimeSlots THEN 0 ELSE i + 1
         /\ (i + 1) % kTimeSlots \in Slots
<1>1. kTimeSlots \in Nat /\ kTimeSlots >= 2
  BY RingAssumption
<1>2. CASE i + 1 = kTimeSlots
  BY <1>1, <1>2 DEF Slots
<1>3. CASE i + 1 # kTimeSlots
  BY <1>1, <1>3 DEF Slots
<1>4. QED
  BY <1>2, <1>3

\* What the steps of Log do to the ring.
RingStep ==
  \/ BeginUpdate \/ Publish
  \/ \E r \in Readers : TakePointer(r) \/ Copied(r)
  \/ UNCHANGED timeVars

LEMMA LogSteps ==
  ASSUME [Next]_vars
  PROVE  RingStep
<1>1. CASE Tick
  BY <1>1 DEF Tick, RingStep
<1>2. CASE LoggerStep
  BY <1>2 DEF LoggerStep, Timeout, ReadList, FlushIfDue, Output, Delete, Enter, Undefined, RingStep
<1>3. ASSUME NEW r \in Readers, LogMessage(r) PROVE RingStep
  BY <1>3 DEF LogMessage, RingStep
<1>4. ASSUME NEW r \in Readers, Logging(r) PROVE RingStep
  <2>1. CASE Finish(r)
    BY <2>1 DEF Finish, RingStep
  <2>2. CASE Send(r) \/ WriteStack(r) \/ FlushReads(r) \/ FlushWrites(r)
    BY <2>2 DEF Send, WriteStack, FlushReads, FlushWrites, Enter, Undefined, RingStep
  <2>3. CASE FlushFile(r) \/ Abort(r) \/ Output(r) \/ Delete(r)
    BY <2>3 DEF FlushFile, Abort, Output, Delete, RingStep
  <2>4. QED
    BY <1>4, <2>1, <2>2, <2>3 DEF Logging
<1>5. CASE UNCHANGED vars
  BY <1>5 DEF vars, RingStep
<1>6. QED
  BY <1>1, <1>2, <1>3, <1>4, <1>5 DEF Next

----------------------------------------------------------------------------
\* The next slot is nobody's: a reader is at most MaxLag + 1 slots behind.
LEMMA NextSlotFree ==
  ASSUME RingInv, NEW r \in Readers, reading[r] # NULL, lag[r] < MaxLag
  PROVE  reading[r] # NextSlot
<1>1. index \in Slots /\ reading[r] \in Slots /\ lag[r] \in Nat
  BY DEF RingInv, RingType
<1>2. NextSlot = IF index + 1 = kTimeSlots THEN 0 ELSE index + 1
  BY <1>1, NextSlotValue DEF NextSlot
<1>3. Behind(r, lag[r]) \/ Behind(r, lag[r] + 1)
  BY DEF RingInv, Readable
<1>4. QED
  BY <1>1, <1>2, <1>3, RingAssumption DEF Behind, Slots

LEMMA BeginUpdateStep ==
  ASSUME RingInv, BeginUpdate
  PROVE  RingInv'
<1>1. index \in Slots /\ index' = NextSlot /\ cached = index /\ upc' = "write"
  BY DEF RingInv, RingType, Published, BeginUpdate
<1>2. index' = IF index + 1 = kTimeSlots THEN 0 ELSE index + 1
  BY <1>1, NextSlotValue DEF NextSlot
<1>3. RingType'
  <2>1. index' \in Slots
    BY <1>1, NextSlotValue DEF NextSlot
  <2>2. lag' \in [Readers -> Nat]
    BY DEF RingInv, RingType, BeginUpdate
  <2>3. QED
    BY <2>1, <2>2 DEF RingInv, RingType, BeginUpdate
<1>4. Published'
  BY <1>1 DEF Published, NextSlot, BeginUpdate
<1>5. Readable'
  <2>1. SUFFICES ASSUME NEW r \in Readers
                 PROVE  IF reading[r] = NULL THEN lag'[r] = 0
                        ELSE /\ lag'[r] <= MaxLag
                             /\ Behind(r, lag[r])' \/ Behind(r, lag[r] + 1)'
    BY DEF Readable, BeginUpdate
  <2>2. CASE reading[r] = NULL
    BY <2>2 DEF BeginUpdate
  <2>3. CASE reading[r] # NULL
    <3>1. lag'[r] = lag[r] + 1 /\ lag[r] < MaxLag /\ reading' = reading
      BY <2>3 DEF BeginUpdate
    <3>2. reading[r] \in Slots /\ lag[r] \in Nat
      BY <2>3 DEF RingInv, RingType
    <3>3. Behind(r, lag[r]) \/ Behind(r, lag[r] + 1)
      BY <2>3 DEF RingInv, Readable
    <3>4. QED
      BY <1>1, <1>2, <2>3, <3>1, <3>2, <3>3, RingAssumption DEF Behind, Slots
  <2>4. QED
    BY <2>2, <2>3
<1>6. torn' = {}
  <2>1. \A r \in Readers : reading[r] # NextSlot
    <3>1. SUFFICES ASSUME NEW r \in Readers, reading[r] = NextSlot PROVE FALSE
      OBVIOUS
    <3>2. NextSlot \in Slots
      BY <1>1, NextSlotValue DEF NextSlot
    <3>3. reading[r] # NULL
      BY <3>1, <3>2, RingAssumption DEF Slots
    <3>4. QED
      BY <3>1, <3>3, NextSlotFree DEF BeginUpdate
  <2>2. QED
    BY <2>1 DEF RingInv, BeginUpdate
<1>7. QED
  BY <1>3, <1>4, <1>5, <1>6 DEF RingInv

LEMMA PublishStep ==
  ASSUME RingInv, Publish
  PROVE  RingInv'
BY DEF RingInv, RingType, Published, Readable, Behind, Publish

LEMMA TakePointerStep ==
  ASSUME RingInv, NEW r \in Readers, TakePointer(r)
  PROVE  RingInv'
<1>1. index \in Slots /\ cached \in Slots /\ lag[r] = 0 /\ reading'[r] = cached
  BY DEF RingInv, RingType, Readable, TakePointer
<1>2. index = cached \/ index = (cached + 1) % kTimeSlots
  BY DEF RingInv, Published
<1>3. /\ index = (cached + 1) % kTimeSlots
        => index # cached /\ (index = cached + 1 \/ index + kTimeSlots = cached + 1)
  <2>1. (cached + 1) % kTimeSlots = IF cached + 1 = kTimeSlots THEN 0 ELSE cached + 1
    BY <1>1, NextSlotValue
  <2>2. QED
    BY <1>1, <2>1, RingAssumption DEF Slots
<1>4. RingType' /\ Published'
  BY DEF RingInv, RingType, Published, TakePointer
<1>5. Readable'
  <2>1. SUFFICES ASSUME NEW q \in Readers
                 PROVE  IF reading'[q] = NULL THEN lag[q] = 0
                        ELSE lag[q] <= MaxLag /\ (Behind(q, lag[q])' \/ Behind(q, lag[q] + 1)')
    BY DEF Readable, TakePointer
  <2>2. CASE q = r
    BY <1>1, <1>2, <1>3, <2>2, RingAssumption DEF Behind, Slots, TakePointer
  <2>3. CASE q # r
    BY <2>3 DEF RingInv, RingType, Readable, Behind, TakePointer
  <2>4. QED
    BY <2>2, <2>3
<1>6. torn' = {}
  BY <1>3 DEF RingInv, Published, TakePointer
<1>7. QED
  BY <1>4, <1>5, <1>6 DEF RingInv

LEMMA CopiedStep ==
  ASSUME RingInv, NEW r \in Readers, Copied(r)
  PROVE  RingInv'
<1>1. RingType' /\ Published' /\ torn' = {}
  BY DEF RingInv, RingType, Published, Copied
<1>2. Readable'
  BY DEF RingInv, RingType, Readable, Behind, Copied
<1>3. QED
  BY <1>1, <1>2 DEF RingInv

LEMMA RingInit ==
  ASSUME Init
  PROVE  RingInv
<1>1. 1 \in Slots /\ kTimeSlots \in Nat
  BY RingAssumption DEF Slots
<1>2. QED
  BY <1>1 DEF Init, TimeInit, RingInv, RingType, Published, Readable

----------------------------------------------------------------------------
(* Whatever threads log, and however updates fall between, the time that   *)
(* is published is complete and no slot is written while a reader copies   *)
(* from it (TimerThread::updateTime, CurrentLogtimeString).                *)
THEOREM Stamped == Spec => []StampWhole
<1>1. Init => RingInv
  BY RingInit
<1>2. RingInv /\ [Next]_vars => RingInv'
  <2>1. SUFFICES ASSUME RingInv, RingStep PROVE RingInv'
    BY LogSteps
  <2>2. CASE BeginUpdate
    BY <2>1, <2>2, BeginUpdateStep
  <2>3. CASE Publish
    BY <2>1, <2>3, PublishStep
  <2>4. CASE \E r \in Readers : TakePointer(r) \/ Copied(r)
    BY <2>1, <2>4, TakePointerStep, CopiedStep
  <2>5. CASE UNCHANGED timeVars
    BY <2>1, <2>5 DEF timeVars, RingInv, RingType, Published, Readable, Behind
  <2>6. QED
    BY <2>1, <2>2, <2>3, <2>4, <2>5 DEF RingStep
<1>3. RingInv => StampWhole
  <2>1. SUFFICES ASSUME RingInv, upc = "write", cached = index PROVE FALSE
    BY DEF RingInv, StampWhole
  <2>2. cached \in Slots /\ index = (cached + 1) % kTimeSlots
    BY <2>1 DEF RingInv, RingType, Published
  <2>3. QED
    BY <2>1, <2>2, NextSlotValue, RingAssumption DEF Slots
<1>4. QED
  BY <1>1, <1>2, <1>3, PTL DEF Spec

(***************************************************************************)
(* The lists and the file.                                                 *)
(***************************************************************************)

Line == [by : Readers, n : Nat]
Dying(r) == pc[r] \in {"flush writes", "fsync", "abort", "dead"}

\* Of two lines of all, the first comes first in s.
InOrderOf(all, s) ==
  \A i, j \in DOMAIN all :
    i < j => \E m, n \in DOMAIN s : m < n /\ all[i] = s[m] /\ all[j] = s[n]

\* Rest, of any lists and walks.
RestOf(ls, wk, l) ==
  LET out == {p \in Procs : wk[p].list = l}
      k == IF out = {} THEN 0 ELSE wk[CHOOSE p \in out : TRUE].out
  IN SubSeq(ls[l], k + 1, Len(ls[l]))

Steps ==
  {"idle", "finish", "send", "stack", "flush reads", "flush writes", "fsync", "abort", "dead",
   "read", "flush"}

LogType ==
  /\ reads \in {1, 2} /\ writes \in {1, 2} \ {reads}
  /\ list \in [{1, 2} -> Seq(Line)] /\ file \in Seq(Line) /\ sent \in Seq(Line)
  /\ dropped \subseteq Line
  /\ made \in [Readers -> Nat] /\ pc \in [Procs -> Steps]
  /\ walk \in [Procs -> [list : {1, 2}, out : Nat, del : Nat] \cup {NoWalk}]

\* A list has one walker, which is inside it; LogThread's list is the read list
\* for as long as it walks, and another walker is a thread about to die.
Walking ==
  /\ \A p \in Procs : walk[p] # NoWalk =>
       /\ walk[p].out = walk[p].del \/ walk[p].out = walk[p].del + 1
       /\ walk[p].del < Len(list[walk[p].list])
       /\ \A q \in Procs : walk[q].list = walk[p].list => q = p
  /\ walk[Logger] # NoWalk => pc[Logger] = "flush" /\ walk[Logger].list = reads
  /\ \A r \in Readers : walk[r] # NoWalk => pc[r] \in {"flush writes", "fsync"}

\* Every line is in one place.
Once ==
  /\ Range(sent) = Range(file) \cup dropped \cup Range(Rest(1)) \cup Range(Rest(2))
  /\ IsInjective(sent) /\ IsInjective(file) /\ IsInjective(Rest(1)) /\ IsInjective(Rest(2))
  /\ Range(file) \cap dropped = {}
  /\ Range(Rest(1)) \cap (Range(file) \cup dropped) = {}
  /\ Range(Rest(2)) \cap (Range(file) \cup dropped) = {}
  /\ Range(Rest(1)) \cap Range(Rest(2)) = {}

\* A line that a thread is about to send is a new one.
Numbered ==
  \A line \in Range(sent) :
    /\ line.n <= made[line.by]
    /\ pc[line.by] \in {"finish", "send"} => line.n < made[line.by]

All == file \o Rest(reads) \o Rest(writes)
Ordered == ~Flushing => InOrderOf(All, sent)

\* What was sent up to the FATAL line of r.
Due(r) == {sent[i] : i \in {k \in 1..Len(sent) : \E j \in k..Len(sent) : sent[j] = Current(r)}}

\* Somebody is about to output list l: r itself, or LogThread, which has taken
\* the list as its own between the two lists of r.
Covered(r, l) ==
  \/ pc[r] = "flush writes" /\ l = writes
  \/ walk[r].list = l
  \/ l = reads /\ (pc[Logger] = "read" \/ walk[Logger].list = l)

DueCovered ==
  \A r \in Readers : \A l \in {1, 2} :
    (Dying(r) /\ Due(r) \cap Range(Rest(l)) # {}) => Covered(r, l)

Lines == LogType /\ Walking /\ Once /\ Numbered /\ Ordered /\ DueCovered
LogInv == process # "undefined" => Lines

----------------------------------------------------------------------------
LEMMA OrderAppend ==
  ASSUME NEW S, NEW all \in Seq(S), NEW s \in Seq(S), NEW x \in S,
         InOrderOf(all, s), Range(all) \subseteq Range(s)
  PROVE  InOrderOf(Append(all, x), Append(s, x))
<1> DEFINE a == Append(all, x)
           t == Append(s, x)
<1>1. /\ DOMAIN a = 1..(Len(all) + 1) /\ DOMAIN all = 1..Len(all) /\ Len(all) \in Nat
      /\ \A i \in 1..Len(all) : a[i] = all[i]
      /\ a[Len(all) + 1] = x
  BY AppendProperties
<1>2. /\ DOMAIN t = 1..(Len(s) + 1) /\ DOMAIN s = 1..Len(s) /\ Len(s) \in Nat
      /\ \A i \in 1..Len(s) : t[i] = s[i]
      /\ t[Len(s) + 1] = x
  BY AppendProperties
<1> HIDE DEF a, t
<1>3. ASSUME NEW i \in 1..(Len(all) + 1), NEW j \in 1..(Len(all) + 1), i < j
      PROVE  \E m, n \in DOMAIN t : m < n /\ a[i] = t[m] /\ a[j] = t[n]
  <2>1. i \in 1..Len(all) /\ a[i] = all[i]
    BY <1>1, <1>3
  <2>2. CASE j = Len(all) + 1
    <3>1. PICK m \in 1..Len(s) : all[i] = s[m]
      BY <1>1, <1>2, <2>1 DEF Range
    <3>2. m \in DOMAIN t /\ Len(s) + 1 \in DOMAIN t /\ m < Len(s) + 1
      BY <1>2
    <3>3. QED
      BY <1>1, <1>2, <2>1, <2>2, <3>1, <3>2
  <2>3. CASE j # Len(all) + 1
    <3>1. j \in 1..Len(all) /\ a[j] = all[j]
      BY <1>1, <2>3
    <3>2. PICK m \in 1..Len(s), n \in 1..Len(s) : m < n /\ all[i] = s[m] /\ all[j] = s[n]
      <4>1. i \in DOMAIN all /\ j \in DOMAIN all
        BY <1>1, <2>1, <3>1
      <4>2. QED
        BY <1>2, <1>3, <4>1 DEF InOrderOf
    <3>3. m \in DOMAIN t /\ n \in DOMAIN t
      BY <1>2
    <3>4. QED
      BY <1>2, <2>1, <3>1, <3>2, <3>3
  <2>4. QED
    BY <2>2, <2>3
<1>4. InOrderOf(a, t)
  BY <1>1, <1>3 DEF InOrderOf
<1>5. QED
  BY <1>4 DEF a, t

LEMMA ConcatAppend ==
  ASSUME NEW S, NEW q \in Seq(S), NEW t \in Seq(S), NEW x \in S
  PROVE  q \o Append(t, x) = Append(q \o t, x)
<1>1. Append(t, x) = t \o <<x>> /\ <<x>> \in Seq(S) /\ q \o t \in Seq(S)
  BY AppendIsConcat, ConcatProperties
<1>2. Append(q \o t, x) = (q \o t) \o <<x>>
  BY <1>1, AppendIsConcat
<1>3. (q \o t) \o <<x>> = q \o (t \o <<x>>)
  BY <1>1, ConcatAssociative
<1>4. QED
  BY <1>1, <1>2, <1>3

\* The first of a part is moved to the part before.
LEMMA MoveHead ==
  ASSUME NEW S, NEW q \in Seq(S), NEW t \in Seq(S), t # <<>>
  PROVE  Append(q, Head(t)) \o Tail(t) = q \o t
<1>1. Head(t) \in S /\ Tail(t) \in Seq(S) /\ Len(t) \in Nat \ {0}
  BY EmptySeq, HeadTailProperties
<1>2. Append(q, Head(t)) \o Tail(t) = q \o t
  <2>1. Append(q, Head(t)) = q \o <<Head(t)>> /\ <<Head(t)>> \in Seq(S)
    BY <1>1, AppendIsConcat
  <2>2. t = <<Head(t)>> \o Tail(t)
    <3>1. 1 \in 1..Len(t) /\ Len(t) \in 1..Len(t)
      BY <1>1
    <3>2. SubSeq(t, 1, Len(t)) = <<t[1]>> \o SubSeq(t, 1 + 1, Len(t))
      BY <3>1, SubSeqRecursiveFirst
    <3>3. SubSeq(t, 1, Len(t)) = t /\ Tail(t) = SubSeq(t, 2, Len(t)) /\ t[1] = Head(t) /\ 1 + 1 = 2
      BY SubSeqFull, TailIsSubSeq
    <3>4. QED
      BY <3>2, <3>3
  <2>3. (q \o <<Head(t)>>) \o Tail(t) = q \o (<<Head(t)>> \o Tail(t))
    BY <1>1, <2>1, ConcatAssociative
  <2>4. QED
    BY <2>1, <2>2, <2>3
<1>3. QED
  BY <1>2

\* The first of the middle part is left out.
LEMMA DropHead ==
  ASSUME NEW S, NEW q \in Seq(S), NEW t \in Seq(S), NEW u \in Seq(S), t # <<>>, NEW s
  PROVE  InOrderOf(q \o t \o u, s) => InOrderOf(q \o Tail(t) \o u, s)
<1> DEFINE a == q \o t \o u
           b == q \o Tail(t) \o u
<1>1. /\ Head(t) \in S /\ Tail(t) \in Seq(S) /\ Len(Tail(t)) = Len(t) - 1
      /\ \A i \in 1..(Len(t) - 1) : Tail(t)[i] = t[i + 1]
      /\ Len(t) \in Nat \ {0} /\ Len(q) \in Nat /\ Len(u) \in Nat
  BY EmptySeq, HeadTailProperties
<1>3. /\ DOMAIN (q \o t) = 1..(Len(q) + Len(t)) /\ Len(q \o t) = Len(q) + Len(t) /\ q \o t \in Seq(S)
      /\ \A i \in 1..(Len(q) + Len(t)) : (q \o t)[i] = IF i <= Len(q) THEN q[i] ELSE t[i - Len(q)]
  BY ConcatProperties
<1>4. /\ DOMAIN a = 1..(Len(q) + Len(t) + Len(u))
      /\ \A i \in 1..(Len(q) + Len(t) + Len(u)) :
           a[i] = IF i <= Len(q) + Len(t) THEN (q \o t)[i] ELSE u[i - (Len(q) + Len(t))]
  BY <1>3, ConcatProperties
<1>5. /\ Len(q \o Tail(t)) = Len(q) + (Len(t) - 1) /\ q \o Tail(t) \in Seq(S)
      /\ \A i \in 1..(Len(q) + (Len(t) - 1)) :
           (q \o Tail(t))[i] = IF i <= Len(q) THEN q[i] ELSE Tail(t)[i - Len(q)]
  BY <1>1, ConcatProperties
<1>6. /\ DOMAIN b = 1..(Len(q) + (Len(t) - 1) + Len(u))
      /\ \A i \in 1..(Len(q) + (Len(t) - 1) + Len(u)) :
           b[i] = IF i <= Len(q) + (Len(t) - 1) THEN (q \o Tail(t))[i]
                  ELSE u[i - (Len(q) + (Len(t) - 1))]
  BY <1>5, ConcatProperties
<1>7. \A i \in DOMAIN b : b[i] = a[IF i <= Len(q) THEN i ELSE i + 1]
  <2>1. SUFFICES ASSUME NEW i \in 1..(Len(q) + (Len(t) - 1) + Len(u))
                 PROVE  b[i] = a[IF i <= Len(q) THEN i ELSE i + 1]
    BY <1>6
  <2>2. CASE i <= Len(q)
    <3>1. i \in 1..(Len(q) + (Len(t) - 1)) /\ i \in 1..(Len(q) + Len(t)) /\ i \in 1..(Len(q) + Len(t) + Len(u))
      BY <1>1, <2>2
    <3>2. QED
      BY <1>3, <1>4, <1>5, <1>6, <2>2, <3>1
  <2>3. CASE ~(i <= Len(q)) /\ i <= Len(q) + (Len(t) - 1)
    <3>1. /\ i \in 1..(Len(q) + (Len(t) - 1)) /\ i - Len(q) \in 1..(Len(t) - 1)
          /\ i + 1 \in 1..(Len(q) + Len(t)) /\ i + 1 \in 1..(Len(q) + Len(t) + Len(u))
          /\ i + 1 <= Len(q) + Len(t) /\ ~(i + 1 <= Len(q))
          /\ (i + 1) - Len(q) = (i - Len(q)) + 1
      BY <1>1, <2>3
    <3>2. b[i] = Tail(t)[i - Len(q)] /\ Tail(t)[i - Len(q)] = t[(i - Len(q)) + 1]
      BY <1>1, <1>5, <1>6, <2>3, <3>1
    <3>3. a[i + 1] = t[(i + 1) - Len(q)]
      BY <1>3, <1>4, <3>1
    <3>4. QED
      BY <2>3, <3>1, <3>2, <3>3
  <2>4. CASE ~(i <= Len(q)) /\ ~(i <= Len(q) + (Len(t) - 1))
    <3>1. /\ i + 1 \in 1..(Len(q) + Len(t) + Len(u)) /\ ~(i + 1 <= Len(q) + Len(t))
          /\ (i + 1) - (Len(q) + Len(t)) = i - (Len(q) + (Len(t) - 1))
      BY <1>1, <2>4
    <3>2. b[i] = u[i - (Len(q) + (Len(t) - 1))]
      BY <1>6, <2>4
    <3>3. a[i + 1] = u[(i + 1) - (Len(q) + Len(t))]
      BY <1>4, <3>1
    <3>4. QED
      BY <2>4, <3>1, <3>2, <3>3
  <2>5. QED
    BY <2>2, <2>3, <2>4
<1>8. ASSUME InOrderOf(a, s) PROVE InOrderOf(b, s)
  <2>1. SUFFICES ASSUME NEW i \in DOMAIN b, NEW j \in DOMAIN b, i < j
                 PROVE  \E m, n \in DOMAIN s : m < n /\ b[i] = s[m] /\ b[j] = s[n]
    BY DEF InOrderOf
  <2> DEFINE v == IF i <= Len(q) THEN i ELSE i + 1
             w == IF j <= Len(q) THEN j ELSE j + 1
  <2>2. v \in DOMAIN a /\ w \in DOMAIN a /\ v < w
    BY <1>1, <1>4, <1>6, <2>1
  <2>3. b[i] = a[v] /\ b[j] = a[w]
    BY <1>7
  <2> HIDE DEF v, w, a, b
  <2>4. QED
    BY <1>8, <2>2, <2>3 DEF InOrderOf
<1>9. QED
  BY <1>8

----------------------------------------------------------------------------
LEMMA RestNone ==
  ASSUME NEW ls \in [{1, 2} -> Seq(Line)], NEW wk, NEW l \in {1, 2},
         \A p \in Procs : wk[p].list # l
  PROVE  RestOf(ls, wk, l) = ls[l]
<1>1. {p \in Procs : wk[p].list = l} = {}
  OBVIOUS
<1>2. RestOf(ls, wk, l) = SubSeq(ls[l], 0 + 1, Len(ls[l]))
  BY <1>1 DEF RestOf
<1>3. ls[l] \in Seq(Line) /\ 0 + 1 = 1
  OBVIOUS
<1>4. QED
  BY <1>2, <1>3, SubSeqFull

\* Of all threads, p walks list l.
Alone(wk, p, l) == wk[p].list = l /\ \A q \in Procs : wk[q].list = l => q = p

LEMMA RestOne ==
  ASSUME NEW ls \in [{1, 2} -> Seq(Line)], NEW wk, NEW p \in Procs, NEW l, Alone(wk, p, l)
  PROVE  RestOf(ls, wk, l) = SubSeq(ls[l], wk[p].out + 1, Len(ls[l]))
<1>1. {q \in Procs : wk[q].list = l} = {p}
  BY DEF Alone
<1>2. (CHOOSE q \in {p} : TRUE) = p
  OBVIOUS
<1>3. QED
  BY <1>1, <1>2 DEF RestOf

LEMMA RestSame ==
  ASSUME NEW ls, NEW wk, NEW ls2, NEW wk2, NEW l, ls2[l] = ls[l],
         \A p \in Procs : (wk2[p].list = l <=> wk[p].list = l)
                            /\ (wk[p].list = l => wk2[p].out = wk[p].out)
  PROVE  RestOf(ls2, wk2, l) = RestOf(ls, wk, l)
<1>1. {p \in Procs : wk2[p].list = l} = {p \in Procs : wk[p].list = l}
  OBVIOUS
<1>2. ASSUME {p \in Procs : wk[p].list = l} # {}
      PROVE  LET p == CHOOSE p \in {p \in Procs : wk[p].list = l} : TRUE IN wk2[p].out = wk[p].out
  BY <1>2
<1>3. QED
  BY <1>1, <1>2 DEF RestOf

LEMMA RestIs ==
  ASSUME NEW l
  PROVE  Rest(l) = RestOf(list, walk, l) /\ Rest(l)' = RestOf(list', walk', l)
BY DEF Rest, Outputs, Walkers, RestOf

LEMMA LogFacts ==
  ASSUME Lines
  PROVE  /\ NULL \notin {1, 2} /\ Logger \in Procs /\ Logger \notin Readers
         /\ \A r \in Readers : r \in Procs /\ r # Logger
         /\ \A p \in Procs : \A l \in {1, 2} : walk[p].list = l => walk[p] # NoWalk
         /\ \A p \in Procs : walk[p] # NoWalk =>
              /\ walk[p].list \in {1, 2} /\ walk[p].out \in Nat /\ walk[p].del \in Nat
              /\ list[walk[p].list] # <<>>
         /\ \A l \in {1, 2} : /\ list[l] \in Seq(Line) /\ Len(list[l]) \in Nat
                              /\ list[l] # <<>> => Len(list[l]) > 0
                              /\ Rest(l) \in Seq(Line)
                              /\ Walkers(l) = {} => Rest(l) = list[l]
         /\ reads \in {1, 2} /\ writes \in {1, 2} /\ reads # writes
         /\ \A l \in {1, 2} : l = reads \/ l = writes
<1>1. NULL \notin {1, 2} /\ NoWalk.list = NULL
  BY RingAssumption DEF NoWalk
<1>2. \A p \in Procs : \A l \in {1, 2} : walk[p].list = l => walk[p] # NoWalk
  BY <1>1
<1>3. \A l \in {1, 2} : list[l] \in Seq(Line) /\ Len(list[l]) \in Nat
  BY DEF Lines, LogType
<1>4. ASSUME NEW p \in Procs, walk[p] # NoWalk
      PROVE  /\ walk[p].list \in {1, 2} /\ walk[p].out \in Nat /\ walk[p].del \in Nat
             /\ list[walk[p].list] # <<>>
  <2>1. walk[p] \in [list : {1, 2}, out : Nat, del : Nat]
    BY <1>4 DEF Lines, LogType
  <2>2. walk[p].list \in {1, 2} /\ walk[p].out \in Nat /\ walk[p].del \in Nat
    BY <2>1
  <2>3. walk[p].del < Len(list[walk[p].list])
    BY <1>4 DEF Lines, Walking
  <2>4. list[walk[p].list] # <<>>
    BY <2>2, <2>3, EmptySeq
  <2>5. QED
    BY <2>2, <2>4
<1>5. ASSUME NEW l \in {1, 2}, list[l] # <<>> PROVE Len(list[l]) > 0
  <2>1. list[l] \in Seq(Line)
    BY <1>3
  <2>2. ASSUME NEW s \in Seq(Line), s # <<>> PROVE Len(s) > 0
    BY <2>2, EmptySeq
  <2>3. QED
    BY <1>5, <2>1, <2>2
<1>6. ASSUME NEW l \in {1, 2} PROVE Rest(l) \in Seq(Line) /\ (Walkers(l) = {} => Rest(l) = list[l])
  <2>1. CASE \A p \in Procs : walk[p].list # l
    <3>1. Rest(l) = list[l]
      BY <2>1, RestNone, RestIs DEF Lines, LogType
    <3>2. QED
      BY <1>3, <3>1
  <2>2. CASE \E p \in Procs : walk[p].list = l
    <3>1. PICK p \in Procs : walk[p].list = l
      BY <2>2
    <3>2. walk[p] # NoWalk /\ p \in Walkers(l)
      BY <1>2, <3>1 DEF Walkers
    <3>3. Alone(walk, p, l)
      BY <3>1, <3>2 DEF Lines, Walking, Alone
    <3>4. list \in [{1, 2} -> Seq(Line)]
      BY DEF Lines, LogType
    <3>5. RestOf(list, walk, l) = SubSeq(list[l], walk[p].out + 1, Len(list[l]))
      BY <3>3, <3>4, RestOne
    <3>6. walk[p].out + 1 \in Int /\ Len(list[l]) \in Int /\ walk[p].out + 1 >= 1
      BY <1>3, <1>4, <3>2
    <3>7. \A i \in (walk[p].out + 1)..Len(list[l]) : list[l][i] \in Line
      <4>1. ASSUME NEW i \in (walk[p].out + 1)..Len(list[l]) PROVE i \in 1..Len(list[l])
        BY <3>6
      <4>2. QED
        BY <1>3, <4>1, ElementOfSeq
    <3>8. SubSeq(list[l], walk[p].out + 1, Len(list[l])) \in Seq(Line)
      BY <3>6, <3>7, SubSeqProperties
    <3>9. QED
      BY <3>2, <3>5, <3>8, RestIs
  <2>3. QED
    BY <2>1, <2>2
<1>7. /\ reads \in {1, 2} /\ writes \in {1, 2} /\ reads # writes
      /\ \A l \in {1, 2} : l = reads \/ l = writes
  BY DEF Lines, LogType
<1>8. QED
  BY <1>1, <1>2, <1>3, <1>4, <1>6, <1>7, <1>5, LogAssumption DEF Procs

----------------------------------------------------------------------------
\* The steps that move no line: what they change of pc, and of made.
Moves ==
  {<<"idle", "finish">>, <<"finish", "send">>, <<"stack", "flush reads">>, <<"fsync", "abort">>,
   <<"abort", "dead">>, <<"flush", "idle">>}

Moved(p, to) ==
  /\ walk[p] = NoWalk /\ <<pc[p], to>> \in Moves
  /\ pc' = [pc EXCEPT ![p] = to]
  /\ \/ made' = made /\ pc[p] # "idle"
     \/ made' = [made EXCEPT ![p] = @ + 1] /\ p \in Readers /\ pc[p] = "idle"

Aside ==
  /\ UNCHANGED <<lists, walk, file, dropped, sent>>
  /\ \/ UNCHANGED <<pc, made>>
     \/ \E p \in Procs : \E to \in Steps : Moved(p, to)

AsideAction ==
  \/ Tick \/ FlushIfDue \/ UNCHANGED vars
  \/ \E r \in Readers : LogMessage(r) \/ Finish(r) \/ WriteStack(r) \/ FlushFile(r) \/ Abort(r)

LEMMA AsideIs ==
  ASSUME AsideAction, process' # "undefined"
  PROVE  Aside
<1>1. CASE Tick \/ UNCHANGED vars
  BY <1>1 DEF Tick, vars, lists, disk, message, Aside
<1>2. CASE FlushIfDue
  <2>1. Moved(Logger, "idle") /\ Logger \in Procs
    BY <1>2 DEF FlushIfDue, Goto, Moved, Moves, Procs, message
  <2>2. UNCHANGED <<lists, walk, file, dropped, sent>>
    BY <1>2 DEF FlushIfDue, flush, message, disk
  <2>3. QED
    BY <2>1, <2>2 DEF Aside, Steps
<1>3. ASSUME NEW r \in Readers, LogMessage(r) PROVE Aside
  <2>1. Moved(r, "finish") /\ r \in Procs
    BY <1>3 DEF LogMessage, Goto, Moved, Moves, Procs
  <2>2. UNCHANGED <<lists, walk, file, dropped, sent>>
    BY <1>3 DEF LogMessage, disk
  <2>3. QED
    BY <2>1, <2>2 DEF Aside, Steps
<1>4. ASSUME NEW r \in Readers, Finish(r) PROVE Aside
  <2>1. Moved(r, "send") /\ r \in Procs
    BY <1>4 DEF Finish, Goto, Moved, Moves, Procs, message
  <2>2. UNCHANGED <<lists, walk, file, dropped, sent>>
    BY <1>4 DEF Finish, disk, message
  <2>3. QED
    BY <2>1, <2>2 DEF Aside, Steps
<1>5. ASSUME NEW r \in Readers, WriteStack(r) PROVE Aside
  <2>1. UNCHANGED <<lists, walk, disk, message>>
    BY <1>5 DEF WriteStack, Undefined
  <2>2. Moved(r, "flush reads") /\ r \in Procs
    BY <1>5, <2>1 DEF WriteStack, Goto, Moved, Moves, Procs, message
  <2>3. QED
    BY <2>1, <2>2 DEF Aside, Steps, disk, message
<1>6. ASSUME NEW r \in Readers, FlushFile(r) PROVE Aside
  <2>1. Moved(r, "abort") /\ r \in Procs
    BY <1>6 DEF FlushFile, Goto, Moved, Moves, Procs, message
  <2>2. UNCHANGED <<lists, walk, file, dropped, sent>>
    BY <1>6 DEF FlushFile, flush, message
  <2>3. QED
    BY <2>1, <2>2 DEF Aside, Steps
<1>7. ASSUME NEW r \in Readers, Abort(r) PROVE Aside
  <2>1. Moved(r, "dead") /\ r \in Procs
    BY <1>7 DEF Abort, Goto, Moved, Moves, Procs, message
  <2>2. UNCHANGED <<lists, walk, file, dropped, sent>>
    BY <1>7 DEF Abort, disk, message
  <2>3. QED
    BY <2>1, <2>2 DEF Aside, Steps
<1>8. QED
  BY <1>1, <1>2, <1>3, <1>4, <1>5, <1>6, <1>7 DEF AsideAction

LEMMA KeepOrder ==
  ASSUME Ordered, All' = All, sent' = sent, ~Flushing' => ~Flushing
  PROVE  Ordered'
BY DEF Ordered, InOrderOf

LEMMA NewOrder ==
  ASSUME ~Flushing' => InOrderOf(All', sent')
  PROVE  Ordered'
BY DEF Ordered, InOrderOf

LEMMA AsideStep ==
  ASSUME Lines, Aside
  PROVE  Lines'
<1>1. UNCHANGED <<list, reads, writes, walk, file, dropped, sent>>
  BY DEF Aside, lists
<1>2. Rest(1)' = Rest(1) /\ Rest(2)' = Rest(2) /\ Rest(reads)' = Rest(reads) /\ Rest(writes)' = Rest(writes)
  BY <1>1 DEF Rest, Outputs, Walkers
<1>3. CASE UNCHANGED <<pc, made>>
  <2>1. LogType' /\ Walking' /\ Numbered'
    BY <1>1, <1>3 DEF Lines, LogType, Walking, Numbered
  <2>2. Once'
    BY <1>1, <1>2 DEF Lines, Once
  <2>3. Ordered'
    <3>1. ~Flushing' => ~Flushing
      BY <1>3 DEF Flushing
    <3>2. QED
      BY <1>1, <1>2, <3>1, KeepOrder DEF Lines, All
  <2>4. DueCovered'
    <3>1. ASSUME NEW r \in Readers, NEW l \in {1, 2}
          PROVE  /\ Dying(r)' <=> Dying(r)
                 /\ Due(r)' = Due(r) /\ Rest(l)' = Rest(l)
                 /\ Covered(r, l) => Covered(r, l)'
      BY <1>1, <1>2, <1>3 DEF Dying, Due, Current, Covered
    <3>2. QED
      BY <3>1 DEF Lines, DueCovered
  <2>5. QED
    BY <2>1, <2>2, <2>3, <2>4 DEF Lines
<1>4. ASSUME NEW p \in Procs, NEW to \in Steps, Moved(p, to) PROVE Lines'
  <2>1. /\ walk[p] = NoWalk /\ <<pc[p], to>> \in Moves /\ pc' = [pc EXCEPT ![p] = to]
        /\ \/ made' = made /\ pc[p] # "idle"
           \/ made' = [made EXCEPT ![p] = @ + 1] /\ p \in Readers /\ pc[p] = "idle"
    BY <1>4 DEF Moved
  <2>2. pc \in [Procs -> Steps] /\ made \in [Readers -> Nat] /\ pc' \in [Procs -> Steps]
    BY <2>1 DEF Lines, LogType
  <2>3. pc'[p] = to /\ \A q \in Procs : q # p => pc'[q] = pc[q]
    BY <2>1, <2>2
  <2>4. made' \in [Readers -> Nat] /\ (p \in Readers /\ pc[p] = "idle" => made'[p] = made[p] + 1)
        /\ (\A q \in Readers : q # p \/ pc[p] # "idle" => made'[q] = made[q])
    BY <2>1, <2>2
  <2>5. LogType'
    BY <1>1, <2>2, <2>4 DEF Lines, LogType
  <2>6. Walking'
    <3>1. \A q \in Procs : walk[q] # NoWalk => pc'[q] = pc[q]
      BY <2>1, <2>3
    <3>2. Logger \in Procs /\ \A r \in Readers : r \in Procs
      BY DEF Procs
    <3>3. QED
      BY <1>1, <3>1, <3>2 DEF Lines, Walking
  <2>7. Numbered'
    <3>1. ASSUME NEW line \in Range(sent)
          PROVE  /\ line.n <= made'[line.by]
                 /\ pc'[line.by] \in {"finish", "send"} => line.n < made'[line.by]
      <4>1. line.by \in Readers /\ line.n \in Nat /\ line.by \in Procs
        <5>1. line \in Line
          BY RangeElement DEF Lines, LogType
        <5>2. QED
          BY <5>1 DEF Line, Procs
      <4>2. /\ line.n <= made[line.by] /\ made[line.by] \in Nat
            /\ pc[line.by] \in {"finish", "send"} => line.n < made[line.by]
        BY <2>2, <4>1 DEF Lines, Numbered
      <4>3. CASE line.by = p /\ pc[p] = "idle"
        BY <2>4, <4>1, <4>2, <4>3
      <4>4. CASE line.by = p /\ pc[p] # "idle"
        <5>1. pc'[p] \in {"finish", "send"} => pc[p] = "finish"
          BY <2>1, <2>3, <4>4 DEF Moves
        <5>2. QED
          BY <2>4, <4>1, <4>2, <4>4, <5>1
      <4>5. CASE line.by # p
        BY <2>3, <2>4, <4>1, <4>2, <4>5
      <4>6. QED
        BY <4>3, <4>4, <4>5
    <3>2. QED
      BY <1>1, <3>1 DEF Numbered
  <2>8. Once'
    BY <1>1, <1>2 DEF Lines, Once
  <2>9. \A r \in Readers : /\ Dying(r)' <=> Dying(r)
                           /\ Dying(r) => Current(r)' = Current(r) /\ (r # p => pc'[r] = pc[r])
    <3>1. SUFFICES ASSUME NEW r \in Readers
                   PROVE  /\ Dying(r)' <=> Dying(r)
                          /\ Dying(r) => Current(r)' = Current(r) /\ (r # p => pc'[r] = pc[r])
      OBVIOUS
    <3>2. r \in Procs
      BY DEF Procs
    <3>3. CASE r = p
      BY <2>1, <2>3, <2>4, <3>3 DEF Dying, Current, Moves
    <3>4. CASE r # p
      BY <2>3, <2>4, <3>2, <3>4 DEF Dying, Current
    <3>5. QED
      BY <3>3, <3>4
  <2>10. Ordered'
    <3>1. ~Flushing' => ~Flushing
      BY <2>9 DEF Flushing, Dying
    <3>2. QED
      BY <1>1, <1>2, <3>1, KeepOrder DEF Lines, All
  <2>11. DueCovered'
    <3>1. ASSUME NEW r \in Readers, NEW l \in {1, 2}, Dying(r)', Due(r)' \cap Range(Rest(l)') # {}
          PROVE  Covered(r, l)'
      <4>1. Dying(r) /\ Due(r)' = Due(r) /\ Rest(l)' = Rest(l)
        BY <1>1, <1>2, <2>9, <3>1 DEF Due
      <4>2. Covered(r, l)
        BY <3>1, <4>1 DEF Lines, DueCovered
      <4>3. pc[r] = "flush writes" => pc'[r] = "flush writes"
        BY <2>1, <2>9, <4>1 DEF Moves
      <4>4. pc[Logger] = "read" => pc'[Logger] = "read"
        BY <2>1, <2>3 DEF Moves, Procs
      <4>5. QED
        BY <1>1, <4>2, <4>3, <4>4 DEF Covered
    <3>2. QED
      BY <3>1 DEF DueCovered
  <2>12. QED
    BY <2>5, <2>6, <2>7, <2>8, <2>10, <2>11 DEF Lines
<1>5. QED
  BY <1>3, <1>4 DEF Aside

----------------------------------------------------------------------------
\* iterList is entered.
Begun(l) == [list |-> l, out |-> 0, del |-> 0]
Entered(p, l) ==
  /\ walk[p] = NoWalk /\ (\A q \in Procs : walk[q].list # l)
  /\ walk' = IF list[l] = <<>> THEN walk ELSE [walk EXCEPT ![p] = Begun(l)]
  /\ UNCHANGED <<list, reads, writes, file, dropped, sent, made>>

LEMMA EnteredFacts ==
  ASSUME Lines, NEW p \in Procs, NEW l \in {1, 2}, Entered(p, l)
  PROVE  /\ Rest(1)' = Rest(1) /\ Rest(2)' = Rest(2)
         /\ \A q \in Procs : q # p => walk'[q] = walk[q]
         /\ walk'[p] = NoWalk => Rest(l) = <<>>
         /\ walk'[p] # NoWalk => walk'[p].list = l /\ list[l] # <<>>
         /\ walk'[p] = Begun(l) \/ walk'[p] = NoWalk
         /\ walk' \in [Procs -> [list : {1, 2}, out : Nat, del : Nat] \cup {NoWalk}]
<1> DEFINE x == Begun(l)
<1>1. /\ walk[p] = NoWalk /\ \A q \in Procs : walk[q].list # l
      /\ walk' = IF list[l] = <<>> THEN walk ELSE [walk EXCEPT ![p] = x]
      /\ list' = list
  BY DEF Entered
<1>2. walk \in [Procs -> [list : {1, 2}, out : Nat, del : Nat] \cup {NoWalk}] /\ list \in [{1, 2} -> Seq(Line)]
  BY DEF Lines, LogType
<1>3. x \in [list : {1, 2}, out : Nat, del : Nat] /\ x.list = l /\ x.out = 0 /\ x # NoWalk
  BY LogFacts DEF NoWalk, Begun
<1>4. NoWalk.list \notin {1, 2}
  BY LogFacts DEF NoWalk
<1> HIDE DEF x
<1>5. Rest(l) = list[l]
  BY <1>1, <1>2, RestNone, RestIs
<1>6. CASE list[l] = <<>>
  <2>1. walk' = walk
    BY <1>1, <1>6
  <2>2. Rest(1)' = Rest(1) /\ Rest(2)' = Rest(2)
    BY <1>1, <2>1 DEF Rest, Outputs, Walkers
  <2>3. QED
    BY <1>1, <1>2, <1>5, <1>6, <2>1, <2>2
<1>7. CASE list[l] # <<>>
  <2>1. walk'[p] = x /\ (\A q \in Procs : q # p => walk'[q] = walk[q])
        /\ walk' \in [Procs -> [list : {1, 2}, out : Nat, del : Nat] \cup {NoWalk}]
    BY <1>1, <1>2, <1>3, <1>7
  <2>2. RestOf(list, walk', l) = list[l]
    <3>1. Alone(walk', p, l)
      BY <1>1, <1>3, <2>1 DEF Alone
    <3>2. walk'[p].out = 0
      BY <1>3, <2>1
    <3>3. RestOf(list, walk', l) = SubSeq(list[l], walk'[p].out + 1, Len(list[l]))
      BY <1>2, <3>1, RestOne
    <3>4. walk'[p].out + 1 = 1 /\ list[l] \in Seq(Line)
      BY <1>2, <3>2
    <3>5. QED
      BY <3>3, <3>4, SubSeqFull
  <2>3. ASSUME NEW k \in {1, 2}, k # l PROVE RestOf(list, walk', k) = RestOf(list, walk, k)
    <3>1. \A q \in Procs : (walk'[q].list = k <=> walk[q].list = k)
                             /\ (walk[q].list = k => walk'[q].out = walk[q].out)
      BY <1>1, <1>3, <1>4, <2>1, <2>3
    <3>2. QED
      BY <3>1, RestSame
  <2>4. \A k \in {1, 2} : Rest(k)' = Rest(k)
    BY <1>1, <1>5, <2>2, <2>3, RestIs
  <2>5. QED
    BY <1>3, <1>7, <2>1, <2>4 DEF x
<1>8. QED
  BY <1>6, <1>7

\* A thread that enters a list: LogThread the read list, another thread, which
\* is to die, the one after the other.
LEMMA EnterStep ==
  ASSUME Lines, NEW p \in Procs, NEW l \in {1, 2}, Entered(p, l), NEW to \in Steps,
         pc' = [pc EXCEPT ![p] = to],
         \/ p = Logger /\ l = reads /\ pc[p] = "read" /\ to = "flush"
         \/ p \in Readers /\ l = reads /\ pc[p] = "flush reads" /\ to = "flush writes"
         \/ p \in Readers /\ l = writes /\ pc[p] = "flush writes" /\ to = "fsync"
  PROVE  Lines'
<1>1. /\ walk[p] = NoWalk /\ (\A q \in Procs : walk[q].list # l)
      /\ UNCHANGED <<list, reads, writes, file, dropped, sent, made>>
  BY DEF Entered
<1>2. /\ Rest(1)' = Rest(1) /\ Rest(2)' = Rest(2)
      /\ \A q \in Procs : q # p => walk'[q] = walk[q]
      /\ walk'[p] = NoWalk => Rest(l) = <<>>
      /\ walk'[p] # NoWalk => walk'[p].list = l /\ list[l] # <<>>
      /\ walk'[p] = Begun(l) \/ walk'[p] = NoWalk
      /\ walk' \in [Procs -> [list : {1, 2}, out : Nat, del : Nat] \cup {NoWalk}]
  BY EnteredFacts
<1>3. pc \in [Procs -> Steps] /\ pc' \in [Procs -> Steps] /\ pc'[p] = to
      /\ \A q \in Procs : q # p => pc'[q] = pc[q]
  BY DEF Lines, LogType
<1>4. /\ Logger \in Procs /\ Logger \notin Readers /\ (\A r \in Readers : r \in Procs /\ r # Logger)
      /\ NoWalk.list \notin {1, 2}
  BY LogFacts DEF NoWalk
<1>5. \A k \in {1, 2} : Rest(k)' = Rest(k)
  BY <1>2
<1>6. Rest(reads)' = Rest(reads) /\ Rest(writes)' = Rest(writes)
  BY <1>1, <1>5 DEF Lines, LogType
<1>7. LogType'
  BY <1>1, <1>2, <1>3 DEF Lines, LogType
<1>8. Walking'
  <2>1. ASSUME NEW q \in Procs, walk'[q] # NoWalk
        PROVE  /\ walk'[q].out = walk'[q].del \/ walk'[q].out = walk'[q].del + 1
               /\ walk'[q].del < Len(list[walk'[q].list])
               /\ \A o \in Procs : walk'[o].list = walk'[q].list => o = q
    <3>1. CASE q = p
      <4>1. walk'[q].list = l /\ walk'[q].out = 0 /\ walk'[q].del = 0 /\ list[l] # <<>>
        <5>1. walk'[q] = Begun(l) /\ list[l] # <<>>
          BY <1>2, <2>1, <3>1
        <5>2. Begun(l).list = l /\ Begun(l).out = 0 /\ Begun(l).del = 0
          BY DEF Begun
        <5>3. QED
          BY <5>1, <5>2
      <4>2. Len(list[l]) > 0
        BY <4>1, LogFacts
      <4>3. \A o \in Procs : walk'[o].list = l => o = p
        BY <1>1, <1>2
      <4>4. QED
        BY <3>1, <4>1, <4>2, <4>3
    <3>2. CASE q # p
      <4>1. walk'[q] = walk[q] /\ walk[q] # NoWalk /\ walk[q].list # l /\ walk[q].list \in {1, 2}
        BY <1>1, <1>2, <2>1, <3>2, LogFacts
      <4>2. walk'[p].list # walk[q].list
        BY <1>2, <1>4, <4>1
      <4>3. /\ walk[q].out = walk[q].del \/ walk[q].out = walk[q].del + 1
            /\ walk[q].del < Len(list[walk[q].list])
            /\ \A a \in Procs : walk[a].list = walk[q].list => a = q
        BY <4>1 DEF Lines, Walking
      <4>4. \A a \in Procs : walk'[a].list = walk[q].list => a = q
        BY <1>2, <4>2, <4>3
      <4>5. QED
        BY <4>1, <4>3, <4>4
    <3>3. QED
      BY <3>1, <3>2
  <2>2. walk'[Logger] # NoWalk => pc'[Logger] = "flush" /\ walk'[Logger].list = reads
    BY <1>2, <1>3, <1>4 DEF Lines, Walking
  <2>3. \A r \in Readers : walk'[r] # NoWalk => pc'[r] \in {"flush writes", "fsync"}
    BY <1>2, <1>3, <1>4 DEF Lines, Walking
  <2>4. QED
    BY <1>1, <2>1, <2>2, <2>3 DEF Walking
<1>9. Once'
  BY <1>1, <1>2 DEF Lines, Once
<1>10. Numbered'
  <2>1. ASSUME NEW line \in Range(sent)
        PROVE  pc'[line.by] \in {"finish", "send"} => pc[line.by] \in {"finish", "send"}
    <3>1. line \in Line
      BY RangeElement DEF Lines, LogType
    <3>2. line.by \in Procs
      BY <3>1 DEF Line, Procs
    <3>3. QED
      BY <1>3, <3>2
  <2>2. QED
    BY <1>1, <2>1 DEF Lines, Numbered
<1>11. Ordered'
  <2>1. ~Flushing' => ~Flushing
    BY <1>3, <1>4 DEF Flushing
  <2>2. All' = All /\ sent' = sent
    BY <1>1, <1>6 DEF All
  <2>3. QED
    BY <2>1, <2>2, KeepOrder DEF Lines
<1>12. DueCovered'
  <2>1. ASSUME NEW r \in Readers, NEW k \in {1, 2}, Dying(r)', Due(r)' \cap Range(Rest(k)') # {}
        PROVE  Covered(r, k)'
    <3>1. Due(r) \cap Range(Rest(k)) # {} /\ Rest(k) # <<>>
      <4>1. Due(r)' = Due(r) /\ Rest(k)' = Rest(k)
        BY <1>1, <1>5 DEF Due, Current
      <4>2. QED
        BY <2>1, <4>1, RangeEmpty
    <3>2. k = l => walk'[p].list = l
      BY <1>2, <3>1
    <3>3. CASE r = p /\ pc[p] = "flush reads"
      BY <1>1, <1>3, <1>4, <3>2, <3>3, LogFacts DEF Covered
    <3>4. CASE ~(r = p /\ pc[p] = "flush reads")
      <4>1. Dying(r)
        BY <1>3, <1>4, <2>1, <3>4 DEF Dying
      <4>2. Covered(r, k)
        BY <3>1, <4>1 DEF Lines, DueCovered
      <4>3. CASE pc[r] = "flush writes" /\ k = writes
        BY <1>1, <1>3, <1>4, <3>2, <4>3 DEF Covered
      <4>4. CASE walk[r].list = k
        BY <1>1, <1>2, <1>4, <4>4 DEF Covered
      <4>5. CASE k = reads /\ (pc[Logger] = "read" \/ walk[Logger].list = k)
        BY <1>1, <1>2, <1>3, <1>4, <3>2, <4>5 DEF Covered
      <4>6. QED
        BY <4>2, <4>3, <4>4, <4>5 DEF Covered
    <3>5. QED
      BY <3>3, <3>4
  <2>2. QED
    BY <2>1 DEF DueCovered
<1>13. QED
  BY <1>7, <1>8, <1>9, <1>10, <1>11, <1>12 DEF Lines

LEMMA EnterIs ==
  ASSUME NEW p \in Procs, NEW l, Enter(p, l), process' # "undefined", process = "runs",
         walk[p] = NoWalk
  PROVE  Entered(p, l)
<1>1. /\ Walkers(l) = {}
      /\ walk' = IF list[l] = <<>> THEN walk ELSE [walk EXCEPT ![p] = Begun(l)]
      /\ UNCHANGED <<lists, disk, message>>
  BY DEF Enter, Undefined, Begun
<1>2. \A q \in Procs : walk[q].list # l
  BY <1>1 DEF Walkers
<1>3. QED
  BY <1>1, <1>2 DEF Entered, lists, disk, message

LEMMA FlushingStep ==
  ASSUME Lines, process' # "undefined",
         ReadList \/ \E r \in Readers : FlushReads(r) \/ FlushWrites(r)
  PROVE  Lines'
<1>1. CASE ReadList
  <2>1. /\ process = "runs" /\ pc[Logger] = "read" /\ walk[Logger] = NoWalk
        /\ pc' = [pc EXCEPT ![Logger] = "flush"] /\ Enter(Logger, reads)
    BY <1>1 DEF ReadList, Goto
  <2>2. Logger \in Procs /\ reads \in {1, 2} /\ "flush" \in Steps
    BY LogFacts DEF Steps
  <2>3. Entered(Logger, reads)
    BY <2>1, <2>2, EnterIs
  <2>4. QED
    BY <2>1, <2>2, <2>3, EnterStep
<1>2. ASSUME NEW r \in Readers, FlushReads(r) PROVE Lines'
  <2>1. /\ process = "runs" /\ pc[r] = "flush reads" /\ walk[r] = NoWalk
        /\ pc' = [pc EXCEPT ![r] = "flush writes"] /\ Enter(r, reads)
    BY <1>2 DEF FlushReads, Goto
  <2>2. r \in Procs /\ reads \in {1, 2} /\ "flush writes" \in Steps
    BY LogFacts DEF Steps
  <2>3. Entered(r, reads)
    BY <2>1, <2>2, EnterIs
  <2>4. QED
    BY <2>1, <2>2, <2>3, EnterStep
<1>3. ASSUME NEW r \in Readers, FlushWrites(r) PROVE Lines'
  <2>1. /\ process = "runs" /\ pc[r] = "flush writes" /\ walk[r] = NoWalk
        /\ pc' = [pc EXCEPT ![r] = "fsync"] /\ Enter(r, writes)
    BY <1>3 DEF FlushWrites, Goto
  <2>2. r \in Procs /\ writes \in {1, 2} /\ "fsync" \in Steps
    BY LogFacts DEF Steps
  <2>3. Entered(r, writes)
    BY <2>1, <2>2, EnterIs
  <2>4. QED
    BY <2>1, <2>2, <2>3, EnterStep
<1>4. QED
  BY <1>1, <1>2, <1>3

----------------------------------------------------------------------------
\* The swap: the read list is empty, and nobody walks it.
LEMMA TimeoutStep ==
  ASSUME Lines, Timeout
  PROVE  Lines'
<1>1. /\ pc[Logger] = "idle" /\ walk[Logger] = NoWalk /\ pc' = [pc EXCEPT ![Logger] = "read"]
      /\ UNCHANGED <<list, walk, file, dropped, sent, made>>
      /\ \/ list[reads] = <<>> /\ reads' = writes /\ writes' = 3 - writes
         \/ reads' = reads /\ writes' = writes
  BY DEF Timeout, Goto, disk, message
<1>2. /\ Logger \in Procs /\ Logger \notin Readers /\ (\A r \in Readers : r \in Procs /\ r # Logger)
      /\ NoWalk.list \notin {1, 2}
      /\ reads \in {1, 2} /\ writes \in {1, 2} /\ reads # writes
      /\ \A l \in {1, 2} : l = reads \/ l = writes
  BY LogFacts DEF NoWalk
<1>3. (reads' = writes /\ writes' = reads /\ list[reads] = <<>>) \/ (reads' = reads /\ writes' = writes)
  <2>1. 3 - writes = reads
    BY <1>2
  <2>2. QED
    BY <1>1, <2>1
<1>4. pc \in [Procs -> Steps] /\ pc' \in [Procs -> Steps] /\ pc'[Logger] = "read"
      /\ \A r \in Readers : pc'[r] = pc[r]
  BY <1>1, <1>2 DEF Lines, LogType, Steps
<1>5. \A l \in {1, 2} : Rest(l)' = Rest(l)
  BY <1>1 DEF Rest, Outputs, Walkers
<1>6. LogType'
  BY <1>1, <1>2, <1>3, <1>4 DEF Lines, LogType
<1>7. Walking'
  BY <1>1, <1>2, <1>4 DEF Lines, Walking
<1>8. Once'
  BY <1>1, <1>5 DEF Lines, Once
<1>9. Numbered'
  <2>1. ASSUME NEW line \in Range(sent) PROVE pc'[line.by] = pc[line.by]
    <3>1. line \in Line
      BY RangeElement DEF Lines, LogType
    <3>2. line.by \in Readers
      BY <3>1 DEF Line
    <3>3. QED
      BY <1>4, <3>2
  <2>2. QED
    BY <1>1, <2>1 DEF Lines, Numbered
<1>10. list[reads] = <<>> => Rest(reads) = <<>>
  <2>1. ASSUME list[reads] = <<>> PROVE Walkers(reads) = {}
    <3>1. \A p \in Procs : walk[p].list # reads
      BY <1>2, <2>1, LogFacts
    <3>2. QED
      BY <3>1 DEF Walkers
  <2>2. QED
    BY <1>2, <2>1, LogFacts
<1>11. Ordered'
  <2>1. ~Flushing' => ~Flushing
    BY <1>4 DEF Flushing
  <2>2. All' = All
    <3>1. CASE reads' = writes /\ writes' = reads /\ list[reads] = <<>>
      <4>1. /\ Rest(reads) = <<>> /\ Rest(writes) \in Seq(Line) /\ file \in Seq(Line)
            /\ file \o Rest(writes) \in Seq(Line)
        BY <1>2, <1>10, <3>1, LogFacts DEF Lines, LogType
      <4>2. All = (file \o <<>>) \o Rest(writes) /\ file \o <<>> = file
        BY <4>1, ConcatEmptySeq DEF All
      <4>3. Rest(reads)' = Rest(writes) /\ Rest(writes)' = Rest(reads)
        BY <1>2, <1>5, <3>1
      <4>4. All' = (file \o Rest(writes)) \o <<>>
        BY <1>1, <4>1, <4>3 DEF All
      <4>5. QED
        BY <4>1, <4>2, <4>4, ConcatEmptySeq
    <3>2. CASE reads' = reads /\ writes' = writes
      BY <1>1, <1>2, <1>5, <3>2 DEF All
    <3>3. QED
      BY <1>3, <3>1, <3>2
  <2>3. QED
    BY <1>1, <2>1, <2>2, KeepOrder DEF Lines
<1>12. DueCovered'
  <2>1. ASSUME NEW r \in Readers, NEW k \in {1, 2}, Dying(r)', Due(r)' \cap Range(Rest(k)') # {}
        PROVE  Covered(r, k)'
    <3>1. Due(r)' = Due(r) /\ Rest(k)' = Rest(k) /\ (Dying(r)' <=> Dying(r))
      <4>1. Due(r)' = Due(r)
        BY <1>1 DEF Due, Current
      <4>2. Dying(r)' <=> Dying(r)
        BY <1>4 DEF Dying
      <4>3. QED
        BY <1>5, <4>1, <4>2
    <3>2. Rest(k) # <<>>
      BY <2>1, <3>1, RangeEmpty
    <3>3. Covered(r, k)
      BY <2>1, <3>1 DEF Lines, DueCovered
    <3>4. walk[r].list = k \/ (pc[r] = "flush writes" /\ k = writes)
      BY <1>1, <1>2, <3>3 DEF Covered
    <3>5. CASE walk[r].list = k
      BY <1>1, <3>5 DEF Covered
    <3>6. CASE pc[r] = "flush writes" /\ k = writes
      BY <1>1, <1>3, <1>4, <3>6 DEF Covered
    <3>7. QED
      BY <3>4, <3>5, <3>6
  <2>2. QED
    BY <2>1 DEF DueCovered
<1>13. QED
  BY <1>6, <1>7, <1>8, <1>9, <1>11, <1>12 DEF Lines

----------------------------------------------------------------------------
LEMMA SendStep ==
  ASSUME Lines, NEW r \in Readers, Send(r), process' # "undefined"
  PROVE  Lines'
<1> DEFINE x == Current(r)
<1>1. /\ pc[r] = "send" /\ walk[r] = NoWalk
      /\ (pc' = [pc EXCEPT ![r] = "stack"] \/ pc' = [pc EXCEPT ![r] = "idle"])
      /\ Walkers(writes) = {}
      /\ list' = [list EXCEPT ![writes] = Append(list[writes], x)] /\ sent' = Append(sent, x)
      /\ UNCHANGED <<reads, writes, walk, file, dropped, made>>
  BY DEF Send, Goto, Undefined, disk
<1>2. /\ Logger \in Procs /\ Logger \notin Readers /\ (\A q \in Readers : q \in Procs /\ q # Logger)
      /\ reads \in {1, 2} /\ writes \in {1, 2} /\ reads # writes
      /\ \A l \in {1, 2} : l = reads \/ l = writes
  BY LogFacts
<1>3. list \in [{1, 2} -> Seq(Line)] /\ list[writes] \in Seq(Line) /\ sent \in Seq(Line) /\ file \in Seq(Line)
      /\ made \in [Readers -> Nat] /\ dropped \subseteq Line
  BY <1>2 DEF Lines, LogType
<1>4. x \in Line /\ x.by = r /\ x.n = made[r]
  BY <1>3 DEF Current, Line
<1>5. x \notin Range(sent)
  <2>1. x \in Range(sent) => x.n < made[x.by]
    BY <1>1, <1>4 DEF Lines, Numbered
  <2>2. ~(x.n < made[x.by])
    BY <1>3, <1>4
  <2>3. QED
    BY <2>1, <2>2
<1> HIDE DEF x
<1>6. pc \in [Procs -> Steps] /\ pc' \in [Procs -> Steps] /\ pc'[r] \in {"stack", "idle"}
      /\ \A q \in Procs : q # r => pc'[q] = pc[q]
  BY <1>1, <1>2 DEF Lines, LogType, Steps
<1>7. \A p \in Procs : walk[p].list # writes
  BY <1>1 DEF Walkers
<1>8. /\ list' \in [{1, 2} -> Seq(Line)] /\ list'[reads] = list[reads]
      /\ list'[writes] = Append(list[writes], x)
  <2>1. Append(list[writes], x) \in Seq(Line)
    BY <1>3, <1>4, AppendProperties
  <2>2. QED
    BY <1>1, <1>2, <1>3, <2>1
<1>9. Rest(writes) = list[writes] /\ Rest(writes) \in Seq(Line) /\ Rest(reads) \in Seq(Line)
  BY <1>1, <1>2, LogFacts
<1>10. Rest(writes)' = Append(Rest(writes), x)
  <2>1. RestOf(list', walk, writes) = list'[writes]
    BY <1>2, <1>7, <1>8, RestNone
  <2>2. QED
    BY <1>1, <1>8, <1>9, <2>1, RestIs
<1>11. Rest(reads)' = Rest(reads)
  <2>1. RestOf(list', walk, reads) = RestOf(list, walk, reads)
    BY <1>8, RestSame
  <2>2. QED
    BY <1>1, <2>1, RestIs
<1>12. LogType'
  <2>1. Append(sent, x) \in Seq(Line)
    BY <1>3, <1>4, AppendProperties
  <2>2. QED
    BY <1>1, <1>6, <1>8, <2>1 DEF Lines, LogType
<1>13. Walking'
  <2>1. ASSUME NEW p \in Procs, walk[p] # NoWalk PROVE list'[walk[p].list] = list[walk[p].list]
    <3>1. walk[p].list \in {1, 2} /\ walk[p].list # writes
      BY <1>7, <2>1, LogFacts
    <3>2. QED
      BY <1>2, <1>8, <3>1
  <2>2. \A q \in Procs : walk[q] # NoWalk => pc'[q] = pc[q]
    BY <1>1, <1>6
  <2>3. ASSUME NEW p \in Procs, walk[p] # NoWalk
        PROVE  /\ walk[p].out = walk[p].del \/ walk[p].out = walk[p].del + 1
               /\ walk[p].del < Len(list'[walk[p].list])
               /\ \A q \in Procs : walk[q].list = walk[p].list => q = p
    BY <2>1, <2>3 DEF Lines, Walking
  <2>4. walk[Logger] # NoWalk => pc'[Logger] = "flush" /\ walk[Logger].list = reads
    BY <1>2, <2>2 DEF Lines, Walking
  <2>5. \A q \in Readers : walk[q] # NoWalk => pc'[q] \in {"flush writes", "fsync"}
    BY <1>2, <2>2 DEF Lines, Walking
  <2>6. QED
    BY <1>1, <2>3, <2>4, <2>5 DEF Walking
<1>14. \/ Range(Rest(1)) = Range(Rest(reads)) /\ Range(Rest(2)) = Range(Rest(writes)) /\ reads = 1 /\ writes = 2
       \/ Range(Rest(2)) = Range(Rest(reads)) /\ Range(Rest(1)) = Range(Rest(writes)) /\ reads = 2 /\ writes = 1
  BY <1>2
<1>15. /\ Range(sent') = Range(sent) \cup {x} /\ IsInjective(sent')
       /\ Range(Rest(writes)') = Range(Rest(writes)) \cup {x} /\ IsInjective(Rest(writes)')
       /\ x \notin Range(file) /\ x \notin dropped /\ x \notin Range(Rest(reads)) /\ x \notin Range(Rest(writes))
  <2>1. /\ x \notin Range(file) /\ x \notin dropped /\ x \notin Range(Rest(reads)) /\ x \notin Range(Rest(writes))
        /\ IsInjective(sent) /\ IsInjective(Rest(writes))
    BY <1>2, <1>5, <1>14 DEF Lines, Once
  <2>2. QED
    BY <1>1, <1>3, <1>4, <1>5, <1>9, <1>10, <2>1, RangeAppend
<1>16. Once'
  <2>1. Once
    BY DEF Lines
  <2>2. file' = file /\ dropped' = dropped
    BY <1>1
  <2>3. CASE reads = 1 /\ writes = 2
    <3>1. Rest(1)' = Rest(1) /\ Range(Rest(2)') = Range(Rest(2)) \cup {x} /\ IsInjective(Rest(2)')
          /\ x \notin Range(Rest(1))
      BY <1>1, <1>11, <1>15, <2>3
    <3>2. QED
      BY <1>15, <2>1, <2>2, <3>1 DEF Once
  <2>4. CASE reads = 2 /\ writes = 1
    <3>1. Rest(2)' = Rest(2) /\ Range(Rest(1)') = Range(Rest(1)) \cup {x} /\ IsInjective(Rest(1)')
          /\ x \notin Range(Rest(2))
      BY <1>1, <1>11, <1>15, <2>4
    <3>2. QED
      BY <1>15, <2>1, <2>2, <3>1 DEF Once
  <2>5. QED
    BY <1>14, <2>3, <2>4
<1>17. Numbered'
  <2>1. ASSUME NEW line \in Range(sent)
        PROVE  /\ line.n <= made[line.by]
               /\ pc'[line.by] \in {"finish", "send"} => line.n < made[line.by]
    <3>1. line \in Line
      BY <1>3, RangeElement
    <3>2. line.by \in Procs
      BY <3>1 DEF Line, Procs
    <3>3. pc'[line.by] \in {"finish", "send"} => pc[line.by] \in {"finish", "send"}
      BY <1>6, <3>2
    <3>4. QED
      BY <3>3 DEF Lines, Numbered
  <2>2. x.n <= made[x.by] /\ pc'[x.by] \notin {"finish", "send"}
    BY <1>3, <1>4, <1>6
  <2>3. QED
    BY <1>1, <1>15, <2>1, <2>2 DEF Numbered
<1>18. All' = Append(All, x) /\ All \in Seq(Line) /\ Range(All) \subseteq Range(sent)
  <2> DEFINE q == file \o Rest(reads)
  <2>1. q \in Seq(Line) /\ Range(q) = Range(file) \cup Range(Rest(reads))
    BY <1>3, <1>9, RangeConcat
  <2> HIDE DEF q
  <2>2. q \o Rest(writes) \in Seq(Line) /\ Range(q \o Rest(writes)) = Range(q) \cup Range(Rest(writes))
    BY <1>9, <2>1, RangeConcat
  <2>3. q \o Append(Rest(writes), x) = Append(q \o Rest(writes), x)
    BY <1>4, <1>9, <2>1, ConcatAppend
  <2>4. All = q \o Rest(writes) /\ All' = q \o Append(Rest(writes), x)
    BY <1>1, <1>10, <1>11 DEF All, q
  <2>5. Range(All) \subseteq Range(sent)
    BY <1>14, <2>1, <2>2, <2>4 DEF Lines, Once
  <2>6. QED
    BY <2>2, <2>3, <2>4, <2>5
<1>19. Ordered'
  <2>1. ~Flushing' => ~Flushing
    BY <1>1, <1>2, <1>6 DEF Flushing
  <2>2. ~Flushing => InOrderOf(All, sent)
    BY DEF Lines, Ordered
  <2>3. ~Flushing' => InOrderOf(Append(All, x), Append(sent, x))
    BY <1>3, <1>4, <1>18, <2>1, <2>2, OrderAppend
  <2>4. QED
    BY <1>1, <1>18, <2>3, NewOrder
<1>20. DueCovered'
  <2>1. ASSUME NEW q \in Readers, NEW k \in {1, 2}, Dying(q)', Due(q)' \cap Range(Rest(k)') # {}
        PROVE  Covered(q, k)'
    <3>1. q # r /\ q \in Procs /\ Dying(q) /\ pc'[q] = pc[q]
      BY <1>2, <1>6, <2>1 DEF Dying
    <3>2. Current(q)' = Current(q) /\ Current(q) # x
      BY <1>1, <1>4, <3>1 DEF Current
    <3>3. /\ Len(sent') = Len(sent) + 1 /\ Len(sent) \in Nat
          /\ \A i \in 1..Len(sent) : sent'[i] = sent[i]
          /\ sent'[Len(sent) + 1] = x
      BY <1>1, <1>3, <1>4, AppendProperties
    <3>4. Due(q)' \subseteq Due(q) /\ x \notin Due(q)
      <4>1. ASSUME NEW i \in 1..Len(sent'), NEW j \in i..Len(sent'), sent'[j] = Current(q)
            PROVE  i \in 1..Len(sent) /\ j \in i..Len(sent) /\ sent'[i] = sent[i] /\ sent[j] = Current(q)
        <5>1. j # Len(sent) + 1
          BY <3>2, <3>3, <4>1
        <5>2. i \in 1..Len(sent) /\ j \in i..Len(sent) /\ j \in 1..Len(sent)
          BY <3>3, <4>1, <5>1
        <5>3. QED
          BY <3>3, <4>1, <5>2
      <4>2. Due(q)' = {sent'[i] : i \in {k1 \in 1..Len(sent') : \E j \in k1..Len(sent') : sent'[j] = Current(q)}}
        BY <3>2 DEF Due
      <4>3. Due(q)' \subseteq Due(q)
        <5>1. ASSUME NEW i \in 1..Len(sent'), \E j \in i..Len(sent') : sent'[j] = Current(q)
              PROVE  sent'[i] \in Due(q)
          BY <4>1, <5>1 DEF Due
        <5>2. QED
          BY <4>2, <5>1
      <4>4. Due(q) \subseteq Range(sent)
        BY <1>3, RangeElement DEF Due
      <4>5. QED
        BY <1>5, <4>3, <4>4
    <3>5. Due(q) \cap Range(Rest(k)) # {}
      <4>1. CASE k = reads
        BY <1>1, <1>11, <2>1, <3>4, <4>1
      <4>2. CASE k = writes
        BY <1>1, <1>15, <2>1, <3>4, <4>2
      <4>3. QED
        BY <1>2, <4>1, <4>2
    <3>6. Covered(q, k)
      BY <3>1, <3>5 DEF Lines, DueCovered
    <3>7. pc'[Logger] = pc[Logger]
      BY <1>2, <1>6
    <3>8. QED
      BY <1>1, <3>1, <3>6, <3>7 DEF Covered
  <2>2. QED
    BY <2>1 DEF DueCovered
<1>21. QED
  BY <1>12, <1>13, <1>16, <1>17, <1>19, <1>20 DEF Lines

----------------------------------------------------------------------------
\* What a thread that walks a list has left to output.
LEMMA WalkFacts ==
  ASSUME Lines, NEW p \in Procs, walk[p] # NoWalk
  PROVE  /\ walk[p].list \in {1, 2} /\ walk[p].out \in Nat /\ walk[p].del \in Nat
         /\ walk[p].out = walk[p].del \/ walk[p].out = walk[p].del + 1
         /\ walk[p].del < Len(list[walk[p].list])
         /\ Alone(walk, p, walk[p].list)
         /\ Rest(walk[p].list) = SubSeq(list[walk[p].list], walk[p].out + 1, Len(list[walk[p].list]))
         /\ p = Logger => walk[p].list = reads /\ pc[p] = "flush"
         /\ p \in Readers => Dying(p) /\ pc[p] # "dead" /\ pc[p] # "abort"
         /\ p = Logger \/ p \in Readers
<1>1. walk[p].list \in {1, 2} /\ walk[p].out \in Nat /\ walk[p].del \in Nat
  BY LogFacts
<1>2. /\ walk[p].out = walk[p].del \/ walk[p].out = walk[p].del + 1
      /\ walk[p].del < Len(list[walk[p].list])
      /\ \A q \in Procs : walk[q].list = walk[p].list => q = p
      /\ p = Logger => walk[p].list = reads /\ pc[p] = "flush"
      /\ p \in Readers => pc[p] \in {"flush writes", "fsync"}
  BY DEF Lines, Walking
<1>3. Alone(walk, p, walk[p].list)
  BY <1>2 DEF Alone
<1>4. list \in [{1, 2} -> Seq(Line)]
  BY DEF Lines, LogType
<1>5. Rest(walk[p].list) = SubSeq(list[walk[p].list], walk[p].out + 1, Len(list[walk[p].list]))
  BY <1>3, <1>4, RestOne, RestIs
<1>6. QED
  BY <1>1, <1>2, <1>3, <1>5 DEF Dying, Procs

\* The step of a walk: walk[p] is replaced by x, in the same list or NoWalk.
Walked(p, x) ==
  /\ walk' = [walk EXCEPT ![p] = x]
  /\ UNCHANGED <<reads, writes, pc, sent, made>>

LEMMA WalkedFacts ==
  ASSUME Lines, NEW p \in Procs, walk[p] # NoWalk, NEW x, Walked(p, x),
         x \in [list : {1, 2}, out : Nat, del : Nat] \cup {NoWalk},
         x.list = walk[p].list \/ x = NoWalk
  PROVE  /\ walk' \in [Procs -> [list : {1, 2}, out : Nat, del : Nat] \cup {NoWalk}]
         /\ walk'[p] = x /\ \A q \in Procs : q # p => walk'[q] = walk[q]
         /\ \A q \in Procs : q # p => walk[q].list # walk[p].list
         /\ \A k \in {1, 2} : k # walk[p].list /\ list'[k] = list[k] => Rest(k)' = Rest(k)
<1>1. /\ walk' \in [Procs -> [list : {1, 2}, out : Nat, del : Nat] \cup {NoWalk}]
      /\ walk'[p] = x /\ \A q \in Procs : q # p => walk'[q] = walk[q]
  BY DEF Lines, LogType, Walked
<1>2. \A q \in Procs : q # p => walk[q].list # walk[p].list
  BY WalkFacts DEF Alone
<1>3. NoWalk.list \notin {1, 2} /\ walk[p].list \in {1, 2}
  BY LogFacts DEF NoWalk
<1>4. ASSUME NEW k \in {1, 2}, k # walk[p].list, list'[k] = list[k] PROVE Rest(k)' = Rest(k)
  <2>1. walk[p].list # k /\ x.list # k
    BY <1>3, <1>4
  <2>2. \A q \in Procs : (walk'[q].list = k <=> walk[q].list = k)
                           /\ (walk[q].list = k => walk'[q].out = walk[q].out)
    BY <1>1, <2>1
  <2>3. RestOf(list', walk', k) = RestOf(list, walk, k)
    BY <1>4, <2>2, RestSame
  <2>4. QED
    BY <2>3, RestIs
<1>5. QED
  BY <1>1, <1>2, <1>4

LEMMA OutputStep ==
  ASSUME Lines, NEW p \in Procs, Output(p)
  PROVE  Lines'
<1>0. PICK l, o, d, x, line, n :
        /\ l = walk[p].list /\ o = walk[p].out /\ d = walk[p].del
        /\ x = [walk[p] EXCEPT !.out = o + 1]
        /\ line = list[l][o + 1] /\ n = Len(list[l])
  OBVIOUS
<1>1. /\ walk[p] # NoWalk /\ o = d /\ Walked(p, x)
      /\ list' = list
      /\ \/ file' = Append(file, line) /\ dropped' = dropped
         \/ file' = file /\ dropped' = dropped \cup {line}
  BY <1>0 DEF Output, Walked, lists, message
<1>2. /\ l \in {1, 2} /\ o \in Nat /\ d \in Nat /\ d < n /\ Alone(walk, p, l)
      /\ Rest(l) = SubSeq(list[l], o + 1, n)
      /\ p = Logger => l = reads
      /\ p \in Readers => Dying(p)
      /\ p = Logger \/ p \in Readers
  BY <1>0, <1>1, WalkFacts
<1>3. list[l] \in Seq(Line) /\ n \in Nat /\ list \in [{1, 2} -> Seq(Line)]
      /\ file \in Seq(Line) /\ sent \in Seq(Line) /\ dropped \subseteq Line
  BY <1>0, <1>2, LogFacts DEF Lines, LogType
<1>4. x \in [list : {1, 2}, out : Nat, del : Nat] /\ x.list = l /\ x.out = o + 1 /\ x.del = d
  <2>1. walk[p] \in [list : {1, 2}, out : Nat, del : Nat]
    BY <1>1 DEF Lines, LogType
  <2>2. QED
    BY <1>0, <2>1
<1>5. /\ walk' \in [Procs -> [list : {1, 2}, out : Nat, del : Nat] \cup {NoWalk}]
      /\ walk'[p] = x /\ \A q \in Procs : q # p => walk'[q] = walk[q]
      /\ \A q \in Procs : q # p => walk[q].list # l
      /\ \A k \in {1, 2} : k # l => Rest(k)' = Rest(k)
  <2>1. x.list = walk[p].list /\ x \in [list : {1, 2}, out : Nat, del : Nat] \cup {NoWalk}
    BY <1>0, <1>4
  <2>2. /\ walk' \in [Procs -> [list : {1, 2}, out : Nat, del : Nat] \cup {NoWalk}]
        /\ walk'[p] = x /\ \A q \in Procs : q # p => walk'[q] = walk[q]
    BY <1>1, <2>1, WalkedFacts
  <2>3. \A q \in Procs : q # p => walk[q].list # walk[p].list
    BY <1>1, <2>1, WalkedFacts
  <2>4. \A k \in {1, 2} : k # walk[p].list /\ list'[k] = list[k] => Rest(k)' = Rest(k)
    BY <1>1, <2>1, WalkedFacts
  <2>5. QED
    BY <1>0, <1>1, <2>2, <2>3, <2>4
<1>6. UNCHANGED <<reads, writes, pc, sent, made>>
  BY <1>1 DEF Walked
<1>7. o + 1 \in 1..n
  BY <1>1, <1>2, <1>3
<1>8. Rest(l) # <<>> /\ Head(Rest(l)) = line /\ Rest(l)' = Tail(Rest(l)) /\ line \in Line
  <2>1. n \in (o + 1)..n /\ n = Len(list[l])
    BY <1>0, <1>3, <1>7
  <2>2. Head(SubSeq(list[l], o + 1, n)) = list[l][o + 1]
        /\ Tail(SubSeq(list[l], o + 1, n)) = SubSeq(list[l], (o + 1) + 1, n)
    BY <1>3, <1>7, <2>1, HeadTailOfSubSeq
  <2>3. SubSeq(list[l], o + 1, n) = <<list[l][o + 1]>> \o SubSeq(list[l], (o + 1) + 1, n)
    BY <1>3, <1>7, <2>1, SubSeqRecursiveFirst
  <2>4. Alone(walk', p, l)
    BY <1>4, <1>5 DEF Alone
  <2>5. RestOf(list, walk', l) = SubSeq(list[l], walk'[p].out + 1, n)
    BY <1>3, <2>1, <2>4, RestOne
  <2>6. Rest(l)' = SubSeq(list[l], (o + 1) + 1, n)
    BY <1>1, <1>4, <1>5, <2>5, RestIs
  <2>7. line \in Line /\ line = list[l][o + 1]
    BY <1>0, <1>3, <1>7, ElementOfSeq
  <2>8. Rest(l) # <<>>
    <3>1. Len(SubSeq(list[l], o + 1, n)) = n - (o + 1) + 1
      <4>1. \A i \in (o + 1)..n : list[l][i] \in Line
        <5>1. ASSUME NEW i \in (o + 1)..n PROVE i \in 1..Len(list[l])
          BY <1>2, <1>3, <2>1
        <5>2. QED
          BY <1>3, <5>1, ElementOfSeq
      <4>2. o + 1 \in Int /\ n \in Int /\ o + 1 <= n
        BY <1>2, <1>3, <1>7
      <4>3. QED
        BY <4>1, <4>2, SubSeqProperties
    <3>2. n - (o + 1) + 1 # 0
      BY <1>2, <1>3, <1>7
    <3>3. QED
      BY <1>2, <3>1, <3>2, EmptySeq
  <2>9. QED
    BY <1>2, <2>2, <2>6, <2>7, <2>8
<1>9. \A k \in {1, 2} : Rest(k) \in Seq(Line)
  BY LogFacts
<1>10. /\ Range(Rest(l)') = Range(Rest(l)) \ {line} /\ IsInjective(Rest(l)') /\ line \in Range(Rest(l))
       /\ line \notin Range(file) /\ line \notin dropped
  <2>1. IsInjective(Rest(l)) /\ Range(Rest(l)) \cap (Range(file) \cup dropped) = {}
    BY <1>2 DEF Lines, Once
  <2> DEFINE t == Rest(l)
  <2>2. /\ t \in Seq(Line) /\ t # <<>> /\ IsInjective(t) /\ Head(t) = line
        /\ Range(t) \cap (Range(file) \cup dropped) = {} /\ Rest(l)' = Tail(t)
    BY <1>2, <1>8, <1>9, <2>1
  <2> HIDE DEF t
  <2>3. Range(Tail(t)) = Range(t) \ {line} /\ IsInjective(Tail(t)) /\ line \in Range(t)
    BY <2>2, InjectiveTail
  <2>4. line \notin Range(file) /\ line \notin dropped
    BY <2>2, <2>3
  <2>5. QED
    BY <2>2, <2>3, <2>4 DEF t
<1>11. /\ Range(file') \cup dropped' = Range(file) \cup dropped \cup {line}
       /\ Range(file') \cap dropped' = {} /\ IsInjective(file') /\ file' \in Seq(Line)
       /\ dropped' \subseteq Line
  <2>1. IsInjective(file) /\ Range(file) \cap dropped = {}
    BY DEF Lines, Once
  <2>2. Append(file, line) \in Seq(Line) /\ Range(Append(file, line)) = Range(file) \cup {line}
        /\ IsInjective(Append(file, line))
    BY <1>3, <1>8, <1>10, <2>1, RangeAppend
  <2>3. QED
    BY <1>1, <1>3, <1>8, <1>10, <2>1, <2>2
<1>12. LogType'
  BY <1>1, <1>5, <1>6, <1>11 DEF Lines, LogType
<1>13. Walking'
  <2>1. ASSUME NEW q \in Procs, walk'[q] # NoWalk
        PROVE  /\ walk[q] # NoWalk /\ walk'[q].list = walk[q].list /\ walk'[q].del = walk[q].del
               /\ walk'[q].out = walk[q].out \/ (q = p /\ walk'[q].out = d + 1)
    BY <1>0, <1>1, <1>4, <1>5, <2>1
  <2>2. ASSUME NEW q \in Procs, walk'[q] # NoWalk
        PROVE  /\ walk'[q].out = walk'[q].del \/ walk'[q].out = walk'[q].del + 1
               /\ walk'[q].del < Len(list[walk'[q].list])
               /\ \A a \in Procs : walk'[a].list = walk'[q].list => a = q
    <3>1. /\ walk[q].out = walk[q].del \/ walk[q].out = walk[q].del + 1
          /\ walk[q].del < Len(list[walk[q].list])
          /\ \A a \in Procs : walk[a].list = walk[q].list => a = q
      BY <2>1, <2>2 DEF Lines, Walking
    <3>2. \A a \in Procs : walk'[a].list = walk[a].list
      BY <1>0, <1>4, <1>5
    <3>3. QED
      BY <1>0, <1>1, <2>1, <2>2, <3>1, <3>2
  <2>3. Logger \in Procs /\ \A r \in Readers : r \in Procs
    BY LogFacts
  <2>4. QED
    BY <1>1, <1>6, <2>1, <2>2, <2>3 DEF Lines, Walking
<1>14. Once'
  <2>1. CASE l = 1
    <3>1. Rest(2)' = Rest(2)
      BY <1>5, <2>1
    <3>2. QED
      BY <1>6, <1>10, <1>11, <2>1, <3>1 DEF Lines, Once
  <2>2. CASE l = 2
    <3>1. Rest(1)' = Rest(1)
      BY <1>5, <2>2
    <3>2. QED
      BY <1>6, <1>10, <1>11, <2>2, <3>1 DEF Lines, Once
  <2>3. QED
    BY <1>2, <2>1, <2>2
<1>15. Numbered'
  BY <1>6 DEF Lines, Numbered
<1>16. Ordered'
  <2>1. ASSUME ~Flushing' PROVE InOrderOf(All', sent')
    <3>1. ~Flushing /\ l = reads
      BY <1>2, <1>6, <2>1 DEF Flushing, Dying
    <3>2. reads \in {1, 2} /\ writes \in {1, 2} /\ writes # l
      BY <3>1, LogFacts
    <3>3. Rest(reads)' = Tail(Rest(reads)) /\ Rest(writes)' = Rest(writes)
      <4>1. \A k \in {1, 2} : k = l => Rest(k)' = Tail(Rest(k))
        BY <1>8
      <4>2. \A k \in {1, 2} : k # l => Rest(k)' = Rest(k)
        BY <1>5
      <4>3. reads' = reads /\ writes' = writes
        BY <1>6
      <4>4. QED
        BY <3>1, <3>2, <4>1, <4>2, <4>3
    <3>4. InOrderOf(All, sent)
      BY <3>1 DEF Lines, Ordered
    <3> DEFINE q == Rest(reads)
               u == Rest(writes)
    <3>5. q \in Seq(Line) /\ u \in Seq(Line) /\ q # <<>> /\ Head(q) = line
      BY <1>8, <1>9, <3>1, <3>2
    <3>8. All = file \o q \o u /\ All' = file' \o Tail(q) \o u
      BY <3>3 DEF All
    <3> HIDE DEF q, u
    <3>9. /\ Append(file, Head(q)) \o Tail(q) \o u = file \o q \o u
          /\ InOrderOf(file \o q \o u, sent) => InOrderOf(file \o Tail(q) \o u, sent)
      <4>1. file \in Seq(Line)
        BY <1>3
      <4>2. Append(file, Head(q)) \o Tail(q) \o u = file \o q \o u
        BY <3>5, <4>1, MoveHead
      <4>3. InOrderOf(file \o q \o u, sent) => InOrderOf(file \o Tail(q) \o u, sent)
        BY <3>5, <4>1, DropHead
      <4>4. QED
        BY <4>2, <4>3
    <3>10. sent' = sent
      BY <1>6
    <3>11. CASE file' = Append(file, line)
      BY <3>4, <3>5, <3>8, <3>9, <3>10, <3>11
    <3>12. CASE file' = file
      BY <3>4, <3>8, <3>9, <3>10, <3>12
    <3>13. QED
      BY <1>1, <3>11, <3>12
  <2>2. QED
    BY <2>1, NewOrder
<1>17. DueCovered'
  <2>1. ASSUME NEW r \in Readers, NEW k \in {1, 2}, Dying(r)', Due(r)' \cap Range(Rest(k)') # {}
        PROVE  Covered(r, k)'
    <3>1. Due(r)' = Due(r)
      BY <1>6 DEF Due, Current
    <3>2. Dying(r)
      BY <1>6, <2>1 DEF Dying
    <3>3. Range(Rest(k)') \subseteq Range(Rest(k))
      <4>1. CASE k = l
        BY <1>10, <4>1
      <4>2. CASE k # l
        BY <1>5, <4>2
      <4>3. QED
        BY <4>1, <4>2
    <3>4. Covered(r, k)
      BY <2>1, <3>1, <3>2, <3>3 DEF Lines, DueCovered
    <3>5. \A q \in Procs : walk'[q].list = walk[q].list
      BY <1>0, <1>4, <1>5
    <3>6. r \in Procs /\ Logger \in Procs
      BY LogFacts
    <3>7. QED
      BY <1>6, <3>4, <3>5, <3>6 DEF Covered
  <2>2. QED
    BY <2>1 DEF DueCovered
<1>18. QED
  BY <1>12, <1>13, <1>14, <1>15, <1>16, <1>17 DEF Lines

LEMMA DeleteStep ==
  ASSUME Lines, NEW p \in Procs, Delete(p)
  PROVE  Lines'
<1>0. PICK l, o, d, n :
        l = walk[p].list /\ o = walk[p].out /\ d = walk[p].del /\ n = Len(list[l])
  OBVIOUS
<1>1. walk[p] # NoWalk
  <2>1. o > d
    BY <1>0 DEF Delete
  <2>2. NoWalk.out = 0 /\ NoWalk.del = 0
    BY DEF NoWalk
  <2>3. QED
    BY <1>0, <2>1, <2>2
<1>2. /\ l \in {1, 2} /\ o \in Nat /\ d \in Nat /\ d < n /\ o = d + 1 /\ Alone(walk, p, l)
      /\ Rest(l) = SubSeq(list[l], o + 1, n)
      /\ p = Logger => l = reads
      /\ p \in Readers => Dying(p)
      /\ p = Logger \/ p \in Readers
  <2>1. o > d
    BY <1>0 DEF Delete
  <2>2. QED
    BY <1>0, <1>1, <2>1, WalkFacts
<1>3. list[l] \in Seq(Line) /\ n \in Nat /\ list \in [{1, 2} -> Seq(Line)]
  BY <1>0, <1>2, LogFacts DEF Lines, LogType
<1>4. UNCHANGED <<reads, writes, pc, sent, made, file, dropped>>
  BY DEF Delete, disk, message
\* The walk is over, or it goes on.
<1>5. PICK x :
        /\ walk' = [walk EXCEPT ![p] = x]
        /\ \/ o = n /\ list' = [list EXCEPT ![l] = <<>>] /\ x = NoWalk
           \/ o # n /\ list' = list /\ x = [walk[p] EXCEPT !.del = d + 1]
  BY <1>0 DEF Delete
<1>6. \/ o = n /\ list' = [list EXCEPT ![l] = <<>>] /\ x = NoWalk
      \/ /\ o # n /\ list' = list /\ x # NoWalk
         /\ x \in [list : {1, 2}, out : Nat, del : Nat] /\ x.list = l /\ x.out = o /\ x.del = d + 1
  <2>1. walk[p] \in [list : {1, 2}, out : Nat, del : Nat]
    BY <1>1 DEF Lines, LogType
  <2>2. NoWalk.list \notin {1, 2}
    BY LogFacts DEF NoWalk
  <2>3. QED
    BY <1>0, <1>2, <1>5, <2>1, <2>2
<1>7. /\ walk' \in [Procs -> [list : {1, 2}, out : Nat, del : Nat] \cup {NoWalk}]
      /\ walk'[p] = x /\ \A q \in Procs : q # p => walk'[q] = walk[q]
      /\ \A q \in Procs : q # p => walk[q].list # l
      /\ \A k \in {1, 2} : k # l => Rest(k)' = Rest(k)
      /\ \A k \in {1, 2} : k # l => list'[k] = list[k]
  <2>1. /\ x.list = walk[p].list \/ x = NoWalk
        /\ x \in [list : {1, 2}, out : Nat, del : Nat] \cup {NoWalk}
        /\ Walked(p, x)
    BY <1>0, <1>4, <1>5, <1>6 DEF Walked
  <2>2. /\ walk' \in [Procs -> [list : {1, 2}, out : Nat, del : Nat] \cup {NoWalk}]
        /\ walk'[p] = x /\ \A q \in Procs : q # p => walk'[q] = walk[q]
    BY <1>1, <2>1, WalkedFacts
  <2>3. \A q \in Procs : q # p => walk[q].list # walk[p].list
    BY <1>1, <2>1, WalkedFacts
  <2>4. \A k \in {1, 2} : k # walk[p].list /\ list'[k] = list[k] => Rest(k)' = Rest(k)
    BY <1>1, <2>1, WalkedFacts
  <2>5. \A k \in {1, 2} : k # l => list'[k] = list[k]
    BY <1>3, <1>5
  <2>6. QED
    BY <1>0, <2>2, <2>3, <2>4, <2>5
<1>8. list' \in [{1, 2} -> Seq(Line)]
  <2>1. <<>> \in Seq(Line)
    OBVIOUS
  <2>2. QED
    BY <1>3, <1>5, <2>1
<1>9. NoWalk.list \notin {1, 2}
  BY LogFacts DEF NoWalk
<1>10. Rest(l)' = Rest(l)
  <2>1. CASE x = NoWalk
    <3>1. list'[l] = <<>> /\ o = n
      BY <1>2, <1>3, <1>6, <2>1
    <3>2. \A q \in Procs : walk'[q].list # l
      BY <1>2, <1>7, <1>9, <2>1
    <3>3. RestOf(list', walk', l) = <<>>
      BY <1>2, <1>8, <3>1, <3>2, RestNone
    <3>4. SubSeq(list[l], n + 1, n) = <<>>
      <4>1. n + 1 > n /\ n + 1 \in Int /\ n \in Int
        BY <1>3
      <4>2. QED
        BY <4>1, SubSeqEmpty
    <3>5. QED
      BY <1>2, <3>1, <3>3, <3>4, RestIs
  <2>2. CASE x # NoWalk
    <3>1. list' = list /\ x.list = l /\ x.out = o
      BY <1>6, <2>2
    <3>2. \A q \in Procs : (walk'[q].list = l <=> walk[q].list = l)
                             /\ (walk[q].list = l => walk'[q].out = walk[q].out)
      BY <1>0, <1>7, <3>1
    <3>3. RestOf(list', walk', l) = RestOf(list, walk, l)
      BY <3>1, <3>2, RestSame
    <3>4. QED
      BY <3>3, RestIs
  <2>3. QED
    BY <2>1, <2>2
<1>11. \A k \in {1, 2} : Rest(k)' = Rest(k)
  BY <1>7, <1>10
<1>12. LogType'
  BY <1>4, <1>7, <1>8 DEF Lines, LogType
<1>13. Walking'
  <2>1. ASSUME NEW q \in Procs, walk'[q] # NoWalk
        PROVE  /\ walk'[q].out = walk'[q].del \/ walk'[q].out = walk'[q].del + 1
               /\ walk'[q].del < Len(list'[walk'[q].list])
               /\ \A a \in Procs : walk'[a].list = walk'[q].list => a = q
    <3>1. CASE q = p
      <4>1. x # NoWalk /\ walk'[q] = x
        BY <1>7, <2>1, <3>1
      <4>2. x.list = l /\ x.out = o /\ x.del = d + 1 /\ list' = list /\ o # n
        BY <1>6, <4>1
      <4>3. \A a \in Procs : walk'[a].list = l => a = p
        BY <1>7
      <4>4. d + 1 < n
        BY <1>2, <1>3, <4>2
      <4>5. QED
        BY <1>0, <1>2, <3>1, <4>1, <4>2, <4>3, <4>4
    <3>2. CASE q # p
      <4>1. walk'[q] = walk[q] /\ walk[q] # NoWalk /\ walk[q].list # l /\ walk[q].list \in {1, 2}
        BY <1>7, <2>1, <3>2, LogFacts
      <4>2. walk'[p].list # walk[q].list /\ list'[walk[q].list] = list[walk[q].list]
        BY <1>6, <1>7, <1>9, <4>1
      <4>3. /\ walk[q].out = walk[q].del \/ walk[q].out = walk[q].del + 1
            /\ walk[q].del < Len(list[walk[q].list])
            /\ \A a \in Procs : walk[a].list = walk[q].list => a = q
        BY <4>1 DEF Lines, Walking
      <4>4. \A a \in Procs : walk'[a].list = walk[q].list => a = q
        BY <1>7, <4>2, <4>3
      <4>5. QED
        BY <4>1, <4>2, <4>3, <4>4
    <3>3. QED
      BY <3>1, <3>2
  <2>2. \A q \in Procs : walk'[q] # NoWalk => walk[q] # NoWalk /\ walk'[q].list = walk[q].list
    BY <1>0, <1>1, <1>6, <1>7
  <2>3. Logger \in Procs /\ \A r \in Readers : r \in Procs
    BY LogFacts
  <2>4. walk'[Logger] # NoWalk => pc[Logger] = "flush" /\ walk'[Logger].list = reads
    BY <2>2, <2>3 DEF Lines, Walking
  <2>5. \A r \in Readers : walk'[r] # NoWalk => pc[r] \in {"flush writes", "fsync"}
    BY <2>2, <2>3 DEF Lines, Walking
  <2>6. QED
    BY <1>4, <2>1, <2>4, <2>5 DEF Walking
<1>14. Once'
  BY <1>4, <1>11 DEF Lines, Once
<1>15. Numbered'
  BY <1>4 DEF Lines, Numbered
<1>16. Ordered'
  <2>1. ~Flushing' => ~Flushing
    BY <1>4 DEF Flushing
  <2>2. All' = All
    <3>1. reads \in {1, 2} /\ writes \in {1, 2}
      BY LogFacts
    <3>2. Rest(reads)' = Rest(reads) /\ Rest(writes)' = Rest(writes)
      BY <1>4, <1>11, <3>1
    <3>3. QED
      BY <1>4, <3>2 DEF All
  <2>3. QED
    BY <1>4, <2>1, <2>2, KeepOrder DEF Lines
<1>17. DueCovered'
  <2>1. ASSUME NEW r \in Readers, NEW k \in {1, 2}, Dying(r)', Due(r)' \cap Range(Rest(k)') # {}
        PROVE  Covered(r, k)'
    <3>1. Due(r)' = Due(r) /\ Rest(k)' = Rest(k)
      BY <1>4, <1>11 DEF Due, Current
    <3>2. Dying(r)
      BY <1>4, <2>1 DEF Dying
    <3>3. Covered(r, k)
      BY <2>1, <3>1, <3>2 DEF Lines, DueCovered
    \* A list whose walk is over has nothing left.
    <3>4. \A q \in Procs : walk[q].list = k => walk'[q].list = k
      <4>1. CASE x = NoWalk
        <5>1. Rest(k) # <<>>
          BY <2>1, <3>1, RangeEmpty
        <5>2. k # l
          <6>1. o = n
            BY <1>6, <4>1
          <6>2. SubSeq(list[l], n + 1, n) = <<>>
            <7>1. n + 1 > n /\ n + 1 \in Int /\ n \in Int
              BY <1>3
            <7>2. QED
              BY <7>1, SubSeqEmpty
          <6>3. Rest(l) = <<>>
            BY <1>2, <6>1, <6>2
          <6>4. QED
            BY <5>1, <6>3
        <5>3. QED
          BY <1>0, <1>7, <5>2
      <4>2. CASE x # NoWalk
        BY <1>0, <1>6, <1>7, <4>2
      <4>3. QED
        BY <4>1, <4>2
    <3>5. r \in Procs /\ Logger \in Procs
      BY LogFacts
    <3>6. QED
      BY <1>4, <3>3, <3>4, <3>5 DEF Covered
  <2>2. QED
    BY <2>1 DEF DueCovered
<1>18. QED
  BY <1>12, <1>13, <1>14, <1>15, <1>16, <1>17 DEF Lines

----------------------------------------------------------------------------
LEMMA LinesInit ==
  ASSUME Init
  PROVE  Lines
<1>1. /\ list = <<<<>>, <<>>>> /\ writes = 1 /\ reads = 2 /\ file = <<>> /\ dropped = {} /\ sent = <<>>
      /\ pc = [p \in Procs |-> "idle"] /\ walk = [p \in Procs |-> NoWalk]
      /\ made = [r \in Readers |-> 0]
  BY DEF Init
<1>2. /\ list \in [{1, 2} -> Seq(Line)] /\ list[1] = <<>> /\ list[2] = <<>>
      /\ <<>> \in Seq(Line)
  <2>1. <<>> \in Seq(Line)
    OBVIOUS
  <2>2. list[1] = <<>> /\ list[2] = <<>> /\ DOMAIN list = 1..2 /\ list \in Seq(Seq(Line))
    BY <1>1, <2>1
  <2>3. 1..2 = {1, 2}
    OBVIOUS
  <2>4. list = [l \in DOMAIN list |-> list[l]]
    BY <2>2
  <2>5. \A l \in {1, 2} : list[l] \in Seq(Line)
    BY <2>1, <2>2
  <2>6. list = [l \in {1, 2} |-> list[l]]
    BY <2>2, <2>3, <2>4
  <2>7. list \in [{1, 2} -> Seq(Line)]
    BY <2>5, <2>6, Zenon
  <2>8. QED
    BY <2>1, <2>2, <2>7
<1>3. LogType
  <2>1. /\ pc \in [Procs -> Steps]
        /\ walk \in [Procs -> [list : {1, 2}, out : Nat, del : Nat] \cup {NoWalk}]
        /\ made \in [Readers -> Nat]
    BY <1>1 DEF Steps
  <2>2. QED
    BY <1>1, <1>2, <2>1 DEF LogType
<1>4. \A p \in Procs : walk[p] = NoWalk /\ pc[p] = "idle" /\ walk[p].list \notin {1, 2}
  BY <1>1, RingAssumption DEF NoWalk
<1>5. Logger \in Procs /\ \A r \in Readers : r \in Procs
  BY DEF Procs
<1>6. Walking
  BY <1>4, <1>5 DEF Walking
<1>7. Rest(1) = <<>> /\ Rest(2) = <<>> /\ Rest(reads) = <<>> /\ Rest(writes) = <<>>
  <2>1. ASSUME NEW l \in {1, 2} PROVE Rest(l) = <<>>
    <3>1. \A p \in Procs : walk[p].list # l
      BY <1>4
    <3>2. RestOf(list, walk, l) = list[l]
      BY <1>2, <3>1, RestNone
    <3>3. QED
      BY <1>2, <3>2, RestIs
  <2>2. QED
    BY <1>1, <2>1
<1>8. Range(<<>>) = {} /\ IsInjective(<<>>)
  BY RangeEmpty DEF IsInjective
<1>9. Once
  BY <1>1, <1>7, <1>8 DEF Once
<1>10. Numbered
  BY <1>1, <1>8 DEF Numbered
<1>11. Ordered
  <2>1. All = <<>> \o <<>> \o <<>>
    BY <1>1, <1>7 DEF All
  <2>2. <<>> \o <<>> = <<>>
    OBVIOUS
  <2>3. DOMAIN All = {}
    BY <2>1, <2>2
  <2>4. QED
    BY <2>3 DEF Ordered, InOrderOf
<1>12. DueCovered
  BY <1>4, <1>5 DEF DueCovered, Dying
<1>13. QED
  BY <1>3, <1>6, <1>9, <1>10, <1>11, <1>12 DEF Lines

\* Only a process that runs takes a step, but for the clock's text.
LEMMA Runs ==
  ASSUME Next
  PROVE  process = "runs"
BY DEF Next, Tick, LoggerStep, Logging, LogMessage, Finish, Send, WriteStack, FlushReads,
       FlushWrites, FlushFile, Abort, Timeout, ReadList, FlushIfDue, Goto, Output, Delete

LEMMA LinesStep ==
  ASSUME LogInv, [Next]_vars
  PROVE  LogInv'
<1>1. SUFFICES ASSUME process' # "undefined" PROVE Lines'
  BY DEF LogInv
<1>2. Lines
  <2>1. CASE Next
    BY <2>1, Runs DEF LogInv
  <2>2. CASE UNCHANGED vars
    BY <1>1, <2>2 DEF LogInv, vars
  <2>3. QED
    BY <2>1, <2>2
<1>3. CASE AsideAction
  BY <1>1, <1>2, <1>3, AsideIs, AsideStep
<1>4. CASE ReadList \/ \E r \in Readers : FlushReads(r) \/ FlushWrites(r)
  BY <1>1, <1>2, <1>4, FlushingStep
<1>5. CASE Timeout
  BY <1>2, <1>5, TimeoutStep
<1>6. CASE \E r \in Readers : Send(r)
  BY <1>1, <1>2, <1>6, SendStep
<1>7. CASE \E p \in Procs : Output(p)
  BY <1>2, <1>7, OutputStep
<1>8. CASE \E p \in Procs : Delete(p)
  BY <1>2, <1>8, DeleteStep
<1>9. QED
  <2>1. Logger \in Procs /\ \A r \in Readers : r \in Procs
    BY DEF Procs
  <2>2. [Next]_vars =>
          \/ AsideAction \/ ReadList \/ Timeout
          \/ \E r \in Readers : FlushReads(r) \/ FlushWrites(r) \/ Send(r)
          \/ \E p \in Procs : Output(p) \/ Delete(p)
    BY <2>1 DEF Next, LoggerStep, Logging, AsideAction
  <2>3. QED
    BY <1>3, <1>4, <1>5, <1>6, <1>7, <1>8, <2>2

LEMMA LogInvariance == Spec => []LogInv
<1>1. Init => LogInv
  BY LinesInit DEF LogInv
<1>2. LogInv /\ [Next]_vars => LogInv'
  BY LinesStep
<1>3. QED
  BY <1>1, <1>2, PTL DEF Spec

----------------------------------------------------------------------------
(* The file and the two lists hold each line that was sent once, but for   *)
(* those whose write failed, and before any FATAL message begins to empty  *)
(* the lists they hold them in the order of LogThread::Send, however the   *)
(* swaps of Timeout, the walks of iterList and the threads that log fall   *)
(* between each other (log_thread.cc).                                     *)
THEOREM InFile == Spec => []FileIsLog
<1>1. LogInv => FileIsLog
  <2>1. SUFFICES ASSUME Lines
                 PROVE  /\ Range(All) = Range(sent) \ dropped /\ IsInjective(All)
                        /\ ~Flushing => AsSent(All)
    BY DEF LogInv, FileIsLog, All
  <2> DEFINE q == Rest(reads)
             u == Rest(writes)
  <2>2. /\ q \in Seq(Line) /\ u \in Seq(Line) /\ file \in Seq(Line)
        /\ \/ Rest(1) = q /\ Rest(2) = u
           \/ Rest(1) = u /\ Rest(2) = q
    <3>1. /\ reads \in {1, 2} /\ writes \in {1, 2} /\ reads # writes
          /\ \A l \in {1, 2} : Rest(l) \in Seq(Line)
      BY <2>1, LogFacts
    <3>2. file \in Seq(Line)
      BY <2>1 DEF Lines, LogType
    <3>3. (reads = 1 /\ writes = 2) \/ (reads = 2 /\ writes = 1)
      BY <3>1
    <3>4. QED
      BY <3>1, <3>2, <3>3
  <2>3. All = (file \o q) \o u
    BY DEF All
  <2> HIDE DEF q, u
  <2>4. /\ Range(sent) = Range(file) \cup dropped \cup Range(q) \cup Range(u)
        /\ IsInjective(file) /\ IsInjective(q) /\ IsInjective(u)
        /\ Range(file) \cap dropped = {} /\ Range(q) \cap (Range(file) \cup dropped) = {}
        /\ Range(u) \cap (Range(file) \cup dropped) = {} /\ Range(q) \cap Range(u) = {}
    BY <2>1, <2>2 DEF Lines, Once
  <2>5. /\ file \o q \in Seq(Line) /\ Range(file \o q) = Range(file) \cup Range(q)
        /\ IsInjective(file \o q)
    <3>1. Range(file) \cap Range(q) = {}
      BY <2>4
    <3>2. QED
      BY <2>2, <2>4, <3>1, RangeConcat
  <2>6. Range(All) = Range(file) \cup Range(q) \cup Range(u) /\ IsInjective(All)
    <3>1. Range(file \o q) \cap Range(u) = {}
      BY <2>4, <2>5
    <3> DEFINE c == file \o q
    <3>2. c \in Seq(Line) /\ IsInjective(c) /\ Range(c) \cap Range(u) = {} /\ All = c \o u
      BY <2>3, <2>5, <3>1
    <3>3. Range(c) = Range(file) \cup Range(q)
      BY <2>5
    <3> HIDE DEF c
    <3>4. Range(c \o u) = Range(c) \cup Range(u) /\ IsInjective(c \o u)
      BY <2>2, <2>4, <3>2, RangeConcat
    <3>5. QED
      BY <3>2, <3>3, <3>4
  <2>7. Range(All) = Range(sent) \ dropped
    BY <2>4, <2>6
  <2>8. ~Flushing => AsSent(All)
    BY <2>1 DEF Lines, Ordered, InOrderOf, AsSent
  <2>9. QED
    BY <2>6, <2>7, <2>8
<1>2. QED
  BY <1>1, LogInvariance, PTL

(* When a thread that logged FATAL has aborted the process while LogThread *)
(* was at rest, every line sent before its line is in the file or its      *)
(* write failed: the walks of both lists that Flush(true) makes leave      *)
(* nothing to output, though other threads may still have been logging     *)
(* (~LogMessage, LogThread::Flush, iterList).                              *)
THEOREM Aborting == Spec => []AbortLosesNothing
<1>1. LogInv => AbortLosesNothing
  <2>1. SUFFICES ASSUME Lines, pc[Logger] = "idle", NEW r \in Readers, pc[r] = "dead",
                        NEW i \in 1..Len(sent), NEW j \in 1..Len(sent),
                        i <= j, sent[j] = Current(r)
                 PROVE  sent[i] \in Range(file) \cup dropped
    BY DEF LogInv, AbortLosesNothing
  <2>2. sent \in Seq(Line) /\ Len(sent) \in Nat
    BY <2>1 DEF Lines, LogType
  <2>3. sent[i] \in Due(r) /\ sent[i] \in Range(sent)
    <3>1. j \in i..Len(sent)
      BY <2>1, <2>2
    <3>2. QED
      BY <2>1, <2>2, <3>1, RangeElement DEF Due, Range
  <2>4. ASSUME NEW l \in {1, 2} PROVE ~Covered(r, l)
    <3>1. walk[Logger] = NoWalk /\ walk[r] = NoWalk
      BY <2>1 DEF Lines, Walking
    <3>2. NoWalk.list \notin {1, 2}
      BY <2>1, LogFacts DEF NoWalk
    <3>3. QED
      BY <2>1, <3>1, <3>2 DEF Covered
  <2>5. Dying(r)
    BY <2>1 DEF Dying
  <2>6. \A l \in {1, 2} : sent[i] \notin Range(Rest(l))
    BY <2>1, <2>3, <2>4, <2>5 DEF Lines, DueCovered
  <2>7. QED
    BY <2>1, <2>3, <2>6 DEF Lines, Once
<1>2. QED
  BY <1>1, LogInvariance, PTL
============================================================================
