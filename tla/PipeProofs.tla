----------------------------- MODULE PipeProofs -----------------------------
(***************************************************************************)
(* The whole interface of the pipe, for every number of writes, chunk size *)
(* and heap: the reader reaches whole items only, and it is woken exactly  *)
(* when Flush has said so (IInv); what is written is read, from cells that *)
(* lie in place in chunks that are neither lost nor shared (QInv).         *)
(***************************************************************************)
EXTENDS PipeUse, SequenceTheorems, TLAPS

Type ==
  /\ slot \in Seq(Nat) /\ whole \in Seq(BOOLEAN) /\ Len(whole) = Len(slot) /\ nwrite \in Nat
  /\ front \in Nat /\ w \in Nat /\ f \in Nat /\ wakeups \in Nat
  /\ wrpc \in {"idle", "push", "set", "wake"} /\ rdpc \in {"read", "take", "pop", "sleep"}

\* The writer's pointers, and c, which is w unless the reader has reset it.
Pointers ==
  /\ 1 <= front /\ front <= w /\ w <= f /\ f <= Back
  /\ c \in {w, NULL}

\* An awake reader has left c alone; asleep, it has taken all it prefetched,
\* and c is still NULL exactly if nothing was flushed since.
Reader ==
  /\ rdpc # "sleep" => c = w /\ r \in Nat /\ front <= r /\ r <= w
  /\ rdpc = "take" => front # r
  /\ rdpc = "sleep" => r = front /\ (c = NULL => w = front)

\* Flush stores f without a comparison only after it found the reader asleep.
Setting == wrpc = "set" => c = NULL

\* What w and f point past ends an item.
Complete == \A p \in {w, f} : p > 1 => whole[p - 1] = TRUE

IInv == Type /\ Pointers /\ Reader /\ Setting /\ Complete /\ WakeOwed

LEMMA AppendFacts ==
  ASSUME NEW S, NEW q \in Seq(S), NEW e \in S
  PROVE  /\ Append(q, e) \in Seq(S) /\ Len(Append(q, e)) = Len(q) + 1 /\ Len(q) \in Nat
         /\ \A i \in 1..Len(q) : Append(q, e)[i] = q[i]
         /\ Append(q, e)[Len(q) + 1] = e
BY AppendProperties

\* Taking the last element back.
LEMMA FrontFacts ==
  ASSUME NEW S, NEW q \in Seq(S), NEW n \in Nat, n = Len(q) - 1
  PROVE  /\ SubSeq(q, 1, n) \in Seq(S) /\ Len(SubSeq(q, 1, n)) = n
         /\ \A i \in 1..n : SubSeq(q, 1, n)[i] = q[i]
<1>1. \A i \in 1..n : q[i] \in S
  OBVIOUS
<1>2. /\ SubSeq(q, 1, n) \in Seq(S)
      /\ Len(SubSeq(q, 1, n)) = IF 1 <= n THEN n - 1 + 1 ELSE 0
      /\ \A i \in 1..(n - 1 + 1) : SubSeq(q, 1, n)[i] = q[1 + i - 1]
  BY <1>1, SubSeqProperties
<1>3. QED
  BY <1>2

----------------------------------------------------------------------------
(* The writer.                                                             *)

LEMMA WriteStep ==
  ASSUME IInv, NEW incomplete \in BOOLEAN, WriterWrite(incomplete)
  PROVE  IInv'
<1> DEFINE b == ~incomplete
<1>1. /\ slot' = Append(slot, nwrite + 1) /\ nwrite' = nwrite + 1 /\ whole' = Append(whole, b)
      /\ f' = (IF incomplete THEN f ELSE Back') /\ wrpc = "idle" /\ wrpc' \in {"push", "idle"}
      /\ UNCHANGED <<front, r, w, c, rdpc, wakeups>>
  BY DEF WriterWrite, Write
<1>2. nwrite + 1 \in Nat /\ b \in BOOLEAN /\ (~incomplete => b = TRUE)
  BY DEF IInv, Type
<1> HIDE DEF b
<1>3. /\ slot' \in Seq(Nat) /\ Len(slot') = Len(slot) + 1 /\ Len(slot) \in Nat
      /\ whole' \in Seq(BOOLEAN) /\ Len(whole') = Len(slot) + 1 /\ whole'[Len(slot) + 1] = b
      /\ \A i \in 1..Len(slot) : whole'[i] = whole[i]
  BY <1>1, <1>2, AppendFacts DEF IInv, Type
<1>4. w \in Nat /\ f \in Nat /\ 1 <= w /\ w <= f /\ f <= Len(slot) + 1 /\ front \in Nat
  BY DEF IInv, Type, Pointers, Back
<1>5. /\ f' \in Nat /\ w <= f' /\ f' <= Len(slot) + 2 /\ Back' = Len(slot) + 2
      /\ f' = f \/ (f' = Len(slot) + 2 /\ ~incomplete)
  BY <1>1, <1>3, <1>4 DEF Back
<1>6. Type' /\ Pointers'
  BY <1>1, <1>2, <1>3, <1>5 DEF IInv, Type, Pointers
<1>7. Complete'
  <2>1. \A p \in {w, f} : p > 1 => whole'[p - 1] = TRUE
    <3>1. \A p \in {w, f} : p > 1 => p - 1 \in 1..Len(slot)
      BY <1>3, <1>4
    <3>2. QED
      BY <1>3, <3>1 DEF IInv, Complete
  <2>2. ~incomplete => whole'[(Len(slot) + 2) - 1] = TRUE
    <3>1. (Len(slot) + 2) - 1 = Len(slot) + 1
      BY <1>3
    <3>2. ~incomplete => whole'[Len(slot) + 1] = TRUE
      BY <1>2, <1>3, Zenon
    <3>3. QED
      BY <3>1, <3>2, Zenon
  <2>3. QED
    BY <1>1, <1>5, <2>1, <2>2 DEF Complete
<1>8. Reader' /\ Setting' /\ WakeOwed'
  BY <1>1 DEF IInv, Reader, Setting, WakeOwed
<1>9. QED
  BY <1>6, <1>7, <1>8 DEF IInv

LEMMA UnWriteStep ==
  ASSUME IInv, WriterUnWrite
  PROVE  IInv'
<1> DEFINE n == Len(slot) - 1
<1>1. /\ f # Back /\ slot' = SubSeq(slot, 1, n) /\ whole' = SubSeq(whole, 1, Len(slot'))
      /\ UNCHANGED <<front, r, w, f, c, wrpc, rdpc, wakeups, nwrite>>
  BY DEF WriterUnWrite, UnWrite, CanUnWrite
<1>2. /\ w \in Nat /\ f \in Nat /\ 1 <= w /\ w <= f /\ f <= Len(slot) /\ front \in Nat
      /\ Len(slot) \in Nat /\ n \in Nat
  BY <1>1 DEF IInv, Type, Pointers, Back
<1>3. slot' \in Seq(Nat) /\ Len(slot') = n
  BY <1>1, <1>2, FrontFacts DEF IInv, Type
<1>4. /\ whole' \in Seq(BOOLEAN) /\ Len(whole') = n
      /\ \A i \in 1..n : whole'[i] = whole[i]
  BY <1>1, <1>2, <1>3, FrontFacts DEF IInv, Type
<1>5. Type' /\ Pointers'
  BY <1>1, <1>2, <1>3, <1>4 DEF IInv, Type, Pointers, Back
<1>6. Complete'
  <2>1. \A p \in {w, f} : p > 1 => p - 1 \in 1..n
    BY <1>2
  <2>2. QED
    BY <1>1, <1>4, <2>1 DEF IInv, Complete
<1>7. Reader' /\ Setting' /\ WakeOwed'
  BY <1>1 DEF IInv, Reader, Setting, WakeOwed
<1>8. QED
  BY <1>5, <1>6, <1>7 DEF IInv

\* A compare-and-swap that fails has found c NULL.
LEMMA FlushStep ==
  ASSUME IInv, WriterFlush
  PROVE  IInv'
<1>1. /\ wrpc = "idle" /\ w # f
      /\ UNCHANGED <<slot, front, r, f, rdpc, wakeups, whole, nwrite>>
      /\ \/ c = w /\ c' = f /\ w' = f /\ wrpc' = wrpc
         \/ c # w /\ wrpc' = "set" /\ c' = c /\ w' = w
  BY DEF WriterFlush, FlushCas, NothingToFlush, pipeVars
<1>2. f \in Nat /\ w \in Nat /\ front \in Nat /\ NULL \notin Nat /\ front <= w /\ w <= f
  BY NullAssumption DEF IInv, Type, Pointers
<1>3. CASE c = w /\ c' = f /\ w' = f /\ wrpc' = wrpc
  <2>1. Type' /\ Pointers' /\ Complete'
    BY <1>1, <1>2, <1>3 DEF IInv, Type, Pointers, Complete, Back
  <2>2. Reader' /\ Setting' /\ WakeOwed'
    BY <1>1, <1>2, <1>3 DEF IInv, Reader, Setting, WakeOwed
  <2>3. QED
    BY <2>1, <2>2 DEF IInv
<1>4. CASE c # w /\ wrpc' = "set" /\ c' = c /\ w' = w
  <2>1. c = NULL
    BY <1>4 DEF IInv, Pointers
  <2>2. Type' /\ Pointers' /\ Complete'
    BY <1>1, <1>4 DEF IInv, Type, Pointers, Complete, Back
  <2>3. Reader' /\ Setting' /\ WakeOwed'
    BY <1>1, <1>4, <2>1 DEF IInv, Reader, Setting, WakeOwed
  <2>4. QED
    BY <2>2, <2>3 DEF IInv
<1>5. QED
  BY <1>1, <1>3, <1>4

LEMMA FlushSetStep ==
  ASSUME IInv, WriterFlushSet
  PROVE  IInv'
<1>1. /\ wrpc = "set" /\ wrpc' = "wake" /\ c' = f /\ w' = f
      /\ UNCHANGED <<slot, front, r, f, rdpc, wakeups, whole, nwrite>>
  BY DEF WriterFlushSet, FlushSet
<1>2. /\ f \in Nat /\ w \in Nat /\ front \in Nat /\ NULL \notin Nat /\ front <= w /\ w <= f
      /\ wakeups \in Nat
  BY NullAssumption DEF IInv, Type, Pointers
<1>3. c = NULL /\ rdpc = "sleep" /\ wakeups = 0 /\ c # w
  BY <1>1, <1>2 DEF IInv, Setting, Reader, WakeOwed
<1>4. Type' /\ Pointers' /\ Complete'
  BY <1>1, <1>2 DEF IInv, Type, Pointers, Complete, Back
<1>5. Reader' /\ Setting' /\ WakeOwed'
  BY <1>1, <1>2, <1>3 DEF IInv, Reader, Setting, WakeOwed
<1>6. QED
  BY <1>4, <1>5 DEF IInv

LEMMA WakeStep ==
  ASSUME IInv, WriterWake
  PROVE  IInv'
<1>1. /\ wrpc = "wake" /\ wrpc' = "idle" /\ wakeups' = wakeups + 1
      /\ UNCHANGED <<slot, front, r, w, f, c, rdpc, whole, nwrite>>
  BY DEF WriterWake, pipeVars
<1>2. wakeups \in Nat
  BY DEF IInv, Type
<1>3. Type' /\ Pointers' /\ Complete' /\ Reader' /\ Setting'
  BY <1>1, <1>2 DEF IInv, Type, Pointers, Complete, Reader, Setting, Back
<1>4. WakeOwed'
  BY <1>1, <1>2 DEF IInv, WakeOwed
<1>5. QED
  BY <1>3, <1>4 DEF IInv

----------------------------------------------------------------------------
(* The reader.                                                             *)

LEMMA CheckStep ==
  ASSUME IInv, ReaderCheck
  PROVE  IInv'
<1>1. /\ rdpc = "read" /\ rdpc' = (IF Prefetched' THEN "take" ELSE "sleep")
      /\ UNCHANGED <<slot, front, w, f, wrpc, wakeups, whole, nwrite>>
  BY DEF ReaderCheck, CheckRead, CheckReadOk, pipeVars
<1>2. c = w /\ r \in Nat /\ front <= r /\ r <= w
  BY <1>1 DEF IInv, Reader
<1>3. /\ w \in Nat /\ front \in Nat /\ NULL \notin Nat /\ front <= w /\ wakeups \in Nat
      /\ wrpc # "wake" /\ wakeups = 0 /\ w # NULL /\ r # NULL
  BY <1>1, <1>2, NullAssumption DEF IInv, Type, Pointers, WakeOwed
<1>4. \/ /\ front # r /\ r' = r /\ c' = c /\ rdpc' = "take"
      \/ /\ front = r /\ r' = w /\ front # w /\ c' = c /\ rdpc' = "take"
      \/ /\ front = r /\ r' = w /\ front = w /\ c' = NULL /\ rdpc' = "sleep"
  BY <1>1, <1>2, <1>3 DEF ReaderCheck, CheckRead, CheckReadOk, Prefetched, pipeVars
<1>5. Type' /\ Complete'
  BY <1>1, <1>4 DEF IInv, Type, Complete
<1>6. Pointers'
  BY <1>1, <1>2, <1>4 DEF IInv, Pointers, Back
<1>7. Reader'
  BY <1>1, <1>2, <1>3, <1>4 DEF IInv, Reader
<1>8. Setting'
  BY <1>1, <1>2, <1>3, <1>4 DEF IInv, Setting
<1>9. WakeOwed'
  BY <1>1, <1>3, <1>4 DEF IInv, WakeOwed
<1>10. QED
  BY <1>5, <1>6, <1>7, <1>8, <1>9 DEF IInv

LEMMA TakeStep ==
  ASSUME IInv, ReaderTake
  PROVE  IInv'
<1>1. /\ rdpc = "take" /\ rdpc' \in {"read", "pop"} /\ front' = front + 1
      /\ UNCHANGED <<slot, r, w, f, c, wrpc, wakeups, whole, nwrite>>
  BY DEF ReaderTake, Pop
<1>2. /\ c = w /\ r \in Nat /\ front < r /\ r <= w /\ front \in Nat /\ w \in Nat
      /\ 1 <= front
  BY <1>1 DEF IInv, Reader, Type, Pointers
<1>3. Type' /\ Pointers' /\ Complete'
  BY <1>1, <1>2 DEF IInv, Type, Pointers, Complete, Back
<1>4. Reader' /\ Setting' /\ WakeOwed'
  BY <1>1, <1>2 DEF IInv, Reader, Setting, WakeOwed
<1>5. QED
  BY <1>3, <1>4 DEF IInv

LEMMA WokenStep ==
  ASSUME IInv, ReaderWoken
  PROVE  IInv'
<1>1. /\ rdpc = "sleep" /\ rdpc' = "read" /\ wakeups > 0 /\ wakeups' = wakeups - 1
      /\ UNCHANGED <<slot, front, r, w, f, c, wrpc, whole, nwrite>>
  BY DEF ReaderWoken, pipeVars
<1>2. wakeups \in Nat /\ wakeups - 1 \in Nat
  BY <1>1 DEF IInv, Type
<1>3. c # NULL /\ wakeups = 1 /\ wrpc # "wake" /\ r = front
  BY <1>1, <1>2 DEF IInv, WakeOwed, Reader
<1>4. Type' /\ Pointers' /\ Complete' /\ Setting'
  BY <1>1, <1>2 DEF IInv, Type, Pointers, Complete, Setting, Back
<1>5. Reader'
  BY <1>1, <1>3 DEF IInv, Reader, Pointers, Type
<1>6. WakeOwed'
  BY <1>1, <1>2, <1>3 DEF WakeOwed
<1>7. QED
  BY <1>4, <1>5, <1>6 DEF IInv

\* What YQueue does between its exchanges, and nothing at all.
LEMMA QueueStep ==
  ASSUME IInv, WriterPush \/ ReaderPop \/ UNCHANGED useVars
  PROVE  IInv'
<1>1. /\ UNCHANGED <<slot, front, r, w, f, c, wakeups, whole, nwrite>>
      /\ \/ wrpc = "push" /\ wrpc' = "idle" /\ rdpc' = rdpc
         \/ rdpc = "pop" /\ rdpc' = "read" /\ wrpc' = wrpc
         \/ rdpc' = rdpc /\ wrpc' = wrpc
  BY DEF WriterPush, ReaderPop, useVars, pipeVars
<1>2. Type' /\ Pointers' /\ Complete'
  BY <1>1 DEF IInv, Type, Pointers, Complete, Back
<1>3. Reader' /\ Setting' /\ WakeOwed'
  BY <1>1 DEF IInv, Reader, Setting, WakeOwed
<1>4. QED
  BY <1>2, <1>3 DEF IInv

----------------------------------------------------------------------------
LEMMA IndInit == Init => IInv
<1> SUFFICES ASSUME Init PROVE IInv
  OBVIOUS
<1>1. /\ slot = <<>> /\ whole = <<>> /\ nwrite = 0 /\ front = 1 /\ r = 1 /\ w = 1 /\ f = 1
      /\ c = 1 /\ wakeups = 0 /\ wrpc = "idle" /\ rdpc = "read"
  BY DEF Init, PipeInit
<1>2. Type /\ Pointers
  BY <1>1, EmptySeq DEF Type, Pointers, Back
<1>3. Reader /\ Setting /\ Complete /\ WakeOwed
  BY <1>1 DEF Reader, Setting, Complete, WakeOwed
<1>4. QED
  BY <1>2, <1>3 DEF IInv

LEMMA IndNext == IInv /\ [Next]_useVars => IInv'
<1> SUFFICES ASSUME IInv, [Next]_useVars PROVE IInv'
  OBVIOUS
<1>1. ASSUME NEW incomplete \in BOOLEAN, WriterWrite(incomplete) PROVE IInv'
  BY <1>1, WriteStep
<1>2. CASE WriterUnWrite \/ WriterFlush
  BY <1>2, UnWriteStep, FlushStep
<1>3. CASE FlushEnd
  BY <1>3, QueueStep, FlushSetStep, WakeStep DEF FlushEnd
<1>4. CASE ReaderStep
  BY <1>4, CheckStep, TakeStep, QueueStep, WokenStep DEF ReaderStep
<1>5. QED
  BY <1>1, <1>2, <1>3, <1>4, QueueStep DEF Next

LEMMA Invariance == Spec => []IInv
<1> QED
  BY IndInit, IndNext, PTL DEF Spec

\* Whatever is written, taken back and flushed: what the reader may reach
\* ends with a whole item.
THEOREM Whole == Spec => []WholeItems
<1>1. IInv => WholeItems
  <2>1. ASSUME IInv, NEW p \in {c, w, f} \ {NULL}, p > 1 PROVE whole[p - 1]
    <3>1. p \in {w, f}
      BY <2>1 DEF IInv, Pointers
    <3>2. whole[p - 1] = TRUE
      BY <2>1, <3>1 DEF IInv, Complete
    <3>3. QED
      BY <3>2, Zenon
  <2>2. QED
    BY <2>1 DEF WholeItems
<1>2. QED
  BY <1>1, Invariance, PTL

\* A reader that sleeps beside flushed items has a wake-up coming, and no
\* other reader has.
THEOREM Owed == Spec => []WakeOwed
<1>1. IInv => WakeOwed
  BY DEF IInv
<1>2. QED
  BY <1>1, Invariance, PTL

(***************************************************************************)
(* The cells and the chunks they are in.                                   *)
(***************************************************************************)

\* Cells of one chunk are there in order; neighbours are joined.
Ascending(t) ==
  \A j, k \in DOMAIN t : (j < k /\ t[j].chunk = t[k].chunk) => t[j].pos < t[k].pos

JoinedIn(h, p, q) ==
  \/ q.chunk = p.chunk /\ q.pos = p.pos + 1
  \/ p.pos = N - 1 /\ q.pos = 0 /\ h[p.chunk].next = q.chunk /\ h[q.chunk].prev = p.chunk
Linked(h, t) == \A k \in 1..(Len(t) - 1) : JoinedIn(h, t[k], t[k + 1])

QType ==
  /\ Allocated \subseteq Chunks /\ heap \in [Allocated -> Chunk]
  /\ spare \in Chunks \cup {NoChunk} /\ old \in Chunks \cup {NoChunk}
  /\ place \in Seq(Places) /\ got \in Seq(Nat)
  /\ old # NoChunk <=> rdpc = "pop"

\* Only Push leaves the end behind the last cell of a chunk, for a moment.
Placed ==
  /\ Len(place) = Back - front + 2
  /\ begin = place[1] /\ back = place[Len(place) - 1] /\ end = place[Len(place)]
  /\ \A k \in 1..(Len(place) - 1) : place[k].pos < N
  /\ wrpc = "push" <=> end.pos = N
  /\ Ascending(place) /\ Linked(heap, place)

Filled ==
  \A k \in 1..(Len(place) - 2) : heap[place[k].chunk].values[place[k].pos] = slot[front + k - 1]

QInv == QType /\ Placed /\ Filled /\ ChunksOwned /\ NoTakeBack

LEMMA QFacts ==
  ASSUME IInv, QInv
  PROVE  /\ N \in Nat /\ N >= 1 /\ NoChunk \notin Chunks
         /\ Len(place) \in Nat /\ Len(place) >= 2 /\ DOMAIN place = 1..Len(place)
         /\ \A k \in 1..Len(place) :
              /\ place[k] \in Places /\ place[k].chunk \in Chunks /\ place[k].pos \in 0..N
              /\ place[k].chunk \in InUse /\ place[k].chunk \in Allocated
         /\ \A k \in 1..(Len(place) - 1) : place[k].pos \in 0..N-1
         /\ \A chunk \in Allocated :
              /\ heap[chunk] \in Chunk /\ heap[chunk].values \in [0..N-1 -> Nat]
              /\ heap[chunk].prev \in Chunks \cup {NoChunk} /\ heap[chunk].next \in Chunks \cup {NoChunk}
         /\ front \in Nat /\ Len(slot) \in Nat /\ front >= 1 /\ front <= Len(slot) + 1
         /\ Len(place) = (Len(slot) + 3) - front
<1>1. N \in Nat /\ N >= 1 /\ NoChunk \notin Chunks
  BY ChunkAssumption DEF Chunks
<1>2. /\ front \in Nat /\ Len(slot) \in Nat /\ front >= 1 /\ front <= Len(slot) + 1
      /\ Len(place) = (Len(slot) + 3) - front
  BY DEF IInv, Type, Pointers, Back, QInv, Placed
<1>3. place \in Seq(Places)
  BY DEF QInv, QType
<1>4. Len(place) \in Nat /\ Len(place) >= 2 /\ DOMAIN place = 1..Len(place)
  BY <1>2, <1>3
<1>5. \A x \in Places : x.chunk \in Chunks /\ x.pos \in 0..N
  BY DEF Places
<1>6. \A k \in 1..Len(place) : place[k] \in Places /\ place[k].chunk \in InUse
  BY <1>3, <1>4 DEF InUse
<1>7. InUse \subseteq Allocated
  BY DEF QInv, ChunksOwned
<1>8. \A k \in 1..(Len(place) - 1) : place[k].pos \in 0..N-1
  <2>1. ASSUME NEW k \in 1..(Len(place) - 1) PROVE place[k].pos \in 0..N-1
    <3>1. place[k].pos \in 0..N /\ place[k].pos < N
      BY <1>4, <1>5, <1>6 DEF QInv, Placed
    <3>2. QED
      BY <1>1, <3>1
  <2>2. QED
    BY <2>1
<1>9. \A chunk \in Allocated :
        /\ heap[chunk] \in Chunk /\ heap[chunk].values \in [0..N-1 -> Nat]
        /\ heap[chunk].prev \in Chunks \cup {NoChunk} /\ heap[chunk].next \in Chunks \cup {NoChunk}
  <2>1. \A x \in Chunk : /\ x.values \in [0..N-1 -> Nat]
                        /\ x.prev \in Chunks \cup {NoChunk} /\ x.next \in Chunks \cup {NoChunk}
    BY DEF Chunk
  <2>2. \A chunk \in Allocated : heap[chunk] \in Chunk
    BY DEF QInv, QType
  <2>3. QED
    BY <2>1, <2>2
<1>10. QED
  BY <1>1, <1>2, <1>4, <1>5, <1>6, <1>7, <1>8, <1>9

LEMMA WriteQ ==
  ASSUME IInv, QInv, NEW incomplete \in BOOLEAN, WriterWrite(incomplete)
  PROVE  QInv'
<1> DEFINE L == Len(place)
           v == nwrite + 1
           q == Cell(end.chunk, end.pos + 1)
<1>1. /\ heap' = [heap EXCEPT ![back.chunk].values[back.pos] = v]
      /\ back' = end /\ end' = [end EXCEPT !.pos = @ + 1] /\ place' = Append(place, end')
      /\ slot' = Append(slot, v)
      /\ wrpc = "idle" /\ wrpc' = (IF end'.pos = N THEN "push" ELSE "idle")
      /\ UNCHANGED <<begin, spare, old, front, rdpc, got>>
  BY DEF WriterWrite, Write, BackPut, Push, ChunkFull
<1>2. begin = place[1] /\ back = place[L - 1] /\ end = place[L] /\ (wrpc = "push" <=> end.pos = N)
  BY DEF QInv, Placed
<1>3. /\ L \in Nat /\ L >= 2 /\ 1 \in 1..L /\ L - 1 \in 1..(L - 1) /\ L - 1 \in 1..L /\ L \in 1..L
      /\ v \in Nat
  BY QFacts DEF IInv, Type
<1>4. end' = q /\ q \in Places /\ q.chunk = end.chunk /\ q.pos = end.pos + 1
  <2>1. end \in Places /\ end.pos \in 0..N /\ end.pos # N /\ end.chunk \in Chunks
    BY <1>1, <1>2, <1>3, QFacts
  <2>2. end.pos + 1 \in 0..N
    BY <2>1, QFacts
  <2>3. QED
    BY <1>1, <2>1, <2>2 DEF Cell, Places
<1> HIDE DEF q, v
<1>5. /\ DOMAIN heap' = DOMAIN heap /\ heap' \in [Allocated -> Chunk]
      /\ \A chunk \in Allocated : heap'[chunk].next = heap[chunk].next /\ heap'[chunk].prev = heap[chunk].prev
      /\ heap'[back.chunk].values[back.pos] = v
      /\ \A chunk \in Allocated, pos \in 0..N-1 :
           (chunk # back.chunk \/ pos # back.pos) => heap'[chunk].values[pos] = heap[chunk].values[pos]
  <2>1. back.chunk \in Allocated /\ back.pos \in 0..N-1
    BY <1>2, <1>3, QFacts
  <2> DEFINE x == [heap[back.chunk] EXCEPT !.values[back.pos] = v]
  <2>2. heap' = [heap EXCEPT ![back.chunk] = x]
    BY <1>1
  <2>3. heap[back.chunk] \in Chunk /\ heap[back.chunk].values \in [0..N-1 -> Nat]
    BY <2>1, QFacts
  <2>4. /\ x.next = heap[back.chunk].next /\ x.prev = heap[back.chunk].prev
        /\ x.values = [heap[back.chunk].values EXCEPT ![back.pos] = v]
    BY <2>3 DEF Chunk
  <2>5. x \in Chunk
    BY <1>3, <2>3 DEF Chunk
  <2> HIDE DEF x
  <2>6. /\ DOMAIN heap' = DOMAIN heap /\ heap'[back.chunk] = x
        /\ \A chunk \in Allocated : chunk # back.chunk => heap'[chunk] = heap[chunk]
    BY <2>1, <2>2 DEF QInv, QType, Allocated
  <2>7. heap' \in [Allocated -> Chunk]
    BY <2>2, <2>5 DEF QInv, QType
  <2>8. x.values[back.pos] = v /\ \A pos \in 0..N-1 : pos # back.pos => x.values[pos] = heap[back.chunk].values[pos]
    BY <2>1, <2>3, <2>4
  <2>9. QED
    BY <2>4, <2>6, <2>7, <2>8
<1>6. /\ place' \in Seq(Places) /\ Len(place') = L + 1 /\ DOMAIN place' = 1..(L + 1)
      /\ \A k \in 1..L : place'[k] = place[k]
      /\ place'[L + 1] = q
  <2>1. place \in Seq(Places) /\ place' = Append(place, q) /\ q \in Places
    BY <1>1, <1>4 DEF QInv, QType
  <2>2. QED
    BY <2>1, AppendFacts
<1>7. Len(slot') = Len(slot) + 1 /\ (\A k \in 1..Len(slot) : slot'[k] = slot[k]) /\ slot'[Len(slot) + 1] = v
  BY <1>1, <1>3, AppendFacts DEF IInv, Type
<1>8. QType'
  BY <1>1, <1>5, <1>6 DEF QInv, QType, Allocated
<1>9. Ascending(place')
  <2>1. ASSUME NEW j \in 1..(L + 1), NEW k \in 1..(L + 1), j < k, place'[j].chunk = place'[k].chunk
        PROVE  place'[j].pos < place'[k].pos
    <3>1. CASE k <= L
      <4>1. Ascending(place) /\ L \in Nat /\ L = Len(place)
        BY <1>3, QFacts DEF QInv, Placed
      <4>2. j \in 1..L /\ k \in 1..L /\ place'[j] = place[j] /\ place'[k] = place[k]
        BY <1>6, <2>1, <3>1, <4>1
      <4>3. QED
        BY <2>1, <4>1, <4>2 DEF Ascending
    <3>2. CASE k = L + 1 /\ j = L
      BY <1>2, <1>3, <1>4, <1>6, <3>2, QFacts
    <3>3. CASE k = L + 1 /\ j < L
      <4>1. place[j].pos < place[L].pos
        <5>1. j \in DOMAIN place /\ L \in DOMAIN place /\ place[j].chunk = place[L].chunk
          BY <1>2, <1>3, <1>4, <1>6, <2>1, <3>3, QFacts
        <5>2. QED
          BY <3>3, <5>1 DEF QInv, Placed, Ascending
      <4>2. place[j].pos \in Nat /\ place[L].pos \in Nat /\ j \in 1..L
        BY <1>3, <3>3, QFacts
      <4>3. QED
        BY <1>2, <1>3, <1>4, <1>6, <3>3, <4>1, <4>2
    <3>4. QED
      BY <1>3, <2>1, <3>1, <3>2, <3>3
  <2>2. QED
    BY <1>6, <2>1 DEF Ascending
<1>10. Linked(heap', place')
  <2>1. ASSUME NEW k \in 1..L PROVE JoinedIn(heap', place'[k], place'[k + 1])
    <3>1. CASE k = L
      BY <1>2, <1>3, <1>4, <1>6, <3>1 DEF JoinedIn
    <3>2. CASE k < L
      <4>1. k \in 1..(L - 1) /\ k + 1 \in 1..L /\ k \in 1..L
        BY <1>3, <3>2
      <4>2. JoinedIn(heap, place[k], place[k + 1])
        BY <4>1 DEF QInv, Placed, Linked
      <4>3. place[k].chunk \in Allocated /\ place[k + 1].chunk \in Allocated
        BY <4>1, QFacts
      <4>4. JoinedIn(heap', place[k], place[k + 1])
        BY <1>5, <4>2, <4>3 DEF JoinedIn
      <4>5. QED
        BY <1>6, <4>1, <4>4
    <3>3. QED
      BY <1>3, <3>1, <3>2
  <2>2. QED
    BY <1>3, <1>6, <2>1 DEF Linked
<1>11. Placed'
  <2>1. /\ Len(place') = Back' - front' + 2 /\ place'[1] = begin' /\ place'[(L + 1) - 1] = back'
        /\ place'[L + 1] = end'
    BY <1>1, <1>2, <1>3, <1>4, <1>6, <1>7, QFacts DEF Back
  <2>2. \A k \in 1..L : place'[k].pos < N
    <3>1. ASSUME NEW k \in 1..L PROVE place[k].pos < N
      <4>1. CASE k = L
        <5>1. end.pos \in 0..N /\ end.pos # N
          BY <1>1, <1>2, <1>3, QFacts
        <5>2. QED
          BY <1>2, <4>1, <5>1, QFacts
      <4>2. CASE k < L
        BY <1>3, <4>2 DEF QInv, Placed
      <4>3. QED
        BY <1>3, <4>1, <4>2
    <3>2. QED
      BY <1>6, <3>1
  <2>3. wrpc' = "push" <=> end'.pos = N
    BY <1>1
  <2>4. (L + 1) - 1 = L
    BY <1>3
  <2>5. QED
    BY <1>6, <1>9, <1>10, <2>1, <2>2, <2>3, <2>4 DEF Placed
<1>12. Filled'
  <2>1. ASSUME NEW k \in 1..(L - 1) PROVE heap'[place[k].chunk].values[place[k].pos] = slot'[front + k - 1]
    <3>1. CASE k = L - 1
      <4>1. front + k - 1 = Len(slot) + 1
        <5>1. k = Len(place) - 1 /\ Len(place) = (Len(slot) + 3) - front
          BY <3>1, QFacts
        <5>2. front \in Nat /\ Len(slot) \in Nat
          BY QFacts
        <5>3. QED
          BY <5>1, <5>2
      <4>2. QED
        BY <1>2, <1>5, <1>7, <3>1, <4>1
    <3>2. CASE k < L - 1
      <4>1. k \in 1..L /\ k \in 1..(L - 2) /\ front + k - 1 \in 1..Len(slot)
        BY <1>3, <3>2, QFacts
      <4>2. place[k].chunk \in Allocated /\ place[k].pos \in 0..N-1
        BY <4>1, QFacts
      <4>3. place[k].chunk # back.chunk \/ place[k].pos # back.pos
        <5>1. k \in DOMAIN place /\ L - 1 \in DOMAIN place /\ k < L - 1
          BY <1>3, <3>2, <4>1, QFacts
        <5>2. place[k].chunk = place[L - 1].chunk => place[k].pos < place[L - 1].pos
          BY <5>1 DEF QInv, Placed, Ascending
        <5>3. place[L - 1].pos \in Nat
          BY <1>3, QFacts
        <5>4. QED
          BY <1>2, <4>2, <5>2, <5>3
      <4>4. heap'[place[k].chunk].values[place[k].pos] = heap[place[k].chunk].values[place[k].pos]
        BY <1>5, <4>2, <4>3
      <4>5. QED
        BY <1>7, <4>1, <4>4 DEF QInv, Filled
    <3>3. QED
      BY <1>3, <3>1, <3>2
  <2>2. Len(place') - 2 = L - 1 /\ \A k \in 1..(L - 1) : place'[k] = place[k]
    BY <1>3, <1>6
  <2>3. \A k \in 1..(L - 1) : heap'[place'[k].chunk].values[place'[k].pos] = slot'[front' + k - 1]
    BY <1>1, <2>1, <2>2
  <2>4. QED
    BY <2>2, <2>3 DEF Filled
<1>13. ChunksOwned'
  <2>1. InUse' = InUse
    <3>1. ASSUME NEW k \in 1..(L + 1) PROVE place'[k].chunk \in InUse
      <4>1. CASE k = L + 1
        BY <1>2, <1>3, <1>4, <1>6, <4>1, QFacts
      <4>2. CASE k \in 1..L
        BY <1>6, <4>2, QFacts
      <4>3. QED
        BY <1>3, <4>1, <4>2
    <3>2. ASSUME NEW k \in 1..L PROVE place[k].chunk \in InUse'
      BY <1>3, <1>6 DEF InUse
    <3>3. InUse = {place[k].chunk : k \in 1..L} /\ InUse' = {place'[k].chunk : k \in 1..(L + 1)}
      BY <1>6, QFacts DEF InUse
    <3>4. QED
      BY <3>1, <3>2, <3>3
  <2>2. QED
    BY <1>1, <1>5, <2>1 DEF QInv, ChunksOwned, Allocated
<1>14. NoTakeBack'
  BY <1>1, <1>7, QFacts DEF QInv, QType, NoTakeBack, Back
<1>15. QED
  BY <1>8, <1>11, <1>12, <1>13, <1>14 DEF QInv

\* The end is behind the last cell of its chunk e; the chunk p that Push goes on
\* with is nobody else's.
LEMMA PushQ ==
  ASSUME IInv, QInv, WriterPush
  PROVE  QInv'
<1> DEFINE L == Len(place)
           e == end.chunk
           p == PushChunk
           h == IF spare # NoChunk THEN heap ELSE Allocate(heap, Fresh)
<1>1. /\ spare # NoChunk \/ HasRoom
      /\ heap' = [h EXCEPT ![e].next = p, ![p].prev = e]
      /\ end' = Cell(p, 0) /\ place' = [place EXCEPT ![L] = Cell(p, 0)] /\ spare' = NoChunk
      /\ wrpc = "push" /\ wrpc' = "idle"
      /\ UNCHANGED <<begin, back, old, front, slot, rdpc, got>>
  BY DEF WriterPush, PushSpare, pipeVars
<1>2. begin = place[1] /\ back = place[L - 1] /\ end = place[L] /\ end.pos = N
  BY <1>1 DEF QInv, Placed
<1>3. L \in Nat /\ L >= 2 /\ 1 \in 1..(L - 1) /\ L - 1 \in 1..(L - 1) /\ L - 1 \in 1..L /\ L \in 1..L
  BY QFacts
<1>4. place[L - 1].chunk = e /\ place[L - 1].pos = N - 1
  <2>1. JoinedIn(heap, place[L - 1], place[(L - 1) + 1])
    BY <1>3 DEF QInv, Placed, Linked
  <2>2. (L - 1) + 1 = L /\ place[L - 1].pos \in 0..N-1 /\ N >= 1 /\ N \in Nat
    BY <1>3, QFacts
  <2>3. QED
    BY <1>2, <2>1, <2>2 DEF JoinedIn
<1>5. e \in InUse /\ e \in Allocated /\ e \in Chunks
  BY <1>2, <1>3, QFacts
<1>6. p \in Chunks /\ p \notin InUse /\ p # NoChunk /\ p # e /\ (spare # NoChunk => p = spare)
      /\ (spare = NoChunk => p \notin Allocated /\ p = Fresh)
  <2>1. CASE spare # NoChunk
    BY <1>5, <2>1, QFacts DEF PushChunk, QInv, QType, ChunksOwned
  <2>2. CASE spare = NoChunk
    <3>1. \E chunk \in Chunks : chunk \notin Allocated
      BY <1>1, <2>2 DEF HasRoom
    <3>2. Fresh \in Chunks /\ Fresh \notin Allocated
      BY <3>1 DEF Fresh
    <3>3. p = Fresh /\ p # NoChunk
      BY <2>2, <3>2, QFacts DEF PushChunk
    <3>4. InUse \subseteq Allocated
      BY DEF QInv, ChunksOwned
    <3>5. QED
      BY <1>5, <2>2, <3>2, <3>3, <3>4
  <2>3. QED
    BY <2>1, <2>2
<1> HIDE DEF p
<1>7. h \in [Allocated \cup {p} -> Chunk] /\ \A chunk \in Allocated : h[chunk] = heap[chunk]
  <2>1. CASE spare # NoChunk
    BY <1>6, <2>1 DEF QInv, QType, ChunksOwned
  <2>2. CASE spare = NoChunk
    <3> DEFINE new == [values |-> [pos \in 0..N-1 |-> 0], prev |-> NoChunk, next |-> NoChunk]
    <3>1. new \in Chunk
      BY DEF Chunk
    <3> HIDE DEF new
    <3>2. h = [k \in Allocated \cup {p} |-> IF k = p THEN new ELSE heap[k]]
      BY <1>6, <2>2 DEF Allocate, Allocated, new
    <3> HIDE DEF h
    <3>3. \A k \in Allocated : heap[k] \in Chunk
      BY QFacts
    <3>4. QED
      BY <1>6, <2>2, <3>1, <3>2, <3>3
  <2>3. QED
    BY <2>1, <2>2
<1> HIDE DEF h
<1>8. /\ heap' \in [Allocated \cup {p} -> Chunk]
      /\ heap'[e].next = p /\ heap'[p].prev = e
      /\ \A chunk \in Allocated :
           /\ heap'[chunk].values = heap[chunk].values
           /\ chunk # e => heap'[chunk].next = heap[chunk].next
           /\ chunk # p => heap'[chunk].prev = heap[chunk].prev
  <2> DEFINE x == [h[e] EXCEPT !.next = p]
             y == [h[p] EXCEPT !.prev = e]
  <2>1. h[e] \in Chunk /\ h[p] \in Chunk
    BY <1>5, <1>7
  <2>2. x \in Chunk /\ x.next = p /\ x.prev = h[e].prev /\ x.values = h[e].values
    BY <1>6, <2>1 DEF Chunk
  <2>3. y \in Chunk /\ y.prev = e /\ y.next = h[p].next /\ y.values = h[p].values
    BY <1>5, <2>1 DEF Chunk
  <2>4. heap' = [h EXCEPT ![e] = x, ![p] = y]
    BY <1>1, <1>6, <1>7
  <2> HIDE DEF x, y
  <2>5. /\ heap'[e] = x /\ heap'[p] = y
        /\ \A chunk \in Allocated : (chunk # e /\ chunk # p) => heap'[chunk] = heap[chunk]
    BY <1>5, <1>6, <1>7, <2>4
  <2>6. heap' \in [Allocated \cup {p} -> Chunk]
    BY <1>7, <2>2, <2>3, <2>4
  <2>7. QED
    BY <1>5, <1>6, <1>7, <2>2, <2>3, <2>5, <2>6
<1>9. Cell(p, 0) \in Places /\ Cell(p, 0).chunk = p /\ Cell(p, 0).pos = 0
  BY <1>6, QFacts DEF Cell, Places
<1> DEFINE q == Cell(p, 0)
<1> HIDE DEF q
<1>10. /\ place' \in Seq(Places) /\ Len(place') = L /\ DOMAIN place' = 1..L
       /\ \A k \in 1..(L - 1) : place'[k] = place[k]
       /\ place'[L] = q
  BY <1>1, <1>3, <1>9, QFacts, ExceptSeq DEF QInv, QType, q
<1>11. QType'
  <2>1. Allocated' = Allocated \cup {p}
    BY <1>8 DEF Allocated
  <2>2. QED
    BY <1>1, <1>6, <1>8, <1>10, <2>1 DEF QInv, QType
<1>12. Ascending(place')
  <2>1. ASSUME NEW j \in 1..L, NEW k \in 1..L, j < k, place'[j].chunk = place'[k].chunk
        PROVE  place'[j].pos < place'[k].pos
    <3>1. CASE k = L
      <4>1. j \in 1..(L - 1) /\ j \in 1..L
        BY <1>3, <2>1, <3>1
      <4>2. place[j].chunk = p
        BY <1>9, <1>10, <2>1, <3>1, <4>1 DEF q
      <4>3. QED
        BY <1>6, <4>1, <4>2, QFacts
    <3>2. CASE k # L
      <4>1. j \in 1..(L - 1) /\ k \in 1..(L - 1)
        BY <1>3, <2>1, <3>2
      <4>2. j \in DOMAIN place /\ k \in DOMAIN place
        BY QFacts
      <4>3. QED
        BY <1>10, <2>1, <4>1, <4>2 DEF QInv, Placed, Ascending
    <3>3. QED
      BY <3>1, <3>2
  <2>2. QED
    BY <1>10, <2>1 DEF Ascending
\* Only the last cell of e, which is before the end, went on to something else.
<1>13. Linked(heap', place')
  <2>1. ASSUME NEW k \in 1..(L - 1) PROVE JoinedIn(heap', place'[k], place'[k + 1])
    <3>1. CASE k = L - 1
      <4>1. k + 1 = L
        BY <1>3, <3>1
      <4>2. QED
        BY <1>3, <1>4, <1>8, <1>9, <1>10, <3>1, <4>1 DEF JoinedIn, q
    <3>2. CASE k # L - 1
      <4>1. k + 1 \in 1..(L - 1) /\ k \in 1..L /\ k + 1 \in 1..L /\ k < L - 1
        BY <1>3, <3>2
      <4>2. JoinedIn(heap, place[k], place[k + 1])
        BY <4>1 DEF QInv, Placed, Linked
      <4>3. /\ place[k].chunk \in Allocated /\ place[k + 1].chunk \in Allocated
            /\ place[k].chunk # p /\ place[k + 1].chunk # p
        BY <1>6, <4>1, QFacts
      <4>4. place[k].chunk = e => place[k].pos # N - 1
        <5>1. k \in DOMAIN place /\ L - 1 \in DOMAIN place
          BY <1>3, <4>1, QFacts
        <5>2. place[k].chunk = e => place[k].pos < place[L - 1].pos
          BY <1>4, <4>1, <5>1 DEF QInv, Placed, Ascending
        <5>3. QED
          BY <1>4, <5>2, QFacts
      <4>5. JoinedIn(heap', place[k], place[k + 1])
        BY <1>8, <4>2, <4>3, <4>4 DEF JoinedIn
      <4>6. QED
        BY <1>10, <4>1, <4>5
    <3>3. QED
      BY <3>1, <3>2
  <2>2. QED
    BY <1>10, <2>1 DEF Linked
<1>14. Placed'
  <2>1. place'[1] = begin' /\ place'[L - 1] = back' /\ place'[L] = end'
    BY <1>1, <1>2, <1>3, <1>10 DEF q
  <2>2. L = Back' - front' + 2
    BY <1>1 DEF QInv, Placed, Back
  <2>3. \A k \in 1..(L - 1) : place'[k].pos < N
    BY <1>10 DEF QInv, Placed
  <2>4. end'.pos # N /\ wrpc' # "push"
    BY <1>1, <1>9, QFacts
  <2>5. QED
    BY <1>10, <1>12, <1>13, <2>1, <2>2, <2>3, <2>4 DEF Placed
<1>15. Filled'
  <2>1. ASSUME NEW k \in 1..(L - 2)
        PROVE  heap'[place'[k].chunk].values[place'[k].pos] = slot[front + k - 1]
    <3>1. k \in 1..(L - 1) /\ k \in 1..L
      BY <1>3
    <3>2. heap'[place[k].chunk].values = heap[place[k].chunk].values
      BY <1>8, <3>1, QFacts
    <3>3. QED
      BY <1>10, <3>1, <3>2 DEF QInv, Filled
  <2>2. \A k \in 1..(L - 2) : heap'[place'[k].chunk].values[place'[k].pos] = slot'[front' + k - 1]
    BY <1>1, <2>1
  <2>3. QED
    BY <1>10, <2>2 DEF Filled
<1>16. ChunksOwned'
  <2>1. InUse' = InUse \cup {p}
    <3>1. InUse = {place[k].chunk : k \in 1..L} /\ InUse' = {place'[k].chunk : k \in 1..L}
      BY <1>10, QFacts DEF InUse
    <3>2. ASSUME NEW k \in 1..L PROVE place'[k].chunk \in InUse \cup {p}
      <4>1. CASE k = L
        BY <1>9, <1>10, <4>1 DEF q
      <4>2. CASE k # L
        <5>1. k \in 1..(L - 1)
          BY <1>3, <4>2
        <5>2. QED
          BY <1>10, <5>1, QFacts
      <4>3. QED
        BY <4>1, <4>2
    <3>3. ASSUME NEW k \in 1..L PROVE place[k].chunk \in InUse'
      <4>1. \A j \in 1..(L - 1) : place[j].chunk \in InUse'
        BY <1>3, <1>10, <3>1
      <4>2. CASE k = L
        BY <1>2, <1>3, <1>4, <4>1, <4>2
      <4>3. CASE k # L
        BY <1>3, <4>1, <4>3
      <4>4. QED
        BY <4>2, <4>3
    <3>4. p \in InUse'
      BY <1>3, <1>9, <1>10, <3>1 DEF q
    <3>5. QED
      BY <3>1, <3>2, <3>3, <3>4
  <2>2. Allocated' = Allocated \cup {p}
    BY <1>8 DEF Allocated
  <2>3. /\ Allocated = InUse \cup ({spare, old} \ {NoChunk})
        /\ spare # old \/ old = NoChunk
        /\ spare \notin InUse /\ old \notin InUse
    BY DEF QInv, ChunksOwned
  <2>4. NoChunk \notin InUse
    BY <2>3, QFacts DEF QInv, QType
  <2>5. old # p
    BY <1>6, <2>3
  <2>6. QED
    BY <1>1, <1>6, <2>1, <2>2, <2>3, <2>4, <2>5 DEF ChunksOwned
<1>17. NoTakeBack'
  BY <1>1 DEF QInv, NoTakeBack, Back
<1>18. QED
  BY <1>11, <1>14, <1>15, <1>16, <1>17 DEF QInv

\* Prev links lead back over joined cells.
LEMMA BeforeFacts ==
  ASSUME N \in Nat, NEW p \in Places, NEW q \in Places, p.pos < N, JoinedIn(heap, p, q)
  PROVE  Before(q) = p
<1>1. p = Cell(p.chunk, p.pos) /\ p.pos \in Nat /\ q.pos \in Nat
  BY DEF Places, Cell
<1>2. CASE q.chunk = p.chunk /\ q.pos = p.pos + 1
  <2>1. q.pos > 0 /\ q.pos - 1 = p.pos
    BY <1>1, <1>2
  <2>2. QED
    BY <1>1, <1>2, <2>1 DEF Before
<1>3. CASE p.pos = N - 1 /\ q.pos = 0 /\ heap[p.chunk].next = q.chunk /\ heap[q.chunk].prev = p.chunk
  BY <1>1, <1>3 DEF Before
<1>4. QED
  BY <1>2, <1>3 DEF JoinedIn

\* UnPush frees the chunk of the end if the end was first in it.
LEMMA UnWriteQ ==
  ASSUME IInv, QInv, WriterUnWrite
  PROVE  QInv'
<1> DEFINE L == Len(place)
           e == place[L - 1].chunk
<1>1. /\ f # Back /\ slot' = SubSeq(slot, 1, Len(slot) - 1) /\ place' = SubSeq(place, 1, L - 1)
      /\ back' = Before(back) /\ end' = Before(end)
      /\ heap' = (IF end.pos > 0 THEN heap
                  ELSE [Free(heap, heap[end'.chunk].next) EXCEPT ![end'.chunk].next = NoChunk])
      /\ wrpc = "idle"
      /\ UNCHANGED <<begin, spare, old, front, rdpc, wrpc, got>>
  BY DEF WriterUnWrite, UnWrite, CanUnWrite, UnPush
<1>2. begin = place[1] /\ back = place[L - 1] /\ end = place[L] /\ end.pos # N
  BY <1>1 DEF QInv, Placed
<1>3. front <= Len(slot) /\ Len(slot) \in Nat /\ Len(slot) - 1 \in Nat
  BY <1>1 DEF IInv, Type, Pointers, Back
<1>4. /\ L \in Nat /\ L >= 3 /\ L - 1 \in Nat /\ L - 2 \in 1..(L - 1) /\ L - 1 \in 1..(L - 1)
      /\ L - 2 \in 1..L /\ L - 1 \in 1..L /\ L \in 1..L /\ (L - 2) + 1 = L - 1 /\ (L - 1) + 1 = L
  <2>1. L = (Len(slot) + 3) - front /\ front \in Nat
    BY QFacts
  <2>2. QED
    BY <1>3, <2>1
<1>5. back' = place[L - 2] /\ end' = place[L - 1]
  <2>1. JoinedIn(heap, place[L - 2], place[L - 1]) /\ JoinedIn(heap, place[L - 1], place[L])
    BY <1>4 DEF QInv, Placed, Linked
  <2>2. place[L - 2] \in Places /\ place[L - 1] \in Places /\ place[L] \in Places
        /\ place[L - 2].pos < N /\ place[L - 1].pos < N /\ N \in Nat
    BY <1>4, QFacts DEF QInv, Placed
  <2>3. QED
    BY <1>1, <1>2, <2>1, <2>2, BeforeFacts
<1>6. /\ place' \in Seq(Places) /\ Len(place') = L - 1 /\ DOMAIN place' = 1..(L - 1)
      /\ \A k \in 1..(L - 1) : place'[k] = place[k]
  BY <1>1, <1>4, FrontFacts DEF QInv, QType
<1>7. Len(slot') = Len(slot) - 1 /\ \A k \in 1..(Len(slot) - 1) : slot'[k] = slot[k]
  BY <1>1, <1>3, FrontFacts DEF IInv, Type
<1>8. Ascending(place')
  <2>1. \A k \in 1..(L - 1) : k \in DOMAIN place
    BY <1>4, QFacts
  <2>2. QED
    BY <1>6, <2>1 DEF QInv, Placed, Ascending
<1>9. \A k \in 1..(L - 2) : k \in 1..(L - 1) /\ k + 1 \in 1..(L - 1) /\ k \in 1..L /\ k + 1 \in 1..L
  BY <1>4
\* What the freed chunk was: nothing else is in it, and the link to it was that
\* of the last cell before it.
<1>10. /\ heap' \in [Allocated' -> Chunk] /\ Allocated' \subseteq Chunks
       /\ Allocated' = InUse' \cup ({spare, old} \ {NoChunk})
       /\ InUse' \subseteq InUse
       /\ \A chunk \in InUse' :
            /\ heap'[chunk].values = heap[chunk].values /\ heap'[chunk].prev = heap[chunk].prev
            /\ heap'[chunk].next = heap[chunk].next \/ (chunk = e /\ place[L - 1].pos = N - 1)
  <2>1. InUse' = {place[k].chunk : k \in 1..(L - 1)}
    BY <1>6 DEF InUse
  <2>2. InUse = {place[k].chunk : k \in 1..L}
    BY QFacts DEF InUse
  <2>3. /\ Allocated = InUse \cup ({spare, old} \ {NoChunk})
        /\ spare \notin InUse /\ old \notin InUse
        /\ heap \in [Allocated -> Chunk] /\ Allocated \subseteq Chunks
    BY DEF QInv, ChunksOwned, QType
  <2>4. JoinedIn(heap, place[L - 1], place[L]) /\ place[L].pos \in 0..N
    BY <1>4, QFacts DEF QInv, Placed, Linked
  <2>5. \A k \in 1..L : k = L \/ k \in 1..(L - 1)
    <3>1. L \in Nat
      BY QFacts
    <3> HIDE DEF L
    <3>2. QED
      BY <3>1
  <2>6. CASE end.pos > 0
    <3>1. place[L].chunk = e
      BY <1>2, <2>4, <2>6 DEF JoinedIn
    <3>2. InUse' = InUse
      <4>1. \A k \in 1..L : place[k].chunk \in InUse'
        <5>1. \A k \in 1..(L - 1) : place[k].chunk \in InUse'
          BY <2>1
        <5>2. place[L].chunk \in InUse'
          BY <1>4, <3>1, <5>1
        <5>3. QED
          BY <2>5, <5>1, <5>2
      <4>2. \A k \in 1..(L - 1) : place[k].chunk \in InUse
        BY <1>4, QFacts
      <4>3. QED
        BY <2>1, <2>2, <4>1, <4>2
    <3>3. heap' = heap /\ Allocated' = Allocated
      BY <1>1, <2>6 DEF Allocated
    <3>4. QED
      BY <2>3, <3>2, <3>3
  <2>7. CASE ~(end.pos > 0)
    <3> DEFINE last == place[L].chunk
    <3>1. end.pos = 0 /\ place[L].pos = 0
      BY <1>2, <2>4, <2>7
    <3>2. place[L - 1].pos = N - 1 /\ heap[e].next = last
      <4>1. ~(place[L].pos = place[L - 1].pos + 1)
        BY <1>4, <3>1, QFacts
      <4>2. QED
        BY <2>4, <4>1 DEF JoinedIn
    <3>3. \A k \in 1..(L - 1) : place[k].chunk # last
      <4>1. ASSUME NEW k \in 1..(L - 1), place[k].chunk = last PROVE FALSE
        <5>1. k \in DOMAIN place /\ L \in DOMAIN place /\ k < L
          BY <1>4, QFacts
        <5>2. place[k].pos < place[L].pos
          BY <4>1, <5>1 DEF QInv, Placed, Ascending
        <5>3. place[k].pos \in Nat
          BY QFacts
        <5>4. QED
          BY <3>1, <5>2, <5>3
      <4>2. QED
        BY <4>1
    <3>4. e # last /\ e \in Allocated /\ last \in Allocated /\ last \in InUse
      BY <1>4, <3>3, QFacts
    <3>5. InUse' = InUse \ {last}
      <4>1. \A k \in 1..L : k = L \/ k \in 1..(L - 1)
        BY <2>5
      <4>2. \A k \in 1..(L - 1) : k \in 1..L
        BY <1>4
      <4>3. QED
        BY <2>1, <2>2, <3>3, <4>1, <4>2
    <3>6. heap' = [Free(heap, last) EXCEPT ![e].next = NoChunk]
      BY <1>1, <1>5, <2>7, <3>2
    <3> HIDE DEF last, e
    <3>7. /\ Free(heap, last) \in [Allocated \ {last} -> Chunk]
          /\ \A chunk \in Allocated \ {last} : Free(heap, last)[chunk] = heap[chunk]
      BY <2>3 DEF Free, Allocated
    <3> DEFINE x == [heap[e] EXCEPT !.next = NoChunk]
    <3>8. heap[e] \in Chunk
      BY <3>4, QFacts
    <3>9. x \in Chunk /\ x.values = heap[e].values /\ x.prev = heap[e].prev
      BY <3>8 DEF Chunk
    <3>10. heap' = [Free(heap, last) EXCEPT ![e] = x]
      BY <3>4, <3>6, <3>7
    <3> HIDE DEF x
    <3>11. /\ heap' \in [Allocated \ {last} -> Chunk] /\ heap'[e] = x
           /\ \A chunk \in Allocated \ {last} : chunk # e => heap'[chunk] = heap[chunk]
      BY <3>4, <3>7, <3>9, <3>10
    <3>12. Allocated' = Allocated \ {last}
      BY <3>11 DEF Allocated
    <3>13. Allocated' = InUse' \cup ({spare, old} \ {NoChunk})
      BY <2>3, <3>4, <3>5, <3>12
    <3>14. InUse' \subseteq Allocated \ {last}
      BY <2>3, <3>5
    <3>15. QED
      BY <2>3, <3>2, <3>5, <3>9, <3>11, <3>12, <3>13, <3>14
  <2>8. QED
    BY <2>6, <2>7
<1>11. \A k \in 1..(L - 1) : place[k].chunk \in InUse'
  BY <1>6 DEF InUse
<1>12. QType'
  BY <1>1, <1>6, <1>10 DEF QInv, QType
<1>13. Linked(heap', place')
  <2>1. ASSUME NEW k \in 1..(L - 2) PROVE JoinedIn(heap', place'[k], place'[k + 1])
    <3>1. JoinedIn(heap, place[k], place[k + 1])
      BY <1>9 DEF QInv, Placed, Linked
    <3>2. place[k].chunk = e => place[k].pos < place[L - 1].pos
      <4>1. k \in DOMAIN place /\ L - 1 \in DOMAIN place /\ k < L - 1
        BY <1>4, <1>9, QFacts
      <4>2. QED
        BY <4>1 DEF QInv, Placed, Ascending
    <3>3. place[k].chunk = e /\ place[L - 1].pos = N - 1 => place[k].pos # N - 1
      BY <3>2, QFacts
    <3>4. place[k].chunk \in InUse' /\ place[k + 1].chunk \in InUse'
      BY <1>9, <1>11
    <3>5. JoinedIn(heap', place[k], place[k + 1])
      BY <1>10, <3>1, <3>3, <3>4 DEF JoinedIn
    <3>6. QED
      BY <1>6, <1>9, <3>5
  <2>2. Len(place') - 1 = L - 2
    BY <1>4, <1>6
  <2>3. QED
    BY <2>1, <2>2 DEF Linked
<1>14. Placed'
  <2>1. Len(place') = Back' - front' + 2
    <3>1. Len(place') = L - 1 /\ L = (Len(slot) + 3) - front /\ front \in Nat /\ Len(slot') = Len(slot) - 1
      BY <1>6, <1>7, QFacts
    <3>2. QED
      BY <1>1, <1>3, <3>1 DEF Back
  <2>2. /\ place'[1] = begin' /\ place'[Len(place') - 1] = back' /\ place'[Len(place')] = end'
        /\ \A k \in 1..(Len(place') - 1) : place'[k].pos < N
    <3>1. Len(place') - 1 = L - 2 /\ 1 \in 1..(L - 1)
      BY <1>4, <1>6
    <3>2. QED
      BY <1>1, <1>2, <1>4, <1>5, <1>6, <1>9, <3>1 DEF QInv, Placed
  <2>3. end'.pos # N /\ wrpc' # "push"
    <3>1. L - 1 \in 1..(L - 1)
      BY <1>4
    <3>2. place[L - 1].pos \in 0..N-1 /\ N \in Nat
      BY <3>1, QFacts
    <3>3. QED
      BY <1>1, <1>5, <3>2
  <2>4. QED
    BY <1>8, <1>13, <2>1, <2>2, <2>3 DEF Placed
<1>15. Filled'
  <2>1. ASSUME NEW k \in 1..(L - 3)
        PROVE  heap'[place'[k].chunk].values[place'[k].pos] = slot'[front + k - 1]
    <3>1. k \in 1..(L - 2) /\ k \in 1..(L - 1)
      BY <1>4
    <3>2. front + k - 1 \in 1..(Len(slot) - 1)
      <4>1. L = (Len(slot) + 3) - front /\ front \in Nat /\ front >= 1
        BY QFacts
      <4>2. QED
        BY <1>3, <4>1
    <3>3. heap'[place[k].chunk].values = heap[place[k].chunk].values
      BY <1>10, <1>11, <3>1
    <3>4. QED
      BY <1>6, <1>7, <3>1, <3>2, <3>3 DEF QInv, Filled
  <2>2. Len(place') - 2 = L - 3
    BY <1>4, <1>6
  <2>3. \A k \in 1..(L - 3) : heap'[place'[k].chunk].values[place'[k].pos] = slot'[front' + k - 1]
    BY <1>1, <2>1
  <2>4. QED
    BY <2>2, <2>3 DEF Filled
<1>16. ChunksOwned'
  BY <1>1, <1>10 DEF QInv, ChunksOwned
<1>17. NoTakeBack'
  <2>1. Len(got) = front - 1 /\ \A k \in 1..Len(got) : got[k] = slot[k]
    BY DEF QInv, NoTakeBack
  <2>2. front <= Len(slot') + 1 /\ \A k \in 1..Len(got) : k \in 1..(Len(slot) - 1)
    BY <1>3, <1>7, <2>1, QFacts
  <2>3. QED
    BY <1>1, <1>7, <2>1, <2>2 DEF NoTakeBack, Back
<1>18. QED
  BY <1>12, <1>14, <1>15, <1>16, <1>17 DEF QInv

\* Pop leaves a chunk exactly if no live cell, nor the end, is in it.
LEMMA TakeQ ==
  ASSUME IInv, QInv, ReaderTake
  PROVE  QInv'
<1> DEFINE L == Len(place)
           b == begin.chunk
<1>1. /\ got' = Append(got, FrontValue) /\ place' = Tail(place) /\ front' = front + 1
      /\ rdpc = "take" /\ rdpc' = (IF old' = NoChunk THEN "read" ELSE "pop")
      /\ UNCHANGED <<back, end, spare, slot, wrpc>>
      /\ IF begin.pos + 1 = N
         THEN /\ begin' = Cell(heap[b].next, 0) /\ old' = b
              /\ heap' = [heap EXCEPT ![heap[b].next].prev = NoChunk]
         ELSE begin' = Cell(b, begin.pos + 1) /\ heap' = heap /\ old' = old
  BY DEF ReaderTake, Pop, QueuePop
<1>2. begin = place[1] /\ back = place[L - 1] /\ end = place[L] /\ (wrpc = "push" <=> end.pos = N)
  BY DEF QInv, Placed
<1>3. front <= Len(slot) /\ Len(slot) \in Nat /\ front \in Nat
  BY <1>1 DEF IInv, Type, Pointers, Reader, Back
<1>4. L \in Nat /\ L >= 3
  <2>1. L = (Len(slot) + 3) - front
    BY QFacts
  <2>2. QED
    BY <1>3, <2>1
<1>5. /\ 1 \in 1..L /\ 1 \in 1..(L - 1) /\ 1 \in 1..(L - 2) /\ 2 \in 1..L /\ 2 \in 1..(L - 1)
      /\ L - 1 \in 1..L /\ L \in 1..L
  BY <1>4
<1>6. old = NoChunk /\ b \in InUse /\ b \in Allocated /\ b \in Chunks /\ begin.pos \in 0..N-1
      /\ N \in Nat /\ N >= 1
  BY <1>1, <1>2, <1>5, QFacts DEF QInv, QType
<1>7. /\ place' \in Seq(Places) /\ Len(place') = L - 1 /\ DOMAIN place' = 1..(L - 1)
      /\ \A k \in 1..(L - 1) : place'[k] = place[k + 1]
  <2>1. place \in Seq(Places) /\ place # <<>>
    BY <1>4 DEF QInv, QType
  <2>2. QED
    BY <1>1, <1>4, <2>1, HeadTailProperties
<1>8. \A k \in 1..(L - 1) : k + 1 \in 1..L /\ k + 1 \in DOMAIN place
  BY <1>4, QFacts
<1>9. FrontValue = slot[front] /\ FrontValue \in Nat
  <2>1. FrontValue = slot[front]
    <3>1. heap[place[1].chunk].values[place[1].pos] = slot[front + 1 - 1]
      BY <1>5 DEF QInv, Filled
    <3>2. front + 1 - 1 = front
      BY <1>3
    <3>3. QED
      BY <1>2, <3>1, <3>2 DEF FrontValue
  <2>2. FrontValue \in Nat
    BY <1>6, QFacts DEF FrontValue
  <2>3. QED
    BY <2>1, <2>2
<1>10. Ascending(place')
  <2>1. ASSUME NEW j \in 1..(L - 1), NEW k \in 1..(L - 1), j < k, place[j + 1].chunk = place[k + 1].chunk
        PROVE  place[j + 1].pos < place[k + 1].pos
    <3>1. j + 1 < k + 1
      BY <1>4, <2>1
    <3>2. QED
      BY <1>8, <2>1, <3>1 DEF QInv, Placed, Ascending
  <2>2. QED
    BY <1>7, <2>1 DEF Ascending
<1>11. \A k \in 2..L : (place[k].chunk = b) => begin.pos < place[k].pos
  <2>1. ASSUME NEW k \in 2..L PROVE k \in DOMAIN place /\ 1 \in DOMAIN place /\ 1 < k
    BY <1>4, QFacts
  <2>2. QED
    BY <1>2, <2>1 DEF QInv, Placed, Ascending
<1>12. JoinedIn(heap, place[1], place[2])
  BY <1>5 DEF QInv, Placed, Linked
<1>13. InUse = {place[k].chunk : k \in 1..L} /\ InUse' = {place'[k].chunk : k \in 1..(L - 1)}
  BY <1>7, QFacts DEF InUse
<1>14. InUse' \subseteq InUse /\ \A k \in 2..L : place[k].chunk \in InUse'
  <2>1. ASSUME NEW k \in 1..(L - 1) PROVE place'[k].chunk \in InUse
    BY <1>7, <1>8, QFacts
  <2>2. ASSUME NEW k \in 2..L PROVE place[k].chunk \in InUse'
    <3>1. k - 1 \in 1..(L - 1) /\ (k - 1) + 1 = k
      BY <1>4
    <3>2. place'[k - 1] = place[k]
      BY <1>7, <3>1
    <3>3. QED
      BY <1>13, <3>1, <3>2
  <2>3. QED
    BY <1>13, <2>1, <2>2
<1>15. /\ Allocated = InUse \cup ({spare, old} \ {NoChunk})
       /\ spare \notin InUse /\ old \notin InUse /\ NoChunk \notin Chunks
       /\ heap \in [Allocated -> Chunk] /\ Allocated \subseteq Chunks
  BY QFacts DEF QInv, ChunksOwned, QType
<1>16. /\ heap' \in [Allocated -> Chunk] /\ Allocated' = Allocated
       /\ begin' = place[2] /\ old' \in Chunks \cup {NoChunk}
       /\ Allocated = InUse' \cup ({spare, old'} \ {NoChunk})
       /\ old' \notin InUse' /\ (spare # old' \/ old' = NoChunk)
       /\ \A chunk \in Allocated :
            heap'[chunk].values = heap[chunk].values /\ heap'[chunk].next = heap[chunk].next
       /\ \A k \in 3..L : (place[k].pos = 0) => heap'[place[k].chunk].prev = heap[place[k].chunk].prev
  <2>1. CASE begin.pos + 1 = N
    <3> DEFINE n == place[2].chunk
    <3>1. begin.pos = N - 1 /\ place[2].pos \in 0..N-1
      BY <1>5, <1>6, <2>1, QFacts
    <3>2. heap[b].next = n /\ place[2].pos = 0
      <4>1. place[2].pos # place[1].pos + 1
        BY <1>2, <1>6, <2>1, <3>1
      <4>2. QED
        BY <1>2, <1>12, <4>1 DEF JoinedIn
    <3>3. n \in Allocated /\ n \in Chunks /\ place[2] \in Places
      BY <1>5, QFacts
    <3>4. begin' = place[2]
      <4>1. begin' = Cell(n, 0)
        BY <1>1, <2>1, <3>2
      <4>2. QED
        BY <3>2, <3>3, <4>1 DEF Cell, Places
    <3>5. \A k \in 2..L : place[k].chunk # b
      <4>1. ASSUME NEW k \in 2..L, place[k].chunk = b PROVE FALSE
        <5>1. N - 1 < place[k].pos
          BY <1>11, <3>1, <4>1
        <5>2. k \in 1..L
          BY <1>4
        <5>3. place[k].pos \in 0..N
          BY <5>2, QFacts
        <5>4. k = L
          <6>1. ASSUME k # L PROVE FALSE
            <7>1. k \in 1..(L - 1)
              BY <1>4, <6>1
            <7>2. place[k].pos \in 0..N-1
              BY <7>1, QFacts
            <7>3. QED
              BY <1>6, <5>1, <7>2
          <6>2. QED
            BY <6>1
        <5>5. JoinedIn(heap, place[L - 1], place[L]) /\ place[L].pos # 0
          <6>1. L - 1 \in 1..(L - 1) /\ (L - 1) + 1 = L
            BY <1>4
          <6>2. QED
            BY <1>6, <5>1, <5>3, <5>4, <6>1 DEF QInv, Placed, Linked
        <5>6. place[L - 1].chunk = b /\ place[L].pos = place[L - 1].pos + 1
          BY <4>1, <5>4, <5>5 DEF JoinedIn
        <5>7. L - 1 \in 2..L
          BY <1>4
        <5>8. N - 1 < place[L - 1].pos
          BY <1>11, <3>1, <5>6, <5>7
        <5>9. place[L - 1].pos \in 0..N-1
          BY <1>4, QFacts
        <5>10. QED
          BY <1>6, <5>8, <5>9
      <4>2. QED
        BY <4>1
    <3>6. InUse' = InUse \ {b}
      <4>1. \A k \in 1..L : k = 1 \/ k \in 2..L
        BY <1>4
      <4>2. b \notin InUse'
        <5>1. ASSUME NEW k \in 1..(L - 1) PROVE place'[k].chunk # b
          <6>1. k + 1 \in 2..L
            BY <1>4
          <6>2. QED
            BY <1>7, <3>5, <6>1
        <5>2. QED
          BY <1>13, <5>1
      <4>3. \A x \in InUse : x = b \/ x \in InUse'
        BY <1>2, <1>13, <1>14, <4>1
      <4>4. QED
        BY <1>14, <4>2, <4>3
    <3> HIDE DEF n
    <3> DEFINE x == [heap[n] EXCEPT !.prev = NoChunk]
    <3>7. x \in Chunk /\ x.values = heap[n].values /\ x.next = heap[n].next
      <4>1. heap[n] \in Chunk
        BY <1>15, <3>3
      <4>2. QED
        BY <4>1 DEF Chunk
    <3>8. heap' = [heap EXCEPT ![n] = x]
      BY <1>1, <2>1, <3>2
    <3> HIDE DEF x
    <3>9. heap' \in [Allocated -> Chunk] /\ heap'[n] = x /\ \A chunk \in Allocated : chunk # n => heap'[chunk] = heap[chunk]
      BY <1>15, <3>3, <3>7, <3>8
    <3>10. \A chunk \in Allocated :
             heap'[chunk].values = heap[chunk].values /\ heap'[chunk].next = heap[chunk].next
      BY <3>7, <3>9
    <3>11. ASSUME NEW k \in 3..L, place[k].pos = 0 PROVE heap'[place[k].chunk].prev = heap[place[k].chunk].prev
      <4>1. k \in 1..L /\ k \in DOMAIN place /\ 2 \in DOMAIN place /\ 2 < k
        BY <1>4, QFacts
      <4>2. place[k].chunk # n
        BY <3>2, <3>11, <4>1 DEF QInv, Placed, Ascending, n
      <4>3. place[k].chunk \in Allocated
        BY <4>1, QFacts
      <4>4. QED
        BY <3>9, <4>2, <4>3
    <3>12. Allocated' = Allocated
      BY <3>9 DEF Allocated
    <3>13. old' = b /\ b # NoChunk /\ spare # b
      BY <1>1, <1>6, <1>15, <2>1
    <3>14. Allocated = InUse' \cup ({spare, old'} \ {NoChunk})
      BY <1>6, <1>15, <3>6, <3>13
    <3>15. QED
      BY <1>6, <3>4, <3>6, <3>9, <3>10, <3>11, <3>12, <3>13, <3>14
  <2>2. CASE begin.pos + 1 # N
    <3>1. begin' = Cell(b, begin.pos + 1) /\ heap' = heap /\ old' = old
      BY <1>1, <2>2
    <3>2. place[2].chunk = b /\ place[2].pos = begin.pos + 1 /\ place[2] \in Places
      BY <1>2, <1>5, <1>6, <1>12, <2>2, QFacts DEF JoinedIn
    <3>3. begin' = place[2]
      BY <3>1, <3>2 DEF Cell, Places
    <3>4. InUse' = InUse
      <4>1. \A k \in 1..L : k = 1 \/ k \in 2..L
        BY <1>4
      <4>2. 2 \in 2..L
        BY <1>4
      <4>3. \A x \in InUse : x \in InUse'
        BY <1>2, <1>13, <1>14, <3>2, <4>1, <4>2
      <4>4. QED
        BY <1>14, <4>3
    <3>5. QED
      BY <1>6, <1>15, <3>1, <3>3, <3>4 DEF Allocated
  <2>3. QED
    BY <2>1, <2>2
<1>17. got' \in Seq(Nat) /\ Len(got') = Len(got) + 1 /\ Len(got) \in Nat
       /\ (\A k \in 1..Len(got) : got'[k] = got[k]) /\ got'[Len(got) + 1] = FrontValue
  BY <1>1, <1>9, AppendFacts DEF QInv, QType
<1>18. QType'
  BY <1>1, <1>7, <1>15, <1>16, <1>17 DEF QInv, QType
<1>19. Linked(heap', place')
  <2>1. ASSUME NEW k \in 1..(L - 2) PROVE JoinedIn(heap', place'[k], place'[k + 1])
    <3>1. k + 1 \in 1..(L - 1) /\ k \in 1..(L - 1) /\ (k + 1) + 1 \in 3..L /\ k + 1 \in 1..L /\ (k + 1) + 1 \in 1..L
      BY <1>4
    <3>2. JoinedIn(heap, place[k + 1], place[(k + 1) + 1])
      BY <3>1 DEF QInv, Placed, Linked
    <3>3. place[k + 1].chunk \in Allocated /\ place[(k + 1) + 1].chunk \in Allocated
      BY <3>1, QFacts
    <3>4. JoinedIn(heap', place[k + 1], place[(k + 1) + 1])
      BY <1>16, <3>1, <3>2, <3>3 DEF JoinedIn
    <3>5. QED
      BY <1>7, <3>1, <3>4
  <2>2. Len(place') - 1 = L - 2
    BY <1>4, <1>7
  <2>3. QED
    BY <2>1, <2>2 DEF Linked
<1>20. Placed'
  <2>1. Len(place') = Back' - front' + 2
    <3>1. L = Back - front + 2 /\ Back = Len(slot) + 1
      BY DEF QInv, Placed, Back
    <3>2. Back' = Back
      BY <1>1 DEF Back
    <3>3. QED
      BY <1>1, <1>3, <1>7, <3>1, <3>2
  <2>2. place'[1] = begin' /\ place'[Len(place') - 1] = back' /\ place'[Len(place')] = end'
    <3>1. /\ Len(place') = L - 1 /\ (L - 1) - 1 \in 1..(L - 1) /\ L - 1 \in 1..(L - 1)
          /\ ((L - 1) - 1) + 1 = L - 1 /\ (L - 1) + 1 = L /\ 1 + 1 = 2
      BY <1>4, <1>7
    <3>2. QED
      BY <1>1, <1>2, <1>5, <1>7, <1>16, <3>1
  <2>3. \A k \in 1..(Len(place') - 1) : place'[k].pos < N
    <3>1. ASSUME NEW k \in 1..(L - 2) PROVE k \in 1..(L - 1) /\ k + 1 \in 1..(L - 1)
      BY <1>4
    <3>2. Len(place') - 1 = L - 2
      BY <1>4, <1>7
    <3>3. QED
      BY <1>7, <3>1, <3>2 DEF QInv, Placed
  <2>4. QED
    BY <1>1, <1>2, <1>10, <1>19, <2>1, <2>2, <2>3 DEF Placed
<1>21. Filled'
  <2>1. ASSUME NEW k \in 1..(L - 3)
        PROVE  heap'[place'[k].chunk].values[place'[k].pos] = slot[(front + 1) + k - 1]
    <3>1. k \in 1..(L - 1) /\ k + 1 \in 1..(L - 2) /\ k + 1 \in 1..L /\ front + (k + 1) - 1 = (front + 1) + k - 1
      BY <1>3, <1>4
    <3>2. heap'[place[k + 1].chunk].values = heap[place[k + 1].chunk].values
      BY <1>16, <3>1, QFacts
    <3>3. heap[place[k + 1].chunk].values[place[k + 1].pos] = slot[front + (k + 1) - 1]
      BY <3>1 DEF QInv, Filled
    <3>4. QED
      BY <1>7, <3>1, <3>2, <3>3
  <2>2. Len(place') - 2 = L - 3
    BY <1>4, <1>7
  <2>3. \A k \in 1..(L - 3) : heap'[place'[k].chunk].values[place'[k].pos] = slot'[front' + k - 1]
    BY <1>1, <2>1
  <2>4. QED
    BY <2>2, <2>3 DEF Filled
<1>22. ChunksOwned'
  BY <1>1, <1>14, <1>15, <1>16 DEF ChunksOwned
<1>23. NoTakeBack'
  <2>1. Len(got) = front - 1 /\ \A k \in 1..Len(got) : got[k] = slot[k]
    BY DEF QInv, NoTakeBack
  <2>2. Len(got) + 1 = front
    BY <1>3, <2>1
  <2>3. \A k \in 1..(Len(got) + 1) : got'[k] = slot[k]
    <3>1. ASSUME NEW k \in 1..(Len(got) + 1), k # Len(got) + 1 PROVE k \in 1..Len(got)
      BY <1>17, <3>1
    <3>2. QED
      BY <1>9, <1>17, <2>1, <2>2, <3>1
  <2>4. Len(got') = front' - 1 /\ front' <= Len(slot') + 1
    BY <1>1, <1>3, <1>17, <2>2
  <2>5. QED
    BY <1>1, <1>17, <2>3, <2>4 DEF NoTakeBack, Back
<1>24. QED
  BY <1>18, <1>20, <1>21, <1>22, <1>23 DEF QInv
\* The chunk that is freed is the one that was spare.
LEMMA PopQ ==
  ASSUME IInv, QInv, ReaderPop
  PROVE  QInv'
<1>1. /\ rdpc = "pop" /\ rdpc' = "read" /\ spare' = old /\ old' = NoChunk /\ heap' = Free(heap, spare)
      /\ UNCHANGED <<begin, back, end, slot, front, wrpc, place, got>>
  BY DEF ReaderPop, PopSpare, pipeVars
<1>2. /\ heap \in [Allocated -> Chunk] /\ Allocated \subseteq Chunks
      /\ spare \in Chunks \cup {NoChunk} /\ old \in Chunks /\ old # NoChunk
      /\ NoChunk \notin Chunks
  BY <1>1, QFacts DEF QInv, QType
<1>3. InUse' = InUse
  BY <1>1 DEF InUse
<1>4. /\ Allocated = InUse \cup ({spare, old} \ {NoChunk}) /\ spare # old
      /\ spare \notin InUse /\ old \notin InUse
  BY <1>2 DEF QInv, ChunksOwned
<1>5. /\ heap' \in [Allocated \ {spare} -> Chunk] /\ Allocated' = Allocated \ {spare}
      /\ \A chunk \in InUse : heap'[chunk] = heap[chunk]
  <2>1. Allocated = DOMAIN heap /\ heap' = [chunk \in Allocated \ {spare} |-> heap[chunk]]
    BY <1>1 DEF Free, Allocated
  <2>2. heap' \in [Allocated \ {spare} -> Chunk]
    BY <1>2, <2>1
  <2>3. Allocated' = Allocated \ {spare}
    BY <2>1 DEF Allocated
  <2>4. \A chunk \in InUse : chunk \in Allocated \ {spare}
    BY <1>4
  <2>5. QED
    BY <2>1, <2>2, <2>3, <2>4
<1>6. QType'
  BY <1>1, <1>2, <1>5 DEF QInv, QType
<1>7. Linked(heap', place)
  <2>1. ASSUME NEW k \in 1..(Len(place) - 1) PROVE JoinedIn(heap', place[k], place[k + 1])
    <3>1. k \in 1..Len(place) /\ k + 1 \in 1..Len(place)
      BY QFacts
    <3>2. place[k].chunk \in InUse /\ place[k + 1].chunk \in InUse
      BY <3>1, QFacts
    <3>3. JoinedIn(heap, place[k], place[k + 1])
      BY DEF QInv, Placed, Linked
    <3>4. QED
      BY <1>5, <3>2, <3>3 DEF JoinedIn
  <2>2. QED
    BY <2>1 DEF Linked
<1>8. Placed'
  BY <1>1, <1>7 DEF QInv, Placed, Ascending, Linked, JoinedIn, Back
<1>9. Filled'
  <2>1. ASSUME NEW k \in 1..(Len(place) - 2)
        PROVE  heap'[place[k].chunk].values[place[k].pos] = slot[front + k - 1]
    <3>1. k \in 1..Len(place)
      BY QFacts
    <3>2. place[k].chunk \in InUse
      BY <3>1, QFacts
    <3>3. QED
      BY <1>5, <3>2 DEF QInv, Filled
  <2>2. QED
    BY <1>1, <2>1 DEF Filled
<1>10. ChunksOwned'
  <2>1. Allocated' = InUse \cup ({old, NoChunk} \ {NoChunk})
    BY <1>2, <1>4, <1>5
  <2>2. NoChunk \notin InUse
    <3>1. \A k \in DOMAIN place : place[k].chunk \in Chunks
      BY QFacts
    <3>2. QED
      BY <1>2, <3>1 DEF InUse
  <2>3. QED
    BY <1>1, <1>3, <1>4, <2>1, <2>2 DEF ChunksOwned
<1>11. NoTakeBack'
  BY <1>1 DEF QInv, NoTakeBack, Back
<1>12. QED
  BY <1>6, <1>8, <1>9, <1>10, <1>11 DEF QInv

\* The steps that touch no cell.
Aside == WriterFlush \/ WriterFlushSet \/ WriterWake \/ ReaderCheck \/ ReaderWoken \/ UNCHANGED useVars

LEMMA OtherQ ==
  ASSUME IInv, QInv, Aside
  PROVE  QInv'
<1>1. /\ UNCHANGED <<heap, begin, back, end, spare, old, slot, front, place, got>>
      /\ rdpc' = rdpc \/ (rdpc # "pop" /\ rdpc' # "pop")
      /\ wrpc' = wrpc \/ (wrpc # "push" /\ wrpc' # "push")
  <2>1. CASE WriterFlush
    BY <2>1 DEF WriterFlush, FlushCas, pipeVars, queueVars
  <2>2. CASE WriterFlushSet
    BY <2>2 DEF WriterFlushSet, FlushSet, queueVars
  <2>3. CASE WriterWake
    BY <2>3 DEF WriterWake, pipeVars, queueVars
  <2>4. CASE ReaderCheck
    BY <2>4 DEF ReaderCheck, CheckRead, CheckReadOk, pipeVars, queueVars
  <2>5. CASE ReaderWoken
    BY <2>5 DEF ReaderWoken, pipeVars, queueVars
  <2>6. CASE UNCHANGED useVars
    BY <2>6 DEF useVars, pipeVars, queueVars
  <2>7. QED
    BY <2>1, <2>2, <2>3, <2>4, <2>5, <2>6 DEF Aside
<1>2. QType'
  BY <1>1 DEF QInv, QType, Allocated
<1>3. Placed'
  BY <1>1 DEF QInv, Placed, Ascending, Linked, JoinedIn, Back
<1>4. Filled'
  BY <1>1 DEF QInv, Filled
<1>5. ChunksOwned'
  BY <1>1 DEF QInv, ChunksOwned, InUse, Allocated
<1>6. NoTakeBack'
  BY <1>1 DEF QInv, NoTakeBack, Back
<1>7. QED
  BY <1>2, <1>3, <1>4, <1>5, <1>6 DEF QInv

LEMMA InitQ == Init => QInv
<1> SUFFICES ASSUME Init PROVE QInv
  OBVIOUS
<1> DEFINE blank == [values |-> [p \in 0..N-1 |-> 0], prev |-> NoChunk, next |-> NoChunk]
<1>1. /\ begin = Cell(1, 0) /\ back = Cell(1, 0)
      /\ spare = NoChunk /\ old = NoChunk /\ place = <<begin, end>> /\ slot = <<>> /\ got = <<>>
      /\ front = 1 /\ wrpc = "idle" /\ rdpc = "read"
  BY DEF Init, PipeInit, QueueInit
<1>2. /\ N \in Nat /\ N >= 1 /\ 1 \in Chunks /\ 2 \in Chunks /\ NoChunk \notin Chunks
      /\ NoChunk # 1 /\ NoChunk # 2
  BY ChunkAssumption DEF Chunks
<1>3. Allocate(<<>>, 1) = [k \in {1} |-> blank]
  <2>1. DOMAIN <<>> \cup {1} = {1}
    <3>1. DOMAIN <<>> = {}
      OBVIOUS
    <3>2. QED
      BY <3>1
  <2>2. Allocate(<<>>, 1) = [k \in DOMAIN <<>> \cup {1} |-> IF k = 1 THEN blank ELSE <<>>[k]]
    BY DEF Allocate
  <2>3. QED
    BY <2>1, <2>2
<1>4. blank \in Chunk /\ blank.next = NoChunk /\ blank.prev = NoChunk
  BY <1>2 DEF Chunk
<1> HIDE DEF blank
\* The chunk of the terminator is allocated, and that of the end.
<1>5. /\ Allocated = {begin.chunk, end.chunk} /\ heap \in [Allocated -> Chunk]
      /\ end \in Places /\ end.pos # N
      /\ JoinedIn(heap, begin, end) /\ (end.chunk = begin.chunk => begin.pos < end.pos)
  <2>1. CASE N > 1
    <3>1. heap = [k \in {1} |-> blank] /\ end = Cell(1, 1)
      BY <1>3, <2>1 DEF Init, QueueInit
    <3>2. QED
      BY <1>1, <1>2, <1>4, <2>1, <3>1 DEF Allocated, Places, JoinedIn, Cell
  <2>2. CASE ~(N > 1)
    <3> DEFINE h == [k \in {1} |-> blank]
               g == Allocate(h, 2)
    <3>1. N = 1
      BY <1>2, <2>2
    <3>2. heap = [g EXCEPT ![1].next = 2, ![2].prev = 1] /\ end = Cell(2, 0)
      BY <1>3, <2>2 DEF Init, QueueInit
    <3>3. g = [k \in {1, 2} |-> blank]
      <4>1. DOMAIN h \cup {2} = {1, 2}
        OBVIOUS
      <4>2. g = [k \in DOMAIN h \cup {2} |-> IF k = 2 THEN blank ELSE h[k]]
        BY DEF Allocate, blank
      <4>3. QED
        BY <4>1, <4>2
    <3> HIDE DEF g
    <3> DEFINE x == [g[1] EXCEPT !.next = 2]
               y == [g[2] EXCEPT !.prev = 1]
    <3>4. g \in [{1, 2} -> Chunk] /\ g[1] \in Chunk /\ g[2] \in Chunk
      BY <1>4, <3>3
    <3>5. x \in Chunk /\ x.next = 2 /\ y \in Chunk /\ y.prev = 1
      BY <1>2, <3>4 DEF Chunk
    <3>6. heap = [g EXCEPT ![1] = x, ![2] = y]
      BY <3>2, <3>4
    <3> HIDE DEF x, y
    <3>7. heap \in [{1, 2} -> Chunk] /\ heap[1].next = 2 /\ heap[2].prev = 1
      BY <3>4, <3>5, <3>6
    <3>8. Allocated = {1, 2}
      BY <3>7 DEF Allocated
    <3>9. QED
      BY <1>1, <1>2, <3>1, <3>2, <3>7, <3>8 DEF Places, JoinedIn, Cell
  <2>3. QED
    BY <2>1, <2>2
<1>6. begin \in Places /\ begin.chunk = 1 /\ begin.pos = 0
  BY <1>1, <1>2 DEF Cell, Places
<1>7. Len(place) = 2 /\ DOMAIN place = 1..2 /\ place[1] = begin /\ place[2] = end
  BY <1>1
<1>8. QType
  <2>1. place \in Seq(Places) /\ got \in Seq(Nat)
    BY <1>1, <1>5, <1>6
  <2>2. begin.chunk \in Chunks /\ end.chunk \in Chunks
    BY <1>5, <1>6 DEF Places
  <2>3. QED
    BY <1>1, <1>2, <1>5, <2>1, <2>2 DEF QType
<1>9. Placed
  <2>1. Len(place) - 1 = 1 /\ Back = 1
    BY <1>1, <1>7 DEF Back
  <2>2. Len(place) = Back - front + 2
    BY <1>1, <1>7, <2>1
  <2>3. Ascending(place)
    BY <1>5, <1>7 DEF Ascending
  <2>4. Linked(heap, place)
    BY <1>5, <1>7, <2>1 DEF Linked
  <2>5. begin.pos < N
    BY <1>2, <1>6
  <2>6. QED
    BY <1>1, <1>5, <1>7, <2>1, <2>2, <2>3, <2>4, <2>5 DEF Placed
<1>10. Filled
  BY <1>7 DEF Filled
<1>11. ChunksOwned
  <2>1. InUse = {begin.chunk, end.chunk}
    BY <1>7 DEF InUse
  <2>2. NoChunk \notin InUse
    BY <1>2, <1>5, <1>6, <2>1 DEF Places
  <2>3. QED
    BY <1>1, <1>5, <2>1, <2>2 DEF ChunksOwned
<1>12. NoTakeBack
  BY <1>1 DEF NoTakeBack, Back
<1>13. QED
  BY <1>8, <1>9, <1>10, <1>11, <1>12 DEF QInv

LEMMA QNext == IInv /\ QInv /\ [Next]_useVars => QInv'
<1> SUFFICES ASSUME IInv, QInv, [Next]_useVars PROVE QInv'
  OBVIOUS
<1>1. ASSUME NEW incomplete \in BOOLEAN, WriterWrite(incomplete) PROVE QInv'
  BY <1>1, WriteQ
<1>2. CASE WriterUnWrite
  BY <1>2, UnWriteQ
<1>3. CASE WriterPush
  BY <1>3, PushQ
<1>4. CASE ReaderTake
  BY <1>4, TakeQ
<1>5. CASE ReaderPop
  BY <1>5, PopQ
<1>6. CASE Aside
  BY <1>6, OtherQ
<1>7. QED
  BY <1>1, <1>2, <1>3, <1>4, <1>5, <1>6 DEF Next, FlushEnd, ReaderStep, Aside

LEMMA QInvariance == Spec => [](IInv /\ QInv)
<1>1. Init => IInv /\ QInv
  BY IndInit, InitQ
<1>2. (IInv /\ QInv) /\ [Next]_useVars => (IInv /\ QInv)'
  BY IndNext, QNext
<1>3. QED
  BY <1>1, <1>2, PTL DEF Spec

\* However many items are written and taken back, and wherever chunk
\* boundaries fall: what Read has returned is what Write put there, cell by
\* cell, and UnWrite has never reached a cell that was read.
THEOREM Read == Spec => []NoTakeBack
<1>1. QInv => NoTakeBack
  BY DEF QInv
<1>2. QED
  BY <1>1, QInvariance, PTL

\* For every chunk size: each live cell is in an allocated chunk, at the place
\* Push gave it, with the value written, alone, and joined to its neighbours,
\* so that Pop and UnPush walk to the cell the pipe means.
THEOREM InPlace == Spec => []CellsInPlace
<1>1. ASSUME IInv, QInv PROVE CellsInPlace
  <2> DEFINE at(i) == place[i - front + 1]
             L == Len(place)
  <2>1. L = Back - front + 2 /\ front \in Nat /\ Back \in Nat /\ L \in Nat /\ L >= 2
    BY <1>1, QFacts DEF QInv, Placed, Back
  <2>2. \A i \in front..Back : /\ i - front + 1 \in 1..(L - 1) /\ i - front + 1 \in 1..L
                               /\ (i - front + 1) + 1 \in 1..L
                               /\ (i + 1) - front + 1 = (i - front + 1) + 1
    BY <2>1
  <2>3. \A i \in front..Back : at(i).chunk \in Allocated /\ at(i).pos < N
    BY <1>1, <2>2, QFacts DEF QInv, Placed
  <2>4. ASSUME NEW i \in front..Back PROVE Joined(at(i), at(i + 1))
    <3> DEFINE k == i - front + 1
    <3>1. JoinedIn(heap, place[k], place[k + 1]) /\ at(i + 1) = place[k + 1]
      BY <1>1, <2>2 DEF QInv, Placed, Linked
    <3>2. place[k] \in Places /\ place[k + 1] \in Places
      BY <1>1, <2>2, QFacts
    <3> HIDE DEF k
    <3>3. Joined(place[k], place[k + 1])
      BY <3>1, <3>2 DEF JoinedIn, Joined, Cell, Places
    <3>4. QED
      BY <3>1, <3>3 DEF k
  <2>5. ASSUME NEW i \in front..Back, NEW j \in front..Back, at(i) = at(j) PROVE i = j
    <3> DEFINE k == i - front + 1
               m == j - front + 1
    <3>1. k \in 1..L /\ m \in 1..L /\ k \in Nat /\ m \in Nat /\ place[k] = place[m]
      BY <2>2, <2>5
    <3>2. DOMAIN place = 1..L
      BY <1>1, QFacts
    <3>3. k = m => i = j
      BY <2>1
    <3> HIDE DEF k, m
    <3>4. place[k].pos \in 0..N /\ place[m].pos \in 0..N /\ N \in Nat
      BY <1>1, <3>1, QFacts
    <3>5. ~(k < m) /\ ~(m < k)
      BY <1>1, <3>1, <3>2, <3>4 DEF QInv, Placed, Ascending
    <3>6. QED
      BY <3>1, <3>3, <3>5
  <2>6. ASSUME NEW i \in (front..Back) \ {Back} PROVE heap[at(i).chunk].values[at(i).pos] = slot[i]
    <3>1. i - front + 1 \in 1..(L - 2) /\ front + (i - front + 1) - 1 = i
      BY <2>1
    <3>2. QED
      BY <1>1, <3>1 DEF QInv, Filled
  <2>7. begin = at(front) /\ back = at(Back) /\ end = at(Back + 1)
    <3>1. front - front + 1 = 1 /\ Back - front + 1 = L - 1 /\ (Back + 1) - front + 1 = L
      BY <2>1
    <3>2. QED
      BY <1>1, <3>1 DEF QInv, Placed
  <2>8. QED
    BY <2>1, <2>3, <2>4, <2>5, <2>6, <2>7 DEF CellsInPlace
<1>2. QED
  BY <1>1, QInvariance, PTL

\* With whatever chunks the heap has, none is lost, and none is freed or made
\* the spare while a cell or the end is in it.
THEOREM Chunked == Spec => []ChunksOwned
<1>1. QInv => ChunksOwned
  BY DEF QInv
<1>2. QED
  BY <1>1, QInvariance, PTL
=============================================================================
