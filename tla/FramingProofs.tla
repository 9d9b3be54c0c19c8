----------------------------- MODULE FramingProofs -----------------------------
(***************************************************************************)
(* Framing for buffers, packets, reads and writes of every size and        *)
(* number, also when write(2) takes more than is left of the buffer that   *)
(* ReadPoint points into.                                                  *)
(***************************************************************************)
EXTENDS Framing, SequenceTheorems, TLAPS

BufferTypes ==
  /\ next \in [Buffers -> Buffers \cup {NULL}]
  /\ data \in [Buffers -> [1..BufferSize -> Byte]]
  /\ pool \in Seq(Buffers) /\ made \in 1..MaxBuffers
  /\ read \in [Lists -> Buffers] /\ write \in [Lists -> Buffers]
  /\ rinx \in [Lists -> Nat] /\ winx \in [Lists -> Nat]
  /\ rsize \in [Lists -> Nat] /\ wsize \in [Lists -> Nat]
  /\ chain \in [Lists -> Seq(Cell)] /\ gone \in [Lists -> Nat]

PacketTypes ==
  /\ sent \in Seq(Sizes) /\ start \in Seq(Nat) /\ from \in Nat
  /\ onWire \in Seq(Byte) /\ taken \in Nat
  /\ state \in {"header", "packet"}
  /\ packet \in [pkt : Nat, size : Sizes] \cup {NULL}
  /\ copied \in Seq(Byte) /\ got \in Seq([pkt : Nat, content : Seq(Byte)])
  /\ pc \in {"poll", "send", "recv", "parse", "read"}

\* Only buffers that were allocated are in use.
Allocated ==
  /\ \A k \in DOMAIN pool : pool[k] <= made
  /\ \A l \in Lists : \A i \in Held(l) : chain[l][i].buf <= made

\* Every buffer of list l but the last is full.
Full(l) ==
  \A i \in Held(l) : i < Len(chain[l]) =>
    chain[l][i].before + BufferSize <= chain[l][Len(chain[l])].before

\* The worker's buffers.
Buffered ==
  /\ NoSharing /\ Allocated
  /\ \A l \in Lists : Linked(l) /\ Full(l) /\ Holds(l)

\* Where each packet starts among all bytes sent.
Starts ==
  /\ Len(start) = Len(sent) + 1
  /\ \A p \in 1..Len(sent) : \A q \in 1..Len(start) :
       /\ q = p + 1 => start[q] = start[p] + Meta + sent[p]
       /\ p < q => start[p] + Meta + sent[p] <= start[q]

\* How far the bytes sent have come: to write_list_, to the kernel and to
\* read_list_.
Flow ==
  /\ IF pc = "send"
     THEN /\ sent # <<>> /\ from < Meta + sent[Len(sent)]
          /\ wsize["write"] = start[Len(sent)] + from
     ELSE wsize["write"] = Total
  /\ Len(onWire) = rsize["write"] /\ wsize["read"] = taken /\ taken <= Len(onWire)
  /\ \A i \in 1..Clean : IsByte(onWire[i], i)

\* How many bytes had been read when the current Read began.
Begun == rsize["read"] - Len(copied)

\* How far the current Read is.
Reading ==
  /\ Len(copied) <= rsize["read"]
  /\ \A k \in 1..Len(copied) : copied[k] = onWire[Begun + k]
  /\ state = "packet" => packet \in [pkt : Nat, size : Sizes]
  /\ IF pc = "read"
     THEN Len(copied) <= Wanted /\ Begun + Wanted <= wsize["read"]
     ELSE copied = <<>>

\* Where the next header, or content, of the packets sent begins.
Parsed == start[Len(got) + 1] + (IF state = "packet" THEN Meta ELSE 0)

\* got[k] is the k-th packet sent.
IsSent(k) == got[k] = [pkt |-> k, content |-> Content(k)]

\* The parser reads what was sent, packet by packet, and has not read past
\* what went out before write(2) ran past a buffer.
OnTrack ==
  /\ Len(got) <= Len(sent) /\ \A k \in 1..Len(got) : IsSent(k)
  /\ state = "packet" => /\ Len(got) < Len(sent)
                         /\ packet = [pkt |-> Len(got) + 1, size |-> sent[Len(got) + 1]]
  /\ Begun = Parsed /\ Parsed <= Clean
  /\ pc \in {"poll", "send"} => wsize["read"] < Parsed + Wanted

\* The parser has read past that, and what was whole came out before.
OffTrack ==
  /\ Overrun /\ Clean < Begun
  /\ \A k \in 1..Len(sent) : start[k + 1] <= Clean => k <= Len(got) /\ IsSent(k)

Parsing == Reading /\ (OnTrack \/ OffTrack)

IInv == BufferTypes /\ PacketTypes /\ Buffered /\ Starts /\ Flow /\ Parsing

----------------------------------------------------------------------------
(* The pool.                                                               *)

LEMMA Constants ==
  /\ BufferSize \in Nat /\ BufferSize >= 1 /\ Grow \in Nat /\ Grow >= 2
  /\ MaxBuffers \in Nat /\ MaxBuffers >= Grow
  /\ Meta \in Nat /\ Meta >= 1 /\ Sizes \subseteq Nat
  /\ "write" \in Lists /\ "read" \in Lists
BY BufferAssumption, FramingAssumption

\* What the pool offers when a buffer is wanted, after allocate() if it was
\* empty.
LEMMA Offered ==
  ASSUME BufferTypes, NoSharing, Allocated, MadeThen <= MaxBuffers
  PROVE  /\ MadeThen \in Nat /\ made <= MadeThen
         /\ Stocked \in Seq(Buffers) /\ Stocked # <<>>
         /\ \A k \in 1..Len(Stocked) : Stocked[k] <= MadeThen
         /\ \A j, k \in 1..Len(Stocked) : Stocked[j] = Stocked[k] => j = k
         /\ \A l \in Lists : \A i \in Held(l) : \A k \in 1..Len(Stocked) :
              Stocked[k] # chain[l][i].buf
         /\ \A b \in 1..MadeThen : \/ \E k \in 1..Len(Stocked) : Stocked[k] = b
                                   \/ \E l \in Lists : \E i \in Held(l) : chain[l][i].buf = b
<1>1. made \in Nat /\ made >= 1 /\ pool \in Seq(Buffers)
  BY DEF BufferTypes
<1>2. CASE pool # <<>>
  <2>1. Stocked = pool /\ MadeThen = made /\ DOMAIN pool = 1..Len(pool)
    BY <1>1, <1>2 DEF Stocked, MadeThen
  <2>2. QED
    BY <1>1, <1>2, <2>1 DEF NoSharing, Allocated
<1>3. CASE pool = <<>>
  <2>1. /\ Stocked = [k \in 1..Grow |-> made + k] /\ MadeThen = made + Grow
        /\ DOMAIN pool = {}
    BY <1>3 DEF Stocked, MadeThen
  <2>2. Stocked \in [1..Grow -> Buffers]
    BY <1>1, <2>1, Constants DEF Buffers
  <2>3. Stocked \in Seq(Buffers) /\ Len(Stocked) = Grow
    BY <2>1, <2>2, Constants
  <2>4. Stocked # <<>>
    BY <2>3, Constants, EmptySeq
  <2>5. \A k \in 1..Grow : Stocked[k] = made + k
    BY <2>1
  <2>6. \A l \in Lists : \A i \in Held(l) : chain[l][i].buf <= made /\ chain[l][i].buf \in Nat
    <3>1. ASSUME NEW l \in Lists, NEW i \in Held(l)
          PROVE  chain[l][i].buf <= made /\ chain[l][i].buf \in Nat
      <4>1. chain[l] \in Seq(Cell) /\ gone[l] \in Nat
        BY DEF BufferTypes
      <4>2. i \in 1..Len(chain[l])
        BY <4>1 DEF Held
      <4>3. chain[l][i] \in Cell
        BY <4>1, <4>2
      <4>4. QED
        BY <3>1, <4>3 DEF Allocated, Cell, Buffers
    <3>2. QED
      BY <3>1
  <2>7. \A l \in Lists : \A i \in Held(l) : \A k \in 1..Grow : Stocked[k] # chain[l][i].buf
    BY <1>1, <2>5, <2>6
  <2>8. ASSUME NEW b \in 1..MadeThen
        PROVE  \/ \E k \in 1..Grow : Stocked[k] = b
               \/ \E l \in Lists : \E i \in Held(l) : chain[l][i].buf = b
    <3>1. CASE b <= made
      <4>1. b \in 1..made
        BY <1>1, <3>1
      <4>2. QED
        BY <2>1, <4>1 DEF NoSharing
    <3>2. CASE ~(b <= made)
      <4>1. b - made \in 1..Grow /\ made + (b - made) = b
        BY <1>1, <2>1, <3>2, Constants
      <4>2. QED
        BY <2>5, <4>1
    <3>3. QED
      BY <3>1, <3>2
  <2>9. /\ MadeThen \in Nat /\ made <= MadeThen
        /\ \A k \in 1..Grow : Stocked[k] <= MadeThen
        /\ \A j, k \in 1..Grow : Stocked[j] = Stocked[k] => j = k
    BY <1>1, <2>1, <2>5, Constants
  <2>10. QED
    BY <2>3, <2>4, <2>7, <2>8, <2>9
<1>4. QED
  BY <1>2, <1>3

----------------------------------------------------------------------------
(* Writing to a list.                                                      *)

\* The types of one list's members.
LEMMA Members ==
  ASSUME BufferTypes, NEW l \in Lists
  PROVE  /\ rinx[l] \in Nat /\ winx[l] \in Nat /\ rsize[l] \in Nat /\ wsize[l] \in Nat
         /\ read[l] \in Buffers /\ write[l] \in Buffers
         /\ chain[l] \in Seq(Cell) /\ Len(chain[l]) \in Nat /\ gone[l] \in Nat
BY DEF BufferTypes

LEMMA Places ==
  ASSUME BufferTypes, NEW l \in Lists, NEW i \in Held(l)
  PROVE  /\ i \in 1..Len(chain[l]) /\ i > gone[l] /\ i \in Nat
         /\ chain[l][i].buf \in Buffers /\ chain[l][i].before \in Nat
<1>1. chain[l] \in Seq(Cell) /\ gone[l] \in Nat /\ Len(chain[l]) \in Nat
  BY Members
<1>2. i \in 1..Len(chain[l]) /\ i > gone[l] /\ i \in Nat
  BY <1>1 DEF Held
<1>3. chain[l][i] \in Cell
  BY <1>1, <1>2
<1>4. QED
  BY <1>2, <1>3 DEF Cell

\* The places of read_ and of write_.
LEMMA Ends ==
  ASSUME BufferTypes, NEW l \in Lists, Linked(l)
  PROVE  /\ gone[l] + 1 \in Held(l) /\ Len(chain[l]) \in Held(l)
         /\ gone[l] + 1 \in 1..Len(chain[l])
BY Members DEF Held, Linked

\* bytes[1..n] are the next n bytes of the stream for list l.
NextBytes(l, n, bytes) ==
  bytes \in [1..n -> Byte] /\ \A k \in 1..n : IsPut(l, bytes[k], wsize[l] + k)

\* write_size_ of list m after n bytes were written to list l.
SizeThen(m, l, n) == IF m = l THEN wsize[l] + n ELSE wsize[m]

\* After the memcpy, a place holds what it should, by the write_size_ after it.
LEMMA FilledHolds ==
  ASSUME BufferTypes, Buffered, NEW l \in Lists, NEW n \in 1..WriteableSize(l),
         NEW bytes, NextBytes(l, n, bytes),
         NEW m \in Lists, NEW i \in Held(m), NEW j \in 1..BufferSize,
         NEW at, at = chain[m][i].before + j, rsize[m] < at, at <= SizeThen(m, l, n)
  PROVE  IsPut(m, [data EXCEPT ![write[l]] = Filled(l, n, bytes)][chain[m][i].buf][j], at)
<1> DEFINE last == Len(chain[l])
           filled == [data EXCEPT ![write[l]] = Filled(l, n, bytes)]
<1>1. /\ Linked(l) /\ Full(l) /\ Holds(l) /\ Linked(m) /\ Full(m) /\ Holds(m)
      /\ NoSharing
  BY DEF Buffered
<1>2. /\ winx[l] \in Nat /\ wsize[l] \in Nat /\ rsize[l] \in Nat /\ write[l] \in Buffers
      /\ wsize[m] \in Nat /\ rsize[m] \in Nat
  BY Members
<1>3. /\ chain[m][i].buf \in Buffers /\ chain[m][i].before \in Nat /\ i \in Nat
      /\ i \in 1..Len(chain[m]) /\ Len(chain[m]) \in Nat
  BY Places, Members
<1>4. /\ last \in Held(l) /\ write[l] = chain[l][last].buf /\ chain[l][last].before \in Nat
      /\ wsize[l] = chain[l][last].before + winx[l]
  BY <1>1, Ends, Places DEF Linked
<1>5. n \in Nat /\ n >= 1 /\ j \in Nat /\ j >= 1 /\ j <= BufferSize /\ BufferSize \in Nat
  BY <1>2, Constants DEF WriteableSize
<1>6. data \in [Buffers -> [1..BufferSize -> Byte]]
  BY DEF BufferTypes
<1>7. CASE chain[m][i].buf = write[l]
  <2>1. m = l /\ i = last
    BY <1>1, <1>4, <1>7 DEF NoSharing
  <2>2. filled[chain[m][i].buf][j]
          = IF winx[l] < j /\ j <= winx[l] + n THEN bytes[j - winx[l]] ELSE data[write[l]][j]
    BY <1>2, <1>6, <1>7 DEF Filled
  <2>3. at <= wsize[l] + n /\ at = chain[l][last].before + j
    BY <2>1 DEF SizeThen
  <2> HIDE DEF filled, last
  <2>4. CASE winx[l] < j
    <3>1. j <= winx[l] + n /\ j - winx[l] \in 1..n /\ at = wsize[l] + (j - winx[l])
      BY <1>2, <1>4, <1>5, <2>3, <2>4
    <3>2. filled[chain[m][i].buf][j] = bytes[j - winx[l]]
      BY <2>2, <2>4, <3>1
    <3>3. IsPut(m, bytes[j - winx[l]], at)
      BY <2>1, <3>1 DEF NextBytes
    <3>4. QED
      BY <3>2, <3>3 DEF filled
  <2>5. CASE ~(winx[l] < j)
    <3>1. at <= wsize[m]
      BY <1>2, <1>4, <1>5, <2>1, <2>3, <2>5
    <3>2. filled[chain[m][i].buf][j] = data[chain[m][i].buf][j]
      BY <1>7, <2>2, <2>5
    <3>3. IsPut(m, data[chain[m][i].buf][j], at)
      BY <1>1, <3>1 DEF Holds
    <3>4. QED
      BY <3>2, <3>3 DEF filled
  <2>6. QED
    BY <2>4, <2>5
<1>8. CASE chain[m][i].buf # write[l]
  <2>1. filled[chain[m][i].buf][j] = data[chain[m][i].buf][j]
    BY <1>2, <1>3, <1>6, <1>8
  <2>2. at <= wsize[m]
    <3>1. CASE m = l
      <4>1. i < last
        BY <1>3, <1>4, <1>8, <3>1
      <4>2. chain[m][i].before + BufferSize <= chain[l][last].before
        BY <1>1, <3>1, <4>1 DEF Full
      <4> HIDE DEF last
      <4>3. at <= chain[m][i].before + BufferSize
        BY <1>3, <1>5
      <4>4. chain[l][last].before <= wsize[l] /\ wsize[l] \in Nat
        BY <1>2, <1>4
      <4>5. at \in Nat /\ chain[m][i].before + BufferSize \in Nat
        BY <1>3, <1>5
      <4>6. at <= wsize[l]
        BY <1>4, <4>2, <4>3, <4>4, <4>5
      <4>7. QED
        BY <3>1, <4>6
    <3>2. QED
      BY <3>1 DEF SizeThen
  <2>3. IsPut(m, data[chain[m][i].buf][j], at)
    BY <1>1, <2>2 DEF Holds
  <2>4. QED
    BY <2>1, <2>3
<1>9. QED
  BY <1>7, <1>8

LEMMA Taken ==
  ASSUME BufferTypes, NoSharing, Allocated, MadeThen <= MaxBuffers
  PROVE  /\ Head(Stocked) = Stocked[1] /\ Head(Stocked) \in Buffers
         /\ 1 \in 1..Len(Stocked) /\ Len(Stocked) \in Nat
         /\ AfterGet(Stocked) \in Seq(Buffers)
         /\ Len(AfterGet(Stocked)) = Len(Stocked) - 1
         /\ \A k \in 1..(Len(Stocked) - 1) :
              k + 1 \in 1..Len(Stocked) /\ AfterGet(Stocked)[k] = Stocked[k + 1]
<1>1. Stocked \in Seq(Buffers) /\ Stocked # <<>>
  BY Offered
<1>2. Len(Stocked) \in Nat /\ Len(Stocked) >= 1
  BY <1>1, EmptySeq
<1>3. /\ Head(Stocked) \in Buffers
      /\ Tail(Stocked) \in Seq(Buffers) /\ Len(Tail(Stocked)) = Len(Stocked) - 1
      /\ \A k \in 1..Len(Tail(Stocked)) : Tail(Stocked)[k] = Stocked[k + 1]
  BY <1>1, HeadTailProperties
<1>4. Head(Stocked) = Stocked[1]
  BY <1>1
<1>5. QED
  BY <1>2, <1>3, <1>4 DEF AfterGet

LEMMA Longer ==
  ASSUME BufferTypes, NEW l \in Lists, NEW c \in Buffers, NEW x \in Nat
  PROVE  LET longer == Append(chain[l], [buf |-> c, before |-> x]) IN
         /\ longer \in Seq(Cell) /\ Len(longer) = Len(chain[l]) + 1
         /\ \A i \in 1..Len(chain[l]) : longer[i] = chain[l][i]
         /\ longer[Len(chain[l]) + 1].buf = c
         /\ longer[Len(chain[l]) + 1].before = x
<1>1. [buf |-> c, before |-> x] \in Cell /\ chain[l] \in Seq(Cell)
  BY Members DEF Cell
<1>2. QED
  BY <1>1, AppendProperties

\* What a successor of a full buffer changes.
LEMMA Grown ==
  ASSUME BufferTypes, Buffered, NEW l \in Lists, NEW n \in Nat, NewBuffer(l, n), gone' = gone
  PROVE  /\ Len(chain'[l]) = Len(chain[l]) + 1
         /\ \A i \in 1..Len(chain[l]) : chain'[l][i] = chain[l][i]
         /\ chain'[l][Len(chain[l]) + 1].buf = Head(Stocked)
         /\ chain'[l][Len(chain[l]) + 1].before = wsize[l] + n
         /\ chain'[l] \in Seq(Cell)
         /\ \A m \in Lists : m # l => chain'[m] = chain[m] /\ Held(m)' = Held(m)
         /\ Held(l)' = Held(l) \cup {Len(chain[l]) + 1}
<1>1. MadeThen <= MaxBuffers /\ NoSharing /\ Allocated /\ Linked(l)
  BY DEF NewBuffer, Buffered
<1>2. wsize[l] + n \in Nat /\ Len(chain[l]) \in Nat /\ gone[l] \in Nat /\ gone[l] < Len(chain[l])
  BY <1>1, Members DEF Linked
<1>3. Head(Stocked) \in Buffers
  BY <1>1, Taken
<1>4. chain'[l] = Append(chain[l], [buf |-> Head(Stocked), before |-> wsize[l] + n])
  BY DEF NewBuffer, BufferTypes
<1>5. \A m \in Lists : m # l => chain'[m] = chain[m]
  BY DEF NewBuffer, BufferTypes
<1>6. /\ Len(chain'[l]) = Len(chain[l]) + 1
      /\ \A i \in 1..Len(chain[l]) : chain'[l][i] = chain[l][i]
      /\ chain'[l][Len(chain[l]) + 1].buf = Head(Stocked)
      /\ chain'[l][Len(chain[l]) + 1].before = wsize[l] + n
      /\ chain'[l] \in Seq(Cell)
  BY <1>2, <1>3, <1>4, Longer
<1>7. \A m \in Lists : m # l => Held(m)' = Held(m)
  BY <1>5 DEF Held
<1>8. Held(l)' = Held(l) \cup {Len(chain[l]) + 1}
  <2>1. Held(l)' = (gone[l] + 1)..(Len(chain[l]) + 1)
    BY <1>6 DEF Held
  <2>2. QED
    BY <1>2, <2>1 DEF Held
<1>9. QED
  BY <1>5, <1>6, <1>7, <1>8

LEMMA WriteTypes ==
  ASSUME BufferTypes, Buffered, NEW l \in Lists, NEW n \in 1..WriteableSize(l),
         NEW bytes, NextBytes(l, n, bytes), WriteAdvance(l, n, bytes)
  PROVE  BufferTypes'
<1>1. /\ winx[l] \in Nat /\ wsize[l] \in Nat /\ write[l] \in Buffers
      /\ n \in Nat /\ winx[l] + n <= BufferSize
  BY Members, Constants DEF WriteableSize
<1>2. Filled(l, n, bytes) \in [1..BufferSize -> Byte]
  <2>1. ASSUME NEW k \in 1..BufferSize
        PROVE  (IF winx[l] < k /\ k <= winx[l] + n THEN bytes[k - winx[l]]
                ELSE data[write[l]][k]) \in Byte
    <3>1. CASE winx[l] < k /\ k <= winx[l] + n
      <4>1. k - winx[l] \in 1..n
        BY <1>1, <3>1, Constants
      <4>2. QED
        BY <3>1, <4>1 DEF NextBytes
    <3>2. CASE ~(winx[l] < k /\ k <= winx[l] + n)
      <4>1. data[write[l]] \in [1..BufferSize -> Byte]
        BY <1>1 DEF BufferTypes
      <4>2. data[write[l]][k] \in Byte
        BY <4>1
      <4>3. QED
        BY <3>2, <4>2
    <3>3. QED
      BY <3>1, <3>2
  <2>2. QED
    BY <2>1 DEF Filled
<1>3. /\ data' = [data EXCEPT ![write[l]] = Filled(l, n, bytes)]
      /\ wsize' = [wsize EXCEPT ![l] = @ + n]
      /\ UNCHANGED <<read, rinx, rsize, gone>>
  BY DEF WriteAdvance
<1>4. /\ data' \in [Buffers -> [1..BufferSize -> Byte]]
      /\ wsize' \in [Lists -> Nat] /\ read' \in [Lists -> Buffers]
      /\ rinx' \in [Lists -> Nat] /\ rsize' \in [Lists -> Nat] /\ gone' \in [Lists -> Nat]
  BY <1>1, <1>2, <1>3 DEF BufferTypes
<1>5. CASE NewBuffer(l, n)
  <2>1. /\ MadeThen <= MaxBuffers /\ made' = MadeThen /\ pool' = AfterGet(Stocked)
        /\ next' = [next EXCEPT ![write[l]] = Head(Stocked)]
        /\ write' = [write EXCEPT ![l] = Head(Stocked)]
        /\ winx' = [winx EXCEPT ![l] = 0]
    BY <1>5 DEF NewBuffer
  <2>2. NoSharing /\ Allocated
    BY DEF Buffered
  <2>3. /\ Head(Stocked) \in Buffers /\ AfterGet(Stocked) \in Seq(Buffers)
        /\ MadeThen \in Nat /\ made <= MadeThen
    BY <2>1, <2>2, Taken, Offered
  <2>4. made' \in 1..MaxBuffers
    BY <2>1, <2>3, Constants DEF BufferTypes
  <2>5. chain' \in [Lists -> Seq(Cell)]
    <3>1. chain' = [chain EXCEPT ![l] =
                      Append(@, [buf |-> Head(Stocked), before |-> wsize[l] + n])]
      BY <1>5 DEF NewBuffer
    <3>2. chain'[l] \in Seq(Cell)
      BY <1>1, <1>3, <1>5, Grown
    <3>3. QED
      BY <3>1, <3>2 DEF BufferTypes
  <2>6. /\ next' \in [Buffers -> Buffers \cup {NULL}] /\ write' \in [Lists -> Buffers]
        /\ winx' \in [Lists -> Nat]
    BY <2>1, <2>3 DEF BufferTypes
  <2>7. QED
    BY <1>4, <2>1, <2>3, <2>4, <2>5, <2>6 DEF BufferTypes
<1>6. CASE winx' = [winx EXCEPT ![l] = @ + n] /\ UNCHANGED <<made, pool, next, write, chain>>
  <2>1. winx' \in [Lists -> Nat]
    BY <1>1, <1>6 DEF BufferTypes
  <2>2. QED
    BY <1>4, <1>6, <2>1 DEF BufferTypes
<1>7. QED
  BY <1>5, <1>6 DEF WriteAdvance

\* A memcpy that leaves room in the buffer.
LEMMA WriteInside ==
  ASSUME BufferTypes, Buffered, NEW l \in Lists, NEW n \in 1..WriteableSize(l),
         NEW bytes, NextBytes(l, n, bytes), WriteAdvance(l, n, bytes),
         winx[l] + n # BufferSize, UNCHANGED <<sent, start, onWire>>
  PROVE  Buffered'
<1>1. /\ data' = [data EXCEPT ![write[l]] = Filled(l, n, bytes)]
      /\ wsize' = [wsize EXCEPT ![l] = @ + n] /\ winx' = [winx EXCEPT ![l] = @ + n]
      /\ UNCHANGED <<read, rinx, rsize, gone, made, pool, next, write, chain>>
  BY DEF WriteAdvance
<1>2. /\ NoSharing /\ Allocated
      /\ \A m \in Lists : Linked(m) /\ Full(m) /\ Holds(m) /\ Held(m)' = Held(m)
  BY <1>1 DEF Buffered, Held
<1>3. NoSharing' /\ Allocated'
  BY <1>1, <1>2 DEF NoSharing, Allocated
<1>4. \A m \in Lists : Full(m)'
  BY <1>1, <1>2 DEF Full
<1>5. ASSUME NEW m \in Lists PROVE Linked(m)'
  <2>1. /\ winx[m] \in Nat /\ wsize[m] \in Nat /\ rsize[m] \in Nat
        /\ n \in Nat /\ winx[l] \in Nat /\ winx[l] + n <= BufferSize
    BY Members, Constants DEF WriteableSize
  <2>2. /\ winx'[m] = IF m = l THEN winx[m] + n ELSE winx[m]
        /\ wsize'[m] = IF m = l THEN wsize[m] + n ELSE wsize[m]
    BY <1>1 DEF BufferTypes
  <2>3. winx'[m] < BufferSize /\ rsize'[m] <= wsize'[m]
    <3>1. winx[m] < BufferSize /\ rsize[m] <= wsize[m] /\ rsize'[m] = rsize[m]
      BY <1>1, <1>2 DEF Linked
    <3>2. CASE m = l
      BY <2>1, <2>2, <3>1, <3>2, Constants
    <3>3. CASE m # l
      BY <2>2, <3>1, <3>3
    <3>4. QED
      BY <3>2, <3>3
  <2>4. Len(chain[m]) \in Held(m)
    BY <1>2, Ends
  <2>5. chain[m][Len(chain[m])].before \in Nat
    BY <2>4, Places
  <2>6. wsize'[m] = chain[m][Len(chain[m])].before + winx'[m]
    <3>1. wsize[m] = chain[m][Len(chain[m])].before + winx[m]
      BY <1>2 DEF Linked
    <3>2. \A b, x, d \in Nat : (b + x) + d = b + (x + d)
      OBVIOUS
    <3>3. QED
      BY <2>1, <2>2, <2>5, <3>1, <3>2
  <2>7. QED
    BY <1>1, <1>2, <2>3, <2>6 DEF Linked
<1>6. ASSUME NEW m \in Lists PROVE Holds(m)'
  <2>1. SUFFICES ASSUME NEW i \in Held(m), NEW j \in 1..BufferSize,
                        NEW at, at = chain[m][i].before + j, rsize[m] < at, at <= wsize'[m]
                 PROVE  IsPut(m, data[chain[m][i].buf][j], at)'
    BY <1>1, <1>2 DEF Holds
  <2>2. at <= SizeThen(m, l, n)
    BY <1>1, <2>1 DEF SizeThen, BufferTypes
  <2>3. IsPut(m, [data EXCEPT ![write[l]] = Filled(l, n, bytes)][chain[m][i].buf][j], at)
    BY <2>1, <2>2, FilledHolds
  <2>4. QED
    BY <1>1, <2>3 DEF IsPut, IsByte
<1>7. QED
  BY <1>3, <1>4, <1>5, <1>6 DEF Buffered

\* The places after a successor was taken: the old ones, and one for it.
LEMMA NewPlace ==
  ASSUME BufferTypes, Buffered, NEW l \in Lists, NEW n \in Nat, NewBuffer(l, n), gone' = gone
  PROVE  /\ \A m \in Lists : \A i \in Held(m)' :
              \/ i \in Held(m) /\ chain'[m][i] = chain[m][i]
              \/ m = l /\ i = Len(chain[l]) + 1 /\ chain'[m][i].buf = Head(Stocked)
         /\ \A m \in Lists : \A i \in Held(m) : i \in Held(m)' /\ chain'[m][i] = chain[m][i]
         /\ Len(chain[l]) + 1 \in Held(l)' /\ Len(chain[l]) + 1 \notin Held(l)
<1>1. /\ \A i \in 1..Len(chain[l]) : chain'[l][i] = chain[l][i]
      /\ chain'[l][Len(chain[l]) + 1].buf = Head(Stocked)
      /\ \A m \in Lists : m # l => chain'[m] = chain[m] /\ Held(m)' = Held(m)
      /\ Held(l)' = Held(l) \cup {Len(chain[l]) + 1}
  BY Grown
<1>2. \A i \in Held(l) : i \in 1..Len(chain[l]) /\ chain'[l][i] = chain[l][i]
  BY <1>1, Places
<1>3. Len(chain[l]) + 1 \notin Held(l)
  BY Members DEF Held
<1>4. ASSUME NEW m \in Lists, NEW i \in Held(m)'
      PROVE  \/ i \in Held(m) /\ chain'[m][i] = chain[m][i]
             \/ m = l /\ i = Len(chain[l]) + 1 /\ chain'[m][i].buf = Head(Stocked)
  <2>1. CASE m = l
    BY <1>1, <1>2, <1>4, <2>1
  <2>2. CASE m # l
    BY <1>1, <1>4, <2>2
  <2>3. QED
    BY <2>1, <2>2
<1>5. ASSUME NEW m \in Lists, NEW i \in Held(m)
      PROVE  i \in Held(m)' /\ chain'[m][i] = chain[m][i]
  <2>1. CASE m = l
    BY <1>1, <1>2, <2>1
  <2>2. CASE m # l
    BY <1>1, <2>2
  <2>3. QED
    BY <2>1, <2>2
<1>6. QED
  BY <1>1, <1>3, <1>4, <1>5

\* Taking a successor off the pool moves it to the list.
LEMMA NewShares ==
  ASSUME BufferTypes, Buffered, NEW l \in Lists, NEW n \in Nat, NewBuffer(l, n), gone' = gone
  PROVE  NoSharing' /\ Allocated'
<1> DEFINE c == Head(Stocked)
           N == Len(Stocked)
<1>1. /\ MadeThen <= MaxBuffers /\ made' = MadeThen /\ pool' = AfterGet(Stocked)
      /\ NoSharing /\ Allocated
  BY DEF NewBuffer, Buffered
<1>2. /\ \A k \in 1..N : Stocked[k] <= MadeThen
      /\ \A j, k \in 1..N : Stocked[j] = Stocked[k] => j = k
      /\ \A m \in Lists : \A i \in Held(m) : \A k \in 1..N : Stocked[k] # chain[m][i].buf
      /\ \A b \in 1..MadeThen : \/ \E k \in 1..N : Stocked[k] = b
                                \/ \E m \in Lists : \E i \in Held(m) : chain[m][i].buf = b
      /\ MadeThen \in Nat /\ made \in Nat /\ made <= MadeThen
  <2>1. made \in Nat
    BY DEF BufferTypes
  <2>2. \A b \in 1..MadeThen : \/ \E k \in 1..N : Stocked[k] = b
                               \/ \E m \in Lists : \E i \in Held(m) : chain[m][i].buf = b
    BY <1>1, Offered
  <2>3. \A m \in Lists : \A i \in Held(m) : \A k \in 1..N : Stocked[k] # chain[m][i].buf
    BY <1>1, Offered
  <2>4. /\ \A k \in 1..N : Stocked[k] <= MadeThen
        /\ \A j, k \in 1..N : Stocked[j] = Stocked[k] => j = k
        /\ MadeThen \in Nat /\ made <= MadeThen
    BY <1>1, Offered
  <2>5. QED
    BY <2>1, <2>2, <2>3, <2>4
<1>3. /\ c = Stocked[1] /\ 1 \in 1..N /\ N \in Nat
      /\ pool' \in Seq(Buffers) /\ DOMAIN pool' = 1..(N - 1)
      /\ \A k \in 1..(N - 1) : k + 1 \in 1..N /\ pool'[k] = Stocked[k + 1]
  BY <1>1, Taken
<1>4. /\ \A m \in Lists : \A i \in Held(m)' :
           \/ i \in Held(m) /\ chain'[m][i] = chain[m][i]
           \/ m = l /\ i = Len(chain[l]) + 1 /\ chain'[m][i].buf = c
      /\ \A m \in Lists : \A i \in Held(m) : i \in Held(m)' /\ chain'[m][i] = chain[m][i]
      /\ Len(chain[l]) + 1 \in Held(l)'
  BY NewPlace
<1>5. \A m \in Lists : \A i \in Held(m) : c # chain[m][i].buf
  BY <1>2, <1>3
<1>6. \A k \in 1..(N - 1) : pool'[k] # c
  BY <1>2, <1>3
<1> HIDE DEF c, N
<1>7. \A j, k \in 1..(N - 1) : pool'[j] = pool'[k] => j = k
  <2>1. SUFFICES ASSUME NEW j \in 1..(N - 1), NEW k \in 1..(N - 1), pool'[j] = pool'[k]
                 PROVE  j = k
    OBVIOUS
  <2>2. j + 1 = k + 1
    <3>1. /\ j + 1 \in 1..N /\ k + 1 \in 1..N
          /\ Stocked[j + 1] = Stocked[k + 1]
      BY <1>3, <2>1
    <3>2. QED
      BY <1>2, <3>1
  <2>3. j \in Nat /\ k \in Nat
    BY <1>3
  <2>4. QED
    BY <2>2, <2>3
<1>8. ASSUME NEW m \in Lists, NEW i \in Held(m)', NEW k \in 1..(N - 1)
      PROVE  pool'[k] # chain'[m][i].buf
  <2>1. CASE i \in Held(m) /\ chain'[m][i] = chain[m][i]
    BY <1>2, <1>3, <2>1
  <2>2. CASE chain'[m][i].buf = c
    BY <1>6, <2>2
  <2>3. QED
    BY <1>4, <2>1, <2>2
<1>9. ASSUME NEW m \in Lists, NEW p \in Lists, NEW i \in Held(m)', NEW j \in Held(p)',
             chain'[m][i].buf = chain'[p][j].buf
      PROVE  m = p /\ i = j
  <2>1. CASE i \in Held(m) /\ chain'[m][i] = chain[m][i]
    <3>1. j \in Held(p) /\ chain'[p][j] = chain[p][j]
      BY <1>4, <1>5, <1>9, <2>1
    <3>2. QED
      BY <1>1, <1>9, <2>1, <3>1 DEF NoSharing
  <2>2. CASE m = l /\ i = Len(chain[l]) + 1 /\ chain'[m][i].buf = c
    BY <1>4, <1>5, <1>9, <2>2
  <2>3. QED
    BY <1>4, <2>1, <2>2
<1>10. ASSUME NEW b \in 1..made'
       PROVE  \/ \E k \in 1..(N - 1) : pool'[k] = b
              \/ \E m \in Lists : \E i \in Held(m)' : chain'[m][i].buf = b
  <2>1. CASE \E m \in Lists : \E i \in Held(m) : chain[m][i].buf = b
    BY <1>4, <2>1
  <2>2. ASSUME NEW k \in 1..N, Stocked[k] = b
        PROVE  \/ \E i \in 1..(N - 1) : pool'[i] = b
               \/ \E m \in Lists : \E i \in Held(m)' : chain'[m][i].buf = b
    <3>1. CASE k = 1
      <4>1. chain'[l][Len(chain[l]) + 1].buf = b
        BY <1>3, <2>2, <3>1, Grown DEF c
      <4>2. QED
        BY <1>4, <4>1
    <3>2. CASE k # 1
      <4>1. k - 1 \in 1..(N - 1) /\ (k - 1) + 1 = k
        BY <1>3, <3>2
      <4>2. pool'[k - 1] = b
        BY <1>3, <2>2, <4>1
      <4>3. QED
        BY <4>1, <4>2
    <3>3. QED
      BY <3>1, <3>2
  <2>3. QED
    BY <1>1, <1>2, <2>1, <2>2 DEF N
<1>11. NoSharing'
  <2>1. \A j, k \in DOMAIN pool' : pool'[j] = pool'[k] => j = k
    BY <1>3, <1>7
  <2>2. \A m, p \in Lists : \A i \in Held(m)' :
          /\ \A j \in Held(p)' : chain'[m][i].buf = chain'[p][j].buf => m = p /\ i = j
          /\ \A k \in DOMAIN pool' : pool'[k] # chain'[m][i].buf
    BY <1>3, <1>8, <1>9
  <2>3. \A b \in 1..made' : \/ \E k \in DOMAIN pool' : pool'[k] = b
                            \/ \E m \in Lists : \E i \in Held(m)' : chain'[m][i].buf = b
    BY <1>3, <1>10
  <2>4. QED
    BY <2>1, <2>2, <2>3 DEF NoSharing
<1>12. \A k \in 1..(N - 1) : pool'[k] <= made'
  BY <1>1, <1>2, <1>3
<1>13. ASSUME NEW m \in Lists, NEW i \in Held(m)' PROVE chain'[m][i].buf <= made'
  <2>1. CASE i \in Held(m) /\ chain'[m][i] = chain[m][i]
    <3>1. chain[m][i].buf <= made /\ chain[m][i].buf \in Nat
      BY <1>1, <2>1, Places DEF Allocated, Buffers
    <3>2. QED
      BY <1>1, <1>2, <2>1, <3>1
  <2>2. CASE chain'[m][i].buf = c
    BY <1>1, <1>2, <1>3, <2>2
  <2>3. QED
    BY <1>4, <2>1, <2>2
<1>14. Allocated'
  BY <1>3, <1>12, <1>13 DEF Allocated
<1>15. QED
  BY <1>11, <1>14

\* The list that wrote stays linked, with all buffers but the new one full.
LEMMA NewLinked ==
  ASSUME BufferTypes, Buffered, NEW l \in Lists, NEW n \in 1..WriteableSize(l),
         NEW bytes, WriteAdvance(l, n, bytes), winx[l] + n = BufferSize, NewBuffer(l, n)
  PROVE  Linked(l)' /\ Full(l)'
<1> DEFINE L == Len(chain[l])
<1>1. /\ wsize' = [wsize EXCEPT ![l] = @ + n] /\ UNCHANGED <<read, rinx, rsize, gone>>
      /\ next' = [next EXCEPT ![write[l]] = Head(Stocked)]
      /\ write' = [write EXCEPT ![l] = Head(Stocked)] /\ winx' = [winx EXCEPT ![l] = 0]
  BY DEF WriteAdvance, NewBuffer
<1>2. /\ NoSharing /\ Linked(l) /\ Full(l)
  BY DEF Buffered
<1>3. /\ winx[l] \in Nat /\ wsize[l] \in Nat /\ rsize[l] \in Nat /\ write[l] \in Buffers
      /\ n \in Nat /\ L \in Nat /\ gone[l] \in Nat
  BY Members, Constants DEF WriteableSize
<1>4. /\ Len(chain'[l]) = L + 1
      /\ \A i \in 1..L : chain'[l][i] = chain[l][i]
      /\ chain'[l][L + 1].buf = Head(Stocked)
      /\ chain'[l][L + 1].before = wsize[l] + n
      /\ Held(l)' = Held(l) \cup {L + 1}
  BY <1>1, <1>3, Grown
<1>5. /\ L \in Held(l) /\ gone[l] + 1 \in 1..L /\ chain[l][L].before \in Nat
      /\ chain[l][L].buf = write[l] /\ wsize[l] = chain[l][L].before + winx[l]
  BY <1>2, Ends, Places DEF Linked
<1>6. chain'[l][L + 1].before = chain[l][L].before + BufferSize
  <2>1. PICK b \in Nat, w \in Nat : b = chain[l][L].before /\ w = winx[l]
    BY <1>3, <1>5
  <2>2. chain'[l][L + 1].before = (b + w) + n /\ w + n = BufferSize
    BY <1>4, <1>5, <2>1
  <2>3. (b + w) + n = b + (w + n)
    BY <1>3
  <2>4. QED
    BY <2>1, <2>2, <2>3
<1>7. /\ write'[l] = Head(Stocked) /\ winx'[l] = 0 /\ wsize'[l] = wsize[l] + n
      /\ next'[write[l]] = Head(Stocked)
  BY <1>1, <1>3 DEF BufferTypes
<1>8. \A i \in Held(l) : i \in 1..L /\ i \in Nat /\ chain[l][i].buf \in Buffers
                         /\ chain[l][i].before \in Nat
  BY Places
<1>9. L + 1 \notin Held(l)
  BY <1>3 DEF Held
<1> HIDE DEF L
<1>10. ASSUME NEW i \in Held(l)', i + 1 \in Held(l)'
       PROVE  /\ next'[chain'[l][i].buf] = chain'[l][i + 1].buf
              /\ chain'[l][i + 1].before = chain'[l][i].before + BufferSize
  <2>1. i # L + 1
    <3>1. i + 1 \in 1..(L + 1)
      BY <1>3, <1>4, <1>8, <1>10
    <3>2. QED
      BY <1>3, <3>1
  <2>2. i \in Held(l) /\ i \in 1..L
    BY <1>4, <1>8, <1>10, <2>1
  <2>3. CASE i = L
    BY <1>4, <1>5, <1>6, <1>7, <2>2, <2>3
  <2>4. CASE i # L
    <3>1. i + 1 \in Held(l) /\ i + 1 \in 1..L
      BY <1>3, <1>4, <1>8, <1>10, <2>2, <2>4
    <3>2. /\ next[chain[l][i].buf] = chain[l][i + 1].buf
          /\ chain[l][i + 1].before = chain[l][i].before + BufferSize
      BY <1>2, <2>2, <3>1 DEF Linked
    <3>3. chain[l][i].buf # write[l]
      BY <1>2, <1>5, <2>2, <2>4 DEF NoSharing
    <3>4. next'[chain[l][i].buf] = next[chain[l][i].buf]
      BY <1>1, <1>8, <2>2, <3>3 DEF BufferTypes
    <3>5. QED
      BY <1>4, <2>2, <3>1, <3>2, <3>4
  <2>5. QED
    BY <2>3, <2>4
<1>11. /\ gone'[l] < Len(chain'[l]) /\ winx'[l] < BufferSize
       /\ rinx'[l] # BufferSize /\ (l = "read" => rinx'[l] < BufferSize)
       /\ rsize'[l] <= wsize'[l]
       /\ read'[l] = chain'[l][gone'[l] + 1].buf
       /\ rsize'[l] = chain'[l][gone'[l] + 1].before + rinx'[l]
       /\ write'[l] = chain'[l][Len(chain'[l])].buf
       /\ wsize'[l] = chain'[l][Len(chain'[l])].before + winx'[l]
  <2>1. /\ gone[l] < L /\ rsize[l] <= wsize[l]
        /\ rinx[l] # BufferSize /\ (l = "read" => rinx[l] < BufferSize)
        /\ read[l] = chain[l][gone[l] + 1].buf
        /\ rsize[l] = chain[l][gone[l] + 1].before + rinx[l]
    BY <1>2 DEF Linked, L
  <2>2. chain'[l][gone[l] + 1] = chain[l][gone[l] + 1]
    BY <1>4, <1>5
  <2>3. wsize[l] + n + 0 = wsize[l] + n /\ rsize[l] <= wsize[l] + n
    BY <1>3, <2>1
  <2>4. 0 < BufferSize
    BY Constants
  <2>5. QED
    BY <1>1, <1>3, <1>4, <1>7, <2>1, <2>2, <2>3, <2>4
<1>12. Linked(l)'
  BY <1>10, <1>11 DEF Linked
<1>13. ASSUME NEW i \in Held(l)', i < Len(chain'[l])
       PROVE  chain'[l][i].before + BufferSize <= chain'[l][Len(chain'[l])].before
  <2>1. i \in Held(l) /\ i \in 1..L
    BY <1>3, <1>4, <1>8, <1>13
  <2>2. CASE i = L
    <3>1. \A b, d \in Nat : b + d <= b + d
      OBVIOUS
    <3>2. QED
      BY <1>4, <1>5, <1>6, <2>1, <2>2, <3>1, Constants
  <2>3. CASE i # L
    <3>1. chain[l][i].before + BufferSize <= chain[l][L].before
      BY <1>2, <1>3, <2>1, <2>3 DEF Full, L
    <3>2. chain[l][i].before + BufferSize <= chain[l][L].before + BufferSize
      BY <1>5, <1>8, <2>1, <3>1, Constants
    <3>3. QED
      BY <1>4, <1>6, <2>1, <3>2
  <2>4. QED
    BY <2>2, <2>3
<1>14. Full(l)'
  BY <1>13 DEF Full
<1>15. QED
  BY <1>12, <1>14

\* A memcpy that fills the buffer.
LEMMA WriteFull ==
  ASSUME BufferTypes, Buffered, NEW l \in Lists, NEW n \in 1..WriteableSize(l),
         NEW bytes, NextBytes(l, n, bytes), WriteAdvance(l, n, bytes),
         winx[l] + n = BufferSize, NewBuffer(l, n), UNCHANGED <<sent, start, onWire>>
  PROVE  Buffered'
<1>1. /\ data' = [data EXCEPT ![write[l]] = Filled(l, n, bytes)]
      /\ wsize' = [wsize EXCEPT ![l] = @ + n] /\ UNCHANGED <<read, rinx, rsize, gone>>
      /\ next' = [next EXCEPT ![write[l]] = Head(Stocked)]
      /\ write' = [write EXCEPT ![l] = Head(Stocked)] /\ winx' = [winx EXCEPT ![l] = 0]
  BY DEF WriteAdvance, NewBuffer
<1>2. /\ NoSharing /\ \A m \in Lists : Linked(m) /\ Full(m) /\ Holds(m)
  BY DEF Buffered
<1>3. n \in Nat
  BY Members, Constants DEF WriteableSize
<1>4. NoSharing' /\ Allocated'
  BY <1>1, <1>3, NewShares
<1>5. Linked(l)' /\ Full(l)'
  BY NewLinked
<1>6. ASSUME NEW m \in Lists, m # l PROVE Linked(m)' /\ Full(m)'
  <2>1. chain'[m] = chain[m] /\ Held(m)' = Held(m)
    BY <1>1, <1>3, <1>6, Grown
  <2>2. /\ write'[m] = write[m] /\ winx'[m] = winx[m] /\ wsize'[m] = wsize[m]
    BY <1>1, <1>6 DEF BufferTypes
  <2>3. ASSUME NEW i \in Held(m) PROVE next'[chain[m][i].buf] = next[chain[m][i].buf]
    <3>1. write[l] = chain[l][Len(chain[l])].buf /\ Len(chain[l]) \in Held(l)
      BY <1>2, Ends DEF Linked
    <3>2. chain[m][i].buf # write[l]
      BY <1>2, <1>6, <3>1 DEF NoSharing
    <3>3. QED
      BY <1>1, <3>2, Places DEF BufferTypes
  <2>4. Full(m)'
    BY <1>2, <2>1 DEF Full
  <2>5. Linked(m) /\ rsize'[m] = rsize[m] /\ read'[m] = read[m] /\ rinx'[m] = rinx[m]
        /\ gone'[m] = gone[m]
    BY <1>1, <1>2
  <2>6. Linked(m)'
    BY <2>1, <2>2, <2>3, <2>5 DEF Linked
  <2>7. QED
    BY <2>4, <2>6
<1>7. ASSUME NEW m \in Lists PROVE Holds(m)'
  <2>1. SUFFICES ASSUME NEW i \in Held(m)', NEW j \in 1..BufferSize, NEW at,
                        at = chain'[m][i].before + j, rsize[m] < at, at <= wsize'[m]
                 PROVE  IsPut(m, data[chain[m][i].buf][j], at)'
    BY <1>1 DEF Holds
  <2>2. wsize'[m] = SizeThen(m, l, n)
    BY <1>1 DEF SizeThen, BufferTypes
  <2>3. CASE i \in Held(m) /\ chain'[m][i] = chain[m][i]
    <3>1. IsPut(m, [data EXCEPT ![write[l]] = Filled(l, n, bytes)][chain[m][i].buf][j], at)
      BY <2>1, <2>2, <2>3, FilledHolds
    <3>2. QED
      BY <1>1, <2>3, <3>1 DEF IsPut, IsByte
  <2>4. CASE m = l /\ i = Len(chain[l]) + 1
    <3>1. chain'[m][i].before = wsize[l] + n
      BY <1>1, <1>3, <2>4, Grown
    <3>2. at = (wsize[l] + n) + j /\ at <= wsize[l] + n
      BY <2>1, <2>2, <2>4, <3>1 DEF SizeThen
    <3>3. wsize[l] + n \in Nat /\ j \in Nat /\ j >= 1
      BY <1>3, Members, Constants
    <3>4. QED
      BY <3>2, <3>3
  <2>5. QED
    BY <1>1, <1>3, <2>3, <2>4, NewPlace
<1>8. QED
  BY <1>4, <1>5, <1>6, <1>7 DEF Buffered

LEMMA WriteKeeps ==
  ASSUME BufferTypes, Buffered, NEW l \in Lists, NEW n \in 1..WriteableSize(l),
         NEW bytes, NextBytes(l, n, bytes), WriteAdvance(l, n, bytes),
         UNCHANGED <<sent, start, onWire>>
  PROVE  /\ BufferTypes' /\ Buffered'
         /\ wsize' = [wsize EXCEPT ![l] = @ + n] /\ rsize' = rsize /\ rinx' = rinx
<1>1. BufferTypes'
  BY WriteTypes
<1>2. Buffered'
  <2>1. CASE winx[l] + n = BufferSize
    <3>1. NewBuffer(l, n)
      BY <2>1 DEF WriteAdvance
    <3>2. QED
      BY <2>1, <3>1, WriteFull
  <2>2. CASE winx[l] + n # BufferSize
    BY <2>2, WriteInside
  <2>3. QED
    BY <2>1, <2>2
<1>3. wsize' = [wsize EXCEPT ![l] = @ + n] /\ rsize' = rsize /\ rinx' = rinx
  BY DEF WriteAdvance
<1>4. QED
  BY <1>1, <1>2, <1>3

----------------------------------------------------------------------------
(* Reading from a list.                                                    *)

\* The n bytes at ReadPoint lie in one buffer and were all written.
Readable(l, n) == n \in Nat /\ rinx[l] + n <= BufferSize /\ rsize[l] + n <= wsize[l]

\* ReadAdvance(n) does not pass what was written; nor a buffer, if the list is
\* not the one that Send reads.
Passable(l, n) ==
  n \in Nat /\ rsize[l] + n <= wsize[l] /\ (l = "read" => rinx[l] + n <= BufferSize)

LEMMA WindowBytes ==
  ASSUME BufferTypes, Buffered, NEW l \in Lists, NEW n \in Nat, Passable(l, n)
  PROVE  /\ Window(l, n) \in Seq(Byte) /\ Len(Window(l, n)) = n
         /\ \A k \in 1..n : rinx[l] + k <= BufferSize => IsPut(l, Window(l, n)[k], rsize[l] + k)
<1>1. /\ rinx[l] \in Nat /\ rsize[l] \in Nat /\ wsize[l] \in Nat /\ read[l] \in Buffers
      /\ rsize[l] + n <= wsize[l] /\ BufferSize \in Nat
  BY Members, Constants DEF Passable
<1>2. Linked(l) /\ Holds(l)
  BY DEF Buffered
<1>3. /\ gone[l] + 1 \in Held(l) /\ chain[l][gone[l] + 1].before \in Nat
      /\ read[l] = chain[l][gone[l] + 1].buf
      /\ rsize[l] = chain[l][gone[l] + 1].before + rinx[l]
  BY <1>2, Ends, Places DEF Linked
<1>4. ASSUME NEW k \in 1..n, rinx[l] + k <= BufferSize
      PROVE  /\ data[read[l]][rinx[l] + k] \in Byte
             /\ IsPut(l, data[read[l]][rinx[l] + k], rsize[l] + k)
  <2>1. /\ rinx[l] + k \in 1..BufferSize /\ rsize[l] < rsize[l] + k
        /\ rsize[l] + k <= wsize[l]
        /\ rsize[l] + k = chain[l][gone[l] + 1].before + (rinx[l] + k)
    BY <1>1, <1>3, <1>4
  <2>2. data[read[l]][rinx[l] + k] \in Byte
    BY <1>1, <2>1 DEF BufferTypes
  <2>3. IsPut(l, data[read[l]][rinx[l] + k], rsize[l] + k)
    BY <1>2, <1>3, <2>1 DEF Holds
  <2>4. QED
    BY <2>2, <2>3
<1>5. ASSUME NEW k \in 1..n
      PROVE  (IF rinx[l] + k <= BufferSize THEN data[read[l]][rinx[l] + k] ELSE NULL) \in Byte
  BY <1>4 DEF Byte
<1>6. Window(l, n) \in [1..n -> Byte]
  BY <1>5 DEF Window
<1>7. Window(l, n) \in Seq(Byte) /\ Len(Window(l, n)) = n
  BY <1>6
<1>8. ASSUME NEW k \in 1..n, rinx[l] + k <= BufferSize
      PROVE  IsPut(l, Window(l, n)[k], rsize[l] + k)
  <2>1. Window(l, n)[k] = data[read[l]][rinx[l] + k]
    BY <1>8 DEF Window
  <2>2. QED
    BY <1>4, <1>8, <2>1
<1>9. QED
  BY <1>7, <1>8

\* There is a buffer after one that was read to its end.
LEMMA Successor ==
  ASSUME BufferTypes, Buffered, NEW l \in Lists, NEW n \in Nat, Readable(l, n),
         rinx[l] + n = BufferSize
  PROVE  /\ gone[l] + 2 \in Held(l) /\ gone[l] + 1 \in Held(l)
         /\ next[read[l]] = chain[l][gone[l] + 2].buf
         /\ rsize[l] + n = chain[l][gone[l] + 2].before
<1> DEFINE g == gone[l] + 1
           L == Len(chain[l])
<1>1. /\ rinx[l] \in Nat /\ rsize[l] \in Nat /\ wsize[l] \in Nat /\ winx[l] \in Nat
      /\ rsize[l] + n <= wsize[l] /\ BufferSize \in Nat /\ L \in Nat /\ gone[l] \in Nat
  BY Members, Constants DEF Readable
<1>2. Linked(l)
  BY DEF Buffered
<1>3. /\ g \in Held(l) /\ chain[l][g].before \in Nat /\ read[l] = chain[l][g].buf
      /\ rsize[l] = chain[l][g].before + rinx[l]
      /\ wsize[l] = chain[l][L].before + winx[l] /\ winx[l] < BufferSize
      /\ gone[l] < L
  BY <1>2, Ends, Places DEF Linked
<1>4. rsize[l] + n = chain[l][g].before + BufferSize
  <2>1. \A b, r, m \in Nat : (b + r) + m = b + (r + m)
    OBVIOUS
  <2>2. (chain[l][g].before + rinx[l]) + n = chain[l][g].before + (rinx[l] + n)
    <3> HIDE DEF g
    <3>1. QED
      BY <1>1, <1>3, <2>1
  <2>3. QED
    BY <1>3, <2>2
<1> HIDE DEF L
<1>5. g # L
  <2>1. \A b, x \in Nat : b + BufferSize <= b + x => ~(x < BufferSize)
    BY <1>1
  <2>2. g = L => chain[l][g].before + BufferSize <= chain[l][g].before + winx[l]
    BY <1>1, <1>3, <1>4
  <2>3. QED
    BY <1>1, <1>3, <2>1, <2>2
<1>6. g + 1 \in Held(l) /\ g + 1 = gone[l] + 2
  <2>1. \A a, b \in Nat : a < b /\ a + 1 # b =>
          /\ (a + 1) + 1 \in (a + 1)..b /\ (a + 1) + 1 = a + 2
    OBVIOUS
  <2>2. QED
    BY <1>1, <1>3, <1>5, <2>1 DEF Held, L
<1>7. /\ next[chain[l][g].buf] = chain[l][g + 1].buf
      /\ chain[l][g + 1].before = chain[l][g].before + BufferSize
  BY <1>2, <1>3, <1>6 DEF Linked
<1>8. QED
  BY <1>3, <1>4, <1>6, <1>7

LEMMA ReadTypes ==
  ASSUME BufferTypes, Buffered, NEW l \in Lists, NEW n \in Nat, Passable(l, n), ReadAdvance(l, n)
  PROVE  BufferTypes'
<1>1. /\ rinx[l] \in Nat /\ rsize[l] \in Nat /\ read[l] \in Buffers /\ gone[l] \in Nat
      /\ pool \in Seq(Buffers)
  BY Members DEF BufferTypes
<1>2. /\ rsize' = [rsize EXCEPT ![l] = @ + n]
      /\ UNCHANGED <<next, made, write, winx, wsize, chain>>
  BY DEF ReadAdvance
<1>3. rsize' \in [Lists -> Nat]
  BY <1>1, <1>2 DEF BufferTypes
<1>4. CASE ReadOut(rinx[l] + n) /\ PopBuffer(l)
  <2>1. next[read[l]] \in Buffers
    <3>1. Readable(l, n) /\ rinx[l] + n = BufferSize
      BY <1>1, <1>4, Constants DEF ReadOut, Passable, Readable
    <3>2. gone[l] + 2 \in Held(l) /\ next[read[l]] = chain[l][gone[l] + 2].buf
      BY <3>1, Successor
    <3>3. QED
      BY <3>2, Places
  <2>2. /\ read' = [read EXCEPT ![l] = next[read[l]]] /\ rinx' = [rinx EXCEPT ![l] = 0]
        /\ data' = [data EXCEPT ![read[l]] = Zeros] /\ pool' = Append(pool, read[l])
        /\ gone' = [gone EXCEPT ![l] = @ + 1]
    BY <1>4 DEF PopBuffer
  <2>3. Zeros \in [1..BufferSize -> Byte]
    BY DEF Zeros, Byte
  <2>4. pool' \in Seq(Buffers)
    BY <1>1, <2>2, AppendProperties
  <2>5. /\ read' \in [Lists -> Buffers] /\ rinx' \in [Lists -> Nat]
        /\ data' \in [Buffers -> [1..BufferSize -> Byte]] /\ gone' \in [Lists -> Nat]
    BY <1>1, <2>1, <2>2, <2>3 DEF BufferTypes
  <2>6. QED
    BY <1>2, <1>3, <2>4, <2>5 DEF BufferTypes
<1>5. CASE rinx' = [rinx EXCEPT ![l] = @ + n] /\ UNCHANGED <<read, data, pool, gone>>
  <2>1. rinx' \in [Lists -> Nat]
    BY <1>1, <1>5 DEF BufferTypes
  <2>2. QED
    BY <1>2, <1>3, <1>5, <2>1 DEF BufferTypes
<1>6. QED
  BY <1>4, <1>5 DEF ReadAdvance

\* What a list was given stays its own, whatever is sent or written after it.
StillPut == \A m \in Lists : \A x : \A at \in Nat \ {0} : IsPut(m, x, at) => IsPut(m, x, at)'

\* A memcpy that does not come to the end of the buffer, or a write(2) that
\* runs past it.
LEMMA ReadInside ==
  ASSUME BufferTypes, Buffered, NEW l \in Lists, NEW n \in Nat, Passable(l, n), ReadAdvance(l, n),
         ~ReadOut(rinx[l] + n), StillPut
  PROVE  Buffered'
<1>1. /\ rsize' = [rsize EXCEPT ![l] = @ + n] /\ rinx' = [rinx EXCEPT ![l] = @ + n]
      /\ UNCHANGED <<next, made, write, winx, wsize, chain, read, data, pool, gone>>
  BY DEF ReadAdvance
<1>2. /\ NoSharing /\ Allocated
      /\ \A m \in Lists : Linked(m) /\ Full(m) /\ Holds(m) /\ Held(m)' = Held(m)
  BY <1>1 DEF Buffered, Held
<1>3. NoSharing' /\ Allocated'
  BY <1>1, <1>2 DEF NoSharing, Allocated
<1>4. \A m \in Lists : Full(m)'
  BY <1>1, <1>2 DEF Full
<1>5. ASSUME NEW m \in Lists PROVE Linked(m)' /\ rsize[m] <= rsize'[m] /\ rsize'[m] \in Nat
  <2>1. /\ rinx[m] \in Nat /\ wsize[m] \in Nat /\ rsize[m] \in Nat /\ rinx[l] \in Nat
        /\ (l = "read" => rinx[l] + n <= BufferSize) /\ rsize[l] + n <= wsize[l]
        /\ rinx[l] + n # BufferSize /\ BufferSize \in Nat
    BY Members, Constants DEF Passable, ReadOut
  <2>2. /\ rinx'[m] = IF m = l THEN rinx[m] + n ELSE rinx[m]
        /\ rsize'[m] = IF m = l THEN rsize[m] + n ELSE rsize[m]
    BY <1>1 DEF BufferTypes
  <2>3. /\ rinx[m] # BufferSize /\ (m = "read" => rinx[m] < BufferSize)
        /\ rsize[m] <= wsize[m] /\ wsize'[m] = wsize[m]
        /\ rsize[m] = chain[m][gone[m] + 1].before + rinx[m]
        /\ gone[m] + 1 \in Held(m)
    BY <1>1, <1>2, Ends DEF Linked
  <2>4. chain[m][gone[m] + 1].before \in Nat
    BY <2>3, Places
  <2>5. /\ rinx'[m] # BufferSize /\ (m = "read" => rinx'[m] < BufferSize)
        /\ rsize'[m] <= wsize'[m]
        /\ rsize'[m] = chain[m][gone[m] + 1].before + rinx'[m]
        /\ rsize[m] <= rsize'[m] /\ rsize'[m] \in Nat
    <3>1. CASE m = l
      BY <2>1, <2>2, <2>3, <2>4, <3>1
    <3>2. CASE m # l
      BY <2>1, <2>2, <2>3, <3>2
    <3>3. QED
      BY <3>1, <3>2
  <2>6. QED
    BY <1>1, <1>2, <2>5 DEF Linked
<1>6. ASSUME NEW m \in Lists PROVE Holds(m)'
  <2>1. SUFFICES ASSUME NEW i \in Held(m), NEW j \in 1..BufferSize,
                        NEW at, at = chain[m][i].before + j, rsize'[m] < at, at <= wsize[m]
                 PROVE  IsPut(m, data[chain[m][i].buf][j], at)'
    BY <1>1, <1>2 DEF Holds
  <2>2. rsize[m] < at /\ at \in Nat \ {0}
    <3>1. rsize[m] \in Nat /\ chain[m][i].before \in Nat /\ j \in Nat /\ j >= 1
      BY Members, Places, Constants
    <3>2. QED
      BY <1>5, <2>1, <3>1
  <2>3. IsPut(m, data[chain[m][i].buf][j], at)
    BY <1>2, <2>1, <2>2 DEF Holds
  <2>4. PICK x : x = data[chain[m][i].buf][j]
    OBVIOUS
  <2>5. IsPut(m, x, at)'
    BY <2>2, <2>3, <2>4 DEF StillPut
  <2>6. data'[chain'[m][i].buf][j] = x
    BY <1>1, <2>4
  <2>7. QED
    BY <2>5, <2>6 DEF IsPut, IsByte
<1>7. QED
  BY <1>3, <1>4, <1>5, <1>6 DEF Buffered

\* The places after a buffer was given back: the old ones but its own.
LEMMA PoppedPlaces ==
  ASSUME BufferTypes, Buffered, NEW l \in Lists, NEW n \in Nat, Readable(l, n),
         rinx[l] + n = BufferSize, PopBuffer(l), chain' = chain
  PROVE  /\ Held(l)' = Held(l) \ {gone[l] + 1} /\ gone[l] + 1 \in Held(l)
         /\ read[l] = chain[l][gone[l] + 1].buf
         /\ \A m \in Lists : m # l => Held(m)' = Held(m) /\ gone'[m] = gone[m]
         /\ \A m \in Lists : \A i \in Held(m)' : i \in Held(m) /\ chain[m][i].buf # read[l]
<1>1. /\ gone[l] \in Nat /\ Len(chain[l]) \in Nat
  BY Members
<1>2. /\ gone'[l] = gone[l] + 1 /\ \A m \in Lists : m # l => gone'[m] = gone[m]
  BY DEF PopBuffer, BufferTypes
<1>3. Linked(l) /\ NoSharing
  BY DEF Buffered
<1>4. gone[l] + 1 \in Held(l) /\ read[l] = chain[l][gone[l] + 1].buf
  BY <1>3, Ends DEF Linked
<1>5. Held(l)' = Held(l) \ {gone[l] + 1}
  <2>1. Held(l)' = (gone[l] + 1 + 1)..Len(chain[l])
    BY <1>2 DEF Held
  <2>2. \A i : i \in (gone[l] + 1 + 1)..Len(chain[l])
              <=> i \in (gone[l] + 1)..Len(chain[l]) /\ i # gone[l] + 1
    BY <1>1
  <2>3. QED
    BY <2>1, <2>2 DEF Held
<1>6. \A m \in Lists : m # l => Held(m)' = Held(m) /\ gone'[m] = gone[m]
  BY <1>2 DEF Held
<1>7. ASSUME NEW m \in Lists, NEW i \in Held(m)'
      PROVE  i \in Held(m) /\ chain[m][i].buf # read[l]
  <2>1. CASE m = l
    BY <1>3, <1>4, <1>5, <1>7, <2>1 DEF NoSharing
  <2>2. CASE m # l
    BY <1>3, <1>4, <1>6, <1>7, <2>2 DEF NoSharing
  <2>3. QED
    BY <2>1, <2>2
<1>8. QED
  BY <1>4, <1>5, <1>6, <1>7

\* Giving a buffer back moves it from the list to the end of the pool.
LEMMA PoppedShares ==
  ASSUME BufferTypes, Buffered, NEW l \in Lists, NEW n \in Nat, Readable(l, n),
         rinx[l] + n = BufferSize, PopBuffer(l), chain' = chain, made' = made
  PROVE  NoSharing' /\ Allocated'
<1> DEFINE b == read[l]
           N == Len(pool)
<1>1. /\ gone[l] + 1 \in Held(l) /\ b = chain[l][gone[l] + 1].buf
      /\ Held(l)' = Held(l) \ {gone[l] + 1}
      /\ \A m \in Lists : m # l => Held(m)' = Held(m)
      /\ \A m \in Lists : \A i \in Held(m)' : i \in Held(m) /\ chain[m][i].buf # b
  BY PoppedPlaces
<1>2. /\ pool \in Seq(Buffers) /\ b \in Buffers /\ pool' = Append(pool, b)
  BY Members DEF PopBuffer, BufferTypes
<1>3. /\ N \in Nat /\ DOMAIN pool = 1..N /\ DOMAIN pool' = 1..(N + 1)
      /\ \A k \in 1..N : pool'[k] = pool[k]
      /\ pool'[N + 1] = b
  BY <1>2, AppendProperties
<1>4. NoSharing /\ Allocated
  BY DEF Buffered
<1> HIDE DEF b, N
<1>5. \A k \in 1..N : pool[k] # b
  BY <1>1, <1>3, <1>4 DEF NoSharing
<1>6. \A k \in 1..(N + 1) : k \in 1..N \/ k = N + 1
  BY <1>3
<1>7. \A j, k \in 1..(N + 1) : pool'[j] = pool'[k] => j = k
  <2>1. SUFFICES ASSUME NEW j \in 1..(N + 1), NEW k \in 1..(N + 1), pool'[j] = pool'[k]
                 PROVE  j = k
    OBVIOUS
  <2>2. CASE j \in 1..N /\ k \in 1..N
    BY <1>3, <1>4, <2>1, <2>2 DEF NoSharing
  <2>3. CASE j = N + 1 \/ k = N + 1
    BY <1>3, <1>5, <1>6, <2>1, <2>3
  <2>4. QED
    BY <1>6, <2>2, <2>3
<1>8. ASSUME NEW m \in Lists, NEW i \in Held(m)'
      PROVE  /\ \A k \in 1..(N + 1) : pool'[k] # chain'[m][i].buf
             /\ \A p \in Lists : \A j \in Held(p)' :
                  chain'[m][i].buf = chain'[p][j].buf => m = p /\ i = j
  <2>1. i \in Held(m) /\ chain[m][i].buf # b
    BY <1>1, <1>8
  <2>2. \A k \in 1..N : pool[k] # chain[m][i].buf
    BY <1>3, <1>4, <2>1 DEF NoSharing
  <2>3. ASSUME NEW k \in 1..(N + 1) PROVE pool'[k] # chain'[m][i].buf
    BY <1>3, <1>6, <2>1, <2>2
  <2>4. ASSUME NEW p \in Lists, NEW j \in Held(p)', chain'[m][i].buf = chain'[p][j].buf
        PROVE  m = p /\ i = j
    <3>1. j \in Held(p)
      BY <1>1, <2>4
    <3>2. QED
      BY <1>4, <2>1, <2>4, <3>1 DEF NoSharing
  <2>5. QED
    BY <2>3, <2>4
<1>9. ASSUME NEW a \in 1..made
      PROVE  \/ \E k \in 1..(N + 1) : pool'[k] = a
             \/ \E m \in Lists : \E i \in Held(m)' : chain'[m][i].buf = a
  <2>1. CASE \E k \in 1..N : pool[k] = a
    <3>1. PICK k \in 1..N : pool[k] = a
      BY <2>1
    <3>2. k \in 1..(N + 1) /\ pool'[k] = a
      BY <1>3, <3>1
    <3>3. QED
      BY <3>2
  <2>2. ASSUME NEW m \in Lists, NEW i \in Held(m), chain[m][i].buf = a
        PROVE  \/ \E k \in 1..(N + 1) : pool'[k] = a
               \/ \E p \in Lists : \E j \in Held(p)' : chain'[p][j].buf = a
    <3>1. CASE m = l /\ i = gone[l] + 1
      <4>1. pool'[N + 1] = a /\ N + 1 \in 1..(N + 1)
        BY <1>1, <1>3, <2>2, <3>1
      <4>2. QED
        BY <4>1
    <3>2. CASE ~(m = l /\ i = gone[l] + 1)
      <4>1. i \in Held(m)' /\ chain'[m][i].buf = a
        BY <1>1, <2>2, <3>2
      <4>2. QED
        BY <4>1
    <3>3. QED
      BY <3>1, <3>2
  <2>3. QED
    BY <1>3, <1>4, <2>1, <2>2 DEF NoSharing
<1>10. NoSharing'
  <2>1. \A j, k \in DOMAIN pool' : pool'[j] = pool'[k] => j = k
    BY <1>3, <1>7
  <2>2. \A m, p \in Lists : \A i \in Held(m)' :
          /\ \A j \in Held(p)' : chain'[m][i].buf = chain'[p][j].buf => m = p /\ i = j
          /\ \A k \in DOMAIN pool' : pool'[k] # chain'[m][i].buf
    BY <1>3, <1>8
  <2>3. \A a \in 1..made' : \/ \E k \in DOMAIN pool' : pool'[k] = a
                            \/ \E m \in Lists : \E i \in Held(m)' : chain'[m][i].buf = a
    BY <1>3, <1>9
  <2>4. QED
    BY <2>1, <2>2, <2>3 DEF NoSharing
<1>11. \A k \in 1..(N + 1) : pool'[k] <= made'
  BY <1>1, <1>3, <1>4, <1>6 DEF Allocated
<1>12. ASSUME NEW m \in Lists, NEW i \in Held(m)' PROVE chain'[m][i].buf <= made'
  BY <1>1, <1>4, <1>12 DEF Allocated
<1>13. Allocated'
  BY <1>3, <1>11, <1>12 DEF Allocated
<1>14. QED
  BY <1>10, <1>13

\* A memcpy that comes to the end of the buffer.
LEMMA ReadFull ==
  ASSUME BufferTypes, Buffered, NEW l \in Lists, NEW n \in Nat, Readable(l, n), ReadAdvance(l, n),
         rinx[l] + n = BufferSize, StillPut
  PROVE  Buffered'
<1>1. /\ rsize' = [rsize EXCEPT ![l] = @ + n]
      /\ UNCHANGED <<next, made, write, winx, wsize, chain>>
      /\ PopBuffer(l)
  BY DEF ReadAdvance, ReadOut
<1>2. /\ read' = [read EXCEPT ![l] = next[read[l]]] /\ rinx' = [rinx EXCEPT ![l] = 0]
      /\ data' = [data EXCEPT ![read[l]] = Zeros] /\ gone' = [gone EXCEPT ![l] = @ + 1]
  BY <1>1 DEF PopBuffer
<1>3. /\ NoSharing /\ Allocated
      /\ \A m \in Lists : Linked(m) /\ Full(m) /\ Holds(m)
  BY DEF Buffered
<1>4. NoSharing' /\ Allocated'
  BY <1>1, PoppedShares
<1>5. /\ \A m \in Lists : m # l => Held(m)' = Held(m) /\ gone'[m] = gone[m]
      /\ \A m \in Lists : \A i \in Held(m)' : i \in Held(m) /\ chain[m][i].buf # read[l]
  BY <1>1, PoppedPlaces
<1>6. ASSUME NEW m \in Lists PROVE Full(m)'
  <2>1. ASSUME NEW i \in Held(m)', i < Len(chain[m])
        PROVE  chain[m][i].before + BufferSize <= chain[m][Len(chain[m])].before
    BY <1>3, <1>5, <2>1 DEF Full
  <2>2. QED
    BY <1>1, <2>1 DEF Full
<1>7. ASSUME NEW m \in Lists
      PROVE  /\ rsize[m] <= rsize'[m] /\ rsize'[m] \in Nat /\ rsize[m] \in Nat
  <2>1. rsize[m] \in Nat /\ rsize'[m] = IF m = l THEN rsize[m] + n ELSE rsize[m]
    BY <1>1, Members DEF BufferTypes
  <2>2. QED
    BY <2>1
<1>8. Linked(l)'
  <2>1. /\ gone[l] + 2 \in Held(l) /\ next[read[l]] = chain[l][gone[l] + 2].buf
        /\ rsize[l] + n = chain[l][gone[l] + 2].before
    BY Successor
  <2>2. /\ rsize'[l] = rsize[l] + n /\ gone'[l] = gone[l] + 1 /\ rinx'[l] = 0
        /\ read'[l] = next[read[l]]
    BY <1>1, <1>2 DEF BufferTypes
  <2>3. gone[l] \in Nat /\ Len(chain[l]) \in Nat /\ (gone[l] + 1) + 1 = gone[l] + 2
    BY Members
  <2>4. gone'[l] < Len(chain[l])
    BY <2>1, <2>2, <2>3 DEF Held
  <2>5. /\ winx[l] < BufferSize /\ write[l] = chain[l][Len(chain[l])].buf
        /\ wsize[l] = chain[l][Len(chain[l])].before + winx[l]
    BY <1>3 DEF Linked
  <2>6. rsize'[l] <= wsize[l] /\ 0 < BufferSize
    BY <2>2, Constants DEF Readable
  <2>7. chain[l][gone[l] + 2].before + 0 = chain[l][gone[l] + 2].before
    BY <2>1, Places
  <2>8. \A i \in Held(l)' : i + 1 \in Held(l)' =>
          /\ next[chain[l][i].buf] = chain[l][i + 1].buf
          /\ chain[l][i + 1].before = chain[l][i].before + BufferSize
    BY <1>3, <1>5 DEF Linked
  <2>9. QED
    BY <1>1, <2>1, <2>2, <2>3, <2>4, <2>5, <2>6, <2>7, <2>8 DEF Linked
<1>9. ASSUME NEW m \in Lists, m # l PROVE Linked(m)'
  <2>1. /\ rsize'[m] = rsize[m] /\ rinx'[m] = rinx[m] /\ read'[m] = read[m]
        /\ gone'[m] = gone[m] /\ Held(m)' = Held(m)
    BY <1>1, <1>2, <1>5, <1>9 DEF BufferTypes
  <2>2. QED
    BY <1>1, <1>3, <2>1 DEF Linked
<1>10. ASSUME NEW m \in Lists PROVE Holds(m)'
  <2>1. SUFFICES ASSUME NEW i \in Held(m)', NEW j \in 1..BufferSize,
                        NEW at, at = chain[m][i].before + j, rsize'[m] < at, at <= wsize[m]
                 PROVE  IsPut(m, data[chain[m][i].buf][j], at)'
    BY <1>1 DEF Holds
  <2>2. i \in Held(m) /\ chain[m][i].buf # read[l]
    BY <1>5, <2>1
  <2>3. rsize[m] < at /\ at \in Nat \ {0}
    <3>1. chain[m][i].before \in Nat /\ j \in Nat /\ j >= 1
      BY <2>2, Places, Constants
    <3>2. QED
      BY <1>7, <2>1, <3>1
  <2>4. IsPut(m, data[chain[m][i].buf][j], at)
    BY <1>3, <2>1, <2>2, <2>3 DEF Holds
  <2>5. PICK x : x = data[chain[m][i].buf][j]
    OBVIOUS
  <2>6. IsPut(m, x, at)'
    BY <2>3, <2>4, <2>5 DEF StillPut
  <2>7. data'[chain[m][i].buf] = data[chain[m][i].buf] /\ chain' = chain
    BY <1>1, <1>2, <2>2, Places DEF BufferTypes
  <2>8. data'[chain'[m][i].buf][j] = x
    BY <2>5, <2>7
  <2>9. QED
    BY <2>6, <2>8 DEF IsPut, IsByte
<1>11. QED
  BY <1>4, <1>6, <1>8, <1>9, <1>10 DEF Buffered

LEMMA ReadKeeps ==
  ASSUME BufferTypes, Buffered, NEW l \in Lists, NEW n \in Nat, Passable(l, n), ReadAdvance(l, n),
         StillPut
  PROVE  /\ BufferTypes' /\ Buffered'
         /\ rsize' = [rsize EXCEPT ![l] = @ + n] /\ wsize' = wsize
         /\ rinx' = [rinx EXCEPT ![l] = IF rinx[l] + n = BufferSize THEN 0 ELSE rinx[l] + n]
<1>1. BufferTypes'
  BY ReadTypes
<1>2. Buffered'
  <2>1. CASE rinx[l] + n = BufferSize
    <3>1. Readable(l, n)
      BY <2>1, Constants DEF Readable, Passable
    <3>2. QED
      BY <2>1, <3>1, ReadFull
  <2>2. CASE rinx[l] + n # BufferSize
    BY <2>2, ReadInside DEF ReadOut
  <2>3. QED
    BY <2>1, <2>2
<1>3. rinx' = [rinx EXCEPT ![l] = IF rinx[l] + n = BufferSize THEN 0 ELSE rinx[l] + n]
  BY DEF ReadAdvance, ReadOut, PopBuffer
<1>4. QED
  BY <1>1, <1>2, <1>3 DEF ReadAdvance

\* What BufferList::Read may copy at once lies in one buffer and was written.
LEMMA CurrentReadable ==
  ASSUME BufferTypes, Buffered, NEW l \in Lists, rinx[l] < BufferSize
  PROVE  /\ CurrentBufferReadSize(l) \in Nat
         /\ \A n \in Nat : n <= CurrentBufferReadSize(l) => Readable(l, n)
<1> DEFINE g == gone[l] + 1
           L == Len(chain[l])
<1>1. /\ rinx[l] \in Nat /\ rsize[l] \in Nat /\ wsize[l] \in Nat /\ winx[l] \in Nat
      /\ BufferSize \in Nat /\ L \in Nat /\ gone[l] \in Nat
  BY Members, Constants
<1>2. Linked(l) /\ Full(l) /\ NoSharing
  BY DEF Buffered
<1>3. /\ g \in Held(l) /\ chain[l][g].before \in Nat /\ read[l] = chain[l][g].buf
      /\ L \in Held(l) /\ chain[l][L].before \in Nat /\ write[l] = chain[l][L].buf
      /\ rsize[l] = chain[l][g].before + rinx[l] /\ rsize[l] <= wsize[l]
      /\ wsize[l] = chain[l][L].before + winx[l]
      /\ winx[l] < BufferSize /\ gone[l] < L
  BY <1>2, Ends, Places DEF Linked
<1> HIDE DEF g, L
<1>4. CASE read[l] = write[l]
  <2>1. g = L
    <3>1. chain[l][g].buf = chain[l][L].buf /\ g \in Held(l) /\ L \in Held(l)
      BY <1>3, <1>4
    <3>2. QED
      BY <1>2, <3>1 DEF NoSharing
  <2>2. CurrentBufferReadSize(l) = winx[l] - rinx[l] /\ rinx[l] <= winx[l]
    BY <1>1, <1>3, <1>4, <2>1 DEF CurrentBufferReadSize
  <2>3. ASSUME NEW n \in Nat, n <= winx[l] - rinx[l] PROVE Readable(l, n)
    BY <1>1, <1>3, <2>1, <2>3 DEF Readable
  <2>4. QED
    BY <1>1, <2>2, <2>3
<1>5. CASE read[l] # write[l]
  <2>1. g < L
    <3>1. g # L
      BY <1>3, <1>5
    <3>2. gone[l] < L /\ g = gone[l] + 1
      BY <1>3 DEF g
    <3>3. QED
      BY <1>1, <3>1, <3>2
  <2>2. CurrentBufferReadSize(l) = BufferSize - rinx[l]
    BY <1>5 DEF CurrentBufferReadSize
  <2>3. chain[l][g].before + BufferSize <= chain[l][L].before
    BY <1>2, <1>3, <2>1 DEF Full, L
  <2>4. ASSUME NEW n \in Nat, n <= BufferSize - rinx[l] PROVE Readable(l, n)
    BY <1>1, <1>3, <2>3, <2>4 DEF Readable
  <2>5. QED
    BY <1>1, <1>3, <2>2, <2>4
<1>6. QED
  BY <1>4, <1>5

----------------------------------------------------------------------------
(* The bytes sent.                                                         *)

LEMMA Sent ==
  ASSUME PacketTypes, Starts
  PROVE  /\ Len(sent) \in Nat /\ Len(start) = Len(sent) + 1
         /\ \A p \in 1..Len(sent) : sent[p] \in Nat /\ start[p] \in Nat
         /\ \A p \in 1..(Len(sent) + 1) : start[p] \in Nat
         /\ Total = start[Len(sent) + 1] /\ Total \in Nat
<1>1. sent \in Seq(Sizes) /\ start \in Seq(Nat) /\ Len(start) = Len(sent) + 1
  BY DEF PacketTypes, Starts
<1>2. Len(sent) \in Nat /\ \A p \in 1..Len(sent) : sent[p] \in Nat
  <2>1. sent \in Seq(Nat)
    BY <1>1, Constants, SeqMonotonic
  <2>2. QED
    BY <2>1
<1>3. \A p \in 1..(Len(sent) + 1) : start[p] \in Nat
  BY <1>1
<1>4. Len(sent) + 1 \in 1..(Len(sent) + 1) /\ \A p \in 1..Len(sent) : p \in 1..(Len(sent) + 1)
  BY <1>2
<1>5. QED
  BY <1>1, <1>2, <1>3, <1>4 DEF Total

\* A packet ends before the next one starts.
LEMMA StartsOrdered ==
  ASSUME PacketTypes, Starts, NEW k \in 1..Len(sent), NEW m \in Nat, k <= m, m <= Len(sent)
  PROVE  start[k + 1] <= start[m + 1] /\ start[k + 1] \in Nat
<1>1. /\ Len(sent) \in Nat /\ Len(start) = Len(sent) + 1 /\ Meta \in Nat
      /\ \A p \in 1..Len(sent) : sent[p] \in Nat /\ start[p] \in Nat
      /\ \A p \in 1..(Len(sent) + 1) : start[p] \in Nat
  BY Sent, Constants
<1>2. k + 1 \in 1..(Len(sent) + 1) /\ m + 1 \in 1..(Len(sent) + 1) /\ k \in Nat
  BY <1>1
<1>3. start[k + 1] \in Nat /\ start[m + 1] \in Nat
  BY <1>1, <1>2
<1>4. start[k + 1] = start[k] + Meta + sent[k] /\ start[k] + Meta + sent[k] <= start[m + 1]
  <2>1. k + 1 \in 1..Len(start) /\ m + 1 \in 1..Len(start) /\ k < m + 1
    BY <1>1, <1>2
  <2>2. QED
    BY <2>1 DEF Starts
<1>5. QED
  BY <1>3, <1>4

\* A place among all bytes sent is of one packet only.
LEMMA ByteIs ==
  ASSUME PacketTypes, Starts, NEW p \in 1..Len(sent), NEW o \in 1..(Meta + sent[p]),
         NEW x \in Byte, NEW i, i = start[p] + o, IsByte(x, i)
  PROVE  x = [pkt |-> p, off |-> o]
<1>1. /\ Len(sent) \in Nat /\ Len(start) = Len(sent) + 1
      /\ \A q \in 1..Len(sent) : sent[q] \in Nat /\ start[q] \in Nat
  BY Sent
<1>2. /\ x # NULL /\ x.pkt \in 1..Len(sent) /\ x.off \in 1..(Meta + sent[x.pkt])
      /\ start[p] + o = start[x.pkt] + x.off
  BY DEF IsByte, ByteOf
<1>3. x \in [pkt : Nat, off : Nat]
  BY <1>2 DEF Byte
<1>4. PICK q \in Nat, r \in Nat : q = x.pkt /\ r = x.off
  BY <1>3
<1>5. /\ q \in 1..Len(sent) /\ r \in 1..(Meta + sent[q]) /\ start[p] + o = start[q] + r
      /\ sent[p] \in Nat /\ sent[q] \in Nat /\ start[p] \in Nat /\ start[q] \in Nat
      /\ p \in Nat /\ o \in Nat /\ o >= 1 /\ r >= 1 /\ Meta \in Nat
      /\ o <= Meta + sent[p] /\ r <= Meta + sent[q]
  BY <1>1, <1>2, <1>4, Constants
<1> DEFINE Before(a, m, s, b, o1, o2) ==
             ~(a + m + s <= b /\ o1 <= m + s /\ o2 >= 1 /\ a + o1 = b + o2)
<1>6. \A a, m, s, b, o1, o2 \in Nat : Before(a, m, s, b, o1, o2)
  OBVIOUS
<1>7. ~(p < q) /\ ~(q < p)
  <2>1. /\ p < q => start[p] + Meta + sent[p] <= start[q]
        /\ q < p => start[q] + Meta + sent[q] <= start[p]
    BY <1>1, <1>5 DEF Starts
  <2>2. /\ Before(start[p], Meta, sent[p], start[q], o, r)
        /\ Before(start[q], Meta, sent[q], start[p], r, o)
    <3> HIDE DEF Before
    <3>1. QED
      BY <1>5, <1>6
  <2>3. QED
    BY <1>5, <2>1, <2>2
<1>8. q = p /\ r = o
  BY <1>5, <1>7
<1>9. QED
  BY <1>3, <1>4, <1>8

\* A packet more leaves those before it as they were.
LEMMA SentMore ==
  ASSUME PacketTypes, Starts, NEW size \in Sizes,
         sent' = Append(sent, size), start' = Append(start, Total + Meta + size)
  PROVE  /\ Len(sent') = Len(sent) + 1 /\ sent'[Len(sent) + 1] = size
         /\ \A p \in 1..Len(sent) : sent'[p] = sent[p] /\ start'[p] = start[p]
         /\ \A p \in 1..(Len(sent) + 1) : start'[p] = start[p]
         /\ Len(start') = Len(sent) + 2 /\ start'[Len(sent) + 2] = Total + Meta + size
         /\ sent' \in Seq(Sizes) /\ start' \in Seq(Nat)
         /\ \A x, i : ByteOf(x, i, sent, start) => ByteOf(x, i, sent', start')
<1>1. /\ Len(sent) \in Nat /\ Len(start) = Len(sent) + 1 /\ Total \in Nat
      /\ sent \in Seq(Sizes) /\ start \in Seq(Nat) /\ size \in Nat /\ Meta \in Nat
  BY Sent, Constants DEF PacketTypes
<1>2. /\ Len(sent') = Len(sent) + 1 /\ sent'[Len(sent) + 1] = size
      /\ \A p \in 1..Len(sent) : sent'[p] = sent[p]
      /\ sent' \in Seq(Sizes)
  BY <1>1, AppendProperties
<1>3. Total + Meta + size \in Nat
  BY <1>1
<1>4. /\ Len(start') = (Len(sent) + 1) + 1 /\ start'[(Len(sent) + 1) + 1] = Total + Meta + size
      /\ \A p \in 1..(Len(sent) + 1) : start'[p] = start[p]
      /\ start' \in Seq(Nat)
  BY <1>1, <1>3, AppendProperties
<1>5. (Len(sent) + 1) + 1 = Len(sent) + 2
      /\ \A p \in 1..Len(sent) : p \in 1..(Len(sent) + 1)
  BY <1>1
<1>6. ASSUME NEW x, NEW i, ByteOf(x, i, sent, start) PROVE ByteOf(x, i, sent', start')
  <2>1. /\ x # NULL /\ x.pkt \in 1..Len(sent) /\ x.off \in 1..(Meta + sent[x.pkt])
        /\ i = start[x.pkt] + x.off
    BY <1>6 DEF ByteOf
  <2>2. sent'[x.pkt] = sent[x.pkt] /\ start'[x.pkt] = start[x.pkt] /\ x.pkt \in 1..Len(sent')
    BY <1>1, <1>2, <1>4, <1>5, <2>1
  <2>3. QED
    BY <2>1, <2>2 DEF ByteOf
<1>7. QED
  BY <1>2, <1>4, <1>5, <1>6

----------------------------------------------------------------------------
(* The initial state.                                                      *)

LEMMA InitHolds ==
  ASSUME Init
  PROVE  IInv
<1> DEFINE first == [l \in Lists |-> IF l = "read" THEN 1 ELSE 2]
<1>1. Lists = {"write", "read"}
  BY FramingAssumption
<1>2. /\ next = [b \in Buffers |-> NULL] /\ data = [b \in Buffers |-> Zeros]
      /\ made = Grow /\ pool = [k \in 1..(Grow - 2) |-> 2 + k]
      /\ read = first /\ write = first
      /\ rinx = [l \in Lists |-> 0] /\ winx = [l \in Lists |-> 0]
      /\ rsize = [l \in Lists |-> 0] /\ wsize = [l \in Lists |-> 0]
      /\ chain = [l \in Lists |-> <<[buf |-> first[l], before |-> 0]>>]
      /\ gone = [l \in Lists |-> 0]
  BY DEF Init, InitBuffers
<1>3. 1 \in Buffers /\ 2 \in Buffers /\ Grow - 2 \in Nat
  BY Constants DEF Buffers
<1>4. first \in [Lists -> Buffers]
  BY <1>3
<1>5. pool \in [1..(Grow - 2) -> Buffers]
  BY <1>2, Constants DEF Buffers
<1>6. pool \in Seq(Buffers) /\ DOMAIN pool = 1..(Grow - 2) /\ Len(pool) = Grow - 2
  <2>1. PICK N \in Nat : N = Grow - 2
    BY <1>3
  <2>2. pool \in [1..N -> Buffers]
    BY <1>5, <2>1
  <2>3. pool \in Seq(Buffers)
    BY <2>2
  <2>4. DOMAIN pool = 1..N /\ Len(pool) = N
    BY <2>2, <2>3
  <2>5. QED
    BY <2>1, <2>3, <2>4
<1>7. Zeros \in [1..BufferSize -> Byte]
  BY DEF Zeros, Byte
<1>8. \A l \in Lists : /\ chain[l] = <<[buf |-> first[l], before |-> 0]>>
                       /\ chain[l] \in Seq(Cell) /\ Len(chain[l]) = 1
                       /\ chain[l][1].buf = first[l] /\ chain[l][1].before = 0
                       /\ Held(l) = 1..1
  <2>1. ASSUME NEW l \in Lists
        PROVE  /\ chain[l] = <<[buf |-> first[l], before |-> 0]>>
               /\ chain[l] \in Seq(Cell) /\ Len(chain[l]) = 1
               /\ chain[l][1].buf = first[l] /\ chain[l][1].before = 0
               /\ Held(l) = 1..1
    <3>1. chain[l] = <<[buf |-> first[l], before |-> 0]>> /\ gone[l] = 0
      BY <1>2
    <3>2. [buf |-> first[l], before |-> 0] \in Cell
      BY <1>4 DEF Cell
    <3> HIDE DEF first
    <3>3. /\ chain[l] \in Seq(Cell) /\ Len(chain[l]) = 1
          /\ chain[l][1] = [buf |-> first[l], before |-> 0]
      BY <3>1, <3>2
    <3>4. Held(l) = 1..1
      BY <3>1, <3>3 DEF Held
    <3>5. QED
      BY <3>1, <3>3, <3>4
  <2>2. QED
    BY <2>1, Zenon
<1>9. BufferTypes
  <2>1. chain \in [Lists -> Seq(Cell)]
    BY <1>2, <1>8
  <2>2. made \in 1..MaxBuffers
    BY <1>2, Constants
  <2>3. data \in [Buffers -> [1..BufferSize -> Byte]]
    BY <1>2, <1>7
  <2>4. /\ next \in [Buffers -> Buffers \cup {NULL}]
        /\ read \in [Lists -> Buffers] /\ write \in [Lists -> Buffers]
        /\ rinx \in [Lists -> Nat] /\ winx \in [Lists -> Nat]
        /\ rsize \in [Lists -> Nat] /\ wsize \in [Lists -> Nat] /\ gone \in [Lists -> Nat]
    BY <1>2, <1>4
  <2>5. QED
    BY <1>6, <2>1, <2>2, <2>3, <2>4 DEF BufferTypes
<1>10. PacketTypes
  <2>1. /\ sent = <<>> /\ start = <<0>> /\ from = 0 /\ onWire = <<>> /\ taken = 0
        /\ state = "header" /\ packet = NULL /\ copied = <<>> /\ got = <<>> /\ pc = "poll"
    BY DEF Init
  <2>2. QED
    BY <2>1 DEF PacketTypes
<1>11. first["read"] = 1 /\ first["write"] = 2 /\ \A l \in Lists : first[l] \in 1..2
  BY <1>1
<1>12. \A k \in 1..(Grow - 2) : pool[k] = 2 + k
  BY <1>2
<1> HIDE DEF first
<1>13. ASSUME NEW l \in Lists
       PROVE  1 \in Held(l) /\ \A i \in Held(l) : i = 1 /\ chain[l][i].buf = first[l]
  <2>1. Held(l) = 1..1 /\ chain[l][1].buf = first[l]
    BY <1>8
  <2>2. Held(l) = {1}
    BY <2>1
  <2>3. QED
    BY <2>1, <2>2
<1>14. NoSharing
  <2>1. \A j, k \in DOMAIN pool : pool[j] = pool[k] => j = k
    BY <1>6, <1>12, Constants
  <2>2. ASSUME NEW l \in Lists, NEW m \in Lists, NEW i \in Held(l)
        PROVE  /\ \A j \in Held(m) : chain[l][i].buf = chain[m][j].buf => l = m /\ i = j
               /\ \A k \in DOMAIN pool : pool[k] # chain[l][i].buf
    <3>1. \A j \in Held(m) : chain[l][i].buf = chain[m][j].buf => l = m /\ i = j
      BY <1>1, <1>11, <1>13
    <3>2. chain[l][i].buf \in 1..2
      BY <1>11, <1>13
    <3>3. \A k \in DOMAIN pool : pool[k] # chain[l][i].buf
      BY <1>6, <1>12, <3>2, Constants
    <3>4. QED
      BY <3>1, <3>3
  <2>3. ASSUME NEW b \in 1..made
        PROVE  \/ \E k \in DOMAIN pool : pool[k] = b
               \/ \E l \in Lists : \E i \in Held(l) : chain[l][i].buf = b
    <3>1. CASE b > 2
      <4>1. b - 2 \in 1..(Grow - 2) /\ 2 + (b - 2) = b
        BY <1>2, <3>1, Constants
      <4>2. QED
        BY <1>6, <1>12, <4>1
    <3>2. CASE ~(b > 2)
      <4>1. b = 1 \/ b = 2
        BY <1>2, <3>2, Constants
      <4>2. 1 \in Held("read") /\ chain["read"][1].buf = 1 /\ "read" \in Lists
        BY <1>11, <1>13, Constants
      <4>3. 1 \in Held("write") /\ chain["write"][1].buf = 2 /\ "write" \in Lists
        BY <1>11, <1>13, Constants
      <4>4. QED
        BY <4>1, <4>2, <4>3
    <3>3. QED
      BY <3>1, <3>2
  <2>4. QED
    BY <2>1, <2>2, <2>3 DEF NoSharing
<1>15. Allocated
  <2>1. \A k \in DOMAIN pool : pool[k] <= made
    BY <1>2, <1>6, <1>12, Constants
  <2>2. ASSUME NEW l \in Lists, NEW i \in Held(l) PROVE chain[l][i].buf <= made
    <3>1. chain[l][i].buf \in 1..2
      BY <1>11, <1>13
    <3>2. QED
      BY <1>2, <3>1, Constants
  <2>3. QED
    BY <2>1, <2>2 DEF Allocated
<1>16. ASSUME NEW l \in Lists PROVE Linked(l) /\ Full(l) /\ Holds(l)
  <2>1. /\ gone[l] = 0 /\ rinx[l] = 0 /\ winx[l] = 0 /\ rsize[l] = 0 /\ wsize[l] = 0
        /\ read[l] = first[l] /\ write[l] = first[l]
    BY <1>2
  <2>2. /\ Len(chain[l]) = 1 /\ chain[l][1].buf = first[l] /\ chain[l][1].before = 0
        /\ Held(l) = 1..1
    BY <1>8
  <2>3. Linked(l)
    BY <2>1, <2>2, Constants DEF Linked
  <2>4. Full(l)
    BY <2>2 DEF Full
  <2>5. Holds(l)
    BY <2>1, <2>2, Constants DEF Holds
  <2>6. QED
    BY <2>3, <2>4, <2>5
<1>17. Starts /\ Flow /\ Parsing
  <2>1. /\ sent = <<>> /\ start = <<0>> /\ onWire = <<>> /\ taken = 0
        /\ state = "header" /\ copied = <<>> /\ got = <<>> /\ pc = "poll"
    BY DEF Init
  <2>2. rsize["write"] = 0 /\ wsize["read"] = 0 /\ wsize["write"] = 0 /\ rsize["read"] = 0
    BY <1>2, Constants
  <2>3. /\ Len(sent) = 0 /\ Len(start) = 1 /\ start[1] = 0 /\ Len(onWire) = 0
        /\ Len(copied) = 0 /\ Len(got) = 0
    BY <2>1
  <2>4. Starts
    BY <2>3 DEF Starts
  <2>5. Total = 0
    BY <2>3 DEF Total
  <2>6. Clean = 0
    BY <1>2, <2>3, Constants DEF Clean, Overrun
  <2>7. Flow
    BY <2>1, <2>2, <2>3, <2>5, <2>6 DEF Flow
  <2>8. Parsed = 0 /\ Wanted = Meta /\ Begun = 0
    <3>1. Parsed = start[0 + 1] + 0
      BY <2>1, <2>3 DEF Parsed
    <3>2. Begun = 0 - 0
      BY <2>2, <2>3 DEF Begun
    <3>3. Wanted = Meta
      BY <2>1 DEF Wanted
    <3>4. QED
      BY <2>3, <3>1, <3>2, <3>3
  <2>9. Reading
    BY <2>1, <2>2, <2>3 DEF Reading
  <2>10. OnTrack
    BY <2>1, <2>2, <2>3, <2>6, <2>8, Constants DEF OnTrack
  <2>11. QED
    BY <2>4, <2>7, <2>9, <2>10 DEF Parsing
<1>18. QED
  BY <1>9, <1>10, <1>14, <1>15, <1>16, <1>17 DEF IInv, Buffered

----------------------------------------------------------------------------
(* The steps.                                                              *)

\* What went out before write(2) ran past a buffer.
LEMMA CleanIs ==
  ASSUME BufferTypes, Buffered, PacketTypes, Flow
  PROVE  /\ Clean \in Nat /\ Clean <= Len(onWire) /\ Len(onWire) \in Nat
         /\ Overrun <=> Clean < Len(onWire)
<1>1. /\ rinx["write"] \in Nat /\ rsize["write"] \in Nat /\ BufferSize \in Nat
      /\ Len(onWire) = rsize["write"] /\ Len(onWire) \in Nat
  BY Members, Constants DEF Flow, PacketTypes
<1>2. /\ Linked("write") /\ gone["write"] + 1 \in Held("write")
      /\ chain["write"][gone["write"] + 1].before \in Nat
  BY Ends, Places, Constants DEF Buffered
<1>3. PICK b \in Nat : rsize["write"] = b + rinx["write"]
  BY <1>2 DEF Linked
<1>4. CASE Overrun
  <2>1. Clean = (b + rinx["write"]) - (rinx["write"] - BufferSize) /\ rinx["write"] > BufferSize
    BY <1>1, <1>3, <1>4 DEF Clean, Overrun
  <2>2. \A x, y, z \in Nat : y > z => /\ (x + y) - (y - z) = x + z
                                     /\ x + z \in Nat /\ x + z < x + y
    OBVIOUS
  <2>3. Clean = b + BufferSize /\ Clean \in Nat /\ Clean < b + rinx["write"]
    BY <1>1, <2>1, <2>2
  <2>4. QED
    BY <1>1, <1>3, <1>4, <2>3
<1>5. CASE ~Overrun
  BY <1>1, <1>5 DEF Clean
<1>6. QED
  BY <1>4, <1>5

LEMMA CleanSame ==
  ASSUME rinx'["write"] = rinx["write"], UNCHANGED onWire
  PROVE  Clean' = Clean /\ (Overrun <=> Overrun')
BY DEF Clean, Overrun

\* A step that leaves the buffers and the wire alone and takes back no byte
\* sent.
LEMMA BufferSame ==
  ASSUME BufferTypes, Buffered, UNCHANGED <<bufferVars, onWire>>,
         \A x, i : ByteOf(x, i, sent, start) => ByteOf(x, i, sent', start')
  PROVE  BufferTypes' /\ Buffered'
<1>1. UNCHANGED <<next, data, pool, made, read, write, rinx, winx, rsize, wsize, chain, gone>>
  BY DEF bufferVars
<1>2. BufferTypes'
  BY <1>1 DEF BufferTypes
<1>3. /\ NoSharing /\ Allocated
      /\ \A m \in Lists : Linked(m) /\ Full(m) /\ Holds(m) /\ Held(m)' = Held(m)
  BY <1>1 DEF Buffered, Held
<1>4. NoSharing' /\ Allocated'
  BY <1>1, <1>3 DEF NoSharing, Allocated
<1>5. \A m \in Lists : Linked(m)' /\ Full(m)'
  BY <1>1, <1>3 DEF Linked, Full
<1>6. ASSUME NEW m \in Lists PROVE Holds(m)'
  <2>1. SUFFICES ASSUME NEW i \in Held(m), NEW j \in 1..BufferSize,
                        NEW at, at = chain[m][i].before + j, rsize[m] < at, at <= wsize[m]
                 PROVE  IsPut(m, data[chain[m][i].buf][j], at)'
    BY <1>1, <1>3 DEF Holds
  <2>2. IsPut(m, data[chain[m][i].buf][j], at)
    BY <1>3, <2>1 DEF Holds
  <2>3. QED
    BY <1>1, <2>2 DEF IsPut, IsByte
<1>7. QED
  BY <1>2, <1>4, <1>5, <1>6 DEF Buffered

LEMMA StartsSame ==
  ASSUME Starts, UNCHANGED <<sent, start>>
  PROVE  Starts'
BY DEF Starts

\* Where the current Read began and what it wants.
LEMMA Waiting ==
  ASSUME BufferTypes, PacketTypes, Reading
  PROVE  /\ Begun \in Nat /\ Wanted \in Nat /\ Len(copied) \in Nat /\ rsize["read"] \in Nat
         /\ wsize["read"] \in Nat
         /\ Begun + Len(copied) = rsize["read"]
         /\ state = "header" \/ state = "packet"
         /\ state = "header" => Wanted = Meta
         /\ state = "packet" => Wanted = packet.size /\ packet \in [pkt : Nat, size : Sizes]
<1>1. Len(copied) \in Nat /\ rsize["read"] \in Nat /\ Len(copied) <= rsize["read"]
      /\ wsize["read"] \in Nat
  BY Members, Constants DEF PacketTypes, Reading
<1>2. state = "header" \/ state = "packet"
  BY DEF PacketTypes
<1>3. state = "header" => Wanted = Meta /\ Wanted \in Nat
  BY Constants DEF Wanted
<1>4. state = "packet" => /\ Wanted = packet.size /\ packet \in [pkt : Nat, size : Sizes]
                          /\ Wanted \in Nat
  BY Constants DEF Wanted, Reading
<1>5. \A a, b \in Nat : a <= b => b - a \in Nat /\ (b - a) + a = b
  OBVIOUS
<1>6. Begun \in Nat /\ Begun + Len(copied) = rsize["read"]
  BY <1>1, <1>5 DEF Begun
<1>7. QED
  BY <1>1, <1>2, <1>3, <1>4, <1>6

\* Where the parser is among the packets sent, and what it waits for.
LEMMA Parser ==
  ASSUME PacketTypes, Starts, OnTrack
  PROVE  /\ Len(got) \in Nat /\ Len(got) + 1 \in 1..(Len(sent) + 1)
         /\ start[Len(got) + 1] \in Nat /\ Parsed \in Nat /\ Wanted \in Nat
         /\ state = "header" => Parsed = start[Len(got) + 1] /\ Wanted = Meta
         /\ state = "packet" => /\ Len(got) + 1 \in 1..Len(sent)
                                /\ packet = [pkt |-> Len(got) + 1, size |-> sent[Len(got) + 1]]
                                /\ Wanted = sent[Len(got) + 1]
                                /\ Parsed = start[Len(got) + 1] + Meta
<1>1. /\ Len(sent) \in Nat /\ Meta \in Nat
      /\ \A p \in 1..Len(sent) : sent[p] \in Nat
      /\ \A p \in 1..(Len(sent) + 1) : start[p] \in Nat
  BY Sent, Constants
<1>2. Len(got) \in Nat /\ Len(got) <= Len(sent)
  BY DEF OnTrack, PacketTypes
<1>3. Len(got) + 1 \in 1..(Len(sent) + 1) /\ start[Len(got) + 1] \in Nat
  BY <1>1, <1>2
<1>4. state = "header" => Parsed = start[Len(got) + 1] /\ Wanted = Meta /\ Parsed \in Nat
  <2>1. ASSUME state = "header" PROVE Parsed = start[Len(got) + 1] + 0
    BY <2>1 DEF Parsed
  <2>2. QED
    BY <1>3, <2>1 DEF Wanted
<1>5. state = "packet" => /\ Len(got) < Len(sent)
                          /\ packet = [pkt |-> Len(got) + 1, size |-> sent[Len(got) + 1]]
  BY DEF OnTrack
<1>6. state = "packet" => /\ Len(got) + 1 \in 1..Len(sent)
                          /\ Wanted = sent[Len(got) + 1]
                          /\ Parsed = start[Len(got) + 1] + Meta
  <2>1. ASSUME state = "packet" PROVE Len(got) + 1 \in 1..Len(sent)
    BY <1>1, <1>2, <1>5, <2>1
  <2>2. QED
    BY <1>5, <2>1 DEF Wanted, Parsed
<1>7. state = "header" \/ state = "packet"
  BY DEF PacketTypes
<1>8. Parsed \in Nat /\ Wanted \in Nat
  BY <1>1, <1>3, <1>4, <1>6, <1>7
<1>9. QED
  BY <1>2, <1>3, <1>4, <1>5, <1>6, <1>8

\* A step that does not read from read_list_.
LEMMA ReadingSame ==
  ASSUME Reading, UNCHANGED <<state, packet, copied>>, rsize'["read"] = rsize["read"],
         pc # "read", pc' # "read"
  PROVE  Reading' /\ Begun' = Begun
<1>1. Begun' = Begun
  BY DEF Begun
<1>2. copied = <<>> /\ Len(copied) = 0
  BY EmptySeq DEF Reading
<1>3. QED
  BY <1>1, <1>2 DEF Reading

\* What write(2) has handed on only grows, and after it ran past a buffer
\* nothing is added to it.
CleanGrows ==
  /\ Clean \in Nat /\ Clean' \in Nat /\ Clean <= Clean'
  /\ Overrun => Overrun' /\ Clean' = Clean

\* A step after which the parser is where it was.
LEMMA TrackSame ==
  ASSUME OnTrack \/ OffTrack, PacketTypes, Starts, CleanGrows,
         UNCHANGED <<sent, start, state, packet, got>>, Begun' = Begun,
         OnTrack => (pc' \in {"poll", "send"} => wsize'["read"] < Parsed + Wanted)
  PROVE  OnTrack' \/ OffTrack'
<1>1. Parsed' = Parsed /\ Wanted' = Wanted
  BY DEF Parsed, Wanted
<1>2. \A k : IsSent(k)' <=> IsSent(k)
  BY DEF IsSent, Content
<1>3. CASE OnTrack
  <2>1. Parsed \in Nat /\ Parsed <= Clean
    BY <1>3, Parser DEF OnTrack
  <2>2. Parsed <= Clean'
    BY <2>1 DEF CleanGrows
  <2>3. OnTrack'
    BY <1>1, <1>2, <1>3, <2>2 DEF OnTrack
  <2>4. QED
    BY <2>3
<1>4. CASE OffTrack
  <2>1. Overrun' /\ Clean' = Clean
    BY <1>4 DEF OffTrack, CleanGrows
  <2>2. OffTrack'
    BY <1>2, <1>4, <2>1 DEF OffTrack
  <2>3. QED
    BY <2>2
<1>5. QED
  BY <1>3, <1>4

\* A step that does not read from read_list_, and waits if it writes to it.
LEMMA ParsingSame ==
  ASSUME Parsing, PacketTypes, Starts, CleanGrows,
         UNCHANGED <<sent, start, state, packet, copied, got>>,
         rsize'["read"] = rsize["read"], pc # "read", pc' # "read",
         pc' \in {"poll", "send"} => pc \in {"poll", "send"} /\ wsize'["read"] = wsize["read"]
  PROVE  Parsing'
<1>1. Reading' /\ Begun' = Begun
  BY ReadingSame DEF Parsing
<1>2. OnTrack => (pc' \in {"poll", "send"} => wsize'["read"] < Parsed + Wanted)
  BY DEF OnTrack
<1>3. OnTrack' \/ OffTrack'
  BY <1>1, <1>2, TrackSame DEF Parsing
<1>4. QED
  BY <1>1, <1>3 DEF Parsing

\* Steps that neither send nor read from write_list_.
LEMMA NothingSent ==
  ASSUME BufferTypes, Buffered, PacketTypes, Flow,
         rinx'["write"] = rinx["write"], UNCHANGED <<sent, start, onWire>>
  PROVE  /\ CleanGrows /\ StillPut
         /\ \A i \in 1..Clean' : IsByte(onWire[i], i)'
<1>1. Clean' = Clean /\ (Overrun <=> Overrun') /\ Clean \in Nat
  BY CleanIs, CleanSame
<1>2. CleanGrows
  BY <1>1 DEF CleanGrows
<1>3. StillPut
  BY DEF StillPut, IsPut, IsByte
<1>4. \A i \in 1..Clean' : IsByte(onWire[i], i)'
  BY <1>1 DEF Flow, IsByte
<1>5. QED
  BY <1>2, <1>3, <1>4

LEMMA SendPacketStep ==
  ASSUME IInv, NEW size \in Sizes, SendPacket(size)
  PROVE  IInv'
<1>1. /\ pc = "poll" /\ pc' = "send" /\ from' = 0
      /\ sent' = Append(sent, size) /\ start' = Append(start, Total + Meta + size)
      /\ UNCHANGED bufferVars /\ UNCHANGED <<onWire, taken, state, packet, copied, got>>
  BY DEF SendPacket, wireVars, parserVars
<1>2. BufferTypes /\ PacketTypes /\ Buffered /\ Starts /\ Flow /\ Parsing
  BY DEF IInv
<1>3. /\ Len(sent') = Len(sent) + 1 /\ sent'[Len(sent) + 1] = size
      /\ \A p \in 1..Len(sent) : sent'[p] = sent[p] /\ start'[p] = start[p]
      /\ \A p \in 1..(Len(sent) + 1) : start'[p] = start[p]
      /\ Len(start') = Len(sent) + 2 /\ start'[Len(sent) + 2] = Total + Meta + size
      /\ sent' \in Seq(Sizes) /\ start' \in Seq(Nat)
      /\ \A x, i : ByteOf(x, i, sent, start) => ByteOf(x, i, sent', start')
  BY <1>1, <1>2, SentMore
<1>4. /\ Len(sent) \in Nat /\ Len(start) = Len(sent) + 1
      /\ \A p \in 1..Len(sent) : sent[p] \in Nat /\ start[p] \in Nat
      /\ Total = start[Len(sent) + 1] /\ Total \in Nat /\ size \in Nat /\ Meta \in Nat /\ Meta >= 1
  BY <1>2, Sent, Constants
<1>5. BufferTypes' /\ Buffered'
  BY <1>1, <1>2, <1>3, BufferSame
<1>6. PacketTypes'
  BY <1>1, <1>2, <1>3 DEF PacketTypes
<1>7. Starts'
  <2>1. SUFFICES ASSUME NEW p \in 1..(Len(sent) + 1), NEW q \in 1..(Len(sent) + 2)
                 PROVE  /\ q = p + 1 => start'[q] = start'[p] + Meta + sent'[p]
                        /\ p < q => start'[p] + Meta + sent'[p] <= start'[q]
    BY <1>3, <1>4 DEF Starts
  <2>2. CASE p \in 1..Len(sent) /\ q \in 1..(Len(sent) + 1)
    <3>1. /\ q = p + 1 => start[q] = start[p] + Meta + sent[p]
          /\ p < q => start[p] + Meta + sent[p] <= start[q]
      BY <1>2, <2>2 DEF Starts
    <3>2. start'[p] = start[p] /\ sent'[p] = sent[p] /\ start'[q] = start[q]
      BY <1>3, <2>2
    <3>3. QED
      BY <3>1, <3>2
  <2>3. CASE p \in 1..Len(sent) /\ q = Len(sent) + 2
    <3>1. start[p] + Meta + sent[p] <= start[Len(sent) + 1]
      <4>1. Len(sent) + 1 \in 1..Len(start) /\ p < Len(sent) + 1
        BY <1>4, <2>3
      <4>2. QED
        BY <1>2, <2>3, <4>1 DEF Starts
    <3>2. start'[p] = start[p] /\ sent'[p] = sent[p] /\ start'[q] = Total + Meta + size
      BY <1>3, <2>3
    <3>3. start[p] \in Nat /\ sent[p] \in Nat
      BY <1>4, <2>3
    <3>4. start'[p] + Meta + sent'[p] <= start'[q]
      BY <1>4, <3>1, <3>2, <3>3
    <3>5. q # p + 1
      BY <1>4, <2>3
    <3>6. QED
      BY <3>4, <3>5
  <2>4. CASE p = Len(sent) + 1
    <3>1. start'[p] = Total /\ sent'[p] = size
      BY <1>3, <1>4, <2>4
    <3>2. q > p => q = Len(sent) + 2
      BY <1>4, <2>4
    <3>3. q > p => start'[q] = start'[p] + Meta + sent'[p]
      BY <1>3, <3>1, <3>2
    <3>4. start'[p] + Meta + sent'[p] \in Nat
      BY <1>4, <3>1
    <3>5. QED
      BY <1>4, <2>4, <3>3, <3>4
  <2>5. /\ p \in 1..Len(sent) \/ p = Len(sent) + 1
        /\ q \in 1..(Len(sent) + 1) \/ q = Len(sent) + 2
    <3>1. \A a, b \in Nat : a \in 1..(b + 1) => a \in 1..b \/ a = b + 1
      OBVIOUS
    <3>2. \A a, b \in Nat : a \in 1..(b + 2) => a \in 1..(b + 1) \/ a = b + 2
      OBVIOUS
    <3>3. p \in Nat /\ q \in Nat
      BY <1>4
    <3>4. QED
      BY <1>4, <3>1, <3>2, <3>3
  <2>6. QED
    BY <2>2, <2>3, <2>4, <2>5
<1>8. /\ Clean' = Clean /\ (Overrun <=> Overrun') /\ Clean \in Nat /\ Clean <= Len(onWire)
      /\ rsize' = rsize /\ wsize' = wsize /\ wsize["write"] = Total
      /\ Len(onWire) = rsize["write"] /\ rsize["write"] <= wsize["write"]
      /\ Len(onWire) \in Nat
  <2>1. rinx' = rinx /\ rsize' = rsize /\ wsize' = wsize
    BY <1>1 DEF bufferVars
  <2>2. wsize["write"] = Total /\ Len(onWire) = rsize["write"]
    BY <1>1, <1>2 DEF Flow
  <2>3. rsize["write"] <= wsize["write"]
    BY <1>2, Constants DEF Buffered, Linked
  <2>4. QED
    BY <1>1, <1>2, <2>1, <2>2, <2>3, CleanIs, CleanSame
<1>9. Flow'
  <2>1. sent' # <<>>
    BY <1>3, <1>4, EmptySeq
  <2>2. from' < Meta + sent'[Len(sent')] /\ wsize'["write"] = start'[Len(sent')] + from'
    BY <1>1, <1>3, <1>4, <1>8
  <2>3. /\ Len(onWire') = rsize'["write"] /\ wsize'["read"] = taken' /\ taken' <= Len(onWire')
    BY <1>1, <1>2, <1>8 DEF Flow
  <2>4. \A i \in 1..Clean : ByteOf(onWire[i], i, sent', start')
    BY <1>2, <1>3 DEF Flow, IsByte
  <2>5. QED
    BY <1>1, <1>8, <2>1, <2>2, <2>3, <2>4 DEF Flow, IsByte
<1>10. Reading' /\ Begun' = Begun
  BY <1>1, <1>2, <1>8, ReadingSame DEF Parsing
<1>11. ASSUME NEW k \in 1..Len(sent) PROVE IsSent(k)' <=> IsSent(k)
  <2>1. sent'[k] = sent[k]
    BY <1>3
  <2>2. Content(k)' = Content(k)
    BY <2>1 DEF Content
  <2>3. QED
    BY <1>1, <2>2 DEF IsSent
<1>12. ASSUME OnTrack PROVE Parsing'
  <2>1. Len(got) <= Len(sent) /\ Len(got) \in Nat
    BY <1>2, <1>12 DEF OnTrack, PacketTypes
  <2>2. Parsed' = Parsed
    <3>1. Len(got) + 1 \in 1..(Len(sent) + 1)
      BY <1>4, <2>1
    <3>2. start'[Len(got) + 1] = start[Len(got) + 1]
      BY <1>3, <3>1
    <3>3. QED
      BY <1>1, <3>2 DEF Parsed
  <2>3. Wanted' = Wanted
    BY <1>1 DEF Wanted
  <2>4. ASSUME NEW k \in 1..Len(got) PROVE IsSent(k)'
    <3>1. k \in 1..Len(sent) /\ IsSent(k)
      BY <1>4, <1>12, <2>1 DEF OnTrack
    <3>2. QED
      BY <1>11, <3>1
  <2>5. ASSUME state = "packet"
        PROVE  /\ Len(got) < Len(sent')
               /\ packet = [pkt |-> Len(got) + 1, size |-> sent'[Len(got) + 1]]
    <3>1. /\ Len(got) < Len(sent)
          /\ packet = [pkt |-> Len(got) + 1, size |-> sent[Len(got) + 1]]
      BY <1>12, <2>5 DEF OnTrack
    <3>2. Len(got) + 1 \in 1..Len(sent)
      BY <1>4, <2>1, <3>1
    <3>3. sent'[Len(got) + 1] = sent[Len(got) + 1]
      BY <1>3, <3>2
    <3>4. Len(got) < Len(sent')
      BY <1>3, <1>4, <2>1, <3>1
    <3>5. QED
      BY <3>1, <3>3, <3>4
  <2>6. wsize["read"] < Parsed + Wanted /\ Begun = Parsed /\ Parsed <= Clean
    BY <1>1, <1>12 DEF OnTrack
  <2>7. Len(got) <= Len(sent')
    BY <1>3, <1>4, <2>1
  <2>8. OnTrack'
    BY <1>1, <1>8, <1>10, <2>2, <2>3, <2>4, <2>5, <2>6, <2>7 DEF OnTrack
  <2>9. QED
    BY <1>10, <2>8 DEF Parsing
<1>13. ASSUME OffTrack PROVE Parsing'
  <2>1. ASSUME NEW k \in 1..Len(sent'), start'[k + 1] <= Clean
        PROVE  k <= Len(got) /\ IsSent(k)'
    <3>1. k # Len(sent) + 1
      <4>1. SUFFICES ASSUME k = Len(sent) + 1 PROVE FALSE
        OBVIOUS
      <4>2. k + 1 = Len(sent) + 2
        BY <1>4, <4>1
      <4>3. start'[k + 1] = Total + Meta + size
        BY <1>3, <4>2
      <4>4. \A c, l, r, w, m, z \in Nat :
              ~(w + m + z <= c /\ c <= l /\ l = r /\ r <= w /\ m >= 1)
        OBVIOUS
      <4>5. rsize["write"] \in Nat
        BY <1>8
      <4>6. /\ Total + Meta + size <= Clean /\ Clean <= Len(onWire) /\ Len(onWire) = rsize["write"]
            /\ rsize["write"] <= Total /\ Meta >= 1
        BY <1>4, <1>8, <2>1, <4>3
      <4>7. QED
        BY <1>4, <1>8, <4>4, <4>5, <4>6
    <3>2. k \in 1..Len(sent) /\ k + 1 \in 1..(Len(sent) + 1)
      BY <1>3, <1>4, <3>1
    <3>3. start[k + 1] <= Clean
      BY <1>3, <2>1, <3>2
    <3>4. QED
      BY <1>11, <1>13, <3>2, <3>3 DEF OffTrack
  <2>2. OffTrack'
    BY <1>1, <1>8, <1>10, <1>13, <2>1 DEF OffTrack
  <2>3. QED
    BY <1>10, <2>2 DEF Parsing
<1>14. QED
  BY <1>2, <1>5, <1>6, <1>7, <1>9, <1>12, <1>13 DEF IInv, Parsing

LEMMA WriteSomeStep ==
  ASSUME IInv, WriteSome
  PROVE  IInv'
<1> DEFINE n == Least(Left, WriteableSize("write"))
<1>1. /\ pc = "send" /\ WriteAdvance("write", n, Piece(n)) /\ from' = from + n
      /\ pc' = IF n = Left THEN "poll" ELSE "send"
      /\ UNCHANGED <<sent, start, onWire, taken, state, packet, copied, got>>
  BY DEF WriteSome, wireVars, parserVars
<1>2. BufferTypes /\ PacketTypes /\ Buffered /\ Starts /\ Flow /\ Parsing
  BY DEF IInv
<1>3. /\ sent # <<>> /\ from < Meta + sent[Len(sent)] /\ from \in Nat
      /\ wsize["write"] = start[Len(sent)] + from
  BY <1>1, <1>2 DEF Flow, PacketTypes
<1>4. /\ Len(sent) \in Nat /\ Len(start) = Len(sent) + 1
      /\ Total = start[Len(sent) + 1]
      /\ \A p \in 1..Len(sent) : sent[p] \in Nat /\ start[p] \in Nat
      /\ Meta \in Nat
  BY <1>2, Sent, Constants
<1>5. Len(sent) \in 1..Len(sent)
  BY <1>2, <1>3, EmptySeq DEF PacketTypes
<1>6. PICK s \in Nat, b \in Nat : s = sent[Len(sent)] /\ b = start[Len(sent)]
  BY <1>4, <1>5
<1>7. Left = Meta + s - from /\ Left \in Nat /\ Left >= 1
  <2>1. \A m, t, d \in Nat : d < m + t => m + t - d \in Nat /\ m + t - d >= 1
    OBVIOUS
  <2>2. QED
    BY <1>3, <1>4, <1>6, <2>1 DEF Left
<1>8. WriteableSize("write") \in Nat /\ WriteableSize("write") >= 1
  <2>1. winx["write"] \in Nat /\ winx["write"] < BufferSize
    BY <1>2, Members, Constants DEF Buffered, Linked
  <2>2. QED
    BY <2>1, Constants DEF WriteableSize
<1>9. n \in 1..WriteableSize("write") /\ n <= Left /\ n \in Nat
  BY <1>7, <1>8 DEF Least
<1> HIDE DEF n
<1>10. NextBytes("write", n, Piece(n))
  <2>1. ASSUME NEW k \in 1..n
        PROVE  /\ [pkt |-> Len(sent), off |-> from + k] \in Byte
               /\ IsPut("write", [pkt |-> Len(sent), off |-> from + k], wsize["write"] + k)
    <3>1. from + k \in 1..(Meta + s) /\ from + k \in Nat /\ (b + from) + k = b + (from + k)
      <4>1. k \in Nat /\ k >= 1 /\ k <= n
        BY <1>9
      <4>2. k <= Meta + s - from
        BY <1>7, <1>9, <4>1
      <4>3. from \in Nat /\ Meta \in Nat /\ s \in Nat
        BY <1>3, <1>4, <1>6
      <4>4. \A x, d, m, z \in Nat : x >= 1 /\ x <= m + z - d =>
              d + x \in 1..(m + z) /\ d + x \in Nat /\ \A a \in Nat : (a + d) + x = a + (d + x)
        OBVIOUS
      <4>5. QED
        BY <1>6, <4>1, <4>2, <4>3, <4>4
    <3>2. [pkt |-> Len(sent), off |-> from + k] \in [pkt : Nat, off : Nat]
      BY <1>4, <3>1
    <3>3. [pkt |-> Len(sent), off |-> from + k] # NULL
      BY <3>2, FramingAssumption
    <3>4. QED
      BY <1>3, <1>5, <1>6, <3>1, <3>2, <3>3 DEF Byte, IsPut, IsByte, ByteOf
  <2>2. QED
    BY <2>1 DEF NextBytes, Piece
<1>11. /\ BufferTypes' /\ Buffered'
       /\ wsize' = [wsize EXCEPT !["write"] = @ + n] /\ rsize' = rsize /\ rinx' = rinx
  BY <1>1, <1>2, <1>9, <1>10, WriteKeeps, Constants
<1>12. wsize'["write"] = wsize["write"] + n /\ wsize'["read"] = wsize["read"]
  BY <1>2, <1>11, Constants DEF BufferTypes
<1>13. PacketTypes'
  BY <1>1, <1>2, <1>9 DEF PacketTypes
<1>14. Starts'
  BY <1>1, <1>2, StartsSame
<1>a. CleanGrows /\ \A i \in 1..Clean' : IsByte(onWire[i], i)'
  BY <1>1, <1>2, <1>11, NothingSent
<1>15. Parsing'
  BY <1>1, <1>2, <1>11, <1>12, <1>a, ParsingSame
<1>16. Flow'
  <2>1. /\ Len(onWire') = rsize'["write"] /\ wsize'["read"] = taken' /\ taken' <= Len(onWire')
    BY <1>1, <1>2, <1>11, <1>12 DEF Flow
  <2>2. \A i \in 1..Clean' : IsByte(onWire[i], i)'
    BY <1>a
  <2>3. CASE n = Left
    <3>1. wsize'["write"] = b + Meta + s
      <4>1. wsize'["write"] = (b + from) + (Meta + s - from)
        BY <1>3, <1>6, <1>7, <1>12, <2>3
      <4>2. from \in Nat /\ Meta \in Nat
        BY <1>3, <1>4
      <4>3. QED
        BY <4>1, <4>2
    <3>2. start[Len(sent) + 1] = b + Meta + s
      <4>1. Len(sent) + 1 \in 1..Len(start)
        BY <1>4
      <4>2. start[Len(sent) + 1] = start[Len(sent)] + Meta + sent[Len(sent)]
        BY <1>2, <1>5, <4>1 DEF Starts
      <4>3. QED
        BY <1>6, <4>2
    <3>3. wsize'["write"] = Total'
      BY <1>1, <1>4, <3>1, <3>2 DEF Total
    <3>4. QED
      BY <1>1, <2>1, <2>2, <2>3, <3>3 DEF Flow
  <2>4. CASE n # Left
    <3>1. from' < Meta + sent'[Len(sent')]
      BY <1>1, <1>3, <1>4, <1>6, <1>7, <1>9, <2>4
    <3>2. wsize'["write"] = start'[Len(sent')] + from'
      BY <1>1, <1>3, <1>6, <1>9, <1>12
    <3>3. QED
      BY <1>1, <1>3, <2>1, <2>2, <2>4, <3>1, <3>2 DEF Flow
  <2>5. QED
    BY <2>3, <2>4
<1>17. QED
  BY <1>11, <1>13, <1>14, <1>15, <1>16 DEF IInv

\* What a write(2) of n bytes adds to what went out before it ran past a
\* buffer lies in the buffer of ReadPoint.
LEMMA SendClean ==
  ASSUME BufferTypes, Buffered, PacketTypes, Flow, NEW n \in Nat,
         rinx' = [rinx EXCEPT !["write"] = IF rinx["write"] + n = BufferSize
                                           THEN 0 ELSE rinx["write"] + n],
         Len(onWire') = Len(onWire) + n
  PROVE  /\ CleanGrows
         /\ \A i \in 1..Clean' : \/ i \in 1..Len(onWire) /\ i <= Clean
                                 \/ i > Len(onWire) /\ rinx["write"] + (i - Len(onWire)) <= BufferSize
<1>1. /\ rinx["write"] \in Nat /\ BufferSize \in Nat /\ BufferSize >= 1
      /\ rinx["write"] # BufferSize
  BY Members, Constants DEF Buffered, Linked
<1>2. Clean \in Nat /\ Clean <= Len(onWire) /\ Len(onWire) \in Nat
  BY CleanIs
<1>3. rinx'["write"] = IF rinx["write"] + n = BufferSize THEN 0 ELSE rinx["write"] + n
  BY Constants DEF BufferTypes
<1>4. PICK N \in Nat, R \in Nat, B \in Nat :
        N = Len(onWire) /\ R = rinx["write"] /\ B = BufferSize
  BY <1>1, <1>2
<1>a. /\ Overrun <=> R > B
      /\ Clean = IF R > B THEN N - (R - B) ELSE N
      /\ R # B /\ Len(onWire') = N + n
  BY <1>1, <1>4 DEF Overrun, Clean
<1>b. PICK S \in Nat : S = rinx'["write"] /\ S = IF R + n = B THEN 0 ELSE R + n
  BY <1>1, <1>3, <1>4
<1>c. /\ Overrun' <=> S > B
      /\ Clean' = IF S > B THEN (N + n) - (S - B) ELSE N + n
  BY <1>a, <1>b, <1>4 DEF Overrun, Clean
<1>5. CASE R > B
  <2>1. S = R + n /\ S > B
    BY <1>5, <1>b
  <2>2. (N + n) - ((R + n) - B) = N - (R - B)
    <3> DEFINE Equal(w, x, y, z) == (w + x) - ((y + x) - z) = w - (y - z)
    <3>1. \A w, x, y, z \in Nat : Equal(w, x, y, z)
      OBVIOUS
    <3> HIDE DEF Equal
    <3>2. Equal(N, n, R, B)
      BY <1>4, <3>1
    <3>3. QED
      BY <3>2 DEF Equal
  <2>3. Clean' = Clean /\ Overrun /\ Overrun'
    BY <1>5, <1>a, <1>c, <2>1, <2>2
  <2>4. CleanGrows
    BY <1>2, <2>3 DEF CleanGrows
  <2>5. \A i \in 1..Clean' : i \in 1..N /\ i <= Clean
    BY <1>2, <1>4, <2>3
  <2>6. QED
    BY <1>4, <2>4, <2>5
<1>6. CASE R < B
  <2>1. ~Overrun /\ Clean = N
    BY <1>4, <1>6, <1>a
  <2>2. CASE R + n <= B
    <3>1. ~(S > B)
      BY <1>b, <2>2
    <3>2. Clean' = N + n /\ N <= N + n /\ N + n \in Nat
      BY <1>c, <1>4, <3>1
    <3>3. \A i \in 1..(N + n) : \/ i \in 1..N /\ i <= N
                                \/ i > N /\ R + (i - N) <= B
      BY <1>4, <2>2
    <3>4. CleanGrows
      BY <2>1, <3>2 DEF CleanGrows
    <3>5. QED
      BY <1>4, <2>1, <3>2, <3>3, <3>4
  <2>3. CASE R + n > B
    <3>1. S = R + n /\ S > B
      BY <1>b, <2>3
    <3>2. (N + n) - ((R + n) - B) = N + (B - R) /\ N + (B - R) \in Nat /\ N <= N + (B - R)
      <4> DEFINE Equal(w, x, y, z) == y < z => /\ (w + x) - ((y + x) - z) = w + (z - y)
                                               /\ w + (z - y) \in Nat /\ w <= w + (z - y)
      <4>1. \A w, x, y, z \in Nat : Equal(w, x, y, z)
        OBVIOUS
      <4> HIDE DEF Equal
      <4>2. Equal(N, n, R, B)
        BY <1>4, <4>1
      <4>3. QED
        BY <1>6, <4>2 DEF Equal
    <3>3. Clean' = N + (B - R)
      BY <1>c, <3>1, <3>2
    <3>4. ASSUME NEW i \in 1..(N + (B - R))
          PROVE  \/ i \in 1..N /\ i <= N
                 \/ i > N /\ R + (i - N) <= B
      <4>1. PICK d \in Nat : d = B - R /\ R + d = B
        BY <1>4, <1>6
      <4>2. i \in Nat /\ i >= 1 /\ i <= N + d
        BY <1>4, <4>1
      <4>3. i > N => i - N \in Nat /\ i - N <= d
        BY <1>4, <4>2
      <4>4. i > N => R + (i - N) <= R + d
        BY <1>4, <4>3
      <4>5. QED
        BY <1>4, <4>1, <4>2, <4>4
    <3>5. CleanGrows
      BY <2>1, <3>2, <3>3 DEF CleanGrows
    <3>6. QED
      BY <1>4, <2>1, <3>3, <3>4, <3>5
  <2>4. QED
    BY <1>4, <2>2, <2>3
<1>7. QED
  BY <1>4, <1>5, <1>6, <1>a

LEMMA SendStep ==
  ASSUME IInv, NEW n, Send(n)
  PROVE  IInv'
<1>1. /\ pc = "poll" /\ n \in 1..ReadableSize("write")
      /\ onWire' = onWire \o Window("write", n) /\ ReadAdvance("write", n)
      /\ UNCHANGED <<sent, start, from, taken, state, packet, copied, got, pc>>
  BY DEF Send, sendVars, parserVars
<1>2. BufferTypes /\ PacketTypes /\ Buffered /\ Starts /\ Flow /\ Parsing
  BY DEF IInv
<1>3. /\ rsize["write"] \in Nat /\ wsize["write"] \in Nat
  BY <1>2, Members, Constants
<1>4. n \in Nat /\ Passable("write", n)
  BY <1>1, <1>3 DEF ReadableSize, Passable
<1>5. /\ Window("write", n) \in Seq(Byte) /\ Len(Window("write", n)) = n
      /\ \A k \in 1..n : rinx["write"] + k <= BufferSize =>
           IsByte(Window("write", n)[k], rsize["write"] + k)
  BY <1>2, <1>4, WindowBytes, Constants DEF IsPut
<1>6. /\ onWire \in Seq(Byte) /\ Len(onWire) = rsize["write"] /\ Len(onWire) \in Nat
      /\ wsize["read"] = taken /\ taken <= Len(onWire) /\ taken \in Nat
      /\ \A i \in 1..Clean : IsByte(onWire[i], i)
      /\ wsize["write"] = Total
  BY <1>1, <1>2 DEF Flow, PacketTypes
<1> DEFINE w == Window("write", n)
           N == Len(onWire)
<1>7. /\ onWire' \in Seq(Byte) /\ Len(onWire') = N + n
      /\ \A i \in 1..(N + n) : onWire'[i] = IF i <= N THEN onWire[i] ELSE w[i - N]
  <2>1. w \in Seq(Byte) /\ Len(w) = n /\ onWire \in Seq(Byte) /\ onWire' = onWire \o w
    BY <1>1, <1>5, <1>6
  <2> HIDE DEF w
  <2>2. QED
    BY <2>1, ConcatProperties
<1> HIDE DEF w, N
<1>8. StillPut
  <2>1. SUFFICES ASSUME NEW m \in Lists, NEW x, NEW at \in Nat \ {0}, IsPut(m, x, at)
                 PROVE  IsPut(m, x, at)'
    BY DEF StillPut
  <2>2. CASE m = "write"
    BY <1>1, <2>1, <2>2 DEF IsPut, IsByte
  <2>3. CASE m # "write"
    <3>1. at <= N /\ x = onWire[at]
      BY <2>1, <2>3 DEF IsPut, N
    <3>2. at \in 1..(N + n) /\ at <= Len(onWire')
      BY <1>4, <1>6, <1>7, <3>1 DEF N
    <3>3. onWire'[at] = onWire[at]
      BY <1>7, <3>1, <3>2
    <3>4. QED
      BY <2>3, <3>1, <3>2, <3>3 DEF IsPut
  <2>4. QED
    BY <2>2, <2>3
<1>9. /\ BufferTypes' /\ Buffered'
      /\ rsize' = [rsize EXCEPT !["write"] = @ + n] /\ wsize' = wsize
      /\ rinx' = [rinx EXCEPT !["write"] = IF rinx["write"] + n = BufferSize
                                           THEN 0 ELSE rinx["write"] + n]
  BY <1>1, <1>2, <1>4, <1>8, ReadKeeps, Constants
<1>10. rsize'["write"] = rsize["write"] + n /\ rsize'["read"] = rsize["read"]
  BY <1>2, <1>9, Constants DEF BufferTypes
<1>11. /\ CleanGrows
       /\ \A i \in 1..Clean' : \/ i \in 1..N /\ i <= Clean
                               \/ i > N /\ rinx["write"] + (i - N) <= BufferSize
  BY <1>2, <1>4, <1>7, <1>9, SendClean DEF N
<1>12. Clean' \in Nat /\ Clean' <= N + n
  <2>1. PacketTypes'
    BY <1>1, <1>2, <1>7 DEF PacketTypes
  <2>2. Clean' \in Nat
    BY <1>11 DEF CleanGrows
  <2>3. Clean' <= Len(onWire')
    <3>1. rinx'["write"] \in Nat /\ BufferSize \in Nat /\ Len(onWire') \in Nat
      BY <1>4, <1>6, <1>7, <1>9, Constants DEF BufferTypes, N
    <3>2. QED
      BY <3>1 DEF Clean, Overrun
  <2>4. QED
    BY <1>7, <2>2, <2>3
<1>13. ASSUME NEW i \in 1..Clean' PROVE IsByte(onWire'[i], i)
  <2>1. i \in 1..(N + n) /\ i \in Nat
    BY <1>4, <1>6, <1>12 DEF N
  <2>2. CASE i \in 1..N /\ i <= Clean
    <3>1. i \in 1..Clean /\ onWire'[i] = onWire[i]
      BY <1>7, <2>1, <2>2
    <3>2. QED
      BY <1>6, <3>1
  <2>3. CASE i > N /\ rinx["write"] + (i - N) <= BufferSize
    <3>1. i - N \in 1..n /\ N + (i - N) = i /\ ~(i <= N)
      BY <1>4, <1>6, <2>1, <2>3 DEF N
    <3>2. onWire'[i] = w[i - N]
      BY <1>7, <2>1, <3>1
    <3>3. IsByte(w[i - N], N + (i - N))
      BY <1>5, <1>6, <2>3, <3>1 DEF w, N
    <3>4. QED
      BY <3>1, <3>2, <3>3
  <2>4. QED
    BY <1>11, <1>13, <2>2, <2>3
<1>14. Flow'
  <2>1. Len(onWire') = rsize'["write"] /\ taken <= Len(onWire')
    BY <1>4, <1>6, <1>7, <1>10 DEF N
  <2>2. \A i \in 1..Clean' : IsByte(onWire[i], i)'
    BY <1>1, <1>13 DEF IsByte
  <2>3. wsize'["write"] = Total'
    BY <1>1, <1>6, <1>9 DEF Total
  <2>4. QED
    BY <1>1, <1>6, <1>9, <2>1, <2>2, <2>3 DEF Flow
<1>15. PacketTypes'
  BY <1>1, <1>2, <1>7 DEF PacketTypes
<1>16. Starts'
  BY <1>1, <1>2, StartsSame
<1>17. Parsing'
  BY <1>1, <1>2, <1>9, <1>10, <1>11, ParsingSame
<1>18. QED
  BY <1>9, <1>14, <1>15, <1>16, <1>17 DEF IInv

LEMMA RecvStep ==
  ASSUME IInv, NEW n, Recv(n)
  PROVE  IInv'
<1> DEFINE bytes == [k \in 1..n |-> onWire[taken + k]]
<1>1. /\ pc \in {"poll", "recv"} /\ n \in 1..WriteableSize("read") /\ taken + n <= Len(onWire)
      /\ WriteAdvance("read", n, bytes) /\ taken' = taken + n /\ pc' = "recv"
      /\ UNCHANGED <<sent, start, from, onWire, state, packet, copied, got>>
  BY DEF Recv, sendVars, parserVars
<1>2. BufferTypes /\ PacketTypes /\ Buffered /\ Starts /\ Flow /\ Parsing
  BY DEF IInv
<1>3. /\ onWire \in Seq(Byte) /\ Len(onWire) = rsize["write"] /\ Len(onWire) \in Nat
      /\ wsize["read"] = taken /\ taken \in Nat
      /\ wsize["write"] = Total
  BY <1>1, <1>2 DEF Flow, PacketTypes
<1>4. n \in Nat
  BY <1>1, <1>2, Members, Constants DEF WriteableSize
<1>5. \A k \in 1..n : taken + k \in 1..Len(onWire) /\ taken + k <= Len(onWire)
  BY <1>1, <1>3, <1>4
<1>6. NextBytes("read", n, bytes)
  <2>1. ASSUME NEW k \in 1..n PROVE onWire[taken + k] \in Byte
    BY <1>3, <1>5
  <2>2. bytes \in [1..n -> Byte] /\ \A k \in 1..n : bytes[k] = onWire[taken + k]
    BY <2>1
  <2> HIDE DEF bytes
  <2>3. \A k \in 1..n : IsPut("read", bytes[k], wsize["read"] + k)
    BY <1>3, <1>5, <2>2 DEF IsPut
  <2>4. QED
    BY <2>2, <2>3 DEF NextBytes
<1> HIDE DEF bytes
<1>7. /\ BufferTypes' /\ Buffered'
      /\ wsize' = [wsize EXCEPT !["read"] = @ + n] /\ rsize' = rsize /\ rinx' = rinx
  BY <1>1, <1>2, <1>6, WriteKeeps, Constants
<1>8. wsize'["read"] = wsize["read"] + n /\ wsize'["write"] = wsize["write"]
  BY <1>2, <1>7, Constants DEF BufferTypes
<1>9. PacketTypes'
  BY <1>1, <1>2, <1>4 DEF PacketTypes
<1>10. Starts'
  BY <1>1, <1>2, StartsSame
<1>11. CleanGrows /\ \A i \in 1..Clean' : IsByte(onWire[i], i)'
  BY <1>1, <1>2, <1>7, NothingSent
<1>12. Parsing'
  BY <1>1, <1>2, <1>7, <1>11, ParsingSame
<1>13. Flow'
  <2>1. wsize'["write"] = Total'
    BY <1>1, <1>3, <1>8 DEF Total
  <2>2. QED
    BY <1>1, <1>3, <1>7, <1>8, <1>11, <2>1 DEF Flow
<1>14. QED
  BY <1>7, <1>9, <1>10, <1>12, <1>13 DEF IInv

\* What a step keeps that changes neither the buffers nor what was sent.
LEMMA OthersSame ==
  ASSUME IInv, UNCHANGED <<bufferVars, sendVars, wireVars>>, pc # "send", pc' # "send"
  PROVE  /\ BufferTypes' /\ Buffered' /\ Starts' /\ Flow'
         /\ CleanGrows /\ Clean' = Clean /\ (Overrun <=> Overrun')
         /\ rsize' = rsize /\ wsize' = wsize
<1>1. UNCHANGED bufferVars /\ UNCHANGED <<sent, start, from, onWire, taken>>
  BY DEF sendVars, wireVars
<1>2. BufferTypes /\ PacketTypes /\ Buffered /\ Starts /\ Flow
  BY DEF IInv
<1>3. BufferTypes' /\ Buffered'
  BY <1>1, <1>2, BufferSame
<1>4. Starts'
  BY <1>1, <1>2, StartsSame
<1>5. rsize' = rsize /\ wsize' = wsize /\ rinx' = rinx
  BY <1>1 DEF bufferVars
<1>6. CleanGrows /\ \A i \in 1..Clean' : IsByte(onWire[i], i)'
  BY <1>1, <1>2, <1>5, NothingSent
<1>7. Clean' = Clean /\ (Overrun <=> Overrun')
  BY <1>1, <1>5, CleanSame
<1>8. Flow'
  BY <1>1, <1>2, <1>5, <1>6 DEF Flow, Total
<1>9. QED
  BY <1>3, <1>4, <1>5, <1>6, <1>7, <1>8

LEMMA OnReadStep ==
  ASSUME IInv, OnRead
  PROVE  IInv'
<1>1. /\ pc = "recv" /\ pc' = "parse"
      /\ UNCHANGED <<bufferVars, sendVars, wireVars>>
      /\ UNCHANGED <<sent, start, from, onWire, taken, state, packet, copied, got>>
  BY DEF OnRead, sendVars, wireVars, parserVars
<1>2. PacketTypes /\ Starts /\ Parsing
  BY DEF IInv
<1>3. BufferTypes' /\ Buffered' /\ Starts' /\ Flow' /\ CleanGrows /\ rsize' = rsize
  BY <1>1, OthersSame
<1>4. PacketTypes'
  BY <1>1, <1>2 DEF PacketTypes
<1>5. Parsing'
  BY <1>1, <1>2, <1>3, ParsingSame
<1>6. QED
  BY <1>3, <1>4, <1>5 DEF IInv

LEMMA RecvPacketStep ==
  ASSUME IInv, RecvPacket
  PROVE  IInv'
<1>1. /\ pc = "parse" /\ pc' = IF Enough THEN "read" ELSE "poll"
      /\ UNCHANGED <<bufferVars, sendVars, wireVars>>
      /\ UNCHANGED <<sent, start, from, onWire, taken, state, packet, copied, got>>
  BY DEF RecvPacket, sendVars, wireVars, parserVars
<1>2. BufferTypes /\ PacketTypes /\ Starts /\ Parsing /\ Reading
  BY DEF IInv, Parsing
<1>3. /\ BufferTypes' /\ Buffered' /\ Starts' /\ Flow' /\ CleanGrows
      /\ rsize' = rsize /\ wsize' = wsize
  BY <1>1, OthersSame
<1>4. PacketTypes'
  BY <1>1, <1>2 DEF PacketTypes
<1>5. Begun' = Begun /\ Wanted' = Wanted
  BY <1>1, <1>3 DEF Begun, Wanted
<1>6. copied = <<>> /\ Len(copied) = 0
  BY <1>1, <1>2, EmptySeq DEF Reading
<1>7. /\ Begun \in Nat /\ Wanted \in Nat /\ wsize["read"] \in Nat
      /\ rsize["read"] = Begun
  BY <1>2, <1>6, Waiting
<1>8. Enough <=> Begun + Wanted <= wsize["read"]
  BY <1>7 DEF Enough, ReadableSize
<1>9. Reading'
  <2>1. IF pc' = "read"
        THEN Len(copied) <= Wanted /\ Begun + Wanted <= wsize["read"]
        ELSE copied = <<>>
    BY <1>1, <1>6, <1>7, <1>8
  <2>2. /\ Len(copied) <= rsize["read"] /\ 1..Len(copied) = {}
        /\ state = "packet" => packet \in [pkt : Nat, size : Sizes]
    BY <1>2, <1>6 DEF Reading
  <2>3. QED
    BY <1>1, <1>3, <1>5, <2>1, <2>2 DEF Reading
<1>10. OnTrack => (pc' \in {"poll", "send"} => wsize'["read"] < Parsed + Wanted)
  BY <1>1, <1>3, <1>7, <1>8 DEF OnTrack
<1>11. OnTrack' \/ OffTrack'
  BY <1>1, <1>2, <1>3, <1>5, <1>10, TrackSame DEF Parsing
<1>12. QED
  BY <1>3, <1>4, <1>9, <1>11 DEF IInv, Parsing

LEMMA ReadSomeStep ==
  ASSUME IInv, ReadSome
  PROVE  IInv'
<1> DEFINE n == Least(Wanted - Len(copied), CurrentBufferReadSize("read"))
           w == Window("read", n)
           N == Len(copied)
<1>1. /\ pc = "read" /\ N < Wanted /\ copied' = copied \o w /\ ReadAdvance("read", n)
      /\ UNCHANGED <<sent, start, from, onWire, taken, state, packet, got, pc>>
  BY DEF ReadSome, sendVars, wireVars
<1>2. BufferTypes /\ PacketTypes /\ Buffered /\ Starts /\ Flow /\ Parsing /\ Reading
  BY DEF IInv, Parsing
<1>3. /\ Begun \in Nat /\ Wanted \in Nat /\ N \in Nat
      /\ Begun + N = rsize["read"] /\ rsize["read"] \in Nat
  BY <1>2, Waiting
<1>4. /\ CurrentBufferReadSize("read") \in Nat
      /\ \A m \in Nat : m <= CurrentBufferReadSize("read") => Readable("read", m)
  <2>1. rinx["read"] < BufferSize
    BY <1>2, Constants DEF Buffered, Linked
  <2>2. QED
    BY <1>2, <2>1, CurrentReadable, Constants
<1>5. n \in Nat /\ n <= Wanted - N /\ n <= CurrentBufferReadSize("read")
  <2>1. PICK c \in Nat : c = CurrentBufferReadSize("read")
    BY <1>4
  <2>2. PICK d \in Nat : d = Wanted - N
    <3>1. Wanted - N \in Nat
      <4> HIDE DEF N
      <4>1. QED
        BY <1>1, <1>3
    <3>2. QED
      BY <3>1
  <2>3. Least(d, c) \in Nat /\ Least(d, c) <= d /\ Least(d, c) <= c
    BY DEF Least
  <2>4. QED
    BY <2>1, <2>2, <2>3
<1>6. Readable("read", n) /\ Passable("read", n)
  BY <1>4, <1>5 DEF Readable, Passable
<1> HIDE DEF n
<1>7. /\ w \in Seq(Byte) /\ Len(w) = n
      /\ \A k \in 1..n : w[k] = onWire[rsize["read"] + k]
  <2>1. \A k \in 1..n : rinx["read"] + k <= BufferSize
    <3>1. rinx["read"] \in Nat /\ rinx["read"] + n <= BufferSize /\ BufferSize \in Nat
      BY <1>2, <1>6, Members, Constants DEF Readable
    <3>2. QED
      BY <1>5, <3>1
  <2>2. /\ w \in Seq(Byte) /\ Len(w) = n
        /\ \A k \in 1..n : IsPut("read", w[k], rsize["read"] + k)
    BY <1>2, <1>5, <1>6, <2>1, WindowBytes, Constants
  <2> HIDE DEF w
  <2>3. QED
    BY <2>2 DEF IsPut
<1>8. StillPut
  BY <1>1 DEF StillPut, IsPut, IsByte
<1>9. /\ BufferTypes' /\ Buffered'
      /\ rsize' = [rsize EXCEPT !["read"] = @ + n] /\ wsize' = wsize
      /\ rinx' = [rinx EXCEPT !["read"] = IF rinx["read"] + n = BufferSize
                                          THEN 0 ELSE rinx["read"] + n]
  BY <1>1, <1>2, <1>5, <1>6, <1>8, ReadKeeps, Constants
<1>10. /\ rsize'["read"] = rsize["read"] + n /\ rsize'["write"] = rsize["write"]
       /\ rinx'["write"] = rinx["write"]
  BY <1>2, <1>9, Constants DEF BufferTypes
<1> HIDE DEF w, N
<1>11. copied \in Seq(Byte) /\ N = Len(copied)
  BY <1>2 DEF PacketTypes, N
<1>12. /\ copied' \in Seq(Byte) /\ Len(copied') = N + n
       /\ \A i \in 1..(N + n) : copied'[i] = IF i <= N THEN copied[i] ELSE w[i - N]
  BY <1>1, <1>7, <1>11, ConcatProperties
<1>13. ASSUME NEW i \in 1..(N + n) PROVE copied'[i] = onWire[Begun + i]
  <2>1. CASE i <= N
    <3>1. i \in 1..N /\ copied'[i] = copied[i]
      BY <1>3, <1>12, <2>1
    <3>2. QED
      BY <1>2, <1>11, <3>1 DEF Reading
  <2>2. CASE ~(i <= N)
    <3>1. i - N \in 1..n /\ rsize["read"] + (i - N) = Begun + i
      BY <1>3, <1>5, <2>2
    <3>2. QED
      BY <1>7, <1>12, <2>2, <3>1
  <2>3. QED
    BY <2>1, <2>2
<1>14. Begun' = Begun /\ Wanted' = Wanted
  <2>1. Begun' = (rsize["read"] + n) - (N + n)
    BY <1>10, <1>12 DEF Begun
  <2>2. Begun' = Begun
    BY <1>3, <1>5, <2>1
  <2>3. QED
    BY <1>1, <2>2 DEF Wanted
<1>15. CleanGrows /\ \A i \in 1..Clean' : IsByte(onWire[i], i)'
  BY <1>1, <1>2, <1>10, NothingSent
<1>16. PacketTypes'
  BY <1>1, <1>2, <1>12 DEF PacketTypes
<1>17. Starts'
  BY <1>1, <1>2, StartsSame
<1>18. Flow'
  BY <1>1, <1>2, <1>9, <1>10, <1>15 DEF Flow, Total
<1>19. Reading'
  <2>1. N + n <= Wanted /\ N + n <= rsize["read"] + n
    BY <1>1, <1>3, <1>5
  <2>2. /\ Begun + Wanted <= wsize["read"]
        /\ state = "packet" => packet \in [pkt : Nat, size : Sizes]
    BY <1>1, <1>2 DEF Reading
  <2>3. QED
    BY <1>1, <1>9, <1>10, <1>12, <1>13, <1>14, <2>1, <2>2 DEF Reading
<1>20. OnTrack' \/ OffTrack'
  <2>1. OnTrack => (pc' \in {"poll", "send"} => wsize'["read"] < Parsed + Wanted)
    BY <1>1
  <2>2. QED
    BY <1>1, <1>2, <1>14, <1>15, <2>1, TrackSame DEF Parsing
<1>21. QED
  BY <1>9, <1>16, <1>17, <1>18, <1>19, <1>20 DEF IInv, Parsing

\* What the parser reads has come over the wire.
LEMMA Come ==
  ASSUME IInv
  PROVE  /\ rsize["read"] \in Nat /\ wsize["read"] \in Nat /\ Len(onWire) \in Nat /\ Clean \in Nat
         /\ rsize["read"] <= wsize["read"] /\ wsize["read"] <= Len(onWire)
         /\ wsize["read"] = taken /\ Len(onWire) <= wsize["write"] /\ wsize["write"] \in Nat
         /\ Clean < rsize["read"] => Overrun
         /\ Clean < Len(onWire) => Overrun
<1>1. BufferTypes /\ Buffered /\ PacketTypes /\ Flow
  BY DEF IInv
<1>2. /\ rsize["read"] \in Nat /\ wsize["read"] \in Nat
      /\ rsize["write"] \in Nat /\ wsize["write"] \in Nat
  BY <1>1, Members, Constants
<1>3. rsize["read"] <= wsize["read"] /\ rsize["write"] <= wsize["write"]
  BY <1>1, Constants DEF Buffered, Linked
<1>4. Len(onWire) = rsize["write"] /\ wsize["read"] = taken /\ taken <= Len(onWire)
  BY <1>1 DEF Flow
<1>5. Clean \in Nat /\ (Overrun <=> Clean < Len(onWire))
  BY <1>1, CleanIs
<1>6. \A a, b, c, d \in Nat : a < b /\ b <= c /\ c <= d => a < d
  OBVIOUS
<1>7. Clean < rsize["read"] => Clean < Len(onWire)
  BY <1>2, <1>3, <1>4, <1>5, <1>6
<1>8. QED
  BY <1>2, <1>3, <1>4, <1>5, <1>7

\* A packet that has not come out ends behind what the parser waits for.
LEMMA Ahead ==
  ASSUME PacketTypes, Starts, OnTrack, NEW k \in 1..Len(sent), ~(k <= Len(got))
  PROVE  Parsed + Wanted <= start[k + 1] /\ start[k + 1] \in Nat
<1> DEFINE g == Len(got) + 1
<1>1. /\ Len(sent) \in Nat /\ Len(start) = Len(sent) + 1 /\ Meta \in Nat
      /\ \A p \in 1..Len(sent) : sent[p] \in Nat /\ start[p] \in Nat
      /\ \A p \in 1..(Len(sent) + 1) : start[p] \in Nat
  BY Sent, Constants
<1>2. Len(got) \in Nat /\ k \in Nat /\ k <= Len(sent)
  BY <1>1 DEF PacketTypes
<1>3. g \in 1..Len(sent) /\ k + 1 \in 1..(Len(sent) + 1) /\ g < k + 1
  BY <1>1, <1>2
<1>4. /\ state = "header" => Parsed = start[g] /\ Wanted = Meta
      /\ state = "packet" => Parsed = start[g] + Meta /\ Wanted = sent[g]
      /\ state = "header" \/ state = "packet"
  BY Parser DEF PacketTypes
<1> HIDE DEF g
<1>5. start[g] + Meta + sent[g] <= start[k + 1]
  BY <1>1, <1>3 DEF Starts
<1>6. sent[g] \in Nat /\ start[g] \in Nat /\ start[k + 1] \in Nat
  BY <1>1, <1>3
<1>7. \A a, m, s, e \in Nat : a + m + s <= e => a + m <= e /\ (a + m) + s <= e
  OBVIOUS
<1>8. start[g] + Meta <= start[k + 1] /\ (start[g] + Meta) + sent[g] <= start[k + 1]
  BY <1>1, <1>5, <1>6, <1>7
<1>9. QED
  BY <1>4, <1>6, <1>8

\* Whoever reads a header on track reads that of a packet that was sent.
LEMMA HeaderThere ==
  ASSUME IInv, OnTrack, pc = "read", state = "header"
  PROVE  Len(got) + 1 \in 1..Len(sent)
<1>1. PacketTypes /\ Starts /\ Flow /\ Reading
  BY DEF IInv, Parsing
<1>2. /\ Len(got) \in Nat /\ Len(got) + 1 \in 1..(Len(sent) + 1)
      /\ Parsed = start[Len(got) + 1] /\ Wanted = Meta /\ Parsed \in Nat
  BY <1>1, Parser
<1>3. /\ Len(sent) \in Nat /\ Total = start[Len(sent) + 1] /\ Total \in Nat
      /\ Meta \in Nat /\ Meta >= 1
  BY <1>1, Sent, Constants
<1>4. Parsed + Meta <= wsize["read"]
  BY <1>1, <1>2 DEF Reading, OnTrack
<1>5. wsize["write"] = Total
  BY <1>1 DEF Flow
<1>6. /\ wsize["read"] \in Nat /\ Len(onWire) \in Nat
      /\ wsize["read"] <= Len(onWire) /\ Len(onWire) <= Total
  BY <1>5, Come
<1>7. Len(got) # Len(sent)
  <2>1. SUFFICES ASSUME Len(got) = Len(sent) PROVE FALSE
    OBVIOUS
  <2>2. Parsed = Total
    BY <1>2, <1>3, <2>1
  <2>3. QED
    BY <1>3, <1>4, <1>6, <2>2
<1>8. QED
  BY <1>2, <1>3, <1>7

\* The parser goes on behind what it has just read, with nothing copied.
LEMMA ReadOn ==
  ASSUME BufferTypes, PacketTypes, Reading, Len(copied) = Wanted,
         UNCHANGED rsize, copied' = <<>>, pc' # "read",
         state' = "packet" => packet' \in [pkt : Nat, size : Sizes]
  PROVE  /\ Reading' /\ Begun \in Nat /\ Wanted \in Nat
         /\ Begun' = Begun + Wanted /\ Begun' = rsize["read"]
<1>1. /\ Begun \in Nat /\ Wanted \in Nat /\ rsize["read"] \in Nat
      /\ Begun + Wanted = rsize["read"]
  BY Waiting
<1>2. Len(copied') = 0
  BY EmptySeq
<1>3. Begun' = rsize["read"] - 0
  BY <1>2 DEF Begun
<1>4. Begun' = rsize["read"]
  BY <1>1, <1>3
<1>5. Reading'
  BY <1>1, <1>2 DEF Reading
<1>6. QED
  BY <1>1, <1>4, <1>5

\* Once the parser reads past what went out before write(2) ran past a buffer,
\* it has given back all that was whole.
LEMMA Derailed ==
  ASSUME IInv, UNCHANGED <<sent, start>>, Begun \in Nat, Wanted \in Nat,
         Begun' = Begun + Wanted, Begun' = rsize["read"],
         Clean' = Clean, Overrun <=> Overrun',
         Len(got') \in Nat, Len(got) <= Len(got'),
         \A k \in 1..Len(got) : got'[k] = got[k],
         \/ OffTrack
         \/ OnTrack /\ ~(Parsed + Wanted <= Clean)
  PROVE  OffTrack'
<1>1. PacketTypes /\ Starts /\ Clean \in Nat
  BY Come DEF IInv
<1>2. Len(got) \in Nat
  BY <1>1 DEF PacketTypes
<1>3. ASSUME NEW k \in 1..Len(sent), k <= Len(got), IsSent(k)
      PROVE  k <= Len(got') /\ IsSent(k)'
  <2>1. Len(sent) \in Nat
    BY <1>1, Sent
  <2>2. k \in 1..Len(got) /\ k <= Len(got')
    BY <1>2, <1>3, <2>1
  <2>3. QED
    BY <1>3, <2>2 DEF IsSent, Content
<1>4. CASE OffTrack
  <2>1. Overrun' /\ Clean' < Begun'
    <3>1. \A a, b, c \in Nat : a < b => a < b + c
      OBVIOUS
    <3>2. QED
      BY <1>1, <1>4, <3>1 DEF OffTrack
  <2>2. QED
    BY <1>3, <1>4, <2>1 DEF OffTrack
<1>5. CASE OnTrack /\ ~(Parsed + Wanted <= Clean)
  <2>1. Parsed \in Nat /\ Begun = Parsed
    BY <1>1, <1>5, Parser DEF OnTrack
  <2>2. Clean < rsize["read"]
    BY <1>1, <1>5, <2>1
  <2>3. Overrun' /\ Clean' < Begun'
    BY <2>2, Come
  <2>4. ASSUME NEW k \in 1..Len(sent), start[k + 1] <= Clean
        PROVE  k <= Len(got) /\ IsSent(k)
    <3>1. k <= Len(got)
      <4>1. SUFFICES ASSUME ~(k <= Len(got)) PROVE FALSE
        OBVIOUS
      <4>2. Parsed + Wanted <= start[k + 1] /\ start[k + 1] \in Nat
        BY <1>1, <1>5, <4>1, Ahead
      <4>3. QED
        BY <1>1, <1>5, <2>1, <2>4, <4>2
    <3>2. k \in 1..Len(got)
      BY <1>1, <1>2, <3>1, Sent
    <3>3. QED
      BY <1>5, <3>1, <3>2 DEF OnTrack
  <2>5. QED
    BY <1>3, <2>3, <2>4 DEF OffTrack
<1>6. QED
  BY <1>4, <1>5

\* On track, what was copied is what was sent.
LEMMA CopiedIs ==
  ASSUME IInv, OnTrack, Len(copied) = Wanted, Parsed + Wanted <= Clean, NEW k \in 1..Wanted
  PROVE  copied[k] \in Byte /\ IsByte(copied[k], Parsed + k)
<1>1. PacketTypes /\ Starts /\ Flow /\ Reading /\ Clean \in Nat /\ Clean <= Len(onWire)
      /\ Len(onWire) \in Nat
  BY CleanIs DEF IInv, Parsing
<1>2. Parsed \in Nat /\ Wanted \in Nat /\ Begun = Parsed
  BY <1>1, Parser DEF OnTrack
<1>3. Parsed + k \in 1..Clean /\ Parsed + k \in 1..Len(onWire)
  BY <1>1, <1>2
<1>4. copied[k] = onWire[Parsed + k]
  BY <1>1, <1>2 DEF Reading
<1>5. onWire[Parsed + k] \in Byte
  BY <1>1, <1>3 DEF PacketTypes
<1>6. IsByte(onWire[Parsed + k], Parsed + k)
  BY <1>1, <1>3 DEF Flow
<1>7. QED
  BY <1>4, <1>5, <1>6

LEMMA RecvHeaderStep ==
  ASSUME IInv, RecvHeader
  PROVE  IInv'
<1> DEFINE g == Len(got) + 1
<1>1. /\ pc = "read" /\ state = "header" /\ Len(copied) = Meta /\ copied' = <<>>
      /\ UNCHANGED <<bufferVars, sendVars, wireVars>>
      /\ UNCHANGED <<sent, start, from, onWire, taken, got>>
  BY DEF RecvHeader, sendVars, wireVars
<1>2. \/ \E p \in DOMAIN sent : copied = Header(p) /\ Accepted(p, sent[p])
      \/ /\ \A p \in DOMAIN sent : copied # Header(p)
         /\ \/ \E size \in Sizes : Accepted(0, size)
            \/ pc' = "poll" /\ UNCHANGED <<packet, state>>
  BY DEF RecvHeader
<1>3. BufferTypes /\ PacketTypes /\ Starts /\ Flow /\ Reading /\ (OnTrack \/ OffTrack)
  BY DEF IInv, Parsing
<1>4. DOMAIN sent = 1..Len(sent) /\ Len(sent) \in Nat /\ \A p \in 1..Len(sent) : sent[p] \in Sizes
  BY <1>3 DEF PacketTypes
<1>5. /\ pc' \in {"parse", "poll"} /\ state' \in {"header", "packet"}
      /\ packet' \in [pkt : Nat, size : Sizes] \cup {NULL}
      /\ state' = "packet" => packet' \in [pkt : Nat, size : Sizes]
  <2>1. ASSUME NEW p \in Nat, NEW size \in Sizes, Accepted(p, size)
        PROVE  /\ pc' = "parse" /\ state' = "packet"
               /\ packet' \in [pkt : Nat, size : Sizes]
    BY <2>1 DEF Accepted
  <2>2. ASSUME pc' = "poll" /\ UNCHANGED <<packet, state>>
        PROVE  /\ state' = "header" /\ packet' \in [pkt : Nat, size : Sizes] \cup {NULL}
    BY <1>1, <1>3, <2>2 DEF PacketTypes
  <2>3. ASSUME NEW p \in DOMAIN sent, Accepted(p, sent[p])
        PROVE  /\ pc' = "parse" /\ state' = "packet"
               /\ packet' \in [pkt : Nat, size : Sizes]
    <3>1. p \in Nat /\ sent[p] \in Sizes
      BY <1>4
    <3>2. QED
      BY <2>1, <2>3, <3>1
  <2>4. ASSUME NEW size \in Sizes, Accepted(0, size)
        PROVE  /\ pc' = "parse" /\ state' = "packet"
               /\ packet' \in [pkt : Nat, size : Sizes]
    BY <2>1, <2>4
  <2>5. QED
    BY <1>2, <2>2, <2>3, <2>4
<1>6. Wanted = Meta /\ Len(copied) = Wanted
  BY <1>1 DEF Wanted
<1>7. /\ BufferTypes' /\ Buffered' /\ Starts' /\ Flow' /\ rsize' = rsize
      /\ Clean' = Clean /\ (Overrun <=> Overrun')
  BY <1>1, <1>5, OthersSame
<1>8. PacketTypes'
  <2>1. copied' \in Seq(Byte)
    BY <1>1
  <2>2. QED
    BY <1>1, <1>3, <1>5, <2>1 DEF PacketTypes
<1>9. /\ Reading' /\ Begun \in Nat /\ Wanted \in Nat
      /\ Begun' = Begun + Wanted /\ Begun' = rsize["read"]
  BY <1>1, <1>3, <1>5, <1>6, <1>7, ReadOn
<1>10. Len(got') = Len(got) /\ Len(got) \in Nat
  BY <1>1, <1>3 DEF PacketTypes
<1>11. ASSUME OffTrack PROVE OffTrack'
  BY <1>1, <1>7, <1>9, <1>10, <1>11, Derailed
<1>a. ASSUME OnTrack, ~(Parsed + Wanted <= Clean) PROVE OffTrack'
  BY <1>1, <1>7, <1>9, <1>10, <1>a, Derailed
<1>12. ASSUME OnTrack, Parsed + Wanted <= Clean
       PROVE  OnTrack'
  <2>1. /\ g \in 1..Len(sent) /\ Parsed = start[g] /\ Parsed \in Nat
        /\ sent[g] \in Nat /\ Meta \in Nat /\ Meta >= 1
    BY <1>1, <1>3, <1>12, HeaderThere, Parser, Sent, Constants
  <2> HIDE DEF g
  <2>2. ASSUME NEW k \in 1..Meta PROVE copied[k] = [pkt |-> g, off |-> k]
    <3>1. copied[k] \in Byte /\ IsByte(copied[k], Parsed + k)
      BY <1>6, <1>12, CopiedIs
    <3>2. k \in 1..(Meta + sent[g])
      BY <2>1
    <3>3. QED
      BY <1>3, <2>1, <3>1, <3>2, ByteIs
  <2>3. copied = Header(g)
    <3>1. copied = [k \in 1..Meta |-> copied[k]]
      BY <1>1, <1>3 DEF PacketTypes
    <3>2. QED
      BY <2>2, <3>1 DEF Header
  <2>4. PICK p \in DOMAIN sent : copied = Header(p) /\ Accepted(p, sent[p])
    BY <1>2, <1>4, <2>1, <2>3
  <2>5. p = g
    <3>1. 1 \in 1..Meta
      BY <2>1
    <3>2. Header(p)[1] = [pkt |-> p, off |-> 1] /\ Header(g)[1] = [pkt |-> g, off |-> 1]
      BY <3>1 DEF Header
    <3>3. [pkt |-> p, off |-> 1] = [pkt |-> g, off |-> 1]
      BY <2>3, <2>4, <3>2
    <3>4. QED
      BY <3>3
  <2>6. packet' = [pkt |-> g, size |-> sent[g]] /\ state' = "packet" /\ pc' = "parse"
    BY <2>4, <2>5 DEF Accepted
  <2>7. g = Len(got) + 1
    BY DEF g
  <2>8. Parsed' = Parsed + Wanted
    BY <1>1, <1>6, <2>1, <2>6, <2>7 DEF Parsed
  <2>9. Begun' = Parsed' /\ Parsed' <= Clean'
    BY <1>7, <1>9, <1>12, <2>8 DEF OnTrack
  <2>10. Len(got) < Len(sent)
    BY <1>4, <1>10, <2>1, <2>7
  <2>11. \A k \in 1..Len(got') : IsSent(k)'
    BY <1>1, <1>12 DEF OnTrack, IsSent, Content
  <2>12. QED
    BY <1>1, <1>10, <1>12, <2>6, <2>7, <2>9, <2>10, <2>11 DEF OnTrack
<1>13. OnTrack' \/ OffTrack'
  <2>1. CASE OffTrack
    BY <1>11, <2>1
  <2>2. CASE OnTrack /\ ~(Parsed + Wanted <= Clean)
    BY <1>a, <2>2
  <2>3. CASE OnTrack /\ Parsed + Wanted <= Clean
    BY <1>12, <2>3
  <2>4. QED
    BY <1>3, <2>1, <2>2, <2>3
<1>14. QED
  BY <1>7, <1>8, <1>9, <1>13 DEF IInv, Parsing

LEMMA RecvContentStep ==
  ASSUME IInv, RecvContent
  PROVE  IInv'
<1> DEFINE G == Len(got)
           g == G + 1
<1>1. /\ pc = "read" /\ state = "packet" /\ Len(copied) = packet.size
      /\ got' = Append(got, [pkt |-> packet.pkt, content |-> copied])
      /\ state' = "header" /\ copied' = <<>> /\ pc' = "parse"
      /\ UNCHANGED <<bufferVars, sendVars, wireVars>>
      /\ UNCHANGED <<sent, start, from, onWire, taken, packet>>
  BY DEF RecvContent, NextState, sendVars, wireVars
<1>2. BufferTypes /\ PacketTypes /\ Starts /\ Flow /\ Reading /\ (OnTrack \/ OffTrack)
  BY DEF IInv, Parsing
<1>3. Wanted = packet.size /\ packet \in [pkt : Nat, size : Sizes] /\ Len(copied) = Wanted
  BY <1>1, <1>2, Waiting
<1>4. /\ got \in Seq([pkt : Nat, content : Seq(Byte)]) /\ G \in Nat
      /\ [pkt |-> packet.pkt, content |-> copied] \in [pkt : Nat, content : Seq(Byte)]
  BY <1>2, <1>3 DEF PacketTypes
<1>5. /\ got' \in Seq([pkt : Nat, content : Seq(Byte)]) /\ Len(got') = g
      /\ \A k \in 1..G : got'[k] = got[k]
      /\ got'[g] = [pkt |-> packet.pkt, content |-> copied]
  BY <1>1, <1>4, AppendProperties
<1>6. /\ BufferTypes' /\ Buffered' /\ Starts' /\ Flow' /\ rsize' = rsize
      /\ Clean' = Clean /\ (Overrun <=> Overrun')
  BY <1>1, OthersSame
<1>7. PacketTypes'
  <2>1. copied' \in Seq(Byte)
    BY <1>1
  <2>2. QED
    BY <1>1, <1>2, <1>5, <2>1 DEF PacketTypes
<1>8. /\ Reading' /\ Begun \in Nat /\ Wanted \in Nat
      /\ Begun' = Begun + Wanted /\ Begun' = rsize["read"]
  BY <1>1, <1>2, <1>3, <1>6, ReadOn
<1>a. Len(got') \in Nat /\ Len(got) <= Len(got')
  BY <1>4, <1>5
<1>9. ASSUME OffTrack PROVE OffTrack'
  BY <1>1, <1>5, <1>6, <1>8, <1>9, <1>a, Derailed
<1>b. ASSUME OnTrack, ~(Parsed + Wanted <= Clean) PROVE OffTrack'
  BY <1>1, <1>5, <1>6, <1>8, <1>a, <1>b, Derailed
<1>10. ASSUME OnTrack, Parsed + Wanted <= Clean
       PROVE  OnTrack'
  <2>1. /\ g \in 1..Len(sent) /\ packet = [pkt |-> g, size |-> sent[g]]
        /\ Parsed = start[g] + Meta /\ Wanted = sent[g] /\ start[g] \in Nat
        /\ sent[g] \in Nat /\ Meta \in Nat /\ Meta >= 1
        /\ Len(sent) \in Nat /\ Len(start) = Len(sent) + 1
    BY <1>1, <1>2, <1>10, Parser, Sent, Constants
  <2> HIDE DEF G, g
  <2>2. ASSUME NEW k \in 1..sent[g] PROVE copied[k] = [pkt |-> g, off |-> Meta + k]
    <3>1. copied[k] \in Byte /\ IsByte(copied[k], Parsed + k)
      BY <1>3, <1>10, <2>1, CopiedIs
    <3>2. Meta + k \in 1..(Meta + sent[g]) /\ Parsed + k = start[g] + (Meta + k)
      <4>1. \A m, s \in Nat : \A i \in 1..s :
              m + i \in 1..(m + s) /\ \A a \in Nat : (a + m) + i = a + (m + i)
        OBVIOUS
      <4>2. QED
        BY <2>1, <4>1
    <3>3. QED
      BY <1>2, <2>1, <3>1, <3>2, ByteIs
  <2>3. copied = Content(g)
    <3>1. copied = [k \in 1..sent[g] |-> copied[k]]
      <4>1. copied \in Seq(Byte) /\ Len(copied) = sent[g]
        BY <1>2, <1>3, <2>1 DEF PacketTypes
      <4>2. QED
        BY <4>1
    <3>2. QED
      BY <2>2, <3>1 DEF Content
  <2>4. G = Len(got) /\ g = G + 1
    BY DEF G, g
  <2>5. ASSUME NEW k \in 1..g PROVE IsSent(k)'
    <3>1. Content(k)' = Content(k)
      BY <1>1 DEF Content
    <3>2. CASE k \in 1..G
      <4>1. IsSent(k) /\ got'[k] = got[k]
        BY <1>5, <1>10, <2>4, <3>2 DEF OnTrack
      <4>2. QED
        BY <3>1, <4>1 DEF IsSent
    <3>3. CASE k = g
      <4>1. got'[k] = [pkt |-> k, content |-> Content(k)]
        BY <1>5, <2>1, <2>3, <3>3
      <4>2. QED
        BY <3>1, <4>1 DEF IsSent
    <3>4. k \in 1..G \/ k = g
      BY <1>4, <2>4
    <3>5. QED
      BY <3>2, <3>3, <3>4
  <2>6. start[g + 1] = start[g] + Meta + sent[g]
    <3>1. g + 1 \in 1..Len(start)
      BY <2>1
    <3>2. QED
      BY <1>2, <2>1, <3>1 DEF Starts
  <2>7. Parsed' = Parsed + Wanted
    <3>1. Parsed' = start[g + 1] + 0
      BY <1>1, <1>5 DEF Parsed
    <3>2. QED
      BY <2>1, <2>6, <3>1
  <2>8. Begun' = Parsed' /\ Parsed' <= Clean'
    BY <1>6, <1>8, <1>10, <2>7 DEF OnTrack
  <2>9. Len(got') <= Len(sent')
    BY <1>1, <1>5, <2>1
  <2>10. QED
    BY <1>1, <1>5, <2>5, <2>8, <2>9 DEF OnTrack
<1>11. OnTrack' \/ OffTrack'
  <2>1. CASE OffTrack
    BY <1>9, <2>1
  <2>2. CASE OnTrack /\ ~(Parsed + Wanted <= Clean)
    BY <1>b, <2>2
  <2>3. CASE OnTrack /\ Parsed + Wanted <= Clean
    BY <1>10, <2>3
  <2>4. QED
    BY <1>2, <2>1, <2>2, <2>3
<1>12. QED
  BY <1>6, <1>7, <1>8, <1>11 DEF IInv, Parsing

LEMMA NextHolds ==
  ASSUME IInv, [Next]_vars
  PROVE  IInv'
<1>1. CASE Next
  BY <1>1, SendPacketStep, WriteSomeStep, SendStep, RecvStep, OnReadStep, RecvPacketStep,
     ReadSomeStep, RecvHeaderStep, RecvContentStep DEF Next
<1>2. CASE UNCHANGED vars
  <2>1. /\ UNCHANGED <<bufferVars, pc>>
        /\ UNCHANGED <<sent, start, from, onWire, taken, state, packet, copied, got>>
    BY <1>2 DEF vars, sendVars, wireVars, parserVars
  <2>2. BufferTypes /\ PacketTypes /\ Buffered /\ Starts /\ Flow /\ Parsing
    BY DEF IInv
  <2>3. BufferTypes' /\ Buffered' /\ Starts'
    BY <2>1, <2>2, BufferSame, StartsSame
  <2>4. PacketTypes'
    BY <2>1, <2>2 DEF PacketTypes
  <2>5. rsize' = rsize /\ wsize' = wsize /\ rinx' = rinx
    BY <2>1 DEF bufferVars
  <2>6. CleanGrows /\ \A i \in 1..Clean' : IsByte(onWire[i], i)'
    BY <2>1, <2>2, <2>5, NothingSent
  <2>7. Flow'
    BY <2>1, <2>2, <2>5, <2>6 DEF Flow, Total
  <2>8. Begun' = Begun /\ Wanted' = Wanted
    BY <2>1, <2>5 DEF Begun, Wanted
  <2>9. Reading'
    BY <2>1, <2>2, <2>5, <2>8 DEF Parsing, Reading
  <2>10. OnTrack => (pc' \in {"poll", "send"} => wsize'["read"] < Parsed + Wanted)
    BY <2>1, <2>5 DEF OnTrack
  <2>11. OnTrack' \/ OffTrack'
    BY <2>1, <2>2, <2>6, <2>8, <2>10, TrackSame DEF Parsing
  <2>12. QED
    BY <2>3, <2>4, <2>7, <2>9, <2>11 DEF IInv, Parsing
<1>3. QED
  BY <1>1, <1>2

----------------------------------------------------------------------------
(* Theorems.                                                               *)

\* The lists, the pool, the wire and the parser agree on every byte, up to the
\* place where write(2) ran past the end of a buffer, if it did; and if it
\* did, the parser has given back every packet that was whole before it.
THEOREM Invariance == Spec => []IInv
<1>1. Init => IInv
  BY InitHolds
<1>2. IInv /\ [Next]_vars => IInv'
  BY NextHolds
<1>3. QED
  BY <1>1, <1>2, PTL DEF Spec

\* BufferList::Write, Read, WriteAdvance and ReadAdvance keep every list a
\* queue, whatever Send offers write(2): the bytes written and not yet read
\* lie in their order in the buffers from read_ to write_.
THEOREM Queued == Spec => []ListIsQueue
<1>1. IInv => ListIsQueue
  BY DEF IInv, BufferTypes, PacketTypes, Buffered, ListIsQueue, TypeOK
<1>2. QED
  BY <1>1, Invariance, PTL

\* ObjectList::Get and Free never give a buffer to two lists, and lose none.
THEOREM Unshared == Spec => []NoSharing
<1>1. IInv => NoSharing
  BY DEF IInv, Buffered
<1>2. QED
  BY <1>1, Invariance, PTL

\* What write(2) is given is what SendPacket wrote, up to the end of the first
\* buffer that it ran past: if it ran past none, all that went out.
SentClean ==
  /\ \A i \in DOMAIN onWire : i <= Clean => IsByte(onWire[i], i)
  /\ Overrun \/ SentAsWritten

\* Send, in net.cc, hands the kernel what SendPacket wrote as long as no
\* write(2) has taken more than the rest of the buffer at ReadPoint.
THEOREM Written == Spec => []SentClean
<1>1. ASSUME IInv PROVE SentClean
  <2>1. BufferTypes /\ Buffered /\ PacketTypes /\ Flow
    BY <1>1 DEF IInv
  <2>2. /\ Clean \in Nat /\ Clean <= Len(onWire) /\ Len(onWire) \in Nat
        /\ (Overrun <=> Clean < Len(onWire))
    BY <2>1, CleanIs
  <2>3. DOMAIN onWire = 1..Len(onWire)
    BY <2>1 DEF PacketTypes
  <2>4. \A i \in DOMAIN onWire : i <= Clean => IsByte(onWire[i], i)
    BY <2>1, <2>2, <2>3 DEF Flow
  <2>5. ~Overrun => \A i \in DOMAIN onWire : i <= Clean
    BY <2>2, <2>3
  <2>6. QED
    BY <2>4, <2>5 DEF SentClean, SentAsWritten
<1>2. QED
  BY <1>1, Invariance, PTL

\* RecvPacket returns the packets that were sent, in their order, and when all
\* that was sent to the kernel has come through it has returned all of them
\* that were whole before write(2) ran past a buffer.
THEOREM Delivered == Spec => []Received
<1>1. ASSUME IInv PROVE Received
  <2>1. PacketTypes /\ Starts /\ Flow /\ Reading /\ (OnTrack \/ OffTrack)
    BY <1>1 DEF IInv, Parsing
  <2>2. /\ Len(got) \in Nat /\ Len(sent) \in Nat
        /\ DOMAIN got = 1..Len(got) /\ DOMAIN sent = 1..Len(sent)
    BY <2>1 DEF PacketTypes
  <2>3. /\ Clean \in Nat /\ Len(onWire) \in Nat /\ wsize["read"] = taken
        /\ Clean <= Len(onWire)
    BY <1>1, Come, CleanIs DEF IInv
  <2>4. ASSUME NEW k \in DOMAIN got
        PROVE  IF Whole(k) THEN got[k] = [pkt |-> k, content |-> Content(k)] ELSE Overrun
    <3>1. CASE OffTrack
      <4>1. Overrun /\ (Whole(k) => IsSent(k))
        BY <2>2, <3>1 DEF OffTrack, Whole
      <4>2. QED
        BY <4>1 DEF IsSent
    <3>2. CASE OnTrack
      <4>1. k \in 1..Len(got) /\ Len(got) <= Len(sent) /\ IsSent(k)
        BY <2>2, <3>2 DEF OnTrack
      <4>2. k \in DOMAIN sent
        BY <2>2, <4>1
      <4>3. start[k + 1] <= Clean
        <5>1. /\ Parsed \in Nat /\ Parsed <= Clean /\ start[Len(got) + 1] <= Parsed
              /\ start[Len(got) + 1] \in Nat
          <6>1. /\ Len(got) + 1 \in 1..(Len(sent) + 1) /\ start[Len(got) + 1] \in Nat
                /\ Parsed \in Nat /\ Meta \in Nat
                /\ state = "header" => Parsed = start[Len(got) + 1]
                /\ state = "packet" => Parsed = start[Len(got) + 1] + Meta
                /\ state = "header" \/ state = "packet"
            BY <2>1, <3>2, Parser, Constants DEF PacketTypes
          <6>2. start[Len(got) + 1] <= Parsed
            BY <6>1
          <6>3. QED
            BY <3>2, <6>1, <6>2 DEF OnTrack
        <5>2. start[k + 1] <= start[Len(got) + 1] /\ start[k + 1] \in Nat
          BY <2>1, <2>2, <4>1, StartsOrdered
        <5>3. QED
          BY <2>3, <5>1, <5>2
      <4>4. QED
        BY <4>1, <4>2, <4>3 DEF Whole, IsSent
    <3>3. QED
      BY <2>1, <3>1, <3>2
  <2>5. ASSUME pc = "poll", taken = Len(onWire), NEW k \in DOMAIN sent, Whole(k)
        PROVE  k \in DOMAIN got
    <3>1. k \in 1..Len(sent) /\ start[k + 1] <= Clean
      BY <2>2, <2>5 DEF Whole
    <3>2. k <= Len(got)
      <4>1. CASE OffTrack
        BY <3>1, <4>1 DEF OffTrack
      <4>2. CASE OnTrack
        <5>1. SUFFICES ASSUME ~(k <= Len(got)) PROVE FALSE
          OBVIOUS
        <5>2. Parsed + Wanted <= start[k + 1] /\ start[k + 1] \in Nat
          BY <2>1, <3>1, <4>2, <5>1, Ahead
        <5>3. wsize["read"] < Parsed + Wanted /\ Parsed \in Nat /\ Wanted \in Nat
          BY <2>1, <2>5, <4>2, Parser DEF OnTrack
        <5>4. QED
          BY <2>3, <2>5, <3>1, <5>2, <5>3
      <4>3. QED
        BY <2>1, <4>1, <4>2
    <3>3. QED
      BY <2>2, <3>1, <3>2
  <2>6. QED
    BY <2>4, <2>5 DEF Received
<1>2. QED
  BY <1>1, Invariance, PTL
=============================================================================
