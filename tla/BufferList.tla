----------------------------- MODULE BufferList -----------------------------
(***************************************************************************)
(* base/buffer.cc and base/object_pool.h: byte queues made of chained      *)
(* buffers, which the pool of one thread recycles.  head_ always equals    *)
(* read_ and is left out.                                                  *)
(***************************************************************************)
EXTENDS Naturals, Sequences

CONSTANTS
  NULL,
  Lists,
  BufferSize,   \* kBufferSize
  Grow,         \* kAllocObjectNumber
  MaxBuffers    \* bound: buffers ever allocated

ASSUME BufferAssumption ==
  /\ BufferSize \in Nat \ {0}
  /\ Grow \in Nat \ {0} /\ MaxBuffers \in Nat

Buffers == 1..MaxBuffers

VARIABLES
  next,    \* next_ of each Buffer
  data,    \* data_ of each Buffer
  pool,    \* free_list_
  made,    \* buffers allocated so far: 1..made
  read,    \* read_, and likewise the other members of each BufferList
  write,
  rinx,
  winx,
  rsize,
  wsize,
  chain,   \* history: each buffer the list ever held, and how many of the
           \* list's bytes come before the buffer's
  gone     \* history: how many buffers the list has given back

bufferVars == <<next, data, pool, made, read, write, rinx, winx, rsize, wsize, chain, gone>>

Zeros == [k \in 1..BufferSize |-> NULL]   \* Reset fills data_ with '0'

\* The pool of a thread whose lists took its first `used' buffers, first[l]
\* for list l, when they were constructed.
InitBuffers(first, used) ==
  /\ next = [b \in Buffers |-> NULL] /\ data = [b \in Buffers |-> Zeros]
  /\ made = Grow /\ pool = [k \in 1..(Grow - used) |-> used + k]
  /\ read = first /\ write = first
  /\ rinx = [l \in Lists |-> 0] /\ winx = [l \in Lists |-> 0]
  /\ rsize = [l \in Lists |-> 0] /\ wsize = [l \in Lists |-> 0]
  /\ chain = [l \in Lists |-> <<[buf |-> first[l], before |-> 0]>>]
  /\ gone = [l \in Lists |-> 0]

\* ObjectList::allocate, when free_list_ is empty.
Stocked == IF pool = <<>> THEN [k \in 1..Grow |-> made + k] ELSE pool

MadeThen == IF pool = <<>> THEN made + Grow ELSE made

\* MUTANT AfterGet: Get leaves the object in free_list_.
AfterGetSame(objects) == objects

\* ObjectList::Get takes the first object.
AfterGet(objects) == Tail(objects)

ReadableSize(l) == wsize[l] - rsize[l]

WriteableSize(l) == BufferSize - winx[l]

CurrentBufferReadSize(l) ==
  IF read[l] = write[l] THEN winx[l] - rinx[l] ELSE BufferSize - rinx[l]

\* What a read of n bytes of memory from ReadPoint on gets: behind the end
\* of data_ lie other things.
Window(l, n) ==
  [k \in 1..n |-> IF rinx[l] + k <= BufferSize THEN data[read[l]][rinx[l] + k] ELSE NULL]

\* bytes[1..n] copied to WritePoint.
Filled(l, n, bytes) ==
  [k \in 1..BufferSize |->
     IF winx[l] < k /\ k <= winx[l] + n THEN bytes[k - winx[l]] ELSE data[write[l]][k]]

\* A buffer that was filled gets a successor.
NewBuffer(l, n) ==
  /\ made' = MadeThen /\ made' <= MaxBuffers
  /\ pool' = AfterGet(Stocked)
  /\ next' = [next EXCEPT ![write[l]] = Head(Stocked)]
  /\ write' = [write EXCEPT ![l] = Head(Stocked)]
  /\ winx' = [winx EXCEPT ![l] = 0]
  /\ chain' = [chain EXCEPT ![l] = Append(@, [buf |-> Head(Stocked), before |-> wsize[l] + n])]

\* n bytes are copied to WritePoint, and BufferList::WriteAdvance(n).
WriteAdvance(l, n, bytes) ==
  /\ data' = [data EXCEPT ![write[l]] = Filled(l, n, bytes)]
  /\ wsize' = [wsize EXCEPT ![l] = @ + n]
  /\ \/ winx[l] + n = BufferSize /\ NewBuffer(l, n)
     \/ /\ winx[l] + n # BufferSize /\ winx' = [winx EXCEPT ![l] = @ + n]
        /\ UNCHANGED <<made, pool, next, write, chain>>
  /\ UNCHANGED <<read, rinx, rsize, gone>>

\* MUTANT ReadOut: a buffer is given back one byte too early.
ReadOutEarly(inx) == inx >= BufferSize - 1

ReadOut(inx) == inx = BufferSize

\* ObjectList::Free resets the buffer, but for next_.
PopBuffer(l) ==
  /\ read' = [read EXCEPT ![l] = next[read[l]]]
  /\ rinx' = [rinx EXCEPT ![l] = 0]
  /\ data' = [data EXCEPT ![read[l]] = Zeros]
  /\ pool' = Append(pool, read[l])
  /\ gone' = [gone EXCEPT ![l] = @ + 1]

\* BufferList::ReadAdvance(n)
ReadAdvance(l, n) ==
  /\ rsize' = [rsize EXCEPT ![l] = @ + n]
  /\ \/ ReadOut(rinx[l] + n) /\ PopBuffer(l)
     \/ /\ ~ReadOut(rinx[l] + n) /\ rinx' = [rinx EXCEPT ![l] = @ + n]
        /\ UNCHANGED <<read, data, pool, gone>>
  /\ UNCHANGED <<next, made, write, winx, wsize, chain>>
=============================================================================
