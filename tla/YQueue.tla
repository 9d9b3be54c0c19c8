------------------------------- MODULE YQueue -------------------------------
(***************************************************************************)
(* base/yqueue.h: the chunked queue in which a pipe keeps its cells.  One  *)
(* thread pushes and takes back at the end, another pops at the front; they *)
(* meet in spare_chunk_ only, which is exchanged atomically.  Push and Pop  *)
(* have a step per access to it: <Op> up to the exchange, <Op>Spare after.  *)
(***************************************************************************)
EXTENDS Naturals

CONSTANTS
  N,          \* cells per chunk
  MaxChunks,  \* bound: chunks the heap has room for
  NoChunk     \* a NULL chunk_t*
ASSUME ChunkAssumption == N \in Nat \ {0} /\ MaxChunks \in Nat \ {0, 1} /\ NoChunk \notin Nat

Chunks == 1..MaxChunks

VARIABLES
  heap,   \* the allocated chunks: chunk -> [values, prev, next]
  begin,  \* [chunk, pos] of the front cell               (reader)
  back,   \* [chunk, pos] of the back cell                (writer)
  end,    \* [chunk, pos] after the back cell             (writer)
  spare,  \* spare_chunk_
  old     \* reader: the chunk Pop is about to make the spare

queueVars == <<heap, begin, back, end, spare, old>>

Cell(chunk, pos) == [chunk |-> chunk, pos |-> pos]

Allocated == DOMAIN heap

\* malloc(3): addresses are only compared with each other, so one free number
\* (TLC takes the lowest, one freed before if there is one) stands for any.
HasRoom == Chunks \ Allocated # {}
Fresh == CHOOSE chunk \in Chunks : chunk \notin Allocated

Free(h, chunk) == [k \in DOMAIN h \ {chunk} |-> h[k]]

\* What malloc leaves in a chunk nobody looks at.
Allocate(h, chunk) ==
  [k \in DOMAIN h \cup {chunk} |->
     IF k = chunk THEN [values |-> [p \in 0..N-1 |-> 0], prev |-> NoChunk, next |-> NoChunk]
     ELSE h[k]]

\* YQueue(), and YPipe()'s push of the terminator, which fills a chunk of one.
QueueInit ==
  LET h == Allocate(<<>>, 1)
  IN /\ IF N > 1 THEN heap = h /\ end = Cell(1, 1)
        ELSE /\ heap = [Allocate(h, 2) EXCEPT ![1].next = 2, ![2].prev = 1]
             /\ end = Cell(2, 0)
     /\ begin = Cell(1, 0) /\ back = Cell(1, 0)
     /\ spare = NoChunk /\ old = NoChunk

----------------------------------------------------------------------------
(* The writing thread.                                                     *)

\* queue_.Back() = v; Push up to its test of end_pos_.
BackPut(v) == heap' = [heap EXCEPT ![back.chunk].values[back.pos] = v]

Push ==
  /\ back' = end
  /\ end' = [end EXCEPT !.pos = @ + 1]
  /\ UNCHANGED <<begin, spare, old>>

ChunkFull == end.pos = N

\* The chunk Push goes on with: the spare one, or a fresh one.
PushChunk == IF spare # NoChunk THEN spare ELSE Fresh

\* MUTANT PushSpare: the spare chunk is used but not taken out.
PushSpareKept ==
  LET h == IF spare # NoChunk THEN heap ELSE Allocate(heap, Fresh)
  IN /\ heap' = [h EXCEPT ![end.chunk].next = PushChunk, ![PushChunk].prev = end.chunk]
     /\ end' = Cell(PushChunk, 0)
     /\ UNCHANGED <<begin, back, spare, old>>

\* Only the exchange is seen by the reader: the new links are the writer's
\* until the cells behind them are flushed.
PushSpare ==
  LET h == IF spare # NoChunk THEN heap ELSE Allocate(heap, Fresh)
  IN /\ spare # NoChunk \/ HasRoom
     /\ heap' = [h EXCEPT ![end.chunk].next = PushChunk, ![PushChunk].prev = end.chunk]
     /\ end' = Cell(PushChunk, 0)
     /\ spare' = NoChunk
     /\ UNCHANGED <<begin, back, old>>

\* MUTANT Before: the position wraps, the chunk stays.
BeforeSameChunk(p) == Cell(p.chunk, IF p.pos > 0 THEN p.pos - 1 ELSE N - 1)

\* The cell before p.
Before(p) ==
  IF p.pos > 0 THEN Cell(p.chunk, p.pos - 1) ELSE Cell(heap[p.chunk].prev, N - 1)

UnPush ==
  /\ back' = Before(back)
  /\ end' = Before(end)
  /\ heap' = IF end.pos > 0 THEN heap
             ELSE [Free(heap, heap[end'.chunk].next) EXCEPT ![end'.chunk].next = NoChunk]
  /\ UNCHANGED <<begin, spare, old>>

----------------------------------------------------------------------------
(* The reading thread.                                                     *)

FrontValue == heap[begin.chunk].values[begin.pos]

QueuePop ==
  /\ IF begin.pos + 1 = N
     THEN LET next == heap[begin.chunk].next
          IN /\ begin' = Cell(next, 0)
             /\ heap' = [heap EXCEPT ![next].prev = NoChunk]
             /\ old' = begin.chunk
     ELSE /\ begin' = Cell(begin.chunk, begin.pos + 1)
          /\ UNCHANGED <<heap, old>>
  /\ UNCHANGED <<back, end, spare>>

\* The exchange, and the free of the chunk it returns (perhaps none).
PopSpare ==
  /\ spare' = old
  /\ heap' = Free(heap, spare)
  /\ old' = NoChunk
  /\ UNCHANGED <<begin, back, end>>

----------------------------------------------------------------------------
Chunk == [values : [0..N-1 -> Nat], prev : Chunks \cup {NoChunk}, next : Chunks \cup {NoChunk}]
Places == [chunk : Chunks, pos : 0..N]

\* q is behind p: in the same chunk, or first in the next one.
Joined(p, q) ==
  \/ q = Cell(p.chunk, p.pos + 1)
  \/ /\ p.pos = N - 1 /\ q.pos = 0
     /\ heap[p.chunk].next = q.chunk /\ heap[q.chunk].prev = p.chunk
============================================================================
