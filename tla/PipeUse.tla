------------------------------ MODULE PipeUse ------------------------------
(***************************************************************************)
(* The whole interface of base/ypipe.h in use by one writing and one       *)
(* reading thread: items of several cells (Write with incomplete = TRUE),  *)
(* taking back what is not complete (UnWrite), flushing when the writer    *)
(* pleases.  The comment of Flush obliges a caller that gets FALSE to wake *)
(* the reader before it uses the pipe again; the wake-up is a semaphore.   *)
(* The cells lie in the chunks of YQueue, which the two threads recycle:   *)
(* the pipe compares cell numbers where the code compares addresses, and   *)
(* CellsInPlace is what makes the two the same.                            *)
(***************************************************************************)
EXTENDS YPipe, YQueue

CONSTANT MaxWrite   \* bound: calls of Write

VARIABLES
  wrpc,    \* writer: "idle", in Push ("push"), in Flush ("set"), or "wake"
  rdpc,    \* reader: "read", "take", in Pop ("pop") or "sleep"
  wakeups, \* the semaphore the reader sleeps on
  whole,   \* history: whole[i] says that cell i ends an item
  place,   \* history: where Push has put the cells from front on, and the end
  nwrite,  \* number of Write calls, which are the values written
  got      \* history: the values read

useVars == <<pipeVars, queueVars, wrpc, rdpc, wakeups, whole, place, nwrite, got>>

Init ==
  /\ PipeInit /\ QueueInit
  /\ wrpc = "idle" /\ rdpc = "read" /\ wakeups = 0
  /\ whole = <<>> /\ nwrite = 0 /\ got = <<>>
  /\ place = <<begin, end>>

----------------------------------------------------------------------------
WriterWrite(incomplete) ==
  /\ wrpc = "idle" /\ nwrite < MaxWrite
  /\ nwrite' = nwrite + 1
  /\ Write(nwrite', incomplete)
  /\ BackPut(nwrite') /\ Push
  /\ whole' = Append(whole, ~incomplete)
  /\ place' = Append(place, end')
  /\ wrpc' = IF ChunkFull' THEN "push" ELSE "idle"
  /\ UNCHANGED <<rdpc, wakeups, got>>

\* The rest of Push; Write's store to f is the writer's own and came along.
WriterPush ==
  /\ wrpc = "push"
  /\ PushSpare
  /\ place' = [place EXCEPT ![Len(place)] = end']
  /\ wrpc' = "idle"
  /\ UNCHANGED <<pipeVars, rdpc, wakeups, whole, nwrite, got>>

WriterUnWrite ==
  /\ wrpc = "idle"
  /\ UnWrite /\ UnPush
  /\ whole' = SubSeq(whole, 1, Len(slot'))
  /\ place' = SubSeq(place, 1, Len(place) - 1)
  /\ UNCHANGED <<wrpc, rdpc, wakeups, nwrite, got>>

\* MUTANT WriterFlush: a Flush that finds the reader awake returns FALSE too.
WriterFlushFalse ==
  /\ wrpc = "idle" /\ ~NothingToFlush
  /\ \/ FlushCas /\ wrpc' = "wake"
     \/ c # w /\ wrpc' = "set" /\ UNCHANGED pipeVars
  /\ UNCHANGED <<queueVars, rdpc, wakeups, whole, place, nwrite, got>>

\* Flush up to its compare-and-swap, if there is anything to flush.
WriterFlush ==
  /\ wrpc = "idle" /\ ~NothingToFlush
  /\ \/ FlushCas /\ UNCHANGED wrpc
     \/ c # w /\ wrpc' = "set" /\ UNCHANGED pipeVars
  /\ UNCHANGED <<queueVars, rdpc, wakeups, whole, place, nwrite, got>>

WriterFlushSet ==
  /\ wrpc = "set"
  /\ FlushSet
  /\ wrpc' = "wake"
  /\ UNCHANGED <<queueVars, rdpc, wakeups, whole, place, nwrite, got>>

WriterWake ==
  /\ wrpc = "wake"
  /\ wakeups' = wakeups + 1
  /\ wrpc' = "idle"
  /\ UNCHANGED <<pipeVars, queueVars, rdpc, whole, place, nwrite, got>>

ReaderCheck ==
  /\ rdpc = "read"
  /\ CheckRead
  /\ rdpc' = IF CheckReadOk THEN "take" ELSE "sleep"
  /\ UNCHANGED <<queueVars, wrpc, wakeups, whole, place, nwrite, got>>

ReaderTake ==
  /\ rdpc = "take"
  /\ got' = Append(got, FrontValue)
  /\ Pop /\ QueuePop
  /\ place' = Tail(place)
  /\ rdpc' = IF old' = NoChunk THEN "read" ELSE "pop"
  /\ UNCHANGED <<wrpc, wakeups, whole, nwrite>>

ReaderPop ==
  /\ rdpc = "pop"
  /\ PopSpare
  /\ rdpc' = "read"
  /\ UNCHANGED <<pipeVars, wrpc, wakeups, whole, place, nwrite, got>>

ReaderWoken ==
  /\ rdpc = "sleep" /\ wakeups > 0
  /\ wakeups' = wakeups - 1
  /\ rdpc' = "read"
  /\ UNCHANGED <<pipeVars, queueVars, wrpc, whole, place, nwrite, got>>

FlushEnd == WriterPush \/ WriterFlushSet \/ WriterWake
ReaderStep == ReaderCheck \/ ReaderTake \/ ReaderPop \/ ReaderWoken

Next ==
  \/ \E incomplete \in BOOLEAN : WriterWrite(incomplete)
  \/ WriterUnWrite \/ WriterFlush \/ FlushEnd \/ ReaderStep

\* Neither thread is starved; the writer need not write or start a Flush.
Spec == Init /\ [][Next]_useVars /\ WF_useVars(FlushEnd) /\ WF_useVars(ReaderStep)

----------------------------------------------------------------------------
\* "Incomplete items are never flushed down the stream": what the reader may
\* reach, everything before c and w, ends with a whole item.
WholeItems ==
  \A p \in {c, w, f} \ {NULL} : p > 1 => whole[p - 1]

\* What was read was not taken back by a later UnWrite and written again:
\* it is, cell by cell, what the pipe holds.
NoTakeBack ==
  /\ Len(got) = front - 1 /\ front <= Back
  /\ \A i \in 1..Len(got) : got[i] = slot[i]

\* Between a Flush that returned FALSE and the wake-up, and only then, the
\* reader sleeps with items to read; a sleeping reader is never woken twice.
WakeOwed ==
  /\ rdpc = "sleep" => (c # NULL <=> wrpc = "wake" \/ wakeups > 0)
  /\ wakeups + (IF wrpc = "wake" THEN 1 ELSE 0) <= (IF rdpc = "sleep" THEN 1 ELSE 0)

\* Every live cell is where Push put it, holds what was written, and shares its
\* place with no other; Pop finds the next cell over the next links, and UnPush
\* the one before over the prev links, of chunks that were recycled.
CellsInPlace ==
  LET live == front..Back
      at(i) == place[i - front + 1]
  IN /\ Len(place) = Back - front + 2
     /\ \A i \in live : at(i).chunk \in Allocated /\ at(i).pos < N
     /\ \A i \in live : Joined(at(i), at(i + 1))
     /\ \A i, j \in live : at(i) = at(j) => i = j
     /\ \A i \in live \ {Back} : heap[at(i).chunk].values[at(i).pos] = slot[i]
     /\ begin = at(front) /\ back = at(Back) /\ end = at(Back + 1)

\* A chunk has live cells or the end in it, or is the spare one, or in the
\* reader's hands on its way there, and never two of these; no other chunk is
\* left allocated.
InUse == {place[k].chunk : k \in DOMAIN place}
ChunksOwned ==
  /\ Allocated = InUse \cup ({spare, old} \ {NoChunk})
  /\ spare # old \/ old = NoChunk
  /\ spare \notin InUse /\ old \notin InUse

\* Everything flushed is read.
FlushedIsRead ==
  \A i \in 1..MaxWrite : (wrpc = "idle" /\ w > i) ~> Len(got) >= i
============================================================================
