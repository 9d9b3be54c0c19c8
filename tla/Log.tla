-------------------------------- MODULE Log --------------------------------
(***************************************************************************)
(* base/log.cc, base/log_thread.cc and base/file.cc: threads format lines, *)
(* stamped with TimerThread's text, and put them on LogThread's write list *)
(* under its mutex; LogThread swaps its two lists on a timer and appends   *)
(* the lines to the file.  A thread that logs FATAL empties both lists     *)
(* itself, without the mutex, and aborts the process.                      *)
(*                                                                         *)
(* What is undefined in C++ (a list walked by two threads or changed while *)
(* it is walked, a line used after it was deleted) ends the run as         *)
(* "undefined": nothing is claimed of it.                                  *)
(***************************************************************************)
EXTENDS TimerThread, Sequences, Functions, FiniteSets

CONSTANTS
  Logger,      \* LogThread
  Levels,      \* levels of the lines that each reader logs
  MaxLines,    \* bound: lines of each reader
  LogPeriod,   \* kUpdateTimeInterval of log_thread.cc, in updates
  FlushPeriod, \* kFlushTimeInterval, in updates
  MaxFails     \* bound: writes that fail

ASSUME LogAssumption ==
  /\ Logger \notin Readers /\ Levels \in [Readers -> SUBSET {"ERROR", "FATAL"}]
  /\ MaxLines \in [Readers -> Nat]
  /\ LogPeriod \in Nat \ {0} /\ FlushPeriod \in Nat /\ MaxFails \in Nat

Procs == Readers \cup {Logger}
NoWalk == [list |-> NULL, out |-> 0, del |-> 0]

VARIABLES
  list,    \* log_list_
  reads,   \* the list that read_list_ points to
  writes,  \* write_index_, the list that write_list_ points to
  pc,      \* the step that each thread takes next, once its walk is over
  level,   \* level_ of a reader's LogMessage
  made,    \* LogMessages that a reader has constructed
  walk,    \* a thread in iterList: its list, lines output, lines deleted
  file,    \* the lines in the log file
  flushed, \* how many of them fsync was last called for
  dropped, \* lines whose File::Append failed
  left,    \* updates until LogThread's timer expires
  since,   \* updates since last_flush_time_, at most FlushPeriod
  process, \* "runs", "aborted" or "undefined"
  sent     \* history: lines in the order of LogThread::Send

lists == <<list, reads, writes>>
disk == <<file, flushed, dropped>>
timer == <<left, since>>
message == <<level, made, sent>>
vars == <<timeVars, lists, pc, walk, disk, timer, message, process>>

Init ==
  /\ TimeInit
  /\ list = <<<<>>, <<>>>> /\ writes = 1 /\ reads = 2
  /\ pc = [p \in Procs |-> "idle"] /\ walk = [p \in Procs |-> NoWalk]
  /\ level = [r \in Readers |-> "ERROR"] /\ made = [r \in Readers |-> 0]
  /\ file = <<>> /\ flushed = 0 /\ dropped = {}
  /\ left = LogPeriod /\ since = FlushPeriod  \* last_flush_time_ is 0
  /\ process = "runs" /\ sent = <<>>

Current(r) == [by |-> r, n |-> made[r]]

\* p, whose walk is over, takes the step `from` and goes on to `to`.
Goto(p, from, to) ==
  /\ process = "runs" /\ pc[p] = from /\ walk[p] = NoWalk
  /\ pc' = [pc EXCEPT ![p] = to]

Undefined == process' = "undefined" /\ UNCHANGED <<timeVars, lists, walk, disk, timer, message>>

----------------------------------------------------------------------------
(* LogThread::iterList and output, by any thread.                          *)

Walkers(l) == {p \in Procs : walk[p].list = l}

\* iterList(l) is entered; an empty list is left at once.
Enter(p, l) ==
  \/ Walkers(l) # {} /\ Undefined
  \/ /\ Walkers(l) = {}
     /\ walk' = IF list[l] = <<>> THEN walk
                ELSE [walk EXCEPT ![p] = [list |-> l, out |-> 0, del |-> 0]]
     /\ UNCHANGED <<timeVars, lists, disk, timer, message, process>>

\* output: the line is appended to the file, or lost: Append's result is ignored.
Output(p) ==
  /\ process = "runs" /\ walk[p] # NoWalk /\ walk[p].out = walk[p].del
  /\ LET line == list[walk[p].list][walk[p].out + 1] IN
     \/ file' = Append(file, line) /\ UNCHANGED dropped
     \/ /\ Cardinality(dropped) < MaxFails
        /\ dropped' = dropped \cup {line} /\ UNCHANGED file
  /\ walk' = [walk EXCEPT ![p].out = @ + 1]
  /\ UNCHANGED <<timeVars, lists, pc, flushed, timer, message, process>>

\* MUTANT Delete: the list is not cleared after the walk.
DeleteNoClear(p) ==
  /\ process = "runs" /\ walk[p].out > walk[p].del
  /\ walk' = [walk EXCEPT ![p] = IF @.out = Len(list[@.list]) THEN NoWalk
                                 ELSE [@ EXCEPT !.del = @ + 1]]
  /\ UNCHANGED <<timeVars, lists, pc, disk, timer, message, process>>

\* delete data, and clear after the last.
Delete(p) ==
  /\ process = "runs" /\ walk[p].out > walk[p].del
  /\ LET l == walk[p].list IN
     IF walk[p].out = Len(list[l])
     THEN list' = [list EXCEPT ![l] = <<>>] /\ walk' = [walk EXCEPT ![p] = NoWalk]
     ELSE walk' = [walk EXCEPT ![p].del = @ + 1] /\ UNCHANGED list
  /\ UNCHANGED <<timeVars, reads, writes, pc, disk, timer, message, process>>

\* flush; whether fsync failed is not looked at.
flush == flushed' = Len(file) /\ since' = 0 /\ UNCHANGED <<left, file, dropped>>

----------------------------------------------------------------------------
(* A thread that logs.                                                     *)

\* The constructor, up to CurrentLogtimeString().
LogMessage(r) ==
  /\ made[r] < MaxLines[r]
  /\ Goto(r, "idle", "finish")
  /\ \E v \in Levels[r] : level' = [level EXCEPT ![r] = v]
  /\ made' = [made EXCEPT ![r] = @ + 1]
  /\ TakePointer(r)
  /\ UNCHANGED <<lists, walk, disk, timer, sent, process>>

\* The rest of the line: operator<< has copied the time, finish() ends it.
Finish(r) ==
  /\ Goto(r, "finish", "send")
  /\ Copied(r)
  /\ UNCHANGED <<lists, walk, disk, timer, message, process>>

\* LogThread::Send: push_back under the mutex, which only the swap takes too.
Send(r) ==
  /\ Goto(r, "send", IF level[r] = "FATAL" THEN "stack" ELSE "idle")
  /\ \/ Walkers(writes) # {} /\ Undefined
     \/ /\ Walkers(writes) = {}
        /\ list' = [list EXCEPT ![writes] = Append(@, Current(r))]
        /\ sent' = Append(sent, Current(r))
        /\ UNCHANGED <<timeVars, reads, writes, walk, disk, timer, level, made, process>>

\* The lines that iterList has deleted: all it has output, but those at hand.
Deleted ==
  (Range(file) \cup dropped)
    \ {list[walk[p].list][walk[p].out] : p \in {q \in Procs : walk[q].out > walk[q].del}}

\* ~LogMessage of a FATAL line, after Send: the call stack is written into a
\* LogMessageData that LogThread may have deleted.
WriteStack(r) ==
  /\ Goto(r, "stack", "flush reads")
  /\ IF Current(r) \in Deleted THEN Undefined
     ELSE UNCHANGED <<timeVars, lists, walk, disk, timer, message, process>>

\* LogThread::Flush(true): both lists, each by the pointer it has by then.
FlushReads(r) == Goto(r, "flush reads", "flush writes") /\ Enter(r, reads)

\* MUTANT FlushWrites: only the list that LogThread reads is emptied.
FlushWritesSkipped(r) ==
  /\ Goto(r, "flush writes", "fsync")
  /\ UNCHANGED <<timeVars, lists, walk, disk, timer, message, process>>

FlushWrites(r) == Goto(r, "flush writes", "fsync") /\ Enter(r, writes)

FlushFile(r) ==
  /\ Goto(r, "fsync", "abort")
  /\ flush
  /\ UNCHANGED <<timeVars, lists, walk, message, process>>

Abort(r) ==
  /\ Goto(r, "abort", "dead")
  /\ process' = "aborted"
  /\ UNCHANGED <<timeVars, lists, walk, disk, timer, message>>

----------------------------------------------------------------------------
(* LogThread, and the clock.                                               *)

\* The poller's permanent timer has expired by the cached time.
Expired == left = 0 /\ left' = LogPeriod /\ UNCHANGED since

\* MUTANT Timeout: the lists are exchanged unless the read list is empty.
TimeoutInverted ==
  /\ Expired
  /\ Goto(Logger, "idle", "read")
  /\ IF list[reads] # <<>>
     THEN reads' = writes /\ writes' = 3 - writes
     ELSE UNCHANGED <<reads, writes>>
  /\ UNCHANGED <<timeVars, list, walk, disk, message, process>>

\* Timeout: the exchange, under the mutex.
Timeout ==
  /\ Expired
  /\ Goto(Logger, "idle", "read")
  /\ IF list[reads] = <<>>
     THEN reads' = writes /\ writes' = 3 - writes
     ELSE UNCHANGED <<reads, writes>>
  /\ UNCHANGED <<timeVars, list, walk, disk, message, process>>

\* ... and the rest of it.
ReadList == Goto(Logger, "read", "flush") /\ Enter(Logger, reads)

FlushIfDue ==
  /\ Goto(Logger, "flush", "idle")
  /\ IF since >= FlushPeriod THEN flush ELSE UNCHANGED <<disk, timer>>
  /\ UNCHANGED <<timeVars, lists, walk, message, process>>

\* TimerThread; the cached time moves on at Publish.
Tick ==
  /\ process = "runs"
  /\ \/ BeginUpdate /\ UNCHANGED timer
     \/ /\ Publish
        /\ left' = IF left = 0 THEN 0 ELSE left - 1
        /\ since' = IF since = FlushPeriod THEN since ELSE since + 1
  /\ UNCHANGED <<lists, pc, walk, disk, message, process>>

\* What a thread does once it has begun a message.
Logging(r) ==
  \/ Finish(r) \/ Send(r)
  \/ WriteStack(r) \/ FlushReads(r) \/ FlushWrites(r) \/ FlushFile(r) \/ Abort(r)
  \/ Output(r) \/ Delete(r)

LoggerStep ==
  Timeout \/ ReadList \/ FlushIfDue \/ Output(Logger) \/ Delete(Logger)

Next == Tick \/ LoggerStep \/ \E r \in Readers : LogMessage(r) \/ Logging(r)

(* The scheduler runs TimerThread, LogThread and a thread inside a message; *)
(* nothing makes a thread log.                                              *)
Spec ==
  /\ Init /\ [][Next]_vars
  /\ WF_vars(Tick) /\ WF_vars(LoggerStep)
  /\ \A r \in Readers : WF_vars(Logging(r))

----------------------------------------------------------------------------
\* How many lines of list l a walk has output, and the lines still to be output.
Outputs(l) == IF Walkers(l) = {} THEN 0 ELSE walk[CHOOSE p \in Walkers(l) : TRUE].out
Rest(l) == SubSeq(list[l], Outputs(l) + 1, Len(list[l]))

\* Of two lines of all, the first was sent first.
AsSent(all) ==
  \A i, j \in DOMAIN all :
    i < j => \E m, n \in DOMAIN sent : m < n /\ all[i] = sent[m] /\ all[j] = sent[n]

Flushing == \E r \in Readers : pc[r] \in {"flush writes", "fsync", "abort", "dead"}

(* The file and the two lists hold every line that was sent, once, except  *)
(* those that write() refused (log_thread.cc, Send, Timeout and iterList); *)
(* and in the order they were sent, as long as no FATAL message has begun  *)
(* to empty the lists from its own thread.                                 *)
FileIsLog ==
  process # "undefined" =>
    LET all == file \o Rest(reads) \o Rest(writes)
    IN /\ Range(all) = Range(sent) \ dropped /\ IsInjective(all)
       /\ ~Flushing => AsSent(all)

(* When a FATAL message has aborted the process, and LogThread was not at  *)
(* work just then, nothing of what was sent before that message has been   *)
(* lost with the lists, the message included (~LogMessage, Flush(true)).   *)
AbortLosesNothing ==
  process = "aborted" /\ pc[Logger] = "idle" =>
    \A r \in Readers : pc[r] = "dead" =>
      \A i, j \in 1..Len(sent) :
        i <= j /\ sent[j] = Current(r)
          => sent[i] \in Range(file) \cup dropped

(* LogThread gets every line to the disk, if write() takes it and the      *)
(* process lives (Timeout: the swap, iterList and the periodic flush).     *)
EventuallyOnDisk ==
  \A n \in 1..SumFunction(MaxLines) :
    Len(sent) >= n
      ~> \/ Len(sent) >= n /\ sent[n] \in Range(SubSeq(file, 1, flushed)) \cup dropped
         \/ process # "runs"
============================================================================
