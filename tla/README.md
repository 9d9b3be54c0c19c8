# A TLA+ development of libserverkit

libserverkit is a C++ server library: worker threads with lock-free mailboxes,
an edge-triggered epoll reactor with buffered sockets and timers, and protobuf
RPC on top.  This directory models its core, checks the models with TLC and
proves with TLAPS the safety of the mailbox, the pipe and its chunks, the
reactor, the timers, RPC, the start-up with hand-over, and the log.  Paths
below are relative to `src/src/`.  PROJECT.json ties every definition to the
lines it translates, every property to a mutant of the code that breaks it,
and every hazard to the properties that watch over it.

    tlc -config Mailbox.cfg Mailbox        # any run: <run's cfg> <run's module>
    tlapm MailboxProofs.tla                # the proofs: any module *Proofs

## 1. The system

### Threads and how they meet

The *main thread* calls `ServerkitInit` (which starts the workers),
`AddRpcService` and/or `CreateRpcChannel`, and then stays in
`Application::Run`, which dispatches its own poller.  It accepts connections
and hands each session to a worker.  A *worker* owns a poller, a mailbox and
everything that was bound to it: sessions, channels, sockets, timers, buffers.
Threads meet in four places only: the mailboxes (messages), `index_` of the
application, `Thread::Start` (a spin lock on the starter's stack), and the
singletons (logging, cached time).

    connection -> Listener::In -> AcceptNewSession --+
                                                     +-> selectWorker -> Mailbox::Send
    application thread -> CreateRpcChannel ----------+                       |
                                                                             v
    Worker::Run -> Poller::Dispatch -> Epoll::Poll -> Worker::In -> Mailbox::Recv
                        |                  |                            |
                        v                  v                  SetPoller(session), done_(channel)
                  executeTimers      Socket::In / Out
                                           |
                             Recv/Send, BufferList, PacketParser
                                           |
                          RpcSession::OnRead / RpcChannel::OnRead, OnConnect

### Inventory

| Component | State | Operations | What is hard | What makes it correct |
|---|---|---|---|---|
| YPipe (`base/ypipe.h`) | `w_ r_ f_ c_` over a YQueue | Write, UnWrite, Flush, Read | one CAS decides between "reader asleep" and "reader awake"; a plain store after a failed CAS | items read once, in order, only if flushed; exactly the flush that finds the reader asleep says so |
| YQueue (`base/yqueue.h`) | chunks, begin/back/end, spare | Push, UnPush, Pop, Front, Back | chunks go from the reader to the writer and keep old links | live cells keep their place and value; a chunk has one owner |
| Mailbox, Signaler (`core/mailbox.cc`, `core/signaler.cc`) | the pipe, `sync_`, `active_`, an eventfd | Send, Recv | signal outside the mutex; Recv's second Read is unchecked | FIFO channel, no lost or surplus wake-up |
| Worker (`core/worker.cc`) | poller, mailbox | In, Process, Run | eventfd watched edge-triggered | every message is processed, in order |
| Thread, SpinLock (`base/thread.cc`, `base/spin_lock.*`) | `state_`, the entry and lock in Start's frame | Start, main | the new thread works on its starter's stack | the frame outlives its use; a worker is in `workers_` only once it runs |
| Epoll (`core/epoll.cc`) | entries, writeable, retired, the batch of events | Add, Del, MarkWriteable, Poll | callbacks close sockets whose events are still in the batch | no event for a closed socket, entries freed once |
| Socket (`core/socket.cc`, `base/net.cc`) | status, two BufferLists, `is_writable_`, handle | Connect, In, Out, Write, Read, close | edge-triggered readiness, short writes, errors | no input and no output forgotten |
| Poller's timers (`core/poller.cc`) | `timers_`, `timer_ids_` | AddTimer, CancelTimer, executeTimers | callbacks change the map that is walked | maps agree; in order; on time; never after the end |
| TimerThread (`core/timer_thread.cc`) | a ring of 64 slots with the time and its text, pointers to the current one | updateTime, Run | readers follow the pointers without a lock | it moves; a slot is not written while its text is copied |
| Buffers, framing (`base/buffer.*`, `base/object_pool.h`, `rpc/packet_parser.*`) | chained buffers, a pool per thread, the parser's state | Write, Read, ReadAdvance, SendPacket, RecvPacket | boundaries of buffers and packets; recycling | a byte queue; packets come out as they went in |
| RpcChannel (`rpc/rpc_channel.cc`) | `packet_queue_`, `request_context_`, guid | CallMethod, OnConnect, OnRead | calls while connecting, answers in any order, a lost connection | an answer reaches its own call, once |
| RpcSession, RpcService (`rpc/rpc_session.cc`, `rpc/rpc_service.cc`) | method map, contexts, pending services | OnRead, RunService, onResponse, CallMethod | services answer later | requests in order, one answer each |
| Application, Listener (`core/application.cc`, `core/listener.cc`) | `workers_`, `index_`, `listeners_` | Init, AddRpcService, AcceptNewSession, CreateRpcChannel, In | unlocked round robin; a loop without end | every session and channel bound to exactly one worker |
| Logging (`base/log*.cc`, `base/file.cc`) | two lists swapped by a timer, the file | LogMessage, Send, Timeout, Flush, Append | Flush of a fatal thread takes no lock; results of write are ignored | lines once, in order, on the disk in the end; none lost by abort |
| Global ids, hashes, time and text (`util/`, `base/hash.cc`, `base/log.h`) | a generator per thread; else pure functions | NewID, hash, Localtime, MakeTimespec, stringAppendV | numeric edges, tails of keys, texts that do not fit | ids distinct within a batch; every byte of a key hashed once; the right date; the text or nothing |
| System information, endpoints, errors, options | constants | — | — | not modelled |

The hazards of this code, each at its line, are listed in PROJECT.json.

## 2. The modules

Modules lower in the list use or refine those above.

**Channel** — what a mailbox promises: a FIFO channel, `Put` and `Deliver`.

**YPipe** — `base/ypipe.h`, an operator per method; `Flush` is two (its CAS
and its plain store).  A pointer to a cell is the number of the cell, `slot`
holds the values written.  `Read` is `CheckRead` followed by `Pop`.

**YQueue** — `base/yqueue.h`: `heap` is the allocated chunks with their values
and links, `begin`, `back`, `end` are [chunk, pos].  Push and Pop have a step
up to the exchange of `spare_chunk_` and one after it.  `malloc` returns some
free address; TLC's is the lowest one, i.e. a freed chunk whenever there is
one, which is the case that could hurt.  Push needs room in the heap
(`HasRoom`): the code does not look at malloc's result.  N may be 1, when the
constructor of YPipe already links a second chunk.

**PipeUse** — one writer and one reader using all of YPipe over YQueue:
multi-part items, UnWrite, Flush at will.  `WriterWrite` is `Write` with
`BackPut` and the first half of `Push`; `ReaderTake` takes the value from the
chunk, not from `slot`.  `place` is a history variable: where Push has put
each live cell.  `CellsInPlace` compares it with what the links say, and is
what allows YPipe to compare cell numbers where the code compares addresses.

**Mailbox** — `Send` is `Lock, SendWrite, SendFlush, SendFlushSet, UnLock,
Signal` (`spc` is a sender's place in it); `Worker::In` with `Recv` inlined is
`EpollWait, RecvRead, RecvTake, RecvWait, RecvReread, Process` (`wpc`).  The
eventfd is a counter with an edge (`ready`); Signaler::Send adds any member of
`Dummies` to it, 0 included, as the variable it writes is not initialised, and
`mute` is the history of a 0.  `Chan == INSTANCE Channel` is
the refinement mapping: sent is `slot`, delivered is `processed`.

**MailboxProofs, PipeProofs, ReactorProofs, TimersProofs, RpcProofs,
FramingProofs, ServeProofs, LogProofs** — the theorems of section 5, each
module beside the one it extends.

**Reactor** — one worker's poller and its sockets over an edge-triggered
kernel: receive and send buffers, peers that send, read, close and reset
(`PeerSend, PeerRead, PeerEnds, ConnectDone`).  `In`, `Out`, `SocketWrite`,
`Close`, `CreateServerSocket`, `Register` (SetPoller) and `Connect` are
Socket's;
`StartPoll, FlushWriteable, EpollWait, Dispatch, EndBatch` are
`Epoll::Poll`.  Handlers run to completion on one thread, so a handler is a
step; the kernel moves between any two.  `AppWrite` is a service that answers
late.  Bytes are counted, not named.

**RpcCalls** — what RPC promises: an answer to a call made, at most once, the
right one.

**Rpc** — a channel and the session that serves it.  `CallMethod` has a
disjunct per socket status; `OnConnect, ClientOut, ClientIn, OnRead,
OnReadEnds` are the channel's events; `RunService, OnResponse,
SessionCallMethod` the session's; `Lose` breaks the connection.  `MayCall` is
the rule that a channel is used on its worker's thread.  `Promise` maps it to
RpcCalls.

**Timers** — `timers_` as a sequence of nodes in iteration order, `timer_ids_`
as a set, `entry` as what the ids point to.  `Dispatch, FireNext, EndLoop,
EraseFired, Return` are executeTimers: a turn of its first loop ends in a
callback, between which `AddTimer` and `CancelTimer` run, and a turn of its
second loop erases a fired timer or arms it again.  Any timer in `timer_ids_`
may be cancelled, at any time: CancelTimer erases the node behind those of the
expiry in the timer's entry if its own is not among them (`Found`), and where
that is not defined (`Defined`), as when a deleted entry is used, `pc` ends in
"undefined".  `late` is the history of a cancellation of a timer that had
fired.  `Tick` is TimerThread.

**BufferList** — the members of every BufferList of a thread, its buffers and
its pool, which allocates `Grow` buffers when it is empty (`Stocked`).
`WriteAdvance` and `ReadAdvance` are the functions with the memcpy before
them: `NewBuffer` links a successor to a full buffer, `PopBuffer` gives back
one that was read out.  `chain` and `gone` are history: the buffers a list
ever held, and how many it gave back.

**Framing** — packets from a write list through a kernel that takes and
delivers any number of bytes to a read list and the parser.  A byte is
[packet, offset].  `SendPacket` enters BufferList::Write, whose loop is
`WriteSome`, one memcpy a step; `Send` and `Recv` are one write(2) and read(2)
of the functions of `base/net.cc`; `OnRead, RecvPacket, ReadSome, RecvHeader,
RecvContent` are PacketParser::RecvPacket with the loop of BufferList::Read.
`pc` is the place of the worker in these.  A write(2) takes up to all that is
readable, as `base/net.cc:227` lets it, and so bytes from behind the end of
the buffer at ReadPoint, which are NULL (`Window`); from then on (`Overrun`)
`read_inx_` stays beyond the buffer, and the parser meets bytes that may or
may not look like a header, of any size in `Sizes` (`RecvHeader`).  `Clean` is how many bytes went out
before that.

**ThreadStart** — `Thread::Start` and `Thread::main`: `frame` is the frame of
the Start that runs, with its `lock`.

**Serve** — extends ThreadStart: main starts the workers, adds services, then
accepts and hands over; `SelectRead, SelectWrite, SendItem` are selectWorker's
three unlocked accesses to `index_`; a mailbox is the FIFO queue that Mailbox
is shown to be.

**TimerThread** — the ring: `BeginUpdate` is updateTime up to the text,
`Publish` its three pointer stores; `TakePointer` and `Copied` are a reader
that evaluates `CurrentLogtimeString()` and has copied the text.

**Log** — extends TimerThread with log lines: `LogMessage, Finish, Send` are
the constructor and destructor of LogMessage, `WriteStack, FlushReads,
FlushWrites, FlushFile, Abort` what the destructor adds for FATAL; `Timeout,
ReadList, FlushIfDue` are LogThread's Timeout.  `Enter, Output, Delete` are
iterList, by whichever thread is in it (`walk`).  C++ gives no meaning to a
list that two threads walk, that Send changes while it is walked, or to a
stack written into a deleted line: these steps end in `process = "undefined"`.
`Tick` moves the time on which LogThread's timer and its flush depend.

**Time, GlobalId, Hashes, Text** — functions of `util/`, `base/hash.cc` and
`base/log.h`.  **MCUtil** states what they compute as assumptions, which TLC
evaluates before run rpc (MCRpc extends it; method ids and guids come from
these functions): Localtime gives each date from 1970 to 2038 and each second
of a day in UTC+8; a timespec is normal; the ids of a batch are distinct for
every draw of (scaled) upper bits and increment; hash, hash2, hash3 and
MurmurHash64A put every byte of keys of up to 75 bytes at a place of its own,
apart from the length, and hash2 and hash3 agree with hash as
`util/lookup8.cc:146` and `:188` say; StringPrintf gives the whole text or
nothing; a log line that is cut loses its newline (section 4).

MCReactor, MCRpc, MCFraming, MCServe and MCLog otherwise only give values to
constants.

Abstractions worth knowing: memory order is sequential consistency (the code
uses acquire/release read-modify-writes, `store`s that default to seq_cst, and
a mutex); EINTR is stuttering; payloads are model values; protobuf is left
out, and in all modules but Log, so is logging.

## 3. The runs

| Run | Instance | States | Shows |
|---|---|---|---|
| mailbox | 3 senders x 2 messages, eventfd written with 0, 1 or 2 | 178k | the mailbox implements Channel, live unless a signal is a 0; no double or stale wake-up, and none lost but by a 0; no race at the plain store |
| pipe_use | 6 writes, chunks of 2 cells | 64k | only whole flushed items are read and none taken back later; wake-ups owed exactly once; cells keep their place while chunks are recycled; no chunk leaked or shared |
| reactor | 2 connections out of 2 accepted sockets and 1 connecting one, 2 units each way for one of them, send buffer of 1, close, reset, refusal, every stale errno | 753k | no input and no output left behind, the writable flag means data, no event reaches a closed socket; what is written is sent and what arrives is read, unless the connection is gone |
| reactor_client_output | 1 connecting socket | violation | finding 1 |
| rpc | 4 calls (two good, one with a bad response, one of an unknown method), 1 call of the session, connection may fail | 213k | Rpc implements RpcCalls; a response finds the context of its own call (IInv); every outstanding call is in one place; requests arrive in call order; good calls are answered |
| timers | 3 timers of either type, clock to 3, timeouts 0..2, any cancellation | 552k | order of firing and punctuality always; until a fired timer is cancelled, the maps agree and all fire; what may fire after its end then |
| timers_frozen | same, TimerThread not started | violation | finding 2 |
| framing | 3 packets of 0, 1 or 3 bytes, header of 2, buffers of 3, pool growing by 3, `write` may run past a buffer | 513k | byte lists are queues, buffers never shared, packets come out as sent, but for what follows an overrun |
| framing_span | same | violation | finding 3 |
| serve | 2 workers, 2 services at 1 endpoint, 2 connections, 2 dialers | 45k | start-up handshake, no service lost, one owner, everything bound |
| serve_starved | 2 endpoints | violation | finding 4 |
| log | 2 lines of one thread, 1 FATAL line of another, ring of 3 slots, timer every update, flush every second, 1 write may fail | 745k | no torn time; the file is the log, in order; abort loses nothing unless LogThread is at work; every line gets to the disk |

### Why the bounds are enough

- *mailbox*: a pipe hazard needs one sender between its CAS and its store or
  signal, another that flushes meanwhile, and a third whose message arrives
  behind the sleeping reader; two messages each let every sender come back
  while its own signal is under way.  The proofs remove the bound for safety.
- *pipe_use*: six cells in chunks of two take the chain over three boundaries,
  through fresh, recycled and freed chunks (MaxChunks 8 is never reached) and
  UnPush back over a boundary.
- *reactor*: two sockets are what "an earlier event of the same batch" needs;
  two units against a buffer of one is a short write with a rest; the other
  socket needs one unit to be in the batch and to be closed; MaxOpen leaves the
  third one out of each behaviour, so that every pair is met.  All faults are
  on in the same run as liveness, so a closed or reset connection (`Gone`) is
  an alternative in it.
- *rpc*: queueing needs two calls before the connection is up, one connecting
  and one following; reordering needs two unanswered ones.
- *timers*: two timers of equal expiry and one between them; a clock that
  passes two further expiries; a fired permanent timer that is cancelled, and a
  third timer whose node is taken for its own.
- *framing*: contents shorter than, equal to and longer than what is left of a
  buffer, the empty content, and packets ending exactly at a boundary; a
  write(2) that runs past a buffer by one byte or by several buffers, with
  packets before it, in it and behind it; the
  pool runs dry and grows with buffers of both lists in use; 12 buffers
  (MaxBuffers) are never all in use.
- *log*: one line per list, one line sent during a flush, and a FATAL line
  that meets both; a third slot lets an update run beside a reader.  MaxLag is
  the bound on a reader against kTimeSlots: the code has 64 slots and 50 ms,
  and says nothing of readers slower than that.
- *serve*: two threads are enough for each pair of accesses to `index_`, and
  main is a third.

The type invariant of a module is an invariant of its run, or a conjunct of one
(MapsAgree, ListIsQueue, OneOwner, IInv).  Deadlock is not checked where all
work may be done or all threads asleep; the
liveness properties say what must not stop.

### Fairness

Weak fairness of each thread's steps: the scheduler does not starve it.  A
sender *inside* Send goes on, but need not start; a writer need not write.
FifoLive is conditional on no signal being a 0 and EventuallyFires on no
fired timer being cancelled: after these the code may lose a message or a
timer, as NoLostWakeup and MapsAgree say.
`PeerRead`, `ConnectDone` (reactor): the peer goes on reading and the
network answers an attempt, without which nothing could be sent.  `OnResponse`
(rpc): services answer; EventuallyAnswered is conditional on the link staying
up.  `Tick` (timers): the clock moves *if* the thread was started; the code
does not do that, which is finding 2.  `Tick` (log) likewise, with `Ticking`
set; a thread goes on inside a log message but need not begin one.  No strong
fairness is used.

## 4. Findings

1. `core/socket.cc:64` drops the handle that `Poller::Add` returns: what is
   written to a connected client socket outside its own events waits for an
   unrelated event.  Rpc models what follows: `Outside` calls have no promise
   of an answer.
2. `core/timer_thread.cc:64`: nothing starts TimerThread, so cached time
   stands still and no timer with a positive timeout fires.
3. `base/net.cc`, Send: a write spans more than the buffer that ReadPoint
   points into.
4. `core/listener.cc:46`: the accept loop never ends; a second listener
   starves.

Differences that have no run of their own because no comment claims otherwise;
most are in the models, and the properties say what holds in spite of them:

- `Signaler::Send` writes an uninitialised variable (`core/signaler.cc:32`).
  If it is 0 the worker is left asleep with messages in its mailbox, for good:
  later senders take it for awake (NoLostWakeup, `mute`).
- `Socket::close` leaves the status CONNECTED, the descriptor number set, and
  a client's entry in the poller (modelled in `Close`).
- At the end of a stream `Recv` reports a stale errno (`RecvErr`): with EAGAIN
  the close goes unnoticed, with 0 In does not return (`"spin"`).
- An entry marked writeable and then retired is used by the next Poll
  (`FlushWriteable` to `"crashed"`).
- A refused connection is taken for a connected one (`Out`); bytes read before
  an error are dropped (`In`); an IN event while CONNECTING is dropped.
- CancelTimer of a re-armed permanent timer, or by a callback of a timer that
  already fired, does not find the timer's node and erases another one, or the
  end of the map; the timer's node stays, with a deleted entry, and is fired
  through it (`Defined`, MapsAgree, NoneAfterEnd).
- executeTimers computes the timeout of Poll before it arms permanent timers
  again, and from a time read before the callbacks ran: Poll may sleep past
  such a timer, and past others by the time callbacks took (NoneOverdue).
- If setNonBlocking fails, Accept returns an error with `*err` still kOK
  (`base/net.cc:128-131`) and Listener::In hands on a session of descriptor -1
  (not modelled).
- Two threads in selectWorker may pick the same worker: round robin is not
  kept, ownership is.
- The done of a call that fails is never run; calls of a session towards its
  channel are dropped.
- Flush(true) of a FATAL message walks both of LogThread's lists without the
  mutex, although `base/log_thread.h:54` says "one for write, another for
  read" (`Undefined`); its call stack may be written into a deleted line, or
  come too late for the file (`WriteStack`); lines that LogThread has in hand
  at abort are lost.
- A log line cut at its limit has no newline, although `base/log.h:33` keeps
  two bytes for "\n" and '\0': "\n" is streamed into the full buffer
  (LogLineFits in MCUtil).
- What write(2) refuses of the log is dropped without notice (`Output`).
- `AddRpcService` at an endpoint that `AddService` already has casts its
  handler to RpcService (`core/application.cc:58`).

## 5. What is proved

Each theorem holds for every value of the constants that satisfies the
assumptions of its modules (NullAssumption, ChunkAssumption,
ReactorAssumption, RpcAssumption, BufferAssumption, FramingAssumption,
WorkersAssumption, ServeAssumption, RingAssumption, LogAssumption and those of
Mailbox and Timers); these say no more than which sets are disjoint and which
numbers are positive or large enough for Init, except one:
`kTimeSlots >= MaxLag + 2` (a reader copies its text before the ring is about
to come round; the code has 64 slots of 50 ms).  Where the code goes wrong, no
assumption keeps it from doing so: Mailbox may signal with 0, Timers cancels
whatever it likes, and Framing's write(2) runs past buffers.  The properties
are stated of these behaviours too; they say what is kept, and what can be
lost by which step only.

| Theorem | Statement |
|---|---|
| MailboxProofs: Invariance | `Spec => []IInv` |
| TypeCorrect, Unraced, SignalledOnce, Fresh | `[]TypeOK`, `[]StoreUnraced`, `[]OneSignal`, `[]NoStaleMessage` |
| Confined | `[]ReaderConfined`: the reader takes flushed cells only |
| Woken | `[]NoLostWakeup`: only a signal of 0 loses a wake-up |
| Fifo | `Spec => Chan!Safe`: every step is a Put, a Deliver or a stutter |
| PipeProofs: Whole, Owed | `[]WholeItems`, `[]WakeOwed` |
| Read | `[]NoTakeBack`: UnWrite never takes back what was read |
| InPlace | `[]CellsInPlace`: live cells keep their place and value in chunks that are recycled |
| Chunked | `[]ChunksOwned`: no chunk has two owners or none |
| ReactorProofs: TypeCorrect, FlagIsData | `[]TypeOK`, `[]WritableMeansData` |
| InputKept, OutputKept | `[]NoLostInput`, `[]NoLostOutput` |
| ClosedLeftAlone | `NotDispatchedClosed`, an action property |
| RpcProofs: Matched | `[]IInv`: guids, contexts and packets match |
| Answered | `Spec => Promise!Spec`: Rpc implements RpcCalls |
| Ordered | `[]InCallOrder` |
| InOnePlace | `[]Accounted`: each call is in one place, each context has one packet |
| TimersProofs: InvHolds, OneTable, InOrder | `[]Inv`, `[]MapsAgree`, `FiredInOrder`, for all uses of AddTimer and CancelTimer |
| Timely, FiresNoMore | `NoneOverdue`, `NoneAfterEnd`, action properties |
| FramingProofs: Invariance | `Spec => []IInv`, for writes of any length |
| Queued, Unshared | `[]ListIsQueue`, `[]NoSharing`, while buffers are recycled and the pool grows |
| Written | `[]SentClean`: what goes out is what was written, up to the first overrun of a buffer; run framing_span shows that there are such |
| Delivered | `[]Received`: packets come out whole, in order and all of them, those before an overrun in any case |
| ServeProofs: FrameOutlives, Complete | `[]FrameAlive`, `[]ServedInFull` |
| OneWorker | `[]OneOwner`: a session or channel is in one mailbox or one worker |
| LogProofs: Stamped | `[]StampWhole` |
| InFile | `[]FileIsLog`: the file and the lists are the log, each line once and in order |
| Aborting | `[]AbortLosesNothing`: no line before a FATAL one is lost |

Every module has the same shape: an inductive invariant in named parts, a
lemma per action that the action keeps it, and a theorem that joins them by
PTL.  Few of the properties are inductive; what has to be added is the
argument:

- *Mailbox*.  Whether a reader may sleep depends on where the pointers stand,
  which depends on who holds the mutex, and whether a signal is owed depends
  on both.  IInv joins TypeOK, *Pointers* (`front <= r <= w`, `f = Back`, `c`
  is `w` or NULL, `w` lags by one exactly while some sender is in its flush),
  *Mutex* (who is between write and unlock holds `sync`), *Reader* (awake
  means `c = w`; asleep means everything prefetched was consumed and `c` is
  NULL exactly if everything flushed was), *OneSignal*, *StoreUnraced*,
  *Wakeup* (a sleeping reader with `c` set has a signal on its way or in the
  eventfd, or its signal was a 0, and then there is nothing of either) and *History* (what was processed is the prefix of what was
  written).  RecvRead going to sleep establishes `c = NULL` and no signaller;
  SendFlushSet, the only step that wakes, creates the only one.
- *Pipe*.  As above without a mutex, for a writer that also writes parts of
  items and takes them back: *Complete* says that `w` and `f` point past whole
  items, and *Pointers* that UnWrite cannot go back beyond `f`.  For the
  chunks, CellsInPlace and ChunksOwned are proved together with the types of
  the heap (*QInv*): a recycled chunk keeps old links, so one has to know
  that Push overwrites both ends of the link it makes and that the chunk it
  takes, from the spare or from malloc, holds no live cell.  `place` makes
  "the chain of chunks" a sequence that grows and shrinks at its ends, which
  no step has to follow link by link.
- *Reactor*.  "Input left in the kernel has an event" is kept by In only
  because Recv goes on until the kernel is empty, and by Poll because no event
  is dropped from a batch before its handler has run.  For output an event is
  not enough: *OutputOK* adds that when data waits neither for a mark in
  `writeable_list_` nor for a full send buffer to drain, the event under way
  will find room.  *Accepted* (accepted sockets never connect), *BatchDone*
  (nothing is left to dispatch between two batches) and *ClosedInHand* (a
  socket closed with events left in the batch is retired, and they come next,
  to be skipped) complete it; NotDispatchedClosed follows from the last one.
- *Rpc*.  A response finds its own call because no guid in a packet or a
  context exceeds `allocate_guid_` (*GivenOut*), so a new one is in use
  nowhere.  Every other step only moves packets or drops them (`Shrinks`), and
  the one that removes a context appends the answer (`Answers`): that is the
  step simulation for RpcCalls.  For the order, *OrderInv* compares the three
  places a request passes through: what is further on its way has the smaller
  guids, and a connected channel has nothing in `packet_queue_`.  This fails
  if OnConnect leaves anything behind.  *InOnePlace* treats the six places of a call as a function to sets of
  guids: a step moves a set of guids from one place to another (`HeldMoves`),
  drops them, or adds one that is given out nowhere yet.
- *Timers*.  Between callbacks, the first `i` nodes of `timers` are those that
  fired, and stay first whatever callbacks add (`Insert` never goes before
  them, as they are due and what is added is not earlier than `now`) or cancel
  (*Round*); the map is sorted (*Entries*); and *Fires* relates the history to
  it: what has fired is no later than what has not, and a once timer that has
  fired and is still in `timer_ids_` is one of the first `i`, so that with one
  node for an id nothing is left that fires it again.  What a cancellation
  finds depends on the expiry in the entry: *Placed* says that it is the key
  of the timer's node until the timer fires and no later than it afterwards,
  so that a timer that has not fired is found, and a wrong node is only taken
  for one that has.  While EraseFired runs, the rest is later than `now` or
  was just armed again (`Pending`), which gives NoneOverdue at Return.
- *Framing*.  A list stays a queue (*Buffered*) only if its buffers are not
  somebody else's (NoSharing), since Write fills and Free clears a buffer
  without looking at who has it; and that a buffer given back was read out
  and has a successor needs *Full*: between two buffers of a list lie
  BufferSize bytes, so that reading to the end of one means there is a next.
  The bytes of the stream are numbered: `start` says where each packet begins
  (*Starts*), and a number belongs to one byte of one packet only (`ByteIs`).
  *Flow* says of `write_size_`, `read_size_` and the wire that each is a
  number in that stream and that what is on the wire is its beginning.
  *Parsing* says where the parser is.  *Reading* holds of any bytes: what was
  copied is what came over the wire from where the Read began.  Beside it, the
  parser is on track or off it.  *OnTrack*: it is at the beginning of packet
  `Len(got) + 1` or of its content, with `packet_` the header of that packet,
  and no further than `Clean`; so the magic number is never wrong, the content
  is the packet's, and a parser that waits waits for bytes that have not come.
  *OffTrack*: it has read past `Clean`, which only an overrun leaves behind
  the wire (`CleanIs`), and every packet that ended before `Clean` is in `got`
  as it was sent.  A Read that crosses `Clean` takes the parser from one to the
  other (`Derailed`), and nothing takes it back, since Clean does not grow any
  more.  For the lists, an overrun only means that `read_inx_` is past the
  buffer and not equal to its size for good; *Linked* allows that of the write
  list and of no other.
- *Serve*.  *OneByOne* (the workers before `workers_` run, those behind do not
  exist) and *LockHeld* (the lock is released as the new thread's last use of
  the frame).  *OneWorker* (*HandOver*) follows each connection and channel
  from the backlog or its dialer through the hand of the thread in
  selectWorker into a mailbox and out of it: a step moves items between two
  owners (`HandOverMoves`), and a thread in selectWorker has one to hand over.
- *Log*.  A reader's slot is as far behind `index_` as updates have begun
  since (`Behind`), which is less than the ring is long.  For the lines,
  *LogInv* says of a process that is not undefined: a list has one walker,
  inside it (*Walking*); the file, the lines dropped and what is left of
  either list are disjoint and together what was sent (*Once*); a line to be
  sent is new (*Numbered*); file, read list and write list in this order are
  in the order of Send unless a FATAL line is being flushed (*Ordered*): the
  swap keeps it because the read list is empty.  *DueCovered* is the argument
  for abort: what is left in a list of the lines a dying thread owes has
  somebody about to output it, itself or LogThread, which may have swapped the
  lists between the thread's two walks, but then reads the list it took.

Only model-checked:

- all liveness, which needs ENABLED;
- what MCUtil states of the functions of `util/`: some are recursive, and what
  they compute for every input needs induction over data.

## 6. What is not modelled

- `~Socket`, `~BufferList`, `~YQueue`, Join: nothing in the repository destroys
  a session, a channel, a worker or a mailbox while it runs.
- The log level filter, log path names, a log file that cannot be opened,
  ~LogThread (the singleton is never deleted), File::Close (never called).
- Steps of gettimeofday backwards; the arithmetic of the hashes' mixing.
- System information, endpoints, options, errors, StringToHex, PopenToString:
  no state the properties depend on.
- RWLock, Condition, `Buffer::AppendData`, Probe: unused.
- Collisions of method ids: they are taken to be distinct per method.
- Calls of CallMethod from a foreign thread: the channel has no locks, and the
  examples call it in the worker's callbacks.
- Reuse of descriptor numbers after a close.
- pthread_create that fails; Listen that fails (an assertion ends the program).
- Examples, tests, `deps/` and `third_party/`.

## 7. Plan

The order so far followed the path of a message: mailbox first, because all
threads depend on it, then the reactor, RPC, timers, framing, and start-up
with hand-over, then logging, cached time and the utilities.  What is left:

Reactor with descriptors that are reused, and the destructor of Socket.
