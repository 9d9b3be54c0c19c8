------------------------------ MODULE Reactor ------------------------------
(***************************************************************************)
(* core/epoll.cc, core/socket.cc and Recv and Send of base/net.cc: one     *)
(* worker's poller and the sockets registered with it, over a kernel whose *)
(* connections receive, drain, end and break at any time.                  *)
(*                                                                         *)
(* Bytes are counted in units a handler reads or writes at once.  In and   *)
(* Out run on one thread and reach the kernel only through reads and       *)
(* writes that stop at EAGAIN, so each is one step; the kernel moves       *)
(* between any two of them.                                                *)
(***************************************************************************)
EXTENDS Naturals, Sequences, FiniteSets

CONSTANTS
  NULL,
  Servers,    \* accepted sockets (CreateServerSocket)
  Clients,    \* connecting sockets (CreateClientSocket)
  MaxIn,      \* bound, per socket: units its peer sends
  MaxOut,     \* bound, per socket: units written to it
  MaxOpen,    \* bound: connections in one behaviour
  Room,       \* units the kernel's send buffer holds
  Faults,     \* what may become of a connection: subset of {"fin", "rst"}
  StaleErrno  \* what errno may hold when read(2) returns 0: subset of
              \* {"ok", "again", "error"}

Socks == Servers \cup Clients

ASSUME ReactorAssumption ==
  /\ NULL \notin Socks /\ Servers \cap Clients = {}
  /\ MaxIn \in [Socks -> Nat] /\ MaxOut \in [Socks -> Nat] /\ Room \in Nat \ {0}
  /\ MaxOpen \in Nat
  /\ Faults \subseteq {"fin", "rst"}
  /\ StaleErrno \subseteq {"ok", "again", "error"} /\ StaleErrno # {}

VARIABLES
  \* the kernel, per socket
  peer,      \* "none", "connecting", "refused", "open", "fin" or "rst"
  inq, outq, \* units in the receive and the send buffer
  sent,      \* units the peer has sent
  nospace,   \* a write hit EAGAIN and its edge has not come yet
  edge,      \* on epoll's ready list
  \* Socket
  status,    \* status_
  fd,        \* "open" or "closed"
  rlist, wlist, \* units in read_list_ and write_list_
  writable,  \* is_writable_
  handle,    \* handle_ # NULL
  got,       \* history: units OnRead has consumed
  written,   \* history: units written with Socket::Write
  \* Epoll
  entry,     \* the socket's EpollEntry: "none", "live", "retired", "freed"
  writeable, \* writeable_list_
  retired,   \* retired_list_
  batch,     \* what is left of the events epoll_wait reported, per socket
  cur,       \* the socket some of whose reported events were dispatched
  pc         \* "timers" (between two Polls), "flush", "dispatch";
             \* "spin": In never returns; "crashed": a freed entry was used

kernel == <<peer, inq, outq, sent, nospace, edge>>
history == <<got, written>>
sockBuf == <<rlist, wlist, writable>>
pollVars == <<entry, retired>>
vars == <<kernel, status, fd, sockBuf, handle, history, pollVars, writeable,
          batch, cur, pc>>

Init ==
  /\ peer = [s \in Socks |-> "none"]
  /\ inq = [s \in Socks |-> 0] /\ outq = inq /\ sent = inq
  /\ nospace = [s \in Socks |-> FALSE] /\ edge = nospace
  /\ status = [s \in Socks |-> IF s \in Servers THEN "CONNECTED" ELSE "INIT"]
  /\ fd = [s \in Socks |-> "open"]
  /\ rlist = inq /\ wlist = inq /\ got = inq /\ written = inq
  /\ writable = nospace /\ handle = nospace
  /\ entry = [s \in Socks |-> "none"]
  /\ writeable = <<>> /\ retired = <<>>
  /\ batch = [s \in Socks |-> <<>>] /\ cur = NULL /\ pc = "timers"

----------------------------------------------------------------------------
(* The kernel and the peers (external).  Epoll is edge-triggered: only a   *)
(* change puts the descriptor on the ready list.                           *)

Broken(s) == peer[s] \in {"rst", "refused"}
Polled(s) == entry[s] = "live" /\ fd[s] = "open"

\* What epoll_wait reports of a descriptor on its ready list, in the order
\* in which Poll looks at it.
Events(s) ==
  (IF Broken(s) THEN <<"err">> ELSE <<>>) \o
  (IF Broken(s) \/ peer[s] = "fin" \/ inq[s] > 0 THEN <<"in">> ELSE <<>>) \o
  (IF Broken(s) \/ (peer[s] \in {"open", "fin"} /\ outq[s] < Room)
   THEN <<"out">> ELSE <<>>)

KernelStep(s) ==
  UNCHANGED <<status, fd, sockBuf, handle, history, pollVars, writeable, batch, cur, pc>>

PeerSend(s) ==
  /\ peer[s] = "open" /\ sent[s] < MaxIn[s]
  /\ inq' = [inq EXCEPT ![s] = @ + 1]
  /\ sent' = [sent EXCEPT ![s] = @ + 1]
  /\ edge' = [edge EXCEPT ![s] = Polled(s)]
  /\ UNCHANGED <<peer, outq, nospace>> /\ KernelStep(s)

\* The peer takes a unit; only a writer that met EAGAIN is told.
PeerRead(s) ==
  /\ outq[s] > 0
  /\ outq' = [outq EXCEPT ![s] = @ - 1]
  /\ edge' = [edge EXCEPT ![s] = @ \/ (nospace[s] /\ Polled(s))]
  /\ nospace' = [nospace EXCEPT ![s] = FALSE]
  /\ UNCHANGED <<peer, inq, sent>> /\ KernelStep(s)

PeerEnds(s) ==
  /\ peer[s] \in {"open", "fin"}
  /\ \E p \in Faults \ {peer[s]} :
       /\ peer' = [peer EXCEPT ![s] = p]
       /\ inq' = [inq EXCEPT ![s] = IF p = "rst" THEN 0 ELSE @]
       /\ outq' = [outq EXCEPT ![s] = IF p = "rst" THEN 0 ELSE @]
  /\ edge' = [edge EXCEPT ![s] = Polled(s)]
  /\ UNCHANGED <<sent, nospace>> /\ KernelStep(s)

\* A connection attempt succeeds or is refused.
ConnectDone(s) ==
  /\ peer[s] = "connecting"
  /\ \E p \in {"open"} \cup (IF "rst" \in Faults THEN {"refused"} ELSE {}) :
       peer' = [peer EXCEPT ![s] = p]
  /\ edge' = [edge EXCEPT ![s] = Polled(s)]
  /\ UNCHANGED <<inq, outq, sent, nospace>> /\ KernelStep(s)

Kernel == \E s \in Socks : PeerSend(s) \/ PeerRead(s) \/ PeerEnds(s) \/ ConnectDone(s)

----------------------------------------------------------------------------
(* Socket.  Each operator below says what becomes of the Socket, of its    *)
(* kernel buffers and of its entry.                                        *)

\* MUTANT SocketWrite: the entry is not marked writeable.
SocketWriteNoMark(s, k) ==
  /\ wlist' = [wlist EXCEPT ![s] = @ + k]
  /\ written' = [written EXCEPT ![s] = @ + k]
  /\ writable' = [writable EXCEPT ![s] = @ \/ k > 0]
  /\ UNCHANGED writeable

\* Socket::Write of k units, with Epoll::MarkWriteable, which ignores NULL.
SocketWrite(s, k) ==
  /\ wlist' = [wlist EXCEPT ![s] = @ + k]
  /\ written' = [written EXCEPT ![s] = @ + k]
  /\ IF k = 0 \/ writable[s]
     THEN UNCHANGED <<writable, writeable>>
     ELSE /\ writable' = [writable EXCEPT ![s] = TRUE]
          /\ writeable' = IF handle[s] THEN Append(writeable, s) ELSE writeable

\* Socket::close, with Epoll::Del: the status is left as it is.
Close(s) ==
  /\ fd' = [fd EXCEPT ![s] = "closed"]
  /\ edge' = [edge EXCEPT ![s] = FALSE]
  /\ IF handle[s]
     THEN /\ entry' = [entry EXCEPT ![s] = "retired"]
          /\ retired' = Append(retired, s)
     ELSE UNCHANGED <<entry, retired>>

\* How the last read(2) of Recv ends.  At the end of the stream Recv returns
\* whatever errno holds.
RecvErr(s) ==
  IF fd[s] = "closed" \/ Broken(s) THEN {"error"}
  ELSE IF peer[s] = "fin" THEN StaleErrno
  ELSE {"again"}

\* MUTANT Drained: one read per event, as with a level-triggered epoll.
DrainedOnce(s) == IF fd[s] = "open" /\ inq[s] > 0 THEN 1 ELSE 0

\* The units Recv reads: it goes on until the receive buffer is empty.
Drained(s) == IF fd[s] = "open" THEN inq[s] ELSE 0

\* Socket::In.  OnRead consumes what was read and answers any part of it.
In(s) ==
  IF status[s] # "CONNECTED"
  THEN UNCHANGED <<kernel, status, fd, sockBuf, handle, history, pollVars, writeable, pc>>
  ELSE
  /\ inq' = [inq EXCEPT ![s] = @ - Drained(s)]
  /\ UNCHANGED <<peer, outq, sent, nospace, status, handle>>
  /\ \E err \in RecvErr(s) :
     LET read == rlist[s] + Drained(s) IN
     \/ /\ err = "again"
        /\ rlist' = [rlist EXCEPT ![s] = 0]
        /\ got' = [got EXCEPT ![s] = @ + read]
        /\ \E k \in 0..read : written[s] + k <= MaxOut[s] /\ SocketWrite(s, k)
        /\ UNCHANGED <<fd, edge, pollVars, pc>>
     \/ /\ err = "error"
        /\ rlist' = [rlist EXCEPT ![s] = read]
        /\ Close(s)
        /\ UNCHANGED <<wlist, writable, history, writeable, pc>>
     \/ /\ err = "ok"
        /\ rlist' = [rlist EXCEPT ![s] = read]
        /\ pc' = "spin"
        /\ UNCHANGED <<fd, edge, wlist, writable, history, writeable, pollVars>>

Fits(s, n) == IF n <= Room - outq[s] THEN n ELSE Room - outq[s]

\* Socket::Out with n units to send, of which the kernel takes m; flag is
\* what is_writable_ becomes.  Writing to a broken connection fails.
Sends(s, n, m, flag) ==
  \/ /\ n = 0 \/ (fd[s] = "open" /\ ~Broken(s))
     /\ wlist' = [wlist EXCEPT ![s] = n - m]
     /\ writable' = [writable EXCEPT ![s] = flag]
     /\ outq' = [outq EXCEPT ![s] = @ + m]
     /\ nospace' = [nospace EXCEPT ![s] = @ \/ m < n]
     /\ UNCHANGED <<peer, inq, sent, edge, fd, pollVars>>
  \/ /\ n > 0 /\ (fd[s] = "closed" \/ Broken(s))
     /\ wlist' = [wlist EXCEPT ![s] = n]
     /\ writable' = [writable EXCEPT ![s] = TRUE]
     /\ Close(s)
     /\ UNCHANGED <<peer, inq, outq, sent, nospace>>

\* MUTANT SendAll: is_writable_ is not reset.
SendAllKeepsFlag(s, n) == Sends(s, n, Fits(s, n), writable[s] \/ n > 0)

\* Send goes on until all is sent or the kernel takes no more; Out resets
\* is_writable_ once write_list_ is empty.
SendAll(s, n) == Sends(s, n, Fits(s, n), Fits(s, n) < n)

\* Socket::Out.  While connecting, any event that reports the socket
\* writeable makes it connected, and OnConnect writes what was queued.
Out(s) ==
  /\ UNCHANGED <<rlist, handle, got, pc>>
  /\ \/ /\ status[s] = "CONNECTING"
        /\ status' = [status EXCEPT ![s] = "CONNECTED"]
        /\ \E k \in 0..(MaxOut[s] - written[s]) :
             /\ written' = [written EXCEPT ![s] = @ + k]
             /\ SendAll(s, wlist[s] + k)
     \/ /\ status[s] = "CONNECTED"
        /\ SendAll(s, wlist[s])
        /\ UNCHANGED <<status, written>>
     \/ /\ status[s] \notin {"CONNECTING", "CONNECTED"}
        /\ UNCHANGED <<kernel, status, fd, wlist, writable, written, pollVars>>

----------------------------------------------------------------------------
(* What other callbacks of the worker do between the events of sockets:    *)
(* messages of the mailbox, timers, other descriptors.                     *)

InCallback == pc = "timers" \/ (pc = "dispatch" /\ cur = NULL)

MayOpen ==
  Cardinality({s \in Socks : peer[s] # "none" \/ status[s] = "CLOSED"}) < MaxOpen

\* CreateServerSocket, for a descriptor that the main thread has accepted.
CreateServerSocket(s) ==
  /\ s \in Servers /\ peer[s] = "none" /\ MayOpen
  /\ peer' = [peer EXCEPT ![s] = "open"]
  /\ UNCHANGED <<inq, outq, sent, nospace, edge, status, fd, sockBuf, handle, history,
                 pollVars, writeable, batch, cur, pc>>

\* SetPoller, from Worker::processAcceptMessage; the descriptor is ready.
Register(s) ==
  /\ InCallback /\ s \in Servers /\ peer[s] # "none" /\ entry[s] = "none"
  /\ handle' = [handle EXCEPT ![s] = TRUE]
  /\ entry' = [entry EXCEPT ![s] = "live"]
  /\ edge' = [edge EXCEPT ![s] = TRUE]
  /\ UNCHANGED <<peer, inq, outq, sent, nospace, status, fd, sockBuf, history,
                 retired, writeable, batch, cur, pc>>

\* What connect(2) on a non-blocking socket comes to: under way, or an error.
ConnectAsync == {"kOK"} \cup {f \in {"kError"} : "rst" \in Faults}

\* Socket::Connect: an attempt that fails at once closes the Socket, another
\* one is added to the poller, whose handle is not kept.
Connect(s) ==
  /\ InCallback /\ s \in Clients /\ status[s] = "INIT" /\ MayOpen
  /\ \/ /\ "kOK" \in ConnectAsync
        /\ status' = [status EXCEPT ![s] = "CONNECTING"]
        /\ peer' = [peer EXCEPT ![s] = "connecting"]
        /\ entry' = [entry EXCEPT ![s] = "live"]
     \/ /\ "kError" \in ConnectAsync
        /\ status' = [status EXCEPT ![s] = "CLOSED"]
        /\ UNCHANGED <<peer, entry>>
  /\ UNCHANGED <<inq, outq, sent, nospace, edge, fd, sockBuf, handle, history,
                 retired, writeable, batch, cur, pc>>

\* A late answer (RpcSession::onResponse) or a new call on a connected
\* channel: both write whatever became of the descriptor.
AppWrite(s) ==
  /\ InCallback /\ written[s] < MaxOut[s]
  /\ entry[s] # "none" /\ status[s] = "CONNECTED"
  /\ SocketWrite(s, 1)
  /\ UNCHANGED <<kernel, status, fd, rlist, handle, got, pollVars, batch, cur, pc>>

----------------------------------------------------------------------------
(* Poller::Dispatch and Epoll::Poll.                                       *)

StartPoll ==
  /\ pc = "timers" /\ pc' = "flush"
  /\ UNCHANGED <<kernel, status, fd, sockBuf, handle, history, pollVars, writeable, batch, cur>>

\* The entries marked writeable are visited without a look at their state.
FlushWriteable ==
  /\ pc = "flush" /\ writeable # <<>>
  /\ LET s == Head(writeable) IN
     IF entry[s] = "freed"
     THEN /\ pc' = "crashed"
          /\ UNCHANGED <<kernel, status, fd, sockBuf, handle, history, pollVars, writeable>>
     ELSE Out(s) /\ writeable' = Tail(writeable)
  /\ UNCHANGED <<batch, cur>>

\* epoll_wait: the ready list is emptied into the batch; with nothing ready
\* it times out, or some other descriptor is.
EpollWait ==
  /\ pc = "flush" /\ writeable = <<>>
  /\ LET ready == {s \in Socks : edge[s] /\ Polled(s) /\ Events(s) # <<>>} IN
     /\ batch' = [s \in Socks |-> IF s \in ready THEN Events(s) ELSE <<>>]
     /\ edge' = [s \in Socks |-> FALSE]
     /\ \/ pc' = "dispatch"
        \/ ready = {} /\ pc' = "timers"
  /\ UNCHANGED <<peer, inq, outq, sent, nospace, status, fd, sockBuf, handle, history,
                 pollVars, writeable, cur>>

\* MUTANT Skipped: Poll does not look at ee->fd again.
NeverSkipped(s) == FALSE

\* Del has set ee->fd to kInvalidFd.
Skipped(s) == entry[s] = "retired"

\* One reported event; none is dispatched to an entry that was retired
\* since.
Dispatch(s) ==
  /\ pc = "dispatch" /\ batch[s] # <<>> /\ cur \in {NULL, s}
  /\ IF Skipped(s)
     THEN /\ batch' = [batch EXCEPT ![s] = <<>>] /\ cur' = NULL
          /\ UNCHANGED <<kernel, status, fd, sockBuf, handle, history, pollVars,
                         writeable, pc>>
     ELSE /\ batch' = [batch EXCEPT ![s] = Tail(@)]
          /\ cur' = IF Tail(batch[s]) = <<>> THEN NULL ELSE s
          /\ IF Head(batch[s]) = "out" THEN Out(s) /\ UNCHANGED writeable ELSE In(s)

\* processRetired, at the end of a batch: an entry that was retired twice is
\* deleted twice.
EndBatch ==
  /\ pc = "dispatch" /\ \A s \in Socks : batch[s] = <<>>
  /\ entry' = [s \in Socks |-> IF entry[s] = "retired" THEN "freed" ELSE entry[s]]
  /\ retired' = <<>>
  /\ pc' = IF \E i, j \in 1..Len(retired) : i # j /\ retired[i] = retired[j]
           THEN "crashed" ELSE "timers"
  /\ UNCHANGED <<kernel, status, fd, sockBuf, handle, history, writeable, batch, cur>>

App == \E s \in Socks : CreateServerSocket(s) \/ Register(s) \/ Connect(s) \/ AppWrite(s)

Poll ==
  StartPoll \/ FlushWriteable \/ EpollWait \/ EndBatch \/ \E s \in Socks : Dispatch(s)

Next == Kernel \/ App \/ Poll

Spec == Init /\ [][Next]_vars

(* The worker's thread is not starved, connection attempts end, and a peer *)
(* goes on reading what it is sent.                                        *)
FairSpec ==
  /\ Spec /\ WF_vars(Poll)
  /\ \A s \in Socks : WF_vars(PeerRead(s)) /\ WF_vars(ConnectDone(s))

----------------------------------------------------------------------------
(* Properties.                                                             *)

TypeOK ==
  /\ peer \in [Socks -> {"none", "connecting", "refused", "open", "fin", "rst"}]
  /\ inq \in [Socks -> Nat] /\ outq \in [Socks -> 0..Room]
  /\ sent \in [Socks -> Nat] /\ \A s \in Socks : inq[s] <= sent[s] /\ sent[s] <= MaxIn[s]
  /\ nospace \in [Socks -> BOOLEAN] /\ edge \in [Socks -> BOOLEAN]
  /\ status \in [Socks -> {"INIT", "CONNECTING", "CONNECTED", "CLOSED"}]
  /\ fd \in [Socks -> {"open", "closed"}]
  /\ rlist \in [Socks -> Nat] /\ wlist \in [Socks -> Nat]
  /\ writable \in [Socks -> BOOLEAN] /\ handle \in [Socks -> BOOLEAN]
  /\ got \in [Socks -> Nat] /\ written \in [Socks -> Nat]
  /\ entry \in [Socks -> {"none", "live", "retired", "freed"}]
  /\ writeable \in Seq(Socks) /\ retired \in Seq(Socks)
  /\ batch \in [Socks -> Seq({"err", "in", "out"})]
  /\ cur \in Socks \cup {NULL}
  /\ pc \in {"timers", "flush", "dispatch", "spin", "crashed"}

Reported(s, e) == \E i \in 1..Len(batch[s]) : batch[s][i] = e

\* "true if write buffer has data to send" (socket.h): is_writable_ is set
\* exactly as long as write_list_ is not empty.
WritableMeansData == \A s \in Socks : writable[s] <=> wlist[s] > 0

\* Edge-triggered input is never left behind: as long as the kernel holds
\* input of a registered accepted socket, an event is pending for it.
NoLostInput ==
  \A s \in Servers : Polled(s) /\ inq[s] > 0 => edge[s] \/ Reported(s, "in")

\* Output is never left behind: as long as an accepted socket has data to
\* send, it is marked writeable, or the kernel will report room for more.
OutputPending(s) ==
  \/ \E i \in 1..Len(writeable) : writeable[i] = s
  \/ nospace[s] \/ edge[s] \/ Reported(s, "out")
NoLostOutput ==
  \A s \in Servers : Polled(s) /\ wlist[s] > 0 => OutputPending(s)

\* No event of a batch reaches a socket that an earlier event of that batch
\* closed: it is not read, written or retired again.
Retirements(s) == Cardinality({i \in 1..Len(retired) : retired[i] = s})
NotDispatchedClosed ==
  [][\A s \in Servers :
       fd[s] = "closed" /\ batch[s] # <<>>
         => /\ UNCHANGED <<rlist, wlist, got>>
            /\ Retirements(s)' = Retirements(s)]_vars

\* Whatever becomes of the connections, what is written is sent and what is
\* received is read, unless the socket is closed first.  (A worker that spins
\* in In, see RecvErr, serves nobody.)
Gone(s) == fd[s] = "closed" \/ pc \in {"spin", "crashed"}
EventuallySent == \A s \in Servers : wlist[s] > 0 ~> (wlist[s] = 0 \/ Gone(s))
EventuallyRead == \A s \in Servers : (handle[s] /\ inq[s] > 0) ~> (inq[s] = 0 \/ Gone(s))

\* socket.h: "When send data to socket, it will buffer the data, and then
\* send if epoll return writeable", for connecting sockets as well.
ClientOutput == \A s \in Clients : Polled(s) /\ wlist[s] > 0 => OutputPending(s)
============================================================================
