------------------------------- MODULE Serve -------------------------------
(***************************************************************************)
(* core/application.cc, core/listener.cc, the service side of              *)
(* rpc/rpc_service.cc and the message handlers of core/worker.cc.  The     *)
(* main thread starts the workers, adds its services, and then accepts     *)
(* connections and hands their sessions to workers; application threads    *)
(* ask for RPC channels once Init has returned; workers take both out of   *)
(* their mailboxes.  A mailbox is the FIFO channel that Mailbox implements. *)
(***************************************************************************)
EXTENDS ThreadStart, Sequences, Functions

CONSTANTS
  NULL,
  Listeners, \* endpoints, each with its listener
  Services,  \* the services of the program
  EndpointOf, \* the endpoint main adds each service to
  Conns,     \* bound: connections that arrive
  Dialers,   \* application threads, each calling CreateRpcChannel once
  Main       \* the thread that calls Init, AddRpcService and Run

ASSUME ServeAssumption ==
  /\ EndpointOf \in [Services -> Listeners] /\ Main \notin Dialers
  /\ Conns \cap Dialers = {} /\ NULL \notin Listeners \cup Conns \cup Dialers

Threads == Dialers \cup {Main}
Items == Conns \cup Dialers     \* a session, or a channel for its dialer

VARIABLES
  added,    \* services added so far; all of them once main is in Run
  methods,  \* listeners_: the services in each endpoint's RpcService
  backlog,  \* accept queue of each listening socket, in the kernel
  came,     \* connections that have arrived
  edge,     \* listening sockets on epoll's ready list
  in,       \* the listener whose In runs, or NULL
  index,    \* Application::index_
  pc,       \* in selectWorker, per thread: "idle", "read", "write", "pick"
  tmp,      \* the new index a thread has computed
  item,     \* what the thread is about to hand over
  mailbox,  \* messages sent to each worker
  bound     \* what each worker has bound to its poller, in order

vars == <<startVars, added, methods, backlog, came, edge, in, index, pc, tmp, item, mailbox, bound>>
thread == <<pc, tmp, item>>
setUp == <<startVars, added, methods>>
serving == <<backlog, came, edge, in, index, thread, mailbox, bound>>

Init ==
  /\ StartInit
  /\ added = {} /\ methods = [l \in Listeners |-> {}]
  /\ backlog = [l \in Listeners |-> <<>>] /\ came = {} /\ edge = {} /\ in = NULL
  /\ index = 0
  /\ pc = [t \in Threads |-> IF t = Main THEN "idle" ELSE "read"]
  /\ tmp = [t \in Threads |-> 0]
  /\ item = [t \in Threads |-> IF t = Main THEN NULL ELSE t]
  /\ mailbox = [w \in Workers |-> <<>>] /\ bound = mailbox

\* Listen, of the Listener made for an endpoint's first service.
Listening(l) == \E s \in added : EndpointOf[s] = l
InRun == AllStarted /\ added = Services

\* Application::Init: start the workers.
InitWorkers == Starter /\ UNCHANGED <<added, methods, serving>>

Begin(w) == Started(w) /\ UNCHANGED <<added, methods, serving>>

\* MUTANT Registered: every call makes an RpcService of its own.
RegisteredAnew(s) == [methods EXCEPT ![EndpointOf[s]] = {s}]

\* Register adds the methods of a service to those of its endpoint.
Registered(s) == [methods EXCEPT ![EndpointOf[s]] = @ \cup {s}]

\* AddRpcService: the first service of an endpoint makes its listener, which
\* listens from then on; the next ones find it.
AddRpcService(s) ==
  /\ AllStarted /\ s \notin added
  /\ added' = added \cup {s}
  /\ methods' = Registered(s)
  /\ UNCHANGED <<startVars, serving>>

\* A client connects (external).
Arrive(c, l) ==
  /\ Listening(l)
  /\ c \notin came /\ came' = came \cup {c}
  /\ backlog' = [backlog EXCEPT ![l] = Append(@, c)]
  /\ edge' = edge \cup {l}
  /\ UNCHANGED <<setUp, in, index, thread, mailbox, bound>>

\* The main thread's poller dispatches an event to a listener.
Dispatch(l) ==
  /\ InRun /\ in = NULL /\ l \in edge
  /\ in' = l /\ edge' = edge \ {l}
  /\ UNCHANGED <<setUp, backlog, came, index, thread, mailbox, bound>>

\* accept(2); that setNonBlocking fails on the new descriptor is left out.
AfterAccept(queue) == Tail(queue)

\* A turn of the loop of Listener::In, with OnAccept.  When accept(2) finds
\* no connection the loop goes on: nothing makes In return.
Accept ==
  /\ in # NULL /\ pc[Main] = "idle" /\ backlog[in] # <<>>
  /\ backlog' = [backlog EXCEPT ![in] = AfterAccept(@)]
  /\ item' = [item EXCEPT ![Main] = Head(backlog[in])]
  /\ pc' = [pc EXCEPT ![Main] = "read"]
  /\ UNCHANGED <<setUp, came, edge, in, index, tmp, mailbox, bound>>

(* selectWorker, called by AcceptNewSession and CreateRpcChannel, reads,   *)
(* writes and reads index_ again, without a lock.                          *)

SelectRead(t) ==
  /\ AllStarted /\ pc[t] = "read" /\ pc' = [pc EXCEPT ![t] = "write"]
  /\ tmp' = [tmp EXCEPT ![t] = (index + 1) % NWorkers]
  /\ UNCHANGED <<setUp, backlog, came, edge, in, index, item, mailbox, bound>>

Stored(t) == tmp[t]

SelectWrite(t) ==
  /\ pc[t] = "write" /\ pc' = [pc EXCEPT ![t] = "pick"]
  /\ index' = Stored(t)
  /\ UNCHANGED <<setUp, backlog, came, edge, in, tmp, item, mailbox, bound>>

\* workers_[index_], and Send to that worker.
SendItem(t) ==
  /\ pc[t] = "pick" /\ pc' = [pc EXCEPT ![t] = "idle"]
  /\ mailbox' = [mailbox EXCEPT ![index] = Append(@, item[t])]
  /\ item' = [item EXCEPT ![t] = NULL]
  /\ UNCHANGED <<setUp, backlog, came, edge, in, index, tmp, bound>>

\* MUTANT Taken: a worker processes only the message a signal came with.
TakenLast(q) == <<Head(q)>>

\* Worker::In processes messages until the mailbox is empty.
Taken(q) == q

\* processAcceptMessage binds the session to the worker's poller,
\* processRpcChannelMessage creates the channel and runs done_.
Process(w) ==
  /\ Runs(w) /\ mailbox[w] # <<>>
  /\ bound' = [bound EXCEPT ![w] = @ \o Taken(mailbox[w])]
  /\ mailbox' = [mailbox EXCEPT ![w] = <<>>]
  /\ UNCHANGED <<setUp, backlog, came, edge, in, index, thread>>

Run(t) == SelectRead(t) \/ SelectWrite(t) \/ SendItem(t)
MainStep ==
  \/ InitWorkers \/ \E s \in Services : AddRpcService(s)
  \/ (\E l \in Listeners : Dispatch(l)) \/ Accept \/ Run(Main)
WorkerStep(w) == Begin(w) \/ Process(w)

Next ==
  \/ \E c \in Conns, l \in Listeners : Arrive(c, l)
  \/ MainStep \/ (\E t \in Dialers : Run(t)) \/ \E w \in Workers : WorkerStep(w)

Spec == Init /\ [][Next]_vars

(* Every thread runs.                                                      *)
FairSpec ==
  /\ Spec /\ WF_vars(MainStep)
  /\ \A t \in Dialers : WF_vars(Run(t))
  /\ \A w \in Workers : WF_vars(WorkerStep(w))

----------------------------------------------------------------------------
(* Properties.                                                             *)

TypeOK ==
  /\ frame \in [worker : Workers, at : {"none", "created", "locked"}] /\ lock \in BOOLEAN
  /\ mpc \in [Workers -> {"none", "entry", "unlock", "run"}]
  /\ state \in [Workers -> {"None", "Running"}] /\ workers \in 0..NWorkers
  /\ added \subseteq Services /\ methods \in [Listeners -> SUBSET Services]
  /\ backlog \in [Listeners -> Seq(Conns)] /\ came \subseteq Conns
  /\ edge \subseteq Listeners /\ in \in Listeners \cup {NULL}
  /\ index \in Workers
  /\ pc \in [Threads -> {"idle", "read", "write", "pick"}]
  /\ tmp \in [Threads -> Workers]
  /\ item \in [Threads -> Items \cup {NULL}]
  /\ mailbox \in [Workers -> Seq(Items)] /\ bound \in [Workers -> Seq(Items)]

\* Where an item may be, and the items that are there.
Owners ==
  ({"backlog"} \X Listeners) \cup ({"thread"} \X Threads) \cup ({"mailbox", "bound"} \X Workers)
Owned(o) ==
  CASE o[1] = "backlog" -> backlog[o[2]]
    [] o[1] = "thread" -> IF item[o[2]] = NULL THEN <<>> ELSE <<item[o[2]]>>
    [] o[1] = "mailbox" -> mailbox[o[2]]
    [] o[1] = "bound" -> bound[o[2]]

\* All values are in their ranges; and whatever threads select workers at
\* the same time, each connection that has arrived and each channel asked
\* for is in exactly one place, once: nothing is dropped, bound twice, or
\* bound to two workers.
OneOwner ==
  /\ TypeOK
  /\ \A o \in Owners : IsInjective(Owned(o))
  /\ \A x \in came \cup Dialers : \E o \in Owners : \A p \in Owners : x \in Range(Owned(p)) <=> p = o

\* A session that may be asked for a method finds every method of its
\* endpoint: once main is in Run, no service has replaced another.
ServedInFull ==
  InRun => \A l \in Listeners : methods[l] = {s \in Services : EndpointOf[s] = l}

\* Every connection is bound to a worker, and every CreateRpcChannel runs
\* its done.
BoundEventually ==
  \A x \in Items : (x \in came \cup Dialers) ~> \E w \in Workers : x \in Range(bound[w])
============================================================================
