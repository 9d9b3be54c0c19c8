-------------------------------- MODULE Rpc --------------------------------
(***************************************************************************)
(* rpc/rpc_channel.cc and rpc/rpc_session.cc: the calls of one RpcChannel  *)
(* and the RpcSession that serves it, over a connection that may be lost.  *)
(*                                                                         *)
(* A packet is a guid, whether it names a method (a request) and its       *)
(* message, here the call that the request is or that the response         *)
(* answers.  Streams carry whole packets (Framing cuts them up) and a      *)
(* socket sends all it holds (Reactor has short writes).  A channel lives  *)
(* on the thread of its worker, so its calls are made by callbacks of that *)
(* thread.                                                                 *)
(***************************************************************************)
EXTENDS Naturals, Sequences, Functions

CONSTANTS
  Calls,       \* bound: the calls made on the channel
  SessionCalls,\* bound: the calls made on the session, towards the client
  Kind,        \* what a call is: "good", "nomethod", "badrequest", "badreply"
  Faults,      \* whether the connection may fail
  Outside      \* calls made outside done even if the channel is connected

ASSUME RpcAssumption ==
  /\ Kind \in [Calls -> {"good", "nomethod", "badrequest", "badreply"}]
  /\ Calls \cap SessionCalls = {}
  /\ Faults \in BOOLEAN /\ Outside \subseteq Calls

VARIABLES
  \* RpcChannel and its Socket
  status,    \* status_ of the socket
  guid,      \* allocate_guid_
  queue,     \* packet_queue_
  contexts,  \* request_context_: [guid, call]
  wlist,     \* packets in write_list_
  rlist,     \* packets in read_list_
  phase,     \* "idle"; "read": OnRead runs; "done": it has just run a done;
             \* "out": Out is next
  \* the connection
  link,      \* "up", "lost", "closed" (lost, and the channel's socket closed)
  c2s, s2c,  \* packets under way
  \* RpcSession
  serving,   \* requests whose service has not run its done yet
  sguid,     \* allocate_guid_
  scontexts, \* request_context_
  \* history
  made,      \* calls and session calls made
  ran,       \* the messages a call's done was run with
  arrived    \* guids of the requests in the order the session read them

client == <<status, guid, queue, contexts, wlist, rlist, phase>>
wire == <<link, c2s, s2c>>
server == <<serving, sguid, scontexts>>
vars == <<client, wire, server, made, ran, arrived>>

Packet(g, method, body) == [guid |-> g, method |-> method, body |-> body]

Init ==
  /\ status = "INIT" /\ guid = 0 /\ phase = "idle" /\ link = "up"
  /\ queue = <<>> /\ wlist = <<>> /\ rlist = <<>>
  /\ c2s = <<>> /\ s2c = <<>>
  /\ contexts = {} /\ serving = {} /\ sguid = 0 /\ scontexts = {}
  /\ made = {} /\ ran = [c \in Calls |-> <<>>] /\ arrived = <<>>

----------------------------------------------------------------------------
(* RpcChannel::CallMethod.                                                 *)

\* MUTANT AllocateGuid: the guid is returned and not moved on.
AllocateGuidSame == guid

AllocateGuid == guid + 1

\* request_context_[g] = new RequestContext
PutContext(cs, g, c) == {x \in cs : x.guid # g} \cup {[guid |-> g, call |-> c]}

PushRequestToQueue(c) ==
  /\ guid' = AllocateGuid
  /\ queue' = Append(queue, Packet(AllocateGuid, TRUE, c))
  /\ contexts' = PutContext(contexts, AllocateGuid, c)

SendRequest(c) ==
  /\ guid' = AllocateGuid
  /\ wlist' = Append(wlist, Packet(AllocateGuid, TRUE, c))
  /\ contexts' = PutContext(contexts, AllocateGuid, c)

\* A worker's callback runs: done_ of CreateRpcChannel, a timer, a message,
\* or the done of another call.
MayCall(c) ==
  \/ phase = "done"
  \/ phase = "idle" /\ (c \in Outside \/ status # "CONNECTED")

\* MUTANT CallMethod: the status is read again after Connect.
CallMethodRereads(c) ==
  /\ MayCall(c) /\ c \notin made
  /\ made' = made \cup {c}
  /\ \/ /\ status = "INIT"
        /\ guid' = guid + 2
        /\ queue' = queue \o <<Packet(guid + 1, TRUE, c), Packet(guid + 2, TRUE, c)>>
        /\ contexts' = PutContext(PutContext(contexts, guid + 1, c), guid + 2, c)
        /\ status' = "CONNECTING"
        /\ UNCHANGED wlist
     \/ /\ status = "CONNECTING"
        /\ PushRequestToQueue(c)
        /\ UNCHANGED <<status, wlist>>
     \/ /\ status = "CONNECTED"
        /\ SendRequest(c)
        /\ UNCHANGED <<status, queue>>
     \/ /\ status = "CLOSED"
        /\ UNCHANGED <<status, guid, queue, contexts, wlist>>
  /\ UNCHANGED <<rlist, phase, wire, server, ran, arrived>>

\* MUTANT CallMethod: a call made while connecting is written at once.
CallMethodEager(c) ==
  /\ MayCall(c) /\ c \notin made
  /\ made' = made \cup {c}
  /\ \/ /\ status = "INIT"
        /\ PushRequestToQueue(c)
        /\ status' = "CONNECTING"
        /\ UNCHANGED wlist
     \/ /\ status \in {"CONNECTING", "CONNECTED"}
        /\ SendRequest(c)
        /\ UNCHANGED <<status, queue>>
  /\ UNCHANGED <<rlist, phase, wire, server, ran, arrived>>

\* The first call connects, and the call stays queued if that fails at once;
\* a closed channel ignores the call.
CallMethod(c) ==
  /\ MayCall(c) /\ c \notin made
  /\ made' = made \cup {c}
  /\ \/ /\ status = "INIT"
        /\ PushRequestToQueue(c)
        /\ status' \in {"CONNECTING"} \cup (IF Faults THEN {"CLOSED"} ELSE {})
        /\ UNCHANGED wlist
     \/ /\ status = "CONNECTING"
        /\ PushRequestToQueue(c)
        /\ UNCHANGED <<status, wlist>>
     \/ /\ status = "CONNECTED"
        /\ SendRequest(c)
        /\ UNCHANGED <<status, queue>>
     \/ /\ status = "CLOSED"
        /\ UNCHANGED <<status, guid, queue, contexts, wlist>>
  /\ UNCHANGED <<rlist, phase, wire, server, ran, arrived>>

----------------------------------------------------------------------------
(* The channel's socket: its events call OnConnect and OnRead, and an      *)
(* event that reports input reports room for output as well.               *)

\* MUTANT Flushed: OnConnect sends the first packet of the queue only.
FlushedFront(q) == SubSeq(q, 2, Len(q))

\* What OnConnect leaves of packet_queue_.
Flushed(q) == <<>>

\* Socket::Out while connecting, with RpcChannel::OnConnect(kOK).
OnConnect ==
  /\ phase = "idle" /\ status = "CONNECTING"
  /\ status' = "CONNECTED"
  /\ wlist' = wlist \o SubSeq(queue, 1, Len(queue) - Len(Flushed(queue)))
  /\ queue' = Flushed(queue)
  /\ phase' = "out"
  /\ UNCHANGED <<guid, contexts, rlist, wire, server, made, ran, arrived>>

\* Socket::Out, connected.  A connection found broken is closed.
ClientOut ==
  /\ phase = "out" /\ phase' = "idle"
  /\ IF link = "up"
     THEN c2s' = c2s \o wlist /\ wlist' = <<>> /\ UNCHANGED link
     ELSE link' = (IF wlist = <<>> THEN link ELSE "closed") /\ UNCHANGED <<c2s, wlist>>
  /\ UNCHANGED <<status, guid, queue, contexts, rlist, s2c, server, made, ran, arrived>>

\* Socket::In: OnRead is called unless the connection is found broken.
ClientIn ==
  /\ phase = "idle" /\ status = "CONNECTED"
  /\ \/ /\ link = "up" /\ s2c # <<>>
        /\ rlist' = rlist \o s2c /\ s2c' = <<>>
        /\ phase' = "read" /\ UNCHANGED link
     \/ /\ link = "lost"
        /\ rlist' = rlist \o s2c /\ s2c' = <<>>
        /\ link' = "closed" /\ phase' = "out"
  /\ UNCHANGED <<status, guid, queue, contexts, wlist, c2s, server, made, ran, arrived>>

IsRequest(p) == p.method

\* MUTANT Erase: the context is not erased.
EraseNot(g) == contexts

\* request_context_.erase
Erase(g) == {x \in contexts : x.guid # g}

\* One packet of RpcChannel::OnRead.
OnRead ==
  /\ phase \in {"read", "done"} /\ rlist # <<>>
  /\ rlist' = Tail(rlist)
  /\ LET p == Head(rlist) IN
     \/ /\ IsRequest(p) \/ ~\E x \in contexts : x.guid = p.guid
        /\ phase' = "read" /\ UNCHANGED <<contexts, ran>>
     \/ /\ ~IsRequest(p)
        /\ \E x \in contexts :
             /\ x.guid = p.guid
             /\ contexts' = Erase(p.guid)
             /\ \/ /\ Kind[x.call] = "badreply"
                   /\ phase' = "read" /\ UNCHANGED ran
                \/ /\ Kind[x.call] # "badreply"
                   /\ ran' = [ran EXCEPT ![x.call] = Append(@, p.body)]
                   /\ phase' = "done"
  /\ UNCHANGED <<status, guid, queue, wlist, wire, server, made, arrived>>

OnReadEnds ==
  /\ phase \in {"read", "done"} /\ rlist = <<>> /\ phase' = "out"
  /\ UNCHANGED <<status, guid, queue, contexts, wlist, rlist, wire, server, made, ran, arrived>>

----------------------------------------------------------------------------
(* RpcSession.                                                             *)

\* RpcService::GetService finds the method, and the request parses.
GetService(c) == Kind[c] # "nomethod"
Served(c) == GetService(c) /\ Kind[c] # "badrequest"

\* One request of RpcSession::OnRead, with RunService.  (A response never
\* comes: RpcChannel sends requests only.)
RunService ==
  /\ c2s # <<>>
  /\ c2s' = Tail(c2s)
  /\ arrived' = Append(arrived, Head(c2s).guid)
  /\ serving' = serving \cup {p \in {Head(c2s)} : Served(p.body)}
  /\ UNCHANGED <<client, link, s2c, sguid, scontexts, made, ran>>

ToClient(p) == s2c' = IF link = "up" THEN Append(s2c, p) ELSE s2c

\* RpcSession::onResponse: a service runs its done, in RunService or later.
OnResponse(p) ==
  /\ serving' = serving \ {p}
  /\ ToClient(Packet(p.guid, FALSE, p.body))
  /\ UNCHANGED <<client, link, c2s, sguid, scontexts, made, ran, arrived>>

\* RpcSession::CallMethod, whose guids are those of the channel's calls too.
SessionCallMethod(d) ==
  /\ d \notin made /\ made' = made \cup {d}
  /\ sguid' = sguid + 1
  /\ scontexts' = PutContext(scontexts, sguid + 1, d)
  /\ ToClient(Packet(sguid + 1, TRUE, d))
  /\ UNCHANGED <<client, link, c2s, serving, ran, arrived>>

----------------------------------------------------------------------------
\* The connection breaks; each end may or may not still get what was under
\* way to it.
Lose ==
  /\ Faults /\ link = "up" /\ status \in {"CONNECTING", "CONNECTED"}
  /\ link' = "lost"
  /\ c2s' \in {c2s, <<>>} /\ s2c' \in {s2c, <<>>}
  /\ UNCHANGED <<client, server, made, ran, arrived>>

Client ==
  \/ \E c \in Calls : CallMethod(c)
  \/ OnConnect \/ ClientOut \/ ClientIn \/ OnRead \/ OnReadEnds
Server ==
  RunService \/ (\E p \in serving : OnResponse(p)) \/ \E d \in SessionCalls : SessionCallMethod(d)

Next == Client \/ Server \/ Lose

Spec == Init /\ [][Next]_vars

(* Both workers' threads run, and services answer.                         *)
FairSpec ==
  /\ Spec
  /\ WF_vars(OnConnect \/ ClientOut \/ ClientIn \/ OnRead \/ OnReadEnds)
  /\ WF_vars(RunService) /\ WF_vars(\E p \in serving : OnResponse(p))

----------------------------------------------------------------------------
(* Properties.                                                             *)

Requests == [guid : Nat, method : {TRUE}, body : Calls]
Replies == [guid : Nat, method : {FALSE}, body : Calls]
SessionRequests == [guid : Nat, method : {TRUE}, body : SessionCalls]

TypeOK ==
  /\ status \in {"INIT", "CONNECTING", "CONNECTED", "CLOSED"}
  /\ guid \in Nat /\ sguid \in Nat
  /\ queue \in Seq(Requests) /\ wlist \in Seq(Requests) /\ c2s \in Seq(Requests)
  /\ rlist \in Seq(Replies \cup SessionRequests)
  /\ s2c \in Seq(Replies \cup SessionRequests)
  /\ contexts \subseteq [guid : Nat, call : Calls]
  /\ scontexts \subseteq [guid : Nat, call : SessionCalls]
  /\ phase \in {"idle", "read", "done", "out"}
  /\ link \in {"up", "lost", "closed"}
  /\ serving \subseteq Requests
  /\ made \subseteq Calls \cup SessionCalls
  /\ ran \in [Calls -> Seq(Calls)]
  /\ arrived \in Seq(Nat)

\* Requests and replies of the channel's calls, wherever they are.
InFlight ==
  Range(queue) \cup Range(wlist) \cup Range(c2s) \cup serving
    \cup {p \in Range(s2c) \cup Range(rlist) : ~p.method}

\* No guid is in use that the channel has not given out.
GivenOut ==
  /\ \A p \in InFlight : p.guid <= guid
  /\ \A x \in contexts : x.guid <= guid

\* A context that a packet finds by its guid is the context of its call.
Matching == \A p \in InFlight : \A x \in contexts : x.guid = p.guid => x.call = p.body

\* Contexts are of different calls, made and not answered yet.
OneContext ==
  /\ \A x, y \in contexts : (x.guid = y.guid \/ x.call = y.call) => x = y
  /\ \A x \in contexts : x.call \in made /\ ran[x.call] = <<>>

\* A call's done is run once at most, with the response to that call.
AnsweredRight ==
  \A c \in Calls : ran[c] \in {<<>>, <<c>>} /\ (c \notin made => ran[c] = <<>>)

\* The conjuncts above together: what keeps every response with its own call.
IInv == TypeOK /\ GivenOut /\ Matching /\ OneContext /\ AnsweredRight

\* What the application sees is RpcCalls.
Promise == INSTANCE RpcCalls WITH made <- made \cap Calls, answers <- ran
PromiseKept == Promise!Spec

\* The guids of the channel's calls in a sequence, and where else they are.
Guids(q) == {p.guid : p \in {r \in Range(q) : r.body \in Calls}}
NoTwice(q) ==
  \A i, j \in DOMAIN q :
    (q[i].body \in Calls /\ q[j].body \in Calls /\ q[i].guid = q[j].guid) => i = j
Held ==
  [queue |-> Guids(queue), wlist |-> Guids(wlist), c2s |-> Guids(c2s),
   serving |-> {p.guid : p \in serving}, s2c |-> Guids(s2c), rlist |-> Guids(rlist)]

\* Each outstanding call is in exactly one place, once, unless it failed for
\* one of the reasons the code drops it: no context outlives its packet, and
\* no packet its context.
Accounted ==
  /\ NoTwice(queue) /\ NoTwice(wlist) /\ NoTwice(c2s) /\ NoTwice(s2c) /\ NoTwice(rlist)
  /\ \A p, q \in serving : p.guid = q.guid => p = q
  /\ \A s, t \in DOMAIN Held : s # t => Held[s] \cap Held[t] = {}
  /\ \A s \in DOMAIN Held : Held[s] \subseteq {x.guid : x \in contexts}
  /\ link = "up" =>
       \A x \in contexts :
         Kind[x.call] \in {"good", "badreply"} => \E s \in DOMAIN Held : x.guid \in Held[s]

\* The session reads requests in the order in which the calls were made.
InCallOrder == \A i, j \in DOMAIN arrived : i < j => arrived[i] < arrived[j]

\* As long as the connection holds, every good call is answered that was
\* made before the channel was connected or in the done of another call.
\* (A connecting socket does not notice what is written outside its events:
\* ClientOutput in Reactor.)
EventuallyAnswered ==
  \A c \in Calls \ Outside :
    (c \in made /\ Kind[c] = "good")
      ~> (ran[c] # <<>> \/ link # "up" \/ status = "CLOSED")
============================================================================
