----------------------------- MODULE RpcProofs -----------------------------
(***************************************************************************)
(* The calls of a channel, for every set of calls, of calls of the session *)
(* and of kinds, over a connection that may or may not fail: IInv is       *)
(* inductive, and what the application sees is RpcCalls.                   *)
(***************************************************************************)
EXTENDS Rpc, SequenceTheorems, TLAPS

----------------------------------------------------------------------------
(* What is in a stream after messages are added to it and taken from it.  *)

LEMMA RangeEmpty == Range(<<>>) = {}
BY DEF Range

LEMMA RangeElement ==
  ASSUME NEW S, NEW s \in Seq(S), NEW e
  PROVE  /\ e \in Range(s) <=> \E i \in 1..Len(s) : e = s[i]
         /\ e \in Range(s) => e \in S
BY DEF Range

LEMMA RangeAppend ==
  ASSUME NEW S, NEW q \in Seq(S), NEW e \in S
  PROVE  Append(q, e) \in Seq(S) /\ Range(Append(q, e)) = Range(q) \cup {e}
<1>1. /\ Append(q, e) \in Seq(S) /\ DOMAIN Append(q, e) = 1..(Len(q) + 1)
      /\ DOMAIN q = 1..Len(q) /\ Len(q) \in Nat
      /\ \A i \in 1..Len(q) : Append(q, e)[i] = q[i]
      /\ Append(q, e)[Len(q) + 1] = e
  BY AppendProperties
<1>2. \A i \in 1..(Len(q) + 1) : i \in 1..Len(q) \/ i = Len(q) + 1
  BY <1>1
<1>3. Len(q) + 1 \in 1..(Len(q) + 1) /\ \A i \in 1..Len(q) : i \in 1..(Len(q) + 1)
  BY <1>1
<1>4. QED
  BY <1>1, <1>2, <1>3 DEF Range

LEMMA RangeConcat ==
  ASSUME NEW S, NEW q \in Seq(S), NEW t \in Seq(S)
  PROVE  q \o t \in Seq(S) /\ Range(q \o t) = Range(q) \cup Range(t)
<1>1. /\ q \o t \in Seq(S) /\ DOMAIN (q \o t) = 1..(Len(q) + Len(t))
      /\ DOMAIN q = 1..Len(q) /\ DOMAIN t = 1..Len(t) /\ Len(q) \in Nat /\ Len(t) \in Nat
      /\ \A i \in 1..(Len(q) + Len(t)) :
           (q \o t)[i] = IF i <= Len(q) THEN q[i] ELSE t[i - Len(q)]
  BY ConcatProperties
<1>2. \A i \in 1..(Len(q) + Len(t)) :
        \/ i \in 1..Len(q) /\ (q \o t)[i] = q[i]
        \/ i - Len(q) \in 1..Len(t) /\ (q \o t)[i] = t[i - Len(q)]
  BY <1>1
<1>3. Range(q \o t) = Range(q) \cup Range(t)
  <2>1. \A i \in 1..Len(q) : i \in 1..(Len(q) + Len(t)) /\ (q \o t)[i] = q[i]
    BY <1>1
  <2>2. \A i \in 1..Len(t) : /\ Len(q) + i \in 1..(Len(q) + Len(t))
                             /\ (q \o t)[Len(q) + i] = t[i]
    BY <1>1
  <2>3. ASSUME NEW x \in Range(q \o t) PROVE x \in Range(q) \cup Range(t)
    <3>1. PICK i \in 1..(Len(q) + Len(t)) : x = (q \o t)[i]
      BY <1>1 DEF Range
    <3>2. \/ i \in 1..Len(q) /\ x = q[i]
          \/ i - Len(q) \in 1..Len(t) /\ x = t[i - Len(q)]
      BY <1>2, <3>1
    <3>3. QED
      BY <1>1, <3>2 DEF Range
  <2>4. ASSUME NEW x \in Range(q) PROVE x \in Range(q \o t)
    <3>1. PICK i \in 1..Len(q) : x = q[i]
      BY <1>1 DEF Range
    <3>2. i \in DOMAIN (q \o t) /\ (q \o t)[i] = x
      BY <1>1, <2>1, <3>1
    <3>3. QED
      BY <3>2 DEF Range
  <2>5. ASSUME NEW x \in Range(t) PROVE x \in Range(q \o t)
    <3>1. PICK i \in 1..Len(t) : x = t[i]
      BY <1>1 DEF Range
    <3>2. Len(q) + i \in DOMAIN (q \o t) /\ (q \o t)[Len(q) + i] = x
      BY <1>1, <2>2, <3>1
    <3>3. QED
      BY <3>2 DEF Range
  <2>6. QED
    BY <2>3, <2>4, <2>5
<1>4. QED
  BY <1>1, <1>3

LEMMA RangeHeadTail ==
  ASSUME NEW S, NEW s \in Seq(S), s # <<>>
  PROVE  /\ Head(s) \in S /\ Head(s) \in Range(s)
         /\ Tail(s) \in Seq(S) /\ Range(Tail(s)) \subseteq Range(s)
         /\ Range(s) = Range(Tail(s)) \cup {Head(s)}
<1>1. /\ Head(s) \in S /\ Tail(s) \in Seq(S) /\ Len(Tail(s)) = Len(s) - 1
      /\ \A i \in 1..Len(Tail(s)) : Tail(s)[i] = s[i + 1]
  BY HeadTailProperties
<1>2. /\ Len(s) \in Nat \ {0} /\ DOMAIN s = 1..Len(s) /\ Head(s) = s[1]
      /\ DOMAIN Tail(s) = 1..(Len(s) - 1)
  BY <1>1, EmptySeq
<1>3. 1 \in DOMAIN s /\ \A i \in 1..(Len(s) - 1) : i + 1 \in DOMAIN s
  BY <1>2
<1>4. Head(s) \in Range(s)
  BY <1>2, <1>3 DEF Range
<1>5. ASSUME NEW x \in Range(Tail(s)) PROVE x \in Range(s)
  <2>1. PICK i \in 1..(Len(s) - 1) : x = Tail(s)[i]
    BY <1>2 DEF Range
  <2>2. x = s[i + 1]
    BY <1>1, <2>1
  <2>3. QED
    BY <1>3, <2>2 DEF Range
<1>6. ASSUME NEW x \in Range(s), x # Head(s) PROVE x \in Range(Tail(s))
  <2>1. PICK i \in 1..Len(s) : x = s[i]
    BY <1>2 DEF Range
  <2>2. i - 1 \in 1..(Len(s) - 1) /\ i = (i - 1) + 1
    BY <1>2, <1>6, <2>1
  <2>3. Tail(s)[i - 1] = x
    BY <1>1, <1>2, <2>1, <2>2
  <2>4. QED
    BY <1>2, <2>2, <2>3 DEF Range
<1>7. QED
  BY <1>1, <1>4, <1>5, <1>6

----------------------------------------------------------------------------
(* What is under way, and the steps that add no call to it.                *)

LEMMA InFlightTyped ==
  ASSUME TypeOK, NEW p \in InFlight
  PROVE  p.guid \in Nat /\ p.body \in Calls
<1>1. p \in Requests \cup Replies
  <2>1. CASE p \in Range(queue) \cup Range(wlist) \cup Range(c2s) \cup serving
    BY <2>1, RangeElement DEF TypeOK
  <2>2. CASE p \in {q \in Range(s2c) \cup Range(rlist) : ~q.method}
    <3>1. p \in Replies \cup SessionRequests /\ ~p.method
      BY <2>2, RangeElement DEF TypeOK
    <3>2. QED
      BY <3>1 DEF SessionRequests
  <2>3. QED
    BY <2>1, <2>2 DEF InFlight
<1>2. QED
  BY <1>1 DEF Requests, Replies

\* Everything under way was so before the step, in this or another place.
Traced == \A p \in InFlight' : \E q \in InFlight : q.guid = p.guid /\ q.body = p.body

LEMMA Shrinks ==
  ASSUME IInv, TypeOK', Traced, contexts' \subseteq contexts, guid' = guid,
         made \subseteq made', ran' = ran
  PROVE  IInv'
<1>1. GivenOut'
  BY DEF IInv, GivenOut, Traced
<1>2. Matching'
  BY DEF IInv, Matching, Traced
<1>3. OneContext'
  BY DEF IInv, OneContext
<1>4. AnsweredRight'
  BY DEF IInv, AnsweredRight
<1>5. QED
  BY <1>1, <1>2, <1>3, <1>4 DEF IInv

LEMMA OnConnectStep ==
  ASSUME IInv, OnConnect
  PROVE  IInv'
<1>1. wlist' = wlist \o queue /\ queue' = <<>>
  <2>1. SubSeq(queue, 1, Len(queue) - Len(<<>>)) = queue
    BY SubSeqFull DEF IInv, TypeOK
  <2>2. QED
    BY <2>1 DEF OnConnect, Flushed
<1>2. wlist' \in Seq(Requests) /\ Range(wlist') \subseteq Range(wlist) \cup Range(queue)
  BY <1>1, RangeConcat DEF IInv, TypeOK
<1>3. TypeOK'
  BY <1>1, <1>2 DEF OnConnect, wire, server, IInv, TypeOK
<1>4. InFlight' \subseteq InFlight
  BY <1>1, <1>2, RangeEmpty DEF OnConnect, wire, server, InFlight
<1>5. QED
  BY <1>3, <1>4, Shrinks DEF OnConnect, Traced

LEMMA ClientOutStep ==
  ASSUME IInv, ClientOut
  PROVE  IInv'
<1>1. CASE link = "up"
  <2>1. c2s' = c2s \o wlist /\ wlist' = <<>> /\ link' = link
    BY <1>1 DEF ClientOut
  <2>2. c2s' \in Seq(Requests) /\ Range(c2s') \subseteq Range(c2s) \cup Range(wlist)
    BY <2>1, RangeConcat DEF IInv, TypeOK
  <2>3. TypeOK'
    BY <2>1, <2>2 DEF ClientOut, server, IInv, TypeOK
  <2>4. InFlight' \subseteq InFlight
    BY <2>1, <2>2, RangeEmpty DEF ClientOut, server, InFlight
  <2>5. QED
    BY <2>3, <2>4, Shrinks DEF ClientOut, Traced
<1>2. CASE link # "up"
  <2>1. TypeOK'
    BY <1>2 DEF ClientOut, server, IInv, TypeOK
  <2>2. InFlight' = InFlight
    BY <1>2 DEF ClientOut, server, InFlight
  <2>3. QED
    BY <1>2, <2>1, <2>2, Shrinks DEF ClientOut, Traced
<1>3. QED
  BY <1>1, <1>2

LEMMA ClientInStep ==
  ASSUME IInv, ClientIn
  PROVE  IInv'
<1>1. rlist' = rlist \o s2c /\ s2c' = <<>>
  BY DEF ClientIn
<1>2. /\ rlist' \in Seq(Replies \cup SessionRequests)
      /\ Range(rlist') \subseteq Range(rlist) \cup Range(s2c)
  BY <1>1, RangeConcat DEF IInv, TypeOK
<1>3. TypeOK'
  BY <1>1, <1>2 DEF ClientIn, server, IInv, TypeOK
<1>4. InFlight' \subseteq InFlight
  BY <1>1, <1>2, RangeEmpty DEF ClientIn, server, InFlight
<1>5. QED
  BY <1>3, <1>4, Shrinks DEF ClientIn, Traced

LEMMA OnReadEndsStep ==
  ASSUME IInv, OnReadEnds
  PROVE  IInv'
<1>1. TypeOK'
  BY DEF OnReadEnds, wire, server, IInv, TypeOK
<1>2. InFlight' = InFlight
  BY DEF OnReadEnds, wire, server, InFlight
<1>3. QED
  BY <1>1, <1>2, Shrinks DEF OnReadEnds, Traced

LEMMA RunServiceStep ==
  ASSUME IInv, RunService
  PROVE  IInv'
<1>1. c2s \in Seq(Requests) /\ c2s # <<>> /\ c2s' = Tail(c2s)
  BY DEF RunService, IInv, TypeOK
<1>2. /\ Head(c2s) \in Requests /\ Head(c2s) \in Range(c2s)
      /\ c2s' \in Seq(Requests) /\ Range(c2s') \subseteq Range(c2s)
  BY <1>1, RangeHeadTail
<1>3. arrived' \in Seq(Nat)
  <2>1. Head(c2s).guid \in Nat
    BY <1>2 DEF Requests
  <2>2. QED
    BY <2>1, AppendProperties DEF RunService, IInv, TypeOK
<1>4. serving' \subseteq serving \cup {Head(c2s)}
  BY DEF RunService
<1>5. TypeOK'
  BY <1>2, <1>3, <1>4 DEF RunService, client, IInv, TypeOK
<1>6. InFlight' \subseteq InFlight
  BY <1>2, <1>4 DEF RunService, client, InFlight
<1>7. QED
  BY <1>5, <1>6, Shrinks DEF RunService, client, Traced

\* A response stands for the request it answers.
LEMMA OnResponseStep ==
  ASSUME IInv, NEW p \in serving, OnResponse(p)
  PROVE  IInv'
<1> DEFINE r == Packet(p.guid, FALSE, p.body)
<1>1. p \in Requests /\ s2c \in Seq(Replies \cup SessionRequests)
  BY DEF IInv, TypeOK
<1>2. r \in Replies /\ r.guid = p.guid /\ r.body = p.body
  BY <1>1 DEF Packet, Requests, Replies
<1>3. s2c' \in Seq(Replies \cup SessionRequests) /\ Range(s2c') \subseteq Range(s2c) \cup {r}
  <2>1. s2c' = Append(s2c, r) \/ s2c' = s2c
    BY DEF OnResponse, ToClient
  <2>2. Append(s2c, r) \in Seq(Replies \cup SessionRequests)
          /\ Range(Append(s2c, r)) = Range(s2c) \cup {r}
    <3>1. r \in Replies \cup SessionRequests
      BY <1>2
    <3> HIDE DEF r
    <3>2. QED
      BY <1>1, <3>1, RangeAppend
  <2>3. QED
    BY <1>1, <2>1, <2>2
<1>4. TypeOK'
  BY <1>3 DEF OnResponse, client, IInv, TypeOK
<1>5. InFlight' \subseteq InFlight \cup {r}
  BY <1>3 DEF OnResponse, client, InFlight
<1>6. p \in InFlight
  BY DEF InFlight
<1>7. Traced
  BY <1>2, <1>5, <1>6 DEF Traced
<1>8. QED
  BY <1>4, <1>7, Shrinks DEF OnResponse, client

\* A request of the session is no packet of the channel's calls.
LEMMA SessionCallMethodStep ==
  ASSUME IInv, NEW d \in SessionCalls, SessionCallMethod(d)
  PROVE  IInv'
<1> DEFINE r == Packet(sguid + 1, TRUE, d)
<1>1. s2c \in Seq(Replies \cup SessionRequests) /\ sguid + 1 \in Nat
  BY DEF IInv, TypeOK
<1>2. r \in SessionRequests /\ r.method
  BY <1>1 DEF Packet, SessionRequests
<1>3. s2c' \in Seq(Replies \cup SessionRequests) /\ Range(s2c') \subseteq Range(s2c) \cup {r}
  <2>1. s2c' = Append(s2c, r) \/ s2c' = s2c
    BY DEF SessionCallMethod, ToClient
  <2>2. Append(s2c, r) \in Seq(Replies \cup SessionRequests)
          /\ Range(Append(s2c, r)) = Range(s2c) \cup {r}
    <3>1. r \in Replies \cup SessionRequests
      BY <1>2
    <3> HIDE DEF r
    <3>2. QED
      BY <1>1, <3>1, RangeAppend
  <2>3. QED
    BY <1>1, <2>1, <2>2
<1>4. scontexts' \subseteq [guid : Nat, call : SessionCalls]
  BY <1>1 DEF SessionCallMethod, PutContext, IInv, TypeOK
<1>5. TypeOK'
  <2>1. made' \subseteq Calls \cup SessionCalls /\ sguid' \in Nat
    BY <1>1 DEF SessionCallMethod, IInv, TypeOK
  <2>2. /\ UNCHANGED <<status, guid, queue, contexts, wlist, rlist, phase>>
        /\ UNCHANGED <<link, c2s, serving, ran, arrived>>
    BY DEF SessionCallMethod, client
  <2>3. QED
    BY <1>3, <1>4, <2>1, <2>2 DEF IInv, TypeOK
<1>6. InFlight' \subseteq InFlight
  <2>1. UNCHANGED <<queue, wlist, rlist, c2s, serving>>
    BY DEF SessionCallMethod, client
  <2>2. QED
    BY <1>2, <1>3, <2>1 DEF InFlight
<1>7. QED
  BY <1>5, <1>6, Shrinks DEF SessionCallMethod, client, Traced

LEMMA LoseStep ==
  ASSUME IInv, Lose
  PROVE  IInv'
<1>1. TypeOK'
  <2>1. /\ c2s' \in Seq(Requests) /\ s2c' \in Seq(Replies \cup SessionRequests)
        /\ link' \in {"up", "lost", "closed"}
    BY EmptySeq DEF Lose, IInv, TypeOK
  <2>2. /\ UNCHANGED <<status, guid, queue, contexts, wlist, rlist, phase>>
        /\ UNCHANGED <<serving, sguid, scontexts, made, ran, arrived>>
    BY DEF Lose, client, server
  <2>3. QED
    BY <2>1, <2>2 DEF IInv, TypeOK
<1>2. InFlight' \subseteq InFlight
  <2>1. /\ Range(c2s') \subseteq Range(c2s) /\ Range(s2c') \subseteq Range(s2c)
        /\ UNCHANGED <<queue, wlist, rlist, serving>>
    BY RangeEmpty DEF Lose, client, server
  <2>2. QED
    BY <2>1 DEF InFlight
<1>3. QED
  BY <1>1, <1>2, Shrinks DEF Lose, client, Traced

----------------------------------------------------------------------------
(* A call: its guid is new, because no guid in use exceeds allocate_guid_. *)

LEMMA Adds ==
  ASSUME IInv, NEW c \in Calls, c \notin made, made' = made \cup {c}, guid' = guid + 1,
         contexts' = PutContext(contexts, guid + 1, c), ran' = ran, TypeOK',
         InFlight' \subseteq InFlight \cup {Packet(guid + 1, TRUE, c)}
  PROVE  IInv'
<1> DEFINE r == Packet(guid + 1, TRUE, c)  k == [guid |-> guid + 1, call |-> c]
<1>1. /\ r.guid = guid + 1 /\ r.body = c
      /\ k.guid = guid + 1 /\ k.call = c /\ guid \in Nat
  BY DEF Packet, IInv, TypeOK
<1>2. contexts' \subseteq contexts \cup {k} /\ InFlight' \subseteq InFlight \cup {r}
  BY DEF PutContext
<1> HIDE DEF r, k
<1>3. \A p \in InFlight : p.guid \in Nat /\ p.guid <= guid
  BY InFlightTyped DEF IInv, GivenOut
<1>4. \A x \in contexts : x.guid \in Nat /\ x.guid <= guid
  BY DEF IInv, GivenOut, TypeOK
<1>5. GivenOut'
  BY <1>1, <1>2, <1>3, <1>4 DEF GivenOut
<1>6. Matching'
  <2>1. \A p \in InFlight : p.guid # k.guid
    BY <1>1, <1>3
  <2>2. \A x \in contexts : x.guid # r.guid
    BY <1>1, <1>4
  <2>3. QED
    BY <1>1, <1>2, <2>1, <2>2 DEF IInv, Matching
<1>7. OneContext'
  <2>1. \A x \in contexts : x.guid # k.guid /\ x.call # k.call
    BY <1>1, <1>4 DEF IInv, OneContext
  <2>2. ran[c] = <<>>
    BY DEF IInv, AnsweredRight
  <2>3. QED
    BY <1>1, <1>2, <2>1, <2>2 DEF IInv, OneContext
<1>8. AnsweredRight'
  BY DEF IInv, AnsweredRight
<1>9. QED
  BY <1>5, <1>6, <1>7, <1>8 DEF IInv

LEMMA CallMethodStep ==
  ASSUME IInv, NEW c \in Calls, CallMethod(c)
  PROVE  IInv'
<1> DEFINE r == Packet(guid + 1, TRUE, c)
<1>1. r \in Requests /\ guid + 1 \in Nat
  BY DEF Packet, Requests, IInv, TypeOK
<1> HIDE DEF r
<1>2. /\ c \notin made /\ made' = made \cup {c}
      /\ UNCHANGED <<rlist, phase, link, c2s, s2c, serving, sguid, scontexts, ran, arrived>>
  BY DEF CallMethod, wire, server
<1>3. PutContext(contexts, guid + 1, c) \subseteq [guid : Nat, call : Calls]
  BY <1>1 DEF PutContext, IInv, TypeOK
<1>4. CASE /\ PushRequestToQueue(c) /\ UNCHANGED wlist
           /\ status' \in {"INIT", "CONNECTING", "CONNECTED", "CLOSED"}
  <2>1. queue' \in Seq(Requests) /\ Range(queue') = Range(queue) \cup {r}
    <3>1. queue' = Append(queue, r)
      BY <1>4 DEF PushRequestToQueue, AllocateGuid, r
    <3>2. QED
      BY <1>1, <3>1, RangeAppend DEF IInv, TypeOK
  <2>2. guid' = guid + 1 /\ contexts' = PutContext(contexts, guid + 1, c) /\ wlist' = wlist
    BY <1>4 DEF PushRequestToQueue, AllocateGuid
  <2>3. TypeOK'
    BY <1>1, <1>2, <1>3, <1>4, <2>1, <2>2 DEF IInv, TypeOK
  <2>4. InFlight' \subseteq InFlight \cup {r}
    BY <1>2, <2>1, <2>2 DEF InFlight
  <2>5. QED
    BY <1>2, <2>2, <2>3, <2>4, Adds DEF r
<1>5. CASE SendRequest(c) /\ UNCHANGED <<status, queue>>
  <2>1. wlist' \in Seq(Requests) /\ Range(wlist') = Range(wlist) \cup {r}
    <3>1. wlist' = Append(wlist, r)
      BY <1>5 DEF SendRequest, AllocateGuid, r
    <3>2. QED
      BY <1>1, <3>1, RangeAppend DEF IInv, TypeOK
  <2>2. guid' = guid + 1 /\ contexts' = PutContext(contexts, guid + 1, c)
    BY <1>5 DEF SendRequest, AllocateGuid
  <2>3. TypeOK'
    BY <1>1, <1>2, <1>3, <1>5, <2>1, <2>2 DEF IInv, TypeOK
  <2>4. InFlight' \subseteq InFlight \cup {r}
    BY <1>2, <1>5, <2>1 DEF InFlight
  <2>5. QED
    BY <1>2, <2>2, <2>3, <2>4, Adds DEF r
<1>6. CASE UNCHANGED <<status, guid, queue, contexts, wlist>>
  <2>1. TypeOK'
    BY <1>2, <1>6 DEF IInv, TypeOK
  <2>2. InFlight' = InFlight
    BY <1>2, <1>6 DEF InFlight
  <2>3. QED
    BY <1>2, <1>6, <2>1, <2>2, Shrinks DEF Traced
<1>7. QED
  BY <1>4, <1>5, <1>6 DEF CallMethod, IInv, TypeOK

----------------------------------------------------------------------------
(* A response finds the context of its own call, whose done has not run.   *)

LEMMA OnReadFacts ==
  ASSUME IInv, OnRead
  PROVE  /\ rlist' \in Seq(Replies \cup SessionRequests) /\ InFlight' \subseteq InFlight
         /\ phase' \in {"read", "done"}
         /\ UNCHANGED <<status, guid, queue, wlist, link, c2s, s2c>>
         /\ UNCHANGED <<serving, sguid, scontexts, made, arrived>>
<1>1. /\ rlist' \in Seq(Replies \cup SessionRequests) /\ Range(rlist') \subseteq Range(rlist)
      /\ phase' \in {"read", "done"}
  BY RangeHeadTail DEF OnRead, IInv, TypeOK
<1>2. /\ UNCHANGED <<status, guid, queue, wlist, link, c2s, s2c>>
      /\ UNCHANGED <<serving, sguid, scontexts, made, arrived>>
  BY DEF OnRead, wire, server
<1>3. InFlight' \subseteq InFlight
  BY <1>1, <1>2 DEF InFlight
<1>4. QED
  BY <1>1, <1>2, <1>3

\* OnRead runs the done of call x.call with the response it has just read.
Answers(x) ==
  /\ x \in contexts /\ contexts' = contexts \ {x}
  /\ ran[x.call] = <<>> /\ ran' = [ran EXCEPT ![x.call] = <<x.call>>]

LEMMA OnReadAnswers ==
  ASSUME IInv, OnRead
  PROVE  contexts' \subseteq contexts /\ (ran' = ran \/ \E x \in contexts : Answers(x))
<1> DEFINE p == Head(rlist)
<1>1. CASE IsRequest(p) \/ ~\E x \in contexts : x.guid = p.guid
  BY <1>1 DEF OnRead
<1>2. ASSUME ~IsRequest(p), NEW x \in contexts, x.guid = p.guid, contexts' = Erase(p.guid),
             ran' = [ran EXCEPT ![x.call] = Append(@, p.body)]
      PROVE  Answers(x)
  <2>1. p \in InFlight
    <3>1. p \in Range(rlist)
      BY RangeHeadTail DEF OnRead, IInv, TypeOK
    <3>2. QED
      BY <1>2, <3>1 DEF InFlight, IsRequest
  <2>2. p.body = x.call
    BY <1>2, <2>1 DEF IInv, Matching
  <2>3. contexts' = contexts \ {x}
    BY <1>2 DEF Erase, IInv, OneContext
  <2>4. x.call \in Calls /\ ran \in [Calls -> Seq(Calls)] /\ ran[x.call] = <<>>
    BY <1>2 DEF IInv, TypeOK, OneContext
  <2>5. Append(<<>>, x.call) = <<x.call>>
    OBVIOUS
  <2>6. ran' = [ran EXCEPT ![x.call] = <<x.call>>]
    BY <1>2, <2>2, <2>4, <2>5
  <2>7. QED
    BY <1>2, <2>3, <2>4, <2>6 DEF Answers
<1>3. Erase(p.guid) \subseteq contexts
  BY DEF Erase
<1>4. QED
  BY <1>1, <1>2, <1>3 DEF OnRead

LEMMA OnReadStep ==
  ASSUME IInv, OnRead
  PROVE  IInv'
<1>1. CASE ran' = ran
  <2>1. TypeOK'
    BY <1>1, OnReadFacts, OnReadAnswers DEF IInv, TypeOK
  <2>2. QED
    BY <1>1, <2>1, OnReadFacts, OnReadAnswers, Shrinks DEF Traced
<1>2. ASSUME NEW x \in contexts, Answers(x) PROVE IInv'
  <2>1. x.call \in Calls /\ x.call \in made /\ ran \in [Calls -> Seq(Calls)]
    BY <1>2 DEF IInv, TypeOK, OneContext
  <2>2. <<x.call>> \in Seq(Calls)
    BY <2>1
  <2>3. TypeOK'
    BY <1>2, <2>1, <2>2, OnReadFacts, OnReadAnswers DEF Answers, IInv, TypeOK
  <2>4. GivenOut' /\ Matching'
    BY <1>2, OnReadFacts, OnReadAnswers DEF IInv, GivenOut, Matching
  <2>5. OneContext'
    <3>1. ASSUME NEW y \in contexts' PROVE y \in contexts /\ y.call # x.call
      BY <1>2, <3>1 DEF Answers, IInv, OneContext
    <3>2. \A y \in contexts' : y.call \in Calls /\ ran'[y.call] = ran[y.call]
      BY <1>2, <2>1, <3>1 DEF Answers, IInv, TypeOK
    <3>3. QED
      BY <3>1, <3>2, OnReadFacts DEF IInv, OneContext
  <2>6. AnsweredRight'
    BY <1>2, <2>1, OnReadFacts DEF Answers, IInv, AnsweredRight
  <2>7. QED
    BY <2>3, <2>4, <2>5, <2>6 DEF IInv
<1>3. QED
  BY <1>1, <1>2, OnReadAnswers

----------------------------------------------------------------------------
LEMMA IndInit == Init => IInv
<1> SUFFICES ASSUME Init PROVE IInv
  OBVIOUS
<1>1. TypeOK
  BY EmptySeq DEF Init, TypeOK
<1>2. InFlight = {}
  BY RangeEmpty DEF Init, InFlight
<1>3. GivenOut /\ Matching /\ OneContext
  BY <1>2 DEF Init, GivenOut, Matching, OneContext
<1>4. AnsweredRight
  BY DEF Init, AnsweredRight
<1>5. QED
  BY <1>1, <1>3, <1>4 DEF IInv

LEMMA IndNext == IInv /\ [Next]_vars => IInv'
<1> SUFFICES ASSUME IInv, [Next]_vars PROVE IInv'
  OBVIOUS
<1>1. ASSUME NEW c \in Calls, CallMethod(c) PROVE IInv'
  BY <1>1, CallMethodStep
<1>2. CASE OnConnect \/ ClientOut \/ ClientIn
  BY <1>2, OnConnectStep, ClientOutStep, ClientInStep
<1>3. CASE OnRead \/ OnReadEnds
  BY <1>3, OnReadStep, OnReadEndsStep
<1>4. CASE RunService
  BY <1>4, RunServiceStep
<1>5. ASSUME NEW p \in serving, OnResponse(p) PROVE IInv'
  BY <1>5, OnResponseStep
<1>6. ASSUME NEW d \in SessionCalls, SessionCallMethod(d) PROVE IInv'
  BY <1>6, SessionCallMethodStep
<1>7. CASE Lose
  BY <1>7, LoseStep
<1>8. CASE UNCHANGED vars
  <2>1. TypeOK' /\ InFlight' = InFlight
    BY <1>8 DEF vars, client, wire, server, InFlight, IInv, TypeOK
  <2>2. QED
    BY <1>8, <2>1, Shrinks DEF vars, client, Traced
<1>9. QED
  BY <1>1, <1>2, <1>3, <1>4, <1>5, <1>6, <1>7, <1>8 DEF Next, Client, Server

\* Whatever the calls, their interleaving with OnRead and the loss of the
\* connection: every packet finds the context of its own call or none.
THEOREM Matched == Spec => []IInv
<1> QED
  BY IndInit, IndNext, PTL DEF Spec

----------------------------------------------------------------------------
(* RpcCalls is what the application sees.                                  *)

LEMMA PromiseInit == Init => Promise!Init
BY DEF Init, Promise!Init

LEMMA PromiseStep == IInv /\ [Next]_vars => [Promise!Next]_Promise!vars
<1> SUFFICES ASSUME IInv, [Next]_vars PROVE [Promise!Next]_Promise!vars
  OBVIOUS
<1> USE DEF Promise!vars
<1>1. ASSUME NEW c \in Calls, CallMethod(c) PROVE Promise!Next
  <2>1. /\ c \notin made \cap Calls /\ ran' = ran
        /\ made' \cap Calls = (made \cap Calls) \cup {c}
    BY <1>1 DEF CallMethod
  <2>2. QED
    BY <2>1 DEF Promise!Next, Promise!Make
<1>2. CASE OnConnect \/ ClientOut \/ ClientIn \/ OnReadEnds \/ RunService \/ Lose
  BY <1>2 DEF OnConnect, ClientOut, ClientIn, OnReadEnds, RunService, Lose
<1>3. ASSUME NEW p \in serving, OnResponse(p) PROVE UNCHANGED Promise!vars
  BY <1>3 DEF OnResponse
<1>4. ASSUME NEW d \in SessionCalls, SessionCallMethod(d) PROVE UNCHANGED Promise!vars
  <2>1. d \notin Calls
    BY RpcAssumption
  <2>2. QED
    BY <1>4, <2>1 DEF SessionCallMethod
<1>5. CASE OnRead
  <2>1. made' = made
    BY <1>5, OnReadFacts
  <2>2. ASSUME NEW x \in contexts, Answers(x) PROVE Promise!Next
    <3>1. x.call \in made \cap Calls
      BY DEF IInv, TypeOK, OneContext
    <3>2. QED
      BY <2>1, <2>2, <3>1 DEF Answers, Promise!Next, Promise!Answer
  <2>3. QED
    BY <1>5, <2>1, <2>2, OnReadAnswers
<1>6. CASE UNCHANGED vars
  BY <1>6 DEF vars
<1>7. QED
  BY <1>1, <1>2, <1>3, <1>4, <1>5, <1>6 DEF Next, Client, Server

\* A call's done is run at most once, after the call was made and with the
\* response to that call, however packets, losses and sessions interleave.
THEOREM Answered == Spec => PromiseKept
<1> QED
  BY PromiseInit, PromiseStep, Matched, PTL DEF Spec, PromiseKept, Promise!Spec

----------------------------------------------------------------------------
(* Requests keep the order of their guids on the way to the session.       *)

Rising(q) == \A i, j \in DOMAIN q : i < j => q[i].guid < q[j].guid
Below(p, q) == \A x \in Range(p), y \in Range(q) : x.guid < y.guid
ReadBefore(q) == \A i \in DOMAIN arrived : \A y \in Range(q) : arrived[i] < y.guid

\* What is further on its way has the smaller guids, and a connected channel
\* has nothing in packet_queue_.
OrderInv ==
  /\ Rising(queue) /\ Rising(wlist) /\ Rising(c2s) /\ InCallOrder
  /\ Below(c2s, wlist) /\ Below(c2s, queue) /\ Below(wlist, queue)
  /\ ReadBefore(queue) /\ ReadBefore(wlist) /\ ReadBefore(c2s)
  /\ \A i \in DOMAIN arrived : arrived[i] <= guid
  /\ status = "CONNECTED" => queue = <<>>

LEMMA RisingAppend ==
  ASSUME NEW s \in Seq(Requests), NEW e \in Requests, Rising(s),
         \A x \in Range(s) : x.guid < e.guid
  PROVE  Rising(Append(s, e))
<1>1. /\ DOMAIN s = 1..Len(s) /\ DOMAIN Append(s, e) = 1..(Len(s) + 1) /\ Len(s) \in Nat
      /\ \A i \in 1..Len(s) : Append(s, e)[i] = s[i]
      /\ Append(s, e)[Len(s) + 1] = e
  BY AppendProperties
<1>2. ASSUME NEW i \in 1..(Len(s) + 1), NEW j \in 1..(Len(s) + 1), i < j
      PROVE  Append(s, e)[i].guid < Append(s, e)[j].guid
  <2>1. i \in 1..Len(s) /\ (j \in 1..Len(s) \/ j = Len(s) + 1)
    BY <1>1, <1>2
  <2>2. s[i] \in Range(s)
    BY <1>1, <2>1 DEF Range
  <2>3. QED
    BY <1>1, <1>2, <2>1, <2>2 DEF Rising
<1>3. QED
  BY <1>1, <1>2 DEF Rising

LEMMA RisingConcat ==
  ASSUME NEW s \in Seq(Requests), NEW t \in Seq(Requests), Rising(s), Rising(t), Below(s, t)
  PROVE  Rising(s \o t)
<1>1. /\ DOMAIN s = 1..Len(s) /\ DOMAIN t = 1..Len(t) /\ Len(s) \in Nat /\ Len(t) \in Nat
      /\ DOMAIN (s \o t) = 1..(Len(s) + Len(t))
      /\ \A i \in 1..(Len(s) + Len(t)) :
           (s \o t)[i] = IF i <= Len(s) THEN s[i] ELSE t[i - Len(s)]
  BY ConcatProperties
<1>2. ASSUME NEW i \in 1..(Len(s) + Len(t)), NEW j \in 1..(Len(s) + Len(t)), i < j
      PROVE  (s \o t)[i].guid < (s \o t)[j].guid
  <2>1. CASE j <= Len(s)
    <3>1. i \in 1..Len(s) /\ j \in 1..Len(s) /\ i <= Len(s)
      BY <1>1, <1>2, <2>1
    <3>2. QED
      BY <1>1, <1>2, <2>1, <3>1 DEF Rising
  <2>2. CASE i <= Len(s) /\ ~(j <= Len(s))
    <3>1. i \in 1..Len(s) /\ j - Len(s) \in 1..Len(t)
      BY <1>1, <1>2, <2>2
    <3>2. s[i] \in Range(s) /\ t[j - Len(s)] \in Range(t)
      BY <1>1, <3>1 DEF Range
    <3>3. QED
      BY <1>1, <2>2, <3>2 DEF Below
  <2>3. CASE ~(i <= Len(s))
    <3>1. /\ i - Len(s) \in 1..Len(t) /\ j - Len(s) \in 1..Len(t) /\ i - Len(s) < j - Len(s)
          /\ ~(j <= Len(s))
      BY <1>1, <1>2, <2>3
    <3>2. QED
      BY <1>1, <2>3, <3>1 DEF Rising
  <2>4. QED
    BY <2>1, <2>2, <2>3
<1>3. QED
  BY <1>1, <1>2 DEF Rising

LEMMA RisingTail ==
  ASSUME NEW s \in Seq(Requests), s # <<>>, Rising(s)
  PROVE  Rising(Tail(s)) /\ \A y \in Range(Tail(s)) : Head(s).guid < y.guid
<1>1. /\ Len(s) \in Nat \ {0} /\ DOMAIN s = 1..Len(s) /\ Head(s) = s[1]
      /\ DOMAIN Tail(s) = 1..(Len(s) - 1)
      /\ \A i \in 1..(Len(s) - 1) : Tail(s)[i] = s[i + 1]
  BY EmptySeq, HeadTailProperties
<1>2. \A i \in 1..(Len(s) - 1) : i + 1 \in 1..Len(s) /\ 1 < i + 1 /\ 1 \in 1..Len(s)
  BY <1>1
<1>3. Rising(Tail(s))
  <2>1. ASSUME NEW i \in 1..(Len(s) - 1), NEW j \in 1..(Len(s) - 1), i < j
        PROVE  Tail(s)[i].guid < Tail(s)[j].guid
    <3>1. i + 1 < j + 1
      BY <1>1, <2>1
    <3>2. QED
      BY <1>1, <1>2, <3>1 DEF Rising
  <2>2. QED
    BY <1>1, <2>1 DEF Rising
<1>4. ASSUME NEW y \in Range(Tail(s)) PROVE Head(s).guid < y.guid
  <2>1. PICK i \in 1..(Len(s) - 1) : y = Tail(s)[i]
    BY <1>1 DEF Range
  <2>2. QED
    BY <1>1, <1>2, <2>1 DEF Rising
<1>5. QED
  BY <1>3, <1>4

LEMMA NothingRises == Rising(<<>>)
BY DEF Rising

\* Requests under way are numbered, with guids given out.
LEMMA Numbered ==
  ASSUME IInv
  PROVE  /\ queue \in Seq(Requests) /\ wlist \in Seq(Requests) /\ c2s \in Seq(Requests)
         /\ \A x \in Range(queue) \cup Range(wlist) \cup Range(c2s) :
              x.guid \in Nat /\ x.guid <= guid
         /\ guid \in Nat /\ arrived \in Seq(Nat)
<1>1. \A x \in Range(queue) \cup Range(wlist) \cup Range(c2s) : x \in InFlight
  BY DEF InFlight
<1>2. QED
  BY <1>1, InFlightTyped DEF IInv, TypeOK, GivenOut

LEMMA OrderCallMethod ==
  ASSUME IInv, OrderInv, NEW c \in Calls, CallMethod(c)
  PROVE  OrderInv'
<1> DEFINE r == Packet(guid + 1, TRUE, c)
<1>1. r \in Requests /\ r.guid = guid + 1
  BY Numbered DEF Packet, Requests
<1> HIDE DEF r
<1>2. \A x \in Range(queue) \cup Range(wlist) \cup Range(c2s) : x.guid < r.guid
  BY <1>1, Numbered
<1>3. \A i \in DOMAIN arrived : arrived[i] \in Nat /\ arrived[i] <= guid
  BY Numbered DEF OrderInv
<1>4. UNCHANGED <<c2s, arrived>>
  BY DEF CallMethod, wire
<1>5. CASE PushRequestToQueue(c) /\ UNCHANGED wlist /\ status' # "CONNECTED"
  <2>1. queue' = Append(queue, r) /\ guid' = guid + 1
    BY <1>5 DEF PushRequestToQueue, AllocateGuid, r
  <2>2. Range(queue') = Range(queue) \cup {r}
    BY <1>1, <2>1, Numbered, RangeAppend
  <2>3. Rising(queue)'
    <3>1. Rising(Append(queue, r))
      BY <1>1, <1>2, Numbered, RisingAppend DEF OrderInv
    <3>2. QED
      BY <2>1, <3>1 DEF Rising
  <2>4. (Below(c2s, queue) /\ Below(wlist, queue) /\ ReadBefore(queue))'
    BY <1>1, <1>2, <1>3, <1>4, <1>5, <2>2, Numbered DEF OrderInv, Below, ReadBefore
  <2>5. \A i \in DOMAIN arrived' : arrived'[i] <= guid'
    BY <1>3, <1>4, <2>1, Numbered
  <2>6. QED
    BY <1>4, <1>5, <2>3, <2>4, <2>5 DEF OrderInv, Rising, Below, ReadBefore, InCallOrder
<1>6. CASE SendRequest(c) /\ UNCHANGED <<status, queue>> /\ status = "CONNECTED"
  <2>1. wlist' = Append(wlist, r) /\ guid' = guid + 1 /\ queue = <<>> /\ queue' = <<>>
    BY <1>6 DEF SendRequest, AllocateGuid, OrderInv, r
  <2>2. Range(wlist') = Range(wlist) \cup {r} /\ Range(queue') = {}
    BY <1>1, <2>1, Numbered, RangeAppend, RangeEmpty
  <2>3. Rising(wlist)'
    <3>1. Rising(Append(wlist, r))
      BY <1>1, <1>2, Numbered, RisingAppend DEF OrderInv
    <3>2. QED
      BY <2>1, <3>1 DEF Rising
  <2>4. (Below(c2s, wlist) /\ Below(wlist, queue) /\ ReadBefore(wlist))'
    BY <1>1, <1>2, <1>3, <1>4, <2>2, Numbered DEF OrderInv, Below, ReadBefore
  <2>5. \A i \in DOMAIN arrived' : arrived'[i] <= guid'
    BY <1>3, <1>4, <2>1, Numbered
  <2>6. QED
    BY <1>4, <1>6, <2>1, <2>3, <2>4, <2>5 DEF OrderInv, Rising, Below, ReadBefore, InCallOrder
<1>7. CASE UNCHANGED <<status, guid, queue, contexts, wlist>>
  BY <1>4, <1>7 DEF OrderInv, Rising, Below, ReadBefore, InCallOrder
<1>8. QED
  BY <1>5, <1>6, <1>7 DEF CallMethod

\* The queue joins write_list_ behind what was there.
LEMMA OrderOnConnect ==
  ASSUME IInv, OrderInv, OnConnect
  PROVE  OrderInv'
<1>1. wlist' = wlist \o queue /\ queue' = <<>> /\ UNCHANGED <<c2s, arrived, guid>>
  <2>1. SubSeq(queue, 1, Len(queue) - Len(<<>>)) = queue
    BY SubSeqFull DEF IInv, TypeOK
  <2>2. QED
    BY <2>1 DEF OnConnect, Flushed, wire
<1>2. Range(wlist') \subseteq Range(wlist) \cup Range(queue) /\ Range(queue') = {}
  BY <1>1, Numbered, RangeConcat, RangeEmpty
<1>3. Rising(wlist)' /\ Rising(queue)'
  <2>1. Rising(wlist \o queue)
    BY Numbered, RisingConcat DEF OrderInv
  <2>2. QED
    BY <1>1, <2>1 DEF Rising
<1>4. (/\ Below(c2s, wlist) /\ Below(c2s, queue) /\ Below(wlist, queue)
       /\ ReadBefore(queue) /\ ReadBefore(wlist))'
  BY <1>1, <1>2 DEF OrderInv, Below, ReadBefore
<1>5. QED
  BY <1>1, <1>3, <1>4 DEF OrderInv, Rising, ReadBefore, InCallOrder

\* The socket sends write_list_ behind what is under way.
LEMMA OrderClientOut ==
  ASSUME IInv, OrderInv, ClientOut
  PROVE  OrderInv'
<1>1. UNCHANGED <<queue, arrived, guid, status>>
  BY DEF ClientOut
<1>2. CASE link = "up"
  <2>1. c2s' = c2s \o wlist /\ wlist' = <<>>
    BY <1>2 DEF ClientOut
  <2>2. Range(c2s') \subseteq Range(c2s) \cup Range(wlist) /\ Range(wlist') = {}
    BY <2>1, Numbered, RangeConcat, RangeEmpty
  <2>3. Rising(c2s)' /\ Rising(wlist)'
    <3>1. Rising(c2s \o wlist)
      BY Numbered, RisingConcat DEF OrderInv
    <3>2. QED
      BY <2>1, <3>1 DEF Rising
  <2>4. (/\ Below(c2s, wlist) /\ Below(c2s, queue) /\ Below(wlist, queue)
         /\ ReadBefore(wlist) /\ ReadBefore(c2s))'
    BY <1>1, <2>2 DEF OrderInv, Below, ReadBefore
  <2>5. QED
    BY <1>1, <2>3, <2>4 DEF OrderInv, Rising, ReadBefore, InCallOrder
<1>3. CASE link # "up"
  BY <1>1, <1>3 DEF ClientOut, OrderInv, Rising, Below, ReadBefore, InCallOrder
<1>4. QED
  BY <1>2, <1>3

\* The session reads the first request under way, which has the smallest guid.
LEMMA OrderRunService ==
  ASSUME IInv, OrderInv, RunService
  PROVE  OrderInv'
<1> DEFINE g == Head(c2s).guid
<1>1. /\ c2s # <<>> /\ c2s' = Tail(c2s) /\ arrived' = Append(arrived, g)
      /\ UNCHANGED <<queue, wlist, guid, status>>
  BY DEF RunService, client
<1>2. /\ Head(c2s) \in Range(c2s) /\ Range(c2s') \subseteq Range(c2s)
      /\ Head(c2s) \in Requests
  BY <1>1, Numbered, RangeHeadTail
<1>3. Rising(c2s)' /\ \A y \in Range(c2s') : g < y.guid
  <2>1. Rising(Tail(c2s)) /\ \A y \in Range(Tail(c2s)) : g < y.guid
    BY <1>1, Numbered, RisingTail DEF OrderInv
  <2>2. QED
    BY <1>1, <2>1 DEF Rising
<1>4. g \in Nat /\ g <= guid
  BY <1>2, Numbered
<1>5. /\ \A y \in Range(wlist) \cup Range(queue) : g < y.guid
      /\ \A i \in DOMAIN arrived : arrived[i] < g
  BY <1>2 DEF OrderInv, Below, ReadBefore
<1> HIDE DEF g
<1>6. /\ DOMAIN arrived = 1..Len(arrived) /\ DOMAIN arrived' = 1..(Len(arrived) + 1)
      /\ Len(arrived) \in Nat /\ arrived'[Len(arrived) + 1] = g
      /\ \A i \in 1..Len(arrived) : arrived'[i] = arrived[i]
  BY <1>1, <1>4, Numbered, AppendProperties
<1>7. \A i \in DOMAIN arrived' :
        \/ (i \in DOMAIN arrived) /\ (arrived'[i] = arrived[i])
        \/ (i = Len(arrived) + 1) /\ (arrived'[i] = g)
  BY <1>6
<1>8. (ReadBefore(queue) /\ ReadBefore(wlist) /\ ReadBefore(c2s))'
  BY <1>1, <1>2, <1>3, <1>5, <1>7 DEF OrderInv, ReadBefore
<1>9. \A i \in DOMAIN arrived' : arrived'[i] <= guid'
  BY <1>1, <1>4, <1>7 DEF OrderInv
<1>10. InCallOrder'
  <2>1. ASSUME NEW i \in DOMAIN arrived', NEW j \in DOMAIN arrived', i < j
        PROVE  arrived'[i] < arrived'[j]
    <3>1. i \in 1..Len(arrived)
      BY <1>6, <2>1
    <3>2. QED
      BY <1>5, <1>6, <1>7, <2>1, <3>1 DEF OrderInv, InCallOrder
  <2>2. QED
    BY <2>1 DEF InCallOrder
<1>11. (Below(c2s, wlist) /\ Below(c2s, queue))'
  BY <1>1, <1>2 DEF OrderInv, Below
<1>12. QED
  BY <1>1, <1>3, <1>8, <1>9, <1>10, <1>11 DEF OrderInv, Rising, Below

LEMMA OrderLose ==
  ASSUME IInv, OrderInv, Lose
  PROVE  OrderInv'
<1>1. UNCHANGED <<queue, wlist, guid, status, arrived>> /\ c2s' \in {c2s, <<>>}
  BY DEF Lose, client
<1>2. Rising(c2s)' /\ Range(c2s') \subseteq Range(c2s)
  <2>1. CASE c2s' = c2s
    BY <2>1 DEF OrderInv, Rising
  <2>2. CASE c2s' = <<>>
    BY <2>2, RangeEmpty DEF Rising
  <2>3. QED
    BY <1>1, <2>1, <2>2
<1>3. QED
  BY <1>1, <1>2 DEF OrderInv, Rising, Below, ReadBefore, InCallOrder

LEMMA OrderInit == Init => OrderInv
BY NothingRises, RangeEmpty DEF Init, OrderInv, Below, ReadBefore, InCallOrder

LEMMA OrderNext == IInv /\ OrderInv /\ [Next]_vars => OrderInv'
<1> SUFFICES ASSUME IInv, OrderInv, [Next]_vars PROVE OrderInv'
  OBVIOUS
<1>1. ASSUME NEW c \in Calls, CallMethod(c) PROVE OrderInv'
  BY <1>1, OrderCallMethod
<1>2. CASE OnConnect \/ ClientOut \/ RunService \/ Lose
  BY <1>2, OrderOnConnect, OrderClientOut, OrderRunService, OrderLose
<1>3. ASSUME UNCHANGED <<queue, wlist, c2s, arrived, guid, status>> PROVE OrderInv'
  BY <1>3 DEF OrderInv, Rising, Below, ReadBefore, InCallOrder
<1>4. CASE OnRead
  BY <1>3, <1>4, OnReadFacts
<1>5. CASE ClientIn \/ OnReadEnds
  BY <1>3, <1>5 DEF ClientIn, OnReadEnds, wire, server
<1>6. ASSUME NEW p \in serving, OnResponse(p) PROVE OrderInv'
  BY <1>3, <1>6 DEF OnResponse, client
<1>7. ASSUME NEW d \in SessionCalls, SessionCallMethod(d) PROVE OrderInv'
  BY <1>3, <1>7 DEF SessionCallMethod, client
<1>8. CASE UNCHANGED vars
  BY <1>3, <1>8 DEF vars, client, wire
<1>9. QED
  BY <1>1, <1>2, <1>4, <1>5, <1>6, <1>7, <1>8 DEF Next, Client, Server

\* The session reads requests in the order in which the calls were made,
\* whether they waited in packet_queue_, in write_list_ or on the wire.
THEOREM Ordered == Spec => []InCallOrder
<1>1. OrderInv => InCallOrder
  BY DEF OrderInv
<1>2. QED
  BY <1>1, OrderInit, OrderNext, Matched, PTL DEF Spec

----------------------------------------------------------------------------
(* Where each call of the channel is.                                      *)

LEMMA GuidsAppend ==
  ASSUME NEW S, NEW q \in Seq(S), NEW e \in S
  PROVE  /\ e.body \notin Calls =>
              Guids(Append(q, e)) = Guids(q) /\ (NoTwice(q) => NoTwice(Append(q, e)))
         /\ e.body \in Calls =>
              /\ Guids(Append(q, e)) = Guids(q) \cup {e.guid}
              /\ NoTwice(q) /\ e.guid \notin Guids(q) => NoTwice(Append(q, e))
<1>1. /\ DOMAIN Append(q, e) = 1..(Len(q) + 1) /\ DOMAIN q = 1..Len(q) /\ Len(q) \in Nat
      /\ \A i \in 1..Len(q) : Append(q, e)[i] = q[i]
      /\ Append(q, e)[Len(q) + 1] = e
  BY AppendProperties
<1>2. \A i \in 1..(Len(q) + 1) : i \in 1..Len(q) \/ i = Len(q) + 1
  BY <1>1
<1>3. Range(Append(q, e)) = Range(q) \cup {e}
  BY RangeAppend
<1>4. \A i \in 1..Len(q) : q[i].body \in Calls => q[i].guid \in Guids(q)
  BY <1>1 DEF Guids, Range
<1>5. CASE e.body \notin Calls
  <2>1. Guids(Append(q, e)) = Guids(q)
    BY <1>3, <1>5 DEF Guids
  <2>2. NoTwice(q) => NoTwice(Append(q, e))
    BY <1>1, <1>2, <1>5 DEF NoTwice
  <2>3. QED
    BY <1>5, <2>1, <2>2
<1>6. CASE e.body \in Calls
  <2>1. Guids(Append(q, e)) = Guids(q) \cup {e.guid}
    BY <1>3, <1>6 DEF Guids
  <2>2. NoTwice(q) /\ e.guid \notin Guids(q) => NoTwice(Append(q, e))
    BY <1>1, <1>2, <1>4 DEF NoTwice
  <2>3. QED
    BY <1>6, <2>1, <2>2
<1>7. QED
  BY <1>5, <1>6

LEMMA GuidsConcat ==
  ASSUME NEW S, NEW q \in Seq(S), NEW t \in Seq(S)
  PROVE  /\ Guids(q \o t) = Guids(q) \cup Guids(t)
         /\ NoTwice(q) /\ NoTwice(t) /\ Guids(q) \cap Guids(t) = {} => NoTwice(q \o t)
<1>1. /\ DOMAIN (q \o t) = 1..(Len(q) + Len(t))
      /\ DOMAIN q = 1..Len(q) /\ DOMAIN t = 1..Len(t) /\ Len(q) \in Nat /\ Len(t) \in Nat
      /\ \A i \in 1..(Len(q) + Len(t)) :
           (q \o t)[i] = IF i <= Len(q) THEN q[i] ELSE t[i - Len(q)]
  BY ConcatProperties
<1>2. \A i \in 1..(Len(q) + Len(t)) :
        \/ i \in 1..Len(q) /\ (q \o t)[i] = q[i]
        \/ i - Len(q) \in 1..Len(t) /\ (q \o t)[i] = t[i - Len(q)]
  BY <1>1
<1>3. Guids(q \o t) = Guids(q) \cup Guids(t)
  BY RangeConcat DEF Guids
<1>4. /\ \A i \in 1..Len(q) : q[i].body \in Calls => q[i].guid \in Guids(q)
      /\ \A i \in 1..Len(t) : t[i].body \in Calls => t[i].guid \in Guids(t)
  BY <1>1 DEF Guids, Range
<1>5. ASSUME NoTwice(q), NoTwice(t), Guids(q) \cap Guids(t) = {},
             NEW i \in 1..(Len(q) + Len(t)), NEW j \in 1..(Len(q) + Len(t)),
             (q \o t)[i].body \in Calls, (q \o t)[j].body \in Calls,
             (q \o t)[i].guid = (q \o t)[j].guid
      PROVE  i = j
  <2>1. CASE i \in 1..Len(q) /\ (q \o t)[i] = q[i]
    <3>1. CASE j \in 1..Len(q) /\ (q \o t)[j] = q[j]
      BY <1>1, <1>5, <2>1, <3>1 DEF NoTwice
    <3>2. CASE j - Len(q) \in 1..Len(t) /\ (q \o t)[j] = t[j - Len(q)]
      BY <1>4, <1>5, <2>1, <3>2
    <3>3. QED
      BY <1>2, <3>1, <3>2
  <2>2. CASE i - Len(q) \in 1..Len(t) /\ (q \o t)[i] = t[i - Len(q)]
    <3>1. CASE j \in 1..Len(q) /\ (q \o t)[j] = q[j]
      BY <1>4, <1>5, <2>2, <3>1
    <3>2. CASE j - Len(q) \in 1..Len(t) /\ (q \o t)[j] = t[j - Len(q)]
      <4>1. i - Len(q) = j - Len(q)
        BY <1>1, <1>5, <2>2, <3>2 DEF NoTwice
      <4>2. QED
        BY <1>1, <4>1
    <3>3. QED
      BY <1>2, <3>1, <3>2
  <2>3. QED
    BY <1>2, <2>1, <2>2
<1>6. QED
  BY <1>1, <1>3, <1>5 DEF NoTwice

LEMMA GuidsTail ==
  ASSUME NEW S, NEW q \in Seq(S), q # <<>>, NoTwice(q)
  PROVE  /\ NoTwice(Tail(q)) /\ Guids(Tail(q)) \subseteq Guids(q)
         /\ Head(q).body \notin Calls => Guids(Tail(q)) = Guids(q)
         /\ Head(q).body \in Calls =>
              Guids(Tail(q)) = Guids(q) \ {Head(q).guid} /\ Head(q).guid \in Guids(q)
<1>1. /\ Head(q) = q[1] /\ Len(q) \in Nat \ {0} /\ DOMAIN q = 1..Len(q)
      /\ DOMAIN Tail(q) = 1..(Len(q) - 1)
      /\ \A i \in 1..(Len(q) - 1) : Tail(q)[i] = q[i + 1]
  BY EmptySeq, HeadTailProperties
<1>2. 1 \in 1..Len(q) /\ \A i \in 1..(Len(q) - 1) : i + 1 \in 1..Len(q) /\ i + 1 # 1
  BY <1>1
<1>3. NoTwice(Tail(q))
  <2>1. ASSUME NEW i \in 1..(Len(q) - 1), NEW j \in 1..(Len(q) - 1), q[i + 1].body \in Calls,
               q[j + 1].body \in Calls, q[i + 1].guid = q[j + 1].guid
        PROVE  i = j
    <3>1. i + 1 = j + 1
      BY <1>1, <1>2, <2>1 DEF NoTwice
    <3>2. QED
      BY <1>1, <3>1
  <2>2. QED
    BY <1>1, <2>1 DEF NoTwice
<1>4. Range(q) = Range(Tail(q)) \cup {Head(q)}
  BY RangeHeadTail
<1>5. \A x \in Range(Tail(q)) : \E i \in 1..(Len(q) - 1) : x = q[i + 1]
  BY <1>1 DEF Range
<1>6. Head(q).body \in Calls => Head(q).guid \notin Guids(Tail(q))
  BY <1>1, <1>2, <1>5 DEF Guids, NoTwice
<1>7. Guids(q) = Guids(Tail(q)) \cup (IF Head(q).body \in Calls THEN {Head(q).guid} ELSE {})
  BY <1>4 DEF Guids
<1>8. QED
  BY <1>3, <1>6, <1>7

LEMMA GuidsEmpty == Guids(<<>>) = {} /\ NoTwice(<<>>)
BY DEF Guids, Range, NoTwice

Places == {"queue", "wlist", "c2s", "serving", "s2c", "rlist"}

\* The conjuncts of Accounted, of what H says is in each place and of the
\* contexts cs.
Single ==
  /\ NoTwice(queue) /\ NoTwice(wlist) /\ NoTwice(c2s) /\ NoTwice(s2c) /\ NoTwice(rlist)
  /\ \A p, q \in serving : p.guid = q.guid => p = q
Apart(H) == \A s, t \in Places : s # t => H[s] \cap H[t] = {}
Known(H, cs) == \A s \in Places : H[s] \subseteq {x.guid : x \in cs}
Complete(H, cs) ==
  \A x \in cs : Kind[x.call] \in {"good", "badreply"} => \E s \in Places : x.guid \in H[s]

LEMMA HeldIn ==
  /\ Held["queue"] = Guids(queue) /\ Held["wlist"] = Guids(wlist) /\ Held["c2s"] = Guids(c2s)
  /\ Held["serving"] = {p.guid : p \in serving}
  /\ Held["s2c"] = Guids(s2c) /\ Held["rlist"] = Guids(rlist)
  /\ Held'["queue"] = Guids(queue') /\ Held'["wlist"] = Guids(wlist')
  /\ Held'["c2s"] = Guids(c2s') /\ Held'["serving"] = {p.guid : p \in serving'}
  /\ Held'["s2c"] = Guids(s2c') /\ Held'["rlist"] = Guids(rlist')
  /\ DOMAIN Held = Places /\ DOMAIN Held' = Places
BY DEF Held, Guids, Places

LEMMA Parts ==
  /\ Accounted => /\ Single /\ Apart(Held) /\ Known(Held, contexts)
                  /\ link = "up" => Complete(Held, contexts)
  /\ Single' /\ Apart(Held') /\ Known(Held', contexts')
     /\ (link' = "up" => Complete(Held', contexts')) => Accounted'
BY HeldIn DEF Accounted, Single, Apart, Known, Complete

\* Guids M go from one place to another.
LEMMA HeldMoves ==
  ASSUME NEW H, NEW T, NEW cs, NEW a \in Places, NEW b \in Places, a # b, NEW M, M \subseteq H[a],
         T[a] = H[a] \ M, T[b] = H[b] \cup M, \A s \in Places \ {a, b} : T[s] = H[s],
         Apart(H), Known(H, cs)
  PROVE  Apart(T) /\ Known(T, cs) /\ (Complete(H, cs) => Complete(T, cs))
<1>1. \A s \in Places : \A g \in T[s] : g \in H[s] \/ (s = b /\ g \in M /\ g \in H[a])
  OBVIOUS
<1>2. Apart(T)
  <2>1. ASSUME NEW s \in Places, NEW t \in Places, s # t, NEW g, g \in T[s], g \in T[t] PROVE FALSE
    <3>1. CASE g \in M
      <4>1. g \notin T[a] /\ \A u \in Places : g \in H[u] => u = a
        BY <3>1 DEF Apart
      <4>2. s = b /\ t = b
        BY <1>1, <2>1, <3>1, <4>1
      <4>3. QED
        BY <2>1, <4>2
    <3>2. CASE g \notin M
      BY <1>1, <2>1, <3>2 DEF Apart
    <3>3. QED
      BY <3>1, <3>2
  <2>2. QED
    BY <2>1 DEF Apart
<1>3. Known(T, cs)
  BY <1>1 DEF Known
<1>4. Complete(H, cs) => Complete(T, cs)
  <2>1. ASSUME NEW s \in Places, NEW g \in H[s] PROVE \E t \in Places : g \in T[t]
    BY <2>1
  <2>2. QED
    BY <2>1 DEF Complete
<1>5. QED
  BY <1>2, <1>3, <1>4

LEMMA HeldMoved ==
  ASSUME Accounted, Single', NEW a \in Places, NEW b \in Places, a # b, NEW M, M \subseteq Held[a],
         Held'[a] = Held[a] \ M, Held'[b] = Held[b] \cup M,
         \A s \in Places \ {a, b} : Held'[s] = Held[s],
         contexts' = contexts, link' = "up" => link = "up"
  PROVE  Accounted'
<1>1. Apart(Held) /\ Known(Held, contexts) /\ (link = "up" => Complete(Held, contexts))
  BY Parts
<1>2. /\ Apart(Held') /\ Known(Held', contexts)
      /\ Complete(Held, contexts) => Complete(Held', contexts)
  BY <1>1, HeldMoves
<1>3. QED
  BY <1>1, <1>2, Parts

LEMMA HeldSame ==
  ASSUME Accounted, Single', \A s \in Places : Held'[s] = Held[s], contexts' = contexts,
         link' = "up" => link = "up"
  PROVE  Accounted'
BY Parts DEF Apart, Known, Complete

\* Guids are dropped, and no call that would succeed with them.
LEMMA HeldFewer ==
  ASSUME Accounted, Single', \A s \in Places : Held'[s] \subseteq Held[s], contexts' = contexts,
         link' = "up" => Complete(Held', contexts)
  PROVE  Accounted'
<1>1. Apart(Held')
  BY Parts DEF Apart
<1>2. Known(Held', contexts')
  BY Parts DEF Known
<1>3. QED
  BY <1>1, <1>2, Parts

\* A new call is in place a.
LEMMA HeldNew ==
  ASSUME IInv, Accounted, Single', NEW c \in Calls, NEW a \in Places,
         contexts' = PutContext(contexts, guid + 1, c), link' = link,
         Held'[a] = Held[a] \cup {guid + 1}, \A s \in Places \ {a} : Held'[s] = Held[s]
  PROVE  Accounted'
<1> DEFINE g == guid + 1  k == [guid |-> guid + 1, call |-> c]
<1>1. \A x \in contexts : x.guid # g
  BY DEF IInv, TypeOK, GivenOut
<1>2. contexts' = contexts \cup {k} /\ k.guid = g
  BY <1>1 DEF PutContext
<1> HIDE DEF k
<1>3. /\ g \in {x.guid : x \in contexts'} /\ {x.guid : x \in contexts} \subseteq {x.guid : x \in contexts'}
      /\ \A x \in contexts' : x \in contexts \/ x.guid = g
  BY <1>2
<1>4. \A s \in Places : g \notin Held[s]
  BY <1>1, Parts DEF Known
<1> HIDE DEF g
<1>5. \A s \in Places : \A h \in Held'[s] : h \in Held[s] \/ (s = a /\ h = g)
  BY DEF g
<1>6. Apart(Held')
  BY <1>4, <1>5, Parts DEF Apart
<1>7. Known(Held', contexts')
  <2>1. ASSUME NEW s \in Places, NEW h \in Held'[s] PROVE h \in {x.guid : x \in contexts'}
    <3>1. h \in Held[s] \/ h = g
      BY <1>5
    <3>2. Held[s] \subseteq {x.guid : x \in contexts}
      BY Parts DEF Known
    <3>3. QED
      BY <1>3, <3>1, <3>2
  <2>2. QED
    BY <2>1 DEF Known
<1>8. link' = "up" => Complete(Held', contexts')
  <2>1. \A s \in Places : Held[s] \subseteq Held'[s]
    OBVIOUS
  <2>2. g \in Held'[a]
    BY DEF g
  <2>3. QED
    BY <1>3, <2>1, <2>2, Parts DEF Complete
<1>9. QED
  BY <1>6, <1>7, <1>8, Parts

LEMMA HeldCallMethod ==
  ASSUME IInv, Accounted, NEW c \in Calls, CallMethod(c)
  PROVE  Accounted'
<1> DEFINE r == Packet(guid + 1, TRUE, c)
<1>1. r \in Requests /\ r.guid = guid + 1 /\ r.body = c
  BY DEF Packet, Requests, IInv, TypeOK
<1> HIDE DEF r
<1>2. UNCHANGED <<rlist, link, c2s, s2c, serving>>
  BY DEF CallMethod, wire, server
<1>3. Single /\ Known(Held, contexts)
  BY Parts
<1>4. \A s \in Places : guid + 1 \notin Held[s]
  <2>1. \A x \in contexts : x.guid # guid + 1
    BY DEF IInv, TypeOK, GivenOut
  <2>2. QED
    BY <1>3, <2>1 DEF Known
<1>5. CASE PushRequestToQueue(c) /\ UNCHANGED wlist
  <2>1. queue' = Append(queue, r) /\ contexts' = PutContext(contexts, guid + 1, c)
    BY <1>5 DEF PushRequestToQueue, AllocateGuid, r
  <2>2. guid + 1 \notin Guids(queue)
    BY <1>4, HeldIn DEF Places
  <2>3. Guids(queue') = Guids(queue) \cup {guid + 1} /\ NoTwice(queue')
    BY <1>1, <1>3, <2>1, <2>2, Numbered, GuidsAppend DEF Single
  <2>4. /\ "queue" \in Places /\ Held'["queue"] = Held["queue"] \cup {guid + 1}
        /\ \A s \in Places \ {"queue"} : Held'[s] = Held[s]
    BY <1>2, <1>5, <2>3, HeldIn DEF Places
  <2>5. Single'
    BY <1>2, <1>3, <1>5, <2>3 DEF Single, NoTwice
  <2>6. QED
    BY <1>2, <2>1, <2>4, <2>5, HeldNew
<1>6. CASE SendRequest(c) /\ UNCHANGED queue
  <2>1. wlist' = Append(wlist, r) /\ contexts' = PutContext(contexts, guid + 1, c)
    BY <1>6 DEF SendRequest, AllocateGuid, r
  <2>2. guid + 1 \notin Guids(wlist)
    BY <1>4, HeldIn DEF Places
  <2>3. Guids(wlist') = Guids(wlist) \cup {guid + 1} /\ NoTwice(wlist')
    BY <1>1, <1>3, <2>1, <2>2, Numbered, GuidsAppend DEF Single
  <2>4. /\ "wlist" \in Places /\ Held'["wlist"] = Held["wlist"] \cup {guid + 1}
        /\ \A s \in Places \ {"wlist"} : Held'[s] = Held[s]
    BY <1>2, <1>6, <2>3, HeldIn DEF Places
  <2>5. Single'
    BY <1>2, <1>3, <1>6, <2>3 DEF Single, NoTwice
  <2>6. QED
    BY <1>2, <2>1, <2>4, <2>5, HeldNew
<1>7. CASE UNCHANGED <<queue, contexts, wlist>>
  <2>1. (\A s \in Places : Held'[s] = Held[s]) /\ Single'
    BY <1>2, <1>3, <1>7, HeldIn DEF Places, Single, NoTwice
  <2>2. QED
    BY <1>2, <1>7, <2>1, HeldSame
<1>8. QED
  BY <1>5, <1>6, <1>7 DEF CallMethod

\* One sequence is emptied behind another.
LEMMA Spliced ==
  ASSUME Accounted, NEW S, NEW q \in Seq(S), NEW t \in Seq(S), NoTwice(q), NoTwice(t),
         NEW a \in Places, NEW b \in Places, a # b, Held[a] = Guids(q), Held[b] = Guids(t)
  PROVE  /\ Guids(t \o q) = Held[b] \cup Held[a] /\ NoTwice(t \o q)
         /\ Guids(<<>>) = Held[a] \ Held[a] /\ NoTwice(<<>>)
<1>1. Guids(q) \cap Guids(t) = {}
  BY Parts DEF Apart
<1>2. QED
  BY <1>1, GuidsConcat, GuidsEmpty

LEMMA HeldOnConnect ==
  ASSUME IInv, Accounted, OnConnect
  PROVE  Accounted'
<1>1. wlist' = wlist \o queue /\ queue' = <<>> /\ UNCHANGED <<c2s, s2c, rlist, serving, contexts, link>>
  <2>1. SubSeq(queue, 1, Len(queue) - Len(<<>>)) = queue
    BY SubSeqFull DEF IInv, TypeOK
  <2>2. QED
    BY <2>1 DEF OnConnect, Flushed, wire, server
<1>2. Single
  BY Parts
<1>3. "queue" \in Places /\ "wlist" \in Places
  BY DEF Places
<1>4. /\ Guids(wlist') = Guids(wlist) \cup Guids(queue) /\ NoTwice(wlist')
      /\ Guids(queue') = Guids(queue) \ Guids(queue) /\ NoTwice(queue')
  BY <1>1, <1>2, <1>3, Numbered, HeldIn, Spliced DEF Single
<1>5. \A s \in Places \ {"queue", "wlist"} : Held'[s] = Held[s]
  BY <1>1, HeldIn DEF Places
<1>6. /\ Held'["queue"] = Held["queue"] \ Held["queue"]
      /\ Held'["wlist"] = Held["wlist"] \cup Held["queue"]
  BY <1>4, HeldIn
<1>7. Single'
  BY <1>1, <1>2, <1>4 DEF Single, NoTwice
<1>8. QED
  BY <1>1, <1>3, <1>5, <1>6, <1>7, HeldMoved

LEMMA HeldClientOut ==
  ASSUME IInv, Accounted, ClientOut
  PROVE  Accounted'
<1>1. UNCHANGED <<queue, s2c, rlist, serving, contexts>>
  BY DEF ClientOut, server
<1>2. Single
  BY Parts
<1>3. CASE link = "up"
  <2>1. c2s' = c2s \o wlist /\ wlist' = <<>> /\ link' = link
    BY <1>3 DEF ClientOut
  <2>2. "wlist" \in Places /\ "c2s" \in Places
    BY DEF Places
  <2>3. /\ Guids(c2s') = Guids(c2s) \cup Guids(wlist) /\ NoTwice(c2s')
        /\ Guids(wlist') = Guids(wlist) \ Guids(wlist) /\ NoTwice(wlist')
    BY <1>2, <2>1, <2>2, Numbered, HeldIn, Spliced DEF Single
  <2>4. \A s \in Places \ {"wlist", "c2s"} : Held'[s] = Held[s]
    BY <1>1, HeldIn DEF Places
  <2>5. /\ Held'["wlist"] = Held["wlist"] \ Held["wlist"]
        /\ Held'["c2s"] = Held["c2s"] \cup Held["wlist"]
    BY <2>3, HeldIn
  <2>6. Single'
    BY <1>1, <1>2, <2>3 DEF Single, NoTwice
  <2>7. QED
    BY <1>1, <1>3, <2>1, <2>2, <2>4, <2>5, <2>6, HeldMoved
<1>4. CASE link # "up"
  <2>1. UNCHANGED <<c2s, wlist>> /\ link' # "up"
    BY <1>4 DEF ClientOut
  <2>2. (\A s \in Places : Held'[s] = Held[s]) /\ Single'
    BY <1>1, <1>2, <2>1, HeldIn DEF Places, Single, NoTwice
  <2>3. QED
    BY <1>1, <2>1, <2>2, HeldSame
<1>5. QED
  BY <1>3, <1>4

LEMMA HeldClientIn ==
  ASSUME IInv, Accounted, ClientIn
  PROVE  Accounted'
<1>1. /\ rlist' = rlist \o s2c /\ s2c' = <<>> /\ (link' = "up" => link = "up")
      /\ UNCHANGED <<queue, wlist, c2s, serving, contexts>>
  BY DEF ClientIn, server
<1>2. Single /\ "s2c" \in Places /\ "rlist" \in Places
  BY Parts DEF Places
<1>3. /\ Guids(rlist') = Guids(rlist) \cup Guids(s2c) /\ NoTwice(rlist')
      /\ Guids(s2c') = Guids(s2c) \ Guids(s2c) /\ NoTwice(s2c')
  <2>1. s2c \in Seq(Replies \cup SessionRequests) /\ rlist \in Seq(Replies \cup SessionRequests)
    BY DEF IInv, TypeOK
  <2> DEFINE S == Replies \cup SessionRequests
  <2>2. s2c \in Seq(S) /\ rlist \in Seq(S)
    BY <2>1
  <2> HIDE DEF S
  <2>3. QED
    BY <1>1, <1>2, <2>2, HeldIn, Spliced DEF Single
<1>4. \A s \in Places \ {"s2c", "rlist"} : Held'[s] = Held[s]
  BY <1>1, HeldIn DEF Places
<1>5. /\ Held'["s2c"] = Held["s2c"] \ Held["s2c"]
      /\ Held'["rlist"] = Held["rlist"] \cup Held["s2c"]
  BY <1>3, HeldIn
<1>6. Single'
  BY <1>1, <1>2, <1>3 DEF Single, NoTwice
<1>7. QED
  BY <1>1, <1>2, <1>4, <1>5, <1>6, HeldMoved

\* A response and its context go together; requests of the session go alone.
LEMMA HeldOnRead ==
  ASSUME IInv, Accounted, OnRead
  PROVE  Accounted'
<1> DEFINE S == Replies \cup SessionRequests
<1>1. /\ rlist \in Seq(S) /\ rlist # <<>> /\ rlist' = Tail(rlist)
      /\ UNCHANGED <<queue, wlist, c2s, s2c, serving, link>>
  BY DEF OnRead, wire, server, IInv, TypeOK
<1>2. Head(rlist) \in S
  BY <1>1, RangeHeadTail
<1> DEFINE p == Head(rlist)
<1>3. \/ p.method = FALSE /\ p.body \in Calls
      \/ p.method = TRUE /\ p.body \notin Calls
  BY <1>2, RpcAssumption DEF Replies, SessionRequests
<1> HIDE DEF S
<1>4. Single
  BY Parts
<1>5. /\ NoTwice(rlist')
      /\ p.body \notin Calls => Guids(rlist') = Guids(rlist)
      /\ p.body \in Calls => Guids(rlist') = Guids(rlist) \ {p.guid} /\ p.guid \in Guids(rlist)
  BY <1>1, <1>4, GuidsTail DEF Single
<1>6. Single'
  BY <1>1, <1>4, <1>5 DEF Single, NoTwice
<1>7. CASE p.method = TRUE /\ p.body \notin Calls
  <2>1. contexts' = contexts
    BY <1>7 DEF OnRead, IsRequest
  <2>2. \A s \in Places : Held'[s] = Held[s]
    BY <1>1, <1>5, <1>7, HeldIn DEF Places
  <2>3. QED
    BY <1>1, <1>6, <2>1, <2>2, HeldSame
<1>8. CASE p.method = FALSE /\ p.body \in Calls
  <2> DEFINE g == p.guid
  <2>1. "rlist" \in Places /\ g \in Held["rlist"] /\ Held'["rlist"] = Held["rlist"] \ {g}
    BY <1>5, <1>8, HeldIn DEF Places
  <2>2. \A s \in Places \ {"rlist"} : Held'[s] = Held[s] /\ g \notin Held[s]
    <3>1. \A s \in Places \ {"rlist"} : g \notin Held[s]
      BY <2>1, Parts DEF Apart
    <3>2. QED
      BY <1>1, <3>1, HeldIn DEF Places
  <2>3. contexts' = {x \in contexts : x.guid # g}
    <3>1. \E x \in contexts : x.guid = g
      BY <2>1, Parts DEF Known
    <3>2. QED
      BY <1>8, <3>1 DEF OnRead, IsRequest, Erase
  <2> HIDE DEF g
  <2>4. \A s \in Places : Held'[s] = Held[s] \ {g}
    BY <2>1, <2>2
  <2>5. Apart(Held')
    BY <2>4, Parts DEF Apart
  <2>6. Known(Held', contexts')
    <3>1. ASSUME NEW s \in Places, NEW h \in Held'[s] PROVE h \in {x.guid : x \in contexts'}
      <4>1. h # g /\ h \in {x.guid : x \in contexts}
        BY <2>4, Parts DEF Known
      <4>2. QED
        BY <2>3, <4>1
    <3>2. QED
      BY <3>1 DEF Known
  <2>7. link' = "up" => Complete(Held', contexts')
    BY <1>1, <2>3, <2>4, Parts DEF Complete
  <2>8. QED
    BY <1>6, <2>5, <2>6, <2>7, Parts
<1>9. QED
  BY <1>3, <1>7, <1>8

\* The session drops a request that names no method or does not parse.
LEMMA HeldRunService ==
  ASSUME IInv, Accounted, RunService
  PROVE  Accounted'
<1> DEFINE p == Head(c2s)
<1>1. /\ c2s \in Seq(Requests) /\ c2s # <<>> /\ c2s' = Tail(c2s)
      /\ serving' = serving \cup {q \in {p} : Served(q.body)}
      /\ UNCHANGED <<queue, wlist, s2c, rlist, contexts, link>>
  BY DEF RunService, client, IInv, TypeOK
<1>2. p \in Requests /\ p \in Range(c2s) /\ p.body \in Calls
  <2>1. p \in Requests /\ p \in Range(c2s)
    BY <1>1, RangeHeadTail
  <2>2. QED
    BY <2>1 DEF Requests
<1>3. Single /\ "c2s" \in Places /\ "serving" \in Places
  BY Parts DEF Places
<1>4. NoTwice(c2s') /\ Guids(c2s') = Guids(c2s) \ {p.guid} /\ p.guid \in Guids(c2s)
  BY <1>1, <1>2, <1>3, GuidsTail DEF Single
<1>5. \A q \in serving : q.guid # p.guid
  <2>1. p.guid \notin Held["serving"]
    BY <1>3, <1>4, HeldIn, Parts DEF Apart
  <2>2. QED
    BY <2>1, HeldIn
<1>6. \A s \in Places \ {"c2s", "serving"} : Held'[s] = Held[s]
  BY <1>1, HeldIn DEF Places
<1>7. CASE Served(p.body)
  <2>1. serving' = serving \cup {p}
    BY <1>1, <1>7
  <2>2. {q.guid : q \in serving'} = {q.guid : q \in serving} \cup {p.guid}
    BY <2>1
  <2>3. /\ {p.guid} \subseteq Held["c2s"] /\ Held'["c2s"] = Held["c2s"] \ {p.guid}
        /\ Held'["serving"] = Held["serving"] \cup {p.guid}
    BY <1>4, <2>2, HeldIn
  <2>4. Single'
    BY <1>1, <1>3, <1>4, <1>5, <2>1 DEF Single, NoTwice
  <2>5. QED
    BY <1>1, <1>3, <1>6, <2>3, <2>4, HeldMoved
<1>8. CASE ~Served(p.body)
  <2>1. serving' = serving
    BY <1>1, <1>8
  <2>2. Held'["c2s"] = Held["c2s"] \ {p.guid} /\ Held'["serving"] = Held["serving"]
    BY <1>4, <2>1, HeldIn
  <2>3. \A s \in Places : Held'[s] \subseteq Held[s] /\ Held[s] \ {p.guid} \subseteq Held'[s]
    BY <1>6, <2>2
  <2>4. Single'
    BY <1>1, <1>3, <1>4, <2>1 DEF Single, NoTwice
  <2>5. \A x \in contexts : x.guid = p.guid => Kind[x.call] \notin {"good", "badreply"}
    <3>1. p \in InFlight
      BY <1>2 DEF InFlight
    <3>2. \A x \in contexts : x.guid = p.guid => x.call = p.body
      BY <3>1 DEF IInv, Matching
    <3>3. Kind[p.body] \notin {"good", "badreply"}
      BY <1>2, <1>8, RpcAssumption DEF Served, GetService
    <3>4. QED
      BY <3>2, <3>3
  <2>6. link = "up" => Complete(Held', contexts)
    BY <2>3, <2>5, Parts DEF Complete
  <2>7. QED
    BY <1>1, <2>3, <2>4, <2>6, HeldFewer
<1>9. QED
  BY <1>7, <1>8

LEMMA HeldOnResponse ==
  ASSUME IInv, Accounted, NEW p \in serving, OnResponse(p)
  PROVE  Accounted'
<1> DEFINE r == Packet(p.guid, FALSE, p.body)  S == Replies \cup SessionRequests
<1>1. /\ p \in Requests /\ s2c \in Seq(S) /\ serving' = serving \ {p}
      /\ UNCHANGED <<queue, wlist, c2s, rlist, contexts, link>>
  BY DEF OnResponse, client, IInv, TypeOK
<1>2. r \in S /\ r.guid = p.guid /\ r.body = p.body /\ r.body \in Calls
  BY <1>1 DEF Packet, Requests, Replies
<1>3. IF link = "up" THEN s2c' = Append(s2c, r) ELSE s2c' = s2c
  BY DEF OnResponse, ToClient
<1> HIDE DEF r, S
<1>4. Single /\ "s2c" \in Places /\ "serving" \in Places
  BY Parts DEF Places
<1>5. {q.guid : q \in serving'} = {q.guid : q \in serving} \ {p.guid}
  BY <1>1, <1>4 DEF Single
<1>6. p.guid \in Held["serving"] /\ Held'["serving"] = Held["serving"] \ {p.guid}
  BY <1>5, HeldIn
<1>7. p.guid \notin Guids(s2c)
  BY <1>4, <1>6, HeldIn, Parts DEF Apart
<1>8. \A s \in Places \ {"serving", "s2c"} : Held'[s] = Held[s]
  BY <1>1, HeldIn DEF Places
<1>9. CASE link = "up"
  <2>1. Guids(s2c') = Guids(s2c) \cup {p.guid} /\ NoTwice(s2c')
    <3>1. Guids(Append(s2c, r)) = Guids(s2c) \cup {r.guid} /\ NoTwice(Append(s2c, r))
      BY <1>1, <1>2, <1>4, <1>7, GuidsAppend DEF Single
    <3>2. QED
      BY <1>2, <1>3, <1>9, <3>1
  <2>2. Held'["s2c"] = Held["s2c"] \cup {p.guid} /\ {p.guid} \subseteq Held["serving"]
    BY <1>6, <2>1, HeldIn
  <2>3. Single'
    BY <1>1, <1>4, <2>1 DEF Single, NoTwice
  <2>4. QED
    BY <1>1, <1>4, <1>6, <1>8, <2>2, <2>3, HeldMoved
<1>10. CASE link # "up"
  <2>1. s2c' = s2c
    BY <1>3, <1>10
  <2>2. \A s \in Places : Held'[s] \subseteq Held[s]
    BY <1>6, <1>8, <2>1, HeldIn
  <2>3. Single'
    BY <1>1, <1>4, <2>1 DEF Single, NoTwice
  <2>4. QED
    BY <1>1, <1>10, <2>2, <2>3, HeldFewer
<1>11. QED
  BY <1>9, <1>10

LEMMA HeldSessionCall ==
  ASSUME IInv, Accounted, NEW d \in SessionCalls, SessionCallMethod(d)
  PROVE  Accounted'
<1> DEFINE r == Packet(sguid + 1, TRUE, d)  S == Replies \cup SessionRequests
<1>1. /\ s2c \in Seq(S) /\ sguid + 1 \in Nat
      /\ UNCHANGED <<queue, wlist, c2s, rlist, serving, contexts, link>>
  BY DEF SessionCallMethod, client, IInv, TypeOK
<1>2. r \in S /\ r.body \notin Calls
  BY <1>1, RpcAssumption DEF Packet, SessionRequests
<1>3. s2c' = Append(s2c, r) \/ s2c' = s2c
  BY DEF SessionCallMethod, ToClient
<1> HIDE DEF r, S
<1>4. Single
  BY Parts
<1>5. Guids(s2c') = Guids(s2c) /\ NoTwice(s2c')
  <2>1. Guids(Append(s2c, r)) = Guids(s2c) /\ NoTwice(Append(s2c, r))
    BY <1>1, <1>2, <1>4, GuidsAppend DEF Single
  <2>2. QED
    BY <1>3, <1>4, <2>1 DEF Single
<1>6. (\A s \in Places : Held'[s] = Held[s]) /\ Single'
  BY <1>1, <1>4, <1>5, HeldIn DEF Places, Single, NoTwice
<1>7. QED
  BY <1>1, <1>6, HeldSame

LEMMA HeldLose ==
  ASSUME IInv, Accounted, Lose
  PROVE  Accounted'
<1>1. /\ link' = "lost" /\ (c2s' = c2s \/ c2s' = <<>>) /\ (s2c' = s2c \/ s2c' = <<>>)
      /\ UNCHANGED <<queue, wlist, rlist, serving, contexts>>
  BY DEF Lose, client, server
<1>2. Single
  BY Parts
<1>3. /\ Guids(c2s') \subseteq Guids(c2s) /\ NoTwice(c2s')
      /\ Guids(s2c') \subseteq Guids(s2c) /\ NoTwice(s2c')
  BY <1>1, <1>2, GuidsEmpty DEF Single
<1>4. \A s \in Places : Held'[s] \subseteq Held[s]
  BY <1>1, <1>3, HeldIn DEF Places
<1>5. Single'
  BY <1>1, <1>2, <1>3 DEF Single, NoTwice
<1>6. QED
  BY <1>1, <1>4, <1>5, HeldFewer

LEMMA HeldInit == Init => Accounted
<1> SUFFICES ASSUME Init PROVE Accounted
  OBVIOUS
<1>1. Single
  BY GuidsEmpty DEF Init, Single
<1>2. \A s \in Places : Held[s] = {}
  BY GuidsEmpty, HeldIn DEF Init, Places
<1>3. QED
  BY <1>1, <1>2, HeldIn DEF Init, Accounted, Single

LEMMA HeldNext == IInv /\ Accounted /\ [Next]_vars => Accounted'
<1> SUFFICES ASSUME IInv, Accounted, [Next]_vars PROVE Accounted'
  OBVIOUS
<1>1. ASSUME NEW c \in Calls, CallMethod(c) PROVE Accounted'
  BY <1>1, HeldCallMethod
<1>2. CASE OnConnect \/ ClientOut \/ ClientIn \/ OnRead \/ RunService \/ Lose
  BY <1>2, HeldOnConnect, HeldClientOut, HeldClientIn, HeldOnRead, HeldRunService, HeldLose
<1>3. ASSUME UNCHANGED <<queue, wlist, c2s, s2c, rlist, serving, contexts, link>> PROVE Accounted'
  <2>1. (\A s \in Places : Held'[s] = Held[s]) /\ Single'
    BY <1>3, HeldIn, Parts DEF Places, Single, NoTwice
  <2>2. QED
    BY <1>3, <2>1, HeldSame
<1>4. CASE OnReadEnds
  BY <1>3, <1>4 DEF OnReadEnds, wire, server
<1>5. ASSUME NEW p \in serving, OnResponse(p) PROVE Accounted'
  BY <1>5, HeldOnResponse
<1>6. ASSUME NEW d \in SessionCalls, SessionCallMethod(d) PROVE Accounted'
  BY <1>6, HeldSessionCall
<1>7. CASE UNCHANGED vars
  BY <1>3, <1>7 DEF vars, client, wire, server
<1>8. QED
  BY <1>1, <1>2, <1>4, <1>5, <1>6, <1>7 DEF Next, Client, Server

\* A call that is not answered yet is in one queue, stream or service, once,
\* and has its context; while the connection holds none is lost that would
\* succeed, and no context is left behind by a response that does not parse.
THEOREM InOnePlace == Spec => []Accounted
<1> QED
  BY HeldInit, HeldNext, Matched, PTL DEF Spec
=============================================================================
