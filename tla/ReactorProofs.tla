--------------------------- MODULE ReactorProofs ---------------------------
(***************************************************************************)
(* The poller and its sockets, for every set of sockets, every size of the *)
(* kernel's send buffer and every bound: no input and no output of an      *)
(* accepted socket is left without an event, whatever the kernel, the      *)
(* peers, the handlers and the application do between any two steps.       *)
(***************************************************************************)
EXTENDS Reactor, SequenceTheorems, TLAPS

(* What occurs in a sequence after each operation on it.                   *)

Occurs(q, x) == \E i \in 1..Len(q) : q[i] = x

LEMMA OccursAppend ==
  ASSUME NEW S, NEW q \in Seq(S), NEW e \in S, NEW x
  PROVE  /\ Append(q, e) \in Seq(S)
         /\ Occurs(Append(q, e), x) <=> Occurs(q, x) \/ x = e
<1>1. /\ Append(q, e) \in Seq(S) /\ Len(Append(q, e)) = Len(q) + 1 /\ Len(q) \in Nat
      /\ \A i \in 1..Len(q) : Append(q, e)[i] = q[i]
      /\ Append(q, e)[Len(q) + 1] = e
  BY AppendProperties
<1>2. \A i \in 1..(Len(q) + 1) : i \in 1..Len(q) \/ i = Len(q) + 1
  BY <1>1
<1>3. Len(q) + 1 \in 1..(Len(q) + 1) /\ \A i \in 1..Len(q) : i \in 1..(Len(q) + 1)
  BY <1>1
<1>4. QED
  BY <1>1, <1>2, <1>3 DEF Occurs

LEMMA OccursTail ==
  ASSUME NEW S, NEW q \in Seq(S), q # <<>>
  PROVE  /\ Tail(q) \in Seq(S)
         /\ \A x : Occurs(q, x) => x = Head(q) \/ Occurs(Tail(q), x)
<1>1. /\ Tail(q) \in Seq(S) /\ Len(Tail(q)) = Len(q) - 1
      /\ \A i \in 1..Len(Tail(q)) : Tail(q)[i] = q[i + 1]
  BY HeadTailProperties
<1>2. Len(q) \in Nat \ {0} /\ Head(q) = q[1]
  BY EmptySeq
<1>3. ASSUME NEW i \in 1..Len(q), q[i] # Head(q) PROVE Occurs(Tail(q), q[i])
  <2>1. i - 1 \in 1..Len(Tail(q)) /\ (i - 1) + 1 = i
    BY <1>1, <1>2, <1>3
  <2>2. QED
    BY <1>1, <2>1 DEF Occurs
<1>4. QED
  BY <1>1, <1>3 DEF Occurs

LEMMA OccursConcat ==
  ASSUME NEW S, NEW p \in Seq(S), NEW q \in Seq(S), NEW x
  PROVE  p \o q \in Seq(S) /\ (Occurs(p, x) \/ Occurs(q, x) => Occurs(p \o q, x))
<1>1. /\ p \o q \in Seq(S) /\ Len(p \o q) = Len(p) + Len(q)
      /\ \A i \in 1..(Len(p) + Len(q)) :
           (p \o q)[i] = IF i <= Len(p) THEN p[i] ELSE q[i - Len(p)]
  BY ConcatProperties
<1>2. Len(p) \in Nat /\ Len(q) \in Nat
  OBVIOUS
<1>3. ASSUME NEW i \in 1..Len(p), p[i] = x PROVE Occurs(p \o q, x)
  <2>1. i \in 1..(Len(p) + Len(q)) /\ (p \o q)[i] = p[i]
    BY <1>1, <1>2
  <2>2. QED
    BY <1>1, <1>3, <2>1 DEF Occurs
<1>4. ASSUME NEW i \in 1..Len(q), q[i] = x PROVE Occurs(p \o q, x)
  <2>1. /\ i + Len(p) \in 1..(Len(p) + Len(q))
        /\ (i + Len(p)) - Len(p) = i /\ ~(i + Len(p) <= Len(p))
    BY <1>2
  <2>2. (p \o q)[i + Len(p)] = q[i]
    BY <1>1, <2>1
  <2>3. QED
    BY <1>1, <1>4, <2>1, <2>2 DEF Occurs
<1>5. QED
  BY <1>1, <1>3, <1>4 DEF Occurs

LEMMA OccursSingle ==
  ASSUME NEW x
  PROVE  Occurs(<<x>>, x) /\ ~\E y : Occurs(<<>>, y)
BY DEF Occurs

\* What epoll_wait reports of each descriptor that is on the ready list.
LEMMA EventsOccur ==
  ASSUME NEW s \in Socks
  PROVE  /\ Events(s) \in Seq({"err", "in", "out"})
         /\ inq[s] > 0 => Occurs(Events(s), "in")
         /\ peer[s] = "rst" \/ (peer[s] \in {"open", "fin"} /\ outq[s] < Room)
              => Occurs(Events(s), "out")
<1> DEFINE E == {"err", "in", "out"}
           e == IF Broken(s) THEN <<"err">> ELSE <<>>
           i == IF Broken(s) \/ peer[s] = "fin" \/ inq[s] > 0 THEN <<"in">> ELSE <<>>
           o == IF Broken(s) \/ (peer[s] \in {"open", "fin"} /\ outq[s] < Room)
                THEN <<"out">> ELSE <<>>
<1>1. Events(s) = (e \o i) \o o
  BY DEF Events
<1>2. e \in Seq(E) /\ i \in Seq(E) /\ o \in Seq(E)
  <2>1. <<>> \in Seq(E) /\ <<"err">> \in Seq(E) /\ <<"in">> \in Seq(E) /\ <<"out">> \in Seq(E)
    OBVIOUS
  <2>2. (e = <<"err">> \/ e = <<>>) /\ (i = <<"in">> \/ i = <<>>) /\ (o = <<"out">> \/ o = <<>>)
    OBVIOUS
  <2> HIDE DEF e, i, o, E
  <2>3. QED
    BY <2>1, <2>2
<1>3. inq[s] > 0 => Occurs(i, "in")
  BY OccursSingle
<1>4. peer[s] = "rst" \/ (peer[s] \in {"open", "fin"} /\ outq[s] < Room) => Occurs(o, "out")
  BY OccursSingle DEF Broken
<1> HIDE DEF e, i, o, E
<1>5. e \o i \in Seq(E) /\ (Occurs(i, "in") => Occurs(e \o i, "in"))
  BY <1>2, OccursConcat
<1>6. /\ (e \o i) \o o \in Seq(E)
      /\ Occurs(e \o i, "in") => Occurs((e \o i) \o o, "in")
      /\ Occurs(o, "out") => Occurs((e \o i) \o o, "out")
  BY <1>2, <1>5, OccursConcat
<1>7. QED
  BY <1>1, <1>3, <1>4, <1>5, <1>6 DEF E

----------------------------------------------------------------------------
(* The invariant.                                                          *)

Marked(s) == Occurs(writeable, s)

\* Accepted sockets are connected all along, and only what was registered
\* has a handle, data to send, or events.
Accepted ==
  \A s \in Servers :
    /\ status[s] = "CONNECTED" /\ peer[s] \in {"none", "open", "fin", "rst"}
    /\ IF entry[s] = "none" THEN wlist[s] = 0 /\ batch[s] = <<>>
                            ELSE handle[s] /\ peer[s] # "none"

\* Between two batches nothing is left to dispatch.
BatchDone == pc \in {"timers", "flush"} => \A s \in Socks : batch[s] = <<>>

\* A socket closed by an event of the batch was retired, and the rest of its
\* events comes next.
ClosedInHand ==
  \A s \in Servers : fd[s] = "closed" /\ batch[s] # <<>> => entry[s] = "retired" /\ cur = s

\* NoLostOutput, and when neither writeable_list_ nor a full buffer holds the
\* data, the event that is pending will find room.
OutputOK ==
  \A s \in Servers :
    Polled(s) /\ wlist[s] > 0 /\ ~Marked(s) /\ ~nospace[s]
      => /\ edge[s] \/ Occurs(batch[s], "out")
         /\ peer[s] = "rst" \/ outq[s] < Room

InputOK ==
  \A s \in Servers : Polled(s) /\ inq[s] > 0 => edge[s] \/ Occurs(batch[s], "in")

IInv ==
  /\ TypeOK /\ WritableMeansData /\ Accepted /\ BatchDone /\ ClosedInHand
  /\ OutputOK /\ InputOK

LEMMA Sockets ==
  /\ Servers \subseteq Socks /\ Clients \subseteq Socks /\ NULL \notin Socks
  /\ \A s \in Servers : s \notin Clients
  /\ Room \in Nat \ {0} /\ MaxIn \in [Socks -> Nat] /\ MaxOut \in [Socks -> Nat]
BY ReactorAssumption DEF Socks

----------------------------------------------------------------------------
(* What Out and In do to their socket, and that they do nothing to others. *)

Elsewhere(s) ==
  \A t \in Socks \ {s} :
    /\ inq'[t] = inq[t] /\ outq'[t] = outq[t] /\ nospace'[t] = nospace[t] /\ edge'[t] = edge[t]
    /\ fd'[t] = fd[t] /\ entry'[t] = entry[t]
    /\ wlist'[t] = wlist[t] /\ writable'[t] = writable[t]

\* The types of what Close, SocketWrite, Out and In assign.
SockType ==
  /\ inq \in [Socks -> Nat] /\ outq \in [Socks -> 0..Room] /\ \A s \in Socks : inq[s] <= sent[s]
  /\ nospace \in [Socks -> BOOLEAN] /\ edge \in [Socks -> BOOLEAN]
  /\ status \in [Socks -> {"INIT", "CONNECTING", "CONNECTED", "CLOSED"}]
  /\ fd \in [Socks -> {"open", "closed"}]
  /\ rlist \in [Socks -> Nat] /\ wlist \in [Socks -> Nat]
  /\ writable \in [Socks -> BOOLEAN] /\ got \in [Socks -> Nat] /\ written \in [Socks -> Nat]
  /\ entry \in [Socks -> {"none", "live", "retired", "freed"}]
  /\ retired \in Seq(Socks)

LEMMA ExceptFacts ==
  ASSUME NEW S, NEW T, NEW g \in [S -> T], NEW s \in S, NEW b \in T
  PROVE  /\ [g EXCEPT ![s] = b] \in [S -> T] /\ [g EXCEPT ![s] = b][s] = b
         /\ \A t \in S \ {s} : [g EXCEPT ![s] = b][t] = g[t]
OBVIOUS

LEMMA CloseFacts ==
  ASSUME TypeOK, NEW s \in Socks, Close(s)
  PROVE  /\ fd' \in [Socks -> {"open", "closed"}] /\ edge' \in [Socks -> BOOLEAN]
         /\ entry' \in [Socks -> {"none", "live", "retired", "freed"}] /\ retired' \in Seq(Socks)
         /\ fd'[s] = "closed" /\ (handle[s] => entry'[s] = "retired")
         /\ entry[s] # "none" => entry'[s] # "none"
         /\ entry'[s] = "live" => entry[s] = "live"
         /\ \A t \in Socks \ {s} : fd'[t] = fd[t] /\ edge'[t] = edge[t] /\ entry'[t] = entry[t]
<1>1. CASE handle[s]
  <2>1. retired' \in Seq(Socks)
    <3>1. retired \in Seq(Socks) /\ retired' = Append(retired, s)
      BY <1>1 DEF Close, TypeOK
    <3>2. QED
      BY <3>1, AppendProperties
  <2>2. QED
    BY <1>1, <2>1 DEF Close, TypeOK
<1>2. CASE ~handle[s]
  BY <1>2 DEF Close, TypeOK
<1>3. QED
  BY <1>1, <1>2

LEMMA SendsFacts ==
  ASSUME TypeOK, NEW s \in Socks, NEW n \in Nat, SendAll(s, n)
  PROVE  /\ UNCHANGED <<peer, inq, sent>>
         /\ outq' \in [Socks -> 0..Room] /\ nospace' \in [Socks -> BOOLEAN]
         /\ edge' \in [Socks -> BOOLEAN] /\ fd' \in [Socks -> {"open", "closed"}]
         /\ wlist' \in [Socks -> Nat] /\ writable' \in [Socks -> BOOLEAN]
         /\ entry' \in [Socks -> {"none", "live", "retired", "freed"}] /\ retired' \in Seq(Socks)
         /\ Elsewhere(s)
         /\ writable'[s] <=> wlist'[s] > 0
         /\ wlist'[s] > 0 => nospace'[s] \/ fd'[s] = "closed"
         /\ fd'[s] = "open" => edge'[s] = edge[s] /\ fd[s] = "open"
         /\ entry'[s] = entry[s] \/ n > 0
         /\ n = 0 => wlist'[s] = 0
         /\ fd'[s] = "closed" /\ handle[s] => fd[s] = "closed" \/ entry'[s] = "retired"
         /\ entry[s] # "none" => entry'[s] # "none"
         /\ entry'[s] = "live" => entry[s] = "live"
<1> DEFINE m == Fits(s, n)
<1>1. m \in Nat /\ m <= n /\ outq[s] + m \in 0..Room /\ n - m \in Nat
  <2>1. Room \in Nat /\ outq[s] \in Nat /\ outq[s] <= Room
    BY Sockets DEF TypeOK
  <2>2. m = IF n <= Room - outq[s] THEN n ELSE Room - outq[s]
    BY DEF Fits
  <2> HIDE DEF m
  <2>3. QED
    BY <2>1, <2>2
<1> HIDE DEF m
<1>2. CASE /\ n = 0 \/ (fd[s] = "open" /\ ~Broken(s))
           /\ wlist' = [wlist EXCEPT ![s] = n - m]
           /\ writable' = [writable EXCEPT ![s] = m < n]
           /\ outq' = [outq EXCEPT ![s] = @ + m]
           /\ nospace' = [nospace EXCEPT ![s] = @ \/ m < n]
           /\ UNCHANGED <<peer, inq, sent, edge, fd, pollVars>>
  <2>1. /\ wlist' \in [Socks -> Nat] /\ outq' \in [Socks -> 0..Room]
        /\ wlist'[s] = n - m
    BY <1>1, <1>2 DEF TypeOK
  <2>2. /\ writable' \in [Socks -> BOOLEAN] /\ nospace' \in [Socks -> BOOLEAN]
        /\ writable'[s] <=> m < n
        /\ m < n => nospace'[s]
    <3> DEFINE b == m < n  k == nospace[s] \/ m < n
    <3>1. writable \in [Socks -> BOOLEAN] /\ nospace \in [Socks -> BOOLEAN]
      BY DEF TypeOK
    <3>2. writable' = [writable EXCEPT ![s] = b] /\ nospace' = [nospace EXCEPT ![s] = k]
      BY <1>2
    <3>3. b \in BOOLEAN /\ k \in BOOLEAN
      BY <1>2
    <3>4. (b <=> m < n) /\ (m < n => k)
      BY <1>2
    <3> HIDE DEF b, k
    <3>5. /\ writable' \in [Socks -> BOOLEAN] /\ nospace' \in [Socks -> BOOLEAN]
          /\ writable'[s] = b /\ nospace'[s] = k
      BY <3>1, <3>2, <3>3, ExceptFacts
    <3>6. QED
      BY <3>4, <3>5
  <2>3. wlist'[s] > 0 <=> m < n
    BY <1>1, <2>1
  <2>4. Elsewhere(s)
    BY <1>2 DEF Elsewhere, pollVars, TypeOK
  <2>5. n = 0 => wlist'[s] = 0
    BY <1>1, <2>1
  <2>6. QED
    BY <1>2, <2>1, <2>2, <2>3, <2>4, <2>5 DEF pollVars, TypeOK
<1>3. CASE /\ n > 0 /\ (fd[s] = "closed" \/ Broken(s))
           /\ wlist' = [wlist EXCEPT ![s] = n]
           /\ writable' = [writable EXCEPT ![s] = TRUE]
           /\ Close(s)
           /\ UNCHANGED <<peer, inq, outq, sent, nospace>>
  <2>1. /\ wlist' \in [Socks -> Nat] /\ writable' \in [Socks -> BOOLEAN]
        /\ wlist'[s] > 0 /\ writable'[s]
    BY <1>3 DEF TypeOK
  <2>2. Elsewhere(s)
    <3>1. \A t \in Socks \ {s} : wlist'[t] = wlist[t] /\ writable'[t] = writable[t]
      BY <1>3 DEF TypeOK
    <3>2. \A t \in Socks \ {s} : fd'[t] = fd[t] /\ edge'[t] = edge[t] /\ entry'[t] = entry[t]
      BY <1>3, CloseFacts
    <3>3. QED
      BY <1>3, <3>1, <3>2 DEF Elsewhere
  <2>3. QED
    BY <1>3, <2>1, <2>2, CloseFacts DEF TypeOK
<1>4. QED
  BY <1>2, <1>3 DEF SendAll, Sends, m

LEMMA SocketWriteFacts ==
  ASSUME TypeOK, WritableMeansData, NEW s \in Socks, NEW k \in Nat, SocketWrite(s, k)
  PROVE  /\ wlist' \in [Socks -> Nat] /\ written' \in [Socks -> Nat]
         /\ writable' \in [Socks -> BOOLEAN] /\ writeable' \in Seq(Socks)
         /\ \A t \in Socks \ {s} : wlist'[t] = wlist[t] /\ writable'[t] = writable[t]
         /\ writable'[s] <=> wlist'[s] > 0
         /\ wlist'[s] > 0 /\ handle[s] => wlist[s] > 0 \/ Marked(s)'
         /\ \A t : Marked(t) => Marked(t)'
<1>1. /\ wlist' \in [Socks -> Nat] /\ written' \in [Socks -> Nat] /\ wlist'[s] = wlist[s] + k
      /\ \A t \in Socks \ {s} : wlist'[t] = wlist[t]
      /\ wlist[s] \in Nat
  BY DEF SocketWrite, TypeOK
<1>2. writable \in [Socks -> BOOLEAN] /\ writeable \in Seq(Socks) /\ (writable[s] <=> wlist[s] > 0)
  BY DEF TypeOK, WritableMeansData
<1>3. CASE k = 0 \/ writable[s]
  <2>1. UNCHANGED <<writable, writeable>>
    BY <1>3 DEF SocketWrite
  <2>2. wlist'[s] > 0 <=> wlist[s] > 0
    BY <1>1, <1>2, <1>3
  <2>3. QED
    BY <1>1, <1>2, <2>1, <2>2 DEF Marked
<1>4. CASE ~(k = 0 \/ writable[s])
  <2>1. writable' \in [Socks -> BOOLEAN] /\ writable'[s]
          /\ \A t \in Socks \ {s} : writable'[t] = writable[t]
    BY <1>2, <1>4 DEF SocketWrite
  <2>2. wlist'[s] > 0
    BY <1>1, <1>4
  <2>3. writeable' = Append(writeable, s) \/ (~handle[s] /\ writeable' = writeable)
    BY <1>4 DEF SocketWrite
  <2>4. /\ Append(writeable, s) \in Seq(Socks) /\ Occurs(Append(writeable, s), s)
        /\ \A t : Occurs(writeable, t) => Occurs(Append(writeable, s), t)
    BY <1>2, OccursAppend
  <2>5. QED
    BY <1>1, <1>2, <2>1, <2>2, <2>3, <2>4 DEF Marked
<1>5. QED
  BY <1>3, <1>4

\* Out: what it leaves unsent waits for room, or the socket is closed.
LEMMA OutFacts ==
  ASSUME TypeOK, WritableMeansData, NEW s \in Socks, Out(s)
  PROVE  /\ SockType' /\ Elsewhere(s) /\ UNCHANGED <<peer, inq, sent, handle, pc>>
         /\ \A t \in Socks : status[t] = "CONNECTED" => status'[t] = "CONNECTED"
         /\ writable'[s] <=> wlist'[s] > 0
         /\ status[s] = "CONNECTED" =>
              /\ wlist'[s] > 0 => nospace'[s] \/ fd'[s] = "closed"
              /\ wlist[s] = 0 => wlist'[s] = 0 /\ entry'[s] = entry[s]
         /\ fd'[s] = "open" => edge'[s] = edge[s] /\ fd[s] = "open"
         /\ fd'[s] = "closed" /\ handle[s] => fd[s] = "closed" \/ entry'[s] = "retired"
         /\ entry[s] # "none" => entry'[s] # "none"
         /\ entry'[s] = "live" => entry[s] = "live"
<1>1. UNCHANGED <<rlist, handle, got, pc>>
  BY DEF Out
<1>2. CASE /\ status[s] = "CONNECTING"
           /\ status' = [status EXCEPT ![s] = "CONNECTED"]
           /\ \E k \in 0..(MaxOut[s] - written[s]) :
                /\ written' = [written EXCEPT ![s] = @ + k]
                /\ SendAll(s, wlist[s] + k)
  <2>1. PICK k \in 0..(MaxOut[s] - written[s]) :
               written' = [written EXCEPT ![s] = @ + k] /\ SendAll(s, wlist[s] + k)
    BY <1>2
  <2>2. MaxOut[s] \in Nat /\ written[s] \in Nat /\ wlist[s] \in Nat
    BY Sockets DEF TypeOK
  <2>3. k \in Nat /\ wlist[s] + k \in Nat /\ written[s] + k \in Nat
    BY <2>2
  <2>4. written' \in [Socks -> Nat] /\ UNCHANGED <<inq, sent>>
    BY <2>1, <2>3, SendsFacts DEF TypeOK
  <2>5. /\ status' \in [Socks -> {"INIT", "CONNECTING", "CONNECTED", "CLOSED"}]
        /\ \A t \in Socks : status[t] = "CONNECTED" => status'[t] = "CONNECTED"
    BY <1>2 DEF TypeOK
  <2>6. SockType'
    BY <1>1, <2>1, <2>3, <2>4, <2>5, SendsFacts DEF SockType, TypeOK
  <2>7. QED
    BY <1>1, <1>2, <2>1, <2>3, <2>5, <2>6, SendsFacts
<1>3. CASE status[s] = "CONNECTED" /\ SendAll(s, wlist[s]) /\ UNCHANGED <<status, written>>
  <2>1. wlist[s] \in Nat
    BY DEF TypeOK
  <2>2. SockType'
    BY <1>1, <1>3, <2>1, SendsFacts DEF SockType, TypeOK
  <2>3. wlist[s] = 0 => ~(wlist[s] > 0)
    BY <2>1
  <2>4. QED
    BY <1>1, <1>3, <2>1, <2>2, <2>3, SendsFacts
<1>4. CASE /\ status[s] \notin {"CONNECTING", "CONNECTED"}
           /\ UNCHANGED <<kernel, status, fd, wlist, writable, written, pollVars>>
  BY <1>1, <1>4 DEF kernel, pollVars, SockType, TypeOK, Elsewhere, WritableMeansData
<1>5. QED
  BY <1>2, <1>3, <1>4 DEF Out

\* In, connected: all input is taken, and what is written as an answer is
\* marked writeable.
LEMMA InFacts ==
  ASSUME TypeOK, WritableMeansData, NEW s \in Socks, In(s)
  PROVE  /\ SockType' /\ writeable' \in Seq(Socks) /\ (pc' = pc \/ pc' = "spin")
         /\ Elsewhere(s) /\ UNCHANGED <<peer, sent, outq, nospace, status, handle>>
         /\ writable'[s] <=> wlist'[s] > 0
         /\ status[s] = "CONNECTED" /\ fd'[s] = "open" => inq'[s] = 0
         /\ wlist'[s] > 0 /\ handle[s] => wlist[s] > 0 \/ Marked(s)'
         /\ \A t : Marked(t) => Marked(t)'
         /\ fd'[s] = "open" => edge'[s] = edge[s] /\ entry'[s] = entry[s] /\ fd[s] = "open"
         /\ fd'[s] = "closed" /\ handle[s] => fd[s] = "closed" \/ entry'[s] = "retired"
         /\ entry[s] # "none" => entry'[s] # "none"
         /\ entry'[s] = "live" => entry[s] = "live"
<1>1. CASE status[s] # "CONNECTED"
  BY <1>1 DEF In, kernel, sockBuf, history, pollVars, SockType, TypeOK, Elsewhere,
              WritableMeansData, Marked
<1>2. CASE status[s] = "CONNECTED"
  <2> DEFINE read == rlist[s] + Drained(s)
  <2>1. inq[s] \in Nat /\ rlist[s] \in Nat /\ got[s] \in Nat /\ inq[s] <= sent[s]
          /\ fd[s] \in {"open", "closed"} /\ sent[s] \in Nat
    BY DEF TypeOK
  <2>2. read \in Nat /\ inq[s] - Drained(s) \in Nat /\ inq[s] - Drained(s) <= sent[s]
          /\ (fd[s] = "open" => inq[s] - Drained(s) = 0)
    BY <2>1 DEF Drained
  <2>3. /\ inq' = [inq EXCEPT ![s] = inq[s] - Drained(s)]
        /\ UNCHANGED <<peer, outq, sent, nospace, status, handle>>
    BY <1>2 DEF In
  <2> HIDE DEF read
  <2>4. /\ inq' \in [Socks -> Nat] /\ inq'[s] = inq[s] - Drained(s)
        /\ \A t \in Socks \ {s} : inq'[t] = inq[t]
        /\ \A t \in Socks : inq'[t] <= sent'[t]
    BY <2>2, <2>3 DEF TypeOK
  <2>5. CASE /\ rlist' = [rlist EXCEPT ![s] = 0]
             /\ got' = [got EXCEPT ![s] = @ + read]
             /\ \E k \in 0..read : written[s] + k <= MaxOut[s] /\ SocketWrite(s, k)
             /\ UNCHANGED <<fd, edge, pollVars, pc>>
    <3>1. PICK k \in 0..read : SocketWrite(s, k)
      BY <2>5
    <3>2. k \in Nat
      BY <2>2
    <3>3. rlist' \in [Socks -> Nat] /\ got' \in [Socks -> Nat]
      <4>1. got[s] + read \in Nat
        BY <2>1, <2>2
      <4>2. got' = [got EXCEPT ![s] = got[s] + read]
        BY <2>5
      <4>3. QED
        BY <2>5, <4>1, <4>2 DEF TypeOK
    <3>4. SockType'
      BY <2>3, <2>4, <2>5, <3>1, <3>2, <3>3, SocketWriteFacts DEF SockType, TypeOK, pollVars
    <3>5. Elsewhere(s)
      BY <2>3, <2>4, <2>5, <3>1, <3>2, SocketWriteFacts DEF Elsewhere, pollVars
    <3>6. QED
      BY <2>2, <2>3, <2>4, <2>5, <3>1, <3>2, <3>4, <3>5, SocketWriteFacts DEF pollVars, TypeOK
  <2>6. CASE /\ rlist' = [rlist EXCEPT ![s] = read] /\ Close(s)
             /\ UNCHANGED <<wlist, writable, history, writeable, pc>>
    <3>1. rlist' \in [Socks -> Nat]
      BY <2>2, <2>6 DEF TypeOK
    <3>2. SockType'
      BY <2>3, <2>4, <2>6, <3>1, CloseFacts DEF SockType, TypeOK, history
    <3>3. Elsewhere(s)
      BY <2>3, <2>4, <2>6, CloseFacts DEF Elsewhere
    <3>4. writable'[s] <=> wlist'[s] > 0
      BY <2>6 DEF WritableMeansData
    <3>5. QED
      BY <2>3, <2>6, <3>2, <3>3, <3>4, CloseFacts DEF TypeOK, Marked
  <2>7. CASE /\ rlist' = [rlist EXCEPT ![s] = read] /\ pc' = "spin"
             /\ UNCHANGED <<fd, edge, wlist, writable, history, writeable, pollVars>>
    <3>1. rlist' \in [Socks -> Nat]
      BY <2>2, <2>7 DEF TypeOK
    <3>2. SockType'
      BY <2>3, <2>4, <2>7, <3>1 DEF SockType, TypeOK, history, pollVars
    <3>3. Elsewhere(s)
      BY <2>3, <2>4, <2>7 DEF Elsewhere, pollVars
    <3>4. QED
      BY <2>2, <2>3, <2>4, <2>7, <3>2, <3>3 DEF TypeOK, Marked, WritableMeansData, pollVars
  <2>8. QED
    BY <1>2, <2>5, <2>6, <2>7 DEF In, read
<1>3. QED
  BY <1>1, <1>2

----------------------------------------------------------------------------
(* The kernel's steps.                                                     *)

LEMMA KernelStepFacts ==
  ASSUME NEW s \in Socks, KernelStep(s)
  PROVE  /\ UNCHANGED <<status, fd, rlist, wlist, writable, handle, got, written>>
         /\ UNCHANGED <<entry, retired, writeable, batch, cur, pc>>
         /\ \A t : Polled(t)' <=> Polled(t)
         /\ \A t : Marked(t)' <=> Marked(t)
BY DEF KernelStep, sockBuf, history, pollVars, Polled, Marked

\* Nothing of the poller and the sockets changes: what a step of the kernel
\* must keep is the types and the two parts about pending events.
LEMMA KernelKeeps ==
  ASSUME IInv, NEW s \in Socks, KernelStep(s), TypeOK', OutputOK', InputOK',
         \A t \in Servers :
           peer'[t] = peer[t] \/ (peer[t] \in {"open", "fin"} /\ peer'[t] \in {"fin", "rst"})
  PROVE  IInv'
<1>1. WritableMeansData' /\ BatchDone' /\ ClosedInHand'
  BY KernelStepFacts DEF IInv, WritableMeansData, BatchDone, ClosedInHand
<1>2. Accepted'
  BY KernelStepFacts DEF IInv, Accepted
<1>3. QED
  BY <1>1, <1>2 DEF IInv

LEMMA PeerSendStep ==
  ASSUME IInv, NEW s \in Socks, PeerSend(s)
  PROVE  IInv'
<1>1. /\ inq' = [inq EXCEPT ![s] = inq[s] + 1] /\ sent' = [sent EXCEPT ![s] = sent[s] + 1]
      /\ edge' = [edge EXCEPT ![s] = Polled(s)] /\ UNCHANGED <<peer, outq, nospace>>
      /\ KernelStep(s) /\ sent[s] < MaxIn[s]
  BY DEF PeerSend
<1>2. Polled(s) \in BOOLEAN
  BY DEF Polled
<1>3. /\ edge' \in [Socks -> BOOLEAN] /\ edge'[s] = Polled(s)
      /\ \A t \in Socks \ {s} : edge'[t] = edge[t] /\ inq'[t] = inq[t]
  BY <1>1, <1>2 DEF IInv, TypeOK
<1>4. TypeOK'
  <2>1. inq[s] + 1 \in Nat /\ sent[s] + 1 \in Nat /\ inq[s] + 1 <= sent[s] + 1
          /\ sent[s] + 1 <= MaxIn[s]
    <3>1. inq[s] \in Nat /\ sent[s] \in Nat /\ MaxIn[s] \in Nat /\ inq[s] <= sent[s]
      BY Sockets DEF IInv, TypeOK
    <3>2. QED
      BY <1>1, <3>1
  <2>2. /\ inq' \in [Socks -> Nat] /\ sent' \in [Socks -> Nat]
        /\ \A t \in Socks : inq'[t] <= sent'[t] /\ sent'[t] <= MaxIn[t]
    BY <1>1, <2>1 DEF IInv, TypeOK
  <2>3. QED
    BY <1>1, <1>3, <2>2, KernelStepFacts DEF IInv, TypeOK
<1>5. OutputOK'
  BY <1>1, <1>3, KernelStepFacts, Sockets DEF IInv, OutputOK
<1>6. InputOK'
  BY <1>1, <1>3, KernelStepFacts, Sockets DEF IInv, InputOK
<1>7. QED
  BY <1>1, <1>4, <1>5, <1>6, KernelKeeps

LEMMA PeerReadStep ==
  ASSUME IInv, NEW s \in Socks, PeerRead(s)
  PROVE  IInv'
<1> DEFINE b == edge[s] \/ (nospace[s] /\ Polled(s))
<1>1. /\ outq' = [outq EXCEPT ![s] = outq[s] - 1] /\ edge' = [edge EXCEPT ![s] = b]
      /\ nospace' = [nospace EXCEPT ![s] = FALSE] /\ UNCHANGED <<peer, inq, sent>>
      /\ KernelStep(s) /\ outq[s] > 0
  BY DEF PeerRead
<1>2. b \in BOOLEAN /\ (edge[s] => b) /\ (nospace[s] /\ Polled(s) => b)
  BY DEF IInv, TypeOK
<1> HIDE DEF b
<1>3. /\ edge' \in [Socks -> BOOLEAN] /\ edge'[s] = b
      /\ \A t \in Socks \ {s} : edge'[t] = edge[t] /\ nospace'[t] = nospace[t] /\ outq'[t] = outq[t]
  BY <1>1, <1>2 DEF IInv, TypeOK
<1>4. outq[s] - 1 \in 0..Room /\ outq[s] - 1 < Room
  BY <1>1, Sockets DEF IInv, TypeOK
<1>5. outq' \in [Socks -> 0..Room] /\ outq'[s] < Room
  BY <1>1, <1>4 DEF IInv, TypeOK
<1>6. TypeOK'
  BY <1>1, <1>3, <1>5, KernelStepFacts DEF IInv, TypeOK
<1>7. InputOK'
  BY <1>1, <1>2, <1>3, KernelStepFacts, Sockets DEF IInv, InputOK
<1>8. OutputOK'
  <2>1. ASSUME NEW t \in Servers, t # s
        PROVE  Polled(t)' /\ wlist'[t] > 0 /\ ~Marked(t)' /\ ~nospace'[t]
                 => (edge'[t] \/ Occurs(batch'[t], "out")) /\ (peer'[t] = "rst" \/ outq'[t] < Room)
    BY <1>1, <1>3, <2>1, KernelStepFacts, Sockets DEF IInv, OutputOK
  <2>2. ASSUME s \in Servers, Polled(s)', wlist'[s] > 0, ~Marked(s)'
        PROVE  edge'[s] \/ Occurs(batch'[s], "out")
    <3>1. CASE nospace[s]
      BY <1>2, <1>3, <2>2, <3>1, <1>1, KernelStepFacts
    <3>2. CASE ~nospace[s]
      BY <1>1, <1>2, <1>3, <2>2, <3>2, KernelStepFacts DEF IInv, OutputOK
    <3>3. QED
      BY <3>1, <3>2
  <2>3. QED
    BY <1>5, <2>1, <2>2 DEF OutputOK
<1>9. QED
  BY <1>1, <1>6, <1>7, <1>8, KernelKeeps

LEMMA PeerEndsStep ==
  ASSUME IInv, NEW s \in Socks, PeerEnds(s)
  PROVE  IInv'
<1>1. PICK p \in Faults \ {peer[s]} :
        /\ peer' = [peer EXCEPT ![s] = p]
        /\ inq' = [inq EXCEPT ![s] = IF p = "rst" THEN 0 ELSE inq[s]]
        /\ outq' = [outq EXCEPT ![s] = IF p = "rst" THEN 0 ELSE outq[s]]
  BY DEF PeerEnds
<1>2. /\ peer[s] \in {"open", "fin"} /\ p \in {"fin", "rst"}
      /\ edge' = [edge EXCEPT ![s] = Polled(s)] /\ UNCHANGED <<sent, nospace>> /\ KernelStep(s)
  BY ReactorAssumption DEF PeerEnds
<1>3. Polled(s) \in BOOLEAN
  BY DEF Polled
<1>4. /\ edge' \in [Socks -> BOOLEAN] /\ edge'[s] = Polled(s)
      /\ peer' \in [Socks -> {"none", "connecting", "refused", "open", "fin", "rst"}]
      /\ peer'[s] = p
      /\ \A t \in Socks \ {s} : edge'[t] = edge[t] /\ peer'[t] = peer[t]
                                 /\ inq'[t] = inq[t] /\ outq'[t] = outq[t]
  BY <1>1, <1>2, <1>3 DEF IInv, TypeOK
<1>5. /\ inq' \in [Socks -> Nat] /\ outq' \in [Socks -> 0..Room]
      /\ \A t \in Socks : inq'[t] <= sent'[t] /\ sent'[t] <= MaxIn[t]
      /\ p # "rst" => outq'[s] = outq[s]
  <2>1. 0 \in Nat /\ 0 \in 0..Room /\ sent[s] \in Nat
    BY Sockets DEF IInv, TypeOK
  <2>2. QED
    BY <1>1, <1>2, <2>1 DEF IInv, TypeOK
<1>6. TypeOK'
  BY <1>2, <1>4, <1>5, KernelStepFacts DEF IInv, TypeOK
<1>7. InputOK'
  BY <1>2, <1>4, KernelStepFacts, Sockets DEF IInv, InputOK
<1>8. OutputOK'
  <2>1. ASSUME NEW t \in Servers, t # s
        PROVE  Polled(t)' /\ wlist'[t] > 0 /\ ~Marked(t)' /\ ~nospace'[t]
                 => (edge'[t] \/ Occurs(batch'[t], "out")) /\ (peer'[t] = "rst" \/ outq'[t] < Room)
    BY <1>2, <1>4, <2>1, KernelStepFacts, Sockets DEF IInv, OutputOK
  <2>2. ASSUME s \in Servers, Polled(s)', wlist'[s] > 0, ~Marked(s)', ~nospace'[s]
        PROVE  edge'[s] /\ (peer'[s] = "rst" \/ outq'[s] < Room)
    BY <1>2, <1>4, <1>5, <2>2, KernelStepFacts DEF IInv, OutputOK
  <2>3. QED
    BY <2>1, <2>2 DEF OutputOK
<1>9. QED
  BY <1>2, <1>4, <1>6, <1>7, <1>8, KernelKeeps, Sockets

\* Connection attempts are the clients'.
LEMMA ConnectDoneStep ==
  ASSUME IInv, NEW s \in Socks, ConnectDone(s)
  PROVE  IInv'
<1>1. PICK p \in {"open", "refused"} : peer' = [peer EXCEPT ![s] = p]
  BY DEF ConnectDone
<1>2. /\ edge' = [edge EXCEPT ![s] = Polled(s)] /\ UNCHANGED <<inq, outq, sent, nospace>>
      /\ KernelStep(s) /\ peer[s] = "connecting"
  BY DEF ConnectDone
<1>3. s \notin Servers
  BY <1>2 DEF IInv, Accepted
<1>4. Polled(s) \in BOOLEAN
  BY DEF Polled
<1>5. /\ edge' \in [Socks -> BOOLEAN]
      /\ peer' \in [Socks -> {"none", "connecting", "refused", "open", "fin", "rst"}]
      /\ \A t \in Socks \ {s} : edge'[t] = edge[t] /\ peer'[t] = peer[t]
  BY <1>1, <1>2, <1>4 DEF IInv, TypeOK
<1>6. TypeOK'
  BY <1>2, <1>5, KernelStepFacts DEF IInv, TypeOK
<1>7. InputOK' /\ OutputOK'
  BY <1>2, <1>3, <1>5, KernelStepFacts, Sockets DEF IInv, InputOK, OutputOK
<1>8. QED
  BY <1>2, <1>3, <1>5, <1>6, <1>7, KernelKeeps, Sockets

----------------------------------------------------------------------------
(* What the application does.                                              *)

LEMMA CreateServerSocketStep ==
  ASSUME IInv, NEW s \in Socks, CreateServerSocket(s)
  PROVE  IInv'
<1>1. /\ peer' = [peer EXCEPT ![s] = "open"] /\ peer[s] = "none" /\ s \in Servers
      /\ UNCHANGED <<inq, outq, sent, nospace, edge, status, fd, rlist, wlist, writable, handle>>
      /\ UNCHANGED <<got, written, entry, retired, writeable, batch, cur, pc>>
  BY DEF CreateServerSocket, sockBuf, history, pollVars
<1>2. /\ peer' \in [Socks -> {"none", "connecting", "refused", "open", "fin", "rst"}]
      /\ peer'[s] = "open" /\ \A t \in Socks \ {s} : peer'[t] = peer[t]
  BY <1>1 DEF IInv, TypeOK
<1>3. TypeOK'
  BY <1>1, <1>2 DEF IInv, TypeOK
<1>4. /\ WritableMeansData' /\ BatchDone' /\ ClosedInHand'
      /\ \A t : (Polled(t)' <=> Polled(t)) /\ (Marked(t)' <=> Marked(t))
  BY <1>1 DEF IInv, WritableMeansData, BatchDone, ClosedInHand, Polled, Marked
<1>5. Accepted'
  BY <1>1, <1>2, Sockets DEF IInv, Accepted
<1>6. InputOK'
  BY <1>1, <1>4 DEF IInv, InputOK
<1>7. OutputOK'
  BY <1>1, <1>2, <1>4, Sockets DEF IInv, OutputOK
<1>8. QED
  BY <1>3, <1>4, <1>5, <1>6, <1>7 DEF IInv

LEMMA RegisterStep ==
  ASSUME IInv, NEW s \in Socks, Register(s)
  PROVE  IInv'
<1>1. /\ s \in Servers /\ peer[s] # "none" /\ entry[s] = "none"
      /\ handle' = [handle EXCEPT ![s] = TRUE] /\ entry' = [entry EXCEPT ![s] = "live"]
      /\ edge' = [edge EXCEPT ![s] = TRUE]
      /\ UNCHANGED <<peer, inq, outq, sent, nospace, status, fd, rlist, wlist, writable>>
      /\ UNCHANGED <<got, written, retired, writeable, batch, cur, pc>>
  BY DEF Register, sockBuf, history
<1>2. /\ handle' \in [Socks -> BOOLEAN] /\ edge' \in [Socks -> BOOLEAN]
      /\ entry' \in [Socks -> {"none", "live", "retired", "freed"}]
      /\ handle'[s] /\ edge'[s] /\ entry'[s] = "live"
      /\ \A t \in Socks \ {s} : handle'[t] = handle[t] /\ edge'[t] = edge[t] /\ entry'[t] = entry[t]
  BY <1>1 DEF IInv, TypeOK
<1>3. wlist[s] = 0 /\ batch[s] = <<>>
  BY <1>1 DEF IInv, Accepted
<1>4. TypeOK'
  BY <1>1, <1>2 DEF IInv, TypeOK
<1>5. /\ WritableMeansData' /\ BatchDone'
      /\ \A t \in Socks \ {s} : Polled(t)' <=> Polled(t)
      /\ \A t : Marked(t)' <=> Marked(t)
  BY <1>1, <1>2 DEF IInv, WritableMeansData, BatchDone, Polled, Marked
<1>6. ClosedInHand'
  BY <1>1, <1>2, <1>3, Sockets DEF IInv, ClosedInHand
<1>7. Accepted'
  BY <1>1, <1>2, Sockets DEF IInv, Accepted
<1>8. InputOK'
  BY <1>1, <1>2, <1>5, Sockets DEF IInv, InputOK
<1>9. OutputOK'
  <2>1. ~(wlist'[s] > 0)
    BY <1>1, <1>3
  <2>2. QED
    BY <1>1, <1>2, <1>5, <2>1, Sockets DEF IInv, OutputOK
<1>10. QED
  BY <1>4, <1>5, <1>6, <1>7, <1>8, <1>9 DEF IInv

LEMMA ConnectStep ==
  ASSUME IInv, NEW s \in Socks, Connect(s)
  PROVE  IInv'
<1>1. /\ s \notin Servers
      /\ UNCHANGED <<inq, outq, sent, nospace, edge, fd, rlist, wlist, writable, handle>>
      /\ UNCHANGED <<got, written, retired, writeable, batch, cur, pc>>
  BY Sockets DEF Connect, sockBuf, history
<1>2. /\ status' \in [Socks -> {"INIT", "CONNECTING", "CONNECTED", "CLOSED"}]
      /\ peer' \in [Socks -> {"none", "connecting", "refused", "open", "fin", "rst"}]
      /\ entry' \in [Socks -> {"none", "live", "retired", "freed"}]
      /\ \A t \in Socks \ {s} : status'[t] = status[t] /\ peer'[t] = peer[t] /\ entry'[t] = entry[t]
  <2>1. \/ /\ status' = [status EXCEPT ![s] = "CONNECTING"]
           /\ peer' = [peer EXCEPT ![s] = "connecting"] /\ entry' = [entry EXCEPT ![s] = "live"]
        \/ status' = [status EXCEPT ![s] = "CLOSED"] /\ UNCHANGED <<peer, entry>>
    BY DEF Connect
  <2>2. CASE /\ status' = [status EXCEPT ![s] = "CONNECTING"]
             /\ peer' = [peer EXCEPT ![s] = "connecting"] /\ entry' = [entry EXCEPT ![s] = "live"]
    BY <2>2 DEF IInv, TypeOK
  <2>3. CASE status' = [status EXCEPT ![s] = "CLOSED"] /\ UNCHANGED <<peer, entry>>
    BY <2>3 DEF IInv, TypeOK
  <2>4. QED
    BY <2>1, <2>2, <2>3
<1>3. TypeOK'
  BY <1>1, <1>2 DEF IInv, TypeOK
<1>4. /\ WritableMeansData' /\ BatchDone'
      /\ \A t \in Socks \ {s} : Polled(t)' <=> Polled(t)
      /\ \A t : Marked(t)' <=> Marked(t)
  BY <1>1, <1>2 DEF IInv, WritableMeansData, BatchDone, Polled, Marked
<1>5. Accepted' /\ ClosedInHand'
  BY <1>1, <1>2, Sockets DEF IInv, Accepted, ClosedInHand
<1>6. InputOK' /\ OutputOK'
  BY <1>1, <1>2, <1>4, Sockets DEF IInv, InputOK, OutputOK
<1>7. QED
  BY <1>3, <1>4, <1>5, <1>6 DEF IInv

LEMMA AppWriteStep ==
  ASSUME IInv, NEW s \in Socks, AppWrite(s)
  PROVE  IInv'
<1>1. /\ SocketWrite(s, 1) /\ entry[s] # "none"
      /\ UNCHANGED <<peer, inq, outq, sent, nospace, edge, status, fd, rlist, handle, got>>
      /\ UNCHANGED <<entry, retired, batch, cur, pc>>
  BY DEF AppWrite, kernel, pollVars
<1>2. TypeOK /\ WritableMeansData /\ 1 \in Nat
  BY DEF IInv
<1>3. TypeOK'
  BY <1>1, <1>2, SocketWriteFacts DEF TypeOK
<1>4. WritableMeansData'
  BY <1>1, <1>2, SocketWriteFacts DEF WritableMeansData
<1>5. BatchDone' /\ ClosedInHand' /\ InputOK' /\ \A t : Polled(t)' <=> Polled(t)
  BY <1>1 DEF IInv, BatchDone, ClosedInHand, InputOK, Polled
<1>6. Accepted'
  BY <1>1, <1>2, SocketWriteFacts, Sockets DEF IInv, Accepted
<1>7. OutputOK'
  <2>1. ASSUME NEW t \in Servers, Polled(t)', wlist'[t] > 0, ~Marked(t)'
        PROVE  wlist[t] > 0 /\ ~Marked(t)
    <3>1. ~Marked(t)
      BY <1>1, <1>2, <2>1, SocketWriteFacts
    <3>2. handle[t]
      BY <1>1, <1>5, <2>1 DEF IInv, Accepted, Polled
    <3>3. QED
      BY <1>1, <1>2, <2>1, <3>1, <3>2, SocketWriteFacts, Sockets
  <2>2. QED
    BY <1>1, <1>5, <2>1 DEF IInv, OutputOK
<1>8. QED
  BY <1>3, <1>4, <1>5, <1>6, <1>7 DEF IInv

----------------------------------------------------------------------------
(* Dispatch and Poll.                                                      *)

LEMMA StartPollStep ==
  ASSUME IInv, StartPoll
  PROVE  IInv'
<1>1. /\ UNCHANGED <<peer, inq, outq, sent, nospace, edge, status, fd, rlist, wlist, writable>>
      /\ UNCHANGED <<handle, got, written, entry, retired, writeable, batch, cur>>
      /\ pc = "timers" /\ pc' = "flush"
  BY DEF StartPoll, kernel, sockBuf, history, pollVars
<1>2. TypeOK'
  BY <1>1 DEF IInv, TypeOK
<1>3. QED
  BY <1>1, <1>2 DEF IInv, WritableMeansData, Accepted, BatchDone, ClosedInHand, OutputOK,
                    InputOK, Polled, Marked

LEMMA FlushWriteableStep ==
  ASSUME IInv, FlushWriteable
  PROVE  IInv'
<1>1. writeable \in Seq(Socks) /\ writeable # <<>> /\ pc = "flush" /\ UNCHANGED <<batch, cur>>
  BY DEF FlushWriteable, IInv, TypeOK
<1>2. PICK s \in Socks :
        /\ s = Head(writeable) /\ Tail(writeable) \in Seq(Socks)
        /\ \A t : Marked(t) => t = s \/ Occurs(Tail(writeable), t)
  BY <1>1, OccursTail, HeadTailProperties DEF Marked
<1>3. CASE Out(s) /\ writeable' = Tail(writeable)
  <2>1. TypeOK /\ WritableMeansData /\ \A t \in Socks : batch[t] = <<>>
    BY <1>1 DEF IInv, BatchDone
  <2>2. TypeOK'
    BY <1>1, <1>2, <1>3, <2>1, OutFacts DEF SockType, TypeOK
  <2>3. WritableMeansData'
    BY <1>2, <1>3, <2>1, OutFacts DEF Elsewhere, WritableMeansData
  <2>4. BatchDone' /\ ClosedInHand'
    BY <1>1, <2>1, Sockets DEF BatchDone, ClosedInHand
  <2>5. Accepted'
    <3>1. ASSUME NEW t \in Servers, t # s
          PROVE  /\ peer'[t] = peer[t] /\ entry'[t] = entry[t] /\ wlist'[t] = wlist[t]
                 /\ batch'[t] = batch[t] /\ handle'[t] = handle[t] /\ status'[t] = "CONNECTED"
      BY <1>1, <1>2, <1>3, <2>1, <3>1, OutFacts, Sockets DEF IInv, Accepted, Elsewhere
    <3>2. ASSUME s \in Servers
          PROVE  /\ peer'[s] = peer[s] /\ batch'[s] = batch[s] /\ handle'[s] = handle[s]
                 /\ status'[s] = "CONNECTED"
                 /\ entry[s] = "none" => entry'[s] = "none" /\ wlist'[s] = 0
                 /\ entry[s] # "none" => entry'[s] # "none"
      BY <1>1, <1>2, <1>3, <2>1, <3>2, OutFacts DEF IInv, Accepted
    <3>3. QED
      BY <3>1, <3>2 DEF IInv, Accepted
  <2>6. ASSUME NEW t \in Socks, t # s
        PROVE  /\ Polled(t)' <=> Polled(t)
               /\ peer'[t] = peer[t] /\ inq'[t] = inq[t] /\ outq'[t] = outq[t]
               /\ nospace'[t] = nospace[t] /\ edge'[t] = edge[t] /\ wlist'[t] = wlist[t]
               /\ batch'[t] = batch[t] /\ (Marked(t) => Marked(t)')
    BY <1>1, <1>2, <1>3, <2>1, <2>6, OutFacts DEF Elsewhere, Polled, Marked
  <2>7. ASSUME s \in Servers, Polled(s)'
        PROVE  /\ Polled(s) /\ edge'[s] = edge[s] /\ inq'[s] = inq[s] /\ batch'[s] = batch[s]
               /\ wlist'[s] > 0 => nospace'[s]
    <3>1. entry'[s] = "live" /\ fd'[s] = "open"
      BY <2>7 DEF Polled
    <3>2. edge'[s] = edge[s] /\ fd[s] = "open" /\ inq'[s] = inq[s] /\ batch'[s] = batch[s]
      BY <1>1, <1>2, <1>3, <2>1, <3>1, OutFacts
    <3>3. status[s] = "CONNECTED"
      BY <2>7 DEF IInv, Accepted
    <3>4. wlist'[s] > 0 => nospace'[s]
      BY <1>2, <1>3, <2>1, <3>1, <3>3, OutFacts
    <3>5. entry[s] = "live"
      BY <1>2, <1>3, <2>1, <3>1, OutFacts
    <3>6. QED
      BY <3>2, <3>4, <3>5 DEF Polled
  <2>8. InputOK'
    BY <2>6, <2>7, Sockets DEF IInv, InputOK
  <2>9. OutputOK'
    BY <2>6, <2>7, Sockets DEF IInv, OutputOK
  <2>10. QED
    BY <2>2, <2>3, <2>4, <2>5, <2>8, <2>9 DEF IInv
<1>4. CASE /\ pc' = "crashed"
           /\ UNCHANGED <<kernel, status, fd, sockBuf, handle, history, pollVars, writeable>>
  <2>1. TypeOK'
    BY <1>1, <1>4 DEF kernel, sockBuf, history, pollVars, IInv, TypeOK
  <2>2. QED
    BY <1>1, <1>4, <2>1 DEF kernel, sockBuf, history, pollVars, IInv, WritableMeansData, Accepted,
                            BatchDone, ClosedInHand, OutputOK, InputOK, Polled, Marked
<1>5. QED
  BY <1>2, <1>3, <1>4 DEF FlushWriteable

\* Whatever is cleared from the ready list is reported.
LEMMA EpollWaitStep ==
  ASSUME IInv, EpollWait
  PROVE  IInv'
<1> DEFINE ready == {s \in Socks : edge[s] /\ Polled(s) /\ Events(s) # <<>>}
<1>1. /\ pc = "flush" /\ writeable = <<>>
      /\ batch' = [s \in Socks |-> IF s \in ready THEN Events(s) ELSE <<>>]
      /\ edge' = [s \in Socks |-> FALSE]
      /\ pc' = "dispatch" \/ (ready = {} /\ pc' = "timers")
      /\ UNCHANGED <<peer, inq, outq, sent, nospace, status, fd, rlist, wlist, writable>>
      /\ UNCHANGED <<handle, got, written, entry, retired, writeable, cur>>
  BY DEF EpollWait, sockBuf, history, pollVars
<1>2. ~\E x : Occurs(<<>>, x)
  BY OccursSingle
<1>3. \A s \in Socks : batch[s] = <<>>
  BY <1>1 DEF IInv, BatchDone
<1>4. /\ \A t : Polled(t)' <=> Polled(t)
      /\ \A t : ~Marked(t)
  BY <1>1, <1>2 DEF Polled, Marked
<1>5. ASSUME NEW s \in Socks, edge[s], Polled(s), NEW e, Occurs(Events(s), e)
      PROVE  Occurs(batch'[s], e)
  BY <1>1, <1>2, <1>5
<1>6. TypeOK'
  <2>1. batch' \in [Socks -> Seq({"err", "in", "out"})]
    BY <1>1, EventsOccur
  <2>2. QED
    BY <1>1, <2>1 DEF IInv, TypeOK
<1>7. WritableMeansData' /\ BatchDone'
  BY <1>1 DEF IInv, WritableMeansData, BatchDone
<1>8. Accepted' /\ ClosedInHand'
  <2>1. \A s \in Socks : entry[s] = "none" \/ fd[s] = "closed" => batch'[s] = <<>>
    BY <1>1 DEF Polled
  <2>2. QED
    BY <1>1, <2>1, Sockets DEF IInv, Accepted, ClosedInHand
<1>9. InputOK'
  <2>1. ASSUME NEW s \in Servers, Polled(s), inq[s] > 0 PROVE Occurs(batch'[s], "in")
    <3>1. edge[s] /\ s \in Socks
      BY <1>2, <1>3, <2>1, Sockets DEF IInv, InputOK
    <3>2. Occurs(Events(s), "in")
      BY <2>1, <3>1, EventsOccur
    <3>3. QED
      BY <1>5, <2>1, <3>1, <3>2
  <2>2. QED
    BY <1>1, <1>4, <2>1 DEF InputOK
<1>10. OutputOK'
  <2>1. ASSUME NEW s \in Servers, Polled(s), wlist[s] > 0, ~nospace[s]
        PROVE  Occurs(batch'[s], "out") /\ (peer[s] = "rst" \/ outq[s] < Room)
    <3>1. edge[s] /\ s \in Socks /\ (peer[s] = "rst" \/ outq[s] < Room)
      BY <1>2, <1>3, <1>4, <2>1, Sockets DEF IInv, OutputOK
    <3>2. peer[s] \in {"open", "fin", "rst"}
      BY <2>1 DEF IInv, Accepted, Polled
    <3>3. Occurs(Events(s), "out")
      BY <3>1, <3>2, EventsOccur
    <3>4. QED
      BY <1>5, <2>1, <3>1, <3>3
  <2>2. QED
    BY <1>1, <1>4, <2>1 DEF OutputOK
<1>11. QED
  BY <1>6, <1>7, <1>8, <1>9, <1>10 DEF IInv

LEMMA EndBatchStep ==
  ASSUME IInv, EndBatch
  PROVE  IInv'
<1>1. /\ entry' = [s \in Socks |-> IF entry[s] = "retired" THEN "freed" ELSE entry[s]]
      /\ retired' = <<>> /\ pc' \in {"crashed", "timers"} /\ \A s \in Socks : batch[s] = <<>>
      /\ UNCHANGED <<peer, inq, outq, sent, nospace, edge, status, fd, rlist, wlist, writable>>
      /\ UNCHANGED <<handle, got, written, writeable, batch, cur>>
  BY DEF EndBatch, kernel, sockBuf, history
<1>2. TypeOK'
  BY <1>1 DEF IInv, TypeOK
<1>3. \A t \in Socks : (Polled(t)' <=> Polled(t)) /\ (entry'[t] = "none" <=> entry[t] = "none")
  BY <1>1 DEF Polled
<1>4. WritableMeansData' /\ BatchDone' /\ ClosedInHand'
  BY <1>1, Sockets DEF IInv, WritableMeansData, BatchDone, ClosedInHand
<1>5. Accepted'
  BY <1>1, <1>3, Sockets DEF IInv, Accepted
<1>6. InputOK' /\ OutputOK'
  BY <1>1, <1>3, Sockets DEF IInv, InputOK, OutputOK, Marked
<1>7. QED
  BY <1>2, <1>4, <1>5, <1>6 DEF IInv

\* The events of a socket whose entry was retired are dropped.
LEMMA SkippedStep ==
  ASSUME IInv, NEW s \in Socks, Dispatch(s), Skipped(s)
  PROVE  IInv'
<1>1. /\ batch' = [batch EXCEPT ![s] = <<>>] /\ cur' = NULL /\ cur \in {NULL, s}
      /\ pc = "dispatch" /\ entry[s] = "retired"
      /\ UNCHANGED <<peer, inq, outq, sent, nospace, edge, status, fd, rlist, wlist, writable>>
      /\ UNCHANGED <<handle, got, written, entry, retired, writeable, pc>>
  BY DEF Dispatch, Skipped, kernel, sockBuf, history, pollVars
<1>2. /\ batch' \in [Socks -> Seq({"err", "in", "out"})] /\ batch'[s] = <<>>
      /\ \A t \in Socks \ {s} : batch'[t] = batch[t]
  <2>1. <<>> \in Seq({"err", "in", "out"})
    OBVIOUS
  <2>2. QED
    BY <1>1, <2>1 DEF IInv, TypeOK
<1>3. TypeOK'
  BY <1>1, <1>2 DEF IInv, TypeOK
<1>4. \A t : (Polled(t)' <=> Polled(t)) /\ (Marked(t)' <=> Marked(t))
  BY <1>1 DEF Polled, Marked
<1>5. ~Polled(s)
  BY <1>1 DEF Polled
<1>6. WritableMeansData' /\ BatchDone'
  BY <1>1, <1>2 DEF IInv, WritableMeansData, BatchDone
<1>7. Accepted'
  BY <1>1, <1>2, Sockets DEF IInv, Accepted
<1>8. ClosedInHand'
  BY <1>1, <1>2, Sockets DEF IInv, ClosedInHand
<1>9. InputOK' /\ OutputOK'
  BY <1>1, <1>2, <1>4, <1>5, Sockets DEF IInv, InputOK, OutputOK
<1>10. QED
  BY <1>3, <1>6, <1>7, <1>8, <1>9 DEF IInv

\* What an event of s comes to, be it for Out or for In.
Handled(s) ==
  /\ SockType' /\ Elsewhere(s) /\ UNCHANGED <<peer, sent, handle>>
  /\ writeable' \in Seq(Socks) /\ (pc' = pc \/ pc' = "spin")
  /\ \A t \in Socks : status[t] = "CONNECTED" => status'[t] = "CONNECTED"
  /\ writable'[s] <=> wlist'[s] > 0
  /\ \A t : Marked(t) => Marked(t)'
  /\ fd'[s] = "open" => edge'[s] = edge[s] /\ fd[s] = "open"
  /\ fd'[s] = "closed" /\ handle[s] => fd[s] = "closed" \/ entry'[s] = "retired"
  /\ entry[s] # "none" => entry'[s] # "none"
  /\ entry'[s] = "live" => entry[s] = "live"
  /\ status[s] = "CONNECTED" /\ fd'[s] = "open" =>
       \/ /\ Head(batch[s]) = "out" /\ inq'[s] = inq[s]
          /\ wlist'[s] > 0 => nospace'[s]
       \/ /\ Head(batch[s]) # "out" /\ inq'[s] = 0
          /\ nospace'[s] = nospace[s] /\ outq'[s] = outq[s]
          /\ wlist'[s] > 0 /\ handle[s] => wlist[s] > 0 \/ Marked(s)'

LEMMA DispatchFacts ==
  ASSUME IInv, NEW s \in Socks, Dispatch(s), ~Skipped(s)
  PROVE  /\ Handled(s) /\ pc = "dispatch" /\ batch[s] # <<>> /\ cur \in {NULL, s}
         /\ batch' \in [Socks -> Seq({"err", "in", "out"})] /\ cur' \in Socks \cup {NULL}
         /\ \A t \in Socks \ {s} : batch'[t] = batch[t]
         /\ \A x : Occurs(batch[s], x) => x = Head(batch[s]) \/ Occurs(batch'[s], x)
         /\ batch'[s] # <<>> => cur' = s
<1> DEFINE E == {"err", "in", "out"}
<1>1. /\ pc = "dispatch" /\ batch[s] # <<>> /\ cur \in {NULL, s}
      /\ batch' = [batch EXCEPT ![s] = Tail(batch[s])]
      /\ cur' = IF Tail(batch[s]) = <<>> THEN NULL ELSE s
  BY DEF Dispatch
<1>2. batch \in [Socks -> Seq(E)] /\ batch[s] \in Seq(E)
  BY DEF IInv, TypeOK
<1> HIDE DEF E
<1>3. /\ Tail(batch[s]) \in Seq(E)
      /\ \A x : Occurs(batch[s], x) => x = Head(batch[s]) \/ Occurs(Tail(batch[s]), x)
  BY <1>1, <1>2, OccursTail
<1>4. /\ batch' \in [Socks -> Seq(E)] /\ batch'[s] = Tail(batch[s])
      /\ \A t \in Socks \ {s} : batch'[t] = batch[t]
  BY <1>1, <1>2, <1>3, ExceptFacts
<1>5. TypeOK /\ WritableMeansData /\ writeable \in Seq(Socks)
  BY DEF IInv, TypeOK
<1>6. Handled(s)
  <2>1. CASE Head(batch[s]) = "out" /\ Out(s) /\ UNCHANGED writeable
    <3>1. \A t : Marked(t) => Marked(t)'
      BY <2>1 DEF Marked
    <3>2. fd'[s] = "open" => fd'[s] # "closed"
      OBVIOUS
    <3>3. inq'[s] = inq[s]
      BY <1>5, <2>1, OutFacts
    <3>4. QED
      BY <1>5, <2>1, <3>1, <3>2, <3>3, OutFacts DEF Handled
  <2>2. CASE Head(batch[s]) # "out" /\ In(s)
    <3>1. nospace'[s] = nospace[s] /\ outq'[s] = outq[s] /\ status' = status
      BY <1>5, <2>2, InFacts
    <3>2. QED
      BY <1>5, <2>2, <3>1, InFacts DEF Handled
  <2>3. QED
    BY <1>1, <2>1, <2>2 DEF Dispatch
<1>7. QED
  BY <1>1, <1>3, <1>4, <1>6 DEF E

LEMMA DispatchStep ==
  ASSUME IInv, NEW s \in Socks, Dispatch(s), ~Skipped(s)
  PROVE  IInv'
<1>1. /\ Handled(s) /\ pc = "dispatch" /\ batch[s] # <<>> /\ cur \in {NULL, s}
      /\ batch' \in [Socks -> Seq({"err", "in", "out"})] /\ cur' \in Socks \cup {NULL}
      /\ \A t \in Socks \ {s} : batch'[t] = batch[t]
      /\ \A x : Occurs(batch[s], x) => x = Head(batch[s]) \/ Occurs(batch'[s], x)
      /\ batch'[s] # <<>> => cur' = s
  BY DispatchFacts
<1>2. TypeOK'
  BY <1>1 DEF Handled, SockType, IInv, TypeOK
<1>3. WritableMeansData'
  BY <1>1 DEF Handled, Elsewhere, IInv, WritableMeansData
<1>4. BatchDone'
  BY <1>1 DEF Handled, BatchDone
<1>5. ASSUME NEW t \in Socks, t # s
      PROVE  /\ Polled(t)' <=> Polled(t)
             /\ peer'[t] = peer[t] /\ inq'[t] = inq[t] /\ outq'[t] = outq[t]
             /\ nospace'[t] = nospace[t] /\ edge'[t] = edge[t] /\ wlist'[t] = wlist[t]
             /\ fd'[t] = fd[t] /\ entry'[t] = entry[t] /\ handle'[t] = handle[t]
             /\ batch'[t] = batch[t] /\ (Marked(t) => Marked(t)')
  BY <1>1, <1>5 DEF Handled, Elsewhere, Polled
<1>6. ASSUME s \in Servers
      PROVE  /\ status[s] = "CONNECTED" /\ entry[s] # "none" /\ handle[s] /\ peer[s] # "none"
             /\ entry'[s] # "none" /\ handle'[s] /\ peer'[s] = peer[s]
  BY <1>1, <1>6 DEF Handled, IInv, Accepted
<1>7. Accepted'
  <2>1. \A t \in Servers : status'[t] = "CONNECTED"
    BY <1>1, Sockets DEF Handled, IInv, Accepted
  <2>2. QED
    BY <1>5, <1>6, <2>1, Sockets DEF IInv, Accepted
<1>8. ClosedInHand'
  <2>1. ASSUME s \in Servers, fd'[s] = "closed", batch'[s] # <<>>
        PROVE  entry'[s] = "retired" /\ cur' = s
    <3>1. fd[s] # "closed"
      BY <1>1, <2>1 DEF Skipped, IInv, ClosedInHand
    <3>2. QED
      BY <1>1, <1>6, <2>1, <3>1 DEF Handled
  <2>2. ASSUME NEW t \in Servers, t # s, fd[t] = "closed", batch[t] # <<>>
        PROVE  FALSE
    BY <1>1, <2>2, Sockets DEF IInv, ClosedInHand
  <2>3. QED
    BY <1>5, <2>1, <2>2, Sockets DEF ClosedInHand
<1>9. ASSUME s \in Servers, Polled(s)'
      PROVE  Polled(s) /\ edge'[s] = edge[s] /\ fd'[s] = "open"
  BY <1>1, <1>9 DEF Handled, Polled
<1>10. InputOK'
  <2>1. ASSUME s \in Servers, Polled(s)', inq'[s] > 0
        PROVE  edge'[s] \/ Occurs(batch'[s], "in")
    <3>1. Head(batch[s]) = "out" /\ inq'[s] = inq[s]
      BY <1>1, <1>6, <1>9, <2>1 DEF Handled
    <3>2. edge[s] \/ Occurs(batch[s], "in")
      BY <1>9, <2>1, <3>1 DEF IInv, InputOK
    <3>3. QED
      BY <1>1, <1>9, <2>1, <3>1, <3>2
  <2>2. QED
    BY <1>5, <2>1, Sockets DEF IInv, InputOK
<1>11. OutputOK'
  <2>1. ASSUME s \in Servers, Polled(s)', wlist'[s] > 0, ~Marked(s)', ~nospace'[s]
        PROVE  (edge'[s] \/ Occurs(batch'[s], "out")) /\ (peer'[s] = "rst" \/ outq'[s] < Room)
    <3>1. /\ Head(batch[s]) # "out" /\ wlist[s] > 0 /\ ~Marked(s)
          /\ nospace'[s] = nospace[s] /\ outq'[s] = outq[s]
      BY <1>1, <1>6, <1>9, <2>1 DEF Handled
    <3>2. (edge[s] \/ Occurs(batch[s], "out")) /\ (peer[s] = "rst" \/ outq[s] < Room)
      BY <1>9, <2>1, <3>1 DEF IInv, OutputOK
    <3>3. QED
      BY <1>1, <1>6, <1>9, <2>1, <3>1, <3>2
  <2>2. QED
    BY <1>5, <2>1, Sockets DEF IInv, OutputOK
<1>12. QED
  BY <1>2, <1>3, <1>4, <1>7, <1>8, <1>10, <1>11 DEF IInv

----------------------------------------------------------------------------
LEMMA IndInit == Init => IInv
<1> SUFFICES ASSUME Init PROVE IInv
  OBVIOUS
<1>1. /\ inq = [s \in Socks |-> 0] /\ outq = inq /\ sent = inq /\ rlist = inq /\ wlist = inq
      /\ got = inq /\ written = inq
      /\ nospace = [s \in Socks |-> FALSE] /\ edge = nospace /\ writable = nospace
      /\ handle = nospace
      /\ peer = [s \in Socks |-> "none"] /\ fd = [s \in Socks |-> "open"]
      /\ status = [s \in Socks |-> IF s \in Servers THEN "CONNECTED" ELSE "INIT"]
      /\ entry = [s \in Socks |-> "none"] /\ batch = [s \in Socks |-> <<>>]
      /\ writeable = <<>> /\ retired = <<>> /\ cur = NULL /\ pc = "timers"
  BY DEF Init
<1>2. TypeOK
  <2>1. /\ 0 \in Nat /\ 0 \in 0..Room /\ \A s \in Socks : 0 <= MaxIn[s]
    BY Sockets
  <2>2. <<>> \in Seq(Socks) /\ <<>> \in Seq({"err", "in", "out"})
    OBVIOUS
  <2>3. /\ inq \in [Socks -> Nat] /\ outq \in [Socks -> 0..Room]
        /\ \A s \in Socks : inq[s] <= sent[s] /\ sent[s] <= MaxIn[s]
    BY <1>1, <2>1
  <2>4. QED
    BY <1>1, <2>2, <2>3 DEF TypeOK
<1>3. \A s \in Socks : ~Polled(s) /\ ~(wlist[s] > 0)
  BY <1>1 DEF Polled
<1>4. WritableMeansData /\ BatchDone /\ InputOK /\ OutputOK
  BY <1>1, <1>3, Sockets DEF WritableMeansData, BatchDone, InputOK, OutputOK
<1>5. Accepted /\ ClosedInHand
  BY <1>1, Sockets DEF Accepted, ClosedInHand
<1>6. QED
  BY <1>2, <1>4, <1>5 DEF IInv

LEMMA IndNext == IInv /\ [Next]_vars => IInv'
<1> SUFFICES ASSUME IInv, [Next]_vars PROVE IInv'
  OBVIOUS
<1>1. ASSUME NEW s \in Socks, PeerSend(s) \/ PeerRead(s) \/ PeerEnds(s) \/ ConnectDone(s)
      PROVE  IInv'
  BY <1>1, PeerSendStep, PeerReadStep, PeerEndsStep, ConnectDoneStep
<1>2. ASSUME NEW s \in Socks, CreateServerSocket(s) \/ Register(s) \/ Connect(s) \/ AppWrite(s)
      PROVE  IInv'
  BY <1>2, CreateServerSocketStep, RegisterStep, ConnectStep, AppWriteStep
<1>3. CASE StartPoll \/ FlushWriteable \/ EpollWait \/ EndBatch
  BY <1>3, StartPollStep, FlushWriteableStep, EpollWaitStep, EndBatchStep
<1>4. ASSUME NEW s \in Socks, Dispatch(s) PROVE IInv'
  BY <1>4, SkippedStep, DispatchStep
<1>5. CASE UNCHANGED vars
  <2>1. /\ UNCHANGED <<peer, inq, outq, sent, nospace, edge, status, fd, rlist, wlist, writable>>
        /\ UNCHANGED <<handle, got, written, entry, retired, writeable, batch, cur, pc>>
    BY <1>5 DEF vars, kernel, sockBuf, history, pollVars
  <2>2. TypeOK'
    BY <2>1 DEF IInv, TypeOK
  <2>3. QED
    BY <2>1, <2>2 DEF IInv, WritableMeansData, Accepted, BatchDone, ClosedInHand, OutputOK,
                      InputOK, Polled, Marked
<1>6. QED
  BY <1>1, <1>2, <1>3, <1>4, <1>5 DEF Next, Kernel, App, Poll

LEMMA Invariance == Spec => []IInv
<1> QED
  BY IndInit, IndNext, PTL DEF Spec

\* The values of the poller and its sockets stay in their ranges: no counter
\* of Recv or Send goes below zero, and no send buffer is filled beyond Room.
THEOREM TypeCorrect == Spec => []TypeOK
<1>1. IInv => TypeOK
  BY DEF IInv
<1>2. QED
  BY <1>1, Invariance, PTL

\* is_writable_ is set exactly as long as write_list_ has data.
THEOREM FlagIsData == Spec => []WritableMeansData
<1>1. IInv => WritableMeansData
  BY DEF IInv
<1>2. QED
  BY <1>1, Invariance, PTL

\* As long as the kernel holds input of a registered accepted socket, epoll
\* has an event to report for it or has reported one.
THEOREM InputKept == Spec => []NoLostInput
<1>1. IInv => NoLostInput
  BY DEF IInv, InputOK, NoLostInput, Reported, Occurs
<1>2. QED
  BY <1>1, Invariance, PTL

\* As long as an accepted socket has data to send, it is in writeable_list_
\* or the kernel will tell of, or has told of, room for it.
THEOREM OutputKept == Spec => []NoLostOutput
<1>1. IInv => NoLostOutput
  <2>1. ASSUME IInv, NEW s \in Servers, Polled(s), wlist[s] > 0 PROVE OutputPending(s)
    <3>1. Marked(s) \/ nospace[s] \/ edge[s] \/ Occurs(batch[s], "out")
      BY <2>1 DEF IInv, OutputOK
    <3>2. QED
      BY <3>1 DEF OutputPending, Reported, Marked, Occurs
  <2>2. QED
    BY <2>1 DEF NoLostOutput
<1>2. QED
  BY <1>1, Invariance, PTL

\* While a closed socket has events left in the batch, no step is one of
\* its handlers, nor retires it again.
THEOREM ClosedLeftAlone == Spec => NotDispatchedClosed
<1>1. ASSUME IInv, [Next]_vars, NEW s \in Servers, fd[s] = "closed", batch[s] # <<>>
      PROVE  UNCHANGED <<rlist, wlist, got>> /\ Retirements(s)' = Retirements(s)
  <2>1. s \in Socks /\ entry[s] = "retired" /\ cur = s /\ pc \notin {"timers", "flush"}
    BY <1>1, Sockets DEF IInv, ClosedInHand, BatchDone
  <2>2. cur # NULL
    BY <2>1, Sockets
  <2>3. UNCHANGED <<rlist, wlist, got, retired>>
    <3>1. ASSUME NEW t \in Socks, PeerSend(t) \/ PeerRead(t) \/ PeerEnds(t) \/ ConnectDone(t)
          PROVE  UNCHANGED <<rlist, wlist, got, retired>>
      <4>1. KernelStep(t)
        BY <3>1 DEF PeerSend, PeerRead, PeerEnds, ConnectDone
      <4>2. QED
        BY <4>1 DEF KernelStep, sockBuf, history, pollVars
    <3>2. ASSUME NEW t \in Socks, CreateServerSocket(t) \/ Register(t) \/ Connect(t)
          PROVE  UNCHANGED <<rlist, wlist, got, retired>>
      BY <3>2 DEF CreateServerSocket, Register, Connect, sockBuf, history, pollVars
    <3>3. ~\E t \in Socks : AppWrite(t)
      BY <2>1, <2>2 DEF AppWrite, InCallback
    <3>4. ~(StartPoll \/ FlushWriteable \/ EpollWait \/ EndBatch)
      BY <1>1, <2>1 DEF StartPoll, FlushWriteable, EpollWait, EndBatch
    <3>5. ASSUME NEW t \in Socks, Dispatch(t) PROVE UNCHANGED <<rlist, wlist, got, retired>>
      <4>1. t = s
        BY <2>1, <2>2, <3>5 DEF Dispatch
      <4>2. QED
        BY <2>1, <3>5, <4>1 DEF Dispatch, Skipped, sockBuf, history, pollVars
    <3>6. CASE UNCHANGED vars
      BY <3>6 DEF vars, sockBuf, history, pollVars
    <3>7. QED
      BY <1>1, <3>1, <3>2, <3>3, <3>4, <3>5, <3>6 DEF Next, Kernel, App, Poll
  <2>4. QED
    BY <2>3 DEF Retirements
<1>2. IInv /\ [Next]_vars
        => [\A s \in Servers :
              fd[s] = "closed" /\ batch[s] # <<>>
                => /\ UNCHANGED <<rlist, wlist, got>>
                   /\ Retirements(s)' = Retirements(s)]_vars
  BY <1>1
<1>3. QED
  BY <1>2, Invariance, PTL DEF Spec, NotDispatchedClosed
=============================================================================
