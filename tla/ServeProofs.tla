---------------------------- MODULE ServeProofs ----------------------------
(***************************************************************************)
(* Start-up, for every number of workers and every set of services: a new  *)
(* thread only touches the frame of the Start that waits for it, and once  *)
(* main is in Run every endpoint has the methods of all its services.      *)
(***************************************************************************)
EXTENDS Serve, SequenceTheorems, TLAPS

\* frame, mpc and state are what they are said to be.
StartType ==
  /\ frame \in [worker : Workers, at : {"none", "created", "locked"}] /\ lock \in BOOLEAN
  /\ mpc \in [Workers -> {"none", "entry", "unlock", "run"}]
  /\ state \in [Workers -> {"None", "Running"}] /\ workers \in 0..NWorkers

\* Workers are started one after the other; the next one is in its Start.
OneByOne ==
  /\ \A w \in Workers : (w < workers => Runs(w)) /\ (w > workers => mpc[w] = "none")
  /\ frame.at = "none" => \A w \in Workers : w >= workers => mpc[w] = "none"
  /\ frame.at # "none" => frame.worker = workers

\* The lock is held until the new thread releases it, which it does last.
LockHeld ==
  /\ \A w \in Workers : mpc[w] \in {"unlock", "run"} => state[w] = "Running"
  /\ frame.at = "created" =>
       mpc[frame.worker] \in {"entry", "unlock", "run"} /\ (lock <=> mpc[frame.worker] # "run")
  /\ frame.at = "locked" => mpc[frame.worker] = "run"

StartInv == StartType /\ OneByOne /\ LockHeld

\* Each endpoint has the methods of the services added to it so far.
Registry == methods = [l \in Listeners |-> {s \in added : EndpointOf[s] = l}]

ServeInv == StartInv /\ added \subseteq Services /\ Registry

----------------------------------------------------------------------------
(* What is in a backlog, and whether only once, after push_back and the    *)
(* like.                                                                   *)

LEMMA RangeAppend ==
  ASSUME NEW S, NEW q \in Seq(S), NEW e \in S
  PROVE  /\ Append(q, e) \in Seq(S) /\ Range(Append(q, e)) = Range(q) \cup {e}
         /\ IsInjective(q) /\ e \notin Range(q) => IsInjective(Append(q, e))
<1>1. /\ Append(q, e) \in Seq(S) /\ DOMAIN Append(q, e) = 1..(Len(q) + 1)
      /\ DOMAIN q = 1..Len(q) /\ Len(q) \in Nat
      /\ \A i \in 1..Len(q) : Append(q, e)[i] = q[i]
      /\ Append(q, e)[Len(q) + 1] = e
  BY AppendProperties
<1>2. \A i \in 1..(Len(q) + 1) : i \in 1..Len(q) \/ i = Len(q) + 1
  BY <1>1
<1>3. Len(q) + 1 \in 1..(Len(q) + 1) /\ \A i \in 1..Len(q) : i \in 1..(Len(q) + 1)
  BY <1>1
<1>4. Range(Append(q, e)) = Range(q) \cup {e}
  BY <1>1, <1>2, <1>3 DEF Range
<1>5. ASSUME IsInjective(q), e \notin Range(q) PROVE IsInjective(Append(q, e))
  BY <1>1, <1>2, <1>5 DEF Range, IsInjective
<1>6. QED
  BY <1>1, <1>4, <1>5

LEMMA RangeConcat ==
  ASSUME NEW S, NEW q \in Seq(S), NEW t \in Seq(S)
  PROVE  /\ q \o t \in Seq(S) /\ Range(q \o t) = Range(q) \cup Range(t)
         /\ IsInjective(q) /\ IsInjective(t) /\ Range(q) \cap Range(t) = {}
              => IsInjective(q \o t)
<1>1. /\ q \o t \in Seq(S) /\ DOMAIN (q \o t) = 1..(Len(q) + Len(t))
      /\ DOMAIN q = 1..Len(q) /\ DOMAIN t = 1..Len(t) /\ Len(q) \in Nat /\ Len(t) \in Nat
      /\ \A i \in 1..(Len(q) + Len(t)) :
           (q \o t)[i] = IF i <= Len(q) THEN q[i] ELSE t[i - Len(q)]
  BY ConcatProperties
<1>2. \A i \in 1..(Len(q) + Len(t)) :
        \/ i \in 1..Len(q) /\ (q \o t)[i] = q[i]
        \/ i - Len(q) \in 1..Len(t) /\ (q \o t)[i] = t[i - Len(q)]
  BY <1>1
<1>3. Range(q \o t) = Range(q) \cup Range(t)
  <2>1. \A i \in 1..Len(q) : i \in 1..(Len(q) + Len(t)) /\ (q \o t)[i] = q[i]
    BY <1>1
  <2>2. \A i \in 1..Len(t) : /\ Len(q) + i \in 1..(Len(q) + Len(t))
                             /\ (q \o t)[Len(q) + i] = t[i]
    BY <1>1
  <2>3. ASSUME NEW x \in Range(q \o t) PROVE x \in Range(q) \cup Range(t)
    <3>1. PICK i \in 1..(Len(q) + Len(t)) : x = (q \o t)[i]
      BY <1>1 DEF Range
    <3>2. \/ i \in 1..Len(q) /\ x = q[i]
          \/ i - Len(q) \in 1..Len(t) /\ x = t[i - Len(q)]
      BY <1>2, <3>1
    <3>3. QED
      BY <1>1, <3>2 DEF Range
  <2>4. ASSUME NEW x \in Range(q) PROVE x \in Range(q \o t)
    <3>1. PICK i \in 1..Len(q) : x = q[i]
      BY <1>1 DEF Range
    <3>2. i \in DOMAIN (q \o t) /\ (q \o t)[i] = x
      BY <1>1, <2>1, <3>1
    <3>3. QED
      BY <3>2 DEF Range
  <2>5. ASSUME NEW x \in Range(t) PROVE x \in Range(q \o t)
    <3>1. PICK i \in 1..Len(t) : x = t[i]
      BY <1>1 DEF Range
    <3>2. Len(q) + i \in DOMAIN (q \o t) /\ (q \o t)[Len(q) + i] = x
      BY <1>1, <2>2, <3>1
    <3>3. QED
      BY <3>2 DEF Range
  <2>6. QED
    BY <2>3, <2>4, <2>5
<1>4. ASSUME IsInjective(q), IsInjective(t), Range(q) \cap Range(t) = {},
             NEW i \in 1..(Len(q) + Len(t)), NEW j \in 1..(Len(q) + Len(t)),
             (q \o t)[i] = (q \o t)[j]
      PROVE  i = j
  <2>1. CASE i \in 1..Len(q) /\ (q \o t)[i] = q[i] /\ j \in 1..Len(q) /\ (q \o t)[j] = q[j]
    BY <1>1, <1>4, <2>1 DEF IsInjective
  <2>2. CASE /\ i - Len(q) \in 1..Len(t) /\ (q \o t)[i] = t[i - Len(q)]
             /\ j - Len(q) \in 1..Len(t) /\ (q \o t)[j] = t[j - Len(q)]
    <3>1. i - Len(q) = j - Len(q)
      BY <1>1, <1>4, <2>2 DEF IsInjective
    <3>2. QED
      BY <1>1, <3>1
  <2>3. CASE /\ i \in 1..Len(q) /\ (q \o t)[i] = q[i]
             /\ j - Len(q) \in 1..Len(t) /\ (q \o t)[j] = t[j - Len(q)]
    BY <1>1, <1>4, <2>3 DEF Range
  <2>4. CASE /\ j \in 1..Len(q) /\ (q \o t)[j] = q[j]
             /\ i - Len(q) \in 1..Len(t) /\ (q \o t)[i] = t[i - Len(q)]
    BY <1>1, <1>4, <2>4 DEF Range
  <2>5. QED
    BY <1>2, <2>1, <2>2, <2>3, <2>4
<1>5. QED
  BY <1>1, <1>3, <1>4 DEF IsInjective

LEMMA InjectiveTail ==
  ASSUME NEW S, NEW q \in Seq(S), q # <<>>, IsInjective(q)
  PROVE  /\ Head(q) \in S /\ Head(q) \in Range(q) /\ Tail(q) \in Seq(S)
         /\ IsInjective(Tail(q)) /\ Range(Tail(q)) = Range(q) \ {Head(q)}
<1>1. /\ Head(q) \in S /\ Tail(q) \in Seq(S) /\ Head(q) = q[1]
      /\ Len(q) \in Nat \ {0} /\ DOMAIN q = 1..Len(q) /\ DOMAIN Tail(q) = 1..(Len(q) - 1)
      /\ \A i \in 1..(Len(q) - 1) : Tail(q)[i] = q[i + 1]
  BY EmptySeq, HeadTailProperties
<1>2. 1 \in 1..Len(q) /\ \A i \in 1..(Len(q) - 1) : i + 1 \in 1..Len(q) /\ i + 1 # 1
  BY <1>1
<1>3. \A i \in 1..Len(q) : i = 1 \/ (i - 1 \in 1..(Len(q) - 1) /\ q[i] = Tail(q)[i - 1])
  BY <1>1
<1>4. Head(q) \in Range(q)
  BY <1>1, <1>2 DEF Range
<1>5. ASSUME NEW x \in Range(Tail(q)) PROVE x \in Range(q) \ {Head(q)}
  <2>1. PICK i \in 1..(Len(q) - 1) : x = q[i + 1]
    BY <1>1 DEF Range
  <2>2. QED
    BY <1>1, <1>2, <2>1 DEF Range, IsInjective
<1>6. ASSUME NEW x \in Range(q) \ {Head(q)} PROVE x \in Range(Tail(q))
  <2>1. PICK i \in 1..Len(q) : x = q[i]
    BY <1>1 DEF Range
  <2>2. QED
    BY <1>1, <1>3, <2>1 DEF Range
<1>7. ASSUME NEW i \in 1..(Len(q) - 1), NEW j \in 1..(Len(q) - 1), Tail(q)[i] = Tail(q)[j]
      PROVE  i = j
  <2>1. i + 1 = j + 1
    BY <1>1, <1>2, <1>7 DEF IsInjective
  <2>2. QED
    BY <1>1, <2>1
<1>8. QED
  BY <1>1, <1>4, <1>5, <1>6, <1>7 DEF IsInjective

----------------------------------------------------------------------------
LEMMA WorkersRange ==
  /\ NWorkers \in Nat \ {0} /\ Workers \subseteq Nat
  /\ \A w \in Nat : w < NWorkers => w \in Workers
BY WorkersAssumption DEF Workers

LEMMA CreateStep ==
  ASSUME StartInv, Create
  PROVE  StartInv'
<1>1. /\ workers \in Workers /\ frame.at = "none" /\ mpc[workers] = "none"
      /\ frame' = [worker |-> workers, at |-> "created"] /\ lock' = TRUE
      /\ mpc' = [mpc EXCEPT ![workers] = "entry"] /\ UNCHANGED <<state, workers>>
  <2>1. workers \in Workers
    BY WorkersRange DEF Create, AllStarted, StartInv, StartType
  <2>2. workers >= workers
    BY <2>1, WorkersRange
  <2>3. QED
    BY <2>1, <2>2 DEF Create, StartInv, OneByOne
<1>2. StartType'
  BY <1>1 DEF StartInv, StartType
<1>3. OneByOne'
  BY <1>1, WorkersRange DEF StartInv, StartType, OneByOne, Runs
<1>4. LockHeld'
  BY <1>1 DEF StartInv, StartType, LockHeld
<1>5. QED
  BY <1>2, <1>3, <1>4 DEF StartInv

LEMMA SecondLockStep ==
  ASSUME StartInv, SecondLock
  PROVE  StartInv'
<1>1. /\ frame.at = "created" /\ mpc[frame.worker] = "run"
      /\ frame' = [worker |-> frame.worker, at |-> "locked"] /\ lock' = TRUE
      /\ UNCHANGED <<mpc, state, workers>>
  BY DEF SecondLock, StartInv, StartType, LockHeld
<1>2. StartType'
  BY <1>1 DEF StartInv, StartType
<1>3. OneByOne'
  BY <1>1 DEF StartInv, OneByOne, Runs
<1>4. LockHeld'
  BY <1>1 DEF StartInv, LockHeld
<1>5. QED
  BY <1>2, <1>3, <1>4 DEF StartInv

LEMMA StartReturnStep ==
  ASSUME StartInv, StartReturn
  PROVE  StartInv'
<1>1. /\ frame.at = "locked" /\ frame.worker = workers /\ workers \in Workers
      /\ mpc[workers] = "run" /\ state[workers] = "Running"
      /\ frame' = [worker |-> workers, at |-> "none"] /\ workers' = workers + 1
      /\ UNCHANGED <<lock, mpc, state>>
  BY DEF StartReturn, StartInv, StartType, OneByOne, LockHeld
<1>2. StartType'
  BY <1>1, WorkersAssumption DEF StartInv, StartType, Workers
<1>3. OneByOne'
  <2>1. \A w \in Workers : (w < workers + 1 => w < workers \/ w = workers)
                            /\ (w >= workers + 1 <=> w > workers)
    BY <1>1, WorkersRange
  <2>2. QED
    BY <1>1, <2>1, WorkersRange DEF StartInv, OneByOne, Runs
<1>4. LockHeld'
  BY <1>1 DEF StartInv, LockHeld
<1>5. QED
  BY <1>2, <1>3, <1>4 DEF StartInv

\* A thread on its way to Run is that of the Start under way.
LEMMA Own ==
  ASSUME StartInv, NEW w \in Workers, mpc[w] \in {"entry", "unlock"}
  PROVE  frame = [worker |-> w, at |-> "created"] /\ w = workers
<1>1. ~(w < workers) /\ ~(w > workers)
  BY DEF StartInv, OneByOne, Runs
<1>2. w = workers
  BY <1>1, WorkersRange DEF StartInv, StartType
<1>3. frame.at # "none"
  BY <1>2, WorkersRange DEF StartInv, OneByOne
<1>4. frame.worker = w /\ frame.at = "created"
  BY <1>2, <1>3 DEF StartInv, StartType, OneByOne, LockHeld
<1>5. QED
  BY <1>2, <1>4 DEF StartInv, StartType

LEMMA StartedStep ==
  ASSUME StartInv, NEW w \in Workers, Started(w)
  PROVE  StartInv'
<1>1. w = workers /\ frame.at = "created" /\ frame.worker = w
  BY Own DEF Started, ThreadEntry, ThreadUnLock
<1>2. CASE ThreadEntry(w)
  <2>1. /\ mpc[w] = "entry" /\ mpc' = [mpc EXCEPT ![w] = "unlock"]
        /\ state' = [state EXCEPT ![w] = "Running"] /\ UNCHANGED <<frame, lock, workers>>
    BY <1>2 DEF ThreadEntry
  <2>2. StartType' /\ LockHeld'
    BY <1>1, <2>1 DEF StartInv, StartType, LockHeld
  <2>3. OneByOne'
    BY <1>1, <2>1, WorkersRange DEF StartInv, StartType, OneByOne, Runs
  <2>4. QED
    BY <2>2, <2>3 DEF StartInv
<1>3. CASE ThreadUnLock(w)
  <2>1. /\ mpc[w] = "unlock" /\ mpc' = [mpc EXCEPT ![w] = "run"]
        /\ lock' = FALSE /\ UNCHANGED <<frame, state, workers>>
    BY <1>3 DEF ThreadUnLock
  <2>2. StartType' /\ LockHeld'
    BY <1>1, <2>1 DEF StartInv, StartType, LockHeld
  <2>3. OneByOne'
    BY <1>1, <2>1, WorkersRange DEF StartInv, StartType, OneByOne, Runs
  <2>4. QED
    BY <2>2, <2>3 DEF StartInv
<1>4. QED
  BY <1>2, <1>3 DEF Started

----------------------------------------------------------------------------
LEMMA AddRpcServiceStep ==
  ASSUME ServeInv, NEW s \in Services, AddRpcService(s)
  PROVE  ServeInv'
<1>1. Registry'
  <2>1. /\ added' = added \cup {s} /\ EndpointOf[s] \in Listeners
        /\ methods' = [methods EXCEPT ![EndpointOf[s]] = @ \cup {s}]
    BY ServeAssumption DEF AddRpcService, Registered
  <2>2. methods = [l \in Listeners |-> {t \in added : EndpointOf[t] = l}]
    BY DEF ServeInv, Registry
  <2>3. QED
    BY <2>1, <2>2 DEF Registry
<1>2. QED
  BY <1>1 DEF AddRpcService, startVars, ServeInv, StartInv, StartType, OneByOne, LockHeld, Runs

\* What the steps of Serve do to what main sets up.
SetUpStep ==
  \/ Starter /\ UNCHANGED <<added, methods>>
  \/ \E w \in Workers : Started(w) /\ UNCHANGED <<added, methods>>
  \/ \E s \in Services : AddRpcService(s)
  \/ UNCHANGED setUp

LEMMA ServeSteps ==
  ASSUME [Next]_vars
  PROVE  SetUpStep
<1>1. ASSUME NEW c \in Conns, NEW l \in Listeners, Arrive(c, l) PROVE SetUpStep
  BY <1>1 DEF Arrive, SetUpStep
<1>2. ASSUME NEW t \in Threads, Run(t) PROVE SetUpStep
  BY <1>2 DEF Run, SelectRead, SelectWrite, SendItem, SetUpStep
<1>3. CASE MainStep
  <2>1. ASSUME NEW l \in Listeners, Dispatch(l) PROVE SetUpStep
    BY <2>1 DEF Dispatch, SetUpStep
  <2>2. CASE Accept
    BY <2>2 DEF Accept, SetUpStep
  <2>3. QED
    BY <1>2, <1>3, <2>1, <2>2 DEF MainStep, InitWorkers, Threads, SetUpStep
<1>4. ASSUME NEW w \in Workers, WorkerStep(w) PROVE SetUpStep
  BY <1>4 DEF WorkerStep, Begin, Process, SetUpStep
<1>5. CASE UNCHANGED vars
  BY <1>5 DEF vars, setUp, SetUpStep
<1>6. QED
  BY <1>1, <1>2, <1>3, <1>4, <1>5 DEF Next, Threads

LEMMA ServeInit == Init => ServeInv
<1> SUFFICES ASSUME Init PROVE ServeInv
  OBVIOUS
<1>1. 0 \in Workers /\ Workers \subseteq Nat /\ NWorkers \in Nat
  BY WorkersRange
<1>2. StartType
  <2>1. frame \in [worker : Workers, at : {"none", "created", "locked"}] /\ workers \in 0..NWorkers
    BY <1>1 DEF Init, StartInit
  <2>2. QED
    BY <2>1 DEF Init, StartInit, StartType
<1>3. OneByOne /\ LockHeld
  BY <1>1 DEF Init, StartInit, OneByOne, LockHeld
<1>4. added \subseteq Services /\ Registry
  BY DEF Init, Registry
<1>5. QED
  BY <1>2, <1>3, <1>4 DEF ServeInv, StartInv

LEMMA ServeNext == ServeInv /\ [Next]_vars => ServeInv'
<1> SUFFICES ASSUME ServeInv, SetUpStep PROVE ServeInv'
  BY ServeSteps
<1>1. CASE UNCHANGED <<added, methods>> /\ StartInv'
  BY <1>1 DEF ServeInv, Registry
<1>2. CASE Starter /\ UNCHANGED <<added, methods>>
  BY <1>1, <1>2, CreateStep, SecondLockStep, StartReturnStep DEF Starter, ServeInv
<1>3. ASSUME NEW w \in Workers, Started(w), UNCHANGED <<added, methods>> PROVE ServeInv'
  BY <1>1, <1>3, StartedStep DEF ServeInv
<1>4. ASSUME NEW s \in Services, AddRpcService(s) PROVE ServeInv'
  BY <1>4, AddRpcServiceStep
<1>5. CASE UNCHANGED setUp
  <2>1. StartInv'
    BY <1>5 DEF setUp, startVars, ServeInv, StartInv, StartType, OneByOne, LockHeld, Runs
  <2>2. QED
    BY <1>1, <1>5, <2>1 DEF setUp
<1>6. QED
  BY <1>2, <1>3, <1>4, <1>5 DEF SetUpStep

----------------------------------------------------------------------------
\* No thread uses a Start's entry or lock after that Start has returned, and
\* every worker in workers_ has left Thread::main for its Run.
THEOREM FrameOutlives == Spec => []FrameAlive
<1>1. ServeInv => FrameAlive
  BY Own DEF ServeInv, StartInv, OneByOne, FrameAlive
<1>2. QED
  BY <1>1, ServeInit, ServeNext, PTL DEF Spec

\* In whatever order main adds its services, when it is in Run the RpcService
\* of each endpoint has the methods of all of them.
THEOREM Complete == Spec => []ServedInFull
<1>1. ServeInv => ServedInFull
  BY DEF ServeInv, Registry, ServedInFull, InRun
<1>2. QED
  BY <1>1, ServeInit, ServeNext, PTL DEF Spec

----------------------------------------------------------------------------
(* Items and their owners.  Every step leaves them or moves some items     *)
(* from one owner to another.                                              *)

\* The one owner of x, if S says what each owner of Os has.
Unique(S, Os, x) == \E o \in Os : \A p \in Os : x \in S[p] <=> p = o

LEMMA MovesKeep ==
  ASSUME NEW Os, NEW S, NEW T, NEW a \in Os, NEW b \in Os, a # b, NEW M, M \subseteq S[a],
         T[a] = S[a] \ M, T[b] = S[b] \cup M, \A o \in Os \ {a, b} : T[o] = S[o],
         NEW x, Unique(S, Os, x)
  PROVE  Unique(T, Os, x)
<1>1. PICK o \in Os : \A p \in Os : x \in S[p] <=> p = o
  BY DEF Unique
<1>2. CASE x \in M
  <2>1. o = a
    BY <1>1, <1>2
  <2>2. \A p \in Os : x \in T[p] <=> p = b
    BY <1>1, <1>2, <2>1
  <2>3. QED
    BY <2>2 DEF Unique
<1>3. CASE x \notin M
  <2>1. \A p \in Os : x \in T[p] <=> x \in S[p]
    BY <1>3
  <2>2. QED
    BY <1>1, <2>1 DEF Unique
<1>4. QED
  BY <1>2, <1>3

\* What each owner has.
Has == [o \in Owners |-> Range(Owned(o))]

\* Only arrived connections and channels asked for are anywhere, and a thread
\* in selectWorker has an item to hand over.
HandOver ==
  /\ OneOwner
  /\ \A o \in Owners : Has[o] \subseteq came \cup Dialers
  /\ \A t \in Threads : pc[t] = "idle" <=> item[t] = NULL

\* The owners without the CASE of Owned.
LEMMA Owning ==
  /\ \A l \in Listeners : <<"backlog", l>> \in Owners /\ Owned(<<"backlog", l>>) = backlog[l]
  /\ \A w \in Workers : <<"mailbox", w>> \in Owners /\ Owned(<<"mailbox", w>>) = mailbox[w]
  /\ \A w \in Workers : <<"bound", w>> \in Owners /\ Owned(<<"bound", w>>) = bound[w]
  /\ \A t \in Threads : /\ <<"thread", t>> \in Owners
                        /\ Owned(<<"thread", t>>) = IF item[t] = NULL THEN <<>> ELSE <<item[t]>>
  /\ \A o \in Owners : \/ o[1] = "backlog" /\ o[2] \in Listeners /\ o = <<"backlog", o[2]>>
                       \/ o[1] = "thread" /\ o[2] \in Threads /\ o = <<"thread", o[2]>>
                       \/ o[1] = "mailbox" /\ o[2] \in Workers /\ o = <<"mailbox", o[2]>>
                       \/ o[1] = "bound" /\ o[2] \in Workers /\ o = <<"bound", o[2]>>
BY DEF Owners, Owned

\* Items M move from a to b.
LEMMA HandOverMoves ==
  ASSUME HandOver, TypeOK', NEW a \in Owners, NEW b \in Owners, a # b, NEW M,
         M \subseteq Has[a], Has'[a] = Has[a] \ M, Has'[b] = Has[b] \cup M,
         \A o \in Owners \ {a, b} : Owned(o)' = Owned(o),
         IsInjective(Owned(a)'), IsInjective(Owned(b)'), came' = came,
         (\A t \in Threads : pc[t] = "idle" <=> item[t] = NULL)'
  PROVE  HandOver'
<1>1. \A o \in Owners \ {a, b} : Has'[o] = Has[o]
  BY DEF Has
<1>2. ASSUME NEW x \in came \cup Dialers PROVE Unique(Has', Owners, x)
  <2>1. Unique(Has, Owners, x)
    BY <1>2 DEF HandOver, OneOwner, Unique, Has
  <2>2. QED
    BY <1>1, <2>1, MovesKeep
<1>3. \A o \in Owners : IsInjective(Owned(o)')
  BY DEF HandOver, OneOwner
<1>4. OneOwner'
  BY <1>2, <1>3 DEF OneOwner, Unique, Has
<1>5. \A o \in Owners : Has'[o] \subseteq came \cup Dialers
  BY <1>1 DEF HandOver
<1>6. QED
  BY <1>4, <1>5 DEF HandOver

\* The types of everything but what main sets up.
HandTypes ==
  /\ backlog \in [Listeners -> Seq(Conns)] /\ came \subseteq Conns
  /\ edge \subseteq Listeners /\ in \in Listeners \cup {NULL} /\ index \in Workers
  /\ pc \in [Threads -> {"idle", "read", "write", "pick"}] /\ tmp \in [Threads -> Workers]
  /\ item \in [Threads -> Items \cup {NULL}]
  /\ mailbox \in [Workers -> Seq(Items)] /\ bound \in [Workers -> Seq(Items)]

LEMMA Types ==
  ASSUME ServeInv, HandTypes
  PROVE  TypeOK
BY DEF ServeInv, StartInv, StartType, Registry, HandTypes, TypeOK

LEMMA ArriveStep ==
  ASSUME HandOver, NEW k \in Conns, NEW l \in Listeners, Arrive(k, l), TypeOK'
  PROVE  HandOver'
<1> DEFINE a == <<"backlog", l>>
<1>1. /\ k \notin came /\ came' = came \cup {k} /\ backlog' = [backlog EXCEPT ![l] = Append(@, k)]
      /\ UNCHANGED <<mailbox, bound, pc, item>> /\ backlog \in [Listeners -> Seq(Conns)]
  BY DEF Arrive, thread, HandOver, OneOwner, TypeOK
<1>2. a \in Owners /\ Owned(a) = backlog[l] /\ Owned(a)' = Append(backlog[l], k)
  BY <1>1, Owning DEF Owned
<1>3. \A o \in Owners \ {a} : Owned(o)' = Owned(o)
  BY <1>1, Owning DEF Owned
<1>4. \A o \in Owners : k \notin Has[o]
  <2>1. k \notin Dialers
    BY ServeAssumption
  <2>2. QED
    BY <1>1, <2>1 DEF HandOver
<1>5. /\ Has'[a] = Has[a] \cup {k} /\ IsInjective(Owned(a)')
      /\ \A o \in Owners \ {a} : Has'[o] = Has[o]
  <2>1. k \notin Range(backlog[l]) /\ IsInjective(backlog[l])
    BY <1>2, <1>4 DEF Has, HandOver, OneOwner
  <2>2. Range(Append(backlog[l], k)) = Range(backlog[l]) \cup {k} /\ IsInjective(Append(backlog[l], k))
    BY <1>1, <2>1, RangeAppend
  <2>3. QED
    BY <1>2, <1>3, <2>2 DEF Has
<1>6. ASSUME NEW x \in came' \cup Dialers PROVE Unique(Has', Owners, x)
  <2>1. CASE x = k
    BY <1>2, <1>4, <1>5, <2>1 DEF Unique
  <2>2. CASE x # k
    <3>1. Unique(Has, Owners, x)
      BY <1>1, <2>2 DEF HandOver, OneOwner, Unique, Has
    <3>2. QED
      BY <1>5, <2>2, <3>1 DEF Unique
  <2>3. QED
    BY <2>1, <2>2
<1>7. \A o \in Owners : IsInjective(Owned(o)') /\ Has'[o] \subseteq came' \cup Dialers
  BY <1>1, <1>3, <1>5 DEF HandOver, OneOwner
<1>8. QED
  BY <1>1, <1>6, <1>7 DEF HandOver, OneOwner, Unique, Has

LEMMA AcceptStep ==
  ASSUME HandOver, Accept, TypeOK'
  PROVE  HandOver'
<1>0. PICK l \in Listeners : l = in
  BY DEF Accept, HandOver, OneOwner, TypeOK
<1> DEFINE a == <<"backlog", l>>  b == <<"thread", Main>>  k == Head(backlog[l])
<1>1. /\ Main \in Threads /\ pc[Main] = "idle" /\ backlog[l] # <<>>
      /\ backlog' = [backlog EXCEPT ![l] = Tail(@)]
      /\ item' = [item EXCEPT ![Main] = k] /\ pc' = [pc EXCEPT ![Main] = "read"]
      /\ UNCHANGED <<came, mailbox, bound>>
      /\ backlog \in [Listeners -> Seq(Conns)] /\ pc \in [Threads -> {"idle", "read", "write", "pick"}]
      /\ item \in [Threads -> Items \cup {NULL}]
  BY <1>0 DEF Accept, AfterAccept, Threads, HandOver, OneOwner, TypeOK
<1>2. /\ a \in Owners /\ Owned(a) = backlog[l] /\ Owned(a)' = Tail(backlog[l])
      /\ b \in Owners /\ a # b
  BY <1>1, Owning DEF Owned
<1>3. IsInjective(backlog[l])
  BY <1>2 DEF HandOver, OneOwner
<1>4. /\ k \in Conns /\ k \in Range(backlog[l]) /\ IsInjective(Tail(backlog[l]))
      /\ Range(Tail(backlog[l])) = Range(backlog[l]) \ {k}
  BY <1>1, <1>3, InjectiveTail
<1>5. k # NULL /\ item[Main] = NULL
  BY <1>1, <1>4, ServeAssumption DEF HandOver
<1> HIDE DEF k
<1>6. Owned(b) = <<>> /\ Owned(b)' = <<k>>
  BY <1>1, <1>5, Owning DEF Owned
<1>7. Range(<<>>) = {} /\ Range(<<k>>) = {k} /\ IsInjective(<<k>>)
  BY DEF Range, IsInjective
<1> HIDE DEF a, b
<1>8. /\ {k} \subseteq Has[a] /\ Has'[a] = Has[a] \ {k} /\ Has'[b] = Has[b] \cup {k}
      /\ IsInjective(Owned(a)') /\ IsInjective(Owned(b)')
  BY <1>2, <1>4, <1>6, <1>7 DEF Has
<1>9. \A o \in Owners \ {a, b} : Owned(o)' = Owned(o)
  BY <1>1, Owning DEF Owned, a, b
<1>10. (\A t \in Threads : pc[t] = "idle" <=> item[t] = NULL)'
  BY <1>1, <1>5 DEF HandOver
<1>11. QED
  BY <1>1, <1>2, <1>8, <1>9, <1>10, HandOverMoves

LEMMA SendItemStep ==
  ASSUME HandOver, NEW t \in Threads, SendItem(t), TypeOK'
  PROVE  HandOver'
<1>0. PICK w \in Workers : w = index
  BY DEF HandOver, OneOwner, TypeOK
<1> DEFINE a == <<"thread", t>>  b == <<"mailbox", w>>
<1> DEFINE x == item[t]
<1>1. /\ pc[t] = "pick" /\ pc' = [pc EXCEPT ![t] = "idle"]
      /\ mailbox' = [mailbox EXCEPT ![w] = Append(@, x)]
      /\ item' = [item EXCEPT ![t] = NULL] /\ UNCHANGED <<backlog, came, bound>>
      /\ mailbox \in [Workers -> Seq(Items)] /\ pc \in [Threads -> {"idle", "read", "write", "pick"}]
      /\ item \in [Threads -> Items \cup {NULL}]
  BY <1>0 DEF SendItem, HandOver, OneOwner, TypeOK
<1>2. x # NULL /\ x \in Items
  BY <1>1 DEF HandOver
<1> HIDE DEF x
<1>3. /\ a \in Owners /\ Owned(a) = <<x>> /\ Owned(a)' = <<>> /\ a # b
      /\ b \in Owners /\ Owned(b) = mailbox[w] /\ Owned(b)' = Append(mailbox[w], x)
  BY <1>1, <1>2, Owning DEF Owned, x
<1>4. /\ Range(<<>>) = {} /\ Range(<<x>>) = {x} /\ IsInjective(<<>>)
  BY DEF Range, IsInjective
<1>5. x \in Has[a] /\ x \notin Has[b]
  <2>1. x \in Has[a]
    BY <1>3, <1>4 DEF Has
  <2>2. x \in came \cup Dialers
    BY <1>3, <2>1 DEF HandOver
  <2>3. Unique(Has, Owners, x)
    BY <2>2 DEF HandOver, OneOwner, Unique, Has
  <2>4. QED
    BY <1>3, <2>1, <2>3 DEF Unique
<1>6. /\ Range(Append(mailbox[w], x)) = Range(mailbox[w]) \cup {x}
      /\ IsInjective(Append(mailbox[w], x))
  BY <1>1, <1>2, <1>3, <1>5, RangeAppend DEF Has, HandOver, OneOwner
<1> HIDE DEF a, b
<1>7. /\ {x} \subseteq Has[a] /\ Has'[a] = Has[a] \ {x} /\ Has'[b] = Has[b] \cup {x}
      /\ IsInjective(Owned(a)') /\ IsInjective(Owned(b)')
  BY <1>3, <1>4, <1>6 DEF Has
<1>8. \A o \in Owners \ {a, b} : Owned(o)' = Owned(o)
  BY <1>1, Owning DEF Owned, a, b
<1>9. (\A u \in Threads : pc[u] = "idle" <=> item[u] = NULL)'
  BY <1>1 DEF HandOver
<1>10. QED
  BY <1>1, <1>3, <1>7, <1>8, <1>9, HandOverMoves

LEMMA ProcessStep ==
  ASSUME HandOver, NEW w \in Workers, Process(w), TypeOK'
  PROVE  HandOver'
<1> DEFINE a == <<"mailbox", w>>  b == <<"bound", w>>
<1>1. /\ bound' = [bound EXCEPT ![w] = @ \o mailbox[w]] /\ mailbox' = [mailbox EXCEPT ![w] = <<>>]
      /\ UNCHANGED <<backlog, came, pc, item>>
      /\ mailbox \in [Workers -> Seq(Items)] /\ bound \in [Workers -> Seq(Items)]
  BY DEF Process, Taken, thread, HandOver, OneOwner, TypeOK
<1>2. /\ a \in Owners /\ Owned(a) = mailbox[w] /\ Owned(a)' = <<>> /\ a # b
      /\ b \in Owners /\ Owned(b) = bound[w] /\ Owned(b)' = bound[w] \o mailbox[w]
  BY <1>1, Owning DEF Owned
<1>3. Has[a] \cap Has[b] = {}
  <2>1. ASSUME NEW x \in Has[a], x \in Has[b] PROVE FALSE
    <3>1. x \in came \cup Dialers
      BY <1>2, <2>1 DEF HandOver
    <3>2. Unique(Has, Owners, x)
      BY <3>1 DEF HandOver, OneOwner, Unique, Has
    <3>3. QED
      BY <1>2, <2>1, <3>2 DEF Unique
  <2>2. QED
    BY <2>1
<1>4. /\ Range(bound[w] \o mailbox[w]) = Range(bound[w]) \cup Range(mailbox[w])
      /\ IsInjective(bound[w] \o mailbox[w])
  <2>1. /\ IsInjective(bound[w]) /\ IsInjective(mailbox[w])
        /\ Range(bound[w]) \cap Range(mailbox[w]) = {}
    BY <1>2, <1>3 DEF Has, HandOver, OneOwner
  <2>2. bound[w] \in Seq(Items) /\ mailbox[w] \in Seq(Items)
    BY <1>1
  <2>3. QED
    BY <2>1, <2>2, RangeConcat
<1>5. Range(<<>>) = {} /\ IsInjective(<<>>)
  BY DEF Range, IsInjective
<1> HIDE DEF a, b
<1>6. /\ Has'[a] = Has[a] \ Has[a] /\ Has'[b] = Has[b] \cup Has[a]
      /\ IsInjective(Owned(a)') /\ IsInjective(Owned(b)')
  BY <1>2, <1>4, <1>5 DEF Has
<1>7. \A o \in Owners \ {a, b} : Owned(o)' = Owned(o)
  BY <1>1, Owning DEF Owned, a, b
<1>8. (\A t \in Threads : pc[t] = "idle" <=> item[t] = NULL)'
  BY <1>1 DEF HandOver
<1>9. QED
  BY <1>1, <1>2, <1>6, <1>7, <1>8, HandOverMoves

LEMMA StepCases ==
  ASSUME [Next]_vars
  PROVE  \/ \E k \in Conns, l \in Listeners : Arrive(k, l)
         \/ \E l \in Listeners : Dispatch(l)
         \/ Accept
         \/ \E t \in Threads : SelectRead(t) \/ SelectWrite(t) \/ SendItem(t)
         \/ \E w \in Workers : Process(w)
         \/ InitWorkers \/ (\E s \in Services : AddRpcService(s)) \/ \E w \in Workers : Begin(w)
         \/ UNCHANGED vars
BY DEF Next, MainStep, WorkerStep, Run, Threads

LEMMA HandTypesStep ==
  ASSUME HandOver, [Next]_vars
  PROVE  HandTypes'
<1>0. TypeOK
  BY DEF HandOver, OneOwner
<1> USE <1>0 DEF HandTypes, TypeOK
<1>1. ASSUME UNCHANGED serving PROVE HandTypes'
  BY <1>1 DEF serving, thread
<1>2. ASSUME NEW k \in Conns, NEW l \in Listeners, Arrive(k, l) PROVE HandTypes'
  <2>1. /\ came' = came \cup {k} /\ backlog' = [backlog EXCEPT ![l] = Append(@, k)]
        /\ edge' = edge \cup {l} /\ UNCHANGED <<in, index, pc, tmp, item, mailbox, bound>>
    BY <1>2 DEF Arrive, thread
  <2>2. Append(backlog[l], k) \in Seq(Conns)
    BY AppendProperties
  <2>3. QED
    BY <2>1, <2>2
<1>3. ASSUME NEW l \in Listeners, Dispatch(l) PROVE HandTypes'
  BY <1>3 DEF Dispatch, thread
<1>4. CASE Accept
  <2>1. /\ in \in Listeners /\ backlog[in] # <<>> /\ Main \in Threads
        /\ backlog' = [backlog EXCEPT ![in] = Tail(@)]
        /\ item' = [item EXCEPT ![Main] = Head(backlog[in])]
        /\ pc' = [pc EXCEPT ![Main] = "read"]
        /\ UNCHANGED <<came, edge, in, index, tmp, mailbox, bound>>
    BY <1>4 DEF Accept, AfterAccept, Threads
  <2>2. Head(backlog[in]) \in Conns /\ Tail(backlog[in]) \in Seq(Conns)
    BY <2>1
  <2>3. QED
    BY <2>1, <2>2 DEF Items
<1>5. ASSUME NEW t \in Threads, SelectRead(t) PROVE HandTypes'
  <2>1. (index + 1) % NWorkers \in Workers
    BY WorkersAssumption DEF Workers
  <2>2. QED
    BY <1>5, <2>1 DEF SelectRead
<1>6. ASSUME NEW t \in Threads, SelectWrite(t) PROVE HandTypes'
  BY <1>6 DEF SelectWrite, Stored
<1>7. ASSUME NEW t \in Threads, SendItem(t) PROVE HandTypes'
  <2>1. item[t] \in Items /\ index \in Workers
    BY <1>7 DEF SendItem, HandOver
  <2>2. Append(mailbox[index], item[t]) \in Seq(Items)
    BY <2>1, AppendProperties
  <2>3. QED
    BY <1>7, <2>2 DEF SendItem
<1>8. ASSUME NEW w \in Workers, Process(w) PROVE HandTypes'
  <2>1. bound[w] \o mailbox[w] \in Seq(Items) /\ <<>> \in Seq(Items)
    BY ConcatProperties
  <2>2. QED
    BY <1>8, <2>1 DEF Process, Taken, thread
<1>9. CASE InitWorkers \/ (\E s \in Services : AddRpcService(s)) \/ \E w \in Workers : Begin(w)
  BY <1>1, <1>9 DEF InitWorkers, AddRpcService, Begin
<1>10. CASE UNCHANGED vars
  BY <1>1, <1>10 DEF vars, serving, thread
<1>11. QED
  BY <1>2, <1>3, <1>4, <1>5, <1>6, <1>7, <1>8, <1>9, <1>10, StepCases

\* Where items do not move, selectWorker may.
LEMMA HandOverRests ==
  ASSUME HandOver, UNCHANGED <<backlog, came, item, mailbox, bound>>, TypeOK',
         \A t \in Threads : pc'[t] = "idle" <=> pc[t] = "idle"
  PROVE  HandOver'
<1>1. \A o \in Owners : Owned(o)' = Owned(o) /\ Has'[o] = Has[o]
  BY DEF Owned, Has
<1>2. QED
  BY <1>1 DEF HandOver, OneOwner

LEMMA HandOverNext == ServeInv /\ HandOver /\ [Next]_vars => HandOver'
<1> SUFFICES ASSUME ServeInv, HandOver, [Next]_vars PROVE HandOver'
  OBVIOUS
<1>1. TypeOK'
  <2>1. ServeInv' /\ HandTypes'
    BY ServeNext, HandTypesStep
  <2>2. QED
    BY <2>1 DEF ServeInv, StartInv, StartType, Registry, HandTypes, TypeOK
<1>2. ASSUME NEW t \in Threads, SelectRead(t) \/ SelectWrite(t) PROVE HandOver'
  <2>1. UNCHANGED <<backlog, came, item, mailbox, bound>>
    BY <1>2 DEF SelectRead, SelectWrite
  <2>2. \A u \in Threads : pc'[u] = "idle" <=> pc[u] = "idle"
    BY <1>2 DEF SelectRead, SelectWrite, HandOver, OneOwner, TypeOK
  <2>3. QED
    BY <1>1, <2>1, <2>2, HandOverRests
<1>3. ASSUME UNCHANGED <<backlog, came, pc, item, mailbox, bound>> PROVE HandOver'
  BY <1>1, <1>3, HandOverRests
<1>4. CASE InitWorkers \/ (\E s \in Services : AddRpcService(s)) \/ \E w \in Workers : Begin(w)
  BY <1>3, <1>4 DEF InitWorkers, AddRpcService, Begin, serving, thread
<1>5. CASE \E l \in Listeners : Dispatch(l)
  BY <1>3, <1>5 DEF Dispatch, thread
<1>6. CASE UNCHANGED vars
  BY <1>3, <1>6 DEF vars
<1>7. QED
  BY <1>1, <1>2, <1>4, <1>5, <1>6, ArriveStep, AcceptStep, SendItemStep, ProcessStep, StepCases

LEMMA HandOverInit == Init => HandOver
<1> SUFFICES ASSUME Init PROVE HandOver
  OBVIOUS
<1>1. TypeOK
  <2>1. HandTypes
    <3>1. 0 \in Workers
      BY WorkersRange
    <3>2. QED
      BY <3>1, EmptySeq DEF Init, HandTypes, Items, Threads
  <2>2. QED
    BY <2>1, ServeInit, Types
<1>2. /\ \A o \in Owners : o[1] # "thread" => Owned(o) = <<>>
      /\ \A t \in Dialers : Owned(<<"thread", t>>) = <<t>>
      /\ Owned(<<"thread", Main>>) = <<>>
  <2>1. /\ \A l \in Listeners : backlog[l] = <<>>
        /\ \A w \in Workers : mailbox[w] = <<>> /\ bound[w] = <<>>
        /\ Main \in Threads /\ item[Main] = NULL
        /\ \A t \in Dialers : t \in Threads /\ item[t] = t /\ t # NULL
    BY ServeAssumption DEF Init, Threads
  <2>2. ASSUME NEW o \in Owners, o[1] # "thread" PROVE Owned(o) = <<>>
    <3>1. CASE o[2] \in Listeners /\ o = <<"backlog", o[2]>>
      BY <2>1, <3>1, Owning
    <3>2. CASE o[2] \in Workers /\ (o = <<"mailbox", o[2]>> \/ o = <<"bound", o[2]>>)
      BY <2>1, <3>2, Owning
    <3>3. QED
      BY <2>2, <3>1, <3>2, Owning
  <2>3. /\ \A t \in Dialers : Owned(<<"thread", t>>) = <<t>>
        /\ Owned(<<"thread", Main>>) = <<>>
    <3>1. \A t \in Threads : Owned(<<"thread", t>>) = IF item[t] = NULL THEN <<>> ELSE <<item[t]>>
      BY Owning
    <3>2. QED
      BY <2>1, <3>1
  <2>4. QED
    BY <2>2, <2>3
<1>3. \A o \in Owners :
        Owned(o) = <<>> \/ \E t \in Dialers : o = <<"thread", t>> /\ Owned(o) = <<t>>
  BY <1>2, Owning DEF Threads
<1>4. /\ Range(<<>>) = {} /\ IsInjective(<<>>)
      /\ \A t \in Dialers : Range(<<t>>) = {t} /\ IsInjective(<<t>>)
  BY DEF Range, IsInjective
<1>5. \A o \in Owners : IsInjective(Owned(o)) /\ Has[o] \subseteq came \cup Dialers
  BY <1>3, <1>4 DEF Has
<1>6. ASSUME NEW x \in came \cup Dialers
      PROVE  \E o \in Owners : \A p \in Owners : x \in Range(Owned(p)) <=> p = o
  <2>1. x \in Dialers /\ <<"thread", x>> \in Owners
    BY <1>6, Owning DEF Init, Threads
  <2>2. \A p \in Owners : x \in Range(Owned(p)) <=> p = <<"thread", x>>
    BY <1>2, <1>3, <1>4, <2>1
  <2>3. QED
    BY <2>1, <2>2
<1>7. \A t \in Threads : pc[t] = "idle" <=> item[t] = NULL
  BY ServeAssumption DEF Init, Threads
<1>8. QED
  BY <1>1, <1>5, <1>6, <1>7 DEF HandOver, OneOwner

\* Whatever threads are in selectWorker together, a session or a channel is in
\* the accept queue, with the thread handing it over, in one worker's mailbox
\* or bound to that worker, and nowhere else or twice.
THEOREM OneWorker == Spec => []OneOwner
<1>1. HandOver => OneOwner
  BY DEF HandOver
<1>2. QED
  BY <1>1, HandOverInit, HandOverNext, ServeInit, ServeNext, PTL DEF Spec
=============================================================================
