--------------------------- MODULE MailboxProofs ---------------------------
(***************************************************************************)
(* The safety of the mailbox, for every set of senders, every number of    *)
(* messages and every value the eventfd is written with: IInv is an        *)
(* inductive invariant of Mailbox, it implies the properties the run       *)
(* checks, and under it every step is a step of Channel.                   *)
(***************************************************************************)
EXTENDS Mailbox, TLAPS

\* What Append does to a sequence.
LEMMA AppendFacts ==
  ASSUME NEW S, NEW seq \in Seq(S), NEW e \in S
  PROVE  /\ Len(Append(seq, e)) = Len(seq) + 1
         /\ Append(seq, e)[Len(seq) + 1] = e
         /\ \A i \in 1..Len(seq) : Append(seq, e)[i] = seq[i]
  OBVIOUS

\* Taking the mutex.
LEMMA LockStep ==
  ASSUME IInv, NEW s \in Senders, Lock(s)
  PROVE  IInv'
<1> USE NullAssumption, MailboxAssumption
       DEF IInv, TypeOK, Messages, Back, Signallers
<1>1. TypeOK'
  BY DEF Lock, GoTo, pipeVars, workerVars, signalVars
<1>2. Pointers'
  BY DEF Pointers, Mutex, Lock, GoTo, pipeVars, workerVars, signalVars
<1>3. Mutex'
  BY DEF Mutex, Lock, GoTo, pipeVars, workerVars, signalVars
<1>4. Reader'
  BY DEF Reader, Lock, GoTo, pipeVars, workerVars, signalVars
<1>5. OneSignal'
  BY DEF OneSignal, Lock, GoTo, pipeVars, workerVars, signalVars
<1>6. StoreUnraced'
  BY DEF StoreUnraced, Lock, GoTo, pipeVars, workerVars, signalVars
<1>7. Wakeup'
  BY DEF Wakeup, Lock, GoTo, pipeVars, workerVars, signalVars
<1>8. History'
  BY DEF History, Lock, GoTo, pipeVars, workerVars, signalVars
<1> QED  BY <1>1, <1>2, <1>3, <1>4, <1>5, <1>6, <1>7, <1>8 DEF IInv

\* Write appends a cell; w now lags one behind f.
LEMMA SendWriteStep ==
  ASSUME IInv, NEW s \in Senders, SendWrite(s)
  PROVE  IInv'
<1> USE NullAssumption, MailboxAssumption
       DEF IInv, TypeOK, Messages, Back, Signallers
<1>a. nsent' = [nsent EXCEPT ![s] = nsent[s] + 1] /\ nsent[s] < MaxSend
  BY DEF SendWrite, GoTo, Mutex
<1>b. <<s, nsent'[s]>> \in Messages
  BY <1>a
<1>c. slot' \in Seq(Messages) /\ Len(slot') = Len(slot) + 1
  BY <1>b DEF SendWrite, Write
<1>d. f' = Len(slot') + 1
  BY DEF SendWrite, Write
<1>1. TypeOK'
  <2>1. /\ spc' \in [Senders -> {"idle", "write", "flush", "set", "unlock", "signal"}]
        /\ nsent' \in [Senders -> 0..MaxSend]
    BY <1>a DEF SendWrite, GoTo
  <2>2. /\ UNCHANGED <<front, r, w, c, sync, ok, workerVars, signalVars>>
        /\ front \in 1..Back' /\ r \in 1..Back' /\ w \in 1..Back'
        /\ f' \in 1..Back' /\ c \in 1..Back' \cup {NULL}
    BY <1>c, <1>d DEF SendWrite, Write
  <2> QED  BY <1>c, <2>1, <2>2 DEF workerVars, signalVars
<1>2. Pointers'
  <2>1. w' + 1 = f'
    <3>1. \A t \in Senders : spc[t] \notin {"flush", "set"}
      BY DEF Mutex, SendWrite, GoTo
    <3> QED  BY <1>c, <1>d, <3>1 DEF Pointers, SendWrite, Write
  <2>2. spc'[s] = "flush"
    BY DEF SendWrite, GoTo
  <2> QED
    BY <1>c, <1>d, <2>1, <2>2 DEF Pointers, SendWrite, Write
<1>3. Mutex'
  BY DEF Mutex, SendWrite, GoTo, Write, workerVars, signalVars
<1>4. Reader'
  BY DEF Pointers, Reader, SendWrite, GoTo, Write, workerVars, signalVars
<1>5. OneSignal'
  BY DEF OneSignal, SendWrite, GoTo, Write, workerVars, signalVars
<1>6. StoreUnraced'
  BY DEF StoreUnraced, SendWrite, GoTo, Write, workerVars, signalVars
<1>7. Wakeup'
  BY DEF Wakeup, SendWrite, GoTo, Write, workerVars, signalVars
<1>8. History'
  <2>1. /\ UNCHANGED <<front, wpc, msg, processed>>
        /\ slot' = Append(slot, <<s, nsent'[s]>>)
    BY <1>a DEF SendWrite, Write, workerVars
  <2>2. /\ front \in Nat \ {0} /\ front <= Len(slot) + 1 /\ Len(slot) \in Nat
        /\ Len(processed) \in Nat /\ Len(processed) < front
    <3>1. front \in 1..(Len(slot) + 1) /\ Len(slot) \in Nat /\ Len(processed) \in Nat
      OBVIOUS
    <3>2. Len(processed) \in {front - 1, front - 2}
      BY DEF History
    <3> HIDE DEF IInv, TypeOK, Messages, Back, Signallers
    <3> QED  BY <3>1, <3>2
  <2>3. \A i \in 1..Len(slot) : slot'[i] = slot[i]
    BY <1>b, <2>1, AppendFacts
  <2> HIDE DEF IInv, TypeOK, Messages, Back, Signallers
  <2>4. \A i \in 1..Len(processed) : processed[i] = slot[i] /\ i \in 1..Len(slot)
    BY <2>2 DEF IInv, History
  <2>5. wpc = "process" => front > 1 /\ msg = slot[front - 1] /\ front - 1 \in 1..Len(slot)
    BY <2>2 DEF IInv, History
  <2>6. Len(processed) = IF wpc = "process" THEN front - 2 ELSE front - 1
    BY DEF IInv, History
  <2> QED  BY <2>1, <2>3, <2>4, <2>5, <2>6 DEF History
<1> QED  BY <1>1, <1>2, <1>3, <1>4, <1>5, <1>6, <1>7, <1>8 DEF IInv

\* Flush's compare-and-swap succeeds if the reader is awake or already
\* signalled, and fails if it sleeps.
LEMMA SendFlushStep ==
  ASSUME IInv, NEW s \in Senders, SendFlush(s)
  PROVE  IInv'
<1> USE NullAssumption, MailboxAssumption
       DEF IInv, TypeOK, Messages, Back, Signallers
<1>a. /\ w + 1 = f /\ w \in Nat /\ w # NULL /\ f = Len(slot) + 1 /\ sync = s
      /\ \A t \in Senders : t # s => spc[t] \notin {"write", "flush", "set", "unlock"}
      /\ slot' = slot /\ front' = front /\ r' = r /\ f' = f
  BY DEF SendFlush, GoTo, FlushCas, Pointers, Mutex, pipeVars
<1>b. \/ /\ c = w /\ c' = f /\ w' = f
         /\ spc' = [spc EXCEPT ![s] = "unlock"] /\ ok' = [ok EXCEPT ![s] = TRUE]
      \/ /\ c = NULL /\ c' = c /\ w' = w
         /\ spc' = [spc EXCEPT ![s] = "set"] /\ ok' = ok
  BY DEF SendFlush, GoTo, FlushCas, Pointers, pipeVars
<1>c. front <= r /\ r <= w /\ front \in Nat /\ r \in Nat
  BY DEF Pointers
<1>d. spc[s] = "flush"
  BY DEF SendFlush, GoTo
<1>1. TypeOK'
  BY <1>a, <1>b DEF SendFlush, workerVars, signalVars
<1>2. Pointers'
  <2>1. (\E t \in Senders : spc'[t] \in {"flush", "set"}) <=> c = NULL
    <3>1. c = NULL => spc'[s] = "set"
      BY <1>a, <1>b
    <3>2. c # NULL => \A t \in Senders : spc'[t] \notin {"flush", "set"}
      BY <1>a, <1>b
    <3> QED  BY <3>1, <3>2
  <2> HIDE DEF IInv, TypeOK, Messages, Signallers
  <2>2. front' <= r' /\ r' <= w' /\ f' = Back' /\ c' \in {w', NULL}
    BY <1>a, <1>b, <1>c
  <2>3. IF c = NULL THEN w' + 1 = f' ELSE w' = f'
    BY <1>a, <1>b
  <2> QED  BY <2>1, <2>2, <2>3 DEF Pointers
<1>3. Mutex'
  BY <1>a, <1>b DEF Mutex, SendFlush
<1>4. Reader'
  <2>1. UNCHANGED <<active, wpc, front, r>>
    BY <1>a DEF SendFlush, workerVars
  <2> HIDE DEF IInv, TypeOK, Messages, Back, Signallers
  <2>2. Reader /\ NULL \notin Nat
    BY DEF IInv
  <2>3. CASE c = w
    <3>1. c' = w' /\ c' # NULL /\ front <= w /\ w' = w + 1 /\ c # NULL
      BY <1>a, <1>b, <1>c, <2>2, <2>3
    <3>2. front # w'
      BY <1>a, <1>c, <3>1
    <3> QED  BY <2>1, <2>2, <2>3, <3>1, <3>2 DEF Reader
  <2>4. CASE c = NULL
    <3>1. c' = c /\ w' = w
      BY <1>a, <1>b, <2>4
    <3> QED  BY <2>1, <2>2, <3>1 DEF Reader
  <2> QED  BY <1>b, <2>3, <2>4
<1>5. OneSignal'
  <2>1. Signallers' = Signallers
    BY <1>a, <1>b, <1>d
  <2> QED  BY <2>1 DEF OneSignal, SendFlush, workerVars, signalVars
<1>6. StoreUnraced'
  <2>1. c = NULL => ~active /\ count = 0
    BY DEF Reader, Wakeup
  <2> QED  BY <1>a, <1>b, <2>1 DEF StoreUnraced, SendFlush, workerVars, signalVars
<1>7. Wakeup'
  <2>1. Signallers' = Signallers
    BY <1>a, <1>b, <1>d
  <2> QED  BY <1>b, <2>1 DEF Wakeup, SendFlush, workerVars, signalVars
<1>8. History'
  BY <1>a DEF History, SendFlush, workerVars
<1> QED  BY <1>1, <1>2, <1>3, <1>4, <1>5, <1>6, <1>7, <1>8 DEF IInv

\* The store of c happens while the reader is asleep.
LEMMA SendFlushSetStep ==
  ASSUME IInv, NEW s \in Senders, SendFlushSet(s)
  PROVE  IInv'
<1> USE NullAssumption, MailboxAssumption
       DEF IInv, TypeOK, Messages, Back, Signallers
<1>1. TypeOK'
  BY DEF Pointers, SendFlushSet, GoTo, FlushSet, workerVars, signalVars
<1>2. Pointers'
  BY DEF Pointers, Mutex, SendFlushSet, GoTo, FlushSet, workerVars, signalVars
<1>3. Mutex'
  BY DEF Mutex, SendFlushSet, GoTo, FlushSet, workerVars, signalVars
<1>4. Reader'
  BY DEF Pointers, Mutex, Reader, StoreUnraced, SendFlushSet, GoTo, FlushSet, workerVars, signalVars
<1>5. OneSignal'
  BY DEF Mutex, OneSignal, StoreUnraced, Wakeup, SendFlushSet, GoTo, FlushSet, workerVars, signalVars
<1>6. StoreUnraced'
  BY DEF Mutex, StoreUnraced, SendFlushSet, GoTo, FlushSet, workerVars, signalVars
<1>7. Wakeup'
  BY DEF Mutex, StoreUnraced, Wakeup, SendFlushSet, GoTo, FlushSet, workerVars, signalVars
<1>8. History'
  BY DEF History, SendFlushSet, GoTo, FlushSet, workerVars, signalVars
<1> QED  BY <1>1, <1>2, <1>3, <1>4, <1>5, <1>6, <1>7, <1>8 DEF IInv

\* Releasing the mutex leaves a sender that must signal a signaller.
LEMMA UnLockStep ==
  ASSUME IInv, NEW s \in Senders, UnLock(s)
  PROVE  IInv'
<1> USE NullAssumption, MailboxAssumption
       DEF IInv, TypeOK, Messages, Back, Signallers
<1>1. TypeOK'
  BY DEF UnLock, GoTo, pipeVars, workerVars, signalVars
<1>2. Pointers'
  BY DEF Pointers, Mutex, UnLock, GoTo, pipeVars, workerVars, signalVars
<1>3. Mutex'
  BY DEF Mutex, UnLock, GoTo, pipeVars, workerVars, signalVars
<1>4. Reader'
  BY DEF Reader, UnLock, GoTo, pipeVars, workerVars, signalVars
<1>5. OneSignal'
  BY DEF OneSignal, UnLock, GoTo, pipeVars, workerVars, signalVars
<1>6. StoreUnraced'
  BY DEF StoreUnraced, UnLock, GoTo, pipeVars, workerVars, signalVars
<1>7. Wakeup'
  BY DEF Wakeup, UnLock, GoTo, pipeVars, workerVars, signalVars
<1>8. History'
  BY DEF History, UnLock, GoTo, pipeVars, workerVars, signalVars
<1> QED  BY <1>1, <1>2, <1>3, <1>4, <1>5, <1>6, <1>7, <1>8 DEF IInv

\* The signal is sent by the only signaller.
LEMMA SignalStep ==
  ASSUME IInv, NEW s \in Senders, Signal(s)
  PROVE  IInv'
<1> USE NullAssumption, MailboxAssumption
       DEF IInv, TypeOK, Messages, Back, Signallers
<1>a. PICK d \in Dummies : count' = count + d /\ mute' = (mute \/ d = 0)
  BY DEF Signal
<1>b. d \in Nat /\ mute \in BOOLEAN /\ mute' \in BOOLEAN
  BY <1>a
<1>1. TypeOK'
  BY <1>a, <1>b DEF Signal, GoTo, pipeVars, workerVars
<1>2. Pointers'
  BY DEF Pointers, Mutex, Signal, GoTo, pipeVars, workerVars
<1>3. Mutex'
  BY DEF Mutex, Signal, GoTo, pipeVars, workerVars
<1>4. Reader'
  BY DEF Reader, Signal, GoTo, pipeVars, workerVars
<1>5. OneSignal'
  BY <1>a, <1>b DEF Mutex, OneSignal, Signal, GoTo, pipeVars, workerVars
<1>6. StoreUnraced'
  BY <1>a, <1>b DEF Mutex, OneSignal, StoreUnraced, Wakeup, Signal, GoTo, pipeVars, workerVars
<1>7. Wakeup'
  <2>1. s \in Signallers /\ Signallers = {s} /\ count = 0 /\ ~active /\ c # NULL
    BY DEF Mutex, OneSignal, Wakeup, Signal, GoTo
  <2>2. Signallers' = {}
    BY <2>1 DEF Signal, GoTo
  <2>3. /\ UNCHANGED <<active, c>> /\ ready' = TRUE
        /\ count' = d
    BY <1>a, <1>b, <2>1 DEF Signal, pipeVars, workerVars
  <2>4. ~mute
    <3>1. s \in Signallers /\ (mute => Signallers = {})
      BY <2>1 DEF Wakeup
    <3> QED  BY <3>1, Zenon
  <2>5. c' # NULL /\ ~active'
    BY <2>1, <2>3
  <2>6. CASE d = 0
    <3>1. mute'
      BY <1>a, <2>6, Zenon
    <3> QED  BY <2>2, <2>3, <2>5, <2>6, <3>1 DEF Wakeup
  <2>7. CASE d # 0
    <3>1. count' > 0
      BY <1>b, <2>3, <2>7
    <3>2. ~mute'
      BY <1>a, <2>4, <2>7, Zenon
    <3> QED  BY <2>2, <2>3, <2>5, <3>1, <3>2 DEF Wakeup
  <2> QED  BY <2>6, <2>7
<1>8. History'
  BY DEF History, Signal, GoTo, pipeVars, workerVars
<1> QED  BY <1>1, <1>2, <1>3, <1>4, <1>5, <1>6, <1>7, <1>8 DEF IInv

\* epoll_wait returns.
LEMMA EpollWaitStep ==
  ASSUME IInv, EpollWait
  PROVE  IInv'
<1> USE NullAssumption, MailboxAssumption
       DEF IInv, TypeOK, Messages, Back, Signallers
<1>1. TypeOK'
  BY DEF EpollWait, RecvEntry, pipeVars, senderVars
<1>2. Pointers'
  BY DEF Pointers, EpollWait, RecvEntry, pipeVars, senderVars
<1>3. Mutex'
  BY DEF Mutex, EpollWait, RecvEntry, pipeVars, senderVars
<1>4. Reader'
  BY DEF Reader, EpollWait, RecvEntry, pipeVars, senderVars
<1>5. OneSignal'
  BY DEF OneSignal, EpollWait, RecvEntry, pipeVars, senderVars
<1>6. StoreUnraced'
  BY DEF StoreUnraced, EpollWait, RecvEntry, pipeVars, senderVars
<1>7. Wakeup'
  BY DEF Reader, Wakeup, EpollWait, RecvEntry, pipeVars, senderVars
<1>8. History'
  BY DEF History, EpollWait, RecvEntry, pipeVars, senderVars
<1> QED  BY <1>1, <1>2, <1>3, <1>4, <1>5, <1>6, <1>7, <1>8 DEF IInv

\* Reading the pipe, or going to sleep on an empty one.
LEMMA RecvReadStep ==
  ASSUME IInv, RecvRead
  PROVE  IInv'
<1> USE NullAssumption, MailboxAssumption
       DEF IInv, TypeOK, Messages, Back, Signallers
<1>a. /\ active /\ c = w /\ front <= r /\ r <= w
      /\ front \in Nat \ {0} /\ r \in Nat /\ w \in Nat /\ NULL \notin Nat
      /\ Len(slot) \in Nat /\ w <= Len(slot) + 1
      /\ UNCHANGED <<slot, front, w, f, msg, processed, senderVars, signalVars>>
  BY DEF RecvRead, CheckRead, Pointers, Reader, pipeVars
<1>b. /\ active' = (front # r' /\ r' # NULL)
      /\ wpc' = IF front # r' /\ r' # NULL THEN "take" ELSE "wait"
  BY <1>a DEF RecvRead, CheckReadOk, Prefetched
<1>c. /\ r' = IF front # r THEN r ELSE w
      /\ c' = IF front # r \/ front # w THEN w ELSE NULL
  BY <1>a DEF RecvRead, CheckRead, Prefetched, pipeVars
<1>d. \/ /\ front < w /\ front < r' /\ r' <= w /\ c' = w
         /\ active' = TRUE /\ wpc' = "take"
      \/ /\ front = w /\ r' = w /\ c' = NULL
         /\ active' = FALSE /\ wpc' = "wait"
  <2> HIDE DEF IInv, TypeOK, Messages, Back, Signallers
  <2>1. CASE front # w
    <3>1. front < w /\ front < r' /\ r' <= w /\ c' = w /\ r' # NULL
      BY <1>a, <1>c, <2>1
    <3>2. front # r' /\ r' # NULL
      BY <1>a, <1>c, <2>1
    <3> QED  BY <1>b, <3>1, <3>2, Zenon
  <2>2. CASE front = w
    <3>1. r' = w /\ c' = NULL /\ front = r'
      BY <1>a, <1>c, <2>2
    <3> QED  BY <1>b, <2>2, <3>1, Zenon
  <2> QED  BY <2>1, <2>2
<1>e. wpc = "read"
  BY DEF RecvRead
<1>f. r' \in Nat /\ front <= r' /\ r' <= w /\ c' \in {w, NULL}
  BY <1>a, <1>c
<1>1. TypeOK'
  <2>1. r' \in 1..Back' /\ c' \in (1..Back') \cup {NULL}
    BY <1>a, <1>f
  <2>2. active' \in BOOLEAN /\ wpc' \in {"take", "wait"}
    BY <1>d
  <2> QED  BY <1>a, <2>1, <2>2 DEF senderVars, signalVars
<1>2. Pointers'
  BY <1>a, <1>f DEF Pointers, senderVars
<1>3. Mutex'
  BY DEF Mutex, RecvRead, CheckRead, CheckReadOk, Prefetched, senderVars, signalVars
<1>4. Reader'
  BY <1>a, <1>d, <1>e DEF Reader, senderVars, signalVars
<1>5. OneSignal'
  BY <1>a, <1>d, <1>e DEF OneSignal, senderVars, signalVars
<1>6. StoreUnraced'
  BY <1>a, <1>d, <1>e DEF StoreUnraced, senderVars, signalVars
<1>7. Wakeup'
  BY <1>a, <1>d, <1>e DEF OneSignal, Wakeup, senderVars, signalVars
<1>8. History'
  BY <1>a, <1>d, <1>e DEF History, senderVars, signalVars
<1> QED  BY <1>1, <1>2, <1>3, <1>4, <1>5, <1>6, <1>7, <1>8 DEF IInv

\* Popping the item.
LEMMA RecvTakeStep ==
  ASSUME IInv, RecvTake
  PROVE  IInv'
<1> USE NullAssumption, MailboxAssumption
       DEF IInv, TypeOK, Messages, Back, Signallers
<1>1. TypeOK'
  <2>1. front \in 1..Len(slot) /\ front + 1 \in 1..Back /\ slot[front] \in Messages
    BY DEF Pointers, Reader, RecvTake
  <2>2. /\ front' = front + 1 /\ msg' = slot[front] /\ wpc' = "process"
        /\ UNCHANGED <<slot, r, w, f, c, active, processed, senderVars, signalVars>>
    BY DEF RecvTake, Pop
  <2> QED  BY <2>1, <2>2 DEF senderVars, signalVars
<1>2. Pointers'
  BY DEF Pointers, Reader, RecvTake, Pop, senderVars, signalVars
<1>3. Mutex'
  BY DEF Mutex, RecvTake, Pop, senderVars, signalVars
<1>4. Reader'
  BY DEF Reader, RecvTake, Pop, senderVars, signalVars
<1>5. OneSignal'
  BY DEF OneSignal, RecvTake, Pop, senderVars, signalVars
<1>6. StoreUnraced'
  BY DEF StoreUnraced, RecvTake, Pop, senderVars, signalVars
<1>7. Wakeup'
  BY DEF Wakeup, RecvTake, Pop, senderVars, signalVars
<1>8. History'
  <2>1. /\ front' = front + 1 /\ msg' = slot[front] /\ wpc = "take" /\ wpc' = "process"
        /\ UNCHANGED <<slot, processed>> /\ front \in Nat \ {0}
    BY DEF RecvTake, Pop
  <2> HIDE DEF IInv, TypeOK, Messages, Back, Signallers
  <2>2. History
    BY DEF IInv
  <2>3. front' > 1 /\ front' - 1 = front /\ front' - 2 = front - 1
    BY <2>1
  <2> QED  BY <2>1, <2>2, <2>3 DEF History
<1> QED  BY <1>1, <1>2, <1>3, <1>4, <1>5, <1>6, <1>7, <1>8 DEF IInv

\* Looking at the eventfd.
LEMMA RecvWaitStep ==
  ASSUME IInv, RecvWait
  PROVE  IInv'
<1> USE NullAssumption, MailboxAssumption
       DEF IInv, TypeOK, Messages, Back, Signallers
<1>a. /\ UNCHANGED <<mute, msg, processed, pipeVars, senderVars>>
      /\ wpc = "wait"
      /\ \/ /\ count = 0 /\ wpc' = "poll" /\ UNCHANGED <<active, count, ready>>
         \/ /\ count > 0 /\ count' = 0 /\ ready' = TRUE
            /\ active' = TRUE /\ wpc' = "reread"
  BY DEF RecvWait, signalVars
<1>b. Signallers' = Signallers
  BY <1>a DEF senderVars
<1>1. TypeOK'
  <2>1. active' \in BOOLEAN /\ ready' \in BOOLEAN /\ mute' \in BOOLEAN
    BY <1>a, Zenon
  <2>2. count' \in Nat
    BY <1>a
  <2>3. wpc' \in {"poll", "reread"}
    BY <1>a
  <2> QED  BY <1>a, <2>1, <2>2, <2>3 DEF pipeVars, senderVars
<1>2. Pointers'
  BY DEF Pointers, RecvWait, pipeVars, senderVars
<1>3. Mutex'
  BY DEF Mutex, RecvWait, pipeVars, senderVars
<1>4. Reader'
  BY DEF Pointers, Reader, Wakeup, RecvWait, pipeVars, senderVars
<1>5. OneSignal'
  BY <1>a, <1>b DEF OneSignal
<1>6. StoreUnraced'
  <2>1. \A t \in Senders : spc[t] = "set" => count = 0
    BY DEF StoreUnraced
  <2> QED  BY <1>a, <2>1 DEF StoreUnraced, pipeVars, senderVars
<1>7. Wakeup'
  BY <1>a, <1>b DEF Reader, Wakeup, pipeVars
<1>8. History'
  BY DEF History, RecvWait, pipeVars, senderVars
<1> QED  BY <1>1, <1>2, <1>3, <1>4, <1>5, <1>6, <1>7, <1>8 DEF IInv

\* After a signal there is something to read.
LEMMA RecvRereadStep ==
  ASSUME IInv, RecvReread
  PROVE  IInv'
<1> USE NullAssumption, MailboxAssumption
       DEF IInv, TypeOK, Messages, Back, Signallers
<1>1. TypeOK'
  BY DEF Pointers, Reader, RecvReread, CheckRead, CheckReadOk, Prefetched, senderVars, signalVars
<1>2. Pointers'
  BY DEF Pointers, Reader, RecvReread, CheckRead, CheckReadOk, Prefetched, senderVars, signalVars
<1>3. Mutex'
  BY DEF Mutex, RecvReread, CheckRead, CheckReadOk, Prefetched, senderVars, signalVars
<1>4. Reader'
  BY DEF Pointers, Reader, RecvReread, CheckRead, CheckReadOk, Prefetched, senderVars, signalVars
<1>5. OneSignal'
  BY DEF OneSignal, RecvReread, CheckRead, CheckReadOk, Prefetched, senderVars, signalVars
<1>6. StoreUnraced'
  BY DEF Reader, StoreUnraced, RecvReread, CheckRead, CheckReadOk, Prefetched, senderVars, signalVars
<1>7. Wakeup'
  BY DEF Reader, Wakeup, RecvReread, CheckRead, CheckReadOk, Prefetched, senderVars, signalVars
<1>8. History'
  <2>1. /\ wpc = "reread" /\ UNCHANGED <<slot, front, msg, processed>>
        /\ wpc' = IF CheckReadOk THEN "take" ELSE "process"
    BY DEF RecvReread, CheckRead, pipeVars
  <2>2. CheckReadOk
    BY DEF Wakeup, Pointers, Reader, RecvReread, CheckRead, CheckReadOk, Prefetched
  <2> HIDE DEF IInv, TypeOK, Messages, Back, Signallers
  <2> QED  BY <2>1, <2>2 DEF IInv, History
<1> QED  BY <1>1, <1>2, <1>3, <1>4, <1>5, <1>6, <1>7, <1>8 DEF IInv

\* Processing the message in hand.
LEMMA ProcessStep ==
  ASSUME IInv, Process
  PROVE  IInv'
<1> USE NullAssumption, MailboxAssumption
       DEF IInv, TypeOK, Messages, Back, Signallers
<1>1. TypeOK'
  BY DEF Process, RecvEntry, pipeVars, senderVars, signalVars
<1>2. Pointers'
  BY DEF Pointers, Process, RecvEntry, pipeVars, senderVars, signalVars
<1>3. Mutex'
  BY DEF Mutex, Process, RecvEntry, pipeVars, senderVars, signalVars
<1>4. Reader'
  BY DEF Reader, Process, RecvEntry, pipeVars, senderVars, signalVars
<1>5. OneSignal'
  BY DEF OneSignal, Process, RecvEntry, pipeVars, senderVars, signalVars
<1>6. StoreUnraced'
  BY DEF StoreUnraced, Process, RecvEntry, pipeVars, senderVars, signalVars
<1>7. Wakeup'
  BY DEF Wakeup, Process, RecvEntry, pipeVars, senderVars, signalVars
<1>8. History'
  <2>1. /\ processed' = Append(processed, msg) /\ wpc' # "process"
        /\ UNCHANGED <<slot, front>>
        /\ front > 1 /\ msg = slot[front - 1] /\ Len(processed) = front - 2
    BY DEF History, Reader, Process, RecvEntry, pipeVars
  <2>2. /\ Len(processed') = front - 1
        /\ processed'[front - 1] = msg
        /\ \A i \in 1..(front - 2) : processed'[i] = processed[i]
    <3> HIDE DEF IInv, TypeOK, Messages, Back, Signallers
    <3>1. processed \in Seq(Messages \cup {NULL}) /\ msg \in Messages \cup {NULL} /\ front \in Nat
      BY DEF IInv, TypeOK, Back
    <3>2. Len(processed) + 1 = front - 1
      BY <2>1, <3>1
    <3> QED  BY <2>1, <3>1, <3>2, AppendFacts
  <2>3. \A i \in 1..(front - 2) : processed[i] = slot[i]
    BY <2>1 DEF History
  <2>4. \A i \in 1..Len(processed') : processed'[i] = slot'[i]
    <3>1. front \in Nat
      OBVIOUS
    <3>2. \A i \in 1..Len(processed') : i \in 1..(front - 2) \/ i = front - 1
      BY <2>1, <2>2, <3>1
    <3> QED  BY <2>1, <2>2, <2>3, <3>2
  <2> QED  BY <2>1, <2>2, <2>4 DEF History
<1> QED  BY <1>1, <1>2, <1>3, <1>4, <1>5, <1>6, <1>7, <1>8 DEF IInv

----------------------------------------------------------------------------

LEMMA IndInit == Init => IInv
<1> SUFFICES ASSUME Init PROVE IInv
  OBVIOUS
<1> USE NullAssumption, MailboxAssumption DEF Init
<1>1. TypeOK
  <2>1. Back = 1 /\ Len(slot) = 0
    BY DEF Back
  <2>2. slot \in Seq(Messages) /\ processed \in Seq(Messages \cup {NULL})
    OBVIOUS
  <2>3. active \in BOOLEAN /\ ready \in BOOLEAN /\ mute \in BOOLEAN /\ ok \in [Senders -> BOOLEAN]
    OBVIOUS
  <2> QED  BY <2>1, <2>2, <2>3 DEF TypeOK
<1>2. Pointers /\ Mutex /\ StoreUnraced /\ History
  BY DEF Pointers, Mutex, StoreUnraced, History, Back
<1>3. Reader /\ OneSignal /\ Wakeup
  BY DEF Reader, OneSignal, Wakeup, Signallers
<1> QED  BY <1>1, <1>2, <1>3 DEF IInv

LEMMA IndNext == IInv /\ [Next]_vars => IInv'
<1> SUFFICES ASSUME IInv, [Next]_vars PROVE IInv'
  OBVIOUS
<1>1. ASSUME NEW s \in Senders, Lock(s) \/ InSend(s) PROVE IInv'
  BY <1>1, LockStep, SendWriteStep, SendFlushStep, SendFlushSetStep, UnLockStep,
     SignalStep DEF InSend
<1>2. CASE WorkerStep
  BY <1>2, EpollWaitStep, RecvReadStep, RecvTakeStep, RecvWaitStep,
     RecvRereadStep, ProcessStep DEF WorkerStep
<1>3. CASE UNCHANGED vars
  BY <1>3 DEF vars, pipeVars, senderVars, workerVars, signalVars, IInv, TypeOK,
     Pointers, Mutex, Reader, OneSignal, StoreUnraced, Wakeup, History, Back,
     Signallers
<1> QED  BY <1>1, <1>2, <1>3 DEF Next

\* IInv holds in every reachable state: the five pointers of the pipe, the
\* mutex, the reader's sleep, the signal that ends it and the history of
\* what was processed fit together as Mailbox.tla says.
THEOREM Invariance == Spec => []IInv
<1> QED  BY IndInit, IndNext, PTL DEF Spec

\* The mailbox's variables keep their types; r is never NULL.
THEOREM TypeCorrect == Spec => []TypeOK
<1>1. IInv => TypeOK
  BY DEF IInv
<1> QED  BY <1>1, Invariance, PTL

\* The reader takes only cells that were flushed (YPipe::Read).
THEOREM Confined == Spec => []ReaderConfined
<1>1. IInv => ReaderConfined
  BY NullAssumption DEF IInv, TypeOK, Pointers, Reader, ReaderConfined, Back
<1> QED  BY <1>1, Invariance, PTL

\* Flush's plain store of c never races with the reader (YPipe::Flush).
THEOREM Unraced == Spec => []StoreUnraced
<1>1. IInv => StoreUnraced
  BY DEF IInv
<1> QED  BY <1>1, Invariance, PTL

\* A sleep is ended by one signal (Mailbox::Send).
THEOREM SignalledOnce == Spec => []OneSignal
<1>1. IInv => OneSignal
  BY DEF IInv
<1> QED  BY <1>1, Invariance, PTL

\* The unchecked read after a signal finds a message (Mailbox::Recv).
THEOREM Fresh == Spec => []NoStaleMessage
<1>1. IInv => NoStaleMessage
  BY DEF IInv, History, NoStaleMessage
<1> QED  BY <1>1, Invariance, PTL

\* No flushed message is left to a sleeping worker that nobody is about to
\* wake, except by a signal that left the eventfd at zero, and then for good
\* (Mailbox::Send, Signaler::Send, Worker::In).
THEOREM Woken == Spec => []NoLostWakeup
<1>1. ASSUME IInv PROVE NoLostWakeup
  <2>1. ~active => wpc \in {"poll", "wait"}
    BY <1>1 DEF IInv, TypeOK, Reader
  <2> QED  BY <1>1, <2>1 DEF IInv, Wakeup, NoLostWakeup
<1> QED  BY <1>1, Invariance, PTL

----------------------------------------------------------------------------
(* The mailbox implements the channel.                                     *)

LEMMA ChannelInit == Init => Chan!Init
  BY DEF Init, Chan!Init

LEMMA ChannelStep == IInv /\ [Next]_vars => [Chan!Next]_Chan!chanVars
<1> SUFFICES ASSUME IInv, [Next]_vars PROVE [Chan!Next]_Chan!chanVars
  OBVIOUS
<1> USE DEF Chan!chanVars
<1>1. ASSUME NEW s \in Senders, SendWrite(s) PROVE [Chan!Next]_Chan!chanVars
  <2>1. <<s, nsent[s] + 1>> \in Messages
    BY <1>1, MailboxAssumption
       DEF SendWrite, GoTo, IInv, TypeOK, Mutex, Messages
  <2>2. Chan!Put(<<s, nsent[s] + 1>>)
    BY <1>1 DEF SendWrite, Write, workerVars, Chan!Put, IInv, TypeOK
  <2> QED  BY <2>1, <2>2 DEF Chan!Next
<1>2. ASSUME NEW s \in Senders,
             Lock(s) \/ SendFlush(s) \/ SendFlushSet(s) \/ UnLock(s) \/ Signal(s)
      PROVE  UNCHANGED Chan!chanVars
  BY <1>2 DEF Lock, SendFlush, FlushCas, SendFlushSet, FlushSet, UnLock, Signal,
     pipeVars, workerVars
<1>3. CASE Process
  <2>1. /\ Len(processed) = front - 2 /\ front > 1 /\ msg = slot[front - 1]
        /\ front <= Len(slot) + 1 /\ front \in Nat /\ Len(slot) \in Nat
    BY <1>3 DEF Process, IInv, TypeOK, History, Back
  <2>2. Len(processed) < Len(slot) /\ msg = slot[Len(processed) + 1]
    BY <2>1
  <2>3. Chan!Deliver
    BY <1>3, <2>2 DEF Process, pipeVars, Chan!Deliver
  <2> QED  BY <2>3 DEF Chan!Next
<1>4. ASSUME EpollWait \/ RecvRead \/ RecvTake \/ RecvWait \/ RecvReread
      PROVE  UNCHANGED Chan!chanVars
  BY <1>4 DEF EpollWait, RecvRead, RecvTake, RecvWait, RecvReread, CheckRead, Pop,
     pipeVars
<1>5. CASE UNCHANGED vars
  BY <1>5 DEF vars, pipeVars, workerVars
<1> QED  BY <1>1, <1>2, <1>3, <1>4, <1>5 DEF Next, InSend, WorkerStep

\* Every behaviour of the mailbox is, through slot and processed, one of the
\* FIFO channel: messages are processed once each, in the order they were
\* written, whatever the interleaving of senders and worker.
THEOREM Fifo == Spec => FifoSafe
<1> QED
  BY ChannelInit, ChannelStep, Invariance, PTL DEF Spec, FifoSafe, Chan!Safe
=============================================================================
