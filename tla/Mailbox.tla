------------------------------ MODULE Mailbox ------------------------------
(***************************************************************************)
(* core/mailbox.cc, core/signaler.cc and the loop of core/worker.cc: many  *)
(* threads send messages to one worker thread.  Senders take turns on a    *)
(* mutex to write and flush the pipe; a flush that finds the reader asleep *)
(* is followed, outside the mutex, by a write to an eventfd.  The worker   *)
(* sleeps in epoll_wait (edge-triggered) and, woken, reads until both the  *)
(* pipe and the eventfd are empty.                                         *)
(*                                                                         *)
(* Every access to state that two threads share is a step of its own.      *)
(***************************************************************************)
EXTENDS YPipe

CONSTANTS
  Senders,   \* the threads that call Mailbox::Send
  MaxSend,   \* bound: calls of Send by one thread
  Dummies    \* what the uninitialised `dummy' of Signaler::Send may hold;
             \* 0 (the eventfd stays as it is) also stands for ~0, which
             \* write(2) rejects

ASSUME MailboxAssumption ==
  /\ NULL \notin Senders
  /\ MaxSend \in Nat
  /\ Dummies \subseteq Nat

VARIABLES
  sync,      \* the thread that holds sync_, or NULL
  spc,       \* where each sender stands in Send
  ok,        \* each sender's result of Flush
  nsent,     \* messages each sender has written
  active,    \* active_
  count,     \* the eventfd's counter
  ready,     \* the eventfd is on epoll's ready list (an edge not yet reported)
  mute,      \* history: a signal has been sent that left the eventfd at zero
  wpc,       \* where the worker stands
  msg,       \* the local `msg' of Worker::In; NULL: never assigned
  processed  \* history: the messages processed

senderVars == <<sync, spc, ok, nsent>>
workerVars == <<active, wpc, msg, processed>>
signalVars == <<count, ready, mute>>
vars == <<pipeVars, senderVars, workerVars, signalVars>>

Messages == Senders \X (1..MaxSend)

\* The constructors: Mailbox() calls CheckRead, which puts the reader to
\* sleep; Worker() adds the eventfd, writable at once, to the poller.
Init ==
  /\ slot = <<>> /\ front = 1 /\ r = 1 /\ w = 1 /\ f = 1 /\ c = NULL
  /\ sync = NULL
  /\ spc = [s \in Senders |-> "idle"]
  /\ ok = [s \in Senders |-> TRUE]
  /\ nsent = [s \in Senders |-> 0]
  /\ active = FALSE /\ wpc = "poll" /\ msg = NULL /\ processed = <<>>
  /\ count = 0 /\ ready = TRUE /\ mute = FALSE

----------------------------------------------------------------------------
(* Mailbox::Send.                                                          *)

GoTo(s, from, to) == spc[s] = from /\ spc' = [spc EXCEPT ![s] = to]

\* MUTANT Lock: the mutex is left out.
LockNoMutex(s) ==
  /\ nsent[s] < MaxSend
  /\ GoTo(s, "idle", "write")
  /\ sync' = s
  /\ UNCHANGED <<ok, nsent, pipeVars, workerVars, signalVars>>

Lock(s) ==
  /\ nsent[s] < MaxSend
  /\ GoTo(s, "idle", "write")
  /\ sync = NULL /\ sync' = s
  /\ UNCHANGED <<ok, nsent, pipeVars, workerVars, signalVars>>

SendWrite(s) ==
  /\ GoTo(s, "write", "flush")
  /\ nsent' = [nsent EXCEPT ![s] = @ + 1]
  /\ Write(<<s, nsent'[s]>>, FALSE)
  /\ UNCHANGED <<sync, ok, workerVars, signalVars>>

\* Flush's compare-and-swap.  Its first test, w_ == f_, is false here: the
\* Write before it was complete, and the mutex keeps other flushes away.
\* MUTANT SendFlush: the result of a successful Flush is inverted.
SendFlushInverted(s) ==
  /\ UNCHANGED <<sync, nsent, workerVars, signalVars>>
  /\ \/ /\ FlushCas
        /\ GoTo(s, "flush", "unlock")
        /\ ok' = [ok EXCEPT ![s] = FALSE]
     \/ /\ c # w
        /\ GoTo(s, "flush", "set")
        /\ UNCHANGED <<ok, pipeVars>>

SendFlush(s) ==
  /\ UNCHANGED <<sync, nsent, workerVars, signalVars>>
  /\ \/ /\ FlushCas
        /\ GoTo(s, "flush", "unlock")
        /\ ok' = [ok EXCEPT ![s] = TRUE]
     \/ /\ c # w
        /\ GoTo(s, "flush", "set")
        /\ UNCHANGED <<ok, pipeVars>>

SendFlushSet(s) ==
  /\ GoTo(s, "set", "unlock")
  /\ FlushSet
  /\ ok' = [ok EXCEPT ![s] = FALSE]
  /\ UNCHANGED <<sync, nsent, workerVars, signalVars>>

UnLock(s) ==
  /\ GoTo(s, "unlock", IF ok[s] THEN "idle" ELSE "signal")
  /\ sync' = NULL
  /\ UNCHANGED <<ok, nsent, pipeVars, workerVars, signalVars>>

\* signaler_.Send(): writing `dummy' to the eventfd makes an epoll edge.
Signal(s) ==
  /\ GoTo(s, "signal", "idle")
  /\ \E d \in Dummies : count' = count + d /\ mute' = (mute \/ d = 0)
  /\ ready' = TRUE
  /\ UNCHANGED <<sync, ok, nsent, pipeVars, workerVars>>

----------------------------------------------------------------------------
(* Worker::Run and Worker::In, the latter with the Mailbox::Recv it loops  *)
(* on inlined.  poll(2) failing with EINTR sends In round its loop again   *)
(* and is a stuttering step.                                               *)

RecvEntry == IF active THEN "read" ELSE "wait"

\* epoll_wait reports the eventfd: In is called if it is readable, and then
\* Out, which does nothing.
EpollWait ==
  /\ wpc = "poll" /\ ready
  /\ ready' = FALSE
  /\ wpc' = IF count > 0 THEN RecvEntry ELSE "poll"
  /\ UNCHANGED <<count, mute, active, msg, processed, pipeVars, senderVars>>

\* Recv while active: pipe_.Read up to and including its CheckRead.
RecvRead ==
  /\ wpc = "read"
  /\ CheckRead
  /\ active' = CheckReadOk
  /\ wpc' = IF CheckReadOk THEN "take" ELSE "wait"
  /\ UNCHANGED <<msg, processed, senderVars, signalVars>>

\* MUTANT RecvTake: the item is read but not popped.
RecvTakeNoPop ==
  /\ wpc = "take"
  /\ msg' = slot[front]
  /\ wpc' = "process"
  /\ UNCHANGED <<active, processed, pipeVars, senderVars, signalVars>>

\* The rest of pipe_.Read.
RecvTake ==
  /\ wpc = "take"
  /\ msg' = slot[front]
  /\ Pop
  /\ wpc' = "process"
  /\ UNCHANGED <<active, processed, senderVars, signalVars>>

\* MUTANT RecvWait: the failure of RecvFailable is not looked at.
RecvWaitUnchecked ==
  /\ wpc = "wait"
  /\ count' = 0 /\ ready' = TRUE
  /\ active' = TRUE
  /\ wpc' = "reread"
  /\ UNCHANGED <<mute, msg, processed, pipeVars, senderVars>>

\* signaler_.Wait(0) and RecvFailable: the eventfd does not block, so an
\* empty one makes Recv fail and In return.  Reading a non-empty one clears
\* it, which is an edge (EPOLLOUT) too.
RecvWait ==
  /\ wpc = "wait"
  /\ \/ /\ count = 0
        /\ wpc' = "poll"
        /\ UNCHANGED <<active, count, ready>>
     \/ /\ count > 0
        /\ count' = 0 /\ ready' = TRUE
        /\ active' = TRUE
        /\ wpc' = "reread"
  /\ UNCHANGED <<mute, msg, processed, pipeVars, senderVars>>

\* The pipe_.Read after a signal: its result is not looked at, so a read
\* that finds nothing leaves `msg' as the last message, already deleted.
RecvReread ==
  /\ wpc = "reread"
  /\ CheckRead
  /\ wpc' = IF CheckReadOk THEN "take" ELSE "process"
  /\ UNCHANGED <<active, msg, processed, senderVars, signalVars>>

\* MUTANT Process: In handles one message per event.
ProcessOnlyOne ==
  /\ wpc = "process"
  /\ processed' = Append(processed, msg)
  /\ wpc' = "poll"
  /\ UNCHANGED <<active, msg, pipeVars, senderVars, signalVars>>

\* msg->Process(); delete msg; and the next Recv.
Process ==
  /\ wpc = "process"
  /\ processed' = Append(processed, msg)
  /\ wpc' = RecvEntry
  /\ UNCHANGED <<active, msg, pipeVars, senderVars, signalVars>>

----------------------------------------------------------------------------
InSend(s) == SendWrite(s) \/ SendFlush(s) \/ SendFlushSet(s) \/ UnLock(s) \/ Signal(s)

WorkerStep == EpollWait \/ RecvRead \/ RecvTake \/ RecvWait \/ RecvReread \/ Process

Next == WorkerStep \/ \E s \in Senders : Lock(s) \/ InSend(s)

Spec == Init /\ [][Next]_vars

(* A thread that runs goes on: the scheduler starves neither the worker    *)
(* nor a thread inside Send.  No thread has to call Send.                  *)
Fairness ==
  /\ WF_vars(WorkerStep)
  /\ \A s \in Senders : WF_vars(InSend(s))

FairSpec == Spec /\ Fairness

----------------------------------------------------------------------------
(* Properties.                                                             *)

\* The variables hold what their C++ types allow; beyond that, `r' is never
\* NULL while the pipe lives, as the comment in YPipe::CheckRead says.
TypeOK ==
  /\ slot \in Seq(Messages)
  /\ front \in 1..Back /\ r \in 1..Back /\ w \in 1..Back /\ f \in 1..Back
  /\ c \in 1..Back \cup {NULL}
  /\ sync \in Senders \cup {NULL}
  /\ spc \in [Senders -> {"idle", "write", "flush", "set", "unlock", "signal"}]
  /\ ok \in [Senders -> BOOLEAN]
  /\ nsent \in [Senders -> 0..MaxSend]
  /\ active \in BOOLEAN
  /\ count \in Nat
  /\ ready \in BOOLEAN /\ mute \in BOOLEAN
  /\ wpc \in {"poll", "read", "take", "wait", "reread", "process"}
  /\ msg \in Messages \cup {NULL}
  /\ processed \in Seq(Messages \cup {NULL})

\* YPipe::Read takes only cells below c: whatever the senders are doing, it
\* never reads the cell Write is filling, nor one not flushed yet.
ReaderConfined == wpc = "take" => c # NULL /\ front < c /\ front < r

\* Flush stores c without a compare-and-swap, "don't care about
\* thread-safeness": that is right only because at that moment the reader is
\* asleep and no other thread can wake it.
StoreUnraced ==
  \A s \in Senders : spc[s] = "set" => c = NULL /\ ~active /\ count = 0

\* In never runs Process on a pointer it has already processed and deleted,
\* or never assigned: Recv's unchecked read after a signal always succeeds.
NoStaleMessage ==
  wpc = "process" => /\ Len(processed) = front - 2
                     /\ msg = slot[front - 1]

\* Each sleep of the reader is ended by one signal: never two at a time in
\* the eventfd or on their way to it, and none while the reader is awake.
Signallers == {s \in Senders : spc[s] \in {"unlock", "signal"} /\ ~ok[s]}
OneSignal ==
  /\ \A s, t \in Signallers : s = t
  /\ count > 0 => Signallers = {}
  /\ active => count = 0 /\ Signallers = {}

\* While flushed messages wait for a reader that is not reading, some sender
\* is about to signal, or the eventfd is readable and the worker is about to
\* look at it: a wake-up is lost to nothing but a signal whose uninitialised
\* `dummy' was zero.  That one is never made good: the worker sleeps on, with
\* messages waiting and no one about to wake it, whatever is sent later.
NoLostWakeup ==
  /\ ~active /\ c # NULL /\ ~mute =>
       \/ Signallers # {}
       \/ count > 0 /\ (wpc = "wait" \/ ready)
  /\ mute => ~active /\ c # NULL /\ count = 0 /\ Signallers = {}

\* The mailbox is a FIFO channel: messages are processed once each and in
\* the order of the writes; and in the fair specification all of them are,
\* unless a signal was sent that left the eventfd at zero.
Chan == INSTANCE Channel WITH
          Message <- Messages, sent <- slot, delivered <- processed

FifoSafe == Chan!Safe
FifoLive == []~mute => Chan!Live

----------------------------------------------------------------------------
(* The inductive invariant, in parts, from which MailboxProofs.tla derives *)
(* the safety properties above.                                            *)

\* Where the five pointers stand.  w lags behind f only in a Send between
\* its Write and the end of its Flush, and c is NULL or w.
Pointers ==
  /\ front <= r /\ r <= w /\ f = Back
  /\ c \in {w, NULL}
  /\ IF \E s \in Senders : spc[s] \in {"flush", "set"} THEN w + 1 = f ELSE w = f

\* The mutex is held from the write to the unlock.
Mutex ==
  /\ \A s \in Senders : spc[s] \in {"write", "flush", "set", "unlock"} <=> sync = s
  /\ \A s \in Senders : spc[s] = "write" => nsent[s] < MaxSend
  /\ \A s \in Senders : spc[s] = "signal" => ~ok[s]

\* Awake, the reader finds c set; asleep, it has consumed all it prefetched,
\* and c is NULL exactly if it has consumed all that was flushed.
Reader ==
  /\ active <=> wpc \in {"read", "take", "process", "reread"}
  /\ active => c = w
  /\ ~active \/ wpc = "reread" => r = front /\ (c = NULL <=> front = w)
  /\ wpc = "take" => front < r

\* The signal that ends a sleep.
Wakeup ==
  /\ c = NULL => count = 0 /\ Signallers = {}
  /\ count > 0 /\ wpc = "poll" => ready
  /\ ~active /\ c # NULL /\ ~mute => Signallers # {} \/ count > 0
  /\ mute => ~active /\ c # NULL /\ count = 0 /\ Signallers = {}

\* What was processed is what was written, up to the message in hand.
History ==
  /\ Len(processed) = IF wpc = "process" THEN front - 2 ELSE front - 1
  /\ \A i \in 1..Len(processed) : processed[i] = slot[i]
  /\ wpc = "process" => front > 1 /\ msg = slot[front - 1]

IInv ==
  TypeOK /\ Pointers /\ Mutex /\ Reader /\ OneSignal /\ StoreUnraced /\ Wakeup /\ History
============================================================================
