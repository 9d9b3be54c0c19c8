----------------------------- MODULE ThreadStart -----------------------------
(***************************************************************************)
(* base/thread.cc and base/spin_lock.h: how one thread starts others, one  *)
(* after the other.  Start lets its new thread read an entry and a spin    *)
(* lock on its own stack, and takes the lock twice so as not to return     *)
(* before the new thread is done with them.                                *)
(***************************************************************************)
EXTENDS Naturals

CONSTANT NWorkers   \* options.worker_num
ASSUME WorkersAssumption == NWorkers \in Nat \ {0}

Workers == 0..(NWorkers - 1)

VARIABLES
  frame,    \* Thread::Start's frame: its worker, whether it is "none",
            \* "created" (the thread exists, Start waits) or "locked"
  lock,     \* lock_ of the SpinLock in that frame
  mpc,      \* Thread::main of each worker: "none", "entry", "unlock", "run"
  state,    \* Thread::state_
  workers   \* how many workers are in Application::workers_

startVars == <<frame, lock, mpc, state, workers>>

StartInit ==
  /\ frame = [worker |-> 0, at |-> "none"] /\ lock = FALSE
  /\ mpc = [w \in Workers |-> "none"] /\ state = [w \in Workers |-> "None"]
  /\ workers = 0

AllStarted == workers = NWorkers

\* new Worker and Start, up to pthread_create: the lock is fresh and held.
Create ==
  /\ frame.at = "none" /\ ~AllStarted
  /\ frame' = [worker |-> workers, at |-> "created"]
  /\ lock' = TRUE
  /\ mpc' = [mpc EXCEPT ![workers] = "entry"]
  /\ UNCHANGED <<state, workers>>

\* MUTANT SecondLock: Start does not wait for its thread.
SecondLockNoWait ==
  /\ frame.at = "created"
  /\ frame' = [frame EXCEPT !.at = "locked"]
  /\ UNCHANGED <<lock, mpc, state, workers>>

\* The second Lock: its first exchange, or one of lockSlow's, finds 0.
SecondLock ==
  /\ frame.at = "created" /\ ~lock
  /\ frame' = [frame EXCEPT !.at = "locked"]
  /\ lock' = TRUE
  /\ UNCHANGED <<mpc, state, workers>>

\* Start returns, its frame is gone, and Init stores the worker.
StartReturn ==
  /\ frame.at = "locked"
  /\ frame' = [frame EXCEPT !.at = "none"]
  /\ workers' = workers + 1
  /\ UNCHANGED <<lock, mpc, state>>

\* Thread::main reads the entry and sets state_ ...
ThreadEntry(w) ==
  /\ mpc[w] = "entry"
  /\ mpc' = [mpc EXCEPT ![w] = "unlock"]
  /\ state' = [state EXCEPT ![w] = "Running"]
  /\ UNCHANGED <<frame, lock, workers>>

\* ... releases the lock, whatever is at its address by now, and calls Run.
ThreadUnLock(w) ==
  /\ mpc[w] = "unlock"
  /\ mpc' = [mpc EXCEPT ![w] = "run"]
  /\ lock' = FALSE
  /\ UNCHANGED <<frame, state, workers>>

Starter == Create \/ SecondLock \/ StartReturn
Started(w) == ThreadEntry(w) \/ ThreadUnLock(w)
Runs(w) == mpc[w] = "run" /\ state[w] = "Running"

\* A thread that still has the entry or the lock to touch finds the frame of
\* the Start it was created by, and a worker in workers_ is past both.
FrameAlive ==
  \A w \in Workers :
    /\ mpc[w] \in {"entry", "unlock"} => frame = [worker |-> w, at |-> "created"]
    /\ w < workers => Runs(w)
=============================================================================
