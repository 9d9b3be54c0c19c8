------------------------------- MODULE Timers -------------------------------
(***************************************************************************)
(* core/poller.cc: the timers of one poller.  timers_ is a multimap from   *)
(* expiry to TimerEntry and timer_ids_ a map from timer id to TimerEntry.  *)
(* Callbacks, those of timers included, add and cancel timers while the    *)
(* clock of CurrentMs moves on.                                            *)
(***************************************************************************)
EXTENDS Naturals, SequencesExt

CONSTANTS
  NULL,
  MaxTimers, \* bound: timers added
  MaxClock,  \* bound: the time of CurrentMs
  Delays,    \* timeouts of timers
  Default,   \* kDefaultTimeout
  Ticking    \* whether the application has started TimerThread

ASSUME TimersAssumption ==
  /\ MaxTimers \in Nat /\ MaxClock \in Nat /\ Default \in Nat \ {0}
  /\ Delays \subseteq Nat /\ Ticking \in BOOLEAN

Ids == 1..MaxTimers
Types == {"once", "permanent"}
TimerEntry == [timeout : Nat, expire : Nat, type : Types]
ASSUME NULLAssumption == NULL \notin TimerEntry

VARIABLES
  clock,     \* what CurrentMs returns
  now,       \* now_ms_
  timers,    \* timers_ in iteration order: [at, id]
  ids,       \* keys of timer_ids_
  entry,     \* the TimerEntry of an id, NULL if not allocated
  maxId,     \* max_timer_id_
  pc,        \* "poll": Poll runs; "fire", "reap": the loops of executeTimers;
             \* "undefined": what the thread does has become undefined
  i,         \* del_timers: timers that this executeTimers has fired and not
             \* erased yet, the first i of timers
  wait,      \* res, the timeout given to Poll
  last,      \* history: the key of the last node fired
  fired,     \* history: the timers that have fired
  late       \* history: a timer has been cancelled that had fired before

history == <<last, fired, late>>
vars == <<clock, now, timers, ids, entry, maxId, pc, i, wait, history>>

Init ==
  /\ clock = 0 /\ now = 0 /\ timers = <<>> /\ ids = {} /\ maxId = 0
  /\ entry = [id \in Ids |-> NULL]
  /\ pc = "poll" /\ i = 0 /\ wait = Default
  /\ last = 0 /\ fired = {} /\ late = FALSE

\* TimerThread::updateTime, which only runs once the thread was started.
Tick ==
  /\ Ticking /\ clock < MaxClock /\ clock' = clock + 1
  /\ UNCHANGED <<now, timers, ids, entry, maxId, pc, i, wait, history>>

----------------------------------------------------------------------------
\* multimap::upper_bound, as the number of nodes before the first later than at.
UpperBound(ts, at) ==
  CHOOSE k \in 0..Len(ts) : (\A j \in 1..k : ts[j].at <= at) /\ (k < Len(ts) => ts[k + 1].at > at)

\* MUTANT Insert: new nodes go to the end, as in a list.
InsertLast(ts, n) == Append(ts, n)

\* multimap::insert puts a node behind those of equal key.
Insert(ts, n) == InsertAt(ts, UpperBound(ts, n.at) + 1, n)

\* Callbacks of Poll, or the Timeout of the i-th timer.
InCallback == pc = "poll" \/ (pc = "fire" /\ i > 0)

AddTimer(d, t) ==
  /\ InCallback /\ maxId < MaxTimers
  /\ maxId' = maxId + 1
  /\ timers' = Insert(timers, [at |-> clock + d, id |-> maxId + 1])
  /\ ids' = ids \cup {maxId + 1}
  /\ entry' = [entry EXCEPT ![maxId + 1] = [timeout |-> d, expire |-> clock + d, type |-> t]]
  /\ UNCHANGED <<clock, now, pc, i, wait, history>>

\* MUTANT Found: any timer of the same expiry is taken for the one to cancel.
FoundAny(id) == UpperBound(timers, entry[id].expire)

\* The node CancelTimer erases: the timer's own among those of its entry's
\* expiry, else (the loop ends at upper_bound) the one behind them.
Found(id) ==
  LET own == {k \in DOMAIN timers : timers[k] = [at |-> entry[id].expire, id |-> id]} IN
  IF own # {} THEN CHOOSE k \in own : TRUE ELSE UpperBound(timers, entry[id].expire) + 1

\* CancelTimer stays within what C++ defines: it looks at no entry that was
\* deleted, and erases neither the end of the map nor a node that
\* executeTimers still holds an iterator to.
Defined(id) ==
  /\ Found(id) \in (i + 1)..Len(timers)
  /\ \A k \in 1..(Found(id) - 1) :
       timers[k].at = entry[id].expire => entry[timers[k].id] # NULL

\* An id that is not in timer_ids_ is ignored.
CancelTimer(id) ==
  /\ InCallback /\ id \in ids
  /\ late' = (late \/ id \in fired)
  /\ \/ /\ Defined(id)
        /\ timers' = RemoveAt(timers, Found(id))
        /\ ids' = ids \ {id}
        /\ entry' = [entry EXCEPT ![id] = NULL]
        /\ UNCHANGED pc
     \/ /\ ~Defined(id)
        /\ pc' = "undefined"
        /\ UNCHANGED <<timers, ids, entry>>
  /\ UNCHANGED <<clock, now, maxId, i, wait, last, fired>>

----------------------------------------------------------------------------
(* Poller::Dispatch and executeTimers.                                     *)

Dispatch ==
  /\ pc = "poll" /\ pc' = "fire"
  /\ now' = clock /\ i' = 0
  /\ UNCHANGED <<clock, timers, ids, entry, maxId, wait, history>>

\* MUTANT Due: a timer that expires now is left for the next round.
DueBefore(n) == n.at < now

Due(n) == n.at <= now

\* Timeout is called through the entry; if that was deleted, anything may be.
FireNext ==
  /\ pc = "fire" /\ i < Len(timers) /\ Due(timers[i + 1])
  /\ i' = i + 1
  /\ pc' = IF entry[timers[i + 1].id] # NULL THEN pc ELSE "undefined"
  /\ last' = timers[i + 1].at
  /\ fired' = fired \cup {timers[i + 1].id}
  /\ UNCHANGED <<clock, now, timers, ids, entry, maxId, wait, late>>

\* MUTANT TimeLeft: Poll always sleeps for the default.
TimeLeftDefault(rest) == Default

\* The timeout that executeTimers computes before it arms permanent timers
\* again.
TimeLeft(rest) == IF rest = <<>> THEN Default ELSE rest[1].at - now

\* The first timer that is not due ends the loop.
EndLoop ==
  /\ pc = "fire" /\ (i < Len(timers) => ~Due(timers[i + 1]))
  /\ pc' = "reap"
  /\ wait' = TimeLeft(SubSeq(timers, i + 1, Len(timers)))
  /\ UNCHANGED <<clock, now, timers, ids, entry, maxId, i, history>>

Once(id) == entry[id].type = "once"

\* MUTANT Forgotten: a fired timer is not erased from timer_ids_.
ForgottenNone(id) == ids

\* A once timer leaves timer_ids_ with its entry.
Forgotten(id) == ids \ {id}

\* A permanent timer is armed again; the expiry in its entry stays the first.
Rearm(id) == [at |-> now + entry[id].timeout, id |-> id]

\* A turn of the loop over del_timers.
EraseFired ==
  /\ pc = "reap" /\ i > 0 /\ i' = i - 1
  /\ LET id == timers[1].id IN
     \/ /\ Once(id)
        /\ timers' = Tail(timers)
        /\ ids' = Forgotten(id)
        /\ entry' = [entry EXCEPT ![id] = NULL]
     \/ /\ ~Once(id)
        /\ timers' = Insert(Tail(timers), Rearm(id))
        /\ UNCHANGED <<ids, entry>>
  /\ UNCHANGED <<clock, now, maxId, pc, wait, history>>

\* executeTimers returns, and Poll is called.
Return ==
  /\ pc = "reap" /\ i = 0 /\ pc' = "poll"
  /\ UNCHANGED <<clock, now, timers, ids, entry, maxId, i, wait, history>>

ExecuteTimers == FireNext \/ EndLoop \/ EraseFired \/ Return

Next ==
  \/ Tick \/ Dispatch \/ ExecuteTimers
  \/ \E d \in Delays, t \in Types : AddTimer(d, t)
  \/ \E id \in Ids : CancelTimer(id)

Spec == Init /\ [][Next]_vars

(* The poller's thread runs: Poll returns after its timeout at the latest. *)
(* The clock moves on if TimerThread runs.                                 *)
FairSpec == Spec /\ WF_vars(Dispatch \/ ExecuteTimers) /\ WF_vars(Tick)

----------------------------------------------------------------------------
(* Properties.                                                             *)

Node == [at : Nat, id : Ids]

TypeOK ==
  /\ clock \in Nat /\ now \in Nat /\ maxId \in 0..MaxTimers
  /\ timers \in Seq(Node)
  /\ ids \subseteq Ids
  /\ entry \in [Ids -> TimerEntry \cup {NULL}]
  /\ pc \in {"poll", "fire", "reap", "undefined"}
  /\ i \in 0..Len(timers) /\ wait \in Nat \ {0}
  /\ last \in Nat /\ fired \subseteq Ids /\ late \in BOOLEAN

\* All values are in their ranges, no timer is twice in timers_, and
\* timer_ids_ holds no entry that was deleted.  Until a timer is cancelled
\* that has fired before, both maps hold the same timers and nothing
\* undefined happens; after that, a timer that is only in timers_, with a
\* deleted entry, is one that has fired.
MapsAgree ==
  /\ TypeOK
  /\ \A id \in Ids : id \in ids <=> entry[id] # NULL
  /\ \A j, k \in DOMAIN timers : timers[j].id = timers[k].id => j = k
  /\ \A k \in DOMAIN timers : timers[k].id \in ids \cup fired
  /\ ~late => {timers[k].id : k \in DOMAIN timers} = ids /\ pc # "undefined"

\* Timers fire in the order of their expiry, over all rounds, whatever the
\* callbacks add and cancel meanwhile, and none before its time.
Ordered == last <= last' /\ last' <= clock
FiredInOrder == [][Ordered]_vars

\* The node of a permanent timer that this executeTimers armed again.
Again(n) == n.id \in ids \cap fired /\ n = Rearm(n.id)

\* When Poll is called no timer is overdue, and it does not sleep past one by
\* more than the time that has gone by since now_ms_ was read, in callbacks.
\* Permanent timers that were just armed again are left out: their expiry,
\* which with a timeout of zero is over at once, did not count for the sleep.
InTime ==
  Return => \A k \in DOMAIN timers :
              \/ Again(timers[k])
              \/ /\ timers[k].at > now
                 /\ clock + wait <= timers[k].at + (clock - now)
NoneOverdue == [][InTime]_vars

\* A timer that was cancelled before it fired never fires; one cancelled later
\* can only be reached through its deleted entry.  A once timer fires once.
Firing(id) == i' = i + 1 /\ timers[i'].id = id
Expected(id) ==
  /\ id \in ids \/ (id \in fired /\ pc' = "undefined")
  /\ id \in ids \cap fired => ~Once(id)
NoneAfterEnd == [][\A id \in Ids : Firing(id) => Expected(id)]_vars

\* Every timer fires, unless it is cancelled, once its time has come; but a
\* cancellation of one that has fired may take another's node away.
EventuallyFires ==
  \A id \in Ids :
    (id \in ids /\ entry[id].expire <= MaxClock) ~> (id \notin ids \/ id \in fired \/ late)
============================================================================
