------------------------------ MODULE TimerThread ------------------------------
(***************************************************************************)
(* The timer of threadutil/TimerThread.c.                                  *)
(*                                                                         *)
(* timer->mutex protects every field.  A call is one critical section,     *)
(* with two exceptions: TimerThreadSchedule reads the clock before it      *)
(* locks, and TimerThreadShutdown waits inside.  TimerThreadWorker keeps   *)
(* the mutex while it hands over one due event after another, and the      *)
(* clock goes on meanwhile; it releases the mutex only to wait.            *)
(*                                                                         *)
(* An event is named by its id: ids are taken from lastEventId in the      *)
(* critical section that increments it.                                    *)
(***************************************************************************)
EXTENDS Integers, Sequences, FiniteSets

CONSTANTS
  Client,     \* threads that use the timer
  TimerJob,   \* the thread of the pool that runs TimerThreadWorker
  Delays,     \* the REL_SEC timeouts
  AbsTimes,   \* the ABS_SEC timeouts
  LateCalls,  \* clients may still call after TimerThreadShutdown has begun
  Faults,     \* what may happen: "start", "refuse", "memory", "spurious"
  MaxEvents,  \* bound: ids handed out
  MaxTime     \* bound: the last second of the clock

ASSUME TimerConstants ==
  /\ TimerJob \notin Client
  /\ Delays \subseteq Nat /\ AbsTimes \subseteq Nat
  /\ LateCalls \in BOOLEAN
  /\ Faults \subseteq {"start", "refuse", "memory", "spurious"}
  /\ MaxEvents \in Nat /\ MaxTime \in Nat

Event   == 0 .. (MaxEvents - 1)
Thread  == Client \cup {TimerJob}
Forever == -1                    \* ithread_cond_wait: no deadline

VARIABLES
  \* struct TIMERTHREAD, and the eventTime of every TimerEvent
  eventQ, eventTime, lastEventId, shutdown,
  phase,       \* "none", "up" after TimerThreadInit, "destroyed"
  wpc,         \* TimerThreadWorker: "none", "start", "locked", "waiting", "done"
  deadline,    \* the end of its last ithread_cond_timedwait, if it matters
  asleep,      \* threads blocked on timer->condition
  call,        \* per client: "idle", "schedule", "drain"
  timeout,     \* per client: the event time computed before the lock
  fate,        \* what became of each event
  now

timerVars == <<eventQ, eventTime, lastEventId, shutdown, phase, fate>>
vars == <<timerVars, wpc, deadline, asleep, call, timeout, now>>

-----------------------------------------------------------------------------
\* Thread t, which does not hold the mutex, can lock it.
MutexFree == phase = "up" /\ wpc # "locked"

\* Mutant of Signal: it is forgotten.
SignalNobody == UNCHANGED asleep

\* ithread_cond_signal: the worker and a thread in TimerThreadShutdown wait on
\* the same condition variable.
Signal ==
  \/ asleep = {} /\ UNCHANGED asleep
  \/ \E t \in asleep : asleep' = asleep \ {t}

\* Clients stop calling when one of them calls TimerThreadShutdown, unless
\* LateCalls.
MayCall(c) ==
  /\ phase = "up" /\ call[c] = "idle"
  /\ LateCalls \/ \A d \in Client : call[d] # "drain"

-----------------------------------------------------------------------------
\* TimerThreadInit fails when ThreadPoolAddPersistent does.
TimerThreadInit ==
  /\ phase = "none"
  /\ \/ phase' = "up" /\ wpc' = "start"
     \/ "start" \in Faults /\ phase' = "destroyed" /\ UNCHANGED wpc
  /\ UNCHANGED <<eventQ, eventTime, lastEventId, shutdown, fate, deadline,
                 asleep, call, timeout, now>>

-----------------------------------------------------------------------------
(* TimerThreadSchedule *)

\* CalculateEventTime, before the lock.
ScheduleTime(c) ==
  /\ MayCall(c)
  /\ lastEventId + Cardinality({d \in Client : call[d] = "schedule"}) < MaxEvents
  /\ \E t \in {now + d : d \in Delays} \cup AbsTimes :
       /\ t <= MaxTime
       /\ timeout' = [timeout EXCEPT ![c] = t]
  /\ call' = [call EXCEPT ![c] = "schedule"]
  /\ UNCHANGED <<timerVars, wpc, deadline, asleep, now>>

\* Mutant of ScanStops: a new event always goes to the front.
ScanNothing(k, t) == k = 0

\* The scan passes k events: it stops at the first one due at t or later.
ScanStops(k, t) ==
  /\ \A i \in 1 .. k : eventTime[eventQ[i]] < t
  /\ k < Len(eventQ) => eventTime[eventQ[k + 1]] >= t

\* ListAddBefore or ListAddTail: q with e behind its first k elements.
AddAfter(q, k, e) ==
  [i \in 1 .. Len(q) + 1 |-> IF i <= k THEN q[i] ELSE IF i = k + 1 THEN e ELSE q[i - 1]]

\* ListDelNode: q without its k-th element.
DelNode(q, k) == [i \in 1 .. Len(q) - 1 |-> IF i < k THEN q[i] ELSE q[i + 1]]

\* Without memory for the event the call fails at once; without memory for the
\* list node it still uses up an id.
ScheduleInsert(c) ==
  /\ MutexFree /\ call[c] = "schedule"
  /\ call' = [call EXCEPT ![c] = "idle"]
  /\ timeout' = [timeout EXCEPT ![c] = 0]
  /\ \/ /\ lastEventId < MaxEvents
        /\ \E k \in 0 .. Len(eventQ) :
             /\ ScanStops(k, timeout[c])
             /\ eventQ' = AddAfter(eventQ, k, lastEventId)
        /\ eventTime' = [eventTime EXCEPT ![lastEventId] = timeout[c]]
        /\ fate' = [fate EXCEPT ![lastEventId] = "queued"]
        /\ lastEventId' = lastEventId + 1
        /\ Signal
     \/ /\ "memory" \in Faults
        /\ lastEventId < MaxEvents
        /\ fate' = [fate EXCEPT ![lastEventId] = "failed"]
        /\ lastEventId' = lastEventId + 1
        /\ UNCHANGED <<eventQ, eventTime, asleep>>
     \/ /\ "memory" \in Faults
        /\ UNCHANGED <<eventQ, eventTime, lastEventId, fate, asleep>>
  /\ UNCHANGED <<shutdown, phase, wpc, deadline, now>>

-----------------------------------------------------------------------------
\* TimerThreadRemove.  An id that is not in the queue changes nothing.
TimerThreadRemove(c, e) ==
  /\ MayCall(c) /\ MutexFree
  /\ \E i \in DOMAIN eventQ :
       /\ eventQ[i] = e
       /\ eventQ' = DelNode(eventQ, i)
  /\ fate' = [fate EXCEPT ![e] = "removed"]
  /\ UNCHANGED <<eventTime, lastEventId, shutdown, phase, wpc, deadline, asleep,
                 call, timeout, now>>

-----------------------------------------------------------------------------
(* TimerThreadShutdown *)

\* Takes every event off the queue and frees it.
DrainQueue ==
  /\ fate' = [e \in Event |-> IF \E i \in DOMAIN eventQ : eventQ[i] = e
                              THEN "dropped" ELSE fate[e]]
  /\ eventQ' = <<>>

\* Drains the queue, wakes the worker and waits for it.
ShutdownBegin(c) ==
  /\ MutexFree /\ call[c] = "idle"
  /\ \A d \in Client : call[d] # "drain" /\ (LateCalls \/ call[d] = "idle")
  /\ shutdown' = 1
  /\ DrainQueue
  /\ asleep' = {c}
  /\ call' = [call EXCEPT ![c] = "drain"]
  /\ UNCHANGED <<eventTime, lastEventId, phase, wpc, deadline, timeout, now>>

\* Mutant of WorkerInside: TimerThreadShutdown waits once and does not look again.
NobodyInside == FALSE

\* while (timer->shutdown) ithread_cond_wait(...), and then the end of the timer.
WorkerInside == shutdown = 1

ShutdownWait(c) ==
  /\ MutexFree /\ call[c] = "drain" /\ c \notin asleep
  /\ \/ /\ WorkerInside
        /\ asleep' = asleep \cup {c}
        /\ UNCHANGED <<phase, call>>
     \/ /\ ~WorkerInside
        /\ phase' = "destroyed"
        /\ call' = [call EXCEPT ![c] = "idle"]
        /\ UNCHANGED asleep
  /\ UNCHANGED <<eventQ, eventTime, lastEventId, shutdown, fate, wpc, deadline,
                 timeout, now>>

-----------------------------------------------------------------------------
(* TimerThreadWorker: one iteration of its loop *)

HasMutex ==
  /\ phase = "up"
  /\ wpc = "locked" \/ (wpc \in {"start", "waiting"} /\ TimerJob \notin asleep)

\* Mutant of HeadDue: an event is taken a second early.
HeadDueSoon == eventQ # <<>> /\ eventTime[Head(eventQ)] <= now + 1

HeadDue == eventQ # <<>> /\ eventTime[Head(eventQ)] <= now

WorkerLeave ==
  /\ HasMutex /\ shutdown = 1
  /\ shutdown' = 0
  /\ Signal
  /\ wpc' = "done" /\ deadline' = Forever
  /\ UNCHANGED <<eventQ, eventTime, lastEventId, phase, fate, call, timeout, now>>

\* ThreadPoolAdd, or ThreadPoolAddPersistent, takes the job or refuses it, in
\* which case its argument is freed.  The mutex stays locked.
WorkerFire ==
  /\ HasMutex /\ shutdown = 0 /\ HeadDue
  /\ \E r \in {"fired"} \cup (IF "refuse" \in Faults THEN {"refused"} ELSE {}) :
       fate' = [fate EXCEPT ![Head(eventQ)] = r]
  /\ eventQ' = Tail(eventQ)
  /\ wpc' = "locked" /\ deadline' = Forever
  /\ UNCHANGED <<eventTime, lastEventId, shutdown, phase, asleep, call, timeout,
                 now>>

WorkerWait ==
  /\ HasMutex /\ shutdown = 0 /\ ~HeadDue
  /\ wpc' = "waiting"
  /\ asleep' = asleep \cup {TimerJob}
  /\ deadline' = IF eventQ = <<>> THEN Forever ELSE eventTime[Head(eventQ)]
  /\ UNCHANGED <<timerVars, call, timeout, now>>

WorkerStep == WorkerLeave \/ WorkerFire \/ WorkerWait

\* ithread_cond_timedwait returns at its deadline.
WaitTimesOut ==
  /\ TimerJob \in asleep
  /\ deadline # Forever /\ deadline <= now
  /\ asleep' = asleep \ {TimerJob}
  /\ UNCHANGED <<timerVars, wpc, deadline, call, timeout, now>>

SpuriousWake ==
  /\ "spurious" \in Faults
  /\ \E t \in asleep : asleep' = asleep \ {t}
  /\ UNCHANGED <<timerVars, wpc, deadline, call, timeout, now>>

Tick ==
  /\ now < MaxTime
  /\ now' = now + 1
  /\ UNCHANGED <<timerVars, wpc, deadline, asleep, call, timeout>>

-----------------------------------------------------------------------------
Init ==
  /\ eventQ = <<>>
  /\ eventTime = [e \in Event |-> 0]
  /\ lastEventId = 0
  /\ shutdown = 0
  /\ phase = "none"
  /\ wpc = "none"
  /\ deadline = Forever
  /\ asleep = {}
  /\ call = [c \in Client |-> "idle"]
  /\ timeout = [c \in Client |-> 0]
  /\ fate = [e \in Event |-> "none"]
  /\ now = 0

ClientStep(c) ==
  \/ ScheduleTime(c)
  \/ ScheduleInsert(c)
  \/ \E e \in Event : TimerThreadRemove(c, e)
  \/ ShutdownBegin(c)
  \/ ShutdownWait(c)

Next ==
  \/ TimerThreadInit
  \/ \E c \in Client : ClientStep(c)
  \/ WorkerStep
  \/ WaitTimesOut
  \/ SpuriousWake
  \/ Tick

Spec == Init /\ [][Next]_vars

\* Time passes, a wait ends at its deadline, and a thread that can get the mutex
\* gets it.  Nobody has to call the timer.
Fairness ==
  /\ WF_vars(Tick) /\ WF_vars(WaitTimesOut) /\ WF_vars(WorkerStep)
  /\ \A c \in Client : WF_vars(ShutdownWait(c))

FairSpec == Spec /\ Fairness

-----------------------------------------------------------------------------
(* Properties *)

TypeOK ==
  /\ eventQ \in Seq(Event)
  /\ eventTime \in [Event -> Nat]
  /\ lastEventId \in 0 .. MaxEvents
  /\ shutdown \in {0, 1}
  /\ phase \in {"none", "up", "destroyed"}
  /\ wpc \in {"none", "start", "locked", "waiting", "done"}
  /\ deadline \in Nat \cup {Forever}
  /\ asleep \subseteq Thread
  /\ call \in [Client -> {"idle", "schedule", "drain"}]
  /\ timeout \in [Client -> Nat]
  /\ fate \in [Event -> {"none", "queued", "failed", "fired", "refused", "removed", "dropped"}]
  /\ now \in Nat

\* The worker never sleeps past an event: whatever was scheduled or removed since
\* it fell asleep, its wait ends by the time of every event in the queue.
NeverOversleeps ==
  TimerJob \in asleep =>
    \A i \in DOMAIN eventQ : deadline # Forever /\ deadline <= eventTime[eventQ[i]]

\* "Q is ordered by eventTime with the head of the Q being the next event", and
\* the queue holds exactly the events nobody has disposed of, each once.
QueueInOrder ==
  /\ \A i, k \in DOMAIN eventQ : i < k => eventTime[eventQ[i]] <= eventTime[eventQ[k]]
  /\ \A i, k \in DOMAIN eventQ : i # k => eventQ[i] # eventQ[k]
  /\ \A e \in Event : fate[e] = "queued" <=> \E i \in DOMAIN eventQ : eventQ[i] = e

\* TimerThreadShutdown leaves no event behind: each one was handed to the pool,
\* removed, or freed with its free_func.
NoEventLeftBehind == phase = "destroyed" => \A e \in Event : fate[e] # "queued"

\* The timer is destroyed only when its worker has left and no call is inside.
QuietWhenDestroyed ==
  phase = "destroyed" => /\ wpc \in {"none", "done"} /\ asleep = {}
                         /\ \A c \in Client : call[c] = "idle"

\* The timer keeps the promise of TimerService, whose timer is closed from the
\* moment TimerThreadShutdown begins, though the worker clears the shutdown flag.
Closed == shutdown = 1 \/ wpc = "done" \/ phase = "destroyed"
Service == INSTANCE TimerService WITH due <- eventTime, status <- fate, open <- ~Closed
IsTimerService == Service!Spec

\* Every event that gets into the queue leaves it.
EventLeaves == \A e \in Event : fate[e] = "queued" ~> fate[e] # "queued"

\* TimerThreadShutdown returns.
ShutdownReturns == shutdown = 1 ~> phase = "destroyed"

\* The timer's state has its types, and TimerThreadShutdown frees it only when the
\* worker has left and no call is inside.
TimerSound == TypeOK /\ QuietWhenDestroyed

\* Nothing waits for ever: each scheduled event is fired, removed or dropped, and
\* TimerThreadShutdown returns, though both wait on one condition variable.
Progress == EventLeaves /\ ShutdownReturns
=============================================================================
