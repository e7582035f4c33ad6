------------------------------ MODULE ThreadPool ------------------------------
(***************************************************************************)
(* The thread pool of threadutil/ThreadPool.c.                             *)
(*                                                                         *)
(* Every field of struct THREADPOOL is read and written under tp->mutex,   *)
(* except tp->shutdown in ThreadPoolGetAttr and ThreadPoolGetStats.  A     *)
(* step of the model is therefore one critical section: what a thread does *)
(* from the moment it gets the mutex until it releases it or blocks in     *)
(* ithread_cond_wait.  A thread that blocks keeps its place in its call    *)
(* record and joins the wait set of its condition variable.                *)
(*                                                                         *)
(* A job is named by the order in which CreateThreadPoolJob made it, so    *)
(* smaller numbers are older jobs; 0 is the null pointer.                  *)
(***************************************************************************)
EXTENDS Integers, Sequences, FiniteSets

CONSTANTS
  Worker,     \* identities of worker threads; also the system's thread limit
  Client,     \* application threads, which call the pool from outside
  Main,       \* the client that runs ThreadPoolInit
  InitAttr,   \* the ThreadPoolAttr passed to ThreadPoolInit
  Attrs,      \* the ThreadPoolAttr values ThreadPoolSetAttr may install
  ClientOps,  \* the operations clients call
  JobOps,     \* the operations running jobs call
  AddPriorities, \* the priorities jobs are added with
  PromptCallers, \* a thread woken inside a call gets the mutex before any idle
              \* wait can time out (maxIdleTime is seconds)
  Faults,     \* the failures that may happen: "job", "node", "thread", "spurious"
  MaxJobs,    \* bound: jobs created in a behaviour
  MaxPersistent, \* bound: calls of ThreadPoolAddPersistent that get to add a job
  MaxTime     \* bound: ticks of the clock

Infinite == -1                               \* INFINITE_THREADS

Attr == [minThreads : Nat, maxThreads : Nat \cup {Infinite},
         jobsPerThread : Nat, maxJobsTotal : Nat,
         maxIdleTime : Nat, starvationTime : Nat]

Op == {"add", "addPersistent", "remove", "setAttr", "getAttr", "shutdown"}

ASSUME PoolConstants ==
  /\ Main \in Client
  /\ Worker \cap Client = {}
  /\ IsFiniteSet(Worker) /\ IsFiniteSet(Client)
  /\ InitAttr \in Attr /\ Attrs \subseteq Attr
  /\ ClientOps \subseteq Op /\ JobOps \subseteq Op \ {"shutdown"}
  /\ AddPriorities \subseteq {"high", "med", "low"}
  /\ PromptCallers \in BOOLEAN
  /\ Faults \subseteq {"job", "node", "thread", "spurious"}
  /\ MaxJobs \in Nat /\ MaxTime \in Nat /\ MaxPersistent \in Nat

Thread   == Client \cup Worker
Job      == 1 .. MaxJobs
NoJob    == 0
Priority == {"high", "med", "low"}

VARIABLES
  \* struct THREADPOOL
  jobQ,                     \* highJobQ, medJobQ and lowJobQ, head first
  persistentJob,
  lastJobId,
  shutdown,
  totalThreads,
  pendingWorkerThreadStart,
  busyThreads,
  persistentThreads,
  attr,
  phase,                    \* "init", "up" after ThreadPoolInit, "destroyed"
  \* WorkerThread: where each worker is, and its local variable job
  wpc,
  wjob,
  \* calls in progress, and the threads blocked on start_and_shutdown
  call,
  ssWaiters,
  mutexLeaked,              \* a thread returned without releasing tp->mutex
  \* the fields of each ThreadPoolJob, and what became of it
  nextJob, jobId, prio, requestTime, fate,
  retId,                    \* the id the call that added the job returned
  now

poolVars   == <<jobQ, persistentJob, lastJobId, shutdown, totalThreads,
                pendingWorkerThreadStart, busyThreads, persistentThreads,
                attr, phase>>
workerVars == <<wpc, wjob>>
callVars   == <<call, ssWaiters, mutexLeaked>>
jobVars    == <<nextJob, jobId, prio, requestTime, fate, retId>>
vars       == <<poolVars, workerVars, callVars, jobVars, now>>

-----------------------------------------------------------------------------
(* Wait sets and calls. *)

NoCall == [op |-> "none", step |-> "idle", job |-> NoJob, n |-> 0, jobs |-> 0,
           ok |-> TRUE]

\* A thread can enter the pool: the mutex is free and exists.
MutexFree == ~mutexLeaked /\ phase # "destroyed"

\* Mutant of SignalCondition: the signal is forgotten.
SignalNobody == UNCHANGED wpc

\* ithread_cond_signal(&tp->condition): one waiting worker, if there is one.
SignalCondition ==
  \/ \E w \in Worker : wpc[w] = "waiting" /\ wpc' = [wpc EXCEPT ![w] = "signalled"]
  \/ /\ \A w \in Worker : wpc[w] # "waiting"
     /\ UNCHANGED wpc

\* Block on start_and_shutdown inside call c, at the given step.
BlockSS(t, c, s) ==
  /\ call' = [call EXCEPT ![t] = [c EXCEPT !.step = s]]
  /\ ssWaiters' = ssWaiters \cup {t}

\* Woken, and back in the pool at step s.
Resumed(t, s) == MutexFree /\ t \notin ssWaiters /\ call[t].step = s

Return(t) == call' = [call EXCEPT ![t] = NoCall] /\ UNCHANGED ssWaiters

\* Jobs call the pool from inside the worker that runs them; clients call it
\* between ThreadPoolInit and ThreadPoolShutdown.
CanCall(t, op) ==
  /\ MutexFree /\ call[t] = NoCall
  /\ \/ t \in Client /\ op \in ClientOps /\ phase = "up" /\ shutdown = 0
     \/ t \in Worker /\ op \in JobOps /\ wpc[t] = "running"

-----------------------------------------------------------------------------
(* CreateWorker.  It either blocks (another worker is starting, or this    *)
(* call started one), or fails; it succeeds when the thread it blocked for *)
(* has started (step "cwStarted" with no start pending).                   *)

AtMax(a) == a.maxThreads # Infinite /\ totalThreads + 1 > a.maxThreads

FreeSlot == {w \in Worker : wpc[w] = "none"}

CreateWorkerFails(a) ==
  /\ pendingWorkerThreadStart = 0
  /\ AtMax(a) \/ "thread" \in Faults \/ FreeSlot = {}

CreateWorker(t, c, a) ==
  \/ /\ pendingWorkerThreadStart = 1
     /\ BlockSS(t, c, "cwPending")
     /\ UNCHANGED <<wpc, pendingWorkerThreadStart>>
  \/ /\ pendingWorkerThreadStart = 0
     /\ ~AtMax(a)
     /\ \E w \in FreeSlot : wpc' = [wpc EXCEPT ![w] = "starting"]
     /\ pendingWorkerThreadStart' = 1
     /\ BlockSS(t, c, "cwStarted")

\* The second wait loop of CreateWorker when another start is pending by the
\* time the caller gets the mutex back.
StartStillPending(t) ==
  /\ Resumed(t, "cwStarted")
  /\ pendingWorkerThreadStart = 1
  /\ BlockSS(t, call[t], "cwStarted")
  /\ UNCHANGED <<poolVars, workerVars, mutexLeaked, jobVars, now>>

\* Thread t may run the next part of its operation: a new call of CreateWorker
\* for the start it was waiting for, or what follows its own start.
Retry(t)   == Resumed(t, "cwPending")
Started(t) == Resumed(t, "cwStarted") /\ pendingWorkerThreadStart = 0

-----------------------------------------------------------------------------
(* ThreadPoolAdd *)

Queued(j, p) == \E i \in DOMAIN jobQ[p] : jobQ[p][i] = j

\* Calls of ThreadPoolAddPersistent that have yet to create their job; the bound
\* on jobs counts them.
Expected == {t \in Thread : call[t].op = "addPersistent" /\ call[t].job = NoJob}
JobsLeft == nextJob + Cardinality(Expected) < MaxJobs

QueuedJobs(q) == Len(q["high"]) + Len(q["med"]) + Len(q["low"])

\* CreateThreadPoolJob: the new job takes the current lastJobId.
CreateThreadPoolJob(p, f) ==
  /\ nextJob' = nextJob + 1
  /\ jobId' = [jobId EXCEPT ![nextJob + 1] = lastJobId]
  /\ prio' = [prio EXCEPT ![nextJob + 1] = p]
  /\ requestTime' = [requestTime EXCEPT ![nextJob + 1] = now]
  /\ fate' = [fate EXCEPT ![nextJob + 1] = f]

\* The id handed out is lastJobId at the end of the call.
AssignId(j) ==
  /\ retId' = [retId EXCEPT ![j] = lastJobId]
  /\ lastJobId' = lastJobId + 1

\* The tail of ThreadPoolAdd, after AddWorker.
AddReturn(t, c) ==
  /\ IF c.ok THEN SignalCondition ELSE UNCHANGED wpc
  /\ AssignId(c.job)
  /\ Return(t)

\* The loop test of AddWorker.  jobs and threads are locals of the call.
NeedWorker(c) ==
  \/ c.n = 0
  \/ c.n # 0 /\ c.jobs \div c.n >= attr.jobsPerThread
  \/ totalThreads = busyThreads

AddCreate(t, c) ==
  \/ /\ CreateWorker(t, c, attr)
     /\ UNCHANGED <<lastJobId, retId>>
  \/ /\ CreateWorkerFails(attr)
     /\ AddReturn(t, c)
     /\ UNCHANGED pendingWorkerThreadStart

AddWorker(t, c) ==
  \/ NeedWorker(c) /\ AddCreate(t, c)
  \/ ~NeedWorker(c) /\ AddReturn(t, c) /\ UNCHANGED pendingWorkerThreadStart

\* A call that finds maxJobsTotal jobs queued, or no memory for the job,
\* returns EOUTOFMEM and changes nothing.  "node": ListAddTail runs out of
\* memory; the rest of the call is the same and the job is freed at its end.
ThreadPoolAdd(t, p) ==
  /\ CanCall(t, "add")
  /\ JobsLeft
  /\ QueuedJobs(jobQ) < attr.maxJobsTotal
  /\ \E ok \in {TRUE} \cup (IF "node" \in Faults THEN {FALSE} ELSE {}) :
       LET j == nextJob + 1
           q == IF ok THEN [jobQ EXCEPT ![p] = Append(@, j)] ELSE jobQ
       IN /\ jobQ' = q
          /\ CreateThreadPoolJob(p, IF ok THEN "live" ELSE "refused")
          /\ AddWorker(t, [op |-> "add", step |-> "idle", job |-> j,
                           n |-> totalThreads - persistentThreads,
                           jobs |-> QueuedJobs(q), ok |-> ok])
  /\ UNCHANGED <<persistentJob, shutdown, totalThreads, busyThreads,
                 persistentThreads, attr, phase, wjob, mutexLeaked, now>>

\* threads++ in AddWorker.  Only jobs / threads is ever looked at, which is 0 as
\* soon as threads exceeds jobs, so the count stops there.
CountThread(c) == [c EXCEPT !.n = IF c.n > c.jobs THEN c.n ELSE c.n + 1]

AddContinue(t) ==
  /\ call[t].op = "add"
  /\ \/ Retry(t) /\ AddCreate(t, call[t])
     \/ Started(t) /\ AddWorker(t, CountThread(call[t]))
  /\ UNCHANGED <<jobQ, persistentJob, shutdown, totalThreads, busyThreads,
                 persistentThreads, attr, phase, wjob, mutexLeaked, nextJob,
                 jobId, prio, requestTime, fate, now>>

-----------------------------------------------------------------------------
(* ThreadPoolAddPersistent *)

\* What follows CreateWorker, whose result is ignored: the slot is filled, the
\* slot's previous content is not looked at.
PlacePersistent(t) ==
  \/ /\ nextJob < MaxJobs
     /\ CreateThreadPoolJob("persistent", "live")
     /\ persistentJob' = nextJob + 1
     /\ SignalCondition
     /\ BlockSS(t, [NoCall EXCEPT !.op = "addPersistent", !.job = nextJob + 1],
                "pickup")
  \/ /\ "job" \in Faults
     /\ Return(t)
     /\ UNCHANGED <<nextJob, jobId, prio, requestTime, fate, persistentJob, wpc>>

PersistentCreate(t) ==
  \/ /\ CreateWorker(t, [NoCall EXCEPT !.op = "addPersistent"], attr)
     /\ UNCHANGED <<nextJob, jobId, prio, requestTime, fate, persistentJob>>
  \/ /\ CreateWorkerFails(attr)
     /\ PlacePersistent(t)
     /\ UNCHANGED pendingWorkerThreadStart

persistentFrame ==
  <<jobQ, shutdown, totalThreads, busyThreads, persistentThreads, attr, phase,
    wjob, mutexLeaked, now>>

\* With the pool full and exactly one regular thread the call returns
\* EMAXTHREADS and changes nothing.
ThreadPoolAddPersistent(t) ==
  /\ CanCall(t, "addPersistent")
  /\ JobsLeft
  /\ Cardinality(Expected) + Cardinality({j \in Job : prio[j] = "persistent"}) < MaxPersistent
  /\ \/ totalThreads < attr.maxThreads /\ PersistentCreate(t)
     \/ /\ totalThreads >= attr.maxThreads
        /\ totalThreads - persistentThreads - 1 # 0
        /\ PlacePersistent(t)
        /\ UNCHANGED pendingWorkerThreadStart
  /\ UNCHANGED <<persistentFrame, lastJobId, retId>>

PersistentContinue(t) ==
  /\ call[t].op = "addPersistent"
  /\ \/ Retry(t) /\ PersistentCreate(t)
     \/ Started(t) /\ PlacePersistent(t) /\ UNCHANGED pendingWorkerThreadStart
  /\ UNCHANGED <<persistentFrame, lastJobId, retId>>

\* while (tp->persistentJob) ithread_cond_wait(...)
PersistentPickup(t) ==
  /\ Resumed(t, "pickup")
  /\ \/ /\ persistentJob # NoJob
        /\ BlockSS(t, call[t], "pickup")
        /\ UNCHANGED <<lastJobId, retId>>
     \/ /\ persistentJob = NoJob
        /\ AssignId(call[t].job)
        /\ Return(t)
  /\ UNCHANGED <<persistentFrame, persistentJob, pendingWorkerThreadStart, wpc,
                 nextJob, jobId, prio, requestTime, fate>>

-----------------------------------------------------------------------------
(* ThreadPoolRemove: the first job with this id, in queue order. *)

WithId(q, id) == {i \in DOMAIN q : jobId[q[i]] = id}

RemoveAt(q, i) == SubSeq(q, 1, i - 1) \o SubSeq(q, i + 1, Len(q))

RemoveFrom(p, id) ==
  \E i \in WithId(jobQ[p], id) :
    /\ \A k \in WithId(jobQ[p], id) : i <= k
    /\ jobQ' = [jobQ EXCEPT ![p] = RemoveAt(@, i)]
    /\ fate' = [fate EXCEPT ![jobQ[p][i]] = "removed"]
    /\ UNCHANGED persistentJob

ThreadPoolRemove(t, id) ==
  /\ CanCall(t, "remove")
  /\ \/ RemoveFrom("high", id)
     \/ WithId(jobQ["high"], id) = {} /\ RemoveFrom("med", id)
     \/ /\ WithId(jobQ["high"], id) = {} /\ WithId(jobQ["med"], id) = {}
        /\ RemoveFrom("low", id)
     \/ /\ \A p \in Priority : WithId(jobQ[p], id) = {}
        /\ persistentJob # NoJob /\ jobId[persistentJob] = id
        /\ persistentJob' = NoJob
        /\ fate' = [fate EXCEPT ![persistentJob] = "removed"]
        /\ UNCHANGED jobQ
  /\ UNCHANGED <<lastJobId, shutdown, totalThreads, pendingWorkerThreadStart,
                 busyThreads, persistentThreads, attr, phase, workerVars,
                 callVars, nextJob, jobId, prio, requestTime, retId, now>>

-----------------------------------------------------------------------------
(* ThreadPoolGetAttr and ThreadPoolGetStats test tp->shutdown before they  *)
(* lock and again before they unlock.  A call that sees shutdown at the    *)
(* first test takes no lock and changes nothing.                           *)

GetAttrTest(t) ==
  /\ CanCall(t, "getAttr")
  /\ shutdown = 0
  /\ call' = [call EXCEPT ![t] = [NoCall EXCEPT !.op = "getAttr", !.step = "locking"]]
  /\ UNCHANGED <<poolVars, workerVars, ssWaiters, mutexLeaked, jobVars, now>>

GetAttrCopy(t) ==
  /\ Resumed(t, "locking")
  /\ mutexLeaked' = (shutdown = 1)
  /\ Return(t)
  /\ UNCHANGED <<poolVars, workerVars, jobVars, now>>

-----------------------------------------------------------------------------
(* ThreadPoolShutdown *)

\* Return from a call whose last act is ThreadPoolShutdown, or from the loop
\* that waits for the workers.
DrainOrDestroy(t) ==
  \/ /\ totalThreads > 0
     /\ BlockSS(t, [NoCall EXCEPT !.op = "shutdown"], "drain")
     /\ UNCHANGED phase
  \/ /\ totalThreads = 0
     /\ Return(t)
     /\ phase' = "destroyed"

\* The caller of ThreadPoolShutdown is the only client inside the pool, unless
\* ThreadPoolInit or ThreadPoolSetAttr calls it to clean up.
ShutdownBegin(t) ==
  /\ \/ /\ CanCall(t, "shutdown")
        /\ \A u \in Client : call[u] = NoCall
     \/ Resumed(t, "cleanup")
  /\ jobQ' = [p \in Priority |-> <<>>]
  /\ persistentJob' = NoJob
  /\ fate' = [j \in Job |->
                IF j = persistentJob \/ \E p \in Priority : Queued(j, p)
                THEN "freed" ELSE fate[j]]
  /\ shutdown' = 1
  /\ wpc' = [w \in Worker |-> IF wpc[w] = "waiting" THEN "signalled" ELSE wpc[w]]
  /\ DrainOrDestroy(t)
  /\ UNCHANGED <<lastJobId, totalThreads, pendingWorkerThreadStart, busyThreads,
                 persistentThreads, attr, wjob, mutexLeaked, nextJob, jobId,
                 prio, requestTime, retId, now>>

ShutdownContinue(t) ==
  /\ Resumed(t, "drain")
  /\ DrainOrDestroy(t)
  /\ UNCHANGED <<jobQ, persistentJob, lastJobId, shutdown, totalThreads,
                 pendingWorkerThreadStart, busyThreads, persistentThreads, attr,
                 workerVars, mutexLeaked, jobVars, now>>

-----------------------------------------------------------------------------
(* ThreadPoolInit and ThreadPoolSetAttr start workers until their own loop *)
(* counter reaches minThreads; if one cannot be started the pool is shut   *)
(* down.                                                                   *)

\* The end of the loop: Init publishes the pool, SetAttr signals a worker.  A
\* failed loop leaves the mutex and calls ThreadPoolShutdown.
LoopEnd(t, c, done) ==
  /\ IF c.op = "setAttr" THEN SignalCondition ELSE UNCHANGED wpc
  /\ IF done THEN Return(t)
             ELSE /\ call' = [call EXCEPT ![t] = [c EXCEPT !.step = "cleanup"]]
                  /\ UNCHANGED ssWaiters
  /\ phase' = IF c.op = "init" /\ done THEN "up" ELSE phase

MinThreadsCreate(t, c, a) ==
  \/ CreateWorker(t, c, a) /\ UNCHANGED phase
  \/ /\ CreateWorkerFails(a)
     /\ LoopEnd(t, c, FALSE)
     /\ UNCHANGED pendingWorkerThreadStart

MinThreadsLoop(t, c, a) ==
  \/ c.n < a.minThreads /\ MinThreadsCreate(t, c, a)
  \/ /\ c.n >= a.minThreads
     /\ LoopEnd(t, c, TRUE)
     /\ UNCHANGED pendingWorkerThreadStart

minThreadsFrame ==
  <<jobQ, persistentJob, lastJobId, shutdown, totalThreads, busyThreads,
    persistentThreads, wjob, mutexLeaked, jobVars, now>>

ThreadPoolInit(t) ==
  /\ Resumed(t, "start")
  /\ MinThreadsLoop(t, call[t], attr)
  /\ UNCHANGED <<minThreadsFrame, attr>>

ThreadPoolSetAttr(t, a) ==
  /\ CanCall(t, "setAttr")
  /\ attr' = a
  /\ MinThreadsLoop(t, [NoCall EXCEPT !.op = "setAttr", !.n = totalThreads], a)
  /\ UNCHANGED minThreadsFrame

MinThreadsContinue(t) ==
  /\ call[t].op \in {"init", "setAttr"}
  /\ \/ Retry(t) /\ MinThreadsCreate(t, call[t], attr)
     \/ Started(t) /\ MinThreadsLoop(t, [call[t] EXCEPT !.n = @ + 1], attr)
  /\ UNCHANGED <<minThreadsFrame, attr>>

-----------------------------------------------------------------------------
(* BumpPriority.  The loop of the code always looks at the head of medJobQ *)
(* first and stops when neither head has waited long enough, so it moves a *)
(* prefix of lowJobQ behind medJobQ and then a prefix of that to highJobQ. *)

Waited(j, limit) == now - requestTime[j] >= limit

\* How many jobs at the front of q have waited.
OverduePrefix(q, limit) ==
  Cardinality({i \in DOMAIN q : \A h \in 1 .. i : Waited(q[h], limit)})

\* Mutant of BumpPriority: a bumped job goes to the head of the higher queue.
BumpToFront(q) ==
  LET m == OverduePrefix(q["med"], attr.starvationTime)
  IN [q EXCEPT !["high"] = [i \in 1 .. m |-> q["med"][m + 1 - i]] \o @,
               !["med"] = SubSeq(@, m + 1, Len(@))]

BumpPriority(q) ==
  LET k    == OverduePrefix(q["low"], attr.maxIdleTime)
      med  == q["med"] \o SubSeq(q["low"], 1, k)
      m    == OverduePrefix(med, attr.starvationTime)
  IN [p \in Priority |->
        CASE p = "high" -> q["high"] \o SubSeq(med, 1, m)
          [] p = "med"  -> SubSeq(med, m + 1, Len(med))
          [] p = "low"  -> SubSeq(q["low"], k + 1, Len(q["low"]))]

\* One turn of the loop; without a job to move it is the last.
BumpTurn(q) ==
  IF q["med"] # <<>> /\ Waited(Head(q["med"]), attr.starvationTime)
  THEN [q EXCEPT !["med"] = Tail(@), !["high"] = Append(@, Head(q["med"]))]
  ELSE IF q["low"] # <<>> /\ Waited(Head(q["low"]), attr.maxIdleTime)
  THEN [q EXCEPT !["low"] = Tail(@), !["med"] = Append(@, Head(q["low"]))]
  ELSE q

-----------------------------------------------------------------------------
(* WorkerThread *)

WorkerStart(w) ==
  /\ MutexFree /\ wpc[w] = "starting"
  /\ totalThreads' = totalThreads + 1
  /\ pendingWorkerThreadStart' = 0
  /\ ssWaiters' = {}
  /\ wpc' = [wpc EXCEPT ![w] = "top"]
  /\ UNCHANGED <<jobQ, persistentJob, lastJobId, shutdown, busyThreads,
                 persistentThreads, attr, phase, wjob, call, mutexLeaked,
                 jobVars, now>>

\* The job the worker finished is taken off the counters at the top of the loop.
IsPersistent(j) == j # NoJob /\ prio[j] = "persistent"

\* Mutants of Busy and Long: one worker too many, or none, is taken off.
BusyAlwaysLess(w) == busyThreads - 1
LongNeverLess(w)  == persistentThreads

Busy(w)  == busyThreads - (IF wjob[w] # NoJob THEN 1 ELSE 0)
Long(w)  == persistentThreads - (IF IsPersistent(wjob[w]) THEN 1 ELSE 0)

\* Mutant of Idle: a worker with nothing to do does not look at shutdown.
IdleForever == QueuedJobs(jobQ) = 0 /\ persistentJob = NoJob

\* The condition of the inner loop.
Idle == QueuedJobs(jobQ) = 0 /\ persistentJob = NoJob /\ shutdown = 0

\* Mutants of Surplus: one thread too many may leave, or the comparison is inverted.
SurplusAtMin(w) == wpc[w] = "timedout" /\ totalThreads >= attr.minThreads
SurplusInverted(w) == wpc[w] = "timedout" /\ totalThreads < attr.minThreads

\* The worker dies when its wait timed out and there are more than minThreads
\* threads, or when there are more than maxThreads.
Surplus(w) ==
  \/ wpc[w] = "timedout" /\ totalThreads > attr.minThreads
  \/ attr.maxThreads # Infinite /\ totalThreads > attr.maxThreads

\* exit_function
WorkerExit(w) ==
  /\ totalThreads' = totalThreads - 1
  /\ ssWaiters' = {}
  /\ wpc' = [wpc EXCEPT ![w] = "none"]
  /\ wjob' = [wjob EXCEPT ![w] = NoJob]
  /\ busyThreads' = Busy(w)
  /\ persistentThreads' = Long(w)
  /\ UNCHANGED persistentJob

WorkerWait(w) ==
  /\ wpc' = [wpc EXCEPT ![w] = "waiting"]
  /\ wjob' = [wjob EXCEPT ![w] = NoJob]
  /\ busyThreads' = Busy(w)
  /\ persistentThreads' = Long(w)
  /\ UNCHANGED <<jobQ, persistentJob, totalThreads, ssWaiters>>

\* The queue the next job comes from.
TopQueue(q) == IF q["high"] # <<>> THEN "high" ELSE IF q["med"] # <<>> THEN "med" ELSE "low"

\* Mutant of WorkerPick: the job taken is not deleted from its queue.
WorkerPickKeeps(w) ==
  LET q == BumpPriority(jobQ)
  IN /\ persistentJob = NoJob
     /\ wjob' = [wjob EXCEPT ![w] = Head(q[TopQueue(q)])]
     /\ jobQ' = q
     /\ persistentThreads' = Long(w)
     /\ wpc' = [wpc EXCEPT ![w] = "running"]
     /\ busyThreads' = Busy(w) + 1
     /\ UNCHANGED <<persistentJob, ssWaiters, totalThreads>>

WorkerPick(w) ==
  LET q == BumpPriority(jobQ)
      p == TopQueue(q)
  IN /\ \/ /\ persistentJob # NoJob
           /\ wjob' = [wjob EXCEPT ![w] = persistentJob]
           /\ persistentJob' = NoJob
           /\ persistentThreads' = Long(w) + 1
           /\ ssWaiters' = {}
           /\ jobQ' = q
        \/ /\ persistentJob = NoJob
           /\ wjob' = [wjob EXCEPT ![w] = Head(q[p])]
           /\ jobQ' = [q EXCEPT ![p] = Tail(@)]
           /\ persistentThreads' = Long(w)
           /\ UNCHANGED <<persistentJob, ssWaiters>>
     /\ wpc' = [wpc EXCEPT ![w] = "running"]
     /\ busyThreads' = Busy(w) + 1
     /\ UNCHANGED totalThreads

\* From the lock at the top of the loop, or from a return of
\* ithread_cond_timedwait, to the next wait, job or exit.
WorkerStep(w) ==
  /\ MutexFree /\ wpc[w] \in {"top", "signalled", "timedout"}
  /\ \/ Idle /\ Surplus(w) /\ WorkerExit(w) /\ UNCHANGED jobQ
     \/ Idle /\ ~Surplus(w) /\ WorkerWait(w)
     \/ shutdown = 1 /\ WorkerExit(w) /\ jobQ' = BumpPriority(jobQ)
     \/ shutdown = 0 /\ ~Idle /\ WorkerPick(w)
  /\ UNCHANGED <<lastJobId, shutdown, pendingWorkerThreadStart, attr, phase,
                 call, mutexLeaked, jobVars, now>>

\* job->func(job->arg) returns.
JobReturns(w) ==
  /\ wpc[w] = "running" /\ call[w] = NoCall
  /\ wpc' = [wpc EXCEPT ![w] = "top"]
  /\ fate' = [fate EXCEPT ![wjob[w]] = "ran"]
  /\ UNCHANGED <<poolVars, wjob, callVars, nextJob, jobId, prio, requestTime,
                 retId, now>>

\* ithread_cond_timedwait returns ETIMEDOUT.
WaitTimesOut(w) ==
  /\ wpc[w] = "waiting"
  /\ PromptCallers => \A t \in Thread : call[t] # NoCall => t \in ssWaiters
  /\ wpc' = [wpc EXCEPT ![w] = "timedout"]
  /\ UNCHANGED <<poolVars, wjob, callVars, jobVars, now>>

\* POSIX lets a wait return without a signal.
SpuriousWake(t) ==
  /\ "spurious" \in Faults
  /\ \/ t \in Worker /\ wpc[t] = "waiting" /\ wpc' = [wpc EXCEPT ![t] = "signalled"]
        /\ UNCHANGED ssWaiters
     \/ t \in ssWaiters /\ ssWaiters' = ssWaiters \ {t} /\ UNCHANGED wpc
  /\ UNCHANGED <<poolVars, wjob, call, mutexLeaked, jobVars, now>>

Tick ==
  /\ now < MaxTime
  /\ now' = now + 1
  /\ UNCHANGED <<poolVars, workerVars, callVars, jobVars>>

-----------------------------------------------------------------------------
Init ==
  /\ jobQ = [p \in Priority |-> <<>>]
  /\ persistentJob = NoJob
  /\ lastJobId = 0
  /\ shutdown = 0
  /\ totalThreads = 0
  /\ pendingWorkerThreadStart = 0
  /\ busyThreads = 0
  /\ persistentThreads = 0
  /\ attr = InitAttr
  /\ phase = "init"
  /\ wpc = [w \in Worker |-> "none"]
  /\ wjob = [w \in Worker |-> NoJob]
  /\ call = [t \in Thread |-> IF t = Main THEN [NoCall EXCEPT !.op = "init", !.step = "start"]
                                         ELSE NoCall]
  /\ ssWaiters = {}
  /\ mutexLeaked = FALSE
  /\ nextJob = 0
  /\ jobId = [j \in Job |-> 0]
  /\ prio = [j \in Job |-> "med"]
  /\ requestTime = [j \in Job |-> 0]
  /\ fate = [j \in Job |-> "none"]
  /\ retId = [j \in Job |-> -1]
  /\ now = 0

\* What a thread inside a call does next.
CallStep(t) ==
  \/ ThreadPoolInit(t)
  \/ StartStillPending(t)
  \/ AddContinue(t)
  \/ PersistentContinue(t)
  \/ PersistentPickup(t)
  \/ MinThreadsContinue(t)
  \/ GetAttrCopy(t)
  \/ ShutdownContinue(t)
  \/ call[t].step = "cleanup" /\ ShutdownBegin(t)

\* A thread calls the pool.
Invoke(t) ==
  \/ \E p \in AddPriorities : ThreadPoolAdd(t, p)
  \/ ThreadPoolAddPersistent(t)
  \/ \E j \in Job : retId[j] # -1 /\ ThreadPoolRemove(t, retId[j])
  \/ \E a \in Attrs : ThreadPoolSetAttr(t, a)
  \/ GetAttrTest(t)
  \/ call[t].step # "cleanup" /\ ShutdownBegin(t)

WorkerNext(w) == WorkerStart(w) \/ WorkerStep(w) \/ JobReturns(w) \/ WaitTimesOut(w)

Next ==
  \/ \E t \in Thread : Invoke(t) \/ CallStep(t) \/ SpuriousWake(t)
  \/ \E w \in Worker : WorkerNext(w)
  \/ Tick

Spec == Init /\ [][Next]_vars

\* A thread that can get the mutex eventually gets it, a worker's short job
\* returns, and every job returns once the pool is shutting down.  Nothing is
\* assumed of idle timeouts, of the clock, or that anyone calls the pool.
Fairness ==
  /\ \A t \in Thread : WF_vars(CallStep(t))
  /\ \A w \in Worker : /\ WF_vars(WorkerStart(w) \/ WorkerStep(w))
                       /\ WF_vars(/\ ~IsPersistent(wjob[w]) \/ shutdown = 1
                                  /\ JobReturns(w))

FairSpec == Spec /\ Fairness

\* ithread_cond_timedwait returns when its time is up.
TimeoutSpec == FairSpec /\ \A w \in Worker : WF_vars(WaitTimesOut(w))

-----------------------------------------------------------------------------
(* Properties *)

WorkerState == {"none", "starting", "top", "waiting", "signalled", "timedout", "running"}
CallStepName == {"idle", "start", "cwPending", "cwStarted", "pickup", "locking",
                 "drain", "cleanup"}
Call == [op : Op \cup {"none", "init"}, step : CallStepName, job : Job \cup {NoJob},
         n : Nat, jobs : Nat, ok : BOOLEAN]

TypeOK ==
  /\ jobQ \in [Priority -> Seq(Job)]
  /\ persistentJob \in Job \cup {NoJob}
  /\ lastJobId \in Nat
  /\ shutdown \in {0, 1}
  /\ totalThreads \in Nat
  /\ pendingWorkerThreadStart \in {0, 1}
  /\ busyThreads \in Nat
  /\ persistentThreads \in Nat
  /\ attr \in Attr
  /\ phase \in {"init", "up", "destroyed"}
  /\ wpc \in [Worker -> WorkerState]
  /\ wjob \in [Worker -> Job \cup {NoJob}]
  /\ call \in [Thread -> Call]
  /\ ssWaiters \subseteq Thread
  /\ mutexLeaked \in BOOLEAN
  /\ nextJob \in 0 .. MaxJobs
  /\ jobId \in [Job -> Nat]
  /\ prio \in [Job -> Priority \cup {"persistent"}]
  /\ requestTime \in [Job -> Nat]
  /\ fate \in [Job -> {"none", "live", "refused", "removed", "freed", "ran"}]
  /\ retId \in [Job -> Nat \cup {-1}]
  /\ now \in Nat

\* The counters AddWorker, ThreadPoolAddPersistent and ThreadPoolShutdown decide
\* by describe the threads there are.
CountersAgree ==
  /\ totalThreads = Cardinality({w \in Worker : wpc[w] \notin {"none", "starting"}})
  /\ busyThreads = Cardinality({w \in Worker : wjob[w] # NoJob})
  /\ persistentThreads = Cardinality({w \in Worker : IsPersistent(wjob[w])})
  /\ pendingWorkerThreadStart = Cardinality({w \in Worker : wpc[w] = "starting"})

Starved == QueuedJobs(jobQ) + (IF persistentJob = NoJob THEN 0 ELSE 1)
Awake   == {w \in Worker : wpc[w] \in {"starting", "top", "signalled", "timedout"}}
Adding  == {t \in Thread : call[t].op = "add" /\ call[t].ok}

\* No wakeup is lost: while a worker sleeps on tp->condition, there are at least
\* as many workers about to look at the queues, or calls of ThreadPoolAdd about
\* to signal, as there are jobs waiting.
NoLostWakeup ==
  (shutdown = 0 /\ \E w \in Worker : wpc[w] = "waiting")
    => Starved <= Cardinality(Awake) + Cardinality(Adding)

\* A job is in at most one place, so it is run and freed at most once.
PlacedOnce ==
  /\ \A p1, p2 \in Priority : \A i \in DOMAIN jobQ[p1], k \in DOMAIN jobQ[p2] :
       jobQ[p1][i] = jobQ[p2][k] => p1 = p2 /\ i = k
  /\ \A w \in Worker : wjob[w] # NoJob =>
       /\ wjob[w] # persistentJob
       /\ \A p \in Priority : ~Queued(wjob[w], p)
       /\ \A v \in Worker : wjob[v] = wjob[w] => v = w
  /\ persistentJob # NoJob => \A p \in Priority : ~Queued(persistentJob, p)

Held(j) ==
  \/ \E p \in Priority : Queued(j, p)
  \/ j = persistentJob
  \/ \E w \in Worker : wjob[w] = j

\* No job is forgotten: until it has run, or been removed or freed, the pool has
\* it in a queue, in the persistent slot or in a worker.
NoJobForgotten == \A j \in Job : fate[j] = "live" => Held(j)

\* ThreadPoolShutdown leaves no job behind: each one ran, or was freed with its
\* free_func.
NoJobLeftBehind == phase = "destroyed" => \A j \in Job : fate[j] # "live"

\* "clean up if the min threads could not be created": ThreadPoolInit and
\* ThreadPoolSetAttr give the pool up only while it is short of threads.
CleanupOnlyIfShort ==
  [][\A t \in Thread : call[t].step # "cleanup" /\ call'[t].step = "cleanup" =>
       totalThreads < attr'.minThreads]_vars

\* "the time a low priority or med priority job waits before getting bumped up a
\* priority": a worker that takes a job leaves no starving job where it was.
StarvingJobsBumped ==
  [][\A w \in Worker : wpc[w] # "running" /\ wpc'[w] = "running" =>
       \A p \in {"med", "low"} : jobQ'[p] # <<>> =>
          now - requestTime[Head(jobQ'[p])] < attr.starvationTime]_vars

\* Jobs of one priority start in the order they were added, however long they
\* wait and whatever is bumped or removed in between: a job in a queue is younger
\* than those of its priority that run, and than those that will be taken first.
Level == [high |-> 2, med |-> 1, low |-> 0]
FifoPerPriority ==
  \A p1 \in Priority : \A i \in DOMAIN jobQ[p1] :
    /\ \A w \in Worker :
         wjob[w] # NoJob /\ prio[wjob[w]] = prio[jobQ[p1][i]] => wjob[w] < jobQ[p1][i]
    /\ \A p2 \in Priority : \A k \in DOMAIN jobQ[p2] :
         /\ prio[jobQ[p1][i]] = prio[jobQ[p2][k]]
         /\ jobQ[p1][i] < jobQ[p2][k]
         => Level[p1] > Level[p2] \/ (p1 = p2 /\ i < k)

\* The closed form of BumpPriority, which WorkerStep uses, is what the while loop of
\* the code leaves in the queues, and the loop is done by the time every job could
\* have moved twice.
BumpIsLoop ==
  LET n == 2 * QueuedJobs(jobQ)
      f[k \in 0 .. n] == IF k = 0 THEN jobQ ELSE BumpTurn(f[k - 1])
  IN BumpTurn(f[n]) = f[n] /\ BumpPriority(jobQ) = f[n]

\* Starvation does not reorder the jobs of a priority, and the closed form in which
\* the model states the loop of BumpPriority is that loop.
QueuesFair == FifoPerPriority /\ BumpIsLoop

\* "ThreadPool will never have more than this number of threads."
ThreadCap ==
  \/ InitAttr.maxThreads = Infinite
  \/ totalThreads + pendingWorkerThreadStart <= InitAttr.maxThreads

\* "ThreadPool will always maintain at least this many threads."
MinThreadsKept ==
  /\ phase = "up" /\ shutdown = 0
  /\ \A t \in Thread : call[t].op # "setAttr"
  => totalThreads >= attr.minThreads

\* The mutex and the condition variables are destroyed only when no worker exists
\* and no call is left inside the pool.
QuietWhenDestroyed ==
  phase = "destroyed" => /\ \A w \in Worker : wpc[w] = "none"
                         /\ \A t \in Thread : call[t] = NoCall

\* The id a call returned names the job it added, for as long as ThreadPoolRemove
\* can find it.
ReturnedIdNamesJob ==
  \A j \in Job : (retId[j] # -1 /\ \E p \in Priority : Queued(j, p)) => jobId[j] = retId[j]

\* Every job ThreadPoolAdd accepted is started, removed or freed.
AcceptedJobLeaves ==
  \A j \in Job : (\E p \in Priority : Queued(j, p)) ~> (\A p \in Priority : ~Queued(j, p))

\* ThreadPoolAddPersistent returns.
AddPersistentReturns ==
  \A t \in Thread : call[t].op = "addPersistent" ~> call[t].op # "addPersistent"

\* ThreadPoolShutdown returns if the running jobs do.
ShutdownReturns == shutdown = 1 ~> phase = "destroyed"

\* "if we have more than the max threads (only possible if the attributes have been
\* reset) let this thread die": after ThreadPoolSetAttr lowers maxThreads, the
\* surplus workers leave, though the call signals only one of them.
SurplusThreadsLeave ==
  (attr.maxThreads # Infinite /\ totalThreads > attr.maxThreads)
    ~> (totalThreads <= attr.maxThreads)

\* The pool stays consistent until nothing of it is used any more: whatever is
\* added, removed and started, a job has one place, the threads that run and those
\* still starting respect maxThreads, and ThreadPoolShutdown destroys the mutex and
\* the conditions only after the last user.
PoolConsistent == PlacedOnce /\ ThreadCap /\ QuietWhenDestroyed

\* The two calls that block come back: ThreadPoolAddPersistent, which waits for a
\* worker to pick the job up, and ThreadPoolShutdown, which waits for the last
\* worker to leave.
CallsReturn == AddPersistentReturns /\ ShutdownReturns
=============================================================================
