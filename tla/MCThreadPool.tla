---------------------------- MODULE MCThreadPool ----------------------------
(***************************************************************************)
(* The pool in two scenes, which keep the state space small:               *)
(*   "calls"  the clients and the jobs call anything but                   *)
(*            ThreadPoolSetAttr, with one priority; nothing starves;       *)
(*   "attrs"  one client adds jobs and changes the attributes, while time  *)
(*            passes and jobs starve.                                      *)
(* A scene restricts who calls, and when time passes, never what a call or *)
(* a worker does once it is in the pool.                                   *)
(***************************************************************************)
EXTENDS ThreadPool, TLC

VARIABLE scene

A(min, max, jpt) ==
  [minThreads |-> min, maxThreads |-> max, jobsPerThread |-> jpt,
   maxJobsTotal |-> 2, maxIdleTime |-> 2, starvationTime |-> 1]

Attr12 == A(1, 2, 1)
Attr22 == A(2, 2, 1)
Shrink == {A(1, 1, 1), Attr22}

Symmetry == Permutations(Worker)

MCInit == Init /\ scene \in {"calls", "attrs"}

CallsInvoke(t) ==
  \/ ThreadPoolAdd(t, "med")
  \/ ThreadPoolAddPersistent(t)
  \/ \E j \in Job : retId[j] # -1 /\ ThreadPoolRemove(t, retId[j])
  \/ GetAttrTest(t)
  \/ call[t].step # "cleanup" /\ ShutdownBegin(t)

AttrsInvoke(t) ==
  \/ \E p \in AddPriorities : ThreadPoolAdd(t, p)
  \/ \E a \in Attrs : ThreadPoolSetAttr(t, a)

MCNext ==
  /\ \/ scene = "calls" /\ \E t \in Thread : CallsInvoke(t)
     \/ scene = "attrs" /\ (AttrsInvoke(Main) \/ Tick)
     \/ \E t \in Thread : CallStep(t) \/ SpuriousWake(t)
     \/ \E w \in Worker : WorkerNext(w)
  /\ UNCHANGED scene

MCSpec == MCInit /\ [][MCNext]_<<scene, vars>>

\* The timeouts of ithread_cond_timedwait are fair in "attrs" only: nothing in
\* "calls" depends on them.
MCFairSpec ==
  /\ MCSpec /\ Fairness
  /\ \A w \in Worker : WF_vars(scene = "attrs" /\ WaitTimesOut(w))
=============================================================================
