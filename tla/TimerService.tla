----------------------------- MODULE TimerService -----------------------------
(***************************************************************************)
(* What a timer promises its callers, without the queue, the thread or the *)
(* condition variable that threadutil/TimerThread.c keeps the promise with:*)
(* an event is handed to the thread pool not before it is due, never after *)
(* an event that is due earlier, at most once, and not at all once it was  *)
(* removed or the timer was shut down.                                     *)
(***************************************************************************)
EXTENDS Integers

CONSTANT Event

VARIABLES
  due,       \* the second an event is due
  status,    \* what became of an event
  open,      \* the timer has not been shut down
  now

serviceVars == <<due, status, open, now>>

Pending == {e \in Event : status[e] = "queued"}

Init ==
  /\ due \in [Event -> Nat]
  /\ status = [e \in Event |-> "none"]
  /\ open = TRUE
  /\ now = 0

\* A new event waits for its time, or is refused for lack of memory.
Accept(e) ==
  /\ open /\ status[e] = "none"
  /\ due'[e] \in Nat /\ due' = [due EXCEPT ![e] = due'[e]]
  /\ status' = [status EXCEPT ![e] = "queued"]
  /\ UNCHANGED <<open, now>>

Refuse(e) ==
  /\ status[e] = "none"
  /\ status' = [status EXCEPT ![e] = "failed"]
  /\ UNCHANGED <<due, open, now>>

\* One of the earliest events goes to the pool, which runs it or turns it down.
Fire(e) ==
  /\ open /\ e \in Pending
  /\ due[e] <= now
  /\ \A f \in Pending : due[e] <= due[f]
  /\ \E r \in {"fired", "refused"} : status' = [status EXCEPT ![e] = r]
  /\ UNCHANGED <<due, open, now>>

Cancel(e) ==
  /\ e \in Pending
  /\ status' = [status EXCEPT ![e] = "removed"]
  /\ UNCHANGED <<due, open, now>>

\* Everything still waiting is dropped.
Close ==
  /\ open
  /\ open' = FALSE
  /\ status' = [e \in Event |-> IF e \in Pending THEN "dropped" ELSE status[e]]
  /\ UNCHANGED <<due, now>>

Pass == now' = now + 1 /\ UNCHANGED <<due, status, open>>

Next ==
  \/ \E e \in Event : Accept(e) \/ Refuse(e) \/ Fire(e) \/ Cancel(e)
  \/ Close
  \/ Pass

Spec == Init /\ [][Next]_serviceVars
=============================================================================
