--------------------------- MODULE TimerThreadProofs ---------------------------
(***************************************************************************)
(* Proofs about TimerThread, for any number of clients, events and seconds:*)
(* the queue stays in order, the worker never sleeps past an event, the    *)
(* timer implements TimerService and is destroyed by the last one inside.  *)
(***************************************************************************)
EXTENDS TimerThread, SequenceTheorems, TLAPS

\* Who sleeps on the condition variable: the worker alone, or the thread inside
\* TimerThreadShutdown once the worker is leaving or has left.  So a signal for a
\* new event cannot go to the wrong thread.
Sleepers ==
  /\ TimerJob \in asleep => wpc = "waiting" /\ shutdown = 0 /\ asleep = {TimerJob}
  /\ asleep \ {TimerJob} # {} => shutdown = 1 \/ wpc = "done"
  /\ phase = "none" => wpc = "none"

\* Ids are handed out in order.
IdsFresh == \A e \in Event : e >= lastEventId => fate[e] = "none"

IInv == TypeOK /\ QueueInOrder /\ NeverOversleeps /\ Sleepers /\ IdsFresh

-----------------------------------------------------------------------------
(* The two list operations. *)

\* A function on 1..n is a sequence of length n.
LEMMA FunctionIsSeq ==
  ASSUME NEW S, NEW n \in Nat, NEW f \in [1 .. n -> S]
  PROVE  f \in Seq(S) /\ Len(f) = n
<1>1. f \in Seq(S)
  BY SeqDef
<1>2. DOMAIN f = 1 .. n
  OBVIOUS
<1>3. Len(f) \in Nat /\ DOMAIN f = 1 .. Len(f)
  BY <1>1, LenProperties
<1> QED BY <1>1, <1>2, <1>3, SMT

\* ListAddBefore and ListAddTail give a list.
LEMMA AddAfterType ==
  ASSUME NEW S, NEW q \in Seq(S), NEW k \in 0 .. Len(q), NEW e \in S
  PROVE  /\ AddAfter(q, k, e) \in Seq(S)
         /\ Len(AddAfter(q, k, e)) = Len(q) + 1
         /\ \A i \in 1 .. Len(q) + 1 :
              AddAfter(q, k, e)[i] = IF i <= k THEN q[i] ELSE IF i = k + 1 THEN e ELSE q[i - 1]
<1>0. Len(q) \in Nat /\ \A i \in 1 .. Len(q) : q[i] \in S
  BY ElementOfSeq, LenProperties
<1>1. \A i \in 1 .. Len(q) + 1 :
        (IF i <= k THEN q[i] ELSE IF i = k + 1 THEN e ELSE q[i - 1]) \in S
  BY <1>0
<1>2. AddAfter(q, k, e) \in [1 .. Len(q) + 1 -> S]
  BY <1>1 DEF AddAfter
<1>3. Len(q) + 1 \in Nat
  BY <1>0
<1>4. AddAfter(q, k, e) \in Seq(S) /\ Len(AddAfter(q, k, e)) = Len(q) + 1
  BY <1>2, <1>3, FunctionIsSeq
<1> QED BY <1>4 DEF AddAfter

\* ListDelNode gives a list.
LEMMA DelNodeType ==
  ASSUME NEW S, NEW q \in Seq(S), NEW k \in 1 .. Len(q)
  PROVE  /\ DelNode(q, k) \in Seq(S)
         /\ Len(DelNode(q, k)) = Len(q) - 1
         /\ \A i \in 1 .. Len(q) - 1 :
              DelNode(q, k)[i] = IF i < k THEN q[i] ELSE q[i + 1]
<1>0. Len(q) \in Nat /\ \A i \in 1 .. Len(q) : q[i] \in S
  BY ElementOfSeq, LenProperties
<1>1. \A i \in 1 .. Len(q) - 1 : (IF i < k THEN q[i] ELSE q[i + 1]) \in S
  BY <1>0
<1>2. DelNode(q, k) \in [1 .. Len(q) - 1 -> S]
  BY <1>1 DEF DelNode
<1>3. Len(q) - 1 \in Nat
  BY <1>0
<1>4. DelNode(q, k) \in Seq(S) /\ Len(DelNode(q, k)) = Len(q) - 1
  BY <1>2, <1>3, FunctionIsSeq
<1> QED BY <1>4 DEF DelNode

-----------------------------------------------------------------------------
(* The queue, as a list q with event times T. *)

In(q, x)      == \E i \in 1 .. Len(q) : q[i] = x
Ordered(q, T) == \A i, k \in 1 .. Len(q) : i < k => T[q[i]] <= T[q[k]]
Distinct(q)   == \A i, k \in 1 .. Len(q) : i # k => q[i] # q[k]

\* Inserting where the scan stops keeps the list ordered and adds just the event.
LEMMA AddAfterKeeps ==
  ASSUME NEW S, NEW q \in Seq(S), NEW T \in [S -> Nat], NEW e \in S,
         NEW t \in Nat, NEW k \in 0 .. Len(q),
         Ordered(q, T), Distinct(q), ~In(q, e),
         \A i \in 1 .. k : T[q[i]] < t,
         k < Len(q) => T[q[k + 1]] >= t
  PROVE  /\ Ordered(AddAfter(q, k, e), [T EXCEPT ![e] = t])
         /\ Distinct(AddAfter(q, k, e))
         /\ \A x : In(AddAfter(q, k, e), x) <=> x = e \/ In(q, x)
<1> DEFINE r == AddAfter(q, k, e)
           n == Len(q)
           U == [T EXCEPT ![e] = t]
<1>1. /\ r \in Seq(S) /\ Len(r) = n + 1
      /\ \A i \in 1 .. n + 1 : r[i] = IF i <= k THEN q[i] ELSE IF i = k + 1 THEN e ELSE q[i - 1]
  BY AddAfterType
<1>2. n \in Nat /\ k \in 0 .. n /\ \A i \in 1 .. n : q[i] \in S /\ q[i] # e
  BY ElementOfSeq, LenProperties DEF In
<1>3. \A x \in S : U[x] \in Nat /\ (x # e => U[x] = T[x]) /\ (x = e => U[x] = t)
  OBVIOUS
<1>4. \A i \in 1 .. n : T[q[i]] \in Nat /\ U[q[i]] = T[q[i]]
  BY <1>2, <1>3
<1>5. \A i, h \in 1 .. n : i < h => T[q[i]] <= T[q[h]]
  BY DEF Ordered
<1>6. \A i \in 1 .. n : i > k => T[q[i]] >= t
  <2> TAKE i \in 1 .. n
  <2> HAVE i > k
  <2>1. k + 1 \in 1 .. n /\ T[q[k + 1]] >= t
    BY <1>2
  <2>2. k + 1 < i \/ k + 1 = i
    BY <1>2
  <2> QED BY <2>1, <2>2, <1>4, <1>5
<1> HIDE DEF r, n, U
<1> DEFINE at(i) == IF i <= k THEN i ELSE i - 1
           Old == (1 .. n + 1) \ {k + 1}
<1>a. \A i \in Old : at(i) \in 1 .. n /\ r[i] = q[at(i)] /\ (i > k + 1 => at(i) > k)
                     /\ (i < k + 1 => at(i) \in 1 .. k)
  BY <1>1, <1>2
<1>b. \A i, h \in Old : i < h => at(i) < at(h)
  BY <1>2
<1>c. \A j \in 1 .. n : \E i \in Old : at(i) = j
  <2> TAKE j \in 1 .. n
  <2>1. CASE j <= k
    <3>1. j \in Old /\ at(j) = j
      BY <1>2, <2>1
    <3> QED BY <3>1
  <2>2. CASE j > k
    <3>1. j + 1 \in Old /\ at(j + 1) = j
      BY <1>2, <2>2
    <3> QED BY <3>1
  <2> QED BY <2>1, <2>2, <1>2
<1>d. k + 1 \in 1 .. n + 1 /\ r[k + 1] = e
  BY <1>1, <1>2
<1>e. \A i, h \in 1 .. n + 1 : i < h => \/ i \in Old /\ h \in Old
                                        \/ i = k + 1 /\ h \in Old /\ h > k + 1
                                        \/ h = k + 1 /\ i \in Old /\ i < k + 1
  BY <1>2
<1>f. \A i \in 1 .. k : T[q[i]] < t
  OBVIOUS
<1>g. 1 .. n + 1 = Old \cup {k + 1}
  BY <1>d
<1> HIDE DEF at, Old
<1>8. ASSUME NEW i \in 1 .. n + 1, NEW h \in 1 .. n + 1, i < h
      PROVE  U[r[i]] <= U[r[h]]
  <2>1. CASE i \in Old /\ h \in Old
    BY <2>1, <1>a, <1>b, <1>4, <1>5, <1>8
  <2>2. CASE i = k + 1 /\ h \in Old /\ h > k + 1
    BY <2>2, <1>a, <1>d, <1>3, <1>4, <1>6
  <2>3. CASE h = k + 1 /\ i \in Old /\ i < k + 1
    BY <2>3, <1>a, <1>d, <1>3, <1>4, <1>f
  <2> QED BY <2>1, <2>2, <2>3, <1>e, <1>8
<1>9. ASSUME NEW i \in 1 .. n + 1, NEW h \in 1 .. n + 1, i < h
      PROVE  r[i] # r[h]
  <2>0. \A a, b \in 1 .. n : a < b => q[a] # q[b]
    BY DEF Distinct, n
  <2>1. CASE i \in Old /\ h \in Old
    BY <2>0, <2>1, <1>a, <1>b, <1>9
  <2>2. CASE i = k + 1 /\ h \in Old
    BY <2>2, <1>a, <1>d, <1>2
  <2>3. CASE h = k + 1 /\ i \in Old
    BY <2>3, <1>a, <1>d, <1>2
  <2> QED BY <2>1, <2>2, <2>3, <1>e, <1>9
<1>10. ASSUME NEW x PROVE (\E i \in 1 .. n + 1 : r[i] = x) <=> x = e \/ \E i \in 1 .. n : q[i] = x
  BY <1>a, <1>c, <1>d, <1>g
<1>11. \A i, h \in 1 .. n + 1 : i # h => r[i] # r[h]
  <2>1. \A i, h \in 1 .. n + 1 : i # h => i < h \/ h < i
    BY <1>2
  <2> QED BY <2>1, <1>9
<1> QED BY <1>1, <1>8, <1>10, <1>11 DEF Ordered, Distinct, In, r, n, U

\* Deleting a node keeps the list ordered and takes away just its event.
LEMMA DelNodeKeeps ==
  ASSUME NEW S, NEW q \in Seq(S), NEW T \in [S -> Nat], NEW k \in 1 .. Len(q),
         Ordered(q, T), Distinct(q)
  PROVE  /\ Ordered(DelNode(q, k), T)
         /\ Distinct(DelNode(q, k))
         /\ \A x : In(DelNode(q, k), x) <=> x # q[k] /\ In(q, x)
<1> DEFINE r == DelNode(q, k)
           n == Len(q)
<1>1. /\ r \in Seq(S) /\ Len(r) = n - 1
      /\ \A i \in 1 .. n - 1 : r[i] = IF i < k THEN q[i] ELSE q[i + 1]
  BY DelNodeType
<1>2. n \in Nat /\ k \in 1 .. n
  BY LenProperties
<1>3. /\ \A i, h \in 1 .. n : i < h => T[q[i]] <= T[q[h]]
      /\ \A i, h \in 1 .. n : i # h => q[i] # q[h]
  BY DEF Ordered, Distinct
<1> HIDE DEF r, n
<1> DEFINE at(i) == IF i < k THEN i ELSE i + 1
<1>0. \A i \in 1 .. n - 1 : at(i) \in 1 .. n /\ r[i] = q[at(i)]
  BY <1>1, <1>2
<1>a. \A i, h \in 1 .. n - 1 : i < h => at(i) < at(h)
  BY <1>2
<1>b. \A i, h \in 1 .. n - 1 : i # h => at(i) # at(h)
  BY <1>2
<1> HIDE DEF at
<1>4. \A i, h \in 1 .. n - 1 : i < h => T[r[i]] <= T[r[h]]
  BY <1>0, <1>a, <1>3
<1>5. \A i, h \in 1 .. n - 1 : i # h => r[i] # r[h]
  BY <1>0, <1>b, <1>3
<1>6. ASSUME NEW x PROVE (\E i \in 1 .. n - 1 : r[i] = x) <=> x # q[k] /\ \E i \in 1 .. n : q[i] = x
  <2>1. ASSUME NEW i \in 1 .. n, q[i] = x, x # q[k] PROVE \E h \in 1 .. n - 1 : r[h] = x
    <3>1. CASE i < k
      <4>1. i \in 1 .. n - 1 /\ r[i] = q[i]
        BY <3>1, <1>1, <1>2
      <4> QED BY <4>1, <2>1
    <3>2. CASE i > k
      <4>1. i - 1 \in 1 .. n - 1 /\ r[i - 1] = q[i]
        BY <3>2, <1>1, <1>2
      <4> QED BY <4>1, <2>1
    <3> QED BY <2>1, <3>1, <3>2, <1>2
  <2>2. ASSUME NEW i \in 1 .. n - 1, r[i] = x PROVE x # q[k] /\ \E h \in 1 .. n : q[h] = x
    <3>1. CASE i < k
      <4>1. i \in 1 .. n /\ r[i] = q[i] /\ i # k
        BY <3>1, <1>1, <1>2
      <4> QED BY <4>1, <2>2, <1>2, <1>3
    <3>2. CASE i >= k
      <4>1. i + 1 \in 1 .. n /\ r[i] = q[i + 1] /\ i + 1 # k
        BY <3>2, <1>1, <1>2
      <4> QED BY <4>1, <2>2, <1>2, <1>3
    <3> QED BY <3>1, <3>2, <1>2
  <2> QED BY <2>1, <2>2
<1> QED BY <1>1, <1>4, <1>5, <1>6 DEF Ordered, Distinct, In, r, n

\* The worker takes the first node.
LEMMA TailIsDelNode ==
  ASSUME NEW S, NEW q \in Seq(S), q # <<>>
  PROVE  /\ Tail(q) = DelNode(q, 1) /\ Head(q) = q[1] /\ 1 \in 1 .. Len(q)
<1>1. Len(q) \in Nat /\ Len(q) # 0
  BY EmptySeq, LenProperties
<1>2. 1 \in 1 .. Len(q)
  BY <1>1
<1>3. /\ Tail(q) \in Seq(S) /\ Len(Tail(q)) = Len(q) - 1
      /\ \A i \in 1 .. Len(Tail(q)) : Tail(q)[i] = q[i + 1]
  BY HeadTailProperties
<1>4. /\ DelNode(q, 1) \in Seq(S) /\ Len(DelNode(q, 1)) = Len(q) - 1
      /\ \A i \in 1 .. Len(q) - 1 : DelNode(q, 1)[i] = IF i < 1 THEN q[i] ELSE q[i + 1]
  BY <1>2, DelNodeType
<1>5. \A i \in 1 .. Len(Tail(q)) : Tail(q)[i] = DelNode(q, 1)[i]
  BY <1>1, <1>3, <1>4
<1>6. Tail(q) = DelNode(q, 1)
  BY <1>3, <1>4, <1>5, SeqEqual
<1> QED BY <1>2, <1>6

-----------------------------------------------------------------------------
(* The inductive invariant *)

\* The parts of QueueInOrder, with the domain of the queue spelled out.
LEMMA QueueParts ==
  TypeOK => /\ Len(eventQ) \in Nat /\ DOMAIN eventQ = 1 .. Len(eventQ)
            /\ \A i \in 1 .. Len(eventQ) : eventQ[i] \in Event
            /\ QueueInOrder <=> /\ Ordered(eventQ, eventTime) /\ Distinct(eventQ)
                                /\ \A e \in Event : fate[e] = "queued" <=> In(eventQ, e)
<1> SUFFICES ASSUME TypeOK PROVE QueueParts!2
  OBVIOUS
<1>1. eventQ \in Seq(Event)
  BY DEF TypeOK
<1>2. Len(eventQ) \in Nat /\ DOMAIN eventQ = 1 .. Len(eventQ)
  BY <1>1, LenProperties
<1>3. \A i \in 1 .. Len(eventQ) : eventQ[i] \in Event
  BY <1>1, ElementOfSeq
<1> QED BY <1>2, <1>3 DEF QueueInOrder, Ordered, Distinct, In

LEMMA QueuePartsNext == TypeOK' =>
            /\ (Len(eventQ) \in Nat /\ DOMAIN eventQ = 1 .. Len(eventQ))'
            /\ (QueueInOrder <=> /\ Ordered(eventQ, eventTime) /\ Distinct(eventQ)
                                /\ \A e \in Event : fate[e] = "queued" <=> In(eventQ, e))'
BY QueueParts, PTL

\* TimerThreadInit succeeds in the initial states and nothing is queued.
LEMMA InitInv == Init => IInv
<1> SUFFICES ASSUME Init PROVE IInv
  OBVIOUS
<1>1. eventQ = <<>> /\ eventQ \in Seq(Event) /\ DOMAIN eventQ = {}
  BY EmptySeq DEF Init
<1>2. TypeOK
  BY <1>1, TimerConstants DEF Init, TypeOK, Event, Thread, Forever
<1> QED BY <1>1, <1>2 DEF Init, IInv, QueueInOrder, NeverOversleeps, Sleepers, IdsFresh

\* Signalling wakes the worker if it sleeps, for then nobody else does.
LEMMA SignalWakes ==
  ASSUME Sleepers, Signal
  PROVE  TimerJob \notin asleep' /\ asleep' \subseteq asleep
BY DEF Sleepers, Signal

\* Steps that leave the queue alone.
LEMMA FrameStep ==
  ASSUME IInv, TypeOK', Sleepers', NeverOversleeps',
         UNCHANGED <<eventQ, eventTime, fate, lastEventId>>
  PROVE  IInv'
BY DEF IInv, QueueInOrder, IdsFresh

LEMMA TimerThreadInitStep == ASSUME IInv, TimerThreadInit PROVE IInv'
<1>1. TypeOK'
  BY DEF IInv, TypeOK, TimerThreadInit
<1>2. Sleepers' /\ NeverOversleeps'
  BY DEF IInv, TimerThreadInit, Sleepers, NeverOversleeps
<1> QED BY <1>1, <1>2, FrameStep DEF TimerThreadInit

LEMMA ScheduleTimeStep == ASSUME IInv, NEW c \in Client, ScheduleTime(c) PROVE IInv'
<1>1. PICK t \in {now + d : d \in Delays} \cup AbsTimes : timeout' = [timeout EXCEPT ![c] = t]
  BY DEF ScheduleTime
<1>2. t \in Nat
  <2>1. Delays \subseteq Nat /\ AbsTimes \subseteq Nat /\ now \in Nat
    BY TimerConstants DEF IInv, TypeOK
  <2>2. CASE t \in AbsTimes
    BY <2>1, <2>2
  <2>3. CASE \E d \in Delays : t = now + d
    BY <2>1, <2>3
  <2> QED BY <1>1, <2>2, <2>3
<1>3. TypeOK'
  BY <1>1, <1>2 DEF IInv, TypeOK, ScheduleTime, timerVars
<1>4. Sleepers' /\ NeverOversleeps'
  BY DEF IInv, ScheduleTime, timerVars, Sleepers, NeverOversleeps
<1> QED BY <1>3, <1>4, FrameStep DEF ScheduleTime, timerVars

\* The insertion: the queue stays ordered, and the worker is awake afterwards.
LEMMA InsertStep ==
  ASSUME IInv, NEW c \in Client, ScheduleInsert(c),
         NEW k \in 0 .. Len(eventQ), ScanStops(k, timeout[c]),
         lastEventId < MaxEvents,
         eventQ' = AddAfter(eventQ, k, lastEventId),
         eventTime' = [eventTime EXCEPT ![lastEventId] = timeout[c]],
         fate' = [fate EXCEPT ![lastEventId] = "queued"],
         lastEventId' = lastEventId + 1,
         Signal
  PROVE  IInv'
<1>0. TypeOK /\ QueueInOrder /\ Sleepers /\ NeverOversleeps /\ IdsFresh
  BY DEF IInv
<1>1. lastEventId \in Event /\ timeout[c] \in Nat /\ eventQ \in Seq(Event) /\ eventTime \in [Event -> Nat]
  BY <1>0, TimerConstants DEF TypeOK, Event
<1>2. /\ Len(eventQ) \in Nat
      /\ Ordered(eventQ, eventTime) /\ Distinct(eventQ)
      /\ \A e \in Event : fate[e] = "queued" <=> In(eventQ, e)
  BY <1>0, QueueParts
<1>3. fate[lastEventId] = "none" /\ ~In(eventQ, lastEventId)
  BY <1>0, <1>1, <1>2 DEF IdsFresh, TypeOK
<1>4. (\A i \in 1 .. k : eventTime[eventQ[i]] < timeout[c]) /\ (k < Len(eventQ) => eventTime[eventQ[k + 1]] >= timeout[c])
  BY DEF ScanStops
<1>5. /\ Ordered(eventQ', eventTime') /\ Distinct(eventQ')
      /\ \A x : In(eventQ', x) <=> x = lastEventId \/ In(eventQ, x)
  BY <1>1, <1>2, <1>3, <1>4, AddAfterKeeps
<1>6. eventQ' \in Seq(Event)
  BY <1>1, AddAfterType
<1>7. TypeOK'
  <2>1. eventTime' \in [Event -> Nat] /\ lastEventId' \in 0 .. MaxEvents
    BY <1>0, <1>1, TimerConstants DEF TypeOK
  <2>2. asleep' \subseteq Thread
    BY <1>0, SignalWakes DEF TypeOK
  <2>3. fate' \in [Event -> {"none", "queued", "failed", "fired", "refused", "removed", "dropped"}]
    BY <1>0 DEF TypeOK
  <2> QED BY <1>0, <1>6, <2>1, <2>2, <2>3 DEF TypeOK, ScheduleInsert
<1>8. QueueInOrder'
  <2>1. \A e \in Event : fate'[e] = "queued" <=> In(eventQ', e)
    BY <1>0, <1>1, <1>2, <1>5 DEF TypeOK
  <2>2. (QueueInOrder <=> /\ Ordered(eventQ, eventTime) /\ Distinct(eventQ)
                          /\ \A e \in Event : fate[e] = "queued" <=> In(eventQ, e))'
    BY <1>7, QueuePartsNext
  <2> QED BY <1>5, <2>1, <2>2
<1>9. Sleepers' /\ NeverOversleeps'
  BY <1>0, SignalWakes DEF Sleepers, NeverOversleeps, ScheduleInsert
<1>10. IdsFresh'
  BY <1>0, <1>1 DEF IdsFresh, TypeOK, Event
<1> QED BY <1>7, <1>8, <1>9, <1>10 DEF IInv

LEMMA ScheduleInsertStep == ASSUME IInv, NEW c \in Client, ScheduleInsert(c) PROVE IInv'
<1>0. TypeOK /\ QueueInOrder /\ Sleepers /\ NeverOversleeps /\ IdsFresh
  BY DEF IInv
<1>1. CASE \E k \in 0 .. Len(eventQ) :
             /\ lastEventId < MaxEvents
             /\ ScanStops(k, timeout[c])
             /\ eventQ' = AddAfter(eventQ, k, lastEventId)
             /\ eventTime' = [eventTime EXCEPT ![lastEventId] = timeout[c]]
             /\ fate' = [fate EXCEPT ![lastEventId] = "queued"]
             /\ lastEventId' = lastEventId + 1
             /\ Signal
  BY <1>1, InsertStep
<1>2. CASE /\ lastEventId < MaxEvents
           /\ fate' = [fate EXCEPT ![lastEventId] = "failed"]
           /\ lastEventId' = lastEventId + 1
           /\ UNCHANGED <<eventQ, eventTime, asleep>>
  <2>1. lastEventId \in Event /\ lastEventId' \in 0 .. MaxEvents
    BY <1>0, <1>2, TimerConstants DEF TypeOK, Event
  <2>2. TypeOK'
    <3>1. fate' \in [Event -> {"none", "queued", "failed", "fired", "refused", "removed", "dropped"}]
      BY <1>0, <1>2 DEF TypeOK
    <3> QED BY <1>0, <1>2, <2>1, <3>1 DEF TypeOK, ScheduleInsert
  <2>3. fate[lastEventId] = "none"
    BY <1>0, <2>1 DEF IdsFresh, TypeOK
  <2>4. \A e \in Event : fate'[e] = "queued" <=> fate[e] = "queued"
    BY <1>0, <1>2, <2>1, <2>3 DEF TypeOK
  <2>5. QueueInOrder'
    BY <1>0, <1>2, <2>4 DEF QueueInOrder
  <2>6. Sleepers' /\ NeverOversleeps'
    BY <1>0, <1>2 DEF Sleepers, NeverOversleeps, ScheduleInsert
  <2>7. IdsFresh'
    BY <1>0, <1>2, <2>1 DEF IdsFresh, TypeOK, Event
  <2> QED BY <2>2, <2>5, <2>6, <2>7 DEF IInv
<1>3. CASE UNCHANGED <<eventQ, eventTime, lastEventId, fate, asleep>>
  <2>1. TypeOK'
    BY <1>0, <1>3 DEF TypeOK, ScheduleInsert
  <2>2. Sleepers' /\ NeverOversleeps'
    BY <1>0, <1>3 DEF Sleepers, NeverOversleeps, ScheduleInsert
  <2> QED BY <1>3, <2>1, <2>2, FrameStep
<1> QED BY <1>1, <1>2, <1>3 DEF ScheduleInsert

\* Taking the node at i off the queue, whatever becomes of its event.
LEMMA TakeStep ==
  ASSUME IInv, NEW i \in 1 .. Len(eventQ), eventQ' = DelNode(eventQ, i),
         NEW f \in {"fired", "refused", "removed"}, fate' = [fate EXCEPT ![eventQ[i]] = f],
         UNCHANGED <<eventTime, lastEventId, shutdown, phase, asleep, call, timeout, now>>,
         phase = "up", wpc' \in {"locked", wpc}, deadline' \in {Forever, deadline},
         TimerJob \in asleep => UNCHANGED <<wpc, deadline>>,
         wpc = "done" => wpc' = wpc
  PROVE  IInv'
<1>0. TypeOK /\ QueueInOrder /\ Sleepers /\ NeverOversleeps /\ IdsFresh
  BY DEF IInv
<1>1. /\ Len(eventQ) \in Nat /\ DOMAIN eventQ = 1 .. Len(eventQ) /\ eventQ[i] \in Event
      /\ Ordered(eventQ, eventTime) /\ Distinct(eventQ)
      /\ \A e \in Event : fate[e] = "queued" <=> In(eventQ, e)
  BY <1>0, QueueParts
<1>2. eventQ \in Seq(Event) /\ eventTime \in [Event -> Nat]
  BY <1>0 DEF TypeOK
<1>3. /\ Ordered(eventQ', eventTime) /\ Distinct(eventQ')
      /\ \A x : In(eventQ', x) <=> x # eventQ[i] /\ In(eventQ, x)
  BY <1>1, <1>2, DelNodeKeeps
<1>4. eventQ' \in Seq(Event)
  BY <1>2, DelNodeType
<1>5. TypeOK'
  <2>1. fate' \in [Event -> {"none", "queued", "failed", "fired", "refused", "removed", "dropped"}]
    BY <1>0 DEF TypeOK
  <2> QED BY <1>0, <1>4, <2>1 DEF TypeOK
<1>6. QueueInOrder'
  <2>1. \A e \in Event : fate'[e] = "queued" <=> In(eventQ', e)
    BY <1>0, <1>1, <1>3 DEF TypeOK
  <2>2. (QueueInOrder <=> /\ Ordered(eventQ, eventTime) /\ Distinct(eventQ)
                          /\ \A e \in Event : fate[e] = "queued" <=> In(eventQ, e))'
    BY <1>5, QueuePartsNext
  <2> QED BY <1>3, <2>1, <2>2
<1>7. NeverOversleeps'
  <2> SUFFICES ASSUME TimerJob \in asleep, NEW h \in DOMAIN eventQ'
               PROVE  deadline # Forever /\ deadline <= eventTime[eventQ'[h]] /\ deadline' = deadline
    BY DEF NeverOversleeps
  <2>1. In(eventQ', eventQ'[h])
    BY <1>5, QueuePartsNext DEF In
  <2>2. In(eventQ, eventQ'[h])
    BY <2>1, <1>3
  <2> QED BY <2>2, <1>0, <1>1 DEF In, NeverOversleeps
<1>8. Sleepers'
  BY <1>0 DEF Sleepers
<1>9. IdsFresh'
  <2>1. fate[eventQ[i]] = "queued"
    BY <1>1 DEF In
  <2> QED BY <1>0, <1>1, <2>1 DEF IdsFresh, TypeOK
<1> QED BY <1>5, <1>6, <1>7, <1>8, <1>9 DEF IInv

LEMMA RemoveStep ==
  ASSUME IInv, NEW c \in Client, NEW e \in Event, TimerThreadRemove(c, e) PROVE IInv'
<1>1. PICK i \in DOMAIN eventQ : eventQ[i] = e /\ eventQ' = DelNode(eventQ, i)
  BY DEF TimerThreadRemove
<1>2. i \in 1 .. Len(eventQ)
  BY <1>1, QueueParts DEF IInv
<1>3. /\ fate' = [fate EXCEPT ![eventQ[i]] = "removed"]
      /\ UNCHANGED <<eventTime, lastEventId, shutdown, phase, asleep, call, timeout, now>>
      /\ UNCHANGED <<wpc, deadline>>
  BY <1>1 DEF TimerThreadRemove
<1>4. phase = "up"
  BY DEF TimerThreadRemove, MayCall
<1> QED BY <1>4, <1>1, <1>2, <1>3, TakeStep

LEMMA WorkerFireStep == ASSUME IInv, WorkerFire PROVE IInv'
<1>1. eventQ # <<>> /\ eventQ \in Seq(Event)
  BY DEF WorkerFire, HeadDue, IInv, TypeOK
<1>2. Tail(eventQ) = DelNode(eventQ, 1) /\ Head(eventQ) = eventQ[1] /\ 1 \in 1 .. Len(eventQ)
  BY <1>1, TailIsDelNode
<1>3. PICK r \in {"fired", "refused"} : fate' = [fate EXCEPT ![Head(eventQ)] = r]
  BY DEF WorkerFire
<1>4. TimerJob \notin asleep /\ wpc # "done" /\ phase = "up"
  BY DEF WorkerFire, HasMutex, IInv, Sleepers
<1>5. /\ UNCHANGED <<eventTime, lastEventId, shutdown, phase, asleep, call, timeout, now>>
      /\ wpc' = "locked" /\ deadline' = Forever /\ eventQ' = Tail(eventQ)
  BY DEF WorkerFire
<1> QED BY <1>2, <1>3, <1>4, <1>5, TakeStep

LEMMA ShutdownBeginStep == ASSUME IInv, NEW c \in Client, ShutdownBegin(c) PROVE IInv'
<1>0. TypeOK /\ QueueInOrder /\ Sleepers /\ IdsFresh
  BY DEF IInv
<1>1. eventQ' = <<>> /\ eventQ' \in Seq(Event) /\ DOMAIN eventQ' = {}
  BY EmptySeq DEF ShutdownBegin, DrainQueue
<1>2. TypeOK'
  <2>1. fate' \in [Event -> {"none", "queued", "failed", "fired", "refused", "removed", "dropped"}]
    BY <1>0 DEF ShutdownBegin, DrainQueue, TypeOK
  <2> QED BY <1>0, <1>1, <2>1 DEF TypeOK, ShutdownBegin, Thread
<1>3. \A e \in Event : fate'[e] # "queued"
  BY <1>0 DEF ShutdownBegin, DrainQueue, QueueInOrder
<1>4. QueueInOrder' /\ NeverOversleeps'
  BY <1>1, <1>3 DEF QueueInOrder, NeverOversleeps
<1>5. Sleepers'
  BY TimerConstants DEF Sleepers, ShutdownBegin, MutexFree
<1>6. IdsFresh'
  BY <1>0 DEF IdsFresh, ShutdownBegin, DrainQueue, QueueInOrder
<1> QED BY <1>2, <1>4, <1>5, <1>6 DEF IInv

LEMMA ShutdownWaitStep == ASSUME IInv, NEW c \in Client, ShutdownWait(c) PROVE IInv'
<1>0. TypeOK /\ Sleepers /\ NeverOversleeps
  BY DEF IInv
<1>1. TypeOK'
  BY <1>0 DEF TypeOK, ShutdownWait, Thread
<1>2. Sleepers' /\ NeverOversleeps'
  <2>1. CASE WorkerInside
    BY <1>0, <2>1, TimerConstants DEF Sleepers, NeverOversleeps, ShutdownWait, WorkerInside
  <2>2. CASE ~WorkerInside
    BY <1>0, <2>2 DEF Sleepers, NeverOversleeps, ShutdownWait, WorkerInside
  <2> QED BY <2>1, <2>2
<1> QED BY <1>1, <1>2, FrameStep DEF ShutdownWait

LEMMA WorkerLeaveStep == ASSUME IInv, WorkerLeave PROVE IInv'
<1>0. TypeOK /\ Sleepers /\ NeverOversleeps
  BY DEF IInv
<1>1. TypeOK'
  <2>1. asleep' \subseteq Thread
    BY <1>0, SignalWakes DEF TypeOK, WorkerLeave
  <2> QED BY <1>0, <2>1 DEF TypeOK, WorkerLeave
<1>2. Sleepers' /\ NeverOversleeps'
  BY <1>0, SignalWakes DEF Sleepers, NeverOversleeps, WorkerLeave, HasMutex
<1> QED BY <1>1, <1>2, FrameStep DEF WorkerLeave

\* The worker falls asleep knowing the head of an ordered queue.
LEMMA WorkerWaitStep == ASSUME IInv, WorkerWait PROVE IInv'
<1>0. TypeOK /\ Sleepers /\ QueueInOrder
  BY DEF IInv
<1>1. eventQ \in Seq(Event) /\ eventTime \in [Event -> Nat]
  BY <1>0 DEF TypeOK
<1>2. TimerJob \notin asleep /\ asleep = {}
  BY <1>0 DEF WorkerWait, HasMutex, Sleepers
<1>3. CASE eventQ = <<>>
  <2>1. DOMAIN eventQ = {} /\ deadline' = Forever
    BY <1>3 DEF WorkerWait
  <2>2. NeverOversleeps'
    BY <2>1 DEF NeverOversleeps, WorkerWait, timerVars
  <2>3. Sleepers'
    BY <1>2 DEF Sleepers, WorkerWait, HasMutex, timerVars
  <2>4. TypeOK'
    BY <1>0, <2>1 DEF TypeOK, WorkerWait, timerVars, Thread
  <2> QED BY <2>2, <2>3, <2>4, FrameStep DEF WorkerWait, timerVars
<1>4. CASE eventQ # <<>>
  <2>1. 1 \in 1 .. Len(eventQ) /\ Head(eventQ) = eventQ[1] /\ deadline' = eventTime[eventQ[1]]
    BY <1>1, <1>4, TailIsDelNode DEF WorkerWait
  <2>2. /\ Len(eventQ) \in Nat /\ DOMAIN eventQ = 1 .. Len(eventQ) /\ Ordered(eventQ, eventTime)
        /\ \A i \in 1 .. Len(eventQ) : eventTime[eventQ[i]] \in Nat
    BY <1>0, <1>1, QueueParts
  <2>3. \A i \in DOMAIN eventQ : deadline' <= eventTime[eventQ[i]]
    BY <2>1, <2>2 DEF Ordered
  <2>4. deadline' \in Nat /\ deadline' # Forever
    BY <2>1, <2>2 DEF Forever
  <2>5. NeverOversleeps'
    BY <2>3, <2>4 DEF NeverOversleeps, WorkerWait, timerVars
  <2>6. Sleepers'
    BY <1>2 DEF Sleepers, WorkerWait, HasMutex, timerVars
  <2>7. TypeOK'
    BY <1>0, <2>4 DEF TypeOK, WorkerWait, timerVars, Thread
  <2> QED BY <2>5, <2>6, <2>7, FrameStep DEF WorkerWait, timerVars
<1> QED BY <1>3, <1>4

\* Waking up, the clock, and steps that change nothing.
LEMMA QuietStep ==
  ASSUME IInv, WaitTimesOut \/ SpuriousWake \/ Tick \/ UNCHANGED vars PROVE IInv'
<1>0. TypeOK /\ Sleepers /\ NeverOversleeps
  BY DEF IInv
<1>1. asleep' \subseteq asleep /\ UNCHANGED <<timerVars, wpc, deadline, call, timeout>>
  BY DEF WaitTimesOut, SpuriousWake, Tick, vars
<1>2. now' \in Nat
  BY <1>0 DEF TypeOK, WaitTimesOut, SpuriousWake, Tick, vars
<1>3. TypeOK'
  BY <1>0, <1>1, <1>2 DEF TypeOK, timerVars
<1>4. Sleepers' /\ NeverOversleeps'
  BY <1>0, <1>1 DEF Sleepers, NeverOversleeps, timerVars
<1> QED BY <1>1, <1>3, <1>4, FrameStep DEF timerVars

\* IInv is inductive.
LEMMA TimerInvariant == Spec => []IInv
<1>1. ASSUME IInv, [Next]_vars PROVE IInv'
  <2>1. CASE TimerThreadInit
    BY <1>1, <2>1, TimerThreadInitStep
  <2>2. ASSUME NEW c \in Client, ClientStep(c) PROVE IInv'
    BY <1>1, <2>2, ScheduleTimeStep, ScheduleInsertStep, RemoveStep, ShutdownBeginStep,
       ShutdownWaitStep DEF ClientStep
  <2>3. CASE WorkerStep
    BY <1>1, <2>3, WorkerLeaveStep, WorkerFireStep, WorkerWaitStep DEF WorkerStep
  <2>4. CASE WaitTimesOut \/ SpuriousWake \/ Tick \/ UNCHANGED vars
    BY <1>1, <2>4, QuietStep
  <2> QED BY <1>1, <2>1, <2>2, <2>3, <2>4 DEF Next
<1> QED BY InitInv, <1>1, PTL DEF Spec

-----------------------------------------------------------------------------
\* The queue of the timer is ordered by eventTime and holds exactly the events
\* nobody has disposed of, however calls, clock and worker interleave.
THEOREM QueueStaysInOrder == Spec => []QueueInOrder
BY TimerInvariant, PTL DEF IInv

\* No wakeup is lost: TimerThreadWorker never sleeps past an event in the queue.
THEOREM WorkerNeverOversleeps == Spec => []NeverOversleeps
BY TimerInvariant, PTL DEF IInv

-----------------------------------------------------------------------------
(* TimerThread implements TimerService, if nobody calls a timer that is    *)
(* being shut down.                                                        *)

\* A timer is closed while a thread is inside TimerThreadShutdown, and then no
\* call of TimerThreadSchedule is under way.
Orderly ==
  /\ phase = "none" => shutdown = 0 /\ \A e \in Event : fate[e] # "queued"
  /\ \A c \in Client : call[c] = "drain" => Closed
  /\ Closed /\ phase = "up" => \E d \in Client : call[d] = "drain"
  /\ \A c, d \in Client : call[d] = "drain" => call[c] # "schedule"

RInv == IInv /\ Orderly

\* Orderly is preserved.
LEMMA OrderlyStep == ASSUME ~LateCalls, RInv, [Next]_vars PROVE Orderly'
<1>0. TypeOK /\ Sleepers /\ Orderly
  BY DEF RInv, IInv
<1>1. CASE TimerThreadInit
  BY <1>0, <1>1 DEF TimerThreadInit, Orderly, Closed, Sleepers
<1>2. ASSUME NEW c \in Client, ScheduleTime(c) PROVE Orderly'
  BY <1>0, <1>2 DEF ScheduleTime, MayCall, timerVars, Orderly, Closed, TypeOK
<1>3. ASSUME NEW c \in Client, ScheduleInsert(c) PROVE Orderly'
  <2>1. /\ phase = "up" /\ UNCHANGED <<shutdown, phase, wpc>>
        /\ call[c] = "schedule" /\ call' = [call EXCEPT ![c] = "idle"]
    BY <1>3 DEF ScheduleInsert, MutexFree
  <2> QED BY <1>0, <2>1 DEF Orderly, Closed, TypeOK
<1>4. ASSUME NEW c \in Client, NEW e \in Event, TimerThreadRemove(c, e) PROVE Orderly'
  BY <1>0, <1>4 DEF TimerThreadRemove, MayCall, Orderly, Closed
<1>5. ASSUME NEW c \in Client, ShutdownBegin(c) PROVE Orderly'
  BY <1>0, <1>5 DEF ShutdownBegin, MutexFree, Orderly, Closed, TypeOK
<1>6. ASSUME NEW c \in Client, ShutdownWait(c) PROVE Orderly'
  <2>1. CASE WorkerInside
    BY <1>0, <1>6, <2>1 DEF ShutdownWait, MutexFree, Orderly, Closed
  <2>2. CASE ~WorkerInside
    <3>1. phase' = "destroyed" /\ call' = [call EXCEPT ![c] = "idle"]
      BY <1>6, <2>2 DEF ShutdownWait
    <3> QED BY <1>0, <3>1 DEF Orderly, Closed, TypeOK
  <2> QED BY <2>1, <2>2
<1>7. CASE WorkerStep
  BY <1>0, <1>7 DEF WorkerStep, WorkerLeave, WorkerFire, WorkerWait, HasMutex, timerVars, Orderly, Closed
<1>8. CASE WaitTimesOut \/ SpuriousWake \/ Tick \/ UNCHANGED vars
  BY <1>0, <1>8 DEF WaitTimesOut, SpuriousWake, Tick, vars, timerVars, Orderly, Closed
<1> QED BY <1>1, <1>2, <1>3, <1>4, <1>5, <1>6, <1>7, <1>8 DEF Next, ClientStep

\* Every step of the timer is a step of the service, or changes nothing in it.
LEMMA ServiceStep ==
  ASSUME ~LateCalls, RInv, RInv', [Next]_vars
  PROVE  [Service!Next]_(Service!serviceVars)
<1>0. TypeOK /\ QueueInOrder /\ Sleepers /\ IdsFresh /\ Orderly
  BY DEF RInv, IInv
<1> USE DEF Service!serviceVars
<1>1. CASE TimerThreadInit
  <2>1. CASE phase' = "up"
    BY <1>0, <1>1, <2>1 DEF TimerThreadInit, Closed, Sleepers, Orderly
  <2>2. CASE phase' = "destroyed"
    <3>1. ~Closed /\ Closed' /\ UNCHANGED <<eventTime, fate, now>>
      BY <1>0, <1>1, <2>2 DEF TimerThreadInit, Closed, Sleepers, Orderly
    <3>2. fate' = [e \in Event |-> IF e \in Service!Pending THEN "dropped" ELSE fate[e]]
      BY <1>0, <1>1, <3>1 DEF Service!Pending, Orderly, TypeOK, TimerThreadInit
    <3> QED BY <3>1, <3>2 DEF Service!Close, Service!Next
  <2> QED BY <1>1, <2>1, <2>2 DEF TimerThreadInit
<1>2. ASSUME NEW c \in Client, ScheduleTime(c) PROVE UNCHANGED Service!serviceVars
  BY <1>2 DEF ScheduleTime, timerVars, Closed
<1>3. ASSUME NEW c \in Client, ScheduleInsert(c) PROVE [Service!Next]_(Service!serviceVars)
  <2>1. ~Closed /\ ~Closed' /\ now' = now
    BY <1>0, <1>3 DEF ScheduleInsert, MutexFree, Closed, Orderly
  <2>2. CASE /\ lastEventId < MaxEvents
             /\ eventTime' = [eventTime EXCEPT ![lastEventId] = timeout[c]]
             /\ fate' = [fate EXCEPT ![lastEventId] = "queued"]
    <3>1. lastEventId \in Event /\ timeout[c] \in Nat /\ fate[lastEventId] = "none"
      BY <1>0, <2>2, TimerConstants DEF TypeOK, Event, IdsFresh
    <3>2. eventTime'[lastEventId] = timeout[c]
      BY <1>0, <2>2, <3>1 DEF TypeOK
    <3>3. Service!Accept(lastEventId)
      BY <2>1, <2>2, <3>1, <3>2 DEF Service!Accept
    <3> QED BY <3>1, <3>3 DEF Service!Next
  <2>3. CASE /\ lastEventId < MaxEvents
             /\ fate' = [fate EXCEPT ![lastEventId] = "failed"]
             /\ eventTime' = eventTime
    <3>1. lastEventId \in Event /\ fate[lastEventId] = "none"
      BY <1>0, <2>3, TimerConstants DEF TypeOK, Event, IdsFresh
    <3>2. Service!Refuse(lastEventId)
      BY <2>1, <2>3, <3>1 DEF Service!Refuse
    <3> QED BY <3>1, <3>2 DEF Service!Next
  <2>4. CASE UNCHANGED <<eventTime, fate>>
    BY <2>1, <2>4
  <2> QED BY <1>3, <2>2, <2>3, <2>4 DEF ScheduleInsert
<1>4. ASSUME NEW c \in Client, NEW e \in Event, TimerThreadRemove(c, e) PROVE Service!Next
  <2>1. e \in Service!Pending
    BY <1>0, <1>4 DEF TimerThreadRemove, QueueInOrder, Service!Pending
  <2>2. Service!Cancel(e)
    BY <1>4, <2>1 DEF TimerThreadRemove, Service!Cancel, Closed
  <2> QED BY <2>2 DEF Service!Next
<1>5. ASSUME NEW c \in Client, ShutdownBegin(c) PROVE Service!Next
  <2>1. ~Closed /\ Closed'
    BY <1>0, <1>5 DEF ShutdownBegin, MutexFree, Closed, Orderly
  <2>2. fate' = [e \in Event |-> IF e \in Service!Pending THEN "dropped" ELSE fate[e]]
    BY <1>0, <1>5 DEF ShutdownBegin, DrainQueue, QueueInOrder, Service!Pending
  <2>3. Service!Close
    BY <1>5, <2>1, <2>2 DEF Service!Close, ShutdownBegin
  <2> QED BY <2>3 DEF Service!Next
<1>6. ASSUME NEW c \in Client, ShutdownWait(c) PROVE UNCHANGED Service!serviceVars
  BY <1>0, <1>6 DEF ShutdownWait, Orderly, Closed, MutexFree
<1>7. CASE WorkerLeave
  BY <1>7 DEF WorkerLeave, HasMutex, Closed
<1>8. CASE WorkerFire
  <2>1. eventQ # <<>> /\ eventQ \in Seq(Event)
    BY <1>0, <1>8 DEF WorkerFire, HeadDue, TypeOK
  <2>2. Head(eventQ) = eventQ[1] /\ 1 \in 1 .. Len(eventQ)
    BY <2>1, TailIsDelNode
  <2>3. /\ Len(eventQ) \in Nat /\ DOMAIN eventQ = 1 .. Len(eventQ) /\ eventQ[1] \in Event
        /\ \A e \in Event : fate[e] = "queued" <=> In(eventQ, e)
        /\ \A i \in 1 .. Len(eventQ) : eventQ[i] \in Event
    BY <1>0, <2>2, QueueParts
  <2>4. eventQ[1] \in Service!Pending
    BY <2>2, <2>3 DEF Service!Pending, In
  <2>5. ASSUME NEW f \in Service!Pending PROVE eventTime[eventQ[1]] <= eventTime[f]
    <3>1. f \in Event /\ In(eventQ, f)
      BY <2>3 DEF Service!Pending
    <3>2. PICK i \in 1 .. Len(eventQ) : eventQ[i] = f
      BY <3>1 DEF In
    <3>3. 1 < i \/ 1 = i
      BY <2>3
    <3>4. eventTime[eventQ[1]] \in Nat
      BY <1>0, <2>3 DEF TypeOK
    <3> QED BY <1>0, <2>2, <2>3, <3>2, <3>3, <3>4 DEF QueueInOrder
  <2>6. ~Closed /\ ~Closed' /\ UNCHANGED <<eventTime, now>>
    BY <1>0, <1>8 DEF WorkerFire, HasMutex, Closed
  <2>7. eventTime[eventQ[1]] <= now
    BY <1>8, <2>2 DEF WorkerFire, HeadDue
  <2>8. \E r \in {"fired", "refused"} : fate' = [fate EXCEPT ![eventQ[1]] = r]
    BY <1>8, <2>2 DEF WorkerFire
  <2>9. Service!Fire(eventQ[1])
    BY <2>4, <2>5, <2>6, <2>7, <2>8 DEF Service!Fire
  <2> QED BY <2>3, <2>9 DEF Service!Next
<1>9. CASE WorkerWait
  BY <1>9 DEF WorkerWait, HasMutex, timerVars, Closed
<1>10. CASE WaitTimesOut \/ SpuriousWake \/ UNCHANGED vars
  BY <1>10 DEF WaitTimesOut, SpuriousWake, vars, timerVars, Closed
<1>11. CASE Tick
  BY <1>11 DEF Tick, timerVars, Closed, Service!Pass, Service!Next
<1> QED BY <1>1, <1>2, <1>3, <1>4, <1>5, <1>6, <1>7, <1>8, <1>9, <1>10, <1>11
        DEF Next, ClientStep, WorkerStep

\* The timer thread keeps the promise of TimerService: an event goes to the pool
\* not before it is due, never behind an event due later, at most once, and not
\* after it was removed or the timer was shut down.
THEOREM ImplementsTimerService == ASSUME ~LateCalls PROVE Spec => IsTimerService
<1>1. Init => RInv /\ Service!Init
  <2>1. Init => Orderly
    BY DEF Init, Orderly, Closed
  <2>2. Init => Service!Init
    BY DEF Init, Service!Init, Closed, Event
  <2> QED BY <2>1, <2>2, InitInv DEF RInv
<1>2. RInv /\ [Next]_vars => Orderly'
  BY OrderlyStep
<1>3. RInv /\ RInv' /\ [Next]_vars => [Service!Next]_(Service!serviceVars)
  BY ServiceStep
<1>4. IInv /\ Orderly <=> RInv
  BY DEF RInv
<1> QED BY <1>1, <1>2, <1>3, <1>4, TimerInvariant, PTL DEF Spec, IsTimerService, Service!Spec


-----------------------------------------------------------------------------
(* TimerThreadShutdown destroys the mutex and the condition variable last.  *)

\* One thread is inside TimerThreadShutdown, it is the only client that sleeps, and
\* before TimerThreadInit there is nobody.
OneCloser ==
  /\ \A c, d \in Client : call[c] = "drain" /\ call[d] = "drain" => c = d
  /\ \A c \in Client : c \in asleep => call[c] = "drain"
  /\ phase = "none" => asleep = {} /\ \A c \in Client : call[c] = "idle"

\* What a step of TimerThreadShutdown that ends the timer finds.
LEMMA LastOneOut ==
  ASSUME RInv, OneCloser, NEW c \in Client, ShutdownWait(c), ~WorkerInside
  PROVE  /\ wpc = "done" /\ asleep = {}
         /\ \A d \in Client : d # c => call[d] = "idle"
<1>1. /\ phase = "up" /\ call[c] = "drain" /\ c \notin asleep /\ shutdown = 0
  BY DEF ShutdownWait, MutexFree, WorkerInside, RInv, IInv, TypeOK
<1>2. wpc = "done"
  BY <1>1 DEF RInv, Orderly, Closed
<1>3. TimerJob \notin asleep
  BY <1>2 DEF RInv, IInv, Sleepers
<1>4. \A d \in Client : d # c => call[d] = "idle"
  BY <1>1 DEF OneCloser, RInv, Orderly, IInv, TypeOK
<1>5. asleep = {}
  <2>1. asleep \subseteq Client \cup {TimerJob}
    BY DEF RInv, IInv, TypeOK, Thread
  <2>2. \A d \in Client : d \notin asleep
    BY <1>1, <1>4 DEF OneCloser
  <2> QED BY <1>3, <2>1, <2>2
<1> QED BY <1>2, <1>4, <1>5

LEMMA CloserStep ==
  ASSUME ~LateCalls, RInv, OneCloser, QuietWhenDestroyed, [Next]_vars
  PROVE  OneCloser' /\ QuietWhenDestroyed'
<1>0. TypeOK /\ Sleepers
  BY DEF RInv, IInv
<1>a. ASSUME asleep' \subseteq asleep, UNCHANGED <<phase, call>>,
             phase = "destroyed" => wpc' = wpc
      PROVE  OneCloser' /\ QuietWhenDestroyed'
  BY <1>a DEF OneCloser, QuietWhenDestroyed
<1>b. ASSUME Signal PROVE asleep' \subseteq asleep
  BY <1>b DEF Signal
<1>1. CASE TimerThreadInit
  <2>1. phase = "none" /\ UNCHANGED <<asleep, call>>
    BY <1>1 DEF TimerThreadInit
  <2>2. phase' = "up" \/ (phase' = "destroyed" /\ wpc' = "none")
    BY <1>0, <1>1 DEF TimerThreadInit, Sleepers
  <2> QED BY <2>1, <2>2 DEF OneCloser, QuietWhenDestroyed
<1>2. ASSUME NEW c \in Client, ScheduleTime(c) PROVE OneCloser' /\ QuietWhenDestroyed'
  <2>1. /\ phase = "up" /\ call[c] = "idle" /\ call' = [call EXCEPT ![c] = "schedule"]
        /\ UNCHANGED <<phase, asleep>>
    BY <1>2 DEF ScheduleTime, MayCall, timerVars
  <2> QED BY <1>0, <2>1 DEF OneCloser, QuietWhenDestroyed, TypeOK
<1>3. ASSUME NEW c \in Client, ScheduleInsert(c) PROVE OneCloser' /\ QuietWhenDestroyed'
  <2>1. /\ phase = "up" /\ call[c] = "schedule" /\ call' = [call EXCEPT ![c] = "idle"]
        /\ UNCHANGED phase /\ asleep' \subseteq asleep
    BY <1>b, <1>3 DEF ScheduleInsert, MutexFree
  <2> QED BY <1>0, <2>1 DEF OneCloser, QuietWhenDestroyed, TypeOK
<1>4. ASSUME NEW c \in Client, NEW e \in Event, TimerThreadRemove(c, e)
      PROVE  OneCloser' /\ QuietWhenDestroyed'
  BY <1>a, <1>4 DEF TimerThreadRemove
<1>5. ASSUME NEW c \in Client, ShutdownBegin(c) PROVE OneCloser' /\ QuietWhenDestroyed'
  <2>1. /\ phase = "up" /\ call' = [call EXCEPT ![c] = "drain"] /\ asleep' = {c}
        /\ \A d \in Client : call[d] # "drain"
        /\ UNCHANGED phase
    BY <1>5 DEF ShutdownBegin, MutexFree
  <2> QED BY <1>0, <2>1 DEF OneCloser, QuietWhenDestroyed, TypeOK
<1>6. ASSUME NEW c \in Client, ShutdownWait(c) PROVE OneCloser' /\ QuietWhenDestroyed'
  <2>1. CASE WorkerInside
    <3>1. /\ phase = "up" /\ call[c] = "drain" /\ asleep' = asleep \cup {c}
          /\ UNCHANGED <<phase, call>>
      BY <1>6, <2>1 DEF ShutdownWait, MutexFree
    <3> QED BY <3>1 DEF OneCloser, QuietWhenDestroyed
  <2>2. CASE ~WorkerInside
    <3>1. /\ wpc = "done" /\ asleep = {}
          /\ \A d \in Client : d # c => call[d] = "idle"
      BY <1>6, <2>2, LastOneOut
    <3>2. /\ phase' = "destroyed" /\ call' = [call EXCEPT ![c] = "idle"]
          /\ UNCHANGED <<asleep, wpc>>
      BY <1>6, <2>2 DEF ShutdownWait
    <3> QED BY <1>0, <3>1, <3>2 DEF OneCloser, QuietWhenDestroyed, TypeOK
  <2> QED BY <2>1, <2>2
<1>7. CASE WorkerStep
  <2>1. phase = "up" /\ UNCHANGED <<phase, call>>
    BY <1>7 DEF WorkerStep, WorkerLeave, WorkerFire, WorkerWait, HasMutex, timerVars
  <2>2. CASE WorkerWait
    <3>1. asleep' = asleep \cup {TimerJob} /\ TimerJob \notin Client
      BY <2>2, TimerConstants DEF WorkerWait
    <3> QED BY <2>1, <3>1 DEF OneCloser, QuietWhenDestroyed
  <2>3. CASE WorkerLeave \/ WorkerFire
    <3>1. asleep' \subseteq asleep
      BY <1>b, <2>3 DEF WorkerLeave, WorkerFire
    <3> QED BY <1>a, <2>1, <3>1
  <2> QED BY <1>7, <2>2, <2>3 DEF WorkerStep
<1>8. CASE WaitTimesOut \/ SpuriousWake \/ Tick \/ UNCHANGED vars
  BY <1>a, <1>8 DEF WaitTimesOut, SpuriousWake, Tick, vars, timerVars
<1> QED BY <1>1, <1>2, <1>3, <1>4, <1>5, <1>6, <1>7, <1>8 DEF Next, ClientStep

\* The timer keeps its types, and TimerThreadShutdown destroys the mutex and the
\* condition variable only when TimerThreadWorker has left, nobody sleeps on the
\* condition variable and no call is inside, if nobody calls a timer that is being
\* shut down.
THEOREM TimerStaysSound == ASSUME ~LateCalls PROVE Spec => []TimerSound
<1> DEFINE J == Orderly /\ OneCloser /\ QuietWhenDestroyed
<1>1. Init => J
  BY DEF Init, Orderly, Closed, OneCloser, QuietWhenDestroyed
<1>2. IInv /\ J /\ [Next]_vars => J'
  <2>1. IInv /\ Orderly => RInv
    BY DEF RInv
  <2> QED BY <2>1, OrderlyStep, CloserStep
<1>3. IInv /\ J => TimerSound
  BY DEF IInv, TimerSound
<1> HIDE DEF J
<1> QED BY <1>1, <1>2, <1>3, TimerInvariant, PTL DEF Spec
================================================================================
