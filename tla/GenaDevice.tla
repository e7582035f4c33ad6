------------------------------ MODULE GenaDevice ------------------------------
(***************************************************************************)
(* The eventing side of a device: subscriptions and NOTIFY messages of     *)
(* gena/gena_device.c, with the subscription list of                       *)
(* genlib/service_table/service_table.c, for one service of one device.    *)
(*                                                                         *)
(* Everything here is protected by the handle lock (HandleLock), except    *)
(* the sending of a NOTIFY, which a thread of gSendThreadPool does between *)
(* two critical sections of genaNotifyThread.                              *)
(*                                                                         *)
(* SIDs and events are numbered in the order they are made.  A new         *)
(* subscription goes to the front of subscriptionList, so the list is the  *)
(* set of its SIDs in descending order.  An event has one                  *)
(* notify_thread_struct for each subscription it goes to: <<sid, event>>   *)
(* names the struct, and the ThreadPoolJob that carries it.                *)
(***************************************************************************)
EXTENDS Integers, Sequences, FiniteSets

CONSTANTS
  TimeOuts,       \* the timeouts control points ask for; Infinite is one
  MaxTimeOut,     \* MaxSubscriptionTimeOut of the handle
  Limits,         \* the values of MaxSubscriptions
  FirstLimit,     \* the value it has at first
  EQMaxLen,       \* g_UpnpSdkEQMaxLen
  EQMaxAge,       \* g_UpnpSdkEQMaxAge
  KeyMax,         \* the largest ToSendEventKey: INT_MAX
  Faults,         \* what may fail: "pool", "copy", "struct", "job", "respond"
  MaxSids,        \* bound: subscriptions made
  MaxEvents,      \* bound: events made
  MaxFaultyEvents, \* ... in a behaviour with faults
  MaxTime         \* bound: the last second of the clock

Infinite == -1

ASSUME GenaConstants ==
  /\ TimeOuts \subseteq Nat \cup {Infinite} /\ MaxTimeOut \in Nat \cup {Infinite}
  /\ Limits \subseteq Nat \cup {Infinite} /\ FirstLimit \in Limits
  /\ EQMaxLen \in Nat \ {0} /\ EQMaxAge \in Nat /\ KeyMax \in Nat \ {0}
  /\ Faults \subseteq {"pool", "copy", "struct", "job", "respond"}
  /\ MaxSids \in Nat /\ MaxTime \in Nat
  /\ MaxEvents \in Nat /\ MaxFaultyEvents \in 0 .. MaxEvents

Sid   == 1 .. MaxSids
Event == 1 .. MaxEvents
Job   == Sid \X Event

VARIABLES
  faults,             \* what may fail in this behaviour: nothing or all of Faults
  subscriptionList,    \* the SIDs in the service's list
  TotalSubscriptions,
  MaxSubscriptions,
  sub,                 \* per SID: active, expireTime, ToSendEventKey, outgoing
  registered,          \* the device handle has its service table
  pool,                \* jobs in gSendThreadPool that no thread has taken
  sending,             \* jobs between the two critical sections, with their SEQ
  refs,                \* *reference_count of each event
  ctime,               \* when each event was queued
  lastSid, lastEvent,
  accepted,            \* SIDs UpnpAcceptSubscription returned success for
  sent,                \* per SID: the <<SEQ, event>> of each NOTIFY, in order
  now

\* Two bounds on behaviours with faults: fewer events, and one limit.
MayMakeEvent == lastEvent < (IF faults = {} THEN MaxEvents ELSE MaxFaultyEvents)
LimitsNow == IF faults = {} THEN Limits ELSE {FirstLimit}

subVars  == <<subscriptionList, TotalSubscriptions, sub>>
jobVars  == <<pool, sending, refs>>
vars     == <<subVars, jobVars, MaxSubscriptions, registered, ctime, lastSid,
              lastEvent, accepted, sent, now>>

NoSub == [active |-> FALSE, expireTime |-> 0, ToSendEventKey |-> 0, outgoing |-> <<>>]

-----------------------------------------------------------------------------
(* The subscription list *)

\* expireTime 0 is an infinite subscription.
Expired(s) == sub[s].expireTime # 0 /\ sub[s].expireTime < now

\* What GetSubscriptionSID finds.
Found(s) == registered /\ s \in subscriptionList /\ ~Expired(s)

\* The events of queue q that only the queue holds: all but the head, whose job
\* was copied to the thread pool.
Waiting(q) == {q[i] : i \in 2 .. Len(q)}

\* free_notify_struct for the structs of the given set of jobs.
Released(gone) ==
  [e \in Event |-> refs[e] - Cardinality({s \in Sid : <<s, e>> \in gone})]

\* Mutant of QueuedEvents: the head is freed too.
QueuedAndHead(R, t) ==
  {j \in Job : j[1] \in R /\ \E i \in DOMAIN t[j[1]].outgoing : t[j[1]].outgoing[i] = j[2]}
\* freeSubscriptionList for the subscriptions of set R, whose queues are those of
\* table t: the structs that are freed.
QueuedEvents(R, t) == {j \in Job : j[1] \in R /\ j[2] \in Waiting(t[j[1]].outgoing)}

\* The subscriptions of R leave the list; the others become those of table t.
Unlink(R, t) ==
  /\ subscriptionList' = subscriptionList \ R
  /\ TotalSubscriptions' = TotalSubscriptions - Cardinality(R)
  /\ sub' = [s \in Sid |-> IF s \in R THEN NoSub ELSE t[s]]

\* The subscription GetSubscriptionSID removes when asked for s.
Stale(s) == {x \in {s} \cap subscriptionList : Expired(x)}

-----------------------------------------------------------------------------
(* Requests from control points *)

\* The timeout granted when t was asked for.
Granted(t) ==
  IF MaxTimeOut # Infinite /\ (t = Infinite \/ t > MaxTimeOut) THEN MaxTimeOut ELSE t

ExpireAt(t) == IF Granted(t) = Infinite THEN 0 ELSE now + Granted(t)

\* gena_process_subscription_request, up to the callback to the application.  A
\* request that is malformed or cannot be answered changes nothing.
Subscribe(t) ==
  /\ registered
  /\ MaxSubscriptions = Infinite \/ TotalSubscriptions < MaxSubscriptions
  /\ lastSid < MaxSids
  /\ lastSid' = lastSid + 1
  /\ subscriptionList' = subscriptionList \cup {lastSid'}
  /\ TotalSubscriptions' = TotalSubscriptions + 1
  /\ sub' = [sub EXCEPT ![lastSid'] = [NoSub EXCEPT !.expireTime = ExpireAt(t)]]
  /\ UNCHANGED <<jobVars, MaxSubscriptions, registered, ctime, lastEvent,
                 accepted, sent, now>>

\* gena_process_subscription_renewal_request.  The subscription is removed when
\* there are too many, and when the answer cannot be sent.
Renew(s, t) ==
  /\ registered /\ s \in subscriptionList
  /\ \E R \in SUBSET {s} :
       /\ \/ R = Stale(s) /\ R # {}
          \/ /\ Found(s)
             /\ \/ /\ MaxSubscriptions # Infinite
                   /\ TotalSubscriptions > MaxSubscriptions
                   /\ R = {s}
                \/ /\ MaxSubscriptions = Infinite \/ TotalSubscriptions <= MaxSubscriptions
                   /\ R = {} \/ (R = {s} /\ "respond" \in faults)
       /\ Unlink(R, [sub EXCEPT ![s].expireTime = ExpireAt(t)])
       /\ refs' = Released(QueuedEvents(R, sub))
  /\ UNCHANGED <<pool, sending, MaxSubscriptions, registered, ctime, lastSid,
                 lastEvent, accepted, sent, now>>

\* gena_process_unsubscribe_request: an expired subscription is removed too, by
\* GetSubscriptionSID.
Unsubscribe(s) ==
  /\ registered /\ s \in subscriptionList
  /\ Unlink({s}, sub)
  /\ refs' = Released(QueuedEvents({s}, sub))
  /\ UNCHANGED <<pool, sending, MaxSubscriptions, registered, ctime, lastSid,
                 lastEvent, accepted, sent, now>>

-----------------------------------------------------------------------------
(* Calls of the application *)

\* UpnpAcceptSubscription with variables: genaInitNotifyCommon.  When the pool
\* does not take the job the event is freed, but the subscription is active.
InitNotify(s) ==
  /\ Found(s) /\ ~sub[s].active
  /\ MayMakeEvent
  /\ \/ /\ sub' = [sub EXCEPT ![s].active = TRUE, ![s].outgoing = Append(@, lastEvent + 1)]
        /\ lastEvent' = lastEvent + 1
        /\ ctime' = [ctime EXCEPT ![lastEvent + 1] = now]
        /\ refs' = [refs EXCEPT ![lastEvent + 1] = 1]
        /\ pool' = pool \cup {<<s, lastEvent + 1>>}
        /\ accepted' = accepted \cup {s}
     \/ /\ faults \cap {"pool", "struct"} # {}
        /\ sub' = [sub EXCEPT ![s].active = TRUE]
        /\ UNCHANGED <<lastEvent, ctime, refs, pool, accepted>>
  /\ UNCHANGED <<subscriptionList, TotalSubscriptions, sending, MaxSubscriptions,
                 registered, lastSid, sent, now>>

\* genaInitNotifyCommon for an expired subscription, which GetSubscriptionSID
\* removes.
InitNotifyLate(s) ==
  /\ registered /\ Stale(s) # {}
  /\ Unlink({s}, sub)
  /\ refs' = Released(QueuedEvents({s}, sub))
  /\ UNCHANGED <<pool, sending, MaxSubscriptions, registered, ctime, lastSid,
                 lastEvent, accepted, sent, now>>

\* UpnpAcceptSubscription without variables: genaInitNotify returns success at
\* once, whatever the SID.
AcceptEmpty(s) ==
  /\ registered /\ s <= lastSid
  /\ accepted' = accepted \cup {s}
  /\ UNCHANGED <<subVars, jobVars, MaxSubscriptions, registered, ctime, lastSid,
                 lastEvent, sent, now>>

\* maybeDiscardEvents on queue q: the events behind the head that go, from the
\* oldest on, until the queue is short enough and the next one young enough.
Discarded(q) ==
  {i \in 2 .. Len(q) : \A h \in 2 .. i : \/ Len(q) - (h - 2) > EQMaxLen
                                         \/ now - ctime[q[h]] > EQMaxAge}

Pruned(q) == LET d == Cardinality(Discarded(q))
             IN [i \in 1 .. Len(q) - d |-> IF i = 1 THEN q[1] ELSE q[i + d]]

DiscardedJobs(S) ==
  {j \in Job : /\ j[1] \in S
               /\ \E i \in Discarded(sub[j[1]].outgoing) : j[2] = sub[j[1]].outgoing[i]}

\* The subscriptions genaNotifyAllCommon queues the event for.
Subscribers == {s \in subscriptionList : ~Expired(s) /\ sub[s].active}

\* Mutant of Kickstarted: every new job goes to the pool at once.
KickstartedAll(S) == S

\* Those of S whose queue was empty, so that the pool has no job for them.
Kickstarted(S) == {s \in S : sub[s].outgoing = <<>>}

\* genaNotifyAllCommon.  The walk along the list frees the expired subscriptions
\* it meets.  It ends early at subscription b when memory for the struct or the
\* job, or the thread pool, fails there: the counted struct of "job" is never
\* queued, the job of "pool" stays at the head of its queue.
NotifyAll(fault, b) ==
  LET e    == lastEvent + 1
      met  == {s \in subscriptionList : s > b}
      S    == Subscribers \cap met                 \* served
      P    == IF fault = "pool" THEN {b} ELSE {}   \* queued, not in the pool
      D    == S \cup (IF fault = "job" THEN {b} ELSE {})  \* pruned
      R    == {s \in met : Expired(s)}
      t    == [s \in Sid |->
                 CASE s \in S -> [sub[s] EXCEPT !.outgoing = Append(Pruned(@), e)]
                   [] s \in P -> [sub[s] EXCEPT !.outgoing = <<e>>]
                   [] s \in D \ S -> [sub[s] EXCEPT !.outgoing = Pruned(@)]
                   [] OTHER -> sub[s]]
      left == Released(DiscardedJobs(D) \cup QueuedEvents(R, sub))
  IN /\ registered /\ MayMakeEvent
     /\ Unlink(R, t)
     /\ pool' = pool \cup {<<s, e>> : s \in Kickstarted(S)}
     /\ IF D \cup P = {}
        THEN refs' = left /\ UNCHANGED <<lastEvent, ctime>>
        ELSE /\ refs' = [left EXCEPT ![e] = Cardinality(D \cup P)]
             /\ lastEvent' = e
             /\ ctime' = [ctime EXCEPT ![e] = now]
     /\ UNCHANGED <<sending, MaxSubscriptions, registered, lastSid, accepted,
                    sent, now>>

GenaNotifyAll ==
  \/ NotifyAll("none", 0)
  \/ \E b \in Subscribers :
       \/ "pool" \in faults /\ sub[b].outgoing = <<>> /\ NotifyAll("pool", b)
       \/ "job" \in faults /\ NotifyAll("job", b)
       \/ "struct" \in faults /\ NotifyAll("struct", b)

\* UpnpSetMaxSubscriptions
SetMaxSubscriptions(m) ==
  /\ registered
  /\ MaxSubscriptions' = m
  /\ UNCHANGED <<subVars, jobVars, registered, ctime, lastSid, lastEvent,
                 accepted, sent, now>>

\* genaUnregisterDevice: freeServiceTable.  Nothing finds the service any more.
UnregisterDevice ==
  /\ registered
  /\ registered' = FALSE
  /\ subscriptionList' = {}
  /\ sub' = [s \in Sid |-> NoSub]
  /\ TotalSubscriptions' = 0
  /\ refs' = Released(QueuedEvents(subscriptionList, sub))
  /\ UNCHANGED <<pool, sending, MaxSubscriptions, ctime, lastSid, lastEvent,
                 accepted, sent, now>>

-----------------------------------------------------------------------------
(* genaNotifyThread for the job of subscription s and event e *)

\* First critical section: the subscription is gone, or expired and removed now,
\* or cannot be copied, and the job ends ...
NotifyGivenUp(s, e) ==
  /\ <<s, e>> \in pool
  /\ ~Found(s) \/ "copy" \in faults
  /\ pool' = pool \ {<<s, e>>}
  /\ Unlink(Stale(s), sub)
  /\ refs' = Released({<<s, e>>} \cup QueuedEvents(Stale(s), sub))
  /\ UNCHANGED <<sending, MaxSubscriptions, registered, ctime, lastSid,
                 lastEvent, accepted, sent, now>>

\* ... or the copy of the subscription, with its event key, is what is sent.
NotifyStart(s, e) ==
  /\ <<s, e>> \in pool
  /\ Found(s)
  /\ pool' = pool \ {<<s, e>>}
  /\ sending' = sending \cup {<<s, e>>}
  /\ sent' = [sent EXCEPT ![s] = Append(@, <<sub[s].ToSendEventKey, e>>)]
  /\ UNCHANGED <<subVars, refs, MaxSubscriptions, registered, ctime, lastSid,
                 lastEvent, accepted, now>>

\* ToSendEventKey++, which wraps to 1: the increment of INT_MAX is undefined in C;
\* the builds this was tried on give a negative key, which the code replaces by 1.
NextKey(k) == IF k = KeyMax THEN 1 ELSE k + 1

\* Mutant of Activated: the next event is not handed to the pool.
ActivatedNone(s, rest) == {}

\* The new head of the queue goes to the pool.
Activated(s, rest) == {<<s, rest[i]>> : i \in DOMAIN rest \cap {1}}

\* Second critical section, when the subscription is still there: the head of the
\* queue goes, the new head goes to the pool (where "pool" loses it), and the
\* control point's 412 ends the subscription.
NotifyDone(s, e, unaccepted) ==
  LET rest == IF sub[s].outgoing = <<>> THEN <<>> ELSE Tail(sub[s].outgoing)
      t    == [sub EXCEPT ![s].ToSendEventKey = NextKey(@), ![s].outgoing = rest]
      R    == IF unaccepted THEN {s} ELSE {}
  IN /\ <<s, e>> \in sending /\ Found(s)
     /\ sending' = sending \ {<<s, e>>}
     /\ \/ pool' = pool \cup Activated(s, rest)
        \/ "pool" \in faults /\ UNCHANGED pool
     /\ Unlink(R, t)
     /\ refs' = Released({<<s, e>>} \cup QueuedEvents(R, t))
     /\ UNCHANGED <<MaxSubscriptions, registered, ctime, lastSid, lastEvent,
                    accepted, sent, now>>

\* Second critical section, when it has gone or has just expired.
NotifyOrphaned(s, e) ==
  /\ <<s, e>> \in sending /\ ~Found(s)
  /\ sending' = sending \ {<<s, e>>}
  /\ Unlink(Stale(s), sub)
  /\ refs' = Released({<<s, e>>} \cup QueuedEvents(Stale(s), sub))
  /\ UNCHANGED <<pool, MaxSubscriptions, registered, ctime, lastSid, lastEvent,
                 accepted, sent, now>>

NotifyThread(s, e) ==
  \/ NotifyGivenUp(s, e)
  \/ NotifyStart(s, e)
  \/ \E unaccepted \in BOOLEAN : NotifyDone(s, e, unaccepted)
  \/ NotifyOrphaned(s, e)

Tick ==
  /\ now < MaxTime
  /\ now' = now + 1
  /\ UNCHANGED <<subVars, jobVars, MaxSubscriptions, registered, ctime, lastSid,
                 lastEvent, accepted, sent>>

-----------------------------------------------------------------------------
Init ==
  /\ subscriptionList = {} /\ TotalSubscriptions = 0
  /\ MaxSubscriptions = FirstLimit
  /\ sub = [s \in Sid |-> NoSub]
  /\ registered = TRUE
  /\ pool = {} /\ sending = {}
  /\ refs = [e \in Event |-> 0] /\ ctime = [e \in Event |-> 0]
  /\ lastSid = 0 /\ lastEvent = 0
  /\ accepted = {}
  /\ sent = [s \in Sid |-> <<>>]
  /\ now = 1        \* expireTime 0 is not a time
  /\ faults \in {{}, Faults}

Step ==
  \/ \E t \in TimeOuts : Subscribe(t) \/ \E s \in Sid : Renew(s, t)
  \/ \E s \in Sid : \/ Unsubscribe(s) \/ InitNotify(s) \/ InitNotifyLate(s) \/ AcceptEmpty(s)
                    \/ \E e \in Event : NotifyThread(s, e)
  \/ GenaNotifyAll
  \/ \E m \in LimitsNow : SetMaxSubscriptions(m)
  \/ UnregisterDevice
  \/ Tick

Next == Step /\ UNCHANGED faults

Spec == Init /\ [][Next]_<<vars, faults>>

\* The threads of the pool take their jobs, and sending ends: genaNotify connects,
\* sends and receives with timeouts.
FairSpec == Spec /\ \A s \in Sid : WF_vars(\E e \in Event : NotifyThread(s, e))

-----------------------------------------------------------------------------
(* Properties *)

SubRecord == [active : BOOLEAN, expireTime : Nat, ToSendEventKey : 0 .. KeyMax,
              outgoing : Seq(Event)]

TypeOK ==
  /\ subscriptionList \subseteq Sid
  /\ TotalSubscriptions \in Nat
  /\ MaxSubscriptions \in Limits
  /\ sub \in [Sid -> SubRecord]
  /\ registered \in BOOLEAN
  /\ pool \subseteq Job /\ sending \subseteq Job
  /\ refs \in [Event -> Nat]
  /\ ctime \in [Event -> Nat]
  /\ lastSid \in 0 .. MaxSids /\ lastEvent \in 0 .. MaxEvents
  /\ accepted \subseteq Sid
  /\ sent \in [Sid -> Seq((0 .. KeyMax) \X Event)]
  /\ now \in Nat

Jobs(s) == {e \in Event : <<s, e>> \in pool \cup sending}

\* "there is a mirror ThreadPool entry for this one": the head of a subscription's
\* queue, and nothing else of it, is in the thread pool or being sent.
HeadInPool ==
  \A s \in subscriptionList :
    Jobs(s) = {sub[s].outgoing[i] : i \in DOMAIN sub[s].outgoing \cap {1}}

\* At most one NOTIFY of a subscription is in the pool or on the wire, also after
\* the subscription has gone.
OneNotifyAtATime ==
  \A s \in Sid : Cardinality(Jobs(s)) <= 1 /\ ~(pool \cap sending # {})

Structs(e) ==
  Cardinality({s \in subscriptionList : e \in Waiting(sub[s].outgoing)})
  + Cardinality({j \in pool \cup sending : j[2] = e})

\* The text of an event is not freed while a struct that points to it may still be
\* used: waiting in a queue, in the pool or being sent, whatever fails.  When nothing
\* fails the reference count is exact, so the text is freed after its last use.
RefsExact ==
  \A e \in Event : refs[e] >= Structs(e) /\ (faults = {} => refs[e] = Structs(e))

\* Each subscriber sees SEQ 0, 1, 2, ... and, after the last key, 1 again, with the
\* events in the order they were made, however many were discarded.
SentInOrder ==
  \A s \in Sid : \A i \in DOMAIN sent[s] :
    /\ i = 1 => sent[s][i][1] = 0
    /\ i > 1 => /\ sent[s][i][1] = 1 + ((i - 2) % KeyMax)
                /\ sent[s][i][2] > sent[s][i - 1][2]

\* TotalSubscriptions, which the limit is checked against, is the length of the
\* list, whoever removed subscriptions from it.
TotalExact == TotalSubscriptions = Cardinality(subscriptionList)

\* "Now accepts an empty state list": a subscription the device accepted is one
\* that gets events.
AcceptedIsActive == \A s \in subscriptionList \cap accepted : sub[s].active

\* When nothing fails every event that is queued for a subscription is sent or
\* dropped: as events are bounded, its queue empties.
EventsLeave ==
  \A s \in Sid : faults = {} /\ sub[s].outgoing # <<>> ~> sub[s].outgoing = <<>>

\* The counts of the device side are right in every interleaving of subscribers,
\* events and sending threads: reference counts of events (free_notify_struct) and
\* the number of subscriptions (RemoveSubscriptionSID and its callers).
CountsExact == TypeOK /\ RefsExact /\ TotalExact

\* What a subscriber sees: one NOTIFY at a time, with SEQ and events in order,
\* whichever thread of the pool sends them (genaNotifyThread).
DeliveryRight == OneNotifyAtATime /\ SentInOrder
=============================================================================
