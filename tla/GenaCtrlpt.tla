------------------------------ MODULE GenaCtrlpt ------------------------------
(***************************************************************************)
(* The eventing side of a control point: gena/gena_ctrlpt.c with the       *)
(* subscription list of genlib/client_table/client_table.c.                *)
(*                                                                         *)
(* A call is made by a thread of the application or, for the asynchronous  *)
(* variants and the automatic renewals, by a thread of gSendThreadPool     *)
(* (Threads).  Events come in on threads of the mini server, one for each  *)
(* NOTIFY.  A step is a critical section of the handle lock, or the        *)
(* exchange with the device between two of them.  SubscribeLock            *)
(* (GlobalClientSubscribeMutex) is held over such an exchange.             *)
(*                                                                         *)
(* A subscription is named by a number, for the SID the device gave it and *)
(* the SID the application knows it by: they are one to one.  Timer events *)
(* are numbered as TimerThreadSchedule numbers them.                       *)
(***************************************************************************)
EXTENDS Integers, FiniteSets

CONSTANTS
  Threads,
  Clients,      \* handles of control points
  Leases,       \* timeouts devices grant: "finite", "infinite"
  Replies,      \* what becomes of a request: "ok", "fail", "lost" (done, but no answer)
  Shortages,    \* what may be refused for want of memory: a job ("pool"), an event ("timer")
  MaxSubs,      \* bound: subscriptions made
  MaxEvents     \* bound: timer events made

None == 0
Sid  == 1 .. MaxSubs

ASSUME CtrlptConstants ==
  /\ Clients \subseteq Nat /\ MaxSubs \in Nat /\ MaxEvents \in Nat
  /\ Leases \subseteq {"finite", "infinite"} /\ Replies \subseteq {"ok", "fail", "lost"}
  /\ Shortages \subseteq {"pool", "timer"}

VARIABLES
  valid,         \* the handles that are registered
  ClientSubList, \* per handle: the subscriptions in its list
  RenewEventId,  \* per subscription: its timer event, -1 for none
  lease,         \* history, per subscription: what the device granted last
  timers,        \* events of gTimerThread, <<id, handle, sid>>
  renewJobs,     \* those that were due: jobs of gSendThreadPool
  subscribeLock, \* who holds it: a thread, or an event
  readers,       \* threads that keep the handle lock for reading
  call,          \* per thread
  ev,            \* per subscription: what became of its first event
  scan,          \* per subscription: the handles that event still looks at
  accepted,      \* events some handle had the subscription for
  lastSid, lastId,
  calledBack,    \* history: handles whose callback ran after UpnpUnRegisterClient
  refused,       \* history: subscriptions whose first event was refused
  overlapped,    \* history: subscriptions renewed by two threads at a time
  dropped,       \* history: subscriptions whose last renewal the timer or the pool lost
  dangling       \* a list holds a subscription that was freed

mishaps == <<dropped, dangling>>
subs == <<valid, ClientSubList, RenewEventId, lease, timers, overlapped, mishaps>>
locks == <<subscribeLock, readers>>
events == <<ev, scan, accepted, refused>>
vars == <<subs, locks, events, renewJobs, call, lastSid, lastId, calledBack>>

Idle == [op |-> "idle", pc |-> "", c |-> None, s |-> None, id |-> -1, ok |-> FALSE, auto |-> FALSE,
         timeout |-> "none"]

NoOne == <<"none", None>>
Holds(kind, x) == <<kind, x>>

-----------------------------------------------------------------------------
(* Helpers *)

WriteLock == readers = {}

Goto(t, p) == call' = [call EXCEPT ![t].pc = p]
Return(t)  == call' = [call EXCEPT ![t] = Idle]
At(t, op, p) == call[t].op = op /\ call[t].pc = p

InProgress(c, s, ops) == \E t \in Threads : call[t].op \in ops /\ call[t].c = c /\ call[t].s = s

\* TimerThreadRemove of the event with the given id
Without(id) == {e \in timers : e[1] # id}

\* ScheduleGenaAutoRenew: the set of timers with the new event for subscription s
\* of handle c, given those that are there.
ScheduleGenaAutoRenew(c, s, l, T) ==
  IF l = "infinite"
  THEN timers' = T /\ UNCHANGED <<RenewEventId, lastId, dropped>>
  ELSE /\ lastId < MaxEvents
       /\ lastId' = lastId + 1
       /\ timers' = T \cup {<<lastId', c, s>>}
       /\ RenewEventId' = [RenewEventId EXCEPT ![s] = lastId']
       /\ dropped' = dropped \ {s}

\* It runs out of memory, or the timer does, and changes nothing.
ScheduleFails(l) == "timer" \in Shortages /\ l # "infinite"

\* Mutant of RemoveClientSub: the timer event stays.
RemoveClientSubOnly(c, s, T) ==
  /\ ClientSubList' = [ClientSubList EXCEPT ![c] = @ \ {s}]
  /\ timers' = T
  /\ RenewEventId' = [RenewEventId EXCEPT ![s] = -1]

\* RemoveClientSubClientSID: the subscription leaves the list and
\* free_client_subscription removes its timer event.
RemoveClientSub(c, s, T) ==
  /\ ClientSubList' = [ClientSubList EXCEPT ![c] = @ \ {s}]
  /\ timers' = IF s \in ClientSubList[c] THEN {e \in T : e[1] # RenewEventId[s]} ELSE T
  /\ RenewEventId' = IF s \in ClientSubList[c] THEN [RenewEventId EXCEPT ![s] = -1]
                                               ELSE RenewEventId

-----------------------------------------------------------------------------
(* genaSubscribe *)

\* UpnpSubscribe, or the asynchronous variant's job, has found the handle valid.
UpnpSubscribe(t, c) ==
  /\ call[t] = Idle /\ c \in valid
  /\ call' = [call EXCEPT ![t] = [Idle EXCEPT !.op = "subscribe", !.pc = "check", !.c = c]]
  /\ UNCHANGED <<subs, locks, events, renewJobs, lastSid, lastId, calledBack>>

\* The handle is looked up again.  When it has gone the read lock is kept and
\* SubscribeLock taken, for the error path to release both.
SubscribeCheck(t) ==
  /\ At(t, "subscribe", "check")
  /\ IF call[t].c \in valid
     THEN Goto(t, "lock") /\ UNCHANGED readers
     ELSE Goto(t, "bad") /\ readers' = readers \cup {t}
  /\ UNCHANGED <<subs, subscribeLock, events, renewJobs, lastSid, lastId, calledBack>>

SubscribeBad(t) ==
  /\ At(t, "subscribe", "bad")
  /\ subscribeLock = NoOne
  /\ readers' = readers \ {t}
  /\ Return(t)
  /\ UNCHANGED <<subs, subscribeLock, events, renewJobs, lastSid, lastId, calledBack>>

SubscribeLock(t) ==
  /\ At(t, "subscribe", "lock")
  /\ subscribeLock = NoOne
  /\ subscribeLock' = Holds("call", t)
  /\ Goto(t, "net")
  /\ UNCHANGED <<subs, readers, events, renewJobs, lastSid, lastId, calledBack>>

\* gena_subscribe for a new subscription.  A device that accepts it sends its
\* first event at once.
SubscribeNet(t) ==
  /\ At(t, "subscribe", "net")
  /\ \E r \in Replies :
       IF r = "fail"
       THEN Goto(t, "link") /\ UNCHANGED <<lease, ev, lastSid>>
       ELSE /\ lastSid < MaxSubs
            /\ lastSid' = lastSid + 1
            /\ ev' = [ev EXCEPT ![lastSid'] = "sent"]
            /\ \E l \in Leases :
                 /\ lease' = [lease EXCEPT ![lastSid'] = l]
                 /\ call' = [call EXCEPT ![t].pc = "link", ![t].timeout = l,
                                         ![t].s = IF r = "ok" THEN lastSid' ELSE None]
  /\ UNCHANGED <<valid, overlapped, mishaps, ClientSubList, RenewEventId, timers, locks, scan, accepted,
                 refused, renewJobs, lastId, calledBack>>

\* The subscription is put into the list and its renewal scheduled.  When that
\* fails the subscription is freed, but stays in the list.
SubscribeLink(t) ==
  LET c == call[t].c
      s == call[t].s
  IN /\ At(t, "subscribe", "link") /\ WriteLock
     /\ IF s = None \/ c \notin valid
        THEN UNCHANGED <<ClientSubList, RenewEventId, timers, lastId, mishaps>>
        ELSE /\ ClientSubList' = [ClientSubList EXCEPT ![c] = @ \cup {s}]
             /\ \/ ScheduleGenaAutoRenew(c, s, call[t].timeout, timers) /\ UNCHANGED dangling
                \/ /\ ScheduleFails(call[t].timeout)
                   /\ dangling' = TRUE /\ dropped' = dropped \cup {s}
                   /\ UNCHANGED <<RenewEventId, timers, lastId>>
     /\ subscribeLock' = NoOne
     /\ Return(t)
     /\ UNCHANGED <<valid, overlapped, lease, readers, events, renewJobs, lastSid, calledBack>>

-----------------------------------------------------------------------------
(* genaUnSubscribe *)

\* UpnpUnSubscribe and the first section: the subscription is copied.
UpnpUnSubscribe(t, c, s) ==
  /\ call[t] = Idle /\ WriteLock
  /\ c \in valid /\ s \in ClientSubList[c]
  /\ call' = [call EXCEPT ![t] = [Idle EXCEPT !.op = "unsubscribe", !.pc = "net", !.c = c,
                                              !.s = s, !.id = RenewEventId[s]]]
  /\ UNCHANGED <<subs, locks, events, renewJobs, lastSid, lastId, calledBack>>

\* gena_unsubscribe, whose outcome does not matter, and free_client_subscription
\* of the copy, which removes the event the copy knows.
UnSubscribeNet(t) ==
  /\ At(t, "unsubscribe", "net")
  /\ timers' = Without(call[t].id)
  /\ Goto(t, "end")
  /\ UNCHANGED <<valid, overlapped, mishaps, ClientSubList, RenewEventId, lease, locks, events,
                 renewJobs, lastSid, lastId, calledBack>>

UnSubscribeEnd(t) ==
  /\ At(t, "unsubscribe", "end") /\ WriteLock
  /\ IF call[t].c \in valid THEN RemoveClientSub(call[t].c, call[t].s, timers)
     ELSE UNCHANGED <<ClientSubList, timers, RenewEventId>>
  /\ Return(t)
  /\ UNCHANGED <<valid, overlapped, mishaps, lease, locks, events, renewJobs, lastSid, lastId,
                 calledBack>>

-----------------------------------------------------------------------------
(* genaRenewSubscription *)

\* The first section, for thread t with the call record r.  The timer event is
\* removed.
RenewBegin(t, c, s, auto) ==
  /\ timers' = Without(RenewEventId[s])
  /\ RenewEventId' = [RenewEventId EXCEPT ![s] = -1]
  /\ call' = [call EXCEPT ![t] = [Idle EXCEPT !.op = "renew", !.pc = "net", !.c = c, !.s = s,
                                              !.auto = auto]]
  /\ overlapped' = IF InProgress(c, s, {"renew"}) THEN overlapped \cup {s} ELSE overlapped
  /\ UNCHANGED <<valid, ClientSubList, lease, mishaps>>

UpnpRenewSubscription(t, c, s) ==
  /\ call[t] = Idle /\ WriteLock
  /\ c \in valid /\ s \in ClientSubList[c]
  /\ RenewBegin(t, c, s, FALSE)
  /\ UNCHANGED <<locks, events, renewJobs, lastSid, lastId, calledBack>>

\* gena_subscribe with the SID.
RenewNet(t) ==
  /\ At(t, "renew", "net")
  /\ \E l \in Leases :
       /\ lease' = [lease EXCEPT ![call[t].s] = l]
       /\ \E ok \in {TRUE} \cup {FALSE : x \in Replies \ {"ok"}} :
            call' = [call EXCEPT ![t].pc = "end", ![t].ok = ok, ![t].timeout = l]
  /\ UNCHANGED <<valid, overlapped, mishaps, ClientSubList, RenewEventId, timers, locks, events,
                 renewJobs, lastSid, lastId, calledBack>>

RenewFound(c, s) == c \in valid /\ s \in ClientSubList[c]

\* The subscription is removed; a failed automatic renewal has a callback to call.
RenewalFails(t) ==
  /\ RemoveClientSub(call[t].c, call[t].s, timers)
  /\ IF call[t].auto THEN Goto(t, "failed") ELSE Return(t)
  /\ UNCHANGED <<lastId, dropped>>

\* The last section: a subscription that could not be renewed is removed, one that
\* is still there is put on the timer again, and removed if that fails.
RenewEnd(t) ==
  LET c == call[t].c
      s == call[t].s
  IN /\ At(t, "renew", "end") /\ WriteLock
     /\ \/ ~call[t].ok /\ c \in valid /\ RenewalFails(t)
        \/ /\ call[t].ok /\ RenewFound(c, s)
           /\ ScheduleFails(call[t].timeout) /\ RenewalFails(t)
        \/ /\ call[t].ok /\ RenewFound(c, s)
           /\ ScheduleGenaAutoRenew(c, s, call[t].timeout, timers)
           /\ Return(t)
           /\ UNCHANGED ClientSubList
        \/ /\ c \notin valid \/ (call[t].ok /\ ~RenewFound(c, s))
           /\ Return(t)
           /\ UNCHANGED <<ClientSubList, timers, RenewEventId, lastId, dropped>>
     /\ UNCHANGED <<valid, overlapped, dangling, lease, locks, events, renewJobs, lastSid,
                    calledBack>>

-----------------------------------------------------------------------------
(* Automatic renewal *)

\* The timer thread hands the event to the thread pool.  When the pool refuses the
\* job the event is gone all the same.
RenewalDue(e) ==
  /\ e \in timers
  /\ timers' = timers \ {e}
  /\ \/ renewJobs' = renewJobs \cup {e} /\ UNCHANGED dropped
     \/ "pool" \in Shortages /\ dropped' = dropped \cup {e[3]} /\ UNCHANGED renewJobs
  /\ UNCHANGED <<valid, overlapped, dangling, ClientSubList, RenewEventId, lease, locks, events,
                 call, lastSid, lastId, calledBack>>

\* GenaAutoRenewSubscription, and the first section of the renewal: nothing is done
\* when the subscription or the handle has gone.
GenaAutoRenewSubscription(t, e) ==
  /\ call[t] = Idle /\ WriteLock /\ e \in renewJobs
  /\ renewJobs' = renewJobs \ {e}
  /\ IF e[2] \in valid /\ e[3] \in ClientSubList[e[2]]
     THEN RenewBegin(t, e[2], e[3], TRUE)
     ELSE UNCHANGED <<subs, call>>
  /\ UNCHANGED <<locks, events, lastSid, lastId, calledBack>>

\* UPNP_EVENT_AUTORENEWAL_FAILED: the callback is read under the lock ...
AutoRenewFailed(t) ==
  /\ At(t, "renew", "failed")
  /\ IF call[t].c \in valid THEN Goto(t, "callback") ELSE Return(t)
  /\ UNCHANGED <<subs, locks, events, renewJobs, lastSid, lastId, calledBack>>

\* ... and called without it.
AutoRenewCallback(t) ==
  /\ At(t, "renew", "callback")
  /\ calledBack' = calledBack \cup ({call[t].c} \ valid)
  /\ Return(t)
  /\ UNCHANGED <<subs, locks, events, renewJobs, lastSid, lastId>>

-----------------------------------------------------------------------------
(* UpnpUnRegisterClient with genaUnregisterClient *)

UpnpUnRegisterClient(t, c) ==
  /\ call[t] = Idle /\ c \in valid
  /\ call' = [call EXCEPT ![t] = [Idle EXCEPT !.op = "unregister", !.pc = "loop", !.c = c]]
  /\ UNCHANGED <<subs, locks, events, renewJobs, lastSid, lastId, calledBack>>

\* One subscription after the other leaves the list, the newest first, and the
\* device is told; then the handle is freed in a section of its own.  Another call
\* may have freed it meanwhile.
UnregisterLoop(t) ==
  LET c == call[t].c IN
  /\ At(t, "unregister", "loop") /\ WriteLock
  /\ IF c \in valid /\ ClientSubList[c] # {}
     THEN /\ \E s \in ClientSubList[c] : /\ \A x \in ClientSubList[c] : x <= s
                                         /\ RemoveClientSub(c, s, timers)
          /\ Goto(t, "net")
     ELSE /\ IF c \in valid THEN Goto(t, "free") ELSE Return(t)
          /\ UNCHANGED <<ClientSubList, timers, RenewEventId>>
  /\ UNCHANGED <<valid, overlapped, mishaps, lease, locks, events, renewJobs, lastSid, lastId,
                 calledBack>>

UnregisterNet(t) ==
  /\ At(t, "unregister", "net")
  /\ Goto(t, "loop")
  /\ UNCHANGED <<subs, locks, events, renewJobs, lastSid, lastId, calledBack>>

UnregisterFree(t) ==
  /\ At(t, "unregister", "free") /\ WriteLock
  /\ valid' = valid \ {call[t].c}
  /\ Return(t)
  /\ UNCHANGED <<ClientSubList, RenewEventId, lease, timers, overlapped, mishaps, locks, events,
                 renewJobs, lastSid, lastId, calledBack>>

-----------------------------------------------------------------------------
(* gena_process_notification_event for the first event (SEQ 0) of subscription s *)

\* A control point must be registered; its handle and those after it are scanned.
NotifyStart(s) ==
  /\ ev[s] = "sent" /\ WriteLock
  /\ scan' = [scan EXCEPT ![s] = valid]
  /\ IF valid = {}
     THEN ev' = [ev EXCEPT ![s] = "done"] /\ refused' = refused \cup {s}
     ELSE ev' = [ev EXCEPT ![s] = "look"] /\ UNCHANGED refused
  /\ UNCHANGED <<subs, locks, accepted, renewJobs, call, lastSid, lastId, calledBack>>

Least(S) == CHOOSE c \in S : \A d \in S : c <= d

\* The handle the scan is at has the subscription, or is done with.
ScanOn(s, found) ==
  /\ scan' = IF found THEN scan ELSE [scan EXCEPT ![s] = @ \ {Least(@)}]
  /\ ev' = [ev EXCEPT ![s] = IF found THEN "callback" ELSE "look"]

\* Mutant of NotFound: an event that is not found is given up at once.
NotFoundEver(s) == ScanOn(s, FALSE)

\* An event with SEQ 0 that is not found waits for SubscribeLock: genaSubscribe may
\* not have put the subscription into the list yet.
NotFound(s) == ev' = [ev EXCEPT ![s] = "wait"] /\ UNCHANGED scan

NotifyLook(s) ==
  /\ ev[s] = "look" /\ scan[s] # {} /\ WriteLock
  /\ LET c == Least(scan[s]) IN
     IF c \in valid /\ s \notin ClientSubList[c] THEN NotFound(s) ELSE ScanOn(s, c \in valid)
  /\ UNCHANGED <<subs, locks, accepted, refused, renewJobs, call, lastSid, lastId, calledBack>>

NotifyWait(s) ==
  /\ ev[s] = "wait"
  /\ subscribeLock = NoOne
  /\ subscribeLock' = Holds("event", s)
  /\ ev' = [ev EXCEPT ![s] = "again"]
  /\ UNCHANGED <<subs, readers, scan, accepted, refused, renewJobs, call, lastSid, lastId,
                 calledBack>>

NotifyAgain(s) ==
  /\ ev[s] = "again" /\ WriteLock
  /\ subscribeLock' = NoOne
  /\ LET c == Least(scan[s]) IN ScanOn(s, c \in valid /\ s \in ClientSubList[c])
  /\ UNCHANGED <<subs, readers, accepted, refused, renewJobs, call, lastSid, lastId,
                 calledBack>>

\* The callback of the handle that was found is called without the lock; the scan
\* goes on behind it.
NotifyCallback(s) ==
  /\ ev[s] = "callback"
  /\ calledBack' = calledBack \cup ({Least(scan[s])} \ valid)
  /\ accepted' = accepted \cup {s}
  /\ ScanOn(s, FALSE)
  /\ UNCHANGED <<subs, locks, refused, renewJobs, call, lastSid, lastId>>

\* 200 if a handle had it.  If none had: 412, and the device ends the subscription.
NotifyEnd(s) ==
  /\ ev[s] = "look" /\ scan[s] = {}
  /\ ev' = [ev EXCEPT ![s] = "done"]
  /\ refused' = refused \cup ({s} \ accepted)
  /\ UNCHANGED <<subs, locks, scan, accepted, renewJobs, call, lastSid, lastId, calledBack>>

Notify(s) == \/ NotifyStart(s) \/ NotifyLook(s) \/ NotifyWait(s) \/ NotifyAgain(s)
             \/ NotifyCallback(s) \/ NotifyEnd(s)

-----------------------------------------------------------------------------
Init ==
  /\ valid = Clients
  /\ ClientSubList = [c \in Clients |-> {}]
  /\ RenewEventId = [s \in Sid |-> -1]
  /\ lease = [s \in Sid |-> "finite"]
  /\ timers = {} /\ renewJobs = {}
  /\ subscribeLock = NoOne /\ readers = {}
  /\ call = [t \in Threads |-> Idle]
  /\ ev = [s \in Sid |-> "none"] /\ scan = [s \in Sid |-> {}]
  /\ lastSid = 0 /\ lastId = 0
  /\ accepted = {} /\ refused = {} /\ overlapped = {} /\ calledBack = {}
  /\ dropped = {} /\ dangling = FALSE

Begin(t) ==
  \E c \in Clients :
    \/ UpnpSubscribe(t, c) \/ UpnpUnRegisterClient(t, c)
    \/ \E s \in Sid : UpnpUnSubscribe(t, c, s) \/ UpnpRenewSubscription(t, c, s)

\* The call thread t is in goes on.
CallStep(t) ==
  \/ SubscribeCheck(t) \/ SubscribeBad(t) \/ SubscribeLock(t) \/ SubscribeNet(t) \/ SubscribeLink(t)
  \/ UnSubscribeNet(t) \/ UnSubscribeEnd(t)
  \/ RenewNet(t) \/ RenewEnd(t) \/ AutoRenewFailed(t) \/ AutoRenewCallback(t)
  \/ UnregisterLoop(t) \/ UnregisterNet(t) \/ UnregisterFree(t)

\* Nothing is said of what happens once a list holds a freed subscription.
Next ==
  /\ ~dangling
  /\ \/ \E t \in Threads : \/ Begin(t) \/ CallStep(t)
                           \/ \E e \in renewJobs : GenaAutoRenewSubscription(t, e)
     \/ \E e \in timers : RenewalDue(e)
     \/ \E s \in Sid : Notify(s)

Spec == Init /\ [][Next]_vars

-----------------------------------------------------------------------------
(* Properties *)

TypeOK ==
  /\ valid \subseteq Clients
  /\ ClientSubList \in [Clients -> SUBSET Sid]
  /\ RenewEventId \in [Sid -> {-1} \cup 1 .. MaxEvents]
  /\ lease \in [Sid -> {"finite", "infinite"}]
  /\ timers \subseteq (1 .. MaxEvents) \X Clients \X Sid
  /\ renewJobs \subseteq (1 .. MaxEvents) \X Clients \X Sid
  /\ readers \subseteq Threads
  /\ ev \in [Sid -> {"none", "sent", "look", "wait", "again", "callback", "done"}]
  /\ accepted \subseteq Sid /\ refused \subseteq Sid
  /\ overlapped \subseteq Sid /\ dropped \subseteq Sid /\ dangling \in BOOLEAN
  /\ calledBack \subseteq Clients

\* A subscription that runs out is not forgotten: as long as it is in the list of a
\* registered control point its renewal is on the timer, in the pool or being made,
\* or it is being given up, unless the pool refused its last renewal or the timer its
\* first one.
KeepsRenewing ==
  \A c \in valid : \A s \in ClientSubList[c] :
    lease[s] = "finite" =>
      \/ \E e \in timers \cup renewJobs : e[3] = s
      \/ InProgress(c, s, {"renew", "unsubscribe"})
      \/ s \in dropped

\* The first event of a subscription is not refused because it overtakes the
\* answer to the SUBSCRIBE request: a subscription whose first event was refused
\* is not in the list of a registered control point, then or later.
FirstEventKept == \A c \in valid : ClientSubList[c] \cap refused = {}

\* No renewal is left behind: what is on the timer for a registered control point
\* is the event its subscription remembers, so that unsubscribing cancels it.  (Two
\* renewals of one subscription at a time leave the first one's event behind.)
TimersOwned ==
  \A e \in timers :
    e[2] \in valid /\ e[3] \notin overlapped =>
      e[3] \in ClientSubList[e[2]] /\ RenewEventId[e[3]] = e[1]

\* No thread keeps the handle lock while it waits for SubscribeLock when the one
\* that has SubscribeLock waits for the handle lock.
NoLockCycle == readers # {} => subscribeLock = NoOne

\* "The UPnP Library generates no more callbacks after this function returns"
\* (UpnpUnRegisterClient).
SilentAfterUnregister == calledBack = {}

\* The renewal of a subscription is not left behind, and lost only where the pool or
\* the timer refused it, whatever is subscribed, renewed and unsubscribed meanwhile
\* (ScheduleGenaAutoRenew, RemoveClientSub).
RenewalsRight == TypeOK /\ KeepsRenewing /\ TimersOwned
===============================================================================
