----------------------------- MODULE ControlProofs -----------------------------
(***************************************************************************)
(* What is true of a control point for every value of the constants.  Of   *)
(* its subscriptions (GenaCtrlpt): the renewal of a subscription is        *)
(* neither lost nor left behind, and the first event of a subscription     *)
(* that is in a list is not refused.  Of its calls (Soap): an action is    *)
(* performed at most once for a call, and a call reports what the          *)
(* application did and said.                                               *)
(***************************************************************************)
EXTENDS MCControl, FiniteSetTheorems, SequenceTheorems, WellFoundedInduction, TLAPS

-----------------------------------------------------------------------------
(* Subscriptions.  A step is looked at by what it does to subscriptions    *)
(* and timer events: Moves, Due, Moot or NotifyRest (StepMoves).  RenewInv *)
(* says that a subscription belongs to one handle and a timer event to one *)
(* subscription wherever they are known (KnownOnce), from which it follows *)
(* whom a step can disturb; each kind of step then keeps the rest (Alone). *)
(* FirstInv follows the first event from handle to handle.                 *)

Ops == {"idle", "subscribe", "unsubscribe", "renew", "unregister"}
Pcs == {"", "check", "bad", "lock", "net", "link", "end", "failed", "callback", "loop", "free"}

\* The records of calls.  Only an idle thread has no handle, an UNSUBSCRIBE or a
\* renewal is of some subscription, and only an UNSUBSCRIBE knows a timer event.
CallRecs ==
  {r \in [op : Ops, pc : Pcs, c : Clients \cup {None}, s : Sid \cup {None},
          id : {-1} \cup 1 .. MaxEvents, ok : BOOLEAN, auto : BOOLEAN,
          timeout : {"none", "finite", "infinite"}] :
     /\ r.op # "idle" => r.c \in Clients
     /\ r.op \in {"unsubscribe", "renew"} => r.s \in Sid
     /\ r.op # "unsubscribe" => r.id = -1}

\* Types, and an event that waits or was found has a handle it looks at.
Types ==
  /\ TypeOK
  /\ call \in [Threads -> CallRecs]
  /\ scan \in [Sid -> SUBSET Clients]
  /\ lastSid \in 0 .. MaxSubs /\ lastId \in 0 .. MaxEvents
  /\ \A s \in Sid : ev[s] \in {"wait", "again", "callback"} => scan[s] # {}

\* Calls that have no subscription yet, or no more.
NoSub(r) == \/ r.op \in {"idle", "unregister"}
            \/ r.op = "subscribe" /\ r.pc # "link"
\* A subscription that is new in the hands of its call; one that is renewed; one
\* that is renewed or given up.
Links(r) == r.op = "subscribe" /\ r.pc = "link"
Renews(r) == r.op = "renew" /\ r.pc \in {"net", "end"}
Busy(r) == r.op = "unsubscribe" \/ Renews(r)
\* One of these that is not about to find that there is nothing to renew.
Hopes(r) == Busy(r) /\ ~(Renews(r) /\ r.pc = "end" /\ r.ok /\ r.timeout = "infinite")

\* Renewals on the timer and in the pool; where a subscription of handle c, and
\* where a timer event of a subscription, is known.
Pending == timers \cup renewJobs
Uses(c, s) == \/ c \in Clients /\ s \in ClientSubList[c]
              \/ \E t \in Threads : call[t].c = c /\ call[t].s = s
              \/ \E e \in Pending : e[2] = c /\ e[3] = s
UsesId(i, s) == \/ RenewEventId[s] = i
                \/ \E t \in Threads : call[t].id = i /\ call[t].s = s
                \/ \E e \in Pending : e[1] = i /\ e[3] = s
Owner == Clients \cup {None}

\* What has not been given out yet is nowhere.
Fresh == /\ \A s \in Sid : s > lastSid => \A c \in Owner : ~Uses(c, s)
         /\ \A i \in 1 .. MaxEvents : i > lastId => \A s \in Sid : ~UsesId(i, s)
\* A subscription belongs to one handle, a timer event to one subscription.
OneClient == \A s \in Sid : \A c, d \in Owner : Uses(c, s) /\ Uses(d, s) => c = d
OneSub == \A i \in 1 .. MaxEvents : \A r, s \in Sid : UsesId(i, r) /\ UsesId(i, s) => r = s

\* A subscription that is to be put into the list is known to that call only.
LinkAlone ==
  \A t \in Threads :
    /\ NoSub(call[t]) => call[t].s = None
    /\ Links(call[t]) /\ call[t].s # None =>
         /\ \A c \in Clients : call[t].s \notin ClientSubList[c]
         /\ \A u \in Threads : u # t => call[u].s # call[t].s
         /\ \A e \in Pending : e[3] # call[t].s

\* Its call has the lease the device granted.
LeaseKnown ==
  \A t \in Threads :
    Links(call[t]) /\ call[t].s # None => call[t].timeout = lease[call[t].s]

\* A renewal that was answered or failed is not over before its last section
\* (KeepsRenewing, for the calls that are not yet there), and one that was answered
\* with "infinite" is not the last one of a subscription that runs out.
Keeps ==
  \A c \in valid : \A s \in ClientSubList[c] :
    lease[s] = "finite" =>
      \/ \E e \in Pending : e[3] = s
      \/ \E t \in Threads : Hopes(call[t]) /\ call[t].c = c /\ call[t].s = s
      \/ s \in dropped

\* While a subscription is renewed nothing of it is on the timer, and nobody else
\* renews it, unless two renewals have overlapped.
RenewAlone ==
  \A t \in Threads :
    /\ Renews(call[t]) /\ call[t].c \in valid /\ call[t].s \notin overlapped =>
         \A e \in timers : e[3] # call[t].s
    /\ \A u \in Threads :
         t # u /\ Renews(call[t]) /\ Renews(call[u]) /\ call[t].s = call[u].s =>
           call[t].s \in overlapped

RenewInv == /\ Types /\ Fresh /\ OneClient /\ OneSub /\ LinkAlone /\ LeaseKnown
            /\ Keeps /\ TimersOwned /\ RenewAlone

\* Subscription s is not in the list of handle c and nobody will put it there.
Gone(c, s) ==
  /\ s \notin ClientSubList[c]
  /\ \A t \in Threads : ~(Links(call[t]) /\ call[t].c = c /\ call[t].s = s)

\* Who has SubscribeLock: a call over its exchange with the device, or an event that
\* looks again.
LockKept ==
  /\ \A t \in Threads : call[t].op = "subscribe" /\ call[t].pc \in {"net", "link"} =>
                          subscribeLock = Holds("call", t)
  /\ \A s \in Sid : ev[s] = "again" => subscribeLock = Holds("event", s)

\* An event that nobody accepted so far was passed by handles that do not have the
\* subscription and will not get it.
FirstInv ==
  /\ LockKept
  /\ \A s \in Sid :
       /\ s > lastSid => ev[s] = "none" /\ s \notin refused
       /\ s \in refused => \A c \in valid : Gone(c, s)
       /\ ev[s] \in {"look", "wait", "again", "callback"} /\ s \notin accepted =>
            \A c \in valid \ scan[s] : Gone(c, s)

CallsTyped == call \in [Threads -> CallRecs]

\* Thread t's call gets these fields; the other threads' calls stay.
CallTo(t, op, pc, c, s, id) ==
  /\ CallsTyped'
  /\ \A u \in Threads : u # t => call'[u] = call[u]
  /\ call'[t].op = op /\ call'[t].pc = pc /\ call'[t].c = c /\ call'[t].s = s /\ call'[t].id = id

-----------------------------------------------------------------------------
(* Calls *)

LEMMA IdleTyped ==
  /\ Idle \in CallRecs /\ Idle.op = "idle" /\ Idle.pc = "" /\ Idle.c = None /\ Idle.s = None
  /\ Idle.id = -1
BY DEF Idle, CallRecs, Ops, Pcs, None

LEMMA GotoTo ==
  ASSUME CallsTyped, NEW t \in Threads, NEW p \in Pcs, Goto(t, p)
  PROVE  CallTo(t, call[t].op, p, call[t].c, call[t].s, call[t].id)
<1>1. call[t] \in CallRecs /\ call' = [call EXCEPT ![t].pc = p]
  BY DEF CallsTyped, Goto
<1>2. CallsTyped'
  BY <1>1 DEF CallsTyped, CallRecs, Pcs
<1> QED BY <1>1, <1>2 DEF CallTo, CallsTyped, CallRecs

LEMMA ReturnTo ==
  ASSUME CallsTyped, NEW t \in Threads, Return(t)
  PROVE  CallTo(t, "idle", "", None, None, -1)
BY IdleTyped DEF CallTo, CallsTyped, Return

LEMMA BeginTo ==
  ASSUME CallsTyped, NEW t \in Threads, NEW o \in {"subscribe", "unregister"}, NEW p \in Pcs,
         NEW c \in Clients,
         call' = [call EXCEPT ![t] = [Idle EXCEPT !.op = o, !.pc = p, !.c = c]]
  PROVE  CallTo(t, o, p, c, None, -1)
<1>1. [Idle EXCEPT !.op = o, !.pc = p, !.c = c] \in CallRecs
  BY IdleTyped DEF CallRecs, Ops, Pcs
<1> QED BY <1>1, IdleTyped DEF CallTo, CallsTyped, CallRecs

LEMMA BeginIdTo ==
  ASSUME CallsTyped, NEW t \in Threads, NEW o \in {"unsubscribe"}, NEW p \in Pcs, NEW c \in Clients,
         NEW s \in Sid, NEW i \in {-1} \cup 1 .. MaxEvents,
         call' = [call EXCEPT ![t] = [Idle EXCEPT !.op = o, !.pc = p, !.c = c, !.s = s, !.id = i]]
  PROVE  CallTo(t, o, p, c, s, i)
<1>1. [Idle EXCEPT !.op = o, !.pc = p, !.c = c, !.s = s, !.id = i] \in CallRecs
  <2> DEFINE r == [Idle EXCEPT !.op = o, !.pc = p, !.c = c, !.s = s, !.id = i]
  <2>1. r.op = o /\ r.c = c /\ r.s = s /\ r.id = i
    BY DEF Idle
  <2>2. r \in [op : Ops, pc : Pcs, c : Clients \cup {None}, s : Sid \cup {None},
               id : {-1} \cup 1 .. MaxEvents, ok : BOOLEAN, auto : BOOLEAN,
               timeout : {"none", "finite", "infinite"}]
    BY DEF Idle, Ops, Pcs
  <2> HIDE DEF r
  <2>3. r \in CallRecs
    BY <2>1, <2>2 DEF CallRecs, Ops, Pcs
  <2> QED BY <2>3 DEF r
<1> QED BY <1>1, IdleTyped DEF CallTo, CallsTyped, CallRecs

LEMMA BeginAutoTo ==
  ASSUME CallsTyped, NEW t \in Threads, NEW o \in {"renew"}, NEW p \in Pcs, NEW c \in Clients,
         NEW s \in Sid, NEW a \in BOOLEAN,
         call' = [call EXCEPT ![t] = [Idle EXCEPT !.op = o, !.pc = p, !.c = c, !.s = s,
                                                  !.auto = a]]
  PROVE  CallTo(t, o, p, c, s, -1)
<1>1. [Idle EXCEPT !.op = o, !.pc = p, !.c = c, !.s = s, !.auto = a] \in CallRecs
  <2> DEFINE r == [Idle EXCEPT !.op = o, !.pc = p, !.c = c, !.s = s, !.auto = a]
  <2>1. r.op = o /\ r.c = c /\ r.s = s /\ r.id = -1
    BY DEF Idle
  <2>2. r \in [op : Ops, pc : Pcs, c : Clients \cup {None}, s : Sid \cup {None},
               id : {-1} \cup 1 .. MaxEvents, ok : BOOLEAN, auto : BOOLEAN,
               timeout : {"none", "finite", "infinite"}]
    BY DEF Idle, Ops, Pcs
  <2> HIDE DEF r
  <2>3. r \in CallRecs
    BY <2>1, <2>2 DEF CallRecs, Ops, Pcs
  <2> QED BY <2>3 DEF r
<1> QED BY <1>1, IdleTyped DEF CallTo, CallsTyped, CallRecs

LEMMA AnsweredTo ==
  ASSUME CallsTyped, NEW t \in Threads, NEW p \in Pcs, NEW s \in Sid \cup {None},
         NEW l \in {"finite", "infinite"}, call[t].op = "subscribe",
         call' = [call EXCEPT ![t].pc = p, ![t].timeout = l, ![t].s = s]
  PROVE  CallTo(t, call[t].op, p, call[t].c, s, call[t].id) /\ call'[t].timeout = l
<1>1. call[t] \in CallRecs
  BY DEF CallsTyped
<1>2. [call[t] EXCEPT !.pc = p, !.timeout = l, !.s = s] \in CallRecs
  BY <1>1 DEF CallRecs, Pcs
<1>3. CallsTyped'
  BY <1>1, <1>2 DEF CallsTyped
<1> QED BY <1>1, <1>3 DEF CallTo, CallsTyped, CallRecs

LEMMA RenewedTo ==
  ASSUME CallsTyped, NEW t \in Threads, NEW p \in Pcs, NEW ok \in BOOLEAN,
         NEW l \in {"finite", "infinite"},
         call' = [call EXCEPT ![t].pc = p, ![t].ok = ok, ![t].timeout = l]
  PROVE  CallTo(t, call[t].op, p, call[t].c, call[t].s, call[t].id) /\ call'[t].timeout = l
<1>1. call[t] \in CallRecs
  BY DEF CallsTyped
<1>2. [call[t] EXCEPT !.pc = p, !.ok = ok, !.timeout = l] \in CallRecs
  BY <1>1 DEF CallRecs, Pcs
<1>3. CallsTyped'
  BY <1>1, <1>2 DEF CallsTyped
<1> QED BY <1>1, <1>3 DEF CallTo, CallsTyped, CallRecs

\* A set of handles has a least one.
LEMMA LeastIn == ASSUME NEW ids, ids \subseteq Nat, ids # {} PROVE Least(ids) \in ids
<1>1. PICK n \in ids : TRUE
  OBVIOUS
<1> DEFINE R == {ss \in Nat \X Nat : ss[1] < ss[2]}
<1>2. IsWellFoundedOn(R, Nat)
  BY NatLessThanWellFounded DEF OpToRel
<1> HIDE DEF R
<1>3. PICK x \in ids : \A y \in ids : ~ (<<y, x>> \in R)
  BY <1>2, WFMin
<1>4. ASSUME NEW y \in ids PROVE x <= y
  <2>1. y < x => <<y, x>> \in R
    BY DEF R
  <2> QED BY <1>3, <2>1
<1> QED BY <1>4 DEF Least

-----------------------------------------------------------------------------
(* Types *)

\* What a step leaves alone keeps its type.
Kept == /\ UNCHANGED <<ev, scan, accepted, refused>>
        /\ valid' \subseteq valid /\ calledBack' \subseteq Clients /\ readers' \subseteq Threads
        /\ overlapped' \subseteq Sid /\ dropped' \subseteq Sid /\ dangling' \in BOOLEAN

LEMMA TypesFrom ==
  ASSUME Types, Kept, CallsTyped',
         ClientSubList' \in [Clients -> SUBSET Sid],
         RenewEventId' \in [Sid -> {-1} \cup 1 .. MaxEvents],
         lease' \in [Sid -> {"finite", "infinite"}],
         timers' \subseteq (1 .. MaxEvents) \X Clients \X Sid,
         renewJobs' \subseteq (1 .. MaxEvents) \X Clients \X Sid,
         lastSid' \in 0 .. MaxSubs, lastId' \in 0 .. MaxEvents
  PROVE  Types'
BY DEF Types, TypeOK, Kept, CallsTyped

\* Nothing but the calls, the locks and the registered handles changed.
Held == UNCHANGED <<ClientSubList, RenewEventId, lease, timers, renewJobs, overlapped, dropped,
                    lastSid, lastId>>

LEMMA HeldTypes ==
  ASSUME Types, Kept, CallsTyped', Held
  PROVE  Types'
BY TypesFrom DEF Held, Types, TypeOK

LEMMA TypesFields ==
  ASSUME Types
  PROVE  /\ CallsTyped /\ valid \subseteq Clients /\ readers \subseteq Threads
         /\ overlapped \subseteq Sid /\ calledBack \subseteq Clients
         /\ dropped \subseteq Sid /\ dangling \in BOOLEAN
         /\ ClientSubList \in [Clients -> SUBSET Sid]
         /\ RenewEventId \in [Sid -> {-1} \cup 1 .. MaxEvents]
         /\ lease \in [Sid -> {"finite", "infinite"}]
         /\ timers \subseteq (1 .. MaxEvents) \X Clients \X Sid
         /\ renewJobs \subseteq (1 .. MaxEvents) \X Clients \X Sid
         /\ lastSid \in 0 .. MaxSubs /\ lastId \in 0 .. MaxEvents
BY DEF Types, TypeOK, CallsTyped

\* What is assumed of the constants.
LEMMA ConstantTypes ==
  /\ Clients \subseteq Nat /\ MaxSubs \in Nat /\ MaxEvents \in Nat /\ Sid = 1 .. MaxSubs /\ None = 0
  /\ None \notin Sid
BY CtrlptConstants DEF Sid, None

LEMMA RemoveTypes ==
  ASSUME Types, NEW c, NEW s, RemoveClientSub(c, s, timers)
  PROVE  /\ ClientSubList' \in [Clients -> SUBSET Sid]
         /\ RenewEventId' \in [Sid -> {-1} \cup 1 .. MaxEvents]
         /\ timers' \subseteq (1 .. MaxEvents) \X Clients \X Sid
<1>1. ClientSubList' \in [Clients -> SUBSET Sid]
  BY TypesFields DEF RemoveClientSub
<1>2. RenewEventId' \in [Sid -> {-1} \cup 1 .. MaxEvents]
  BY TypesFields DEF RemoveClientSub
<1>3. timers' \subseteq (1 .. MaxEvents) \X Clients \X Sid
  BY TypesFields DEF RemoveClientSub
<1> QED BY <1>1, <1>2, <1>3

LEMMA ScheduleTypes ==
  ASSUME Types, NEW c \in Clients, NEW s \in Sid, NEW l, ScheduleGenaAutoRenew(c, s, l, timers)
  PROVE  /\ RenewEventId' \in [Sid -> {-1} \cup 1 .. MaxEvents]
         /\ timers' \subseteq (1 .. MaxEvents) \X Clients \X Sid
         /\ lastId' \in 0 .. MaxEvents /\ dropped' \subseteq dropped
<1>1. CASE l = "infinite"
  BY <1>1, TypesFields DEF ScheduleGenaAutoRenew
<1>2. CASE l # "infinite"
  <2>1. lastId' \in 1 .. MaxEvents
    BY <1>2, TypesFields, ConstantTypes DEF ScheduleGenaAutoRenew
  <2> QED BY <1>2, <2>1, TypesFields DEF ScheduleGenaAutoRenew
<1> QED BY <1>1, <1>2

-----------------------------------------------------------------------------
(* What the steps do to subscriptions and timer events *)

Steady == UNCHANGED <<valid, overlapped>>
Rest == Steady /\ UNCHANGED dropped

\* A step of thread t that changes no subscription: a renewal or cancellation that
\* ends has nothing left to do.
Quiet(t) ==
  /\ Held /\ valid' \subseteq valid
  /\ ~Busy(call[t]) \/ call[t].c \notin valid \/ call[t].s \notin ClientSubList[call[t].c]
  /\ \/ \E op \in {"idle", "subscribe", "unregister"} : \E pc, c, id : CallTo(t, op, pc, c, None, id)
     \/ /\ call[t].op = "renew"
        /\ CallTo(t, "renew", "callback", call[t].c, call[t].s, call[t].id)

\* The device made a subscription, and the answer may have been lost.
Granted(t) ==
  /\ lastSid < MaxSubs /\ lastSid' = lastSid + 1 /\ NoSub(call[t])
  /\ \E l \in Leases : lease' = [lease EXCEPT ![lastSid'] = l] /\ call'[t].timeout = l
  /\ \E s \in {None, lastSid'} : CallTo(t, "subscribe", "link", call[t].c, s, call[t].id)
  /\ UNCHANGED <<ClientSubList, RenewEventId, timers, renewJobs, lastId>> /\ Rest

\* genaSubscribe puts its subscription into the list and on the timer, which may fail.
Linked(t) ==
  LET c == call[t].c
      s == call[t].s
  IN /\ Links(call[t]) /\ c \in valid /\ s # None
     /\ ClientSubList' = [ClientSubList EXCEPT ![c] = @ \cup {s}]
     /\ \/ ScheduleGenaAutoRenew(c, s, call[t].timeout, timers)
        \/ dropped' = dropped \cup {s} /\ UNCHANGED <<RenewEventId, timers, lastId>>
     /\ CallTo(t, "idle", "", None, None, -1)
     /\ UNCHANGED <<lease, renewJobs, lastSid>> /\ Steady

\* An UNSUBSCRIBE begins, and has told the device.
Cancels(t) ==
  /\ Held /\ Rest /\ NoSub(call[t])
  /\ \E c \in valid : \E s \in ClientSubList[c] :
       CallTo(t, "unsubscribe", "net", c, s, RenewEventId[s])

Cancelled(t) ==
  /\ call[t].op = "unsubscribe"
  /\ timers' = Without(call[t].id)
  /\ CallTo(t, "unsubscribe", "end", call[t].c, call[t].s, call[t].id)
  /\ UNCHANGED <<ClientSubList, RenewEventId, lease, renewJobs, lastSid, lastId>> /\ Rest

\* A subscription leaves the list: cancelled, not renewed, or unregistered.
Removes(t, c, s) ==
  /\ RemoveClientSub(c, s, timers)
  /\ Busy(call[t]) => call[t].c = c /\ call[t].s = s
  /\ \/ \E op \in {"idle", "unregister"} : \E pc, d, id : CallTo(t, op, pc, d, None, id)
     \/ call[t].op = "renew" /\ CallTo(t, "renew", "failed", call[t].c, call[t].s, call[t].id)
  /\ UNCHANGED <<lease, renewJobs, lastSid, lastId>> /\ Rest
Removed(t) == \E c \in valid : \E s : Removes(t, c, s)

\* A renewal begins, by hand or automatic, is answered, and is over.
Begins(t) ==
  \E c \in valid : \E s \in ClientSubList[c] :
    /\ NoSub(call[t])
    /\ timers' = Without(RenewEventId[s])
    /\ RenewEventId' = [RenewEventId EXCEPT ![s] = -1]
    /\ overlapped' = IF InProgress(c, s, {"renew"}) THEN overlapped \cup {s} ELSE overlapped
    /\ CallTo(t, "renew", "net", c, s, -1)
    /\ \/ UNCHANGED renewJobs
       \/ \E e \in renewJobs : e[2] = c /\ e[3] = s /\ renewJobs' = renewJobs \ {e}
    /\ UNCHANGED <<ClientSubList, lease, lastSid, lastId, valid, dropped>>

Answered(t) ==
  /\ Renews(call[t])
  /\ CallTo(t, "renew", "end", call[t].c, call[t].s, call[t].id)
  /\ \E l \in Leases : lease' = [lease EXCEPT ![call[t].s] = l] /\ call'[t].timeout = l
  /\ UNCHANGED <<ClientSubList, RenewEventId, timers, renewJobs, lastSid, lastId>> /\ Rest

Renewed(t) ==
  LET c == call[t].c
      s == call[t].s
  IN /\ Renews(call[t]) /\ call[t].pc = "end" /\ call[t].ok
     /\ c \in valid /\ s \in ClientSubList[c]
     /\ ScheduleGenaAutoRenew(c, s, call[t].timeout, timers)
     /\ CallTo(t, "idle", "", None, None, -1)
     /\ UNCHANGED <<ClientSubList, lease, renewJobs, lastSid>> /\ Steady

\* A timer event is handed to the pool, or lost; a renewal comes too late.
Due(e) ==
  /\ e \in timers /\ timers' = timers \ {e}
  /\ \/ renewJobs' = renewJobs \cup {e} /\ UNCHANGED dropped
     \/ dropped' = dropped \cup {e[3]} /\ UNCHANGED renewJobs
  /\ UNCHANGED <<ClientSubList, RenewEventId, lease, lastSid, lastId, call>> /\ Steady

Moot(e) ==
  /\ e \in renewJobs /\ renewJobs' = renewJobs \ {e}
  /\ e[2] \notin valid \/ e[3] \notin ClientSubList[e[2]]
  /\ UNCHANGED <<ClientSubList, RenewEventId, lease, timers, lastSid, lastId, call>> /\ Rest

\* What a step of thread t does.
Moves(t) ==
  \/ Quiet(t) \/ Granted(t) \/ Linked(t) \/ Cancels(t) \/ Cancelled(t) \/ Removed(t)
  \/ Begins(t) \/ Answered(t) \/ Renewed(t)

\* A call begins.
LEMMA BeginStep ==
  ASSUME Types, NEW t \in Threads, Begin(t)
  PROVE  Types' /\ (Quiet(t) \/ Cancels(t) \/ Begins(t))
<1>1. PICK c \in Clients :
        \/ UpnpSubscribe(t, c) \/ UpnpUnRegisterClient(t, c)
        \/ \E s \in Sid : UpnpUnSubscribe(t, c, s) \/ UpnpRenewSubscription(t, c, s)
  BY DEF Begin
<1>2. CallsTyped /\ call[t] = Idle /\ NoSub(call[t]) /\ ~Busy(call[t])
  BY <1>1, TypesFields, IdleTyped DEF UpnpSubscribe, UpnpUnRegisterClient, UpnpUnSubscribe,
     UpnpRenewSubscription, NoSub, Busy, Renews
<1>3. CASE UpnpSubscribe(t, c)
  <2>1. CallTo(t, "subscribe", "check", c, None, -1)
    BY <1>2, <1>3, BeginTo DEF UpnpSubscribe, Ops, Pcs
  <2>2. Held /\ Kept
    BY <1>3, TypesFields DEF UpnpSubscribe, Held, Kept, subs, mishaps, locks, events
  <2>3. Types'
    BY <2>1, <2>2, HeldTypes DEF CallTo
  <2> QED BY <1>2, <2>1, <2>2, <2>3 DEF Quiet, Kept
<1>4. CASE UpnpUnRegisterClient(t, c)
  <2>1. CallTo(t, "unregister", "loop", c, None, -1)
    BY <1>2, <1>4, BeginTo DEF UpnpUnRegisterClient, Ops, Pcs
  <2>2. Held /\ Kept
    BY <1>4, TypesFields DEF UpnpUnRegisterClient, Held, Kept, subs, mishaps, locks, events
  <2>3. Types'
    BY <2>1, <2>2, HeldTypes DEF CallTo
  <2> QED BY <1>2, <2>1, <2>2, <2>3 DEF Quiet, Kept
<1>5. ASSUME NEW s \in Sid, UpnpUnSubscribe(t, c, s)
      PROVE  Types' /\ Cancels(t)
  <2>1. CallTo(t, "unsubscribe", "net", c, s, RenewEventId[s])
    <3>1. RenewEventId[s] \in {-1} \cup 1 .. MaxEvents
      BY TypesFields
    <3> QED BY <1>2, <1>5, <3>1, BeginIdTo DEF UpnpUnSubscribe, Ops, Pcs
  <2>2. Held /\ Kept /\ Rest /\ c \in valid /\ s \in ClientSubList[c]
    BY <1>5, TypesFields DEF UpnpUnSubscribe, Held, Kept, Rest, Steady, subs, mishaps, locks, events
  <2>3. Types'
    BY <2>1, <2>2, HeldTypes DEF CallTo
  <2> QED BY <1>2, <2>1, <2>2, <2>3 DEF Cancels
<1>6. ASSUME NEW s \in Sid, UpnpRenewSubscription(t, c, s)
      PROVE  Types' /\ Begins(t)
  <2>1. CallTo(t, "renew", "net", c, s, -1)
    BY <1>2, <1>6, BeginAutoTo DEF UpnpRenewSubscription, RenewBegin, Ops, Pcs
  <2>2. /\ c \in valid /\ s \in ClientSubList[c] /\ timers' = Without(RenewEventId[s])
        /\ RenewEventId' = [RenewEventId EXCEPT ![s] = -1]
        /\ overlapped' = IF InProgress(c, s, {"renew"}) THEN overlapped \cup {s} ELSE overlapped
        /\ UNCHANGED <<ClientSubList, lease, lastSid, lastId, valid, dropped, dangling, renewJobs>>
    BY <1>6 DEF UpnpRenewSubscription, RenewBegin, mishaps
  <2>3. Kept
    BY <1>6, <2>2, TypesFields DEF UpnpRenewSubscription, Kept, locks, events
  <2>4. Types'
    BY <2>1, <2>2, <2>3, TypesFrom, TypesFields DEF CallTo, Without
  <2> QED BY <1>2, <2>1, <2>2, <2>4 DEF Begins
<1> QED BY <1>1, <1>3, <1>4, <1>5, <1>6

\* The job of an automatic renewal begins.
LEMMA AutoStep ==
  ASSUME Types, NEW t \in Threads, NEW e \in renewJobs, GenaAutoRenewSubscription(t, e)
  PROVE  Types' /\ (Begins(t) \/ Moot(e))
<1>1. CallsTyped /\ call[t] = Idle /\ NoSub(call[t]) /\ renewJobs' = renewJobs \ {e}
  BY TypesFields, IdleTyped DEF GenaAutoRenewSubscription, NoSub
<1>2. CASE e[2] \in valid /\ e[3] \in ClientSubList[e[2]]
  <2> DEFINE c == e[2]
             s == e[3]
  <2>1. RenewBegin(t, c, s, TRUE) /\ c \in Clients /\ s \in Sid
    BY <1>2, TypesFields DEF GenaAutoRenewSubscription
  <2> HIDE DEF c, s
  <2>2. CallTo(t, "renew", "net", c, s, -1)
    BY <1>1, <2>1, BeginAutoTo DEF RenewBegin, Ops, Pcs
  <2>3. /\ timers' = Without(RenewEventId[s])
        /\ RenewEventId' = [RenewEventId EXCEPT ![s] = -1]
        /\ overlapped' = IF InProgress(c, s, {"renew"}) THEN overlapped \cup {s} ELSE overlapped
        /\ UNCHANGED <<ClientSubList, lease, lastSid, lastId, valid, dropped, dangling>>
    BY <2>1 DEF GenaAutoRenewSubscription, RenewBegin, mishaps
  <2>4. Kept
    BY <2>1, <2>3, TypesFields DEF GenaAutoRenewSubscription, Kept, locks, events
  <2>5. Types'
    BY <1>1, <2>1, <2>2, <2>3, <2>4, TypesFrom, TypesFields DEF CallTo, Without
  <2>6. c = e[2] /\ s = e[3]
    BY DEF c, s
  <2> QED BY <1>1, <1>2, <2>2, <2>3, <2>5, <2>6 DEF Begins
<1>3. CASE ~(e[2] \in valid /\ e[3] \in ClientSubList[e[2]])
  <2>1. UNCHANGED <<ClientSubList, RenewEventId, lease, timers, lastSid, lastId, call>> /\ Rest /\ Kept
    BY <1>3, TypesFields DEF GenaAutoRenewSubscription, subs, mishaps, locks, events, Rest, Steady, Kept
  <2>2. Types'
    BY <1>1, <2>1, TypesFrom, TypesFields DEF CallsTyped
  <2> QED BY <1>1, <1>3, <2>1, <2>2 DEF Moot
<1> QED BY <1>2, <1>3

\* A call without a subscription goes on without one.
LEMMA QuietCall ==
  ASSUME Types, LinkAlone, NEW t \in Threads, NoSub(call[t]), call[t].op # "idle", Kept, Held,
         \/ \E p \in Pcs : Goto(t, p)
         \/ Return(t)
  PROVE  Types' /\ Quiet(t)
<1>1. CallsTyped /\ call[t].s = None /\ call[t].op \in {"subscribe", "unregister"}
  BY TypesFields DEF LinkAlone, NoSub
<1>2. \E op \in {"idle", "subscribe", "unregister"} : \E pc, c, id : CallTo(t, op, pc, c, None, id)
  BY <1>1, GotoTo, ReturnTo
<1>3. CallsTyped'
  BY <1>2 DEF CallTo
<1>4. ~Busy(call[t])
  BY <1>1 DEF Busy, Renews
<1> QED BY <1>2, <1>3, <1>4, HeldTypes DEF Quiet, Kept

\* genaSubscribe up to the answer of the device, and the rest of it.
LEMMA SubscribeStep ==
  ASSUME Types, LinkAlone, NEW t \in Threads,
         SubscribeCheck(t) \/ SubscribeBad(t) \/ SubscribeLock(t) \/ SubscribeNet(t)
  PROVE  Types' /\ (Quiet(t) \/ Granted(t))
<1>1. /\ call[t].op = "subscribe" /\ call[t].pc \in {"check", "bad", "lock", "net"}
      /\ NoSub(call[t]) /\ CallsTyped /\ call[t].op # "idle"
  BY TypesFields DEF SubscribeCheck, SubscribeBad, SubscribeLock, SubscribeNet, At, NoSub
<1>2. CASE SubscribeCheck(t)
  <2>1. Kept /\ Held
    BY <1>2, TypesFields DEF SubscribeCheck, Kept, Held, subs, mishaps, locks, events
  <2>2. \E p \in Pcs : Goto(t, p)
    BY <1>2 DEF SubscribeCheck, Pcs
  <2> QED BY <1>1, <2>1, <2>2, QuietCall
<1>3. CASE SubscribeBad(t)
  <2>1. Kept /\ Held
    BY <1>3, TypesFields DEF SubscribeBad, Kept, Held, subs, mishaps, locks, events
  <2> QED BY <1>1, <1>3, <2>1, QuietCall DEF SubscribeBad
<1>4. CASE SubscribeLock(t)
  <2>1. Kept /\ Held
    BY <1>4, TypesFields DEF SubscribeLock, Kept, Held, subs, mishaps, locks, events
  <2>2. \E p \in Pcs : Goto(t, p)
    BY <1>4 DEF SubscribeLock, Pcs
  <2> QED BY <1>1, <2>1, <2>2, QuietCall
<1>5. CASE SubscribeNet(t)
  <2>1. CASE Goto(t, "link") /\ UNCHANGED <<lease, ev, lastSid>>
    <3>1. Kept /\ Held
      BY <1>5, <2>1, TypesFields DEF SubscribeNet, Kept, Held, mishaps, locks, events
    <3>2. \E p \in Pcs : Goto(t, p)
      BY <2>1 DEF Pcs
    <3> QED BY <1>1, <3>1, <3>2, QuietCall
  <2>2. ASSUME NEW r \in Replies, r # "fail",
               lastSid < MaxSubs, lastSid' = lastSid + 1,
               ev' = [ev EXCEPT ![lastSid'] = "sent"],
               NEW l \in Leases, lease' = [lease EXCEPT ![lastSid'] = l],
               call' = [call EXCEPT ![t].pc = "link", ![t].timeout = l,
                                    ![t].s = IF r = "ok" THEN lastSid' ELSE None]
        PROVE  Types' /\ Granted(t)
    <3>1. lastSid' \in Sid
      BY <2>2, TypesFields, ConstantTypes
    <3>2. PICK s \in {None, lastSid'} :
            call' = [call EXCEPT ![t].pc = "link", ![t].timeout = l, ![t].s = s]
      BY <2>2
    <3>3. CallTo(t, "subscribe", "link", call[t].c, s, call[t].id) /\ call'[t].timeout = l
      <4>1. l \in {"finite", "infinite"} /\ s \in Sid \cup {None}
        BY <3>1, CtrlptConstants
      <4> QED BY <1>1, <3>2, <4>1, AnsweredTo DEF Pcs
    <3>4. /\ UNCHANGED <<ClientSubList, RenewEventId, timers, renewJobs, lastId>> /\ Rest
          /\ UNCHANGED <<scan, accepted, refused, calledBack, readers, dangling>>
      BY <1>5 DEF SubscribeNet, Rest, Steady, mishaps, locks
    <3>5. Granted(t)
      BY <1>1, <2>2, <3>3, <3>4 DEF Granted
    <3>6. lease' \in [Sid -> {"finite", "infinite"}]
      BY <2>2, CtrlptConstants, TypesFields
    <3>7. /\ ev' \in [Sid -> {"none", "sent", "look", "wait", "again", "callback", "done"}]
          /\ \A s1 \in Sid : ev'[s1] \in {"wait", "again", "callback"} => scan'[s1] # {}
      BY <2>2, <3>4 DEF Types, TypeOK
    <3>8. lastSid' \in 0 .. MaxSubs
      BY <3>1, ConstantTypes
    <3>9. CallsTyped'
      BY <3>3 DEF CallTo
    <3>10. Types'
      BY <3>4, <3>6, <3>7, <3>8, <3>9 DEF Types, TypeOK, CallsTyped, Rest, Steady
    <3> QED BY <3>5, <3>10
  <2> QED BY <1>5, <2>1, <2>2 DEF SubscribeNet
<1> QED BY <1>2, <1>3, <1>4, <1>5

LEMMA LinkStep ==
  ASSUME Types, LinkAlone, NEW t \in Threads, SubscribeLink(t)
  PROVE  Types' /\ (Quiet(t) \/ Linked(t))
<1> DEFINE c == call[t].c
           s == call[t].s
<1>1. /\ Links(call[t]) /\ CallsTyped /\ ~Busy(call[t]) /\ s \in Sid \cup {None}
  BY TypesFields DEF SubscribeLink, At, Links, Busy, Renews, CallsTyped, CallRecs
<1>2. CallTo(t, "idle", "", None, None, -1) /\ CallsTyped'
  BY <1>1, ReturnTo DEF SubscribeLink, CallTo
<1>3. Steady /\ UNCHANGED <<lease, renewJobs, lastSid>>
  BY DEF SubscribeLink, Steady
<1>6. Kept
  <2>1. UNCHANGED <<ev, scan, accepted, refused, valid, calledBack, readers, overlapped>>
    BY DEF SubscribeLink, events
  <2>2. s # None => s \in Sid
    BY <1>1
  <2>3. dropped' \subseteq dropped \cup (IF s = None THEN {} ELSE {s}) /\ dangling' \in {TRUE, dangling}
    <3> HIDE DEF s, c
    <3> QED BY DEF SubscribeLink, ScheduleGenaAutoRenew, mishaps, s, c
  <2> QED BY <2>1, <2>2, <2>3, TypesFields DEF Kept
<1>4. CASE s = None \/ c \notin valid
  <2>1. Held
    BY <1>3, <1>4 DEF SubscribeLink, Held, Steady, mishaps
  <2>2. Types'
    BY <1>2, <1>6, <2>1, HeldTypes
  <2> QED BY <1>1, <1>2, <1>6, <2>1, <2>2 DEF Quiet, Kept
<1>5. CASE s # None /\ c \in valid
  <2>1. /\ ClientSubList' = [ClientSubList EXCEPT ![c] = @ \cup {s}]
        /\ \/ ScheduleGenaAutoRenew(c, s, call[t].timeout, timers)
           \/ dropped' = dropped \cup {s} /\ UNCHANGED <<RenewEventId, timers, lastId>>
    BY <1>5 DEF SubscribeLink
  <2>2. c \in Clients /\ s \in Sid
    BY <1>1, <1>5, TypesFields
  <2>3. Linked(t)
    BY <1>1, <1>2, <1>3, <1>5, <2>1 DEF Linked
  <2> HIDE DEF c, s
  <2>4. /\ RenewEventId' \in [Sid -> {-1} \cup 1 .. MaxEvents]
        /\ timers' \subseteq (1 .. MaxEvents) \X Clients \X Sid
        /\ lastId' \in 0 .. MaxEvents
    BY <2>1, <2>2, ScheduleTypes, TypesFields
  <2>5. Types'
    BY <1>2, <1>3, <1>6, <2>1, <2>2, <2>4, TypesFrom, TypesFields
  <2> QED BY <2>3, <2>5
<1> QED BY <1>4, <1>5


\* Cancelling a subscription.
LEMMA UnSubscribeStep ==
  ASSUME Types, NEW t \in Threads, UnSubscribeNet(t) \/ UnSubscribeEnd(t)
  PROVE  Types' /\ (Quiet(t) \/ Cancelled(t) \/ Removed(t))
<1> DEFINE c == call[t].c
           s == call[t].s
<1>1. call[t].op = "unsubscribe" /\ CallsTyped
  BY TypesFields DEF UnSubscribeNet, UnSubscribeEnd, At
<1>2. Kept /\ Rest /\ UNCHANGED <<lease, renewJobs, lastSid, lastId>>
  BY TypesFields DEF UnSubscribeNet, UnSubscribeEnd, Kept, Rest, Steady, mishaps, events, locks
<1>3. CASE UnSubscribeNet(t)
  <2>1. /\ timers' = Without(call[t].id) /\ UNCHANGED <<ClientSubList, RenewEventId>>
        /\ Goto(t, "end")
    BY <1>3 DEF UnSubscribeNet
  <2>2. CallTo(t, "unsubscribe", "end", call[t].c, call[t].s, call[t].id)
    BY <1>1, <2>1, GotoTo DEF Pcs
  <2>3. Types'
    BY <1>2, <2>1, <2>2, TypesFrom, TypesFields DEF CallTo, Without
  <2> QED BY <1>1, <1>2, <2>1, <2>2, <2>3 DEF Cancelled
<1>4. CASE UnSubscribeEnd(t)
  <2>1. CallTo(t, "idle", "", None, None, -1) /\ CallsTyped'
    BY <1>1, <1>4, ReturnTo DEF UnSubscribeEnd, CallTo
  <2>2. CASE c \in valid
    <3>1. RemoveClientSub(c, s, timers)
      BY <1>4, <2>2 DEF UnSubscribeEnd
    <3>2. Removed(t)
      BY <1>2, <2>1, <2>2, <3>1 DEF Removed, Removes
    <3> HIDE DEF c, s
    <3>3. Types'
      BY <1>2, <2>1, <3>1, RemoveTypes, TypesFrom, TypesFields
    <3> QED BY <3>2, <3>3
  <2>3. CASE c \notin valid
    <3>1. Held
      BY <1>2, <1>4, <2>3 DEF UnSubscribeEnd, Held, Rest, Steady
    <3>2. Types'
      BY <1>2, <2>1, <3>1, HeldTypes
    <3> QED BY <1>2, <2>1, <2>3, <3>1, <3>2 DEF Quiet, Kept
  <2> QED BY <2>2, <2>3
<1> QED BY <1>3, <1>4

\* A renewal.
LEMMA RenewNetStep ==
  ASSUME Types, NEW t \in Threads, RenewNet(t)
  PROVE  Types' /\ Answered(t)
<1>1. Renews(call[t]) /\ call[t].op = "renew" /\ CallsTyped
  BY TypesFields DEF RenewNet, At, Renews
<1>2. /\ Kept /\ Rest
      /\ UNCHANGED <<ClientSubList, RenewEventId, timers, renewJobs, lastSid, lastId>>
  BY TypesFields DEF RenewNet, Kept, Rest, Steady, mishaps, events, locks
<1>3. PICK l \in Leases :
        /\ lease' = [lease EXCEPT ![call[t].s] = l]
        /\ \E ok \in BOOLEAN : call' = [call EXCEPT ![t].pc = "end", ![t].ok = ok, ![t].timeout = l]
  BY DEF RenewNet
<1>4. CallTo(t, "renew", "end", call[t].c, call[t].s, call[t].id) /\ call'[t].timeout = l
  <2>1. l \in {"finite", "infinite"}
    BY CtrlptConstants
  <2>2. PICK ok \in BOOLEAN :
          call' = [call EXCEPT ![t].pc = "end", ![t].ok = ok, ![t].timeout = l]
    BY <1>3
  <2>3. "end" \in Pcs
    BY DEF Pcs
  <2>4. CallTo(t, call[t].op, "end", call[t].c, call[t].s, call[t].id) /\ call'[t].timeout = l
    BY <1>1, <2>1, <2>2, <2>3, RenewedTo
  <2> QED BY <1>1, <2>4
<1>5. lease' \in [Sid -> {"finite", "infinite"}]
  BY <1>3, CtrlptConstants, TypesFields
<1>6. Types'
  BY <1>2, <1>4, <1>5, TypesFrom, TypesFields DEF CallTo
<1> QED BY <1>1, <1>2, <1>3, <1>4, <1>6 DEF Answered

LEMMA RenewEndStep ==
  ASSUME Types, NEW t \in Threads, RenewEnd(t)
  PROVE  Types' /\ (Quiet(t) \/ Removed(t) \/ Renewed(t))
<1> DEFINE c == call[t].c
           s == call[t].s
<1>1. Renews(call[t]) /\ call[t].op = "renew" /\ CallsTyped /\ s \in Sid \cup {None}
  BY TypesFields DEF RenewEnd, At, Renews, CallsTyped, CallRecs
<1>2. Steady /\ UNCHANGED <<lease, renewJobs, lastSid>> /\ call[t].pc = "end"
  BY DEF RenewEnd, Steady, At
<1>3. Kept
  <2>1. UNCHANGED <<ev, scan, accepted, refused, valid, calledBack, readers, overlapped, dangling>>
    BY DEF RenewEnd, events, locks
  <2>2. dropped' \subseteq dropped
    <3> HIDE DEF c, s
    <3> QED BY DEF RenewEnd, RenewalFails, ScheduleGenaAutoRenew, c, s
  <2> QED BY <2>1, <2>2, TypesFields DEF Kept
<1>4. Return(t) => CallTo(t, "idle", "", None, None, -1)
  BY <1>1, ReturnTo
<1>5. CASE c \in valid /\ RenewalFails(t)
  <2>1. /\ RemoveClientSub(c, s, timers) /\ UNCHANGED <<lastId, dropped>>
        /\ Goto(t, "failed") \/ Return(t)
    BY <1>5 DEF RenewalFails
  <2>2. \/ CallTo(t, "idle", "", None, None, -1)
        \/ CallTo(t, "renew", "failed", c, s, call[t].id)
    BY <1>1, <1>4, <2>1, GotoTo DEF Pcs
  <2>3. Removed(t)
    BY <1>1, <1>2, <1>5, <2>1, <2>2 DEF Removed, Removes, Rest
  <2>4. CallsTyped'
    BY <2>2 DEF CallTo
  <2> HIDE DEF c, s
  <2>5. Types'
    BY <1>2, <1>3, <2>1, <2>4, RemoveTypes, TypesFrom, TypesFields
  <2> QED BY <2>3, <2>5
<1>6. CASE /\ call[t].ok /\ RenewFound(c, s) /\ Return(t)
           /\ ScheduleGenaAutoRenew(c, s, call[t].timeout, timers) /\ UNCHANGED ClientSubList
  <2>1. c \in valid /\ s \in ClientSubList[c]
    BY <1>6 DEF RenewFound
  <2>2. c \in Clients /\ s \in Sid
    BY <2>1, TypesFields
  <2>3. CallTo(t, "idle", "", None, None, -1) /\ CallsTyped'
    BY <1>4, <1>6 DEF CallTo
  <2>4. Renewed(t)
    BY <1>1, <1>2, <1>6, <2>1, <2>3 DEF Renewed
  <2> HIDE DEF c, s
  <2>5. Types'
    BY <1>2, <1>3, <1>6, <2>2, <2>3, ScheduleTypes, TypesFrom, TypesFields
  <2> QED BY <2>4, <2>5
<1>7. CASE /\ c \notin valid \/ (call[t].ok /\ ~RenewFound(c, s))
           /\ Return(t)
           /\ UNCHANGED <<ClientSubList, timers, RenewEventId, lastId, dropped>>
  <2>1. CallTo(t, "idle", "", None, None, -1) /\ CallsTyped'
    BY <1>4, <1>7 DEF CallTo
  <2>2. Held
    BY <1>2, <1>7 DEF Held, Steady
  <2>3. c \notin valid \/ s \notin ClientSubList[c]
    BY <1>7 DEF RenewFound
  <2>4. Types'
    BY <1>3, <2>1, <2>2, HeldTypes
  <2> QED BY <1>3, <2>1, <2>2, <2>3, <2>4 DEF Quiet, Kept
<1> QED BY <1>5, <1>6, <1>7 DEF RenewEnd, RenewFound

LEMMA FailedStep ==
  ASSUME Types, NEW t \in Threads, AutoRenewFailed(t) \/ AutoRenewCallback(t)
  PROVE  Types' /\ Quiet(t)
<1>1. call[t].op = "renew" /\ ~Busy(call[t]) /\ CallsTyped
  BY TypesFields DEF AutoRenewFailed, AutoRenewCallback, At, Busy, Renews
<1>2. Held
  BY DEF AutoRenewFailed, AutoRenewCallback, Held, subs, mishaps
<1>3. \/ AutoRenewFailed(t) /\ Goto(t, "callback")
      \/ Return(t)
  BY DEF AutoRenewFailed, AutoRenewCallback
<1>4. \/ CallTo(t, "renew", "callback", call[t].c, call[t].s, call[t].id)
      \/ CallTo(t, "idle", "", None, None, -1)
  BY <1>1, <1>3, GotoTo, ReturnTo DEF Pcs
<1>5. calledBack' \subseteq Clients
  <2>1. CASE AutoRenewFailed(t)
    BY <2>1, TypesFields DEF AutoRenewFailed
  <2>2. CASE AutoRenewCallback(t)
    <3>1. call[t].c \in Clients
      BY <1>1 DEF CallsTyped, CallRecs
    <3> QED BY <2>2, <3>1, TypesFields DEF AutoRenewCallback
  <2> QED BY <2>1, <2>2
<1>6. Kept
  BY <1>5, TypesFields DEF AutoRenewFailed, AutoRenewCallback, Kept, subs, mishaps, locks, events
<1>7. Types'
  BY <1>2, <1>4, <1>6, HeldTypes DEF CallTo
<1> QED BY <1>1, <1>2, <1>4, <1>6, <1>7 DEF Quiet, Kept


LEMMA UnregisterStep ==
  ASSUME Types, LinkAlone, NEW t \in Threads,
         UnregisterLoop(t) \/ UnregisterNet(t) \/ UnregisterFree(t)
  PROVE  Types' /\ (Quiet(t) \/ Removed(t))
<1> DEFINE c == call[t].c
<1>1. call[t].op = "unregister" /\ CallsTyped /\ NoSub(call[t]) /\ ~Busy(call[t]) /\ call[t].s = None
  BY TypesFields DEF UnregisterLoop, UnregisterNet, UnregisterFree, At, NoSub, Busy, Renews, LinkAlone
<1>2. Kept /\ UNCHANGED <<lease, renewJobs, lastSid, lastId, dropped>>
  BY TypesFields DEF UnregisterLoop, UnregisterNet, UnregisterFree, Kept, subs, mishaps, events, locks
<1>3. CASE UnregisterLoop(t)
  <2>1. CASE c \in valid /\ ClientSubList[c] # {}
    <3>1. PICK s : RemoveClientSub(c, s, timers)
      BY <1>3, <2>1 DEF UnregisterLoop
    <3>2. CallTo(t, "unregister", "net", call[t].c, None, call[t].id)
      BY <1>1, <1>3, <2>1, GotoTo DEF UnregisterLoop, Pcs
    <3>3. Rest
      BY <1>2, <1>3 DEF UnregisterLoop, Rest, Steady
    <3>4. Removed(t)
      BY <1>1, <1>2, <2>1, <3>1, <3>2, <3>3 DEF Removed, Removes
    <3> HIDE DEF c
    <3>5. Types'
      BY <1>2, <3>1, <3>2, RemoveTypes, TypesFrom, TypesFields DEF CallTo
    <3> QED BY <3>4, <3>5
  <2>2. CASE ~(c \in valid /\ ClientSubList[c] # {})
    <3>1. Held
      BY <1>2, <1>3, <2>2 DEF UnregisterLoop, Held
    <3>2. (\E p \in Pcs : Goto(t, p)) \/ Return(t)
      BY <1>3, <2>2 DEF UnregisterLoop, Pcs
    <3> QED BY <1>1, <1>2, <3>1, <3>2, QuietCall
  <2> QED BY <2>1, <2>2
<1>4. CASE UnregisterNet(t)
  <2>1. Held
    BY <1>4 DEF UnregisterNet, Held, subs, mishaps
  <2>2. \E p \in Pcs : Goto(t, p)
    BY <1>4 DEF UnregisterNet, Pcs
  <2> QED BY <1>1, <1>2, <2>1, <2>2, QuietCall
<1>5. CASE UnregisterFree(t)
  <2>1. Held
    BY <1>5 DEF UnregisterFree, Held, mishaps
  <2>2. Return(t)
    BY <1>5 DEF UnregisterFree
  <2> QED BY <1>1, <1>2, <2>1, <2>2, QuietCall
<1> QED BY <1>3, <1>4, <1>5

LEMMA DueStep ==
  ASSUME Types, NEW e \in timers, RenewalDue(e)
  PROVE  Types' /\ Due(e)
<1>1. /\ timers' = timers \ {e} /\ Steady
      /\ \/ renewJobs' = renewJobs \cup {e} /\ UNCHANGED dropped
         \/ dropped' = dropped \cup {e[3]} /\ UNCHANGED renewJobs
      /\ UNCHANGED <<ClientSubList, RenewEventId, lease, lastSid, lastId, call>>
  BY DEF RenewalDue, Steady
<1>3. Kept
  <2>1. e[3] \in Sid
    BY TypesFields
  <2> QED BY <1>1, <2>1, TypesFields DEF RenewalDue, Kept, Steady, locks, events
<1>2. Types'
  BY <1>1, <1>3, TypesFrom, TypesFields DEF CallsTyped
<1> QED BY <1>1, <1>2 DEF Due

\* What a first event leaves alone.
NotifyRest == Held /\ UNCHANGED <<valid, call>>

LEMMA NotifyStep ==
  ASSUME Types, NEW s \in Sid, Notify(s)
  PROVE  Types' /\ NotifyRest
<1>1. NotifyRest /\ UNCHANGED <<readers, dangling>> /\ accepted' \subseteq Sid /\ refused' \subseteq Sid
  <2>1. UNCHANGED <<subs, readers, renewJobs, call, lastSid, lastId>>
    BY DEF Notify, NotifyStart, NotifyLook, NotifyWait, NotifyAgain, NotifyCallback, NotifyEnd, locks
  <2>2. accepted' \subseteq accepted \cup {s} /\ refused' \subseteq refused \cup {s}
    <3>1. CASE NotifyStart(s) \/ NotifyEnd(s)
      BY <3>1 DEF NotifyStart, NotifyEnd
    <3>2. CASE NotifyLook(s) \/ NotifyWait(s) \/ NotifyAgain(s)
      BY <3>2 DEF NotifyLook, NotifyWait, NotifyAgain
    <3>3. CASE NotifyCallback(s)
      BY <3>3 DEF NotifyCallback
    <3> QED BY <3>1, <3>2, <3>3 DEF Notify
  <2> QED BY <2>1, <2>2 DEF NotifyRest, Held, subs, mishaps, Types, TypeOK
<1>2. ev[s] \in {"wait", "again", "callback"} \/ scan[s] # {} => Least(scan[s]) \in Clients
  <2>1. scan[s] \subseteq Clients /\ scan[s] \subseteq Nat
    BY ConstantTypes DEF Types
  <2>2. scan[s] # {} => Least(scan[s]) \in scan[s]
    BY <2>1, LeastIn
  <2> QED BY <2>1, <2>2 DEF Types
<1>3. calledBack' \subseteq Clients
  BY <1>2, TypesFields DEF Notify, NotifyStart, NotifyLook, NotifyWait, NotifyAgain,
     NotifyCallback, NotifyEnd
<1> DEFINE Evs == {"none", "sent", "look", "wait", "again", "callback", "done"}
<1>4. ev \in [Sid -> Evs] /\ scan \in [Sid -> SUBSET Clients]
      /\ \A r \in Sid : ev[r] \in {"wait", "again", "callback"} => scan[r] # {}
  BY DEF Types, TypeOK
<1>5. /\ ev' \in [Sid -> Evs] /\ scan' \in [Sid -> SUBSET Clients]
      /\ \A r \in Sid : ev'[r] \in {"wait", "again", "callback"} => scan'[r] # {}
  <2>1. CASE NotifyStart(s)
    BY <1>4, <2>1, TypesFields DEF NotifyStart
  <2>2. CASE NotifyLook(s)
    BY <1>4, <2>2 DEF NotifyLook, NotFound, ScanOn
  <2>3. CASE NotifyWait(s)
    BY <1>4, <2>3 DEF NotifyWait
  <2>4. CASE NotifyAgain(s)
    BY <1>4, <2>4 DEF NotifyAgain, ScanOn
  <2>5. CASE NotifyCallback(s)
    BY <1>4, <2>5 DEF NotifyCallback, ScanOn
  <2>6. CASE NotifyEnd(s)
    BY <1>4, <2>6 DEF NotifyEnd
  <2> QED BY <2>1, <2>2, <2>3, <2>4, <2>5, <2>6 DEF Notify
<1> QED BY <1>1, <1>3, <1>5 DEF Types, TypeOK, NotifyRest, Held, CallsTyped

-----------------------------------------------------------------------------
(* Who knows a subscription or a timer event *)

\* A step makes at most one new subscription, which handle d gets, and one new timer
\* event, for subscription r.  All else has been known before.
Grows(d, r) ==
  /\ lastSid' \in {lastSid, lastSid + 1} /\ lastId' \in {lastId, lastId + 1}
  /\ \A c \in Owner : \A s \in Sid :
       Uses(c, s)' => Uses(c, s) \/ (lastSid' = lastSid + 1 /\ s = lastSid' /\ c = d)
  /\ \A i \in 1 .. MaxEvents : \A s \in Sid :
       UsesId(i, s)' => UsesId(i, s) \/ (lastId' = lastId + 1 /\ i = lastId' /\ s = r)

KnownOnce == Fresh /\ OneClient /\ OneSub

LEMMA GrowsKnown ==
  ASSUME Types, KnownOnce, NEW d, NEW r, Grows(d, r)
  PROVE  KnownOnce'
<1>1. lastSid \in Nat /\ lastId \in Nat /\ Sid \subseteq Nat /\ 1 .. MaxEvents \subseteq Nat
  BY TypesFields, ConstantTypes
<1>2. Fresh'
  <2>1. ASSUME NEW s \in Sid, s > lastSid', NEW c \in Owner PROVE ~Uses(c, s)'
    <3>1. s > lastSid /\ s # lastSid'
      BY <1>1, <2>1 DEF Grows
    <3> QED BY <2>1, <3>1 DEF Grows, KnownOnce, Fresh
  <2>2. ASSUME NEW i \in 1 .. MaxEvents, i > lastId', NEW s \in Sid PROVE ~UsesId(i, s)'
    <3>1. i > lastId /\ i # lastId'
      BY <1>1, <2>2 DEF Grows
    <3> QED BY <2>2, <3>1 DEF Grows, KnownOnce, Fresh
  <2> QED BY <2>1, <2>2 DEF Fresh, Owner, Sid
<1>3. OneClient'
  <2>1. ASSUME NEW s \in Sid, NEW c1 \in Owner, NEW c2 \in Owner, Uses(c1, s)', Uses(c2, s)'
        PROVE  c1 = c2
    <3>1. CASE lastSid' = lastSid + 1 /\ s = lastSid'
      <4>1. ~Uses(c1, s) /\ ~Uses(c2, s)
        BY <1>1, <3>1 DEF KnownOnce, Fresh
      <4> QED BY <2>1, <4>1 DEF Grows
    <3>2. CASE ~(lastSid' = lastSid + 1 /\ s = lastSid')
      BY <2>1, <3>2 DEF Grows, KnownOnce, OneClient
    <3> QED BY <3>1, <3>2
  <2> QED BY <2>1 DEF OneClient, Owner, Sid
<1>4. OneSub'
  <2>1. ASSUME NEW i \in 1 .. MaxEvents, NEW s1 \in Sid, NEW s2 \in Sid,
               UsesId(i, s1)', UsesId(i, s2)'
        PROVE  s1 = s2
    <3>1. CASE lastId' = lastId + 1 /\ i = lastId'
      <4>1. ~UsesId(i, s1) /\ ~UsesId(i, s2)
        BY <1>1, <3>1 DEF KnownOnce, Fresh
      <4> QED BY <2>1, <4>1 DEF Grows
    <3>2. CASE ~(lastId' = lastId + 1 /\ i = lastId')
      BY <2>1, <3>2 DEF Grows, KnownOnce, OneSub
    <3> QED BY <3>1, <3>2
  <2> QED BY <2>1 DEF OneSub, Sid
<1> QED BY <1>2, <1>3, <1>4 DEF KnownOnce

\* The fields of a call are of the types the invariant needs.
LEMMA CallFields ==
  ASSUME CallsTyped, NEW t \in Threads
  PROVE  /\ call[t].c \in Owner /\ call[t].s \in Sid \cup {None}
         /\ call[t].op # "idle" => call[t].c \in Clients
         /\ call[t].op \in {"unsubscribe", "renew"} => call[t].s \in Sid
         /\ call[t].op # "unsubscribe" => call[t].id = -1
BY DEF CallsTyped, CallRecs, Owner

\* What is known of a subscription comes from one of these places.
LEMMA UsesFrom ==
  ASSUME NEW c \in Owner, NEW s \in Sid
  PROVE  /\ c \in Clients /\ s \in ClientSubList[c] => Uses(c, s)
         /\ \A t \in Threads : call[t].c = c /\ call[t].s = s => Uses(c, s)
         /\ \A e \in Pending : e[2] = c /\ e[3] = s => Uses(c, s)
         /\ \A i : RenewEventId[s] = i => UsesId(i, s)
         /\ \A i : \A t \in Threads : call[t].id = i /\ call[t].s = s => UsesId(i, s)
         /\ \A i : \A e \in Pending : e[1] = i /\ e[3] = s => UsesId(i, s)
BY DEF Uses, UsesId

\* A subscription the lists, the calls and the events of the next state know was
\* known if all three have lost what they differ in.
LEMMA ShrinkGrows ==
  ASSUME Types,
         UNCHANGED <<lastSid, lastId>>,
         \A c \in Clients : ClientSubList'[c] \subseteq ClientSubList[c],
         \A s \in Sid : RenewEventId'[s] \in {RenewEventId[s], -1},
         Pending' \subseteq Pending,
         \A u \in Threads : call'[u] # call[u] =>
           \A s \in Sid : call'[u].s = s =>
             /\ \A c \in Owner : call'[u].c = c => Uses(c, s)
             /\ \A i \in 1 .. MaxEvents : call'[u].id = i => UsesId(i, s)
  PROVE  Grows(None, None)
<1>1. ASSUME NEW c \in Owner, NEW s \in Sid, Uses(c, s)' PROVE Uses(c, s)
  <2>1. CASE c \in Clients /\ s \in ClientSubList'[c]
    BY <2>1 DEF Uses
  <2>2. ASSUME NEW u \in Threads, call'[u].c = c, call'[u].s = s PROVE Uses(c, s)
    BY <2>2 DEF Uses
  <2>3. ASSUME NEW e \in Pending', e[2] = c, e[3] = s PROVE Uses(c, s)
    BY <2>3 DEF Uses
  <2> QED BY <1>1, <2>1, <2>2, <2>3 DEF Uses
<1>2. ASSUME NEW i \in 1 .. MaxEvents, NEW s \in Sid, UsesId(i, s)' PROVE UsesId(i, s)
  <2>0. i # -1
    BY ConstantTypes
  <2>1. CASE RenewEventId'[s] = i
    BY <2>0, <2>1 DEF UsesId
  <2>2. ASSUME NEW u \in Threads, call'[u].id = i, call'[u].s = s PROVE UsesId(i, s)
    BY <2>2 DEF UsesId
  <2>3. ASSUME NEW e \in Pending', e[1] = i, e[3] = s PROVE UsesId(i, s)
    BY <2>3 DEF UsesId
  <2> QED BY <1>2, <2>1, <2>2, <2>3 DEF UsesId
<1> QED BY <1>1, <1>2 DEF Grows


\* A call that keeps its subscription brings nothing new.
LEMMA SameUses ==
  ASSUME NEW t \in Threads,
         \/ call'[t].s = None
         \/ call'[t].s = call[t].s /\ call'[t].c = call[t].c /\ call'[t].id = call[t].id
  PROVE  \A s \in Sid : call'[t].s = s =>
             /\ \A c \in Owner : call'[t].c = c => Uses(c, s)
             /\ \A i \in 1 .. MaxEvents : call'[t].id = i => UsesId(i, s)
<1>1. ASSUME NEW s \in Sid, call'[t].s = s, NEW c \in Owner, call'[t].c = c PROVE Uses(c, s)
  BY <1>1, ConstantTypes DEF Uses
<1>2. ASSUME NEW s \in Sid, call'[t].s = s, NEW i \in 1 .. MaxEvents, call'[t].id = i PROVE UsesId(i, s)
  BY <1>2, ConstantTypes DEF UsesId
<1> QED BY <1>1, <1>2

LEMMA QuietGrows ==
  ASSUME Types, NEW t \in Threads, Quiet(t) PROVE Grows(None, None)
<1>1. /\ UNCHANGED <<lastSid, lastId, ClientSubList, RenewEventId>> /\ Pending' = Pending
  BY DEF Quiet, Held, Pending
<1>2. \A u \in Threads : u # t => call'[u] = call[u]
  BY DEF Quiet, CallTo
<1>3. \/ call'[t].s = None
      \/ call'[t].s = call[t].s /\ call'[t].c = call[t].c /\ call'[t].id = call[t].id
  BY DEF Quiet, CallTo
<1>4. \A s \in Sid : call'[t].s = s =>
             /\ \A c \in Owner : call'[t].c = c => Uses(c, s)
             /\ \A i \in 1 .. MaxEvents : call'[t].id = i => UsesId(i, s)
  BY <1>3, SameUses
<1> QED BY <1>1, <1>2, <1>4, ShrinkGrows

LEMMA CancelsGrows ==
  ASSUME Types, NEW t \in Threads, Cancels(t) PROVE Grows(None, None)
<1>1. /\ UNCHANGED <<lastSid, lastId, ClientSubList, RenewEventId>> /\ Pending' = Pending
  BY DEF Cancels, Held, Pending
<1>2. \A u \in Threads : u # t => call'[u] = call[u]
  BY DEF Cancels, CallTo
<1>3. PICK c \in valid : \E s \in ClientSubList[c] : CallTo(t, "unsubscribe", "net", c, s, RenewEventId[s])
  BY DEF Cancels
<1>4. PICK s \in ClientSubList[c] : CallTo(t, "unsubscribe", "net", c, s, RenewEventId[s])
  BY <1>3
<1>5. c \in Clients /\ c \in Owner /\ s \in Sid
  BY <1>3, <1>4, TypesFields DEF Owner
<1>6. Uses(c, s) /\ UsesId(RenewEventId[s], s)
  BY <1>4, <1>5, UsesFrom
<1>7. call'[t].c = c /\ call'[t].s = s /\ call'[t].id = RenewEventId[s]
  BY <1>4 DEF CallTo
<1> QED BY <1>1, <1>2, <1>6, <1>7, ShrinkGrows

LEMMA CancelledGrows ==
  ASSUME Types, NEW t \in Threads, Cancelled(t) PROVE Grows(None, None)
<1>1. /\ UNCHANGED <<lastSid, lastId, ClientSubList, RenewEventId>> /\ Pending' \subseteq Pending
  BY DEF Cancelled, Without, Pending
<1>2. \A u \in Threads : u # t => call'[u] = call[u]
  BY DEF Cancelled, CallTo
<1>3. call'[t].s = call[t].s /\ call'[t].c = call[t].c /\ call'[t].id = call[t].id
  BY DEF Cancelled, CallTo
<1> QED BY <1>1, <1>2, <1>3, SameUses, ShrinkGrows

LEMMA RemovedGrows ==
  ASSUME Types, NEW t \in Threads, Removed(t) PROVE Grows(None, None)
<1>c. PICK c \in valid : \E s : Removes(t, c, s)
  BY DEF Removed
<1>s. PICK s : Removes(t, c, s)
  BY <1>c
<1>1. /\ RemoveClientSub(c, s, timers)
      /\ \/ \E op \in {"idle", "unregister"} : \E pc, d, id : CallTo(t, op, pc, d, None, id)
         \/ call[t].op = "renew" /\ CallTo(t, "renew", "failed", call[t].c, call[t].s, call[t].id)
      /\ UNCHANGED <<lease, renewJobs, lastSid, lastId>>
  BY <1>s DEF Removes
<1>2. /\ \A x \in Clients : ClientSubList'[x] \subseteq ClientSubList[x]
      /\ \A r \in Sid : RenewEventId'[r] \in {RenewEventId[r], -1}
      /\ Pending' \subseteq Pending
  BY <1>1, TypesFields DEF RemoveClientSub, Pending
<1>3. \A u \in Threads : u # t => call'[u] = call[u]
  BY <1>1 DEF CallTo
<1>4. \/ call'[t].s = None
      \/ call'[t].s = call[t].s /\ call'[t].c = call[t].c /\ call'[t].id = call[t].id
  BY <1>1 DEF CallTo
<1>5. \A r \in Sid : call'[t].s = r =>
             /\ \A x \in Owner : call'[t].c = x => Uses(x, r)
             /\ \A i \in 1 .. MaxEvents : call'[t].id = i => UsesId(i, r)
  BY <1>4, SameUses
<1> QED BY <1>1, <1>2, <1>3, <1>5, ShrinkGrows

LEMMA BeginsGrows ==
  ASSUME Types, NEW t \in Threads, Begins(t) PROVE Grows(None, None)
<1>1. PICK c \in valid : \E s \in ClientSubList[c] :
        /\ timers' = Without(RenewEventId[s])
        /\ RenewEventId' = [RenewEventId EXCEPT ![s] = -1]
        /\ CallTo(t, "renew", "net", c, s, -1)
        /\ renewJobs' \subseteq renewJobs
        /\ UNCHANGED <<ClientSubList, lastSid, lastId>>
  BY DEF Begins
<1>2. PICK s \in ClientSubList[c] :
        /\ timers' = Without(RenewEventId[s])
        /\ RenewEventId' = [RenewEventId EXCEPT ![s] = -1]
        /\ CallTo(t, "renew", "net", c, s, -1)
        /\ renewJobs' \subseteq renewJobs
        /\ UNCHANGED <<ClientSubList, lastSid, lastId>>
  BY <1>1
<1>3. c \in Clients /\ c \in Owner /\ s \in Sid
  BY <1>1, <1>2, TypesFields DEF Owner
<1>4. Uses(c, s)
  BY <1>2, <1>3, UsesFrom
<1>5. call'[t].c = c /\ call'[t].s = s /\ call'[t].id = -1
  BY <1>2 DEF CallTo
<1>6. \A u \in Threads : u # t => call'[u] = call[u]
  BY <1>2 DEF CallTo
<1>7. /\ \A r \in Sid : RenewEventId'[r] \in {RenewEventId[r], -1}
      /\ Pending' \subseteq Pending
  BY <1>2, TypesFields DEF Without, Pending
<1>8. \A i \in 1 .. MaxEvents : i # -1
  BY ConstantTypes
<1> QED BY <1>2, <1>4, <1>5, <1>6, <1>7, <1>8, ShrinkGrows

LEMMA AnsweredGrows ==
  ASSUME Types, NEW t \in Threads, Answered(t) PROVE Grows(None, None)
<1>1. /\ UNCHANGED <<lastSid, lastId, ClientSubList, RenewEventId>> /\ Pending' = Pending
  BY DEF Answered, Pending
<1>2. \A u \in Threads : u # t => call'[u] = call[u]
  BY DEF Answered, CallTo
<1>3. call'[t].s = call[t].s /\ call'[t].c = call[t].c /\ call'[t].id = call[t].id
  BY DEF Answered, CallTo
<1> QED BY <1>1, <1>2, <1>3, SameUses, ShrinkGrows

LEMMA EventGrows ==
  ASSUME Types, NEW e, Due(e) \/ Moot(e) PROVE Grows(None, None)
<1>1. /\ UNCHANGED <<lastSid, lastId, ClientSubList, RenewEventId, call>> /\ Pending' \subseteq Pending
  BY DEF Due, Moot, Pending
<1> QED BY <1>1, ShrinkGrows

LEMMA GrantedGrows ==
  ASSUME Types, NEW t \in Threads, Granted(t) PROVE \E d, r : Grows(d, r)
<1>1. lastSid' = lastSid + 1 /\ UNCHANGED <<lastId, ClientSubList, RenewEventId>> /\ Pending' = Pending
  BY DEF Granted, Pending
<1>2. PICK x \in {None, lastSid'} : CallTo(t, "subscribe", "link", call[t].c, x, call[t].id)
  BY DEF Granted
<1>3. /\ call'[t].s \in {None, lastSid'} /\ call'[t].c = call[t].c /\ call'[t].id = -1
      /\ \A u \in Threads : u # t => call'[u] = call[u]
  BY <1>2, CallFields, TypesFields DEF CallTo, Granted, NoSub
<1>4. ASSUME NEW c \in Owner, NEW s \in Sid, Uses(c, s)'
      PROVE  Uses(c, s) \/ (s = lastSid' /\ c = call[t].c)
  <2>1. CASE c \in Clients /\ s \in ClientSubList'[c]
    BY <1>1, <2>1 DEF Uses
  <2>2. ASSUME NEW u \in Threads, call'[u].c = c, call'[u].s = s
        PROVE  Uses(c, s) \/ (s = lastSid' /\ c = call[t].c)
    BY <1>3, <2>2, ConstantTypes DEF Uses
  <2>3. ASSUME NEW e \in Pending', e[2] = c, e[3] = s PROVE Uses(c, s)
    BY <1>1, <2>3 DEF Uses
  <2> QED BY <1>4, <2>1, <2>2, <2>3 DEF Uses
<1>5. ASSUME NEW i \in 1 .. MaxEvents, NEW s \in Sid, UsesId(i, s)' PROVE UsesId(i, s)
  <2>0. i # -1
    BY ConstantTypes
  <2>1. CASE RenewEventId'[s] = i
    BY <1>1, <2>1 DEF UsesId
  <2>2. ASSUME NEW u \in Threads, call'[u].id = i, call'[u].s = s PROVE UsesId(i, s)
    BY <1>3, <2>0, <2>2 DEF UsesId
  <2>3. ASSUME NEW e \in Pending', e[1] = i, e[3] = s PROVE UsesId(i, s)
    BY <1>1, <2>3 DEF UsesId
  <2> QED BY <1>5, <2>1, <2>2, <2>3 DEF UsesId
<1> QED BY <1>1, <1>4, <1>5 DEF Grows

\* A subscription's next renewal is scheduled by the call that has it.
LEMMA ScheduleGrows ==
  ASSUME Types, NEW t \in Threads, Linked(t) \/ Renewed(t) PROVE \E d, r : Grows(d, r)
<1> DEFINE c == call[t].c
           s == call[t].s
<1>1. /\ \/ ScheduleGenaAutoRenew(c, s, call[t].timeout, timers)
         \/ UNCHANGED <<RenewEventId, timers, lastId>>
      /\ UNCHANGED <<renewJobs, lastSid>>
      /\ \A x \in Clients : \A r \in Sid :
           r \in ClientSubList'[x] => r \in ClientSubList[x] \/ (x = c /\ r = s)
      /\ CallTo(t, "idle", "", None, None, -1)
  <2>1. CASE Linked(t)
    <3>1. \A x \in Clients : \A r \in Sid :
            r \in ClientSubList'[x] => r \in ClientSubList[x] \/ (x = c /\ r = s)
      BY <2>1, TypesFields DEF Linked
    <3> QED BY <2>1, <3>1 DEF Linked
  <2>2. CASE Renewed(t)
    BY <2>2 DEF Renewed
  <2> QED BY <2>1, <2>2
<1>2. c \in Owner /\ s \in Sid /\ Uses(c, s)
  <2>1. c \in Owner /\ s \in Sid
    BY TypesFields, CallFields DEF Linked, Renewed
  <2> QED BY <2>1, UsesFrom
<1>3. call'[t].s = None /\ \A u \in Threads : u # t => call'[u] = call[u]
  BY <1>1 DEF CallTo
<1> HIDE DEF c, s
<1>4. /\ lastId' \in {lastId, lastId + 1}
      /\ \A r \in Sid : \A i : RenewEventId'[r] = i =>
           RenewEventId[r] = i \/ (lastId' = lastId + 1 /\ i = lastId' /\ r = s)
      /\ \A e \in Pending' : e \in Pending \/ (lastId' = lastId + 1 /\ e = <<lastId', c, s>>)
  BY <1>1, TypesFields DEF ScheduleGenaAutoRenew, Pending
<1>5. ASSUME NEW x \in Owner, NEW r \in Sid, Uses(x, r)' PROVE Uses(x, r)
  <2>1. CASE x \in Clients /\ r \in ClientSubList'[x]
    BY <1>1, <1>2, <2>1 DEF Uses
  <2>2. ASSUME NEW u \in Threads, call'[u].c = x, call'[u].s = r PROVE Uses(x, r)
    BY <1>3, <2>2, ConstantTypes DEF Uses
  <2>3. ASSUME NEW e \in Pending', e[2] = x, e[3] = r PROVE Uses(x, r)
    <3>1. CASE e \in Pending
      BY <2>3, <3>1 DEF Uses
    <3>2. CASE e = <<lastId', c, s>>
      BY <1>2, <2>3, <3>2
    <3> QED BY <1>4, <3>1, <3>2
  <2> QED BY <1>5, <2>1, <2>2, <2>3 DEF Uses
<1>6. ASSUME NEW i \in 1 .. MaxEvents, NEW r \in Sid, UsesId(i, r)'
      PROVE  UsesId(i, r) \/ (lastId' = lastId + 1 /\ i = lastId' /\ r = s)
  <2>1. CASE RenewEventId'[r] = i
    BY <1>4, <2>1 DEF UsesId
  <2>2. ASSUME NEW u \in Threads, call'[u].id = i, call'[u].s = r PROVE UsesId(i, r)
    BY <1>3, <2>2, ConstantTypes DEF UsesId
  <2>3. ASSUME NEW e \in Pending', e[1] = i, e[3] = r
        PROVE  UsesId(i, r) \/ (lastId' = lastId + 1 /\ i = lastId' /\ r = s)
    BY <1>4, <2>3 DEF UsesId
  <2> QED BY <1>6, <2>1, <2>2, <2>3 DEF UsesId
<1>7. Grows(None, s)
  BY <1>1, <1>4, <1>5, <1>6 DEF Grows
<1> QED BY <1>7

LEMMA MoveKnown ==
  ASSUME Types, KnownOnce,
         \/ \E t \in Threads : Moves(t)
         \/ \E e : Due(e) \/ Moot(e)
         \/ NotifyRest
  PROVE  KnownOnce'
<1>1. CASE NotifyRest
  <2>1. Grows(None, None)
    BY <1>1, ShrinkGrows DEF NotifyRest, Held, Pending
  <2> QED BY <2>1, GrowsKnown
<1>2. ASSUME NEW t \in Threads, Moves(t) PROVE \E d, r : Grows(d, r)
  BY <1>2, QuietGrows, GrantedGrows, ScheduleGrows, CancelsGrows, CancelledGrows, RemovedGrows,
     BeginsGrows, AnsweredGrows DEF Moves
<1> QED BY <1>1, <1>2, EventGrows, GrowsKnown

-----------------------------------------------------------------------------
(* What the steps keep of the rest of the invariant *)

Alone == LinkAlone /\ Keeps /\ TimersOwned /\ RenewAlone

\* A subscription in the list of handle c belongs to c wherever else it is known.
LEMMA ListOwner ==
  ASSUME Types, KnownOnce, NEW c \in Clients, NEW s \in ClientSubList[c]
  PROVE  /\ s \in Sid
         /\ \A d \in Clients : s \in ClientSubList[d] => d = c
         /\ \A t \in Threads : call[t].s = s => call[t].c = c
         /\ \A e \in Pending : e[3] = s => e[2] = c
         /\ s <= lastSid
<1>1. s \in Sid /\ c \in Owner /\ Uses(c, s)
  BY TypesFields, UsesFrom DEF Owner
<1>2. \A d \in Owner : Uses(d, s) => d = c
  BY <1>1 DEF KnownOnce, OneClient
<1>3. \A d \in Clients : s \in ClientSubList[d] => d = c
  BY <1>1, <1>2 DEF Uses, Owner
<1>4. \A t \in Threads : call[t].s = s => call[t].c = c
  <2>1. ASSUME NEW t \in Threads, call[t].s = s PROVE call[t].c = c
    <3>1. call[t].c \in Owner
      BY TypesFields, CallFields
    <3>2. Uses(call[t].c, s)
      BY <2>1 DEF Uses
    <3> QED BY <1>2, <3>1, <3>2
  <2> QED BY <2>1
<1>5. \A e \in Pending : e[3] = s => e[2] = c
  <2>1. ASSUME NEW e \in Pending, e[3] = s PROVE e[2] = c
    <3>1. e[2] \in Owner
      BY TypesFields DEF Pending, Owner
    <3>2. Uses(e[2], s)
      BY <2>1 DEF Uses
    <3> QED BY <1>2, <3>1, <3>2
  <2> QED BY <2>1
<1>6. s <= lastSid
  BY <1>1, TypesFields, ConstantTypes DEF KnownOnce, Fresh
<1> QED BY <1>1, <1>3, <1>4, <1>5, <1>6

\* A timer event with the number that subscription s or its call has is that of s.
LEMMA EventOwner ==
  ASSUME Types, KnownOnce, NEW e \in Pending, NEW s \in Sid,
         \/ e[1] = RenewEventId[s]
         \/ \E t \in Threads : call[t].s = s /\ call[t].id = e[1]
  PROVE  e[3] = s
<1>1. e[1] \in 1 .. MaxEvents /\ e[3] \in Sid
  BY TypesFields DEF Pending
<1>2. UsesId(e[1], e[3]) /\ UsesId(e[1], s)
  BY DEF UsesId
<1> QED BY <1>1, <1>2 DEF KnownOnce, OneSub

\* No renewal is due, and no call of thread t is lost that a subscription needs.
LEMMA QuietAlone ==
  ASSUME Types, Types', KnownOnce, Alone, NEW t \in Threads, Quiet(t)
  PROVE  Alone'
<1>1. /\ UNCHANGED <<ClientSubList, RenewEventId, lease, timers, overlapped, dropped>>
      /\ Pending' = Pending /\ valid' \subseteq valid
  BY DEF Quiet, Held, Pending
<1>2. /\ \A u \in Threads : u # t => call'[u] = call[u]
      /\ \/ call'[t].s = None /\ call'[t].op \in {"idle", "subscribe", "unregister"}
         \/ call'[t].op = "renew" /\ call'[t].pc = "callback"
  BY DEF Quiet, CallTo
<1>3. ~Busy(call'[t]) /\ ~Renews(call'[t]) /\ (NoSub(call'[t]) => call'[t].s = None)
      /\ (Links(call'[t]) => call'[t].s = None)
  BY <1>2 DEF Busy, Renews, NoSub, Links
<1>4. call'[t].s = None \/ call'[t].s = call[t].s
  BY DEF Quiet, CallTo
<1>5. LinkAlone'
  <2>1. ASSUME NEW u \in Threads PROVE
           /\ NoSub(call'[u]) => call'[u].s = None
           /\ Links(call'[u]) /\ call'[u].s # None =>
                /\ \A c \in Clients : call'[u].s \notin ClientSubList'[c]
                /\ \A v \in Threads : v # u => call'[v].s # call'[u].s
                /\ \A e \in Pending' : e[3] # call'[u].s
    <3>1. CASE u = t
      BY <1>3, <3>1
    <3>2. CASE u # t
      <4>1. call'[u] = call[u]
        BY <1>2, <3>2
      <4>2. \A v \in Threads : call'[v].s = call[v].s \/ call'[v].s = None
        BY <1>2, <1>4
      <4> QED BY <1>1, <4>1, <4>2 DEF Alone, LinkAlone
    <3> QED BY <3>1, <3>2
  <2> QED BY <2>1 DEF LinkAlone
<1>6. Keeps'
  <2>1. ASSUME NEW c \in valid', NEW s \in ClientSubList'[c], lease'[s] = "finite"
        PROVE  \/ \E e \in Pending' : e[3] = s
               \/ \E u \in Threads : Hopes(call'[u]) /\ call'[u].c = c /\ call'[u].s = s
               \/ s \in dropped'
    <3>1. \/ \E e \in Pending : e[3] = s
          \/ \E u \in Threads : Hopes(call[u]) /\ call[u].c = c /\ call[u].s = s
          \/ s \in dropped
      BY <1>1, <2>1 DEF Alone, Keeps
    <3>2. ~(Hopes(call[t]) /\ call[t].c = c /\ call[t].s = s)
      BY <1>1, <2>1 DEF Quiet, Hopes
    <3> QED BY <1>1, <1>2, <3>1, <3>2
  <2> QED BY <2>1 DEF Keeps
<1>7. TimersOwned'
  BY <1>1 DEF Alone, TimersOwned
<1>8. RenewAlone'
  <2>1. \A u \in Threads : Renews(call'[u]) => call'[u] = call[u]
    BY <1>2, <1>3
  <2> QED BY <1>1, <2>1 DEF Alone, RenewAlone
<1> QED BY <1>5, <1>6, <1>7, <1>8 DEF Alone

LEMMA GrantedAlone ==
  ASSUME Types, Types', KnownOnce, Alone, NEW t \in Threads, Granted(t)
  PROVE  Alone'
<1>1. /\ UNCHANGED <<ClientSubList, RenewEventId, timers, valid, overlapped, dropped>>
      /\ Pending' = Pending /\ lastSid' = lastSid + 1 /\ lastSid' \in Sid
      /\ \A s \in Sid : s # lastSid' => lease'[s] = lease[s]
  BY TypesFields, ConstantTypes DEF Granted, Pending, Rest, Steady
<1>2. /\ \A u \in Threads : u # t => call'[u] = call[u]
      /\ call'[t].s \in {None, lastSid'} /\ Links(call'[t]) /\ ~NoSub(call'[t])
      /\ ~Renews(call'[t]) /\ ~Hopes(call[t])
  BY DEF Granted, CallTo, Links, NoSub, Hopes, Busy, Renews
<1>3. /\ \A c \in Clients : lastSid' \notin ClientSubList[c]
      /\ \A u \in Threads : call[u].s # lastSid'
      /\ \A e \in Pending : e[3] # lastSid'
  <2>1. \A c \in Owner : ~Uses(c, lastSid')
    BY <1>1, TypesFields, ConstantTypes DEF KnownOnce, Fresh
  <2>2. \A u \in Threads : call[u].c \in Owner
    BY TypesFields, CallFields
  <2>3. \A e \in Pending : e[2] \in Owner
    BY TypesFields DEF Pending, Owner
  <2> QED BY <2>1, <2>2, <2>3 DEF Uses, Owner
<1>4. lastSid' # None
  BY <1>1, ConstantTypes
<1>5. LinkAlone'
  <2>1. ASSUME NEW u \in Threads PROVE
           /\ NoSub(call'[u]) => call'[u].s = None
           /\ Links(call'[u]) /\ call'[u].s # None =>
                /\ \A c \in Clients : call'[u].s \notin ClientSubList'[c]
                /\ \A v \in Threads : v # u => call'[v].s # call'[u].s
                /\ \A e \in Pending' : e[3] # call'[u].s
    <3>1. CASE u = t
      BY <1>1, <1>2, <1>3, <3>1
    <3>2. CASE u # t
      <4>1. call'[u] = call[u]
        BY <1>2, <3>2
      <4>2. ASSUME NEW v \in Threads, v # u, call'[v].s = call[u].s, Links(call[u]), call[u].s # None
            PROVE  FALSE
        BY <1>2, <1>3, <4>2 DEF Alone, LinkAlone
      <4> QED BY <1>1, <4>1, <4>2 DEF Alone, LinkAlone
    <3> QED BY <3>1, <3>2
  <2> QED BY <2>1 DEF LinkAlone
<1>6. Keeps'
  <2>1. ASSUME NEW c \in valid', NEW s \in ClientSubList'[c], lease'[s] = "finite"
        PROVE  \/ \E e \in Pending' : e[3] = s
               \/ \E u \in Threads : Hopes(call'[u]) /\ call'[u].c = c /\ call'[u].s = s
               \/ s \in dropped'
    <3>1. c \in valid /\ c \in Clients /\ s \in ClientSubList[c] /\ s \in Sid
      BY <1>1, <2>1, TypesFields
    <3>2. lease[s] = "finite"
      BY <1>1, <1>3, <2>1, <3>1
    <3>3. \/ \E e \in Pending : e[3] = s
          \/ \E u \in Threads : Hopes(call[u]) /\ call[u].c = c /\ call[u].s = s
          \/ s \in dropped
      BY <3>1, <3>2 DEF Alone, Keeps
    <3> QED BY <1>1, <1>2, <3>3
  <2> QED BY <2>1 DEF Keeps
<1>7. TimersOwned'
  BY <1>1 DEF Alone, TimersOwned
<1>8. RenewAlone'
  <2>1. \A u \in Threads : Renews(call'[u]) => call'[u] = call[u]
    BY <1>2
  <2> QED BY <1>1, <2>1 DEF Alone, RenewAlone
<1> QED BY <1>5, <1>6, <1>7, <1>8 DEF Alone

LEMMA CancelsAlone ==
  ASSUME Types, Types', KnownOnce, Alone, NEW t \in Threads, Cancels(t)
  PROVE  Alone'
<1>1. /\ UNCHANGED <<ClientSubList, RenewEventId, lease, timers, overlapped, valid, dropped>>
      /\ Pending' = Pending
  BY DEF Cancels, Held, Pending, Rest, Steady
<1>2. PICK c \in valid : \E s \in ClientSubList[c] :
        CallTo(t, "unsubscribe", "net", c, s, RenewEventId[s])
  BY DEF Cancels
<1>3. PICK s \in ClientSubList[c] : CallTo(t, "unsubscribe", "net", c, s, RenewEventId[s])
  BY <1>2
<1>4. c \in Clients
  BY TypesFields
<1>5. /\ \A u \in Threads : u # t => call'[u] = call[u]
      /\ call'[t].s = s /\ call'[t].c = c /\ ~NoSub(call'[t]) /\ ~Links(call'[t]) /\ ~Renews(call'[t])
      /\ ~Hopes(call[t])
  BY <1>3 DEF Cancels, CallTo, NoSub, Links, Renews, Busy, Hopes
<1>6. LinkAlone'
  <2>1. ASSUME NEW u \in Threads PROVE
           /\ NoSub(call'[u]) => call'[u].s = None
           /\ Links(call'[u]) /\ call'[u].s # None =>
                /\ \A x \in Clients : call'[u].s \notin ClientSubList'[x]
                /\ \A v \in Threads : v # u => call'[v].s # call'[u].s
                /\ \A e \in Pending' : e[3] # call'[u].s
    <3>1. CASE u = t
      BY <1>5, <3>1
    <3>2. CASE u # t
      <4>1. call'[u] = call[u]
        BY <1>5, <3>2
      <4>2. \A v \in Threads : call'[v].s = call[v].s \/ call'[v].s = s
        BY <1>5
      <4> QED BY <1>1, <1>3, <1>4, <4>1, <4>2 DEF Alone, LinkAlone
    <3> QED BY <3>1, <3>2
  <2> QED BY <2>1 DEF LinkAlone
<1>7. Keeps'
  BY <1>1, <1>5 DEF Alone, Keeps
<1>8. TimersOwned'
  BY <1>1 DEF Alone, TimersOwned
<1>9. RenewAlone'
  <2>1. \A u \in Threads : Renews(call'[u]) => call'[u] = call[u]
    BY <1>5
  <2> QED BY <1>1, <2>1 DEF Alone, RenewAlone
<1> QED BY <1>6, <1>7, <1>8, <1>9 DEF Alone


LEMMA CancelledAlone ==
  ASSUME Types, Types', KnownOnce, Alone, NEW t \in Threads, Cancelled(t)
  PROVE  Alone'
<1> DEFINE r == call[t].s
<1>1. /\ UNCHANGED <<ClientSubList, RenewEventId, lease, overlapped, valid, renewJobs, dropped>>
      /\ timers' = Without(call[t].id) /\ timers' \subseteq timers /\ Pending' \subseteq Pending
  BY DEF Cancelled, Pending, Rest, Steady, Without
<1>2. /\ \A u \in Threads : u # t => call'[u] = call[u]
      /\ call[t].op = "unsubscribe" /\ call'[t].op = "unsubscribe"
      /\ call'[t].s = call[t].s /\ call'[t].c = call[t].c
  BY DEF Cancelled, CallTo
<1>3. ~NoSub(call'[t]) /\ ~Links(call'[t]) /\ ~Renews(call'[t]) /\ Hopes(call'[t])
  BY <1>2 DEF NoSub, Links, Renews, Busy, Hopes
<1>4. r \in Sid
  BY <1>2, TypesFields, CallFields
<1>5. \A e \in Pending : e \in Pending' \/ e[3] = r
  <2>1. ASSUME NEW e \in Pending, e \notin Pending' PROVE e[3] = r
    <3>1. e[1] = call[t].id
      BY <1>1, <2>1 DEF Pending, Without
    <3> QED BY <1>4, <3>1, EventOwner
  <2> QED BY <2>1
<1>6. LinkAlone'
  <2>1. ASSUME NEW u \in Threads PROVE
           /\ NoSub(call'[u]) => call'[u].s = None
           /\ Links(call'[u]) /\ call'[u].s # None =>
                /\ \A x \in Clients : call'[u].s \notin ClientSubList'[x]
                /\ \A v \in Threads : v # u => call'[v].s # call'[u].s
                /\ \A e \in Pending' : e[3] # call'[u].s
    <3>1. CASE u = t
      BY <1>3, <3>1
    <3>2. CASE u # t
      BY <1>1, <1>2, <3>2 DEF Alone, LinkAlone
    <3> QED BY <3>1, <3>2
  <2> QED BY <2>1 DEF LinkAlone
<1>7. Keeps'
  <2>1. ASSUME NEW c \in valid', NEW s \in ClientSubList'[c], lease'[s] = "finite"
        PROVE  \/ \E e \in Pending' : e[3] = s
               \/ \E u \in Threads : Hopes(call'[u]) /\ call'[u].c = c /\ call'[u].s = s
               \/ s \in dropped'
    <3>1. c \in valid /\ c \in Clients /\ s \in ClientSubList[c] /\ lease[s] = "finite"
      BY <1>1, <2>1, TypesFields
    <3>2. CASE s = r
      <4>1. call[t].c = c
        BY <3>1, <3>2, ListOwner
      <4> QED BY <1>2, <1>3, <3>2, <4>1
    <3>3. CASE s # r
      <4>1. \/ \E e \in Pending : e[3] = s
            \/ \E u \in Threads : Hopes(call[u]) /\ call[u].c = c /\ call[u].s = s
            \/ s \in dropped
        BY <3>1 DEF Alone, Keeps
      <4> QED BY <1>1, <1>2, <1>5, <3>3, <4>1
    <3> QED BY <3>2, <3>3
  <2> QED BY <2>1 DEF Keeps
<1>8. TimersOwned'
  BY <1>1 DEF Alone, TimersOwned
<1>9. RenewAlone'
  <2>1. \A u \in Threads : Renews(call'[u]) => call'[u] = call[u]
    BY <1>2, <1>3
  <2> QED BY <1>1, <2>1 DEF Alone, RenewAlone
<1> QED BY <1>6, <1>7, <1>8, <1>9 DEF Alone

LEMMA RemovedAlone ==
  ASSUME Types, Types', KnownOnce, Alone, NEW t \in Threads, Removed(t)
  PROVE  Alone'
<1>c. PICK c \in valid : \E r : Removes(t, c, r)
  BY DEF Removed
<1>r. PICK r : Removes(t, c, r)
  BY <1>c
<1>1. /\ RemoveClientSub(c, r, timers)
      /\ Busy(call[t]) => call[t].c = c /\ call[t].s = r
      /\ \/ \E op \in {"idle", "unregister"} : \E pc, d, id : CallTo(t, op, pc, d, None, id)
         \/ call[t].op = "renew" /\ CallTo(t, "renew", "failed", call[t].c, call[t].s, call[t].id)
      /\ UNCHANGED <<lease, renewJobs, lastSid, lastId, valid, overlapped, dropped>>
  BY <1>r DEF Removes, Rest, Steady
<1>2. c \in Clients
  BY TypesFields
<1>3. /\ \A x \in Clients : \A s : s \in ClientSubList'[x] <=> s \in ClientSubList[x] /\ ~(x = c /\ s = r)
      /\ timers' \subseteq timers /\ Pending' \subseteq Pending
  BY <1>1, <1>2, TypesFields DEF RemoveClientSub, Pending
<1>4. /\ \A u \in Threads : u # t => call'[u] = call[u]
      /\ ~Links(call'[t]) /\ ~Renews(call'[t]) /\ ~Busy(call'[t])
      /\ NoSub(call'[t]) => call'[t].s = None
      /\ call'[t].s = None \/ call'[t].s = call[t].s
  BY <1>1 DEF CallTo, Links, Renews, Busy, NoSub
<1>5. r \in ClientSubList[c] => \A e \in Pending : e \in Pending' \/ e[3] = r
  <2>1. ASSUME r \in ClientSubList[c], NEW e \in Pending, e \notin Pending' PROVE e[3] = r
    <3>1. e[1] = RenewEventId[r] /\ r \in Sid
      BY <1>1, <1>2, <2>1, TypesFields DEF RemoveClientSub, Pending
    <3> QED BY <3>1, EventOwner
  <2> QED BY <2>1
<1>6. LinkAlone'
  <2>1. ASSUME NEW u \in Threads PROVE
           /\ NoSub(call'[u]) => call'[u].s = None
           /\ Links(call'[u]) /\ call'[u].s # None =>
                /\ \A x \in Clients : call'[u].s \notin ClientSubList'[x]
                /\ \A v \in Threads : v # u => call'[v].s # call'[u].s
                /\ \A e \in Pending' : e[3] # call'[u].s
    <3>1. CASE u = t
      BY <1>4, <3>1
    <3>2. CASE u # t
      <4>1. call'[u] = call[u]
        BY <1>4, <3>2
      <4>2. \A v \in Threads : call'[v].s = call[v].s \/ call'[v].s = None
        BY <1>4
      <4> QED BY <1>3, <4>1, <4>2 DEF Alone, LinkAlone
    <3> QED BY <3>1, <3>2
  <2> QED BY <2>1 DEF LinkAlone
<1>7. Keeps'
  <2>1. ASSUME NEW x \in valid', NEW s \in ClientSubList'[x], lease'[s] = "finite"
        PROVE  \/ \E e \in Pending' : e[3] = s
               \/ \E u \in Threads : Hopes(call'[u]) /\ call'[u].c = x /\ call'[u].s = s
               \/ s \in dropped'
    <3>1. /\ x \in valid /\ x \in Clients /\ s \in ClientSubList[x] /\ lease[s] = "finite"
          /\ ~(x = c /\ s = r)
      BY <1>1, <1>3, <2>1, TypesFields
    <3>2. \/ \E e \in Pending : e[3] = s
          \/ \E u \in Threads : Hopes(call[u]) /\ call[u].c = x /\ call[u].s = s
          \/ s \in dropped
      BY <3>1 DEF Alone, Keeps
    <3>3. ~(Hopes(call[t]) /\ call[t].c = x /\ call[t].s = s)
      BY <1>1, <3>1 DEF Hopes
    <3>4. CASE r \in ClientSubList[c]
      <4>1. s # r
        BY <1>2, <3>1, <3>4, ListOwner
      <4> QED BY <1>1, <1>4, <1>5, <3>2, <3>3, <3>4, <4>1
    <3>5. CASE r \notin ClientSubList[c]
      <4>1. Pending' = Pending
        BY <1>1, <3>5 DEF RemoveClientSub, Pending
      <4> QED BY <1>1, <1>4, <3>2, <3>3, <4>1
    <3> QED BY <3>4, <3>5
  <2> QED BY <2>1 DEF Keeps
<1>8. TimersOwned'
  <2>1. ASSUME NEW e \in timers', e[2] \in valid, e[3] \notin overlapped
        PROVE  e[3] \in ClientSubList'[e[2]] /\ RenewEventId'[e[3]] = e[1]
    <3>1. /\ e \in timers /\ e[3] \in ClientSubList[e[2]] /\ RenewEventId[e[3]] = e[1]
          /\ e[2] \in Clients /\ e[3] \in Sid
      BY <1>3, <2>1, TypesFields DEF Alone, TimersOwned
    <3>2. CASE r \in ClientSubList[c]
      <4>1. e[3] # r
        <5>1. e[3] = r => e[1] = RenewEventId[r]
          BY <3>1
        <5> QED BY <1>1, <2>1, <3>2, <5>1 DEF RemoveClientSub
      <4> QED BY <1>1, <1>3, <3>1, <3>2, <4>1, TypesFields DEF RemoveClientSub
    <3>3. CASE r \notin ClientSubList[c]
      <4>1. RenewEventId' = RenewEventId
        BY <1>1, <3>3 DEF RemoveClientSub
      <4> QED BY <1>3, <3>1, <3>3, <4>1
    <3> QED BY <3>2, <3>3
  <2> QED BY <1>1, <2>1 DEF TimersOwned
<1>9. RenewAlone'
  <2>1. \A u \in Threads : Renews(call'[u]) => call'[u] = call[u]
    BY <1>4
  <2> QED BY <1>1, <1>3, <2>1 DEF Alone, RenewAlone
<1> QED BY <1>6, <1>7, <1>8, <1>9 DEF Alone

LEMMA AnsweredAlone ==
  ASSUME Types, Types', KnownOnce, Alone, NEW t \in Threads, Answered(t)
  PROVE  Alone'
<1> DEFINE r == call[t].s
<1>1. /\ UNCHANGED <<ClientSubList, RenewEventId, timers, overlapped, valid, dropped>>
      /\ Pending' = Pending
      /\ \A s \in Sid : s # r => lease'[s] = lease[s]
  BY TypesFields DEF Answered, Pending, Rest, Steady
<1>2. /\ \A u \in Threads : u # t => call'[u] = call[u]
      /\ call'[t].op = "renew" /\ call'[t].pc = "end" /\ Renews(call[t])
      /\ call'[t].s = call[t].s /\ call'[t].c = call[t].c
  BY DEF Answered, CallTo
<1>3. ~NoSub(call'[t]) /\ ~Links(call'[t]) /\ Renews(call'[t])
  BY <1>2 DEF NoSub, Links, Renews
<1>8. lease'[r] = "finite" => Hopes(call'[t])
  <2>1. r \in Sid
    BY <1>2, TypesFields, CallFields DEF Renews
  <2>2. call'[t].timeout = lease'[r]
    BY <2>1, TypesFields DEF Answered
  <2> QED BY <1>3, <2>2 DEF Hopes, Busy
<1>4. LinkAlone'
  <2>1. ASSUME NEW u \in Threads PROVE
           /\ NoSub(call'[u]) => call'[u].s = None
           /\ Links(call'[u]) /\ call'[u].s # None =>
                /\ \A x \in Clients : call'[u].s \notin ClientSubList'[x]
                /\ \A v \in Threads : v # u => call'[v].s # call'[u].s
                /\ \A e \in Pending' : e[3] # call'[u].s
    <3>1. CASE u = t
      BY <1>3, <3>1
    <3>2. CASE u # t
      BY <1>1, <1>2, <3>2 DEF Alone, LinkAlone
    <3> QED BY <3>1, <3>2
  <2> QED BY <2>1 DEF LinkAlone
<1>5. Keeps'
  <2>1. ASSUME NEW c \in valid', NEW s \in ClientSubList'[c], lease'[s] = "finite"
        PROVE  \/ \E e \in Pending' : e[3] = s
               \/ \E u \in Threads : Hopes(call'[u]) /\ call'[u].c = c /\ call'[u].s = s
               \/ s \in dropped'
    <3>1. c \in valid /\ c \in Clients /\ s \in ClientSubList[c] /\ s \in Sid
      BY <1>1, <2>1, TypesFields
    <3>2. CASE s = r
      <4>1. call[t].c = c
        BY <3>1, <3>2, ListOwner
      <4> QED BY <1>2, <1>8, <2>1, <3>2, <4>1
    <3>3. CASE s # r
      <4>1. lease[s] = "finite"
        BY <1>1, <2>1, <3>1, <3>3
      <4>2. \/ \E e \in Pending : e[3] = s
            \/ \E u \in Threads : Hopes(call[u]) /\ call[u].c = c /\ call[u].s = s
            \/ s \in dropped
        BY <3>1, <4>1 DEF Alone, Keeps
      <4> QED BY <1>1, <1>2, <3>3, <4>2
    <3> QED BY <3>2, <3>3
  <2> QED BY <2>1 DEF Keeps
<1>6. TimersOwned'
  BY <1>1 DEF Alone, TimersOwned
<1>7. RenewAlone'
  <2>1. \A u \in Threads : /\ Renews(call'[u]) => Renews(call[u])
                           /\ call'[u].s = call[u].s /\ call'[u].c = call[u].c
    BY <1>2
  <2> QED BY <1>1, <2>1 DEF Alone, RenewAlone
<1> QED BY <1>4, <1>5, <1>6, <1>7 DEF Alone

LEMMA EventAlone ==
  ASSUME Types, Types', KnownOnce, Alone, NEW e, Due(e) \/ Moot(e)
  PROVE  Alone'
<1>1. /\ UNCHANGED <<ClientSubList, RenewEventId, lease, overlapped, valid, call>>
      /\ timers' \subseteq timers /\ Pending' \subseteq Pending
  BY DEF Due, Moot, Pending, Rest, Steady
<1>2. LinkAlone'
  BY <1>1 DEF Alone, LinkAlone
<1>3. Keeps'
  <2>1. ASSUME NEW c \in valid', NEW s \in ClientSubList'[c], lease'[s] = "finite"
        PROVE  \/ \E x \in Pending' : x[3] = s
               \/ \E u \in Threads : Hopes(call'[u]) /\ call'[u].c = c /\ call'[u].s = s
               \/ s \in dropped'
    <3>1. c \in valid /\ c \in Clients /\ s \in ClientSubList[c] /\ lease[s] = "finite"
      BY <1>1, <2>1, TypesFields
    <3>2. \/ \E x \in Pending : x[3] = s
          \/ \E u \in Threads : Hopes(call[u]) /\ call[u].c = c /\ call[u].s = s
          \/ s \in dropped
      BY <3>1 DEF Alone, Keeps
    <3>3. \A x \in Pending : x[3] = s => x \in Pending' \/ s \in dropped'
      <4>1. CASE Due(e)
        BY <4>1 DEF Due, Pending
      <4>2. CASE Moot(e)
        <5>1. e \in Pending /\ e[3] = s => e[2] = c
          BY <3>1, ListOwner
        <5>2. e[3] # s
          BY <3>1, <4>2, <5>1 DEF Moot, Pending
        <5> QED BY <4>2, <5>2 DEF Moot, Pending
      <4> QED BY <4>1, <4>2
    <3>4. dropped \subseteq dropped'
      BY DEF Due, Moot, Rest
    <3> QED BY <1>1, <3>2, <3>3, <3>4
  <2> QED BY <2>1 DEF Keeps
<1>4. TimersOwned'
  BY <1>1 DEF Alone, TimersOwned
<1>5. RenewAlone'
  BY <1>1 DEF Alone, RenewAlone
<1> QED BY <1>2, <1>3, <1>4, <1>5 DEF Alone


LEMMA BeginsAlone ==
  ASSUME Types, Types', KnownOnce, Alone, NEW t \in Threads, Begins(t)
  PROVE  Alone'
<1>1. PICK c \in valid : \E r \in ClientSubList[c] :
        /\ timers' = Without(RenewEventId[r])
        /\ RenewEventId' = [RenewEventId EXCEPT ![r] = -1]
        /\ overlapped' = IF InProgress(c, r, {"renew"}) THEN overlapped \cup {r} ELSE overlapped
        /\ CallTo(t, "renew", "net", c, r, -1)
        /\ \/ UNCHANGED renewJobs
           \/ \E e \in renewJobs : e[2] = c /\ e[3] = r /\ renewJobs' = renewJobs \ {e}
        /\ UNCHANGED <<ClientSubList, lease, lastSid, lastId, valid, dropped>>
  BY DEF Begins
<1>2. PICK r \in ClientSubList[c] :
        /\ timers' = Without(RenewEventId[r])
        /\ RenewEventId' = [RenewEventId EXCEPT ![r] = -1]
        /\ overlapped' = IF InProgress(c, r, {"renew"}) THEN overlapped \cup {r} ELSE overlapped
        /\ CallTo(t, "renew", "net", c, r, -1)
        /\ \/ UNCHANGED renewJobs
           \/ \E e \in renewJobs : e[2] = c /\ e[3] = r /\ renewJobs' = renewJobs \ {e}
        /\ UNCHANGED <<ClientSubList, lease, lastSid, lastId, valid, dropped>>
  BY <1>1
<1>3. c \in Clients /\ r \in Sid
  BY <1>1, <1>2, TypesFields
<1>4. /\ \A u \in Threads : u # t => call'[u] = call[u]
      /\ call'[t].s = r /\ call'[t].c = c /\ ~NoSub(call'[t]) /\ ~Links(call'[t])
      /\ Renews(call'[t]) /\ Hopes(call'[t]) /\ NoSub(call[t]) /\ ~Hopes(call[t]) /\ ~Renews(call[t])
  BY <1>2 DEF Begins, CallTo, NoSub, Links, Renews, Busy, Hopes
<1>5. timers' \subseteq timers /\ Pending' \subseteq Pending /\ overlapped \subseteq overlapped'
  BY <1>2 DEF Pending, Without
<1>6. \A e \in Pending : e \in Pending' \/ e[3] = r
  <2>1. ASSUME NEW e \in Pending, e \notin Pending', e[3] # r PROVE FALSE
    <3>1. e \in timers /\ e \notin timers'
      BY <1>2, <2>1 DEF Pending
    <3>2. e[1] = RenewEventId[r]
      BY <1>2, <3>1 DEF Without
    <3> QED BY <1>3, <2>1, <3>2, EventOwner
  <2> QED BY <2>1
<1>7. LinkAlone'
  <2>1. ASSUME NEW u \in Threads PROVE
           /\ NoSub(call'[u]) => call'[u].s = None
           /\ Links(call'[u]) /\ call'[u].s # None =>
                /\ \A x \in Clients : call'[u].s \notin ClientSubList'[x]
                /\ \A v \in Threads : v # u => call'[v].s # call'[u].s
                /\ \A e \in Pending' : e[3] # call'[u].s
    <3>1. CASE u = t
      BY <1>4, <3>1
    <3>2. CASE u # t
      <4>1. call'[u] = call[u]
        BY <1>4, <3>2
      <4>2. \A v \in Threads : call'[v].s = call[v].s \/ call'[v].s = r
        BY <1>4
      <4> QED BY <1>2, <1>3, <1>5, <4>1, <4>2 DEF Alone, LinkAlone
    <3> QED BY <3>1, <3>2
  <2> QED BY <2>1 DEF LinkAlone
<1>8. Keeps'
  <2>1. ASSUME NEW x \in valid', NEW s \in ClientSubList'[x], lease'[s] = "finite"
        PROVE  \/ \E e \in Pending' : e[3] = s
               \/ \E u \in Threads : Hopes(call'[u]) /\ call'[u].c = x /\ call'[u].s = s
               \/ s \in dropped'
    <3>1. x \in valid /\ x \in Clients /\ s \in ClientSubList[x] /\ lease[s] = "finite"
      BY <1>2, <2>1, TypesFields
    <3>2. CASE s = r
      <4>1. x = c
        BY <1>2, <1>3, <3>1, <3>2, ListOwner
      <4> QED BY <1>4, <3>2, <4>1
    <3>3. CASE s # r
      <4>1. \/ \E e \in Pending : e[3] = s
            \/ \E u \in Threads : Hopes(call[u]) /\ call[u].c = x /\ call[u].s = s
            \/ s \in dropped
        BY <3>1 DEF Alone, Keeps
      <4> QED BY <1>2, <1>4, <1>6, <3>3, <4>1
    <3> QED BY <3>2, <3>3
  <2> QED BY <2>1 DEF Keeps
<1>9. TimersOwned'
  <2>1. ASSUME NEW e \in timers', e[2] \in valid, e[3] \notin overlapped'
        PROVE  e[3] \in ClientSubList'[e[2]] /\ RenewEventId'[e[3]] = e[1]
    <3>1. /\ e \in timers /\ e[3] \in ClientSubList[e[2]] /\ RenewEventId[e[3]] = e[1]
          /\ e[2] \in Clients /\ e[3] \in Sid
      BY <1>5, <2>1, TypesFields DEF Alone, TimersOwned
    <3>2. e[3] # r
      <4>1. e[3] = r => e[1] = RenewEventId[r]
        BY <3>1
      <4> QED BY <1>2, <2>1, <4>1 DEF Without
    <3> QED BY <1>2, <3>1, <3>2, TypesFields
  <2> QED BY <1>2, <2>1 DEF TimersOwned
<1>10. RenewAlone'
  <2>1. ASSUME NEW u \in Threads, Renews(call'[u]), call'[u].c \in valid,
               call'[u].s \notin overlapped', NEW e \in timers', e[3] = call'[u].s
        PROVE  FALSE
    <3>1. CASE u = t
      <4>1. e \in timers /\ e[3] = r /\ e \in Pending
        BY <1>4, <1>5, <2>1, <3>1 DEF Pending
      <4>2. e[2] = c
        BY <1>3, <4>1, ListOwner
      <4>3. RenewEventId[r] = e[1]
        BY <1>1, <1>4, <1>5, <2>1, <3>1, <4>1, <4>2 DEF Alone, TimersOwned
      <4> QED BY <1>2, <2>1, <4>3 DEF Without
    <3>2. CASE u # t
      BY <1>4, <1>5, <2>1, <3>2 DEF Alone, RenewAlone
    <3> QED BY <3>1, <3>2
  <2>2. ASSUME NEW u \in Threads, u # t, Renews(call'[u]), call'[u].s = r
        PROVE  r \in overlapped'
    <3>1. call[u] = call'[u] /\ call[u].op = "renew"
      BY <1>4, <2>2 DEF Renews
    <3>2. call[u].c = c
      BY <1>3, <2>2, <3>1, ListOwner
    <3>3. InProgress(c, r, {"renew"})
      BY <2>2, <3>1, <3>2 DEF InProgress
    <3> QED BY <1>2, <3>3
  <2>3. ASSUME NEW u \in Threads, NEW v \in Threads, u # v, Renews(call'[u]), Renews(call'[v]),
               call'[u].s = call'[v].s
        PROVE  call'[u].s \in overlapped'
    <3>1. CASE u = t
      BY <1>4, <2>2, <2>3, <3>1
    <3>2. CASE v = t
      BY <1>4, <2>2, <2>3, <3>2
    <3>3. CASE u # t /\ v # t
      BY <1>4, <1>5, <2>3, <3>3 DEF Alone, RenewAlone
    <3> QED BY <3>1, <3>2, <3>3
  <2> QED BY <1>2, <2>1, <2>3 DEF RenewAlone
<1> QED BY <1>7, <1>8, <1>9, <1>10 DEF Alone

\* A call puts its subscription on the timer: it is new in the list, or renewed.
LEMMA ScheduleAlone ==
  ASSUME Types, Types', KnownOnce, Alone, LeaseKnown, NEW t \in Threads, Linked(t) \/ Renewed(t)
  PROVE  Alone'
<1> DEFINE c == call[t].c
           r == call[t].s
<1>1. /\ \/ ScheduleGenaAutoRenew(c, r, call[t].timeout, timers)
         \/ dropped' = dropped \cup {r} /\ UNCHANGED <<RenewEventId, timers, lastId>>
      /\ c \in valid
      /\ UNCHANGED <<lease, renewJobs, lastSid, valid, overlapped>>
      /\ CallTo(t, "idle", "", None, None, -1)
      /\ Links(call[t]) \/ Renews(call[t])
  BY DEF Linked, Renewed, Steady
<1>2. c \in Clients /\ r \in Sid /\ r # None
  BY <1>1, TypesFields, CallFields, ConstantTypes DEF Linked, Renewed
<1>3. /\ r \in ClientSubList'[c]
      /\ \A x \in Clients : \A s : s \in ClientSubList'[x] <=> s \in ClientSubList[x] \/ (x = c /\ s = r)
  <2>1. CASE Linked(t)
    <3>1. ClientSubList' = [ClientSubList EXCEPT ![c] = @ \cup {r}]
      BY <2>1 DEF Linked
    <3> HIDE DEF c, r
    <3> QED BY <1>2, <3>1, TypesFields
  <2>2. CASE Renewed(t)
    <3>1. UNCHANGED ClientSubList /\ r \in ClientSubList[c]
      BY <2>2 DEF Renewed
    <3> QED BY <3>1
  <2> QED BY <2>1, <2>2
<1>4. /\ \A u \in Threads : u # t => call'[u] = call[u]
      /\ call'[t].s = None /\ ~Links(call'[t]) /\ ~Renews(call'[t])
  BY <1>1 DEF CallTo, Links, Renews
<1>5. \A u \in Threads : u # t /\ Links(call[u]) /\ call[u].s # None => call[u].s # r
  BY <1>2 DEF Alone, LinkAlone
<1>6. Links(call[t]) =>
        /\ \A u \in Threads : u # t => call[u].s # r
        /\ \A e \in timers : e[3] # r
  BY <1>2 DEF Alone, LinkAlone, Pending
<1>7. Renews(call[t]) /\ r \notin overlapped =>
        /\ \A u \in Threads : u # t /\ Renews(call[u]) => call[u].s # r
        /\ \A e \in timers : e[3] # r
  BY <1>1 DEF Alone, RenewAlone
<1>8. \/ /\ UNCHANGED <<timers, RenewEventId>>
         /\ \/ call[t].timeout = "infinite" /\ UNCHANGED dropped
            \/ dropped' = dropped \cup {r}
      \/ /\ timers' = timers \cup {<<lastId', c, r>>}
         /\ RenewEventId' = [RenewEventId EXCEPT ![r] = lastId']
         /\ dropped' = dropped \ {r}
  BY <1>1 DEF ScheduleGenaAutoRenew
<1>9. Pending \subseteq Pending' /\ \A e \in Pending' : e \in Pending \/ e[3] = r
  <2> HIDE DEF c, r
  <2>1. timers \subseteq timers' /\ \A e \in timers' : e \in timers \/ e[3] = r
    BY <1>8
  <2> QED BY <1>1, <2>1 DEF Pending
<1>10. \/ \E e \in Pending' : e[3] = r
       \/ r \in dropped'
       \/ call[t].timeout = "infinite" /\ UNCHANGED dropped
  <2>1. CASE timers' = timers \cup {<<lastId', c, r>>}
    <3>1. <<lastId', c, r>> \in Pending'
      BY <2>1 DEF Pending
    <3> QED BY <3>1
  <2> QED BY <1>8, <2>1
<1>15. lease[r] = "finite" /\ call[t].timeout = "infinite" =>
         UNCHANGED ClientSubList /\ ~Hopes(call[t])
  <2>1. CASE Linked(t)
    BY <1>2, <2>1 DEF Linked, LeaseKnown
  <2>2. CASE Renewed(t)
    BY <2>2 DEF Renewed, Hopes
  <2> QED BY <2>1, <2>2
<1>16. \A s : s # r => (s \in dropped' <=> s \in dropped)
  BY <1>8
<1> HIDE DEF c, r
<1>11. LinkAlone'
  <2>1. ASSUME NEW u \in Threads PROVE
           /\ NoSub(call'[u]) => call'[u].s = None
           /\ Links(call'[u]) /\ call'[u].s # None =>
                /\ \A x \in Clients : call'[u].s \notin ClientSubList'[x]
                /\ \A v \in Threads : v # u => call'[v].s # call'[u].s
                /\ \A e \in Pending' : e[3] # call'[u].s
    <3>1. CASE u = t
      BY <1>4, <3>1
    <3>2. CASE u # t
      <4>1. call'[u] = call[u]
        BY <1>4, <3>2
      <4>2. \A v \in Threads : call'[v].s = call[v].s \/ call'[v].s = None
        BY <1>4
      <4> QED BY <1>3, <1>5, <1>9, <3>2, <4>1, <4>2 DEF Alone, LinkAlone
    <3> QED BY <3>1, <3>2
  <2> QED BY <2>1 DEF LinkAlone
<1>12. Keeps'
  <2>1. ASSUME NEW x \in valid', NEW s \in ClientSubList'[x], lease'[s] = "finite"
        PROVE  \/ \E e \in Pending' : e[3] = s
               \/ \E u \in Threads : Hopes(call'[u]) /\ call'[u].c = x /\ call'[u].s = s
               \/ s \in dropped'
    <3>1. CASE s = r
      <4>1. lease[r] = "finite" /\ x \in valid
        BY <1>1, <2>1, <3>1
      <4>2. CASE call[t].timeout = "infinite" /\ UNCHANGED dropped
        <5>1. UNCHANGED ClientSubList /\ ~Hopes(call[t])
          BY <1>15, <4>1, <4>2
        <5>2. \/ \E e \in Pending : e[3] = r
              \/ \E u \in Threads : Hopes(call[u]) /\ call[u].c = x /\ call[u].s = r
              \/ r \in dropped
          BY <2>1, <3>1, <4>1, <5>1 DEF Alone, Keeps
        <5> QED BY <1>4, <1>9, <3>1, <4>2, <5>1, <5>2
      <4> QED BY <1>10, <3>1, <4>2
    <3>2. CASE s # r
      <4>1. x \in valid /\ x \in Clients /\ s \in ClientSubList[x] /\ lease[s] = "finite"
        BY <1>1, <1>3, <2>1, <3>2, TypesFields
      <4>2. \/ \E e \in Pending : e[3] = s
            \/ \E u \in Threads : Hopes(call[u]) /\ call[u].c = x /\ call[u].s = s
            \/ s \in dropped
        BY <4>1 DEF Alone, Keeps
      <4>3. call[t].s # s
        BY <3>2 DEF r
      <4> QED BY <1>4, <1>9, <1>16, <3>2, <4>2, <4>3
    <3> QED BY <3>1, <3>2
  <2> QED BY <2>1 DEF Keeps
<1>13. TimersOwned'
  <2>1. ASSUME NEW e \in timers', e[2] \in valid, e[3] \notin overlapped
        PROVE  e[3] \in ClientSubList'[e[2]] /\ RenewEventId'[e[3]] = e[1]
    <3>1. CASE e \in timers
      <4>1. /\ e[3] \in ClientSubList[e[2]] /\ RenewEventId[e[3]] = e[1]
            /\ e[2] \in Clients /\ e[3] \in Sid
        BY <2>1, <3>1, TypesFields DEF Alone, TimersOwned
      <4>2. e[3] # r
        BY <1>1, <1>6, <1>7, <2>1, <3>1
      <4>3. RenewEventId'[e[3]] = RenewEventId[e[3]]
        BY <1>8, <4>1, <4>2, TypesFields
      <4> QED BY <1>3, <4>1, <4>3
    <3>2. CASE e \notin timers
      <4>1. e = <<lastId', c, r>> /\ RenewEventId' = [RenewEventId EXCEPT ![r] = lastId']
        BY <1>8, <2>1, <3>2
      <4> QED BY <1>2, <1>3, <4>1, TypesFields
    <3> QED BY <3>1, <3>2
  <2> QED BY <1>1, <2>1 DEF TimersOwned
<1>14. RenewAlone'
  <2>1. ASSUME NEW u \in Threads, Renews(call'[u]), call'[u].c \in valid,
               call'[u].s \notin overlapped, NEW e \in timers', e[3] = call'[u].s
        PROVE  FALSE
    <3>1. u # t /\ call'[u] = call[u]
      BY <1>4, <2>1
    <3>2. call[u].s # r
      BY <1>1, <1>6, <1>7, <2>1, <3>1
    <3>3. e \in timers
      BY <1>8, <2>1, <3>1, <3>2
    <3> QED BY <2>1, <3>1, <3>3 DEF Alone, RenewAlone
  <2>2. \A u \in Threads : Renews(call'[u]) => call'[u] = call[u]
    BY <1>4
  <2> QED BY <1>1, <2>1, <2>2 DEF Alone, RenewAlone
<1> QED BY <1>11, <1>12, <1>13, <1>14 DEF Alone

-----------------------------------------------------------------------------
(* The renewals are right *)

LEMMA RenewInit == Init => RenewInv
<1> SUFFICES ASSUME Init PROVE RenewInv
  OBVIOUS
<1>1. Types
  <2>1. call \in [Threads -> CallRecs] /\ lastSid \in 0 .. MaxSubs /\ lastId \in 0 .. MaxEvents
    <3>1. call = [t \in Threads |-> Idle]
      BY DEF Init
    <3>2. call \in [Threads -> CallRecs]
      BY <3>1, IdleTyped
    <3> QED BY <3>2, ConstantTypes DEF Init
  <2> QED BY <2>1 DEF Init, Types, TypeOK
<1>2. /\ \A c \in Owner, s \in Sid : ~Uses(c, s)
      /\ \A i \in 1 .. MaxEvents, s \in Sid : ~UsesId(i, s)
  <2>1. \A i \in 1 .. MaxEvents : i # -1
    BY ConstantTypes
  <2> QED BY <2>1, IdleTyped, ConstantTypes DEF Init, Uses, UsesId, Pending
<1>3. Fresh /\ OneClient /\ OneSub
  BY <1>2 DEF Fresh, OneClient, OneSub
<1>4. LinkAlone /\ LeaseKnown /\ Keeps /\ TimersOwned /\ RenewAlone
  BY IdleTyped DEF Init, LinkAlone, LeaseKnown, Keeps, TimersOwned, RenewAlone, Links, Renews
<1> QED BY <1>1, <1>3, <1>4 DEF RenewInv

\* The call that is to put a subscription into the list has its lease: only the device's
\* answers to it and to renewals change leases.
LEMMA MoveLease ==
  ASSUME Types, KnownOnce, Alone, LeaseKnown,
         \/ \E t \in Threads : Moves(t)
         \/ \E e : Due(e) \/ Moot(e)
         \/ NotifyRest
  PROVE  LeaseKnown'
<1>1. CASE NotifyRest \/ \E e : Due(e) \/ Moot(e)
  <2>1. UNCHANGED <<call, lease>>
    BY <1>1 DEF NotifyRest, Held, Due, Moot
  <2> QED BY <2>1 DEF LeaseKnown
<1>2. ASSUME NEW t \in Threads, Moves(t) PROVE LeaseKnown'
  <2>1. \A u \in Threads : u # t => call'[u] = call[u]
    BY <1>2 DEF Moves, Quiet, Granted, Linked, Cancels, Cancelled, Removed, Removes, Begins, Answered,
       Renewed, CallTo
  <2>2. CASE Granted(t)
    <3>1. lastSid' \in Sid /\ \A s \in Sid : s # lastSid' => lease'[s] = lease[s]
      BY <2>2, TypesFields, ConstantTypes DEF Granted
    <3>2. \A u \in Threads : call[u].s # lastSid'
      <4>1. \A c \in Owner : ~Uses(c, lastSid')
        BY <2>2, <3>1, TypesFields, ConstantTypes DEF Granted, KnownOnce, Fresh
      <4>2. \A u \in Threads : call[u].c \in Owner
        BY TypesFields, CallFields
      <4> QED BY <4>1, <4>2 DEF Uses
    <3>3. call'[t].s \in {None, lastSid'} /\ call'[t].timeout = lease'[lastSid']
      BY <2>2, <3>1, TypesFields DEF Granted, CallTo
    <3>4. \A u \in Threads : call[u].s \in Sid \cup {None}
      BY TypesFields, CallFields
    <3> QED BY <2>1, <3>1, <3>2, <3>3, <3>4 DEF LeaseKnown
  <2>3. CASE Answered(t)
    <3>1. /\ \A s \in Sid : s # call[t].s => lease'[s] = lease[s]
          /\ ~Links(call'[t]) /\ \A u \in Threads : call[u].s \in Sid \cup {None}
      BY <2>3, TypesFields, CallFields DEF Answered, CallTo, Links
    <3>2. \A u \in Threads : u # t /\ Links(call[u]) /\ call[u].s # None => call[u].s # call[t].s
      BY DEF Alone, LinkAlone
    <3> QED BY <2>1, <3>1, <3>2 DEF LeaseKnown
  <2>4. CASE ~Granted(t) /\ ~Answered(t)
    <3>1. lease' = lease
      BY <1>2, <2>4 DEF Moves, Quiet, Held, Linked, Cancels, Cancelled, Removed, Removes, Begins, Renewed
    <3>2. ~(Links(call'[t]) /\ call'[t].s # None)
      BY <1>2, <2>4 DEF Moves, Quiet, Linked, Cancels, Cancelled, Removed, Removes, Begins, Renewed,
         CallTo, Links
    <3> QED BY <2>1, <3>1, <3>2 DEF LeaseKnown
  <2> QED BY <2>2, <2>3, <2>4
<1> QED BY <1>1, <1>2

\* What a step of the specification does, in these terms.
LEMMA StepMoves ==
  ASSUME Types, LinkAlone, Next
  PROVE  /\ Types'
         /\ \/ \E t \in Threads : Moves(t)
            \/ \E e : Due(e) \/ Moot(e)
            \/ NotifyRest
<1>1. ASSUME NEW t \in Threads, Begin(t) PROVE Types' /\ Moves(t)
  BY <1>1, BeginStep DEF Moves
<1>2. ASSUME NEW t \in Threads, CallStep(t) PROVE Types' /\ Moves(t)
  BY <1>2, SubscribeStep, LinkStep, UnSubscribeStep, RenewNetStep, RenewEndStep, FailedStep,
     UnregisterStep DEF CallStep, Moves
<1>3. ASSUME NEW t \in Threads, NEW e \in renewJobs, GenaAutoRenewSubscription(t, e)
      PROVE  Types' /\ (Moves(t) \/ Moot(e))
  BY <1>3, AutoStep DEF Moves
<1> QED BY <1>1, <1>2, <1>3, DueStep, NotifyStep DEF Next

LEMMA MoveAlone ==
  ASSUME Types, Types', KnownOnce, Alone, LeaseKnown, NEW t \in Threads, Moves(t)
  PROVE  Alone'
BY QuietAlone, GrantedAlone, ScheduleAlone, CancelsAlone, CancelledAlone, RemovedAlone,
   BeginsAlone, AnsweredAlone DEF Moves

LEMMA RenewStep == RenewInv /\ [Next]_vars => RenewInv'
<1> SUFFICES ASSUME RenewInv, [Next]_vars PROVE RenewInv'
  OBVIOUS
<1>0. Types /\ KnownOnce /\ Alone /\ LinkAlone /\ LeaseKnown
  BY DEF RenewInv, KnownOnce, Alone
<1>1. CASE Next
  <2>1. /\ Types'
        /\ \/ \E t \in Threads : Moves(t)
           \/ \E e : Due(e) \/ Moot(e)
           \/ NotifyRest
    BY <1>0, <1>1, StepMoves
  <2>2. KnownOnce'
    BY <1>0, <2>1, MoveKnown
  <2>3. Alone'
    <3>1. CASE NotifyRest
      BY <1>0, <3>1 DEF NotifyRest, Held, Alone, LinkAlone, Keeps, TimersOwned, RenewAlone, Pending
    <3> QED BY <1>0, <2>1, <3>1, MoveAlone, EventAlone
  <2>4. LeaseKnown'
    BY <1>0, <2>1, MoveLease
  <2> QED BY <2>1, <2>2, <2>3, <2>4 DEF RenewInv, KnownOnce, Alone
<1>2. CASE UNCHANGED vars
  <2>1. UNCHANGED <<valid, ClientSubList, RenewEventId, lease, timers, overlapped, subscribeLock,
                    readers, ev, scan, accepted, refused, renewJobs, call, lastSid, lastId, calledBack,
                    dropped, dangling>>
    BY <1>2 DEF vars, subs, mishaps, locks, events
  <2>2. Types'
    BY <1>0, <2>1 DEF Types, TypeOK
  <2>3. KnownOnce' /\ Alone' /\ LeaseKnown'
    BY <1>0, <2>1 DEF KnownOnce, Fresh, OneClient, OneSub, Uses, UsesId, Pending,
       Alone, LinkAlone, LeaseKnown, Keeps, TimersOwned, RenewAlone
  <2> QED BY <2>2, <2>3 DEF RenewInv, KnownOnce, Alone
<1> QED BY <1>1, <1>2

\* The renewal of a subscription is not left behind, and lost only where the pool or
\* the timer refused it, whatever is subscribed, renewed, unsubscribed and
\* unregistered meanwhile (ScheduleGenaAutoRenew, RemoveClientSubClientSID,
\* genaRenewSubscription).
THEOREM RenewalsStayRight == Spec => []RenewalsRight
<1>1. RenewInv => RenewalsRight
  <2> SUFFICES ASSUME RenewInv PROVE RenewalsRight
    OBVIOUS
  <2>1. KeepsRenewing
    <3>1. ASSUME NEW c \in valid, NEW s \in ClientSubList[c], lease[s] = "finite"
          PROVE  \/ \E e \in timers \cup renewJobs : e[3] = s
                 \/ InProgress(c, s, {"renew", "unsubscribe"})
                 \/ s \in dropped
      <4>1. CASE \E e \in Pending : e[3] = s
        BY <4>1 DEF Pending
      <4>2. ASSUME NEW t \in Threads, Hopes(call[t]), call[t].c = c, call[t].s = s
            PROVE  InProgress(c, s, {"renew", "unsubscribe"})
        BY <4>2 DEF InProgress, Hopes, Busy, Renews
      <4> QED BY <3>1, <4>1, <4>2 DEF RenewInv, Keeps
    <3> QED BY <3>1 DEF KeepsRenewing
  <2> QED BY <2>1 DEF RenewInv, Types, RenewalsRight
<1> QED BY <1>1, RenewInit, RenewStep, PTL DEF Spec

-----------------------------------------------------------------------------
(* The first event *)

\* A step of a call leaves the events alone, but that a new subscription has its own.
EventsRest ==
  /\ UNCHANGED <<scan, accepted, refused>> /\ valid' \subseteq valid
  /\ \A s \in Sid : ev'[s] = ev[s] \/ (lastSid' = lastSid + 1 /\ s = lastSid' /\ ev'[s] = "sent")

InLock(r) == r.op = "subscribe" /\ r.pc \in {"net", "link"}

\* What a step of thread t does with SubscribeLock.
LockMove(t) ==
  /\ \A u \in Threads : u # t => call'[u] = call[u]
  /\ \/ UNCHANGED subscribeLock /\ (InLock(call'[t]) => InLock(call[t]))
     \/ subscribeLock = NoOne /\ subscribeLock' = Holds("call", t)
     \/ InLock(call[t]) /\ ~InLock(call'[t])

LEMMA BeginLock ==
  ASSUME Types, NEW t \in Threads,
         Begin(t) \/ \E e \in renewJobs : GenaAutoRenewSubscription(t, e)
  PROVE  EventsRest /\ LockMove(t)
<1>1. UNCHANGED <<valid, subscribeLock, ev, scan, accepted, refused>>
  BY DEF Begin, UpnpSubscribe, UpnpUnRegisterClient, UpnpUnSubscribe, UpnpRenewSubscription,
     RenewBegin, GenaAutoRenewSubscription, subs, locks, events
<1>2. /\ \A u \in Threads : u # t => call'[u] = call[u]
      /\ InLock(call'[t]) => InLock(call[t])
  <2>1. CASE \E c \in Clients : UpnpSubscribe(t, c)
    <3>1. PICK c \in Clients :
            call' = [call EXCEPT ![t] = [Idle EXCEPT !.op = "subscribe", !.pc = "check", !.c = c]]
      BY <2>1 DEF UpnpSubscribe
    <3>2. CallTo(t, "subscribe", "check", c, None, -1)
      BY <3>1, BeginTo, TypesFields DEF Pcs
    <3> QED BY <3>2 DEF CallTo, InLock
  <2>2. CASE \E c \in Clients : UpnpUnRegisterClient(t, c)
    <3>1. PICK c \in Clients :
            call' = [call EXCEPT ![t] = [Idle EXCEPT !.op = "unregister", !.pc = "loop", !.c = c]]
      BY <2>2 DEF UpnpUnRegisterClient
    <3>2. CallTo(t, "unregister", "loop", c, None, -1)
      BY <3>1, BeginTo, TypesFields DEF Pcs
    <3> QED BY <3>2 DEF CallTo, InLock
  <2>3. ASSUME NEW c \in Clients, NEW s \in Sid, UpnpUnSubscribe(t, c, s)
        PROVE  /\ \A u \in Threads : u # t => call'[u] = call[u]
               /\ InLock(call'[t]) => InLock(call[t])
    <3>1. CallTo(t, "unsubscribe", "net", c, s, RenewEventId[s])
      <4>1. RenewEventId[s] \in {-1} \cup 1 .. MaxEvents
        BY TypesFields
      <4> QED BY <2>3, <4>1, BeginIdTo, TypesFields DEF UpnpUnSubscribe, Pcs
    <3> QED BY <3>1 DEF CallTo, InLock
  <2>4. ASSUME NEW c, NEW s, c \in Clients, s \in Sid, NEW a \in BOOLEAN, RenewBegin(t, c, s, a)
        PROVE  /\ \A u \in Threads : u # t => call'[u] = call[u]
               /\ InLock(call'[t]) => InLock(call[t])
    <3>1. CallTo(t, "renew", "net", c, s, -1)
      BY <2>4, BeginAutoTo, TypesFields DEF RenewBegin, Pcs
    <3> QED BY <3>1 DEF CallTo, InLock
  <2>5. ASSUME NEW e \in renewJobs, GenaAutoRenewSubscription(t, e)
        PROVE  /\ \A u \in Threads : u # t => call'[u] = call[u]
               /\ InLock(call'[t]) => InLock(call[t])
    <3>1. e[2] \in Clients /\ e[3] \in Sid
      BY TypesFields
    <3>2. RenewBegin(t, e[2], e[3], TRUE) \/ UNCHANGED call
      BY <2>5 DEF GenaAutoRenewSubscription
    <3> QED BY <2>4, <3>1, <3>2
  <2>6. ASSUME NEW c \in Clients, NEW s \in Sid, UpnpRenewSubscription(t, c, s)
        PROVE  RenewBegin(t, c, s, FALSE)
    BY <2>6 DEF UpnpRenewSubscription
  <2> QED BY <2>1, <2>2, <2>3, <2>4, <2>5, <2>6 DEF Begin
<1> QED BY <1>1, <1>2 DEF EventsRest, LockMove

LEMMA CallLock ==
  ASSUME Types, NEW t \in Threads, CallStep(t)
  PROVE  EventsRest /\ LockMove(t)
<1>0. CallsTyped
  BY TypesFields
<1>1. CASE SubscribeNet(t)
  <2>1. /\ UNCHANGED <<scan, accepted, refused, valid, subscribeLock>>
        /\ call[t].op = "subscribe" /\ call[t].pc = "net"
    BY <1>1 DEF SubscribeNet, locks, At
  <2>2. \A u \in Threads : u # t => call'[u] = call[u]
    BY <1>0, <1>1 DEF SubscribeNet, CallsTyped, Goto
  <2>3. EventsRest
    BY <1>1, <2>1 DEF SubscribeNet, EventsRest, Types, TypeOK
  <2> QED BY <2>1, <2>2, <2>3 DEF LockMove, InLock
<1>2. CASE SubscribeLock(t)
  <2>1. UNCHANGED <<scan, accepted, refused, valid, ev>>
    BY <1>2 DEF SubscribeLock, events, subs
  <2>2. CallTo(t, call[t].op, "net", call[t].c, call[t].s, call[t].id)
    BY <1>0, <1>2, GotoTo DEF SubscribeLock, Pcs
  <2> QED BY <1>2, <2>1, <2>2 DEF LockMove, EventsRest, SubscribeLock, CallTo
<1>3. CASE SubscribeLink(t)
  <2>1. UNCHANGED <<scan, accepted, refused, valid, ev>> /\ InLock(call[t])
    BY <1>3 DEF SubscribeLink, events, At, InLock
  <2>2. CallTo(t, "idle", "", None, None, -1)
    BY <1>0, <1>3, ReturnTo DEF SubscribeLink
  <2> QED BY <2>1, <2>2 DEF LockMove, EventsRest, CallTo, InLock
<1>4. CASE ~(SubscribeNet(t) \/ SubscribeLock(t) \/ SubscribeLink(t))
  <2>1. UNCHANGED <<scan, accepted, refused, ev, subscribeLock>> /\ valid' \subseteq valid
    BY <1>4 DEF CallStep, SubscribeCheck, SubscribeBad, UnSubscribeNet, UnSubscribeEnd, RenewNet,
       RenewEnd, AutoRenewFailed, AutoRenewCallback, UnregisterLoop, UnregisterNet, UnregisterFree,
       subs, locks, events
  <2>2. \/ Return(t)
        \/ \E p \in Pcs \ {"net", "link"} : Goto(t, p)
        \/ call[t].op # "subscribe" /\ \E p \in Pcs : Goto(t, p)
        \/ /\ call[t].op # "subscribe"
           /\ \E ok \in BOOLEAN, l \in Leases :
                call' = [call EXCEPT ![t].pc = "end", ![t].ok = ok, ![t].timeout = l]
    BY <1>4 DEF CallStep, SubscribeCheck, SubscribeBad, UnSubscribeNet, UnSubscribeEnd, RenewNet,
       RenewEnd, RenewalFails, AutoRenewFailed, AutoRenewCallback, UnregisterLoop, UnregisterNet, UnregisterFree,
       At, Pcs
  <2>3. /\ \A u \in Threads : u # t => call'[u] = call[u]
        /\ ~InLock(call'[t])
    <3>1. CASE Return(t)
      BY <1>0, <3>1, ReturnTo DEF CallTo, InLock
    <3>2. ASSUME NEW p \in Pcs, Goto(t, p), p \notin {"net", "link"} \/ call[t].op # "subscribe"
          PROVE  /\ \A u \in Threads : u # t => call'[u] = call[u]
                 /\ ~InLock(call'[t])
      <4>1. CallTo(t, call[t].op, p, call[t].c, call[t].s, call[t].id)
        BY <1>0, <3>2, GotoTo
      <4> QED BY <3>2, <4>1 DEF CallTo, InLock
    <3>3. ASSUME call[t].op # "subscribe", NEW ok \in BOOLEAN, NEW l \in Leases,
                 call' = [call EXCEPT ![t].pc = "end", ![t].ok = ok, ![t].timeout = l]
          PROVE  /\ \A u \in Threads : u # t => call'[u] = call[u]
                 /\ ~InLock(call'[t])
      <4>1. CallTo(t, call[t].op, "end", call[t].c, call[t].s, call[t].id)
        <5>1. l \in {"finite", "infinite"}
          BY CtrlptConstants
        <5> QED BY <1>0, <3>3, <5>1, RenewedTo DEF Pcs
      <4> QED BY <3>3, <4>1 DEF CallTo, InLock
    <3> QED BY <2>2, <3>1, <3>2, <3>3
  <2> QED BY <2>1, <2>3 DEF EventsRest, LockMove
<1> QED BY <1>1, <1>2, <1>3, <1>4

\* A subscription that has left the list of a handle is not put there again.
LEMMA GoneStays ==
  ASSUME Types, NEW c \in Clients, NEW s \in Sid, s <= lastSid, Gone(c, s),
         \/ \E t \in Threads : Moves(t)
         \/ \E e : Due(e) \/ Moot(e)
         \/ NotifyRest
  PROVE  Gone(c, s)'
<1>0. s \in Nat /\ lastSid \in Nat /\ s # lastSid + 1 /\ s # None
  BY TypesFields, ConstantTypes
<1>1. CASE NotifyRest \/ \E e : Due(e) \/ Moot(e)
  BY <1>1 DEF NotifyRest, Held, Due, Moot, Gone
<1>2. ASSUME NEW t \in Threads, Moves(t) PROVE Gone(c, s)'
  <2>1. \A u \in Threads : u # t => call'[u] = call[u]
    BY <1>2 DEF Moves, Quiet, Granted, Linked, Cancels, Cancelled, Removed, Removes, Begins, Answered,
       Renewed, CallTo
  <2>2. ~(Links(call'[t]) /\ call'[t].s = s)
    BY <1>0, <1>2 DEF Moves, Quiet, Granted, Linked, Cancels, Cancelled, Removed, Removes, Begins, Answered,
       Renewed, CallTo, Links
  <2>3. s \notin ClientSubList'[c]
    <3>1. CASE Linked(t)
      BY <3>1, TypesFields DEF Linked, Gone
    <3>2. CASE ~Linked(t)
      <4>1. UNCHANGED ClientSubList \/ Removed(t)
        BY <1>2, <3>2 DEF Moves, Quiet, Held, Granted, Cancels, Cancelled, Begins, Answered, Renewed
      <4>2. ASSUME Removed(t) PROVE ClientSubList'[c] \subseteq ClientSubList[c]
        BY <4>2, TypesFields DEF Removed, Removes, RemoveClientSub
      <4> QED BY <4>1, <4>2 DEF Gone
    <3> QED BY <3>1, <3>2
  <2> QED BY <2>1, <2>2, <2>3 DEF Gone
<1> QED BY <1>1, <1>2


\* Where the first event of subscription s is does not go wrong: what the state says
\* of it.
FirstRight(s) ==
  /\ s > lastSid => ev[s] = "none" /\ s \notin refused
  /\ s \in refused => \A c \in valid : Gone(c, s)
  /\ ev[s] \in {"look", "wait", "again", "callback"} /\ s \notin accepted =>
       \A c \in valid \ scan[s] : Gone(c, s)

LEMMA CallFirst ==
  ASSUME Types, Types', FirstInv, NEW t \in Threads, EventsRest, LockMove(t),
         \/ \E u \in Threads : Moves(u)
         \/ \E e : Due(e) \/ Moot(e)
  PROVE  FirstInv'
<1>0. /\ lastSid \in Nat /\ lastSid' \in Nat /\ Sid \subseteq Nat
      /\ lastSid' \in {lastSid, lastSid + 1}
  <2>1. lastSid' \in {lastSid, lastSid + 1}
    BY DEF Moves, Quiet, Held, Granted, Linked, Cancels, Cancelled, Removed, Removes, Begins, Answered,
       Renewed, Due, Moot
  <2> QED BY <2>1, TypesFields, ConstantTypes
<1>1. LockKept'
  <2>1. \A s \in Sid : ev'[s] = "again" => ev[s] = "again"
    BY DEF EventsRest
  <2>2. ASSUME NEW u \in Threads, InLock(call'[u]) PROVE subscribeLock' = Holds("call", u)
    <3>1. CASE subscribeLock = NoOne /\ subscribeLock' = Holds("call", t)
      <4>1. u = t \/ ~InLock(call[u])
        BY <3>1 DEF FirstInv, LockKept, InLock, NoOne, Holds
      <4> QED BY <2>2, <3>1, <4>1 DEF LockMove
    <3>2. CASE UNCHANGED subscribeLock /\ (InLock(call'[t]) => InLock(call[t]))
      BY <2>2, <3>2 DEF FirstInv, LockKept, LockMove, InLock
    <3>3. CASE InLock(call[t]) /\ ~InLock(call'[t])
      <4>1. u # t /\ InLock(call[u])
        BY <2>2, <3>3 DEF LockMove
      <4>2. Holds("call", u) = Holds("call", t)
        BY <3>3, <4>1 DEF FirstInv, LockKept, InLock
      <4> QED BY <4>1, <4>2 DEF Holds
    <3> QED BY <3>1, <3>2, <3>3 DEF LockMove
  <2>3. ASSUME NEW s \in Sid, ev'[s] = "again" PROVE subscribeLock' = Holds("event", s)
    <3>1. subscribeLock = Holds("event", s)
      BY <2>1, <2>3 DEF FirstInv, LockKept
    <3>2. subscribeLock # NoOne /\ ~InLock(call[t])
      BY <3>1 DEF FirstInv, LockKept, InLock, NoOne, Holds
    <3> QED BY <3>1, <3>2 DEF LockMove
  <2> QED BY <2>2, <2>3 DEF LockKept, InLock
<1>2. ASSUME NEW s \in Sid PROVE FirstRight(s)'
  <2>1. FirstRight(s)
    BY DEF FirstInv, FirstRight
  <2>2. s > lastSid' => ev'[s] = "none" /\ s \notin refused'
    <3>1. s > lastSid' => s > lastSid /\ s # lastSid'
      BY <1>0
    <3> QED BY <2>1, <3>1 DEF FirstRight, EventsRest
  <2>3. s <= lastSid => \A c \in valid' : Gone(c, s) => Gone(c, s)'
    BY TypesFields, GoneStays DEF EventsRest
  <2>4. s \in refused' => \A c \in valid' : Gone(c, s)'
    <3>1. s \in refused' => s <= lastSid /\ \A c \in valid : Gone(c, s)
      BY <1>0, <2>1 DEF FirstRight, EventsRest
    <3> QED BY <2>3, <3>1 DEF EventsRest
  <2>5. ev'[s] \in {"look", "wait", "again", "callback"} /\ s \notin accepted' =>
          \A c \in valid' \ scan'[s] : Gone(c, s)'
    <3>1. ASSUME ev'[s] \in {"look", "wait", "again", "callback"}, s \notin accepted'
          PROVE  s <= lastSid /\ \A c \in valid \ scan[s] : Gone(c, s)
      BY <1>0, <2>1, <3>1 DEF FirstRight, EventsRest
    <3> QED BY <2>3, <3>1 DEF EventsRest
  <2> QED BY <2>2, <2>4, <2>5 DEF FirstRight
<1> QED BY <1>1, <1>2 DEF FirstInv, FirstRight

LEMMA NotifyFirst ==
  ASSUME Types, Types', FirstInv, NEW r \in Sid, Notify(r)
  PROVE  FirstInv'
<1>0. NotifyRest
  BY NotifyStep
<1>1. \A c, s : Gone(c, s)' <=> Gone(c, s)
  BY <1>0 DEF Gone, NotifyRest, Held
<1>2. \A s \in Sid : s # r => /\ ev'[s] = ev[s] /\ scan'[s] = scan[s]
                              /\ (s \in refused' <=> s \in refused)
                              /\ (s \in accepted' <=> s \in accepted)
  BY DEF Notify, NotifyStart, NotifyLook, NotFound, ScanOn, NotifyWait, NotifyAgain, NotifyCallback,
     NotifyEnd, Types, TypeOK
<1>3. /\ scan[r] \subseteq Nat
      /\ ev[r] \in {"wait", "again", "callback"} => scan[r] # {}
      /\ scan[r] # {} => Least(scan[r]) \in scan[r]
  <2>1. scan[r] \subseteq Nat
    BY ConstantTypes DEF Types
  <2> QED BY <2>1, LeastIn DEF Types
<1>4. lastSid \in Nat /\ r \in Nat /\ UNCHANGED <<lastSid, valid, call>>
  BY <1>0, TypesFields, ConstantTypes DEF NotifyRest, Held
<1>5. FirstRight(r) /\ LockKept
  BY DEF FirstInv, FirstRight
<1> DEFINE L == Least(scan[r])
<1>6. ev \in [Sid -> {"none", "sent", "look", "wait", "again", "callback", "done"}]
      /\ scan \in [Sid -> SUBSET Clients]
  BY DEF Types, TypeOK
<1> HIDE DEF L
<1>7. LockKept' /\ FirstRight(r)'
  <2>1. CASE NotifyStart(r)
    <3>1. ev[r] = "sent" /\ r <= lastSid /\ UNCHANGED <<subscribeLock, accepted>>
      BY <1>4, <1>5, <2>1 DEF NotifyStart, FirstRight, locks
    <3>2. /\ scan'[r] = valid /\ ev'[r] \in {"look", "done"}
          /\ r \in refused' => r \in refused \/ valid = {}
          /\ \A s \in Sid : ev'[s] = "again" => ev[s] = "again"
      BY <1>6, <2>1 DEF NotifyStart
    <3>3. LockKept'
      BY <1>4, <1>5, <3>1, <3>2 DEF LockKept
    <3>4. FirstRight(r)'
      BY <1>1, <1>4, <1>5, <3>1, <3>2 DEF FirstRight
    <3> QED BY <3>3, <3>4
  <2>2. CASE NotifyLook(r)
    <3>1. /\ ev[r] = "look" /\ r <= lastSid /\ L \in scan[r]
          /\ UNCHANGED <<subscribeLock, accepted, refused>>
      BY <1>3, <1>4, <1>5, <2>2 DEF NotifyLook, FirstRight, locks, L
    <3>2. /\ ev'[r] \in {"look", "wait", "callback"}
          /\ \/ scan'[r] = scan[r]
             \/ scan'[r] = scan[r] \ {L} /\ L \notin valid
          /\ \A s \in Sid : ev'[s] = "again" => ev[s] = "again"
      BY <1>6, <2>2 DEF NotifyLook, NotFound, ScanOn, L
    <3>3. LockKept'
      BY <1>4, <1>5, <3>1, <3>2 DEF LockKept
    <3>4. FirstRight(r)'
      <4>1. valid \ scan'[r] = valid \ scan[r]
        BY <3>2
      <4> QED BY <1>1, <1>4, <1>5, <3>1, <3>2, <4>1 DEF FirstRight
    <3> QED BY <3>3, <3>4
  <2>3. CASE NotifyWait(r)
    <3>1. /\ ev[r] = "wait" /\ r <= lastSid /\ subscribeLock = NoOne
          /\ subscribeLock' = Holds("event", r) /\ UNCHANGED <<accepted, refused, scan>>
          /\ ev' = [ev EXCEPT ![r] = "again"]
      BY <1>4, <1>5, <2>3 DEF NotifyWait, FirstRight
    <3>2. /\ \A s \in Sid : ev[s] # "again"
          /\ \A t \in Threads : ~(call[t].op = "subscribe" /\ call[t].pc \in {"net", "link"})
      BY <1>5, <3>1 DEF LockKept, NoOne, Holds
    <3>3. LockKept'
      BY <1>4, <1>6, <3>1, <3>2 DEF LockKept
    <3>4. FirstRight(r)'
      BY <1>1, <1>4, <1>5, <1>6, <3>1 DEF FirstRight
    <3> QED BY <3>3, <3>4
  <2>4. CASE NotifyAgain(r)
    <3>1. /\ ev[r] = "again" /\ r <= lastSid /\ L \in scan[r] /\ subscribeLock' = NoOne
          /\ UNCHANGED <<accepted, refused>>
      BY <1>3, <1>4, <1>5, <2>4 DEF NotifyAgain, FirstRight, L
    <3>2. /\ ev'[r] \in {"look", "callback"}
          /\ \/ scan'[r] = scan[r]
             \/ scan'[r] = scan[r] \ {L} /\ (L \notin valid \/ r \notin ClientSubList[L])
          /\ \A s \in Sid : s # r => ev'[s] = ev[s]
      BY <1>6, <2>4 DEF NotifyAgain, ScanOn, L
    <3>3. subscribeLock = Holds("event", r)
      BY <1>5, <3>1 DEF LockKept
    <3>4. /\ \A s \in Sid : s # r => ev[s] # "again"
          /\ \A t \in Threads : ~(call[t].op = "subscribe" /\ call[t].pc \in {"net", "link"})
      BY <1>5, <3>3 DEF LockKept, Holds
    <3>5. LockKept'
      BY <1>4, <3>2, <3>4 DEF LockKept
    <3>6. \A t \in Threads : ~Links(call[t])
      BY <3>4 DEF Links
    <3>7. \A c \in valid \ scan'[r] : c \in valid \ scan[r] \/ Gone(c, r)
      BY <3>2, <3>6 DEF Gone
    <3>8. FirstRight(r)'
      BY <1>1, <1>4, <1>5, <3>1, <3>2, <3>7 DEF FirstRight
    <3> QED BY <3>5, <3>8
  <2>5. CASE NotifyCallback(r)
    <3>1. /\ ev[r] = "callback" /\ r <= lastSid /\ UNCHANGED <<subscribeLock, refused>>
          /\ r \in accepted' /\ \A s \in Sid : ev'[s] = "again" => ev[s] = "again"
      BY <1>4, <1>5, <1>6, <2>5 DEF NotifyCallback, FirstRight, locks, ScanOn
    <3>2. LockKept'
      BY <1>4, <1>5, <3>1 DEF LockKept
    <3>3. FirstRight(r)'
      BY <1>1, <1>4, <1>5, <3>1 DEF FirstRight
    <3> QED BY <3>2, <3>3
  <2>6. CASE NotifyEnd(r)
    <3>1. /\ ev[r] = "look" /\ r <= lastSid /\ scan[r] = {} /\ UNCHANGED <<subscribeLock, accepted>>
          /\ refused' = refused \cup ({r} \ accepted) /\ ev' = [ev EXCEPT ![r] = "done"]
      BY <1>4, <1>5, <2>6 DEF NotifyEnd, FirstRight, locks
    <3>2. LockKept'
      BY <1>4, <1>5, <1>6, <3>1 DEF LockKept
    <3>3. FirstRight(r)'
      BY <1>1, <1>4, <1>5, <1>6, <3>1 DEF FirstRight
    <3> QED BY <3>2, <3>3
  <2> QED BY <2>1, <2>2, <2>3, <2>4, <2>5, <2>6 DEF Notify
<1>8. ASSUME NEW s \in Sid PROVE FirstRight(s)'
  <2>1. CASE s = r
    BY <1>7, <2>1
  <2>2. CASE s # r
    <3>1. FirstRight(s)
      BY DEF FirstInv, FirstRight
    <3> QED BY <1>1, <1>2, <1>4, <2>2, <3>1 DEF FirstRight
  <2> QED BY <2>1, <2>2
<1> QED BY <1>7, <1>8 DEF FirstInv, FirstRight

LEMMA FirstInit == Init => FirstInv
BY IdleTyped DEF Init, FirstInv, LockKept

LEMMA FirstStep == RenewInv /\ RenewInv' /\ FirstInv /\ [Next]_vars => FirstInv'
<1> SUFFICES ASSUME RenewInv, RenewInv', FirstInv, [Next]_vars PROVE FirstInv'
  OBVIOUS
<1>0. Types /\ Types' /\ LinkAlone
  BY DEF RenewInv
<1>1. ASSUME NEW t \in Threads,
             Begin(t) \/ CallStep(t) \/ \E e \in renewJobs : GenaAutoRenewSubscription(t, e)
      PROVE  FirstInv'
  <2>1. EventsRest /\ LockMove(t)
    BY <1>0, <1>1, BeginLock, CallLock
  <2>2. (\E u \in Threads : Moves(u)) \/ (\E e : Due(e) \/ Moot(e))
    <3>1. CASE Begin(t)
      BY <1>0, <3>1, BeginStep DEF Moves
    <3>2. CASE CallStep(t)
      BY <1>0, <3>2, SubscribeStep, LinkStep, UnSubscribeStep, RenewNetStep, RenewEndStep, FailedStep,
         UnregisterStep DEF CallStep, Moves
    <3>3. ASSUME NEW e \in renewJobs, GenaAutoRenewSubscription(t, e)
          PROVE  Moves(t) \/ Moot(e)
      BY <1>0, <3>3, AutoStep DEF Moves
    <3> QED BY <1>1, <3>1, <3>2, <3>3
  <2> QED BY <1>0, <2>1, <2>2, CallFirst
<1>2. ASSUME NEW e \in timers, RenewalDue(e) PROVE FirstInv'
  <2>1. UNCHANGED <<ClientSubList, valid, call, lastSid, subscribeLock, ev, scan, accepted, refused>>
    BY <1>2 DEF RenewalDue, locks, events
  <2> QED BY <2>1 DEF FirstInv, LockKept, Gone
<1>3. CASE UNCHANGED vars
  BY <1>3 DEF vars, subs, locks, events, FirstInv, LockKept, Gone
<1> QED BY <1>0, <1>1, <1>2, <1>3, NotifyFirst DEF Next

\* The first event of a subscription is not refused because it overtakes the answer
\* to the SUBSCRIBE request (gena_process_notification_event, genaSubscribe).
THEOREM FirstEventStaysKept == Spec => []FirstEventKept
<1>1. RenewInv /\ FirstInv => FirstEventKept
  BY TypesFields DEF RenewInv, FirstInv, FirstEventKept, Gone
<1> QED BY <1>1, RenewInit, RenewStep, FirstInit, FirstStep, PTL DEF Spec

-----------------------------------------------------------------------------
(* Calls, one at a time.  Effect(i) says what a step may do to call i, its *)
(* request and what the application did for it, and that the other calls   *)
(* stay; every step of Next is an Effect of some call or concerns none     *)
(* (EveryStep).  OnceInv says where a request is on its way, and RightInv  *)
(* what it carries and what the response to it may be; both are kept by    *)
(* every Effect.                                                           *)

\* The records of a call with these fields.
Cp(p, a, r, c, v) == [pc : {p}, ask : {a}, req : {r}, code : {c}, value : {v}]
Dv(p, t, n, g, w, s, h) ==
    [pc : {p}, type : {t}, name : {n}, arg : {g}, answer : {w}, resp : {s}, short : {h}]

Shapes ==
    /\ cp = [i \in Call |-> cp[i]] /\ dev = [i \in Call |-> dev[i]]
    /\ \A i \in Call :
         /\ cp[i] \in Cp(cp[i].pc, cp[i].ask, cp[i].req, cp[i].code, cp[i].value)
         /\ dev[i] \in Dv(dev[i].pc, dev[i].type, dev[i].name, dev[i].arg, dev[i].answer,
                          dev[i].resp, dev[i].short)
    /\ Len(performed) \in Nat /\ performed = [k \in 1 .. Len(performed) |-> performed[k]]

\* The application was not asked to do anything for the call, or once, to do d.
NotDone(i) == \A k \in DOMAIN performed : performed[k].call # i
DoneOnce(i, d) ==
    \E k \in DOMAIN performed : /\ performed[k] = d /\ d.call = i
                                /\ \A l \in DOMAIN performed : performed[l].call = i => l = k
Deed(i) == [call |-> i, name |-> dev[i].name, type |-> dev[i].type, arg |-> dev[i].arg,
            answer |-> dev[i].answer]

\* Where the request is on the way to the application and back.  A server in front
\* of the device that refuses POST keeps the request from the application.
OnItsWay(i) ==
    /\ cp[i].pc \in {"idle", "sent", "done"}
    /\ dev[i].pc \in {"none", "wire", "call", "answer", "replied", "closed"}
    /\ cp[i].pc = "idle" => cp[i] = S!IdleCp /\ dev[i] = S!IdleDev
    /\ dev[i].pc \in {"none", "wire", "call"} => NotDone(i)
    /\ dev[i].pc = "answer" => DoneOnce(i, Deed(i))
    /\ dev[i].pc \in {"replied", "closed"} => NotDone(i) \/ DoneOnce(i, Deed(i))
    /\ dev[i].pc = "replied" /\ dev[i].resp.status = 405 => NotDone(i) /\ cp[i].req.method = "POST"

OnceInv == Shapes /\ \A i \in Call : OnItsWay(i)

-----------------------------------------------------------------------------
(* One call moves *)

\* What the control point knows of call i gets these fields; the other calls stay.
CpTo(i, p, a, r, c, v) ==
    /\ cp' = [j \in Call |-> cp'[j]]
    /\ cp'[i] \in Cp(p, a, r, c, v)
    /\ \A j \in Call : j # i => cp'[j] = cp[j]
\* The same for the device's thread.
DevTo(i, p, t, n, g, w, s, h) ==
    /\ dev' = [j \in Call |-> dev'[j]]
    /\ dev'[i] \in Dv(p, t, n, g, w, s, h)
    /\ \A j \in Call : j # i => dev'[j] = dev[j]

LEMMA CpFields ==
  ASSUME NEW p, NEW a, NEW r, NEW c, NEW v, NEW x \in Cp(p, a, r, c, v)
  PROVE  x.pc = p /\ x.ask = a /\ x.req = r /\ x.code = c /\ x.value = v
BY DEF Cp

LEMMA DvFields ==
  ASSUME NEW p, NEW t, NEW n, NEW g, NEW w, NEW s, NEW h, NEW x \in Dv(p, t, n, g, w, s, h)
  PROVE  /\ x.pc = p /\ x.type = t /\ x.name = n /\ x.arg = g /\ x.answer = w /\ x.resp = s
         /\ x.short = h
BY DEF Dv

LEMMA CpSends ==
  ASSUME Shapes, NEW i \in Call, NEW a, NEW r,
         cp' = [cp EXCEPT ![i].pc = "sent", ![i].ask = a, ![i].req = r]
  PROVE  CpTo(i, "sent", a, r, cp[i].code, cp[i].value)
BY DEF Shapes, CpTo, Cp

LEMMA CpRefused ==
  ASSUME Shapes, NEW i \in Call, NEW a, NEW c,
         cp' = [cp EXCEPT ![i].pc = "done", ![i].ask = a, ![i].code = c]
  PROVE  CpTo(i, "done", a, cp[i].req, c, cp[i].value)
BY DEF Shapes, CpTo, Cp

LEMMA CpReturns ==
  ASSUME Shapes, NEW i \in Call, NEW c, NEW v, S!Returns(i, c, v)
  PROVE  CpTo(i, "done", cp[i].ask, cp[i].req, c, v)
BY DEF Shapes, CpTo, Cp, S!Returns

LEMMA CpStray ==
  ASSUME Shapes, NEW i \in Call, NEW r, cp' = [cp EXCEPT ![i].pc = "done", ![i].req = r]
  PROVE  CpTo(i, "done", cp[i].ask, r, cp[i].code, cp[i].value)
BY DEF Shapes, CpTo, Cp

LEMMA CpRepeats ==
  ASSUME Shapes, NEW i \in Call, NEW r, cp' = [cp EXCEPT ![i].req = r]
  PROVE  CpTo(i, cp[i].pc, cp[i].ask, r, cp[i].code, cp[i].value)
BY DEF Shapes, CpTo, Cp

LEMMA CpStays ==
  ASSUME Shapes, NEW i \in Call, UNCHANGED cp
  PROVE  CpTo(i, cp[i].pc, cp[i].ask, cp[i].req, cp[i].code, cp[i].value)
BY DEF Shapes, CpTo

LEMMA DevGoes ==
  ASSUME Shapes, NEW i \in Call, NEW p, dev' = [dev EXCEPT ![i].pc = p]
  PROVE  DevTo(i, p, dev[i].type, dev[i].name, dev[i].arg, dev[i].answer, dev[i].resp, dev[i].short)
BY DEF Shapes, DevTo, Dv

LEMMA DevReplies ==
  ASSUME Shapes, NEW i \in Call, NEW s, S!Reply(i, s)
  PROVE  DevTo(i, "replied", dev[i].type, dev[i].name, dev[i].arg, dev[i].answer, s, dev[i].short)
BY DEF Shapes, DevTo, Dv, S!Reply

LEMMA DevRepliesShort ==
  ASSUME Shapes, NEW i \in Call, NEW s, S!ReplyShort(i, s)
  PROVE  DevTo(i, "replied", dev[i].type, dev[i].name, dev[i].arg, dev[i].answer, s, TRUE)
BY DEF Shapes, DevTo, Dv, S!ReplyShort

LEMMA DevAnswers ==
  ASSUME Shapes, NEW i \in Call, NEW w, dev' = [dev EXCEPT ![i].pc = "answer", ![i].answer = w]
  PROVE  DevTo(i, "answer", dev[i].type, dev[i].name, dev[i].arg, w, dev[i].resp, dev[i].short)
BY DEF Shapes, DevTo, Dv

LEMMA DevTakes ==
  ASSUME Shapes, NEW i \in Call, NEW t, NEW n, NEW g,
         dev' = [dev EXCEPT ![i].pc = "call", ![i].type = t, ![i].name = n, ![i].arg = g]
  PROVE  DevTo(i, "call", t, n, g, dev[i].answer, dev[i].resp, dev[i].short)
BY DEF Shapes, DevTo, Dv

LEMMA DevRestarts ==
  ASSUME Shapes, NEW i \in Call, dev' = [dev EXCEPT ![i] = [S!IdleDev EXCEPT !.pc = "wire"]]
  PROVE  DevTo(i, "wire", S!NoType, S!NoValue, S!NoValue, S!NoneYet, S!NoResponse, FALSE)
BY DEF Shapes, DevTo, Dv, S!IdleDev

LEMMA DevStays ==
  ASSUME Shapes, NEW i \in Call, UNCHANGED dev
  PROVE  DevTo(i, dev[i].pc, dev[i].type, dev[i].name, dev[i].arg, dev[i].answer, dev[i].resp,
               dev[i].short)
BY DEF Shapes, DevTo

LEMMA IdleFields ==
  /\ S!IdleCp \in Cp("idle", S!NoAsk, S!NoRequest, 0, S!NoValue)
  /\ S!IdleDev \in Dv("none", S!NoType, S!NoValue, S!NoValue, S!NoneYet, S!NoResponse, FALSE)
BY DEF S!IdleCp, S!IdleDev, Cp, Dv

\* The application was asked for no more, and for the others as before.
Same(i) == (NotDone(i)' <=> NotDone(i)) /\ \A d : DoneOnce(i, d)' <=> DoneOnce(i, d)
Only(i) == \A j \in Call : j # i => cp'[j] = cp[j] /\ dev'[j] = dev[j] /\ Same(j)

CpIs(i, p, a, r, c, v) ==
    cp'[i].pc = p /\ cp'[i].ask = a /\ cp'[i].req = r /\ cp'[i].code = c /\ cp'[i].value = v
DevIs(i, p, t, n, g, w, s, h) ==
    /\ dev'[i].pc = p /\ dev'[i].type = t /\ dev'[i].name = n /\ dev'[i].arg = g
    /\ dev'[i].answer = w /\ dev'[i].resp = s /\ dev'[i].short = h

LEMMA ShapesKept ==
  ASSUME Shapes, NEW i \in Call,
         NEW p, NEW a, NEW r, NEW c, NEW v, CpTo(i, p, a, r, c, v),
         NEW q, NEW t, NEW n, NEW g, NEW w, NEW s, NEW h, DevTo(i, q, t, n, g, w, s, h)
  PROVE  /\ cp' = [j \in Call |-> cp'[j]] /\ dev' = [j \in Call |-> dev'[j]]
         /\ \A j \in Call :
              /\ cp'[j] \in Cp(cp'[j].pc, cp'[j].ask, cp'[j].req, cp'[j].code, cp'[j].value)
              /\ dev'[j] \in Dv(dev'[j].pc, dev'[j].type, dev'[j].name, dev'[j].arg, dev'[j].answer,
                                dev'[j].resp, dev'[j].short)
         /\ CpIs(i, p, a, r, c, v) /\ DevIs(i, q, t, n, g, w, s, h)
         /\ \A j \in Call : j # i => cp'[j] = cp[j] /\ dev'[j] = dev[j]
<1>1. CpIs(i, p, a, r, c, v)
  BY CpFields DEF CpTo, CpIs
<1>2. DevIs(i, q, t, n, g, w, s, h)
  BY DvFields DEF DevTo, DevIs
<1>3. /\ cp'[i] \in Cp(cp'[i].pc, cp'[i].ask, cp'[i].req, cp'[i].code, cp'[i].value)
      /\ dev'[i] \in Dv(dev'[i].pc, dev'[i].type, dev'[i].name, dev'[i].arg, dev'[i].answer,
                        dev'[i].resp, dev'[i].short)
  <2>1. cp'[i] \in Cp(p, a, r, c, v) /\ dev'[i] \in Dv(q, t, n, g, w, s, h)
    BY DEF CpTo, DevTo
  <2> QED BY <1>1, <1>2, <2>1 DEF CpIs, DevIs
<1>4. \A j \in Call : j # i => cp'[j] = cp[j] /\ dev'[j] = dev[j]
  BY DEF CpTo, DevTo
<1>5. ASSUME NEW j \in Call
      PROVE  /\ cp'[j] \in Cp(cp'[j].pc, cp'[j].ask, cp'[j].req, cp'[j].code, cp'[j].value)
             /\ dev'[j] \in Dv(dev'[j].pc, dev'[j].type, dev'[j].name, dev'[j].arg, dev'[j].answer,
                               dev'[j].resp, dev'[j].short)
  <2>1. CASE j = i
    BY <1>3, <2>1
  <2>2. CASE j # i
    <3>1. cp'[j] = cp[j] /\ dev'[j] = dev[j]
      BY <1>4, <2>2
    <3> QED BY <3>1 DEF Shapes
  <2> QED BY <2>1, <2>2
<1> QED BY <1>1, <1>2, <1>4, <1>5 DEF CpTo, DevTo

\* A step in which the application is not called.
LEMMA QuietMove ==
  ASSUME Shapes, NEW i \in Call, UNCHANGED performed,
         NEW p, NEW a, NEW r, NEW c, NEW v, CpTo(i, p, a, r, c, v),
         NEW q, NEW t, NEW n, NEW g, NEW w, NEW s, NEW h, DevTo(i, q, t, n, g, w, s, h)
  PROVE  /\ Shapes' /\ Only(i) /\ Same(i)
         /\ CpIs(i, p, a, r, c, v) /\ DevIs(i, q, t, n, g, w, s, h)
<1>1. \A j : Same(j)
  BY DEF Same, NotDone, DoneOnce
<1> QED BY <1>1, ShapesKept DEF Shapes, Only

\* The step in which it is.
LEMMA Performs ==
  ASSUME Shapes, NEW i \in Call, NEW d, d.call = i, performed' = Append(performed, d), NotDone(i)
  PROVE  /\ Len(performed') \in Nat
         /\ performed' = [k \in 1 .. Len(performed') |-> performed'[k]]
         /\ DoneOnce(i, d)' /\ ~NotDone(i)'
         /\ \A j \in Call : j # i => Same(j)
<1> DEFINE n == Len(performed)
           Deeds == {performed[k] : k \in 1 .. n} \cup {d}
<1>1. performed \in Seq(Deeds) /\ n \in Nat /\ DOMAIN performed = 1 .. n
  <2>1. n \in Nat /\ performed = [k \in 1 .. n |-> performed[k]]
    BY DEF Shapes
  <2>2. performed \in [1 .. n -> Deeds] /\ DOMAIN performed = 1 .. n
    BY <2>1
  <2> QED BY <2>1, <2>2, SeqDef
<1>2. /\ performed' \in Seq(Deeds) /\ Len(performed') = n + 1
      /\ \A k \in 1 .. n : performed'[k] = performed[k]
      /\ performed'[n + 1] = d
  BY <1>1, AppendProperties
<1>3. /\ DOMAIN performed' = 1 .. n + 1 /\ Len(performed') \in Nat
      /\ performed' = [k \in 1 .. Len(performed') |-> performed'[k]]
  BY <1>1, <1>2, LenProperties
<1> HIDE DEF n, Deeds
<1>4. /\ n + 1 \in DOMAIN performed' /\ n + 1 \notin DOMAIN performed
      /\ \A k \in DOMAIN performed' : k \in DOMAIN performed \/ k = n + 1
      /\ \A k \in DOMAIN performed : k \in DOMAIN performed' /\ performed'[k] = performed[k]
  BY <1>1, <1>2, <1>3
<1>5. DoneOnce(i, d)' /\ ~NotDone(i)'
  BY <1>2, <1>4 DEF DoneOnce, NotDone
<1>6. ASSUME NEW j \in Call, j # i
      PROVE  Same(j)
  <2>1. NotDone(j)' <=> NotDone(j)
    BY <1>2, <1>4, <1>6 DEF NotDone
  <2>2. ASSUME NEW e, DoneOnce(j, e) PROVE DoneOnce(j, e)'
    BY <1>2, <1>4, <1>6, <2>2 DEF DoneOnce
  <2>3. ASSUME NEW e, DoneOnce(j, e)' PROVE DoneOnce(j, e)
    BY <1>2, <1>4, <1>6, <2>3 DEF DoneOnce
  <2> QED BY <2>1, <2>2, <2>3 DEF Same
<1> QED BY <1>3, <1>5, <1>6
-----------------------------------------------------------------------------
(* What the steps do *)

\* The request for what was asked.
RequestFor(a) == IF a.kind = "var" THEN S!VarRequest(a)
                 ELSE IF a.hdr THEN S!ActionRequestEx(a) ELSE S!ActionRequest(a)

TroubleCodes ==
    {S!UPNP_E_OUTOF_MEMORY, S!UPNP_E_BAD_HTTPMSG, S!UPNP_E_SOCKET_CONNECT, S!UPNP_E_TIMEDOUT}

IdleCall(i) == cp[i] = S!IdleCp /\ dev[i] = S!IdleDev
DevWire(i) == DevIs(i, "wire", S!NoType, S!NoValue, S!NoValue, S!NoneYet, S!NoResponse, FALSE)
CpSame(i) == CpIs(i, cp[i].pc, cp[i].ask, cp[i].req, cp[i].code, cp[i].value)
DevSame(i) == DevIs(i, dev[i].pc, dev[i].type, dev[i].name, dev[i].arg, dev[i].answer, dev[i].resp,
                    dev[i].short)

\* A call is refused or sends its request, or another control point does.
Starts(i) ==
    /\ IdleCall(i) /\ Same(i)
    /\ \/ \E a \in Asks[i] :
            /\ a.kind \in {"action", "var"}
            /\ \/ CpIs(i, "sent", a, RequestFor(a), 0, S!NoValue) /\ DevWire(i)
               \/ \E c : /\ CpIs(i, "done", a, S!NoRequest, c, S!NoValue) /\ DevSame(i)
                         /\ c \in TroubleCodes \/ (c # S!UPNP_E_SUCCESS /\ ~S!Proper(a))
       \/ \E r : CpIs(i, "done", S!NoAsk, r, 0, S!NoValue) /\ DevWire(i)

\* A call sends its request again, gives up or reads the response.
Goes(i) ==
    /\ cp[i].pc = "sent" /\ Same(i)
    /\ \/ /\ dev[i].pc = "replied" /\ S!Again(cp[i].req, dev[i].resp)
          /\ CpIs(i, "sent", cp[i].ask, S!add_man_header(cp[i].req), cp[i].code, cp[i].value)
          /\ DevWire(i)
       \/ \E c \in TroubleCodes :
            /\ CpIs(i, "done", cp[i].ask, cp[i].req, c, S!NoValue)
            /\ \/ DevSame(i)
               \/ /\ dev[i].pc = "wire"
                  /\ DevIs(i, "closed", dev[i].type, dev[i].name, dev[i].arg, dev[i].answer,
                           dev[i].resp, dev[i].short)
       \/ /\ dev[i].pc = "replied" /\ ~S!Again(cp[i].req, dev[i].resp) /\ DevSame(i)
          /\ LET o == S!get_response_value(cp[i].ask, dev[i].resp)
             IN  CpIs(i, "done", cp[i].ask, cp[i].req, o.code, o.value)

\* The device refuses the request, takes it, calls the application, or answers.
RefusedWith(i, s) ==
    \/ s = S!StatusResponse(405) /\ cp[i].req.method = "POST"
    \/ s = S!StatusResponse(404) /\ S!DevicesWith(cp[i].req.path, cp[i].req.af) = {}
    \/ LET r == cp[i].req
           n == S!Refusal(r, S!ServiceFor(r.path, r.af).type)
       IN  S!DevicesWith(r.path, r.af) # {} /\ n # 0 /\ s = S!StatusResponse(n)
ShortWith(s) == s \in {S!StatusResponse(500), S!send_error_response(S!SOAP_MEMORY_OUT)}
AnswerTo(i) == IF dev[i].name = S!NoValue THEN S!handle_query_variable(dev[i].answer)
               ELSE S!handle_invoke_action(dev[i].name, dev[i].answer)
Handles(i) ==
    /\ CpSame(i)
    /\ \/ /\ dev[i].pc \in {"wire", "call"} /\ Same(i)
          /\ \E s : \/ /\ RefusedWith(i, s)
                       /\ DevIs(i, "replied", dev[i].type, dev[i].name, dev[i].arg,
                                dev[i].answer, s, dev[i].short)
                    \/ /\ ShortWith(s)
                       /\ DevIs(i, "replied", dev[i].type, dev[i].name, dev[i].arg,
                                dev[i].answer, s, TRUE)
       \/ /\ dev[i].pc = "wire" /\ Same(i)
          /\ LET r == cp[i].req
                 t == S!ServiceFor(r.path, r.af).type
             IN  /\ S!DevicesWith(r.path, r.af) # {} /\ S!Refusal(r, t) = 0
                 /\ DevIs(i, "call", S!check_soapaction_hdr(r, t), S!ActionNamed(r, t), r.arg,
                          dev[i].answer, dev[i].resp, dev[i].short)
       \/ /\ dev[i].pc = "call"
          /\ \E w \in Answers :
               /\ DevIs(i, "answer", dev[i].type, dev[i].name, dev[i].arg, w, dev[i].resp,
                        dev[i].short)
               /\ DoneOnce(i, Deed(i))' /\ ~NotDone(i)'
       \/ /\ dev[i].pc = "answer" /\ Same(i)
          /\ \/ DevIs(i, "replied", dev[i].type, dev[i].name, dev[i].arg, dev[i].answer,
                      AnswerTo(i), dev[i].short)
             \/ DevIs(i, "replied", dev[i].type, dev[i].name, dev[i].arg, dev[i].answer,
                      S!send_error_response(S!SOAP_ACTION_FAILED), TRUE)
             \/ DevIs(i, "closed", dev[i].type, dev[i].name, dev[i].arg, dev[i].answer, dev[i].resp,
                      dev[i].short)

Effect(i) == Shapes' /\ Only(i) /\ (Starts(i) \/ Goes(i) \/ Handles(i))

LEMMA IdleIs ==
  ASSUME NEW i \in Call, IdleCall(i)
  PROVE  /\ cp[i].pc = "idle" /\ cp[i].ask = S!NoAsk /\ cp[i].req = S!NoRequest
         /\ cp[i].code = 0 /\ cp[i].value = S!NoValue
         /\ dev[i].pc = "none" /\ dev[i].type = S!NoType /\ dev[i].name = S!NoValue
         /\ dev[i].arg = S!NoValue /\ dev[i].answer = S!NoneYet /\ dev[i].resp = S!NoResponse
         /\ dev[i].short = FALSE
BY DEF IdleCall, S!IdleCp, S!IdleDev

LEMMA SendEffect ==
  ASSUME Shapes, NEW i \in Call, IdleCall(i), NEW a \in Asks[i], a.kind \in {"action", "var"},
         S!Send(i, a, RequestFor(a)), UNCHANGED performed
  PROVE  Effect(i)
<1>1. CpTo(i, "sent", a, RequestFor(a), 0, S!NoValue)
  BY CpSends, IdleIs DEF S!Send
<1>2. DevTo(i, "wire", S!NoType, S!NoValue, S!NoValue, S!NoneYet, S!NoResponse, FALSE)
  BY DevGoes, IdleIs DEF S!Send
<1>3. /\ Shapes' /\ Only(i) /\ Same(i) /\ DevWire(i)
      /\ CpIs(i, "sent", a, RequestFor(a), 0, S!NoValue)
  BY <1>1, <1>2, QuietMove DEF DevWire
<1> QED BY <1>3 DEF Effect, Starts

LEMMA RefusedEffect ==
  ASSUME Shapes, NEW i \in Call, IdleCall(i), NEW a \in Asks[i],
         a.kind \in {"action", "var"}, NEW c,
         c \in TroubleCodes \/ (c # S!UPNP_E_SUCCESS /\ ~S!Proper(a)),
         S!Refused(i, a, c), UNCHANGED performed
  PROVE  Effect(i)
<1>1. CpTo(i, "done", a, S!NoRequest, c, S!NoValue)
  BY CpRefused, IdleIs DEF S!Refused
<1>2. DevTo(i, dev[i].pc, dev[i].type, dev[i].name, dev[i].arg, dev[i].answer, dev[i].resp,
            dev[i].short)
  BY DevStays DEF S!Refused
<1>3. /\ Shapes' /\ Only(i) /\ Same(i) /\ DevSame(i)
      /\ CpIs(i, "done", a, S!NoRequest, c, S!NoValue)
  BY <1>1, <1>2, QuietMove DEF DevSame
<1> QED BY <1>3 DEF Effect, Starts

\* The calls of soap_ctrlpt.c, and those of upnpapi.c above them.
LEMMA CodesDiffer ==
  /\ S!UPNP_E_OUTOF_MEMORY \in TroubleCodes
  /\ \A c \in {S!UPNP_E_INVALID_HANDLE, S!UPNP_E_INVALID_PARAM, S!UPNP_E_INVALID_URL,
              S!UPNP_E_INVALID_ACTION} :
       c # S!UPNP_E_SUCCESS
BY DEF TroubleCodes, S!UPNP_E_OUTOF_MEMORY, S!UPNP_E_INVALID_HANDLE, S!UPNP_E_INVALID_PARAM,
       S!UPNP_E_INVALID_URL, S!UPNP_E_INVALID_ACTION, S!UPNP_E_SUCCESS

LEMMA SoapSends ==
  ASSUME Shapes, NEW i \in Call, IdleCall(i), NEW a \in Asks[i], UNCHANGED performed,
         \/ a.kind = "action" /\ ~a.hdr /\ S!SoapSendAction(i, a)
         \/ a.kind = "action" /\ a.hdr /\ S!SoapSendActionEx(i, a)
         \/ a.kind = "var" /\ S!SoapGetServiceVarStatus(i, a)
  PROVE  Effect(i)
<1>1. a.kind \in {"action", "var"}
  OBVIOUS
<1>2. CASE S!Send(i, a, RequestFor(a))
  BY <1>1, <1>2, SendEffect
<1>3. ASSUME NEW c \in {S!UPNP_E_INVALID_URL, S!UPNP_E_INVALID_ACTION},
             S!Refused(i, a, c), ~S!Proper(a)
      PROVE  Effect(i)
  BY <1>1, <1>3, RefusedEffect, CodesDiffer
<1>4. CASE S!OutOfMemory(i, a)
  BY <1>1, <1>4, RefusedEffect, CodesDiffer DEF S!OutOfMemory
<1>5. CASE a.url = "bad" /\ S!Refused(i, a, S!UPNP_E_INVALID_URL)
  BY <1>3, <1>5 DEF S!Proper
<1>6. CASE a.kind = "action" /\ ~S!get_action_name(a) /\ S!Refused(i, a, S!UPNP_E_INVALID_ACTION)
  BY <1>3, <1>6 DEF S!Proper, S!get_action_name
<1>7. CASE a.kind = "action" /\ ~a.hdr /\ S!SoapSendAction(i, a)
  <2>1. RequestFor(a) = S!ActionRequest(a)
    BY <1>7 DEF RequestFor
  <2> QED BY <1>2, <1>4, <1>5, <1>6, <1>7, <2>1 DEF S!SoapSendAction
<1>8. CASE a.kind = "action" /\ a.hdr /\ S!SoapSendActionEx(i, a)
  <2>1. RequestFor(a) = S!ActionRequestEx(a)
    BY <1>8 DEF RequestFor
  <2> QED BY <1>2, <1>4, <1>5, <1>6, <1>8, <2>1 DEF S!SoapSendActionEx
<1>9. CASE a.kind = "var" /\ S!SoapGetServiceVarStatus(i, a)
  <2>1. RequestFor(a) = S!VarRequest(a)
    BY <1>9 DEF RequestFor
  <2> QED BY <1>2, <1>4, <1>5, <1>9, <2>1 DEF S!SoapGetServiceVarStatus
<1> QED BY <1>7, <1>8, <1>9

LEMMA StartEffect ==
  ASSUME OnceInv, NEW i \in Call,
         \/ S!UpnpSendAction(i) \/ S!UpnpSendActionEx(i) \/ S!UpnpGetServiceVarStatus(i)
         \/ S!UpnpThreadDistribution(i) \/ S!Stray(i)
  PROVE  Effect(i)
<1>1. /\ cp[i].pc = "idle" /\ UNCHANGED performed
  BY DEF S!UpnpSendAction, S!UpnpSendActionEx, S!UpnpGetServiceVarStatus,
         S!UpnpThreadDistribution, S!Stray
<1>2. Shapes /\ IdleCall(i)
  BY <1>1 DEF OnceInv, OnItsWay, IdleCall
<1>3. CASE S!Stray(i)
  <2>1. PICK r \in Strays[i] : /\ cp' = [cp EXCEPT ![i].pc = "done", ![i].req = r]
                               /\ dev' = [dev EXCEPT ![i].pc = "wire"]
    BY <1>3 DEF S!Stray
  <2>2. CpTo(i, "done", S!NoAsk, r, 0, S!NoValue)
    BY <1>2, <2>1, CpStray, IdleIs
  <2>3. DevTo(i, "wire", S!NoType, S!NoValue, S!NoValue, S!NoneYet, S!NoResponse, FALSE)
    BY <1>2, <2>1, DevGoes, IdleIs
  <2>4. Shapes' /\ Only(i) /\ Same(i) /\ CpIs(i, "done", S!NoAsk, r, 0, S!NoValue) /\ DevWire(i)
    BY <1>1, <1>2, <2>2, <2>3, QuietMove DEF DevWire
  <2> QED BY <1>2, <2>4 DEF Effect, Starts
<1>4. ASSUME NEW a \in Asks[i], a.kind \in {"action", "var"}, S!ParamsChecked(i, a)
      PROVE  Effect(i)
  <2>1. ~S!Proper(a)
    BY <1>4 DEF S!ParamsChecked, S!Proper, S!MayCall
  <2>2. \E c \in {S!UPNP_E_INVALID_HANDLE, S!UPNP_E_INVALID_PARAM} : S!Refused(i, a, c)
    BY <1>4 DEF S!ParamsChecked
  <2> QED BY <1>1, <1>2, <1>4, <2>1, <2>2, RefusedEffect, CodesDiffer
<1>5. ASSUME NEW a \in Asks[i],
             \/ a.kind = "action" /\ ~a.hdr /\ S!SoapSendAction(i, a)
             \/ a.kind = "action" /\ a.hdr /\ S!SoapSendActionEx(i, a)
             \/ a.kind = "var" /\ S!SoapGetServiceVarStatus(i, a)
      PROVE  Effect(i)
  BY <1>1, <1>2, <1>5, SoapSends
<1>6. CASE S!UpnpSendAction(i)
  BY <1>4, <1>5, <1>6 DEF S!UpnpSendAction
<1>7. CASE S!UpnpSendActionEx(i)
  BY <1>4, <1>5, <1>7 DEF S!UpnpSendActionEx
<1>8. CASE S!UpnpGetServiceVarStatus(i)
  BY <1>4, <1>5, <1>8 DEF S!UpnpGetServiceVarStatus
<1>9. CASE S!UpnpThreadDistribution(i)
  BY <1>5, <1>9 DEF S!UpnpThreadDistribution
<1> QED BY <1>3, <1>6, <1>7, <1>8, <1>9

LEMMA GoesEffect ==
  ASSUME Shapes, NEW i \in Call,
         \/ S!soap_request_and_response(i) \/ S!ReadResponse(i) \/ S!NoAnswer(i)
         \/ S!ConnectFails(i) \/ S!TimesOut(i)
  PROVE  Effect(i)
<1> USE DEF S!UPNP_E_OUTOF_MEMORY, S!UPNP_E_BAD_HTTPMSG, S!UPNP_E_SOCKET_CONNECT, S!UPNP_E_TIMEDOUT
<1>1. cp[i].pc = "sent" /\ UNCHANGED performed
  BY DEF S!soap_request_and_response, S!ReadResponse, S!NoAnswer, S!ConnectFails, S!TimesOut
<1>2. ASSUME NEW c \in TroubleCodes, S!Returns(i, c, S!NoValue), UNCHANGED dev
      PROVE  Effect(i)
  <2>1. CpTo(i, "done", cp[i].ask, cp[i].req, c, S!NoValue)
    BY <1>2, CpReturns
  <2>2. DevTo(i, dev[i].pc, dev[i].type, dev[i].name, dev[i].arg, dev[i].answer, dev[i].resp,
              dev[i].short)
    BY <1>2, DevStays
  <2>3. /\ Shapes' /\ Only(i) /\ Same(i) /\ DevSame(i)
        /\ CpIs(i, "done", cp[i].ask, cp[i].req, c, S!NoValue)
    BY <1>1, <2>1, <2>2, QuietMove DEF DevSame
  <2> QED BY <1>1, <2>3 DEF Effect, Goes
<1>3. CASE S!ConnectFails(i)
  <2>1. CpTo(i, "done", cp[i].ask, cp[i].req, S!UPNP_E_SOCKET_CONNECT, S!NoValue)
    BY <1>3, CpReturns DEF S!ConnectFails
  <2>2. DevTo(i, "closed", dev[i].type, dev[i].name, dev[i].arg, dev[i].answer, dev[i].resp,
              dev[i].short)
    BY <1>3, DevGoes DEF S!ConnectFails
  <2>3. /\ Shapes' /\ Only(i) /\ Same(i)
        /\ CpIs(i, "done", cp[i].ask, cp[i].req, S!UPNP_E_SOCKET_CONNECT, S!NoValue)
        /\ DevIs(i, "closed", dev[i].type, dev[i].name, dev[i].arg, dev[i].answer, dev[i].resp,
                 dev[i].short)
    BY <1>1, <2>1, <2>2, QuietMove
  <2>4. S!UPNP_E_SOCKET_CONNECT \in TroubleCodes /\ dev[i].pc = "wire"
    BY <1>3 DEF TroubleCodes, S!ConnectFails
  <2> QED BY <1>1, <2>3, <2>4 DEF Effect, Goes
<1>4. ASSUME dev[i].pc = "replied", S!Again(cp[i].req, dev[i].resp),
             cp' = [cp EXCEPT ![i].req = S!add_man_header(cp[i].req)],
             dev' = [dev EXCEPT ![i] = [S!IdleDev EXCEPT !.pc = "wire"]]
      PROVE  Effect(i)
  <2>1. CpTo(i, "sent", cp[i].ask, S!add_man_header(cp[i].req), cp[i].code, cp[i].value)
    BY <1>1, <1>4, CpRepeats
  <2>2. DevTo(i, "wire", S!NoType, S!NoValue, S!NoValue, S!NoneYet, S!NoResponse, FALSE)
    BY <1>4, DevRestarts
  <2>3. /\ Shapes' /\ Only(i) /\ Same(i) /\ DevWire(i)
        /\ CpIs(i, "sent", cp[i].ask, S!add_man_header(cp[i].req), cp[i].code, cp[i].value)
    BY <1>1, <2>1, <2>2, QuietMove DEF DevWire
  <2> QED BY <1>1, <1>4, <2>3 DEF Effect, Goes
<1>5. ASSUME dev[i].pc = "replied", ~S!Again(cp[i].req, dev[i].resp), UNCHANGED dev,
             S!Returns(i, S!get_response_value(cp[i].ask, dev[i].resp).code,
                        S!get_response_value(cp[i].ask, dev[i].resp).value)
      PROVE  Effect(i)
  <2> DEFINE o == S!get_response_value(cp[i].ask, dev[i].resp)
  <2>1. CpTo(i, "done", cp[i].ask, cp[i].req, o.code, o.value)
    BY <1>5, CpReturns
  <2>2. DevTo(i, dev[i].pc, dev[i].type, dev[i].name, dev[i].arg, dev[i].answer, dev[i].resp,
              dev[i].short)
    BY <1>5, DevStays
  <2>3. /\ Shapes' /\ Only(i) /\ Same(i) /\ DevSame(i)
        /\ CpIs(i, "done", cp[i].ask, cp[i].req, o.code, o.value)
    BY <1>1, <2>1, <2>2, QuietMove DEF DevSame
  <2> QED BY <1>1, <1>5, <2>3 DEF Effect, Goes
<1>6. CASE S!soap_request_and_response(i)
  <2>1. S!UPNP_E_OUTOF_MEMORY \in TroubleCodes
    BY DEF TroubleCodes
  <2> QED BY <1>2, <1>4, <1>6, <2>1 DEF S!soap_request_and_response
<1>7. CASE S!ReadResponse(i)
  <2>1. S!UPNP_E_OUTOF_MEMORY \in TroubleCodes
    BY DEF TroubleCodes
  <2> QED BY <1>2, <1>5, <1>7, <2>1 DEF S!ReadResponse
<1>8. CASE S!NoAnswer(i) \/ S!TimesOut(i)
  <2>1. S!UPNP_E_BAD_HTTPMSG \in TroubleCodes /\ S!UPNP_E_TIMEDOUT \in TroubleCodes
    BY DEF TroubleCodes
  <2> QED BY <1>2, <1>8, <2>1 DEF S!NoAnswer, S!TimesOut
<1> QED BY <1>3, <1>6, <1>7, <1>8

LEMMA ReplyEffect ==
  ASSUME Shapes, NEW i \in Call, UNCHANGED <<cp, performed>>, NEW s
  PROVE  /\ S!Reply(i, s) =>
              /\ Shapes' /\ Only(i) /\ Same(i) /\ CpSame(i)
              /\ DevIs(i, "replied", dev[i].type, dev[i].name, dev[i].arg, dev[i].answer, s, dev[i].short)
         /\ S!ReplyShort(i, s) =>
              /\ Shapes' /\ Only(i) /\ Same(i) /\ CpSame(i)
              /\ DevIs(i, "replied", dev[i].type, dev[i].name, dev[i].arg, dev[i].answer, s, TRUE)
<1>1. CpTo(i, cp[i].pc, cp[i].ask, cp[i].req, cp[i].code, cp[i].value)
  BY CpStays
<1>2. ASSUME S!Reply(i, s)
      PROVE  /\ Shapes' /\ Only(i) /\ Same(i) /\ CpSame(i)
             /\ DevIs(i, "replied", dev[i].type, dev[i].name, dev[i].arg, dev[i].answer, s, dev[i].short)
  <2>1. DevTo(i, "replied", dev[i].type, dev[i].name, dev[i].arg, dev[i].answer, s, dev[i].short)
    BY <1>2, DevReplies
  <2> QED BY <1>1, <2>1, QuietMove DEF CpSame
<1>3. ASSUME S!ReplyShort(i, s)
      PROVE  /\ Shapes' /\ Only(i) /\ Same(i) /\ CpSame(i)
             /\ DevIs(i, "replied", dev[i].type, dev[i].name, dev[i].arg, dev[i].answer, s, TRUE)
  <2>1. DevTo(i, "replied", dev[i].type, dev[i].name, dev[i].arg, dev[i].answer, s, TRUE)
    BY <1>3, DevRepliesShort
  <2> QED BY <1>1, <2>1, QuietMove DEF CpSame
<1> QED BY <1>2, <1>3

LEMMA DeviceEffect ==
  ASSUME OnceInv, NEW i \in Call, S!DeviceStep(i)
  PROVE  Effect(i)
<1>0. Shapes /\ OnItsWay(i)
  BY DEF OnceInv
<1>1. UNCHANGED cp /\ CpTo(i, cp[i].pc, cp[i].ask, cp[i].req, cp[i].code, cp[i].value)
  BY <1>0, CpStays DEF S!DeviceStep, S!PostRefused, S!soap_device_callback, S!Callback,
                           S!NoMemoryToCall, S!Answer
<1>a. ASSUME NEW s, dev[i].pc \in {"wire", "call"}, RefusedWith(i, s),
             UNCHANGED performed, S!Reply(i, s)
      PROVE  Effect(i)
  <2>1. /\ Shapes' /\ Only(i) /\ Same(i) /\ CpSame(i)
        /\ DevIs(i, "replied", dev[i].type, dev[i].name, dev[i].arg, dev[i].answer, s, dev[i].short)
    BY <1>0, <1>1, <1>a, ReplyEffect
  <2> QED BY <1>a, <2>1 DEF Effect, Handles
<1>b. ASSUME NEW s, dev[i].pc \in {"wire", "call"}, ShortWith(s),
             UNCHANGED performed, S!ReplyShort(i, s)
      PROVE  Effect(i)
  <2>1. /\ Shapes' /\ Only(i) /\ Same(i) /\ CpSame(i)
        /\ DevIs(i, "replied", dev[i].type, dev[i].name, dev[i].arg, dev[i].answer, s, TRUE)
    BY <1>0, <1>1, <1>b, ReplyEffect
  <2> QED BY <1>b, <2>1 DEF Effect, Handles
<1>3. CASE S!PostRefused(i)
  <2>1. RefusedWith(i, S!StatusResponse(405))
    BY <1>3 DEF S!PostRefused, RefusedWith
  <2> QED BY <1>a, <1>3, <2>1 DEF S!PostRefused
<1>4. CASE S!NoMemoryToCall(i)
  <2>1. ShortWith(S!send_error_response(S!SOAP_MEMORY_OUT))
    BY DEF ShortWith
  <2> QED BY <1>b, <1>4, <2>1 DEF S!NoMemoryToCall
<1>5. CASE S!soap_device_callback(i)
  <2> DEFINE r == cp[i].req
             t == S!ServiceFor(r.path, r.af).type
  <2>1. dev[i].pc = "wire" /\ UNCHANGED performed
    BY <1>5 DEF S!soap_device_callback
  <2>2. CASE S!DevicesWith(r.path, r.af) = {} /\ S!Reply(i, S!StatusResponse(404))
    <3>1. RefusedWith(i, S!StatusResponse(404))
      BY <2>2 DEF RefusedWith
    <3> QED BY <1>a, <2>1, <2>2, <3>1
  <2>3. CASE /\ S!DevicesWith(r.path, r.af) # {} /\ S!Refusal(r, t) # 0
             /\ S!Reply(i, S!StatusResponse(S!Refusal(r, t)))
    <3>1. RefusedWith(i, S!StatusResponse(S!Refusal(r, t)))
      BY <2>3 DEF RefusedWith
    <3> QED BY <1>a, <2>1, <2>3, <3>1
  <2>4. CASE S!ReplyShort(i, S!StatusResponse(500))
    <3>1. ShortWith(S!StatusResponse(500))
      BY DEF ShortWith
    <3> QED BY <1>b, <2>1, <2>4, <3>1
  <2>5. CASE S!DevicesWith(r.path, r.af) # {} /\ S!Refusal(r, t) = 0 /\ S!get_dev_service(i, r)
    <3>1. DevTo(i, "call", S!check_soapaction_hdr(r, t), S!ActionNamed(r, t), r.arg, dev[i].answer,
                dev[i].resp, dev[i].short)
      BY <1>0, <2>5, DevTakes DEF S!get_dev_service
    <3>2. /\ Shapes' /\ Only(i) /\ Same(i) /\ CpSame(i)
          /\ DevIs(i, "call", S!check_soapaction_hdr(r, t), S!ActionNamed(r, t), r.arg, dev[i].answer,
                   dev[i].resp, dev[i].short)
      BY <1>0, <1>1, <2>1, <3>1, QuietMove DEF CpSame
    <3> QED BY <2>1, <2>5, <3>2 DEF Effect, Handles
  <2> QED BY <1>5, <2>2, <2>3, <2>4, <2>5 DEF S!soap_device_callback
<1>6. CASE S!Callback(i)
  <2>1. PICK w \in Answers :
          /\ dev' = [dev EXCEPT ![i].pc = "answer", ![i].answer = w]
          /\ performed' = Append(performed, [call |-> i, name |-> dev[i].name, type |-> dev[i].type,
                                             arg |-> dev[i].arg, answer |-> w])
    BY <1>6 DEF S!Callback
  <2>2. DevTo(i, "answer", dev[i].type, dev[i].name, dev[i].arg, w, dev[i].resp, dev[i].short)
    BY <1>0, <2>1, DevAnswers
  <2>3. dev[i].pc = "call" /\ NotDone(i)
    BY <1>0, <1>6 DEF S!Callback, OnItsWay
  <2>d. PICK d : d = [call |-> i, name |-> dev[i].name, type |-> dev[i].type, arg |-> dev[i].arg,
                      answer |-> w]
    OBVIOUS
  <2>e. d.call = i /\ performed' = Append(performed, d)
    BY <2>1, <2>d
  <2>4. /\ Len(performed') \in Nat
        /\ performed' = [k \in 1 .. Len(performed') |-> performed'[k]]
        /\ DoneOnce(i, d)' /\ ~NotDone(i)' /\ \A j \in Call : j # i => Same(j)
    BY <1>0, <2>3, <2>e, Performs
  <2>5. DoneOnce(i, Deed(i))'
    <3>1. Deed(i)' = d
      BY <1>0, <2>2, <2>d, DvFields DEF Deed, DevTo
    <3> QED BY <2>4, <3>1
  <2>6. /\ cp' = [j \in Call |-> cp'[j]] /\ dev' = [j \in Call |-> dev'[j]]
        /\ \A j \in Call :
             /\ cp'[j] \in Cp(cp'[j].pc, cp'[j].ask, cp'[j].req, cp'[j].code, cp'[j].value)
             /\ dev'[j] \in Dv(dev'[j].pc, dev'[j].type, dev'[j].name, dev'[j].arg, dev'[j].answer,
                               dev'[j].resp, dev'[j].short)
        /\ CpSame(i)
        /\ DevIs(i, "answer", dev[i].type, dev[i].name, dev[i].arg, w, dev[i].resp, dev[i].short)
        /\ \A j \in Call : j # i => cp'[j] = cp[j] /\ dev'[j] = dev[j]
    BY <1>0, <1>1, <2>2, ShapesKept DEF CpSame
  <2>7. Shapes' /\ Only(i)
    BY <2>4, <2>6 DEF Shapes, Only
  <2> QED BY <2>3, <2>4, <2>5, <2>6, <2>7 DEF Effect, Handles
<1>7. CASE S!Answer(i)
  <2>1. dev[i].pc = "answer" /\ UNCHANGED performed
    BY <1>7 DEF S!Answer
  <2>2. CASE S!Reply(i, AnswerTo(i))
    <3>1. /\ Shapes' /\ Only(i) /\ Same(i) /\ CpSame(i)
          /\ DevIs(i, "replied", dev[i].type, dev[i].name, dev[i].arg, dev[i].answer, AnswerTo(i),
                   dev[i].short)
      BY <1>0, <1>1, <2>1, <2>2, ReplyEffect
    <3> QED BY <2>1, <3>1 DEF Effect, Handles
  <2>3. CASE S!ReplyShort(i, S!send_error_response(S!SOAP_ACTION_FAILED))
    <3>1. /\ Shapes' /\ Only(i) /\ Same(i) /\ CpSame(i)
          /\ DevIs(i, "replied", dev[i].type, dev[i].name, dev[i].arg, dev[i].answer,
                   S!send_error_response(S!SOAP_ACTION_FAILED), TRUE)
      BY <1>0, <1>1, <2>1, <2>3, ReplyEffect
    <3> QED BY <2>1, <3>1 DEF Effect, Handles
  <2>4. CASE dev' = [dev EXCEPT ![i].pc = "closed"]
    <3>1. DevTo(i, "closed", dev[i].type, dev[i].name, dev[i].arg, dev[i].answer, dev[i].resp,
                dev[i].short)
      BY <1>0, <2>4, DevGoes
    <3>2. /\ Shapes' /\ Only(i) /\ Same(i) /\ CpSame(i)
          /\ DevIs(i, "closed", dev[i].type, dev[i].name, dev[i].arg, dev[i].answer, dev[i].resp,
                   dev[i].short)
      BY <1>0, <1>1, <2>1, <3>1, QuietMove DEF CpSame
    <3> QED BY <2>1, <3>2 DEF Effect, Handles
  <2> QED BY <1>7, <2>2, <2>3, <2>4 DEF S!Answer, AnswerTo
<1> QED BY <1>3, <1>4, <1>5, <1>6, <1>7 DEF S!DeviceStep

-----------------------------------------------------------------------------
(* At most once *)

LEMMA OnItsWayOthers ==
  ASSUME NEW j \in Call, OnItsWay(j), cp'[j] = cp[j], dev'[j] = dev[j], Same(j)
  PROVE  OnItsWay(j)'
<1>1. Deed(j)' = Deed(j)
  BY DEF Deed
<1>2. DoneOnce(j, Deed(j))' <=> DoneOnce(j, Deed(j))
  <2>1. PICK d : d = Deed(j)
    OBVIOUS
  <2>2. DoneOnce(j, d)' <=> DoneOnce(j, d)
    BY DEF Same
  <2> QED BY <1>1, <2>1, <2>2
<1> QED BY <1>2 DEF OnItsWay, Same

\* The deed of a call whose request did not change is the same.
LEMMA DeedKept ==
  ASSUME NEW i \in Call, Same(i), dev'[i].name = dev[i].name, dev'[i].type = dev[i].type,
         dev'[i].arg = dev[i].arg, dev'[i].answer = dev[i].answer
  PROVE  DoneOnce(i, Deed(i))' <=> DoneOnce(i, Deed(i))
<1>1. Deed(i)' = Deed(i)
  BY DEF Deed
<1>2. PICK d : d = Deed(i)
  OBVIOUS
<1>3. DoneOnce(i, d)' <=> DoneOnce(i, d)
  BY DEF Same
<1> QED BY <1>1, <1>2, <1>3

LEMMA OnItsWayStep ==
  ASSUME OnceInv, NEW i \in Call, Effect(i)
  PROVE  OnItsWay(i)'
<1>0. Shapes /\ OnItsWay(i)
  BY DEF OnceInv
<1>1. CASE Starts(i)
  <2>1. NotDone(i)' /\ cp'[i].pc \in {"sent", "done"} /\ dev'[i].pc \in {"none", "wire"}
    BY <1>0, <1>1, IdleIs DEF Starts, CpIs, DevWire, DevIs, DevSame, Same, OnItsWay
  <2> QED BY <2>1 DEF OnItsWay
<1>2. CASE Goes(i)
  <2>1. CASE /\ DevWire(i) /\ S!Again(cp[i].req, dev[i].resp)
             /\ dev[i].pc = "replied" /\ cp'[i].pc = "sent"
    <3>1. NotDone(i)'
      BY <1>0, <1>2, <2>1 DEF Goes, Same, OnItsWay, S!Again
    <3> QED BY <2>1, <3>1 DEF OnItsWay, DevWire, DevIs
  <2>2. CASE cp'[i].pc = "done" /\ cp'[i].req = cp[i].req /\ DevSame(i)
    <3>1. DoneOnce(i, Deed(i))' <=> DoneOnce(i, Deed(i))
      BY <1>2, <2>2, DeedKept DEF Goes, DevSame, DevIs
    <3> QED BY <1>0, <1>2, <2>2, <3>1 DEF OnItsWay, DevSame, DevIs, Goes, Same
  <2>3. CASE cp'[i].pc = "done" /\ dev[i].pc = "wire" /\ dev'[i].pc = "closed"
    BY <1>0, <1>2, <2>3 DEF OnItsWay, Goes, Same
  <2> QED BY <1>2, <2>1, <2>2, <2>3 DEF Goes, CpIs, DevIs
<1>3. CASE Handles(i)
  <2>1. cp'[i].pc = cp[i].pc /\ cp'[i].req = cp[i].req
    BY <1>3 DEF Handles, CpSame, CpIs
  <2>2. dev[i].pc # "none" /\ cp[i].pc # "idle"
    BY <1>0, <1>3, IdleIs DEF Handles, OnItsWay, IdleCall
  <2>3. CASE /\ dev[i].pc \in {"wire", "call"} /\ Same(i)
             /\ dev'[i].pc = "replied"
             /\ dev'[i].resp.status = 405 => cp[i].req.method = "POST"
    BY <1>0, <2>1, <2>2, <2>3 DEF OnItsWay, Same
  <2>4. CASE dev[i].pc = "wire" /\ Same(i) /\ dev'[i].pc = "call"
    BY <1>0, <2>1, <2>2, <2>4 DEF OnItsWay, Same
  <2>5. CASE dev'[i].pc = "answer" /\ DoneOnce(i, Deed(i))'
    BY <1>0, <2>1, <2>2, <2>5 DEF OnItsWay
  <2>6. CASE /\ dev[i].pc = "answer" /\ Same(i)
             /\ dev'[i].name = dev[i].name /\ dev'[i].type = dev[i].type
             /\ dev'[i].arg = dev[i].arg /\ dev'[i].answer = dev[i].answer
             /\ dev'[i].pc = "closed" \/ (dev'[i].pc = "replied" /\ dev'[i].resp.status # 405)
    <3>1. DoneOnce(i, Deed(i))'
      BY <1>0, <2>6, DeedKept DEF OnItsWay
    <3> QED BY <1>0, <2>1, <2>2, <2>6, <3>1 DEF OnItsWay
  <2>7. ASSUME NEW s, RefusedWith(i, s) \/ ShortWith(s)
        PROVE  s.status = 405 => cp[i].req.method = "POST"
    <3>1. \A r, t : S!Refusal(r, t) # 405
      BY DEF S!Refusal, S!HeaderStatus, S!get_mpost_acton_hdrval
    <3>2. \A n : S!StatusResponse(n).status = n
      BY DEF S!StatusResponse, S!Response
    <3>3. S!send_error_response(S!SOAP_MEMORY_OUT).status = 500
      BY DEF S!send_error_response, S!Response
    <3> QED BY <2>7, <3>1, <3>2, <3>3 DEF RefusedWith, ShortWith
  <2>8. /\ AnswerTo(i).status # 405 /\ S!send_error_response(S!SOAP_ACTION_FAILED).status # 405
    BY DEF AnswerTo, S!handle_query_variable, S!handle_invoke_action, S!send_error_response,
           S!send_var_query_response, S!send_action_response, S!Response
  <2> QED BY <1>3, <2>3, <2>4, <2>5, <2>6, <2>7, <2>8 DEF Handles, DevIs
<1> QED BY <1>1, <1>2, <1>3 DEF Effect

LEMMA EffectKeepsOnce ==
  ASSUME OnceInv, NEW i \in Call, Effect(i)
  PROVE  OnceInv'
<1>1. ASSUME NEW j \in Call PROVE OnItsWay(j)'
  <2>1. CASE j = i
    BY <2>1, OnItsWayStep
  <2>2. CASE j # i
    <3>1. cp'[j] = cp[j] /\ dev'[j] = dev[j] /\ Same(j)
      BY <2>2 DEF Effect, Only
    <3> QED BY <3>1, OnItsWayOthers DEF OnceInv
  <2> QED BY <2>1, <2>2
<1> QED BY <1>1 DEF OnceInv, Effect

\* Every step is the step of one call, or of none.
LEMMA EveryStep ==
  ASSUME OnceInv, [S!Next]_soapVars
  PROVE  (\E i \in Call : Effect(i)) \/ UNCHANGED <<cp, dev, performed>>
<1>1. ASSUME NEW i \in Call, S!ClientStep(i) \/ S!DeviceStep(i)
      PROVE  Effect(i)
  BY <1>1, StartEffect, GoesEffect, DeviceEffect DEF S!ClientStep, OnceInv
<1>2. ASSUME NEW h \in Handle, S!RegisterDevice(h) \/ S!UnRegisterDevice(h)
      PROVE  UNCHANGED <<cp, dev, performed>>
  BY <1>2 DEF S!RegisterDevice, S!UnRegisterDevice
<1> QED BY <1>1, <1>2 DEF S!Next, soapVars

LEMMA OnceInit == S!Init => OnceInv
<1> SUFFICES ASSUME S!Init PROVE OnceInv
  OBVIOUS
<1>1. \A i \in Call : IdleCall(i)
  BY DEF S!Init, IdleCall
<1>2. performed = <<>> /\ Len(performed) = 0 /\ DOMAIN performed = {}
  BY DEF S!Init
<1>3. Shapes
  <2>1. cp = [i \in Call |-> cp[i]] /\ dev = [i \in Call |-> dev[i]]
    BY DEF S!Init
  <2>2. ASSUME NEW i \in Call
        PROVE  /\ cp[i] \in Cp(cp[i].pc, cp[i].ask, cp[i].req, cp[i].code, cp[i].value)
               /\ dev[i] \in Dv(dev[i].pc, dev[i].type, dev[i].name, dev[i].arg, dev[i].answer,
                                dev[i].resp, dev[i].short)
    BY <1>1, IdleIs, IdleFields DEF IdleCall
  <2>3. performed = [k \in 1 .. Len(performed) |-> performed[k]]
    BY <1>2
  <2> QED BY <1>2, <2>1, <2>2, <2>3 DEF Shapes
<1>4. \A i \in Call : OnItsWay(i)
  BY <1>1, <1>2, IdleIs DEF IdleCall, OnItsWay, NotDone
<1> QED BY <1>3, <1>4 DEF OnceInv

LEMMA OnceStep == OnceInv /\ [S!Next]_soapVars => OnceInv'
<1> SUFFICES ASSUME OnceInv, [S!Next]_soapVars PROVE OnceInv'
  OBVIOUS
<1>1. CASE UNCHANGED <<cp, dev, performed>>
  BY <1>1 DEF OnceInv, Shapes, OnItsWay, Deed, NotDone, DoneOnce
<1> QED BY <1>1, EveryStep, EffectKeepsOnce

LEMMA SameCardinality == ASSUME NEW X PROVE S!Cardinality(X) = Cardinality(X)
BY DEF S!Cardinality, Cardinality

LEMMA OnceMeans == OnceInv => S!AtMostOnce
<1> SUFFICES ASSUME OnceInv, NEW i \in Call PROVE Cardinality(S!Done(i)) <= 1
  BY SameCardinality DEF S!AtMostOnce
<1>1. NotDone(i) \/ DoneOnce(i, Deed(i))
  BY DEF OnceInv, OnItsWay
<1>2. CASE NotDone(i)
  <2>1. S!Done(i) = {}
    BY <1>2 DEF S!Done, NotDone
  <2> QED BY <2>1, FS_EmptySet
<1>3. CASE DoneOnce(i, Deed(i))
  <2>1. PICK k : S!Done(i) = {k}
    BY <1>3 DEF S!Done, DoneOnce
  <2> QED BY <2>1, FS_Singleton
<1> QED BY <1>1, <1>2, <1>3


-----------------------------------------------------------------------------
(* What a call reports *)

\* No path is a URL of two services of a family.
Urls(h, k) == {Devices[h].services[k].control, Devices[h].services[k].event}
OneServicePerPath ==
    \A g \in Handle : \A h \in Handle :
      \A j \in DOMAIN Devices[g].services : \A k \in DOMAIN Devices[h].services :
        Devices[g].af = Devices[h].af /\ Urls(g, j) \cap Urls(h, k) # {} => g = h /\ j = k

\* The device took this for what was asked.
Taken(a, name, type, arg) ==
    IF a.kind = "var" THEN name = S!NoValue /\ arg = a.name
    ELSE name = a.name /\ type = a.type /\ arg = a.arg

AskedFor(i) ==
    /\ cp[i].pc = "sent" => cp[i].ask # S!NoAsk
    /\ cp[i].ask # S!NoAsk => cp[i].ask \in Asks[i] /\ cp[i].ask.kind \in {"action", "var"}
    /\ cp[i].ask # S!NoAsk /\ dev[i].pc # "none" =>
         cp[i].req \in {RequestFor(cp[i].ask), S!add_man_header(RequestFor(cp[i].ask))}
TakenRight(i) ==
    cp[i].ask # S!NoAsk /\ (dev[i].pc \in {"call", "answer"} \/ ~NotDone(i)) =>
      Taken(cp[i].ask, dev[i].name, dev[i].type, dev[i].arg)
NotShort(i) == dev[i].pc \in {"none", "wire", "call", "answer"} => dev[i].short = FALSE

\* The response of a call the application did not act for.
RefusalTo(a, s) ==
    s.xml = FALSE /\ ((s = S!StatusResponse(404) /\ a.af \in lost) \/ s.status = 405 \/ ~S!Proper(a))
Replied(i) ==
    cp[i].ask # S!NoAsk /\ dev[i].pc = "replied" =>
      /\ NotDone(i) => \/ dev[i].short = TRUE /\ ShortWith(dev[i].resp)
                       \/ RefusalTo(cp[i].ask, dev[i].resp)
      /\ ~NotDone(i) => dev[i].short = TRUE \/ dev[i].resp = AnswerTo(i)

\* How a call came to its end.
Reads(i) == LET o == S!get_response_value(cp[i].ask, dev[i].resp)
            IN  cp[i].code = o.code /\ cp[i].value = o.value
Finished(i) ==
    cp[i].pc = "done" /\ cp[i].ask # S!NoAsk =>
      \/ cp[i].code \in TroubleCodes
      \/ dev[i].pc = "none" /\ ~S!Proper(cp[i].ask) /\ cp[i].code # S!UPNP_E_SUCCESS
      \/ dev[i].pc = "replied" /\ ~S!Again(cp[i].req, dev[i].resp) /\ Reads(i)

Right(i) == AskedFor(i) /\ TakenRight(i) /\ NotShort(i) /\ Replied(i) /\ Finished(i)
\* Devices of a family none of which was unregistered are there to be found.
AllThere ==
    /\ registered \subseteq Handle
    /\ \A h \in Handle : Devices[h].af \notin lost => h \in registered /\ Devices[h].af \in flags
RightInv == AllThere /\ \A i \in Call : Right(i)

LEMMA FirstOne == ASSUME NEW n \in Nat PROVE S!First({n}) = n
BY DEF S!First

\* The service a request is for has the request's path as a URL.
LEMMA ServiceFound ==
  ASSUME DevicesRight, OneServicePerPath, registered \subseteq Handle, NEW path, NEW af,
         S!DevicesWith(path, af) # {}
  PROVE  \E h \in Handle : \E k \in DOMAIN Devices[h].services :
           /\ Devices[h].af = af /\ path \in Urls(h, k)
           /\ S!ServiceFor(path, af) = Devices[h].services[k]
<1>1. PICK h \in registered :
        /\ af \in flags /\ Devices[h].af = af
        /\ S!ControlMatches(h, path) \cup S!EventMatches(h, path) # {}
  BY DEF S!DevicesWith
<1>2. h \in Handle /\ h \in Nat
  BY DEF DevicesRight
<1>3. \A g \in Handle : \A j \in S!ControlMatches(g, path) \cup S!EventMatches(g, path) :
        j \in DOMAIN Devices[g].services /\ path \in Urls(g, j)
  BY DEF S!ControlMatches, S!EventMatches, Urls
<1>4. PICK k \in S!ControlMatches(h, path) \cup S!EventMatches(h, path) : TRUE
  BY <1>1
<1>5. k \in DOMAIN Devices[h].services /\ path \in Urls(h, k) /\ k \in Nat
  BY <1>2, <1>3 DEF DevicesRight
<1>6. ASSUME NEW g \in Handle, Devices[g].af = af,
             NEW j \in S!ControlMatches(g, path) \cup S!EventMatches(g, path)
      PROVE  g = h /\ j = k
  <2>1. j \in DOMAIN Devices[g].services /\ path \in Urls(g, j) \cap Urls(h, k)
    BY <1>3, <1>5, <1>6
  <2> QED BY <1>1, <1>2, <1>5, <1>6, <2>1 DEF OneServicePerPath
<1>7. S!DevicesWith(path, af) = {h}
  <2>1. h \in S!DevicesWith(path, af)
    BY <1>1 DEF S!DevicesWith
  <2>2. ASSUME NEW g \in S!DevicesWith(path, af) PROVE g = h
    BY <1>6, <2>2 DEF S!DevicesWith
  <2> QED BY <2>1, <2>2
<1>8. S!GetDeviceHandleInfoForPath(path, af) = h
  BY <1>2, <1>7, FirstOne DEF S!GetDeviceHandleInfoForPath
<1>9. CASE S!ControlMatches(h, path) # {}
  <2>1. S!ControlMatches(h, path) = {k}
    BY <1>1, <1>2, <1>6, <1>9
  <2> QED BY <1>1, <1>2, <1>5, <1>8, <1>9, <2>1, FirstOne DEF S!ServiceFor, S!FindServiceControlURLPath
<1>10. CASE S!ControlMatches(h, path) = {}
  <2>1. S!EventMatches(h, path) = {k}
    BY <1>1, <1>2, <1>4, <1>6, <1>10
  <2> QED BY <1>1, <1>2, <1>5, <1>8, <1>10, <2>1, FirstOne DEF S!ServiceFor, S!FindServiceEventURLPath
<1> QED BY <1>9, <1>10

\* The request for what was asked, sent the first time or again.
Requests(a) == {RequestFor(a), S!add_man_header(RequestFor(a))}

\* What a request carries of what was asked.
CarriesQuery(r, a) ==
    /\ r.type = S!QUERY_STATE_VAR_URN /\ r.name = S!Query /\ r.ns = S!QUERY_STATE_VAR_URN
    /\ r.element = S!Query /\ r.arg = a.name
CarriesAction(r, a) ==
    r.type = a.type /\ r.name = a.name /\ r.ns = a.ns /\ r.element = a.name /\ r.arg = a.arg
Carries(r, a) ==
    /\ r.path = a.path /\ r.af = a.af /\ r.xml = TRUE
    /\ IF a.kind = "var" THEN CarriesQuery(r, a) ELSE CarriesAction(r, a)
    /\ a.kind = "var" \/ ~a.hdr => r.parts = <<"Body">>

LEMMA RequestFields ==
  ASSUME NEW a, a.kind = "action" \/ a.kind = "var", NEW r, r \in Requests(a)
  PROVE  Carries(r, a) /\ (r.method = "M-POST" => r.man = TRUE)
<1> DEFINE q == RequestFor(a)
<1>1. Carries(q, a) /\ q.method = "POST"
  <2>1. CASE a.kind = "var"
    BY <2>1 DEF RequestFor, S!VarRequest, Carries, CarriesQuery
  <2>2. CASE a.kind = "action" /\ a.hdr
    BY <2>2 DEF RequestFor, S!ActionRequestEx, S!ActionRequest, Carries, CarriesAction
  <2>3. CASE a.kind = "action" /\ ~a.hdr
    BY <2>3 DEF RequestFor, S!ActionRequest, Carries, CarriesAction
  <2> QED BY <2>1, <2>2, <2>3
<1>2. CASE r = q
  BY <1>1, <1>2
<1>3. CASE r = S!add_man_header(q)
  BY <1>1, <1>3 DEF S!add_man_header, Carries, CarriesQuery, CarriesAction
<1> QED BY <1>2, <1>3 DEF Requests

LEMMA QueryDiffers == S!Query # S!NoValue /\ S!QUERY_STATE_VAR_URN # S!NoType
BY DEF S!Query, S!NoValue, S!QUERY_STATE_VAR_URN, S!NoType

\* What the device takes is what was asked.
LEMMA TakesWhatWasAsked ==
  ASSUME AsksRight, NEW i \in Call, NEW a \in Asks[i], a.kind \in {"action", "var"},
         NEW r \in Requests(a), NEW t, t.base # S!QUERY_STATE_VAR_URN.base, S!Refusal(r, t) = 0
  PROVE  Taken(a, S!ActionNamed(r, t), S!check_soapaction_hdr(r, t), r.arg)
<1>c. Carries(r, a) /\ (r.method = "M-POST" => r.man = TRUE)
  <2>1. (a.kind = "action" \/ a.kind = "var") /\ r \in Requests(a)
    OBVIOUS
  <2> QED BY <2>1, RequestFields
<1>1. S!HeaderOk(r, t)
  BY DEF S!Refusal, S!HeaderStatus
<1>2. CASE a.kind = "var"
  <2>1. r.type.base # t.base /\ r.arg = a.name
    BY <1>2, <1>c DEF Carries, CarriesQuery, CarriesAction
  <2> QED BY <1>2, <2>1 DEF Taken, S!ActionNamed
<1>3. CASE a.kind = "action"
  <2>1. /\ r.type = a.type /\ r.name = a.name /\ r.arg = a.arg
        /\ a.type # S!QUERY_STATE_VAR_URN
    BY <1>3, <1>c DEF AsksRight, Carries, CarriesQuery, CarriesAction
  <2>2. r.type.base = t.base
    BY <1>1, <2>1 DEF S!HeaderOk, S!IsQuery
  <2> QED BY <1>3, <2>1, <2>2 DEF Taken, S!ActionNamed, S!check_soapaction_hdr
<1> QED BY <1>2, <1>3

\* The device does not refuse a proper call of a service it has.
LEMMA ProperNotRefused ==
  ASSUME DevicesRight, AsksRight, OneServicePerPath, registered \subseteq Handle,
         NEW i \in Call, NEW a \in Asks[i], a.kind \in {"action", "var"}, S!Proper(a),
         NEW r \in Requests(a), S!DevicesWith(r.path, r.af) # {}
  PROVE  S!Refusal(r, S!ServiceFor(r.path, r.af).type) = 0
<1>c. Carries(r, a) /\ (r.method = "M-POST" => r.man = TRUE)
  <2>1. (a.kind = "action" \/ a.kind = "var") /\ r \in Requests(a)
    OBVIOUS
  <2> QED BY <2>1, RequestFields
<1>1. PICK h \in Handle : \E k \in DOMAIN Devices[h].services :
        /\ Devices[h].af = a.af /\ a.path \in Urls(h, k)
        /\ a.kind = "action" =>
             /\ a.prefixed /\ a.ns = a.type
             /\ a.type.base = Devices[h].services[k].type.base
  BY DEF S!Proper, Urls
<1>2. PICK k \in DOMAIN Devices[h].services :
        /\ Devices[h].af = a.af /\ a.path \in Urls(h, k)
        /\ a.kind = "action" =>
             /\ a.prefixed /\ a.ns = a.type
             /\ a.type.base = Devices[h].services[k].type.base
  BY <1>1
<1>3. r.path = a.path /\ r.af = a.af
  BY <1>c DEF Carries, CarriesQuery, CarriesAction
<1>4. S!ServiceFor(r.path, r.af) = Devices[h].services[k]
  <2>1. PICK g \in Handle : \E j \in DOMAIN Devices[g].services :
          /\ Devices[g].af = r.af /\ r.path \in Urls(g, j)
          /\ S!ServiceFor(r.path, r.af) = Devices[g].services[j]
    BY ServiceFound
  <2>2. PICK j \in DOMAIN Devices[g].services :
          /\ Devices[g].af = r.af /\ r.path \in Urls(g, j)
          /\ S!ServiceFor(r.path, r.af) = Devices[g].services[j]
    BY <2>1
  <2>3. Urls(g, j) \cap Urls(h, k) # {}
    BY <1>2, <1>3, <2>2
  <2>4. g = h /\ j = k
    BY <1>2, <1>3, <2>2, <2>3 DEF OneServicePerPath
  <2> QED BY <2>2, <2>4
<1> DEFINE t == S!ServiceFor(r.path, r.af).type
<1>5. t.base # S!NoType.base /\ t.base # S!QUERY_STATE_VAR_URN.base
  BY <1>4 DEF DevicesRight
<1>6. a.kind = "action" => a.ns = a.type /\ a.type.base = t.base
  BY <1>2, <1>4
<1> HIDE DEF t
<1>7. ~a.hdr
  BY DEF S!Proper
<1>8. /\ r.xml = TRUE /\ (r.method = "M-POST" => r.man = TRUE) /\ r.parts = <<"Body">>
  BY <1>7, <1>c DEF Carries, CarriesQuery, CarriesAction
<1>9. r.type # S!NoType
  BY <1>5, <1>6, <1>c, QueryDiffers DEF Carries, CarriesQuery, CarriesAction
<1>10. S!HeaderOk(r, t)
  BY <1>6, <1>9, <1>c DEF S!HeaderOk, S!IsQuery, Carries, CarriesQuery, CarriesAction
<1>11. S!HeaderStatus(r, t) = 0
  BY <1>8, <1>9, <1>10 DEF S!HeaderStatus, S!get_mpost_acton_hdrval
<1>12. r.parts # <<>> /\ r.parts[1] = "Body"
  BY <1>8
<1>13. CASE a.kind = "var"
  <2>1. S!ActionNamed(r, t) = S!NoValue
    BY <1>5, <1>13, <1>c DEF S!ActionNamed, Carries, CarriesQuery, CarriesAction
  <2>2. /\ r.element = S!Query /\ r.ns = S!QUERY_STATE_VAR_URN /\ r.arg # S!NoValue
    BY <1>13, <1>c DEF AsksRight, Carries, CarriesQuery, CarriesAction
  <2>3. S!check_soap_request(r, S!check_soapaction_hdr(r, t), S!ActionNamed(r, t))
    BY <1>12, <2>1, <2>2, QueryDiffers DEF S!check_soap_request
  <2> QED BY <1>8, <1>11, <2>3 DEF S!Refusal, t
<1>14. CASE a.kind = "action"
  <2>1. r.type = a.type /\ r.ns = a.ns /\ r.name = a.name /\ r.element = a.name
    BY <1>14, <1>c DEF Carries, CarriesQuery, CarriesAction
  <2>2. S!ActionNamed(r, t) = a.name /\ S!check_soapaction_hdr(r, t) = a.type /\ a.name # S!NoValue
    BY <1>6, <1>14, <2>1 DEF S!ActionNamed, S!check_soapaction_hdr, AsksRight
  <2>3. S!check_soap_request(r, S!check_soapaction_hdr(r, t), S!ActionNamed(r, t))
    BY <1>6, <1>12, <1>14, <2>1, <2>2 DEF S!check_soap_request
  <2> QED BY <1>8, <1>11, <2>3 DEF S!Refusal, t
<1> QED BY <1>13, <1>14

-----------------------------------------------------------------------------
(* Every step keeps the calls right *)

LEMMA RightOthers ==
  ASSUME NEW j \in Call, lost \subseteq lost', Right(j), cp'[j] = cp[j], dev'[j] = dev[j], NotDone(j)' <=> NotDone(j)
  PROVE  Right(j)'
<1>1. AskedFor(j)' /\ TakenRight(j)' /\ NotShort(j)'
  BY DEF Right, AskedFor, TakenRight, NotShort, Taken
<1>2. AnswerTo(j)' = AnswerTo(j)
  BY DEF AnswerTo
<1>3. Replied(j)'
  BY <1>2 DEF Right, Replied, RefusalTo
<1>4. Reads(j)' <=> Reads(j)
  BY DEF Reads
<1>5. Finished(j)'
  BY <1>4 DEF Right, Finished
<1> QED BY <1>1, <1>3, <1>5 DEF Right

LEMMA StartsRight ==
  ASSUME OnceInv, NEW i \in Call, Right(i), Starts(i)
  PROVE  Right(i)'
<1>1. IdleCall(i) /\ NotDone(i)'
  BY IdleIs DEF OnceInv, OnItsWay, Starts, Same
<1>2. ASSUME NEW a \in Asks[i], a.kind \in {"action", "var"},
             CpIs(i, "sent", a, RequestFor(a), 0, S!NoValue), DevWire(i)
      PROVE  Right(i)'
  <2>1. /\ cp'[i].pc = "sent" /\ cp'[i].ask = a /\ cp'[i].req = RequestFor(a)
        /\ dev'[i].pc = "wire" /\ dev'[i].short = FALSE
    BY <1>2 DEF CpIs, DevWire, DevIs
  <2>2. a # S!NoAsk
    BY <1>2 DEF S!NoAsk
  <2>3. AskedFor(i)'
    BY <1>2, <2>1, <2>2 DEF AskedFor
  <2> QED BY <1>1, <2>1, <2>3 DEF Right, TakenRight, NotShort, Replied, Finished
<1>3. ASSUME NEW a \in Asks[i], a.kind \in {"action", "var"}, NEW c,
             CpIs(i, "done", a, S!NoRequest, c, S!NoValue), DevSame(i),
             c \in TroubleCodes \/ (c # S!UPNP_E_SUCCESS /\ ~S!Proper(a))
      PROVE  Right(i)'
  <2>1. /\ cp'[i].pc = "done" /\ cp'[i].ask = a /\ cp'[i].code = c
        /\ dev'[i].pc = "none" /\ dev'[i].short = FALSE
    BY <1>1, <1>3, IdleIs DEF CpIs, DevSame, DevIs
  <2>2. AskedFor(i)'
    BY <1>3, <2>1 DEF AskedFor
  <2> QED BY <1>1, <1>3, <2>1, <2>2 DEF Right, TakenRight, NotShort, Replied, Finished
<1>4. ASSUME NEW r, CpIs(i, "done", S!NoAsk, r, 0, S!NoValue), DevWire(i)
      PROVE  Right(i)'
  <2>1. cp'[i].pc = "done" /\ cp'[i].ask = S!NoAsk /\ dev'[i].pc = "wire" /\ dev'[i].short = FALSE
    BY <1>4 DEF CpIs, DevWire, DevIs
  <2> QED BY <2>1 DEF Right, AskedFor, TakenRight, NotShort, Replied, Finished
<1> QED BY <1>2, <1>3, <1>4 DEF Starts

LEMMA GoesRight ==
  ASSUME OnceInv, lost \subseteq lost', NEW i \in Call, Right(i), Goes(i)
  PROVE  Right(i)'
<1>0. /\ cp[i].pc = "sent" /\ cp[i].ask # S!NoAsk /\ cp[i].ask \in Asks[i]
      /\ cp[i].ask.kind \in {"action", "var"} /\ (NotDone(i)' <=> NotDone(i)) /\ OnItsWay(i)
  BY DEF Goes, Right, AskedFor, Same, OnceInv
<1>1. ASSUME dev[i].pc = "replied", S!Again(cp[i].req, dev[i].resp), DevWire(i),
             CpIs(i, "sent", cp[i].ask, S!add_man_header(cp[i].req), cp[i].code, cp[i].value)
      PROVE  Right(i)'
  <2>1. /\ cp'[i].pc = "sent" /\ cp'[i].ask = cp[i].ask /\ cp'[i].req = S!add_man_header(cp[i].req)
        /\ dev'[i].pc = "wire" /\ dev'[i].short = FALSE
    BY <1>1 DEF CpIs, DevWire, DevIs
  <2>2. NotDone(i)'
    BY <1>0, <1>1 DEF OnItsWay, S!Again
  <2>3. cp[i].req = RequestFor(cp[i].ask)
    <3>1. cp[i].req \in {RequestFor(cp[i].ask), S!add_man_header(RequestFor(cp[i].ask))}
      BY <1>0, <1>1 DEF Right, AskedFor
    <3>2. cp[i].req.method = "POST"
      BY <1>1 DEF S!Again
    <3>3. CASE cp[i].req = S!add_man_header(RequestFor(cp[i].ask))
      <4>1. S!add_man_header(RequestFor(cp[i].ask)).method = "M-POST"
        BY DEF S!add_man_header, RequestFor, S!VarRequest, S!ActionRequestEx, S!ActionRequest
      <4> QED BY <3>2, <3>3, <4>1
    <3> QED BY <3>1, <3>3
  <2>4. AskedFor(i)'
    BY <1>0, <2>1, <2>3 DEF AskedFor
  <2> QED BY <2>1, <2>2, <2>4 DEF Right, TakenRight, NotShort, Replied, Finished
<1>2. ASSUME cp'[i].pc = "done", cp'[i].ask = cp[i].ask, cp'[i].req = cp[i].req, DevSame(i)
      PROVE  AskedFor(i)' /\ TakenRight(i)' /\ NotShort(i)' /\ Replied(i)'
  <2>1. /\ dev'[i].pc = dev[i].pc /\ dev'[i].type = dev[i].type /\ dev'[i].name = dev[i].name
        /\ dev'[i].arg = dev[i].arg /\ dev'[i].answer = dev[i].answer
        /\ dev'[i].resp = dev[i].resp /\ dev'[i].short = dev[i].short
    BY <1>2 DEF DevSame, DevIs
  <2>2. AskedFor(i)' /\ TakenRight(i)' /\ NotShort(i)'
    BY <1>0, <1>2, <2>1 DEF Right, AskedFor, TakenRight, NotShort, Taken
  <2>3. AnswerTo(i)' = AnswerTo(i)
    BY <2>1 DEF AnswerTo
  <2> QED BY <1>0, <1>2, <2>1, <2>2, <2>3 DEF Right, Replied, RefusalTo
<1>3. ASSUME NEW c \in TroubleCodes, CpIs(i, "done", cp[i].ask, cp[i].req, c, S!NoValue), DevSame(i)
      PROVE  Right(i)'
  <2>1. cp'[i].pc = "done" /\ cp'[i].ask = cp[i].ask /\ cp'[i].req = cp[i].req /\ cp'[i].code = c
    BY <1>3 DEF CpIs
  <2> QED BY <1>2, <1>3, <2>1 DEF Right, Finished
<1>4. ASSUME NEW c \in TroubleCodes, CpIs(i, "done", cp[i].ask, cp[i].req, c, S!NoValue),
             dev[i].pc = "wire",
             DevIs(i, "closed", dev[i].type, dev[i].name, dev[i].arg, dev[i].answer, dev[i].resp,
                   dev[i].short)
      PROVE  Right(i)'
  <2>1. /\ cp'[i].pc = "done" /\ cp'[i].ask = cp[i].ask /\ cp'[i].req = cp[i].req
        /\ cp'[i].code = c /\ dev'[i].pc = "closed" /\ NotDone(i)'
    BY <1>0, <1>4 DEF CpIs, DevIs, OnItsWay
  <2>2. AskedFor(i)'
    BY <1>0, <1>4, <2>1 DEF Right, AskedFor
  <2> QED BY <1>4, <2>1, <2>2 DEF Right, TakenRight, NotShort, Replied, Finished
<1>5. ASSUME dev[i].pc = "replied", ~S!Again(cp[i].req, dev[i].resp), DevSame(i),
             CpIs(i, "done", cp[i].ask, cp[i].req,
                  S!get_response_value(cp[i].ask, dev[i].resp).code,
                  S!get_response_value(cp[i].ask, dev[i].resp).value)
      PROVE  Right(i)'
  <2>1. /\ cp'[i].pc = "done" /\ cp'[i].ask = cp[i].ask /\ cp'[i].req = cp[i].req
        /\ cp'[i].code = S!get_response_value(cp[i].ask, dev[i].resp).code
        /\ cp'[i].value = S!get_response_value(cp[i].ask, dev[i].resp).value
        /\ dev'[i].resp = dev[i].resp /\ dev'[i].pc = dev[i].pc
    BY <1>5 DEF CpIs, DevSame, DevIs
  <2>2. Finished(i)'
    BY <1>5, <2>1 DEF Finished, Reads
  <2> QED BY <1>2, <1>5, <2>1, <2>2 DEF Right
<1> QED BY <1>1, <1>3, <1>4, <1>5 DEF Goes

LEMMA RepliesAreRight ==
  ASSUME NEW i \in Call, lost \subseteq lost', Right(i), NotDone(i), Same(i), CpSame(i), dev[i].pc \in {"wire", "call"},
         NEW s, NEW h, DevIs(i, "replied", dev[i].type, dev[i].name, dev[i].arg, dev[i].answer, s, h),
         cp[i].ask # S!NoAsk => (h = TRUE /\ ShortWith(s)) \/ RefusalTo(cp[i].ask, s)
  PROVE  Right(i)'
<1>1. /\ cp'[i].pc = cp[i].pc /\ cp'[i].ask = cp[i].ask /\ cp'[i].req = cp[i].req
      /\ cp'[i].code = cp[i].code
      /\ dev'[i].pc = "replied" /\ dev'[i].resp = s /\ dev'[i].short = h /\ NotDone(i)'
  BY DEF CpSame, CpIs, DevIs, Same
<1>2. AskedFor(i)' /\ TakenRight(i)' /\ NotShort(i)'
  BY <1>1 DEF Right, AskedFor, TakenRight, NotShort
<1>3. Replied(i)'
  BY <1>1 DEF Replied, RefusalTo
<1>4. Finished(i)'
  BY <1>1 DEF Right, Finished
<1> QED BY <1>2, <1>3, <1>4 DEF Right

LEMMA HandlesRight ==
  ASSUME DevicesRight, AsksRight, OneServicePerPath, AllThere, lost \subseteq lost',
         OnceInv, NEW i \in Call, Right(i), Handles(i)
  PROVE  Right(i)'
<1>0. /\ cp'[i].pc = cp[i].pc /\ cp'[i].ask = cp[i].ask /\ cp'[i].req = cp[i].req
      /\ cp'[i].code = cp[i].code /\ CpSame(i) /\ OnItsWay(i)
  BY DEF Handles, CpSame, CpIs, OnceInv
<1>1. cp[i].ask # S!NoAsk /\ dev[i].pc # "none" =>
        /\ cp[i].ask \in Asks[i] /\ cp[i].ask.kind \in {"action", "var"}
        /\ cp[i].req \in Requests(cp[i].ask)
  BY DEF Right, AskedFor, Requests
<1>2. ASSUME NEW s, RefusedWith(i, s), dev[i].pc # "none", cp[i].ask # S!NoAsk
      PROVE  RefusalTo(cp[i].ask, s)
  <2>1. PICK a, r : a = cp[i].ask /\ r = cp[i].req
    OBVIOUS
  <2>2. a \in Asks[i] /\ a.kind \in {"action", "var"} /\ r \in Requests(a)
    BY <1>1, <1>2, <2>1
  <2>3. \A n : S!StatusResponse(n).xml = FALSE /\ S!StatusResponse(n).status = n
    BY DEF S!StatusResponse, S!Response
  <2>4. CASE s = S!StatusResponse(405)
    BY <2>3, <2>4 DEF RefusalTo
  <2>6. CASE s = S!StatusResponse(404) /\ S!DevicesWith(r.path, r.af) = {}
    <3>1. r.path = a.path /\ r.af = a.af
      BY <2>2, RequestFields DEF Carries
    <3>2. S!Proper(a) => a.af \in lost
      <4>1. SUFFICES ASSUME S!Proper(a), a.af \notin lost PROVE FALSE
        OBVIOUS
      <4>2. PICK h \in Handle : Devices[h].af = a.af /\ S!ControlMatches(h, a.path) # {}
        BY <4>1 DEF S!Proper, S!ControlMatches
      <4>3. h \in S!DevicesWith(r.path, r.af)
        BY <3>1, <4>1, <4>2 DEF AllThere, S!DevicesWith
      <4> QED BY <2>6, <4>3
    <3> QED BY <2>1, <2>3, <2>6, <3>2 DEF RefusalTo
  <2>5. CASE /\ S!DevicesWith(r.path, r.af) # {} /\ S!Refusal(r, S!ServiceFor(r.path, r.af).type) # 0
             /\ s = S!StatusResponse(S!Refusal(r, S!ServiceFor(r.path, r.af).type))
    <3>1. ~S!Proper(a)
      BY <2>2, <2>5, ProperNotRefused DEF AllThere
    <3> QED BY <2>1, <2>3, <2>5, <3>1 DEF RefusalTo
  <2> QED BY <1>2, <2>1, <2>4, <2>5, <2>6 DEF RefusedWith
<1>3. ASSUME dev[i].pc \in {"wire", "call"}, Same(i), NEW s, RefusedWith(i, s),
             DevIs(i, "replied", dev[i].type, dev[i].name, dev[i].arg, dev[i].answer, s, dev[i].short)
      PROVE  Right(i)'
  <2>1. NotDone(i)
    BY <1>0, <1>3 DEF OnItsWay
  <2>2. cp[i].ask # S!NoAsk => RefusalTo(cp[i].ask, s)
    BY <1>2, <1>3
  <2> QED BY <1>0, <1>3, <2>1, <2>2, RepliesAreRight
<1>4. ASSUME dev[i].pc \in {"wire", "call"}, Same(i), NEW s, ShortWith(s),
             DevIs(i, "replied", dev[i].type, dev[i].name, dev[i].arg, dev[i].answer, s, TRUE)
      PROVE  Right(i)'
  <2>1. NotDone(i)
    BY <1>0, <1>4 DEF OnItsWay
  <2>2. PICK h : h = TRUE
    OBVIOUS
  <2> QED BY <1>0, <1>4, <2>1, <2>2, RepliesAreRight
<1>5. ASSUME dev[i].pc = "wire", Same(i), NEW r, r = cp[i].req, NEW t, t = S!ServiceFor(r.path, r.af).type,
             S!DevicesWith(r.path, r.af) # {}, S!Refusal(r, t) = 0,
             DevIs(i, "call", S!check_soapaction_hdr(r, t), S!ActionNamed(r, t), r.arg,
                   dev[i].answer, dev[i].resp, dev[i].short)
      PROVE  Right(i)'
  <2>1. /\ dev'[i].pc = "call" /\ dev'[i].type = S!check_soapaction_hdr(r, t)
        /\ dev'[i].name = S!ActionNamed(r, t) /\ dev'[i].arg = r.arg
        /\ dev'[i].short = dev[i].short
    BY <1>5 DEF DevIs
  <2>2. t.base # S!QUERY_STATE_VAR_URN.base
    <3>1. PICK path, af : path = r.path /\ af = r.af
      OBVIOUS
    <3>2. \E g \in Handle : \E k \in DOMAIN Devices[g].services :
            path \in Urls(g, k) /\ S!ServiceFor(path, af) = Devices[g].services[k]
      BY <1>5, <3>1, ServiceFound DEF AllThere
    <3>3. PICK g \in Handle : \E k \in DOMAIN Devices[g].services :
            S!ServiceFor(path, af) = Devices[g].services[k]
      BY <3>2
    <3>4. PICK k \in DOMAIN Devices[g].services : S!ServiceFor(path, af) = Devices[g].services[k]
      BY <3>3
    <3>5. Devices[g].services[k].type.base # S!QUERY_STATE_VAR_URN.base
      BY DEF DevicesRight
    <3> QED BY <1>5, <3>1, <3>4, <3>5
  <2>3. TakenRight(i)'
    <3>1. SUFFICES ASSUME cp[i].ask # S!NoAsk
                   PROVE  Taken(cp[i].ask, S!ActionNamed(r, t), S!check_soapaction_hdr(r, t), r.arg)
      BY <1>0, <2>1 DEF TakenRight
    <3>2. PICK a : a = cp[i].ask
      OBVIOUS
    <3>3. a \in Asks[i] /\ a.kind \in {"action", "var"} /\ r \in Requests(a)
      BY <1>1, <1>5, <3>1, <3>2
    <3>4. Taken(a, S!ActionNamed(r, t), S!check_soapaction_hdr(r, t), r.arg)
      BY <1>5, <2>2, <3>3, TakesWhatWasAsked
    <3> QED BY <3>2, <3>4
  <2>4. AskedFor(i)' /\ NotShort(i)'
    BY <1>0, <1>5, <2>1 DEF Right, AskedFor, NotShort
  <2>5. Replied(i)' /\ Finished(i)'
    BY <1>0, <1>5, <2>1 DEF Right, Replied, Finished
  <2> QED BY <2>3, <2>4, <2>5 DEF Right
<1>6. ASSUME dev[i].pc = "call", NEW w,
             DevIs(i, "answer", dev[i].type, dev[i].name, dev[i].arg, w, dev[i].resp, dev[i].short)
      PROVE  Right(i)'
  <2>1. /\ dev'[i].pc = "answer" /\ dev'[i].type = dev[i].type /\ dev'[i].name = dev[i].name
        /\ dev'[i].arg = dev[i].arg /\ dev'[i].short = dev[i].short
    BY <1>6 DEF DevIs
  <2>2. TakenRight(i)'
    BY <1>0, <1>6, <2>1 DEF Right, TakenRight
  <2> QED BY <1>0, <1>6, <2>1, <2>2 DEF Right, AskedFor, NotShort, Replied, Finished
<1>7. ASSUME dev[i].pc = "answer", Same(i), NEW p \in {"replied", "closed"}, NEW s, NEW h,
             DevIs(i, p, dev[i].type, dev[i].name, dev[i].arg, dev[i].answer, s, h),
             p = "replied" => h = TRUE \/ s = AnswerTo(i)
      PROVE  Right(i)'
  <2>1. /\ dev'[i].pc = p /\ dev'[i].type = dev[i].type /\ dev'[i].name = dev[i].name
        /\ dev'[i].arg = dev[i].arg /\ dev'[i].answer = dev[i].answer
        /\ dev'[i].resp = s /\ dev'[i].short = h
    BY <1>7 DEF DevIs
  <2>2. ~NotDone(i) /\ ~NotDone(i)'
    BY <1>0, <1>7 DEF OnItsWay, DoneOnce, NotDone, Same
  <2>3. TakenRight(i)'
    BY <1>0, <1>7, <2>1 DEF Right, TakenRight
  <2>4. AnswerTo(i)' = AnswerTo(i)
    BY <2>1 DEF AnswerTo
  <2>5. Replied(i)'
    BY <1>7, <2>1, <2>2, <2>4 DEF Replied
  <2>6. AskedFor(i)' /\ NotShort(i)' /\ Finished(i)'
    BY <1>0, <1>7, <2>1 DEF Right, AskedFor, NotShort, Finished
  <2> QED BY <2>3, <2>5, <2>6 DEF Right
<1>8. CASE dev[i].pc = "answer" /\ Same(i) /\
           \/ DevIs(i, "replied", dev[i].type, dev[i].name, dev[i].arg, dev[i].answer,
                    AnswerTo(i), dev[i].short)
           \/ DevIs(i, "replied", dev[i].type, dev[i].name, dev[i].arg, dev[i].answer,
                    S!send_error_response(S!SOAP_ACTION_FAILED), TRUE)
           \/ DevIs(i, "closed", dev[i].type, dev[i].name, dev[i].arg, dev[i].answer, dev[i].resp,
                    dev[i].short)
  <2>1. PICK h : h = TRUE
    OBVIOUS
  <2>2. CASE DevIs(i, "replied", dev[i].type, dev[i].name, dev[i].arg, dev[i].answer,
                   AnswerTo(i), dev[i].short)
    BY <1>7, <1>8, <2>2
  <2>3. CASE DevIs(i, "replied", dev[i].type, dev[i].name, dev[i].arg, dev[i].answer,
                   S!send_error_response(S!SOAP_ACTION_FAILED), h)
    BY <1>7, <1>8, <2>1, <2>3
  <2>4. CASE DevIs(i, "closed", dev[i].type, dev[i].name, dev[i].arg, dev[i].answer, dev[i].resp,
                   dev[i].short)
    BY <1>7, <1>8, <2>4
  <2> QED BY <1>8, <2>1, <2>2, <2>3, <2>4
<1> QED BY <1>3, <1>4, <1>5, <1>6, <1>8 DEF Handles

LEMMA RightStep ==
  ASSUME DevicesRight, AsksRight, OneServicePerPath, OnceInv, RightInv, [S!Next]_soapVars
  PROVE  RightInv'
<1>1. AllThere' /\ lost \subseteq lost'
  <2>1. ASSUME NEW i \in Call, S!ClientStep(i) \/ S!DeviceStep(i)
        PROVE  UNCHANGED <<registered, flags, lost>>
    BY <2>1 DEF S!ClientStep, S!DeviceStep, S!UpnpSendAction, S!UpnpSendActionEx,
                S!UpnpGetServiceVarStatus, S!UpnpThreadDistribution, S!Stray,
                S!soap_request_and_response, S!ReadResponse, S!NoAnswer, S!ConnectFails, S!TimesOut,
                S!PostRefused, S!soap_device_callback, S!Callback, S!NoMemoryToCall, S!Answer,
                S!handles
  <2>2. ASSUME NEW h \in Handle, S!RegisterDevice(h) PROVE AllThere' /\ UNCHANGED lost
    BY <2>2 DEF S!RegisterDevice, AllThere, RightInv
  <2>3. ASSUME NEW h \in Handle, S!UnRegisterDevice(h) PROVE AllThere' /\ lost \subseteq lost'
    BY <2>3 DEF S!UnRegisterDevice, AllThere, RightInv
  <2>4. UNCHANGED <<registered, flags, lost>> => AllThere' /\ lost \subseteq lost'
    BY DEF AllThere, RightInv
  <2> QED BY <2>1, <2>2, <2>3, <2>4 DEF S!Next, soapVars
<1>2. ASSUME NEW i \in Call, Effect(i) PROVE \A j \in Call : Right(j)'
  <2>1. Right(i)'
    BY <1>1, <1>2, StartsRight, GoesRight, HandlesRight DEF Effect, RightInv
  <2>2. ASSUME NEW j \in Call, j # i PROVE Right(j)'
    <3>1. cp'[j] = cp[j] /\ dev'[j] = dev[j] /\ (NotDone(j)' <=> NotDone(j))
      BY <1>2, <2>2 DEF Effect, Only, Same
    <3> QED BY <1>1, <3>1, RightOthers DEF RightInv
  <2> QED BY <2>1, <2>2
<1>3. ASSUME UNCHANGED <<cp, dev, performed>> PROVE \A j \in Call : Right(j)'
  <2>1. ASSUME NEW j \in Call PROVE Right(j)'
    <3>1. cp'[j] = cp[j] /\ dev'[j] = dev[j] /\ (NotDone(j)' <=> NotDone(j))
      BY <1>3 DEF NotDone
    <3> QED BY <1>1, <3>1, RightOthers DEF RightInv
  <2> QED BY <2>1
<1>4. \A j \in Call : Right(j)'
  BY <1>2, <1>3, EveryStep
<1> QED BY <1>1, <1>4 DEF RightInv

LEMMA RightInit == S!Init => RightInv
<1> SUFFICES ASSUME S!Init PROVE RightInv
  OBVIOUS
<1>1. ASSUME NEW i \in Call PROVE Right(i)
  <2>1. IdleCall(i) /\ NotDone(i)
    BY DEF S!Init, IdleCall, NotDone
  <2>2. cp[i].pc = "idle" /\ cp[i].ask = S!NoAsk /\ dev[i].pc = "none" /\ dev[i].short = FALSE
    BY <2>1, IdleIs
  <2> QED BY <2>1, <2>2 DEF Right, AskedFor, TakenRight, NotShort, Replied, Finished
<1> QED BY <1>1 DEF S!Init, RightInv, AllThere

\* The outcome is what the application said.
Reported(w, o) ==
    /\ w.err = 0 /\ w.value \notin {S!NoValue, ""} => o.code = S!UPNP_E_SUCCESS /\ o.value = w.value
    /\ w.err # 0 /\ w.text /\ w.value # S!NoValue => o.code = w.err
    /\ w.err # 0 \/ w.value = S!NoValue => o.code # S!UPNP_E_SUCCESS

LEMMA ReportedValue ==
  ASSUME NEW w, w.err = 0, w.value # S!NoValue, NEW o,
         w.value # "" => o = S!Outcome(S!UPNP_E_SUCCESS, w.value)
  PROVE  Reported(w, o)
<1>0. \A x, y : S!Outcome(x, y).code = x /\ S!Outcome(x, y).value = y
  BY DEF S!Outcome
<1>1. w.value # "" => o.code = S!UPNP_E_SUCCESS /\ o.value = w.value
  <2>1. PICK v, c : v = w.value /\ c = S!UPNP_E_SUCCESS
    OBVIOUS
  <2>2. S!Outcome(c, v).code = c /\ S!Outcome(c, v).value = v
    BY <1>0
  <2>3. w.value # "" => o = S!Outcome(c, v)
    BY <2>1
  <2> QED BY <2>1, <2>2, <2>3
<1> QED BY <1>1, Zenon DEF Reported

LEMMA ReportedError ==
  ASSUME NEW w, NEW o, NEW c, c # 0, o.code = c, w.err # 0 \/ w.value = S!NoValue,
         w.err # 0 /\ w.text /\ w.value # S!NoValue => c = w.err
  PROVE  Reported(w, o)
<1>1. o.code # S!UPNP_E_SUCCESS
  BY DEF S!UPNP_E_SUCCESS
<1> QED BY <1>1, Zenon DEF Reported

\* What the application said is what the call reports.
LEMMA ReportsAnswer ==
  ASSUME NEW a, a.kind \in {"action", "var"}, NEW w, NEW n,
         a.kind = "var" => n = S!NoValue, a.kind = "action" => n = a.name /\ n # S!NoValue,
         NEW s, s = IF n = S!NoValue THEN S!handle_query_variable(w)
                    ELSE S!handle_invoke_action(n, w),
         NEW o, o = S!get_response_value(a, s)
  PROVE  Reported(w, o)
<1>1. ASSUME NEW c, s = S!send_error_response(c)
      PROVE  o.code = c
  <2>1. s.status = 500 /\ s.xml = TRUE /\ s.body.tag = "Fault" /\ s.body.code = c /\ s.body.text = TRUE
    BY <1>1 DEF S!send_error_response, S!Response
  <2>2. o = S!FaultValue(a, s.body)
    BY <2>1 DEF S!get_response_value
  <2>3. \A x, y : S!Outcome(x, y).code = x
    BY DEF S!Outcome
  <2>4. \E y : S!FaultValue(a, s.body) = S!Outcome(c, y)
    BY <2>1 DEF S!FaultValue
  <2> QED BY <2>2, <2>3, <2>4
<1>2. CASE a.kind = "action"
  <2>1. s = S!handle_invoke_action(a.name, w)
    BY <1>2
  <2>2. CASE w.err # 0
    <3>1. s = S!send_error_response(IF w.text THEN w.err ELSE S!SOAP_ACTION_FAILED)
      BY <2>1, <2>2 DEF S!handle_invoke_action
    <3>2. PICK c : c = IF w.text THEN w.err ELSE S!SOAP_ACTION_FAILED
      OBVIOUS
    <3>3. o.code = c /\ c # 0 /\ (w.text => c = w.err)
      BY <1>1, <2>2, <3>1, <3>2 DEF S!SOAP_ACTION_FAILED
    <3> QED BY <2>2, <3>3, ReportedError
  <2>3. CASE w.err = 0 /\ w.value = S!NoValue
    <3>1. s = S!send_error_response(S!SOAP_ACTION_FAILED)
      BY <2>1, <2>3 DEF S!handle_invoke_action
    <3>2. o.code = S!SOAP_ACTION_FAILED
      BY <1>1, <3>1
    <3>3. S!SOAP_ACTION_FAILED # 0
      BY DEF S!SOAP_ACTION_FAILED
    <3> QED BY <2>3, <3>2, <3>3, ReportedError
  <2>4. CASE w.err = 0 /\ w.value # S!NoValue
    <3>1. s = S!send_action_response(a.name, w.value)
      BY <2>1, <2>4 DEF S!handle_invoke_action
    <3>2. /\ s.status = 200 /\ s.xml = TRUE /\ s.body.tag = "Response" /\ s.body.name = a.name
          /\ s.body.value = w.value
      BY <3>1 DEF S!send_action_response, S!Response
    <3>3. o = S!Outcome(S!UPNP_E_SUCCESS, w.value)
      BY <1>2, <3>2 DEF S!get_response_value
    <3> QED BY <2>4, <3>3, ReportedValue
  <2> QED BY <2>2, <2>3, <2>4
<1>3. CASE a.kind = "var"
  <2>1. s = S!handle_query_variable(w)
    BY <1>3
  <2>2. CASE w.value = S!NoValue
    <3>1. s = S!send_error_response(S!SOAP_INVALID_VAR)
      BY <2>1, <2>2 DEF S!handle_query_variable
    <3>2. o.code = S!SOAP_INVALID_VAR
      BY <1>1, <3>1
    <3>3. S!SOAP_INVALID_VAR # 0
      BY DEF S!SOAP_INVALID_VAR
    <3> QED BY <2>2, <3>2, <3>3, ReportedError
  <2>3. CASE w.value # S!NoValue /\ w.err # 0
    <3>1. s = S!send_error_response(IF w.text THEN w.err ELSE S!SOAP_INVALID_VAR)
      BY <2>1, <2>3 DEF S!handle_query_variable
    <3>2. PICK c : c = IF w.text THEN w.err ELSE S!SOAP_INVALID_VAR
      OBVIOUS
    <3>3. o.code = c /\ c # 0 /\ (w.text => c = w.err)
      BY <1>1, <2>3, <3>1, <3>2 DEF S!SOAP_INVALID_VAR
    <3> QED BY <2>3, <3>3, ReportedError
  <2>4. CASE w.value # S!NoValue /\ w.err = 0
    <3>1. s = S!send_var_query_response(w.value)
      BY <2>1, <2>4 DEF S!handle_query_variable
    <3>2. /\ s.status = 200 /\ s.xml = TRUE /\ s.body.tag = "Var" /\ s.body.value = w.value
      BY <3>1 DEF S!send_var_query_response, S!Response
    <3>3. w.value # "" => o = S!Outcome(S!UPNP_E_SUCCESS, w.value)
      BY <1>3, <3>2 DEF S!get_response_value
    <3> QED BY <2>4, <3>3, ReportedValue
  <2> QED BY <2>2, <2>3, <2>4
<1> QED BY <1>2, <1>3

LEMMA RightMeans == AsksRight /\ OnceInv /\ RightInv => S!CallRight
<1> SUFFICES ASSUME AsksRight, OnceInv, RightInv, NEW i \in Call,
                    cp[i].pc = "done", cp[i].ask # S!NoAsk
             PROVE  /\ cp[i].code = S!UPNP_E_SUCCESS => S!Done(i) # {}
                    /\ ~S!Trouble(i) => \A k \in S!Done(i) : S!Told(i, performed[k])
                    /\ ~S!Trouble(i) /\ S!Done(i) = {} /\ S!Proper(cp[i].ask)
                         => /\ dev[i].resp.status = 404 /\ cp[i].code = S!UPNP_E_BAD_RESPONSE
                            /\ cp[i].ask.af \in lost
  BY DEF S!CallRight
<1>0. Right(i) /\ OnItsWay(i)
  BY DEF OnceInv, RightInv
<1>1. NotDone(i) <=> S!Done(i) = {}
  BY DEF NotDone, S!Done
<1>2. cp[i].code \in TroubleCodes => S!Trouble(i) /\ cp[i].code # S!UPNP_E_SUCCESS
  BY DEF S!Trouble, TroubleCodes, S!UPNP_E_SUCCESS, S!UPNP_E_OUTOF_MEMORY, S!UPNP_E_BAD_HTTPMSG,
         S!UPNP_E_SOCKET_CONNECT, S!UPNP_E_TIMEDOUT
<1>3. CASE cp[i].code \in TroubleCodes
  BY <1>2, <1>3
<1>4. CASE dev[i].pc = "none" /\ ~S!Proper(cp[i].ask) /\ cp[i].code # S!UPNP_E_SUCCESS
  <2>1. S!Done(i) = {}
    BY <1>0, <1>1, <1>4 DEF OnItsWay
  <2> QED BY <1>4, <2>1
<1>5. CASE dev[i].pc = "replied" /\ ~S!Again(cp[i].req, dev[i].resp) /\ Reads(i)
  <2>1. PICK a, s : a = cp[i].ask /\ s = dev[i].resp
    OBVIOUS
  <2>2. PICK o : o = S!get_response_value(a, s)
    OBVIOUS
  <2>3. /\ cp[i].code = o.code /\ cp[i].value = o.value
        /\ a \in Asks[i] /\ a.kind \in {"action", "var"} /\ a.name # S!NoValue
    BY <1>0, <1>5, <2>1, <2>2 DEF Reads, Right, AskedFor, AsksRight
  <2>b. S!Bad.code = S!UPNP_E_BAD_RESPONSE /\ S!UPNP_E_BAD_RESPONSE # S!UPNP_E_SUCCESS
    BY DEF S!Bad, S!Outcome, S!UPNP_E_BAD_RESPONSE, S!UPNP_E_SUCCESS
  <2>x. s.xml = FALSE => o = S!Bad
    BY <2>2 DEF S!get_response_value
  <2>4. CASE NotDone(i)
    <3>1. S!Done(i) = {}
      BY <1>1, <2>4
    <3>2. CASE dev[i].short = TRUE /\ ShortWith(s)
      <4>1. S!Trouble(i)
        BY <3>2 DEF S!Trouble
      <4>2. o.code # S!UPNP_E_SUCCESS
        <5>1. CASE s = S!StatusResponse(500)
          <6>1. s.xml = FALSE
            BY <5>1 DEF S!StatusResponse, S!Response
          <6> QED BY <2>b, <2>x, <6>1
        <5>2. CASE s = S!send_error_response(S!SOAP_MEMORY_OUT)
          <6>1. /\ s.status = 500 /\ s.xml = TRUE /\ s.body.tag = "Fault"
                /\ s.body.code = 603
            BY <5>2 DEF S!send_error_response, S!Response, S!SOAP_MEMORY_OUT
          <6>2. o = S!FaultValue(a, s.body)
            BY <2>2, <6>1 DEF S!get_response_value
          <6>3. S!FaultValue(a, s.body) = S!Outcome(603, S!NoValue)
            BY <6>1 DEF S!FaultValue
          <6> QED BY <6>2, <6>3 DEF S!Outcome, S!UPNP_E_SUCCESS
        <5> QED BY <3>2, <5>1, <5>2 DEF ShortWith
      <4> QED BY <2>3, <3>1, <4>1, <4>2
    <3>3. CASE RefusalTo(a, s)
      <4>1. o.code = S!UPNP_E_BAD_RESPONSE
        BY <2>b, <2>x, <3>3 DEF RefusalTo
      <4>2. S!Proper(a) => s.status = 404 /\ a.af \in lost
        <5>1. s.status # 405
          BY <1>0, <1>5, <2>1 DEF OnItsWay, S!Again
        <5>2. S!StatusResponse(404).status = 404
          BY DEF S!StatusResponse, S!Response
        <5> QED BY <3>3, <5>1, <5>2 DEF RefusalTo
      <4> QED BY <2>1, <2>3, <2>b, <3>1, <4>1, <4>2
    <3> QED BY <1>0, <1>5, <2>1, <2>4, <3>2, <3>3 DEF Right, Replied
  <2>5. CASE ~NotDone(i)
    <3>1. S!Done(i) # {}
      BY <1>1, <2>5
    <3>2. SUFFICES ASSUME ~S!Trouble(i), NEW k \in S!Done(i) PROVE S!Told(i, performed[k])
      BY <3>1
    <3>3. performed[k] = Deed(i)
      BY <1>0, <1>5, <2>5, <3>2 DEF OnItsWay, DoneOnce, S!Done
    <3>4. PICK d : d = Deed(i)
      OBVIOUS
    <3>5. d.name = dev[i].name /\ d.type = dev[i].type /\ d.arg = dev[i].arg /\ d.answer = dev[i].answer
      BY <3>4 DEF Deed
    <3>6. Taken(a, d.name, d.type, d.arg)
      BY <1>0, <2>1, <2>5, <3>5 DEF Right, TakenRight
    <3>7. s = IF d.name = S!NoValue THEN S!handle_query_variable(d.answer)
              ELSE S!handle_invoke_action(d.name, d.answer)
      <4>1. ~(dev[i].short = TRUE)
        BY <3>2 DEF S!Trouble
      <4> QED BY <1>0, <1>5, <2>1, <2>5, <3>5, <4>1 DEF Right, Replied, AnswerTo
    <3>8. /\ a.kind = "var" => d.name = S!NoValue
          /\ a.kind = "action" => d.name = a.name /\ d.name # S!NoValue
      BY <2>3, <3>6 DEF Taken
    <3>9. PICK w : w = d.answer
      OBVIOUS
    <3>10. Reported(w, o)
      BY <2>2, <2>3, <3>7, <3>8, <3>9, ReportsAnswer
    <3>11. S!Told(i, d)
      BY <2>1, <2>3, <3>6, <3>9, <3>10, Zenon DEF S!Told, Taken, Reported
    <3> QED BY <3>3, <3>4, <3>11
  <2> QED BY <2>4, <2>5
<1> QED BY <1>0, <1>3, <1>4, <1>5 DEF Right, Finished

-----------------------------------------------------------------------------
(* The theorems *)

\* What is true of Soap's steps is true of the behaviours of both components.
LEMMA SoapStep ==
  ASSUME [MCNext]_<<talk, vars, soapVars>>
  PROVE  [S!Next]_soapVars
BY DEF MCNext, soapVars

\* UpnpSendAction and UpnpGetServiceVarStatus: whatever is lost, answered late or
\* sent again as M-POST, the application on the device is called at most once for
\* a call (soap_request_and_response, soap_device_callback).
THEOREM ActionsAtMostOnce == MCSpec => []AtMostOnce
<1>1. MCInit => OnceInv
  BY OnceInit DEF MCInit
<1>2. OnceInv /\ [MCNext]_<<talk, vars, soapVars>> => OnceInv'
  BY OnceStep, SoapStep
<1>3. OnceInv => AtMostOnce
  BY OnceMeans DEF AtMostOnce
<1> QED BY <1>1, <1>2, <1>3, PTL DEF MCSpec

\* A call reports success only for what the application did, and what it said when
\* nothing failed on the way; a proper call is refused only when a device of its
\* family was unregistered (soap_device_callback, GetDeviceHandleInfoForPath,
\* get_response_value).
THEOREM CallsReportWhatWasDone ==
  ASSUME OneServicePerPath
  PROVE  MCSpec => []CallRight
<1>1. MCInit => OnceInv /\ RightInv
  BY OnceInit, RightInit DEF MCInit
<1>2. OnceInv /\ RightInv /\ [MCNext]_<<talk, vars, soapVars>> => OnceInv' /\ RightInv'
  BY OnceStep, RightStep, SoapStep, ControlConstants
<1>3. OnceInv /\ RightInv => CallRight
  BY OnceMeans, RightMeans, ControlConstants DEF CallRight
<1> QED BY <1>1, <1>2, <1>3, PTL DEF MCSpec
=============================================================================
