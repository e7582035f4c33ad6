--------------------------------- MODULE Sdk ---------------------------------
(***************************************************************************)
(* The life of the SDK (api/upnpapi.c): UpnpInit2 and UpnpFinish, the      *)
(* handle table, the registration of root devices and control points, the  *)
(* advertisements that repeat themselves through the timer, the replies to *)
(* searches (ssdp/ssdp_device.c), and the asynchronous calls of control    *)
(* points.                                                                 *)
(*                                                                         *)
(* Threads are those of the application (Apps), the one that initialises   *)
(* and finishes (Main), those of gSendThreadPool (Workers) and those of    *)
(* gRecvThreadPool (Receivers), which handle searches.  A step is a        *)
(* critical section of GlobalHndRWLock.  Two things are done with the lock *)
(* held and take long: a registration downloads the description with the   *)
(* write lock (writer), and AdvertiseAndReply sends with the read lock     *)
(* (reading).                                                              *)
(*                                                                         *)
(* The application follows the documentation: it calls nothing before      *)
(* UpnpInit2 has returned, UpnpFinish is its last call, and it does not    *)
(* unregister one handle from two threads.                                 *)
(***************************************************************************)
EXTENDS Integers, Sequences, FiniteSets

CONSTANTS
  Apps, Main, Workers, Receivers,
  NUM_HANDLE,
  DevicesPerFamily,  \* root devices of one address family the application has
  InitFaults,        \* the stages of UpnpInit2 that may fail
  Faults,            \* "download", "schedule" (no memory for an event), "full" (a pool refuses)
  MaxInits, MaxRegs, MaxAds, MaxRequests, MaxSearches   \* bounds on calls and searches

None == "none"
Handle  == 1 .. NUM_HANDLE - 1
Thread  == Apps \cup {Main} \cup Workers \cup Receivers
Request == 1 .. MaxRequests
Family  == {"AF_INET", "AF_INET6"}

ASSUME SdkConstants ==
  /\ NUM_HANDLE \in Nat \ {0, 1} /\ DevicesPerFamily \in Nat
  /\ Main \notin Apps \cup Workers \cup Receivers /\ None \notin Thread
  /\ Apps \cap Workers = {} /\ Receivers \cap (Apps \cup Workers) = {}
  /\ IsFiniteSet(Apps) /\ IsFiniteSet(Workers) /\ IsFiniteSet(Receivers)
  /\ {MaxInits, MaxRegs, MaxAds, MaxRequests, MaxSearches} \subseteq Nat

VARIABLES
  UpnpSdkInit,
  stage,          \* of UpnpInit2 and UpnpFinish: "up" and "down" between them
  up,             \* the subsystems that are initialised
  HandleTable,
  registered,     \* UpnpSdkDeviceRegisteredV4 and ...V6
  clients,        \* UpnpSdkClientRegistered
  writer,         \* who holds the write lock over a download
  reading,        \* who holds the read lock in AdvertiseAndReply
  call,           \* the call each thread is in
  timers,         \* per handle: AutoAdvertise events of gTimerThread
  adJobs,         \* per handle: AutoAdvertise jobs in gSendThreadPool
  replies,        \* per handle: replies to searches that wait for gTimerThread
  replyJobs,      \* per handle: advertiseAndReplyThread jobs in gSendThreadPool
  req,            \* per request: "queued", "running", "answered" ...
  params,         \* the UpnpNonblockParam allocated
  misuse,         \* history: what was used when it was not there
  failed,         \* history: which of the faults have happened
  inits, regs, ads, searches

table == <<HandleTable, registered, clients>>
answers == <<replies, replyJobs, searches>>
jobs  == <<timers, adJobs, req, params, answers>>
life  == <<UpnpSdkInit, stage, up, inits>>
vars  == <<life, table, writer, reading, call, jobs, misuse, failed, regs, ads>>

Empty  == [HType |-> "invalid", DeviceAf |-> None, gen |-> 0, chains |-> 0]
NoCall == [op |-> None, pc |-> 0, h |-> 0, gen |-> 0, af |-> None, job |-> FALSE]

-----------------------------------------------------------------------------
(* Helpers *)

\* HandleReadLock and HandleLock
ReadLock  == writer = None
WriteLock == writer = None /\ reading = {}

Uses(R) == misuse' = misuse \cup (R \ up)

GetHandleInfo(h) == HandleTable[h].HType

\* GetFreeHandle: the first free one, as a set.
GetFreeHandle ==
  {h \in Handle : GetHandleInfo(h) = "invalid" /\ \A k \in 1 .. h - 1 : GetHandleInfo(k) # "invalid"}

FreeHandle(h) == HandleTable' = [HandleTable EXCEPT ![h] = Empty]

DevicesOf(af) == {h \in Handle : GetHandleInfo(h) = "device" /\ HandleTable[h].DeviceAf = af}
ClientHandles == {h \in Handle : GetHandleInfo(h) = "client"}

First(S) == {h \in S : \A k \in S : h <= k}

\* GetDeviceHandleInfo(start, af), behind handle start, and GetClientHandleInfo
GetDeviceHandleInfo(start, af) ==
  IF registered[af] THEN First({h \in DevicesOf(af) : h > start}) ELSE {}
GetClientHandleInfo == First(ClientHandles)

\* The call of thread t goes on at pc n, or returns.
Goto(t, n) == call' = [call EXCEPT ![t].pc = n]
Return(t)  == call' = [call EXCEPT ![t] = NoCall]
At(t, op, n) == call[t].op = op /\ call[t].pc = n

\* An application thread may call.
Open(t) == t \in Apps /\ stage = "up" /\ call[t] = NoCall

-----------------------------------------------------------------------------
(* UpnpInit2, with gSDKInitMutex held.  The flag is set before anything is. *)

InitOrder == <<"log", "mutexes", "pools", "timer", "ifinfo", "miniserver", "webserver">>

ASSUME InitFaultsAssumption == InitFaults \subseteq {InitOrder[i] : i \in DOMAIN InitOrder}

Brings(s) == CASE s = "mutexes" -> {"locks"}
               [] s = "pools" -> {"send", "recv", "mini"}
               [] s \in {"timer", "miniserver", "webserver"} -> {s}
               [] OTHER -> {}

StageAfter(s) ==
  LET i == CHOOSE n \in DOMAIN InitOrder : InitOrder[n] = s
  IN IF i = Len(InitOrder) THEN "up" ELSE InitOrder[i + 1]

UpnpInit2 ==
  /\ stage = "down" /\ ~UpnpSdkInit /\ inits < MaxInits
  /\ UpnpSdkInit' = TRUE
  /\ stage' = InitOrder[1]
  /\ inits' = inits + 1
  /\ UNCHANGED <<up, table, writer, reading, call, jobs, misuse, failed, regs, ads>>

\* A stage of UpnpInitPreamble, UpnpGetIfInfo or UpnpInitStartServers.  The
\* handle table is cleared with the new lock.
UpnpInitStage ==
  /\ stage \in {InitOrder[i] : i \in DOMAIN InitOrder}
  /\ stage' = StageAfter(stage)
  /\ up' = up \cup Brings(stage)
  /\ HandleTable' = IF stage = "mutexes" THEN [h \in Handle |-> Empty] ELSE HandleTable
  /\ UNCHANGED <<UpnpSdkInit, inits, registered, clients, writer, reading, call,
                 jobs, misuse, failed, regs, ads>>

\* UpnpInitThreadPools fails: it clears the flag, so that UpnpFinish does nothing.
UpnpInitThreadPoolsFails ==
  /\ stage = "pools" /\ "pools" \in InitFaults
  /\ \E made \in {{}, {"send"}, {"send", "recv"}} : up' = up \cup made
  /\ UpnpSdkInit' = FALSE
  /\ stage' = "down"
  /\ failed' = failed \cup {"pools"}
  /\ UNCHANGED <<inits, table, writer, reading, call, jobs, misuse, regs, ads>>

\* Any other stage fails: UpnpFinish is called.
UpnpInitFails ==
  /\ stage \in InitFaults \ {"pools"}
  /\ stage' = "devices4"
  /\ UNCHANGED <<UpnpSdkInit, up, inits, table, writer, reading, call, jobs, misuse,
                 failed, regs, ads>>

-----------------------------------------------------------------------------
(* Registration *)

\* All the variants: the lock is taken, a handle found, and the description
\* fetched with the lock held ...
RegisterBegin(t, af) ==
  /\ Open(t) /\ UpnpSdkInit /\ WriteLock
  /\ Cardinality(DevicesOf(af)) < DevicesPerFamily
  /\ regs < MaxRegs
  /\ \E h \in GetFreeHandle :
       /\ HandleTable' = [HandleTable EXCEPT ![h] =
                            [Empty EXCEPT !.HType = "device", !.DeviceAf = af, !.gen = regs + 1]]
       /\ call' = [call EXCEPT ![t] = [NoCall EXCEPT !.op = "register", !.h = h, !.af = af]]
  /\ writer' = t
  /\ regs' = regs + 1
  /\ Uses({"locks"})
  /\ UNCHANGED <<life, registered, clients, reading, jobs, failed, ads>>

UpnpRegisterRootDevice(t)      == RegisterBegin(t, "AF_INET")
UpnpRegisterRootDevice2(t)     == RegisterBegin(t, "AF_INET")
UpnpRegisterRootDevice4(t, af) == RegisterBegin(t, af)
UpnpRegisterRootDevice3(t, af) == UpnpRegisterRootDevice4(t, af)

\* ... and it is there, or the handle is freed again.
RegisterEnd(t, ok) ==
  /\ call[t].op = "register"
  /\ ok \/ "download" \in Faults
  /\ IF ok
     THEN /\ registered' = [registered EXCEPT ![call[t].af] = TRUE]
          /\ UNCHANGED HandleTable
     ELSE FreeHandle(call[t].h) /\ UNCHANGED registered
  /\ writer' = None
  /\ Return(t)
  /\ UNCHANGED <<life, clients, reading, jobs, misuse, failed, regs, ads>>

Booleans(b) == IF b THEN 1 ELSE 0

UpnpRegisterClient(t) ==
  /\ Open(t) /\ UpnpSdkInit /\ WriteLock
  /\ NUM_HANDLE - 1 > clients + Booleans(registered["AF_INET"]) + Booleans(registered["AF_INET6"])
  /\ regs < MaxRegs
  /\ \E h \in GetFreeHandle :
       HandleTable' = [HandleTable EXCEPT ![h] = [Empty EXCEPT !.HType = "client", !.gen = regs + 1]]
  /\ clients' = clients + 1
  /\ regs' = regs + 1
  /\ Uses({"locks"})
  /\ UNCHANGED <<life, registered, writer, reading, call, jobs, failed, ads>>

-----------------------------------------------------------------------------
(* AdvertiseAndReply, by thread t whose call is at pc n: the read lock is held *)
(* while it sends, whose failures it does not report.  When the handle is not a *)
(* device's it fails, and the call ends.                                        *)

AdvertiseBegin(t, n) ==
  /\ ReadLock
  /\ Uses({"locks"})
  /\ IF GetHandleInfo(call[t].h) = "device"
     THEN reading' = reading \cup {t} /\ Goto(t, n + 1)
     ELSE UNCHANGED reading /\ Return(t)
  /\ UNCHANGED <<life, table, writer, jobs, failed, regs, ads>>

\* Mutant of ReadUnlock: the lock is kept.
ReadLockKept(t) == UNCHANGED reading

ReadUnlock(t) == reading' = reading \ {t}

AdvertiseEnd(t, n) ==
  /\ ReadUnlock(t)
  /\ Goto(t, n + 1)
  /\ UNCHANGED <<life, table, writer, jobs, misuse, failed, regs, ads>>

-----------------------------------------------------------------------------
(* UpnpUnRegisterRootDeviceLowPower for handle h, by an application or Main *)

Unregistering(h) == \E t \in Thread : call[t].op \in {"unregister", "unregclient"} /\ call[t].h = h

UnRegisterCall(t, h) ==
  call' = [call EXCEPT ![t] = [NoCall EXCEPT !.op = "unregister", !.pc = 1, !.h = h,
                                             !.gen = HandleTable[h].gen]]

UpnpUnRegisterRootDevice(t, h) ==
  /\ Open(t) /\ UpnpSdkInit
  /\ GetHandleInfo(h) = "device" /\ ~Unregistering(h)
  /\ ~\E x \in Thread : call[x].op = "register" /\ call[x].h = h
  /\ UnRegisterCall(t, h)
  /\ UNCHANGED <<life, table, writer, reading, jobs, misuse, failed, regs, ads>>

\* genaUnregisterDevice (pc 1), and the section that sets the power state (pc 2).
UnRegisterSection(t) ==
  /\ At(t, "unregister", 1) \/ At(t, "unregister", 2)
  /\ WriteLock
  /\ Uses({"locks"})
  /\ IF \/ call[t].pc = 1 /\ GetHandleInfo(call[t].h) # "device"
        \/ call[t].pc = 2 /\ GetHandleInfo(call[t].h) = "invalid"
     THEN Return(t) ELSE Goto(t, call[t].pc + 1)
  /\ UNCHANGED <<life, table, writer, reading, jobs, failed, regs, ads>>

\* HInfo->MaxAge is read without the lock, then the byebyes are sent.
UnRegisterByebye(t) ==
  /\ At(t, "unregister", 3)
  /\ ReadLock
  /\ misuse' = misuse \cup ({"locks"} \ up)
               \cup (IF HandleTable[call[t].h].gen = call[t].gen THEN {} ELSE {"hinfo"})
  /\ IF GetHandleInfo(call[t].h) = "device"
     THEN reading' = reading \cup {t} /\ Goto(t, 4)
     ELSE UNCHANGED reading /\ Goto(t, 5)
  /\ UNCHANGED <<life, table, writer, jobs, failed, regs, ads>>

UnRegisterByebyeEnd(t) == At(t, "unregister", 4) /\ AdvertiseEnd(t, 4)

\* Mutant of Unflagged: the flag of the other family is cleared.
UnflaggedOther(af) == [f \in Family |-> f = af /\ registered[f]]

\* The flags when a device of family af goes.
Unflagged(af) == [f \in Family |-> f # af /\ registered[f]]

\* The last section: the flag of the family is cleared, the handle freed.
UnRegisterFree(t) ==
  LET h == call[t].h IN
  /\ At(t, "unregister", 5) /\ WriteLock
  /\ Uses({"locks"})
  /\ IF GetHandleInfo(h) = "invalid" THEN UNCHANGED <<HandleTable, registered>>
     ELSE /\ registered' = Unflagged(HandleTable[h].DeviceAf)
          /\ FreeHandle(h)
  /\ Return(t)
  /\ UNCHANGED <<life, clients, writer, reading, jobs, failed, regs, ads>>

-----------------------------------------------------------------------------
(* UpnpUnRegisterClient: genaUnregisterClient, which talks to the devices, is *)
(* between the check and the section that frees the handle.                   *)

UnRegisterClientCall(t, h) ==
  call' = [call EXCEPT ![t] = [NoCall EXCEPT !.op = "unregclient", !.pc = 1, !.h = h]]

UpnpUnRegisterClient(t, h) ==
  /\ Open(t) /\ UpnpSdkInit
  /\ GetHandleInfo(h) = "client" /\ ~Unregistering(h)
  /\ UnRegisterClientCall(t, h)
  /\ UNCHANGED <<life, table, writer, reading, jobs, misuse, failed, regs, ads>>

UnRegisterClientCheck(t) ==
  /\ At(t, "unregclient", 1) /\ WriteLock
  /\ Uses({"locks"})
  /\ IF clients = 0 \/ GetHandleInfo(call[t].h) # "client" THEN Return(t) ELSE Goto(t, 2)
  /\ UNCHANGED <<life, table, writer, reading, jobs, failed, regs, ads>>

Uncounted == clients' = clients - 1

UnRegisterClientFree(t) ==
  /\ At(t, "unregclient", 2) /\ WriteLock
  /\ Uses({"locks"})
  /\ IF GetHandleInfo(call[t].h) = "invalid" THEN UNCHANGED <<HandleTable, clients>>
     ELSE FreeHandle(call[t].h) /\ Uncounted
  /\ Return(t)
  /\ UNCHANGED <<life, registered, writer, reading, jobs, failed, regs, ads>>

-----------------------------------------------------------------------------
(* UpnpSendAdvertisementLowPower, by the application or by AutoAdvertise *)

UpnpSendAdvertisement(t, h) ==
  /\ Open(t) /\ UpnpSdkInit /\ WriteLock
  /\ GetHandleInfo(h) = "device"
  /\ ads < MaxAds /\ ads' = ads + 1
  /\ Uses({"locks"})
  /\ call' = [call EXCEPT ![t] = [NoCall EXCEPT !.op = "advertise", !.pc = 1, !.h = h]]
  /\ UNCHANGED <<life, table, writer, reading, jobs, failed, regs>>

SendAdvertisementAlive(t) == At(t, "advertise", 1) /\ AdvertiseBegin(t, 1)

SendAdvertisementSent(t) == At(t, "advertise", 2) /\ AdvertiseEnd(t, 2)

\* Mutant of StillDevice: the handle is not looked up again.
StillAssumed(h) == TRUE

StillDevice(h) == GetHandleInfo(h) = "device"

\* Mutant of Scheduled: AutoAdvertise does not put itself on the timer again.
ScheduledOnce(t) == timers' = [timers EXCEPT ![call[t].h] = IF call[t].job THEN @ ELSE @ + 1]

\* TimerThreadSchedule of AutoAdvertise
Scheduled(t) == timers' = [timers EXCEPT ![call[t].h] = @ + 1]

\* The next advertisement is put on the timer, if the device is still there and there
\* is memory for it.  What AutoAdvertise gets back is lost.
ScheduleAdvertisement(t) ==
  LET h == call[t].h IN
  /\ At(t, "advertise", 3) /\ WriteLock
  /\ \/ /\ StillDevice(h)
        /\ Uses({"locks", "timer"})
        /\ Scheduled(t)
        /\ HandleTable' = [HandleTable EXCEPT ![h].chains = IF call[t].job THEN @ ELSE @ + 1]
        /\ UNCHANGED failed
     \/ /\ StillDevice(h) /\ "schedule" \in Faults
        /\ Uses({"locks", "timer"})
        /\ failed' = IF call[t].job THEN failed \cup {"schedule"} ELSE failed
        /\ UNCHANGED <<timers, HandleTable>>
     \/ ~StillDevice(h) /\ Uses({"locks"}) /\ UNCHANGED <<timers, HandleTable, failed>>
  /\ Return(t)
  /\ UNCHANGED <<life, registered, clients, writer, reading, adJobs, req, params, answers,
                 regs, ads>>

\* The timer thread hands the event to gSendThreadPool, which may refuse it.
AdvertisementDue(h) ==
  /\ "timer" \in up /\ timers[h] > 0
  /\ timers' = [timers EXCEPT ![h] = @ - 1]
  /\ \/ adJobs' = [adJobs EXCEPT ![h] = @ + 1] /\ UNCHANGED failed
     \/ "full" \in Faults /\ failed' = failed \cup {"full"} /\ UNCHANGED adJobs
  /\ UNCHANGED <<life, table, writer, reading, call, req, params, answers, misuse, regs, ads>>

\* AutoAdvertise: a worker calls UpnpSendAdvertisement.
AutoAdvertise(w, h) ==
  /\ w \in Workers /\ call[w] = NoCall /\ adJobs[h] > 0
  /\ stage # "sendpool" /\ WriteLock
  /\ adJobs' = [adJobs EXCEPT ![h] = @ - 1]
  /\ IF UpnpSdkInit /\ GetHandleInfo(h) = "device"
     THEN call' = [call EXCEPT ![w] = [NoCall EXCEPT !.op = "advertise", !.pc = 1, !.h = h,
                                                     !.job = TRUE]]
     ELSE UNCHANGED call
  /\ Uses({"locks"})
  /\ UNCHANGED <<life, table, writer, reading, timers, req, params, answers, failed, regs, ads>>

-----------------------------------------------------------------------------
(* ssdp_handle_device_request, by a receiver: the reply of every device of the *)
(* family the search came in for is put on the timer, which has a worker send  *)
(* it.                                                                         *)

\* As long as the mini server runs it hands searches to gRecvThreadPool.
SearchArrives(r, af) ==
  /\ r \in Receivers /\ call[r] = NoCall /\ "miniserver" \in up
  /\ searches < MaxSearches /\ searches' = searches + 1
  /\ call' = [call EXCEPT ![r] = [NoCall EXCEPT !.op = "search", !.pc = 1, !.af = af]]
  /\ UNCHANGED <<life, table, writer, reading, timers, adJobs, replies, replyJobs, req, params,
                 misuse, failed, regs, ads>>

\* The next device of the family is looked for, from the last one on.
SearchDevice(r) ==
  LET found == GetDeviceHandleInfo(call[r].h, call[r].af) IN
  /\ At(r, "search", 1) /\ WriteLock
  /\ Uses({"locks"})
  /\ \/ found = {} /\ Return(r)
     \/ \E h \in found : call' = [call EXCEPT ![r].h = h, ![r].pc = 2]
  /\ UNCHANGED <<life, table, writer, reading, jobs, failed, regs, ads>>

\* TimerThreadSchedule, whose result is not looked at.  UpnpFinish may have shut the
\* timer down: then its mutex and its list are used when they are gone.
SearchReply(r) ==
  LET h == call[r].h IN
  /\ At(r, "search", 2)
  /\ misuse' = IF "timer" \in up THEN misuse ELSE misuse \cup {"late reply"}
  /\ \/ replies' = IF "timer" \in up THEN [replies EXCEPT ![h] = @ + 1] ELSE replies
     \/ "schedule" \in Faults /\ UNCHANGED replies
  /\ Goto(r, 1)
  /\ UNCHANGED <<life, table, writer, reading, timers, adJobs, replyJobs, searches, req, params,
                 failed, regs, ads>>

\* The timer hands a reply that is due to gSendThreadPool, which may refuse it.
ReplyDue(h) ==
  /\ "timer" \in up /\ replies[h] > 0
  /\ replies' = [replies EXCEPT ![h] = @ - 1]
  /\ \/ replyJobs' = [replyJobs EXCEPT ![h] = @ + 1]
     \/ "full" \in Faults /\ UNCHANGED replyJobs
  /\ UNCHANGED <<life, table, writer, reading, call, timers, adJobs, searches, req, params, misuse,
                 failed, regs, ads>>

\* advertiseAndReplyThread
ReplyStart(w, h) ==
  /\ w \in Workers /\ call[w] = NoCall /\ replyJobs[h] > 0 /\ stage # "sendpool"
  /\ replyJobs' = [replyJobs EXCEPT ![h] = @ - 1]
  /\ call' = [call EXCEPT ![w] = [NoCall EXCEPT !.op = "reply", !.pc = 1, !.h = h]]
  /\ UNCHANGED <<life, table, writer, reading, timers, adJobs, replies, searches, req, params,
                 misuse, failed, regs, ads>>

ReplySends(w) == At(w, "reply", 1) /\ AdvertiseBegin(w, 1)

ReplySent(w) ==
  /\ At(w, "reply", 2)
  /\ ReadUnlock(w)
  /\ Return(w)
  /\ UNCHANGED <<life, table, writer, jobs, misuse, failed, regs, ads>>

-----------------------------------------------------------------------------
(* Asynchronous calls *)

\* The handle is checked, a Param made and handed to gSendThreadPool.  When the
\* pool refuses it, it is freed and the call still returns UPNP_E_SUCCESS.
AsyncCall(t, h) ==
  /\ Open(t) /\ UpnpSdkInit /\ ReadLock
  /\ GetHandleInfo(h) = "client"
  /\ \E r \in {r \in Request : req[r] = None /\ \A q \in 1 .. r - 1 : req[q] # None} :
       \/ /\ req' = [req EXCEPT ![r] = "queued"]
          /\ params' = params \cup {r}
       \/ /\ "full" \in Faults
          /\ req' = [req EXCEPT ![r] = "refused"]
          /\ UNCHANGED params
  /\ Uses({"locks", "send"})
  /\ UNCHANGED <<life, table, writer, reading, call, timers, adJobs, answers, failed, regs, ads>>

UpnpSubscribeAsync(t, h)           == AsyncCall(t, h)
UpnpUnSubscribeAsync(t, h)         == AsyncCall(t, h)
UpnpRenewSubscriptionAsync(t, h)   == AsyncCall(t, h)
UpnpSendActionAsync(t, h)          == AsyncCall(t, h)
UpnpSendActionExAsync(t, h)        == AsyncCall(t, h)
UpnpGetServiceVarStatusAsync(t, h) == AsyncCall(t, h)

\* UpnpThreadDistribution: a worker does the call ...
UpnpThreadDistribution(w, r) ==
  /\ w \in Workers /\ call[w] = NoCall /\ req[r] = "queued" /\ stage # "sendpool"
  /\ req' = [req EXCEPT ![r] = "running"]
  /\ call' = [call EXCEPT ![w] = [NoCall EXCEPT !.op = "request", !.h = r]]
  /\ UNCHANGED <<life, table, writer, reading, timers, adJobs, params, answers, misuse, failed,
                 regs, ads>>

CalledBack(r) == req' = [req EXCEPT ![r] = "answered"]

\* ... and when it has its result calls the application back and frees the Param.
DistributionDone(w) ==
  /\ call[w].op = "request"
  /\ CalledBack(call[w].h)
  /\ params' = params \ {call[w].h}
  /\ Return(w)
  /\ UNCHANGED <<life, table, writer, reading, timers, adJobs, answers, misuse, failed, regs, ads>>

-----------------------------------------------------------------------------
(* UpnpFinish *)

UpnpFinish ==
  /\ stage = "up" /\ UpnpSdkInit
  /\ \A t \in Apps : call[t] = NoCall
  /\ stage' = "devices4"
  /\ UNCHANGED <<UpnpSdkInit, up, inits, table, writer, reading, call, jobs, misuse,
                 failed, regs, ads>>

\* while (GetDeviceHandleInfo(0, family, ...) == HND_DEVICE) ..., and the loop over
\* the control points.
FinishHandles(s, found, next) ==
  /\ stage = s /\ call[Main] = NoCall
  /\ IF found = {} THEN stage' = next /\ UNCHANGED call
     ELSE /\ UNCHANGED stage
          /\ \E h \in found : IF s = "clients" THEN UnRegisterClientCall(Main, h)
                                               ELSE UnRegisterCall(Main, h)
  /\ UNCHANGED <<UpnpSdkInit, up, inits, table, writer, reading, jobs, misuse, failed, regs, ads>>

FinishUnregister ==
  \/ FinishHandles("devices4", GetDeviceHandleInfo(0, "AF_INET"), "devices6")
  \/ FinishHandles("devices6", GetDeviceHandleInfo(0, "AF_INET6"), "clients")
  \/ FinishHandles("clients", GetClientHandleInfo, "finish_timer")

FinishStages == <<"finish_timer", "finish_servers", "finish_recv", "sendpool", "finish_locks", "down">>

\* What each later stage shuts down.
ShutsDown(s) == CASE s = "finish_timer" -> {"timer"}
                  [] s = "finish_servers" -> {"miniserver", "webserver", "mini"}
                  [] s = "finish_recv" -> {"recv"}
                  [] s = "sendpool" -> {"send"}
                  [] s = "finish_locks" -> {"locks"}

\* StopMiniServer and web_server_destroy do nothing when theirs is not running.
Tolerant == {"miniserver", "webserver"}

NextStage(s) == FinishStages[1 + CHOOSE i \in DOMAIN FinishStages : FinishStages[i] = s]

\* Mutant of SendPoolIdle: the pool is not waited for.
SendPoolNotWaited == TRUE

\* ThreadPoolShutdown waits for the jobs that run.
SendPoolIdle == \A w \in Workers : call[w] = NoCall
RecvPoolIdle == \A r \in Receivers : call[r] = NoCall

\* TimerThreadShutdown drops the events; ThreadPoolShutdown drops what is queued
\* (when the stage before it ends), takes no job any more and waits for the jobs
\* that run; then the locks are destroyed and the flag is cleared.
FinishStep ==
  /\ stage \in {FinishStages[i] : i \in 1 .. 5}
  /\ stage = "sendpool" => SendPoolIdle
  /\ stage = "finish_recv" => RecvPoolIdle
  /\ stage' = NextStage(stage)
  /\ up' = up \ ShutsDown(stage)
  /\ Uses(ShutsDown(stage) \ Tolerant)
  /\ timers' = IF stage = "finish_timer" THEN [h \in Handle |-> 0] ELSE timers
  /\ replies' = IF stage = "finish_timer" THEN [h \in Handle |-> 0] ELSE replies
  /\ UpnpSdkInit' = (stage # "finish_locks")
  /\ adJobs' = IF stage = "finish_recv" THEN [h \in Handle |-> 0] ELSE adJobs
  /\ replyJobs' = IF stage = "finish_recv" THEN [h \in Handle |-> 0] ELSE replyJobs
  /\ LET dropped == IF stage = "finish_recv" THEN {r \in Request : req[r] = "queued"} ELSE {}
     IN /\ req' = [r \in Request |-> IF r \in dropped THEN "dropped" ELSE req[r]]
        /\ params' = params \ dropped
  /\ UNCHANGED <<inits, table, writer, reading, call, searches, failed, regs, ads>>

-----------------------------------------------------------------------------
Init ==
  /\ UpnpSdkInit = FALSE /\ stage = "down" /\ up = {} /\ inits = 0
  /\ HandleTable = [h \in Handle |-> Empty]
  /\ registered = [af \in Family |-> FALSE] /\ clients = 0
  /\ writer = None /\ reading = {}
  /\ call = [t \in Thread |-> NoCall]
  /\ timers = [h \in Handle |-> 0] /\ adJobs = [h \in Handle |-> 0]
  /\ replies = [h \in Handle |-> 0] /\ replyJobs = [h \in Handle |-> 0]
  /\ req = [r \in Request |-> None] /\ params = {}
  /\ misuse = {} /\ failed = {}
  /\ regs = 0 /\ ads = 0 /\ searches = 0

Register(t) ==
  \/ UpnpRegisterRootDevice(t) \/ UpnpRegisterRootDevice2(t) \/ UpnpRegisterClient(t)
  \/ \E af \in Family : UpnpRegisterRootDevice3(t, af)

Unregister(t) ==
  \/ UnRegisterSection(t) \/ UnRegisterByebye(t) \/ UnRegisterByebyeEnd(t) \/ UnRegisterFree(t)
  \/ UnRegisterClientCheck(t) \/ UnRegisterClientFree(t)

Advertise(t) ==
  SendAdvertisementAlive(t) \/ SendAdvertisementSent(t) \/ ScheduleAdvertisement(t)

Reply(t)  == ReplySends(t) \/ ReplySent(t)
Search(t) == SearchDevice(t) \/ SearchReply(t)

\* The call thread t is in goes on.
CallStep(t) == \/ \E ok \in BOOLEAN : RegisterEnd(t, ok)
               \/ Unregister(t) \/ Advertise(t) \/ Reply(t) \/ Search(t)

Async(t, h) ==
  \/ UpnpSubscribeAsync(t, h) \/ UpnpUnSubscribeAsync(t, h) \/ UpnpRenewSubscriptionAsync(t, h)
  \/ UpnpSendActionAsync(t, h) \/ UpnpSendActionExAsync(t, h) \/ UpnpGetServiceVarStatusAsync(t, h)

MainStep == FinishUnregister \/ FinishStep \/ Unregister(Main)

WorkerStep(w) ==
  \/ \E h \in Handle : AutoAdvertise(w, h) \/ ReplyStart(w, h)
  \/ Advertise(w) \/ Reply(w)
  \/ \E r \in Request : UpnpThreadDistribution(w, r)
  \/ DistributionDone(w)

Next ==
  \/ UpnpInit2 \/ UpnpInitStage \/ UpnpInitThreadPoolsFails \/ UpnpInitFails
  \/ \E t \in Apps : \/ Register(t) \/ CallStep(t)
                     \/ \E h \in Handle : \/ UpnpUnRegisterRootDevice(t, h) \/ UpnpUnRegisterClient(t, h)
                                          \/ UpnpSendAdvertisement(t, h) \/ Async(t, h)
  \/ \E h \in Handle : AdvertisementDue(h) \/ ReplyDue(h)
  \/ \E w \in Workers : WorkerStep(w)
  \/ \E r \in Receivers : Search(r) \/ \E af \in Family : SearchArrives(r, af)
  \/ UpnpFinish \/ MainStep

Spec == Init /\ [][Next]_vars

\* The threads run, and sending, downloading and the calls of the pool's jobs end:
\* they have timeouts.  A thread gets the write lock although others take it again
\* and again, and a worker comes to every request: an advertisement is repeated
\* after minutes only, and the pool serves its queue in order.
Fairness == /\ SF_vars(FinishUnregister) /\ SF_vars(FinishStep)
            /\ \A t \in Thread : SF_vars(CallStep(t))
            /\ \A w \in Workers : WF_vars(WorkerStep(w))
            /\ \A r \in Request : SF_vars(\E w \in Workers : UpnpThreadDistribution(w, r))

-----------------------------------------------------------------------------
(* Properties *)

TypeOK ==
  /\ UpnpSdkInit \in BOOLEAN
  /\ up \subseteq {"locks", "send", "recv", "mini", "timer", "miniserver", "webserver"}
  /\ HandleTable \in [Handle -> [HType : {"invalid", "client", "device"},
                                 DeviceAf : Family \cup {None}, gen : 0 .. MaxRegs,
                                 chains : 0 .. MaxAds]]
  /\ registered \in [Family -> BOOLEAN] /\ clients \in Nat
  /\ writer \in Thread \cup {None} /\ reading \subseteq Thread
  /\ timers \in [Handle -> Nat] /\ adJobs \in [Handle -> Nat]
  /\ replies \in [Handle -> Nat] /\ replyJobs \in [Handle -> Nat]
  /\ req \in [Request -> {None, "queued", "running", "answered", "dropped", "refused"}]
  /\ params \subseteq Request /\ failed \subseteq {"pools", "schedule", "full"}

\* "This allows listing all entries for the address family": the flag that
\* GetDeviceHandleInfo tests first is set exactly when the table has a device of
\* the family.
FlagsMatchTable ==
  writer = None => \A af \in Family : registered[af] <=> DevicesOf(af) # {}

\* UpnpSdkClientRegistered counts the control points of the table, whoever
\* unregistered them.
ClientsCounted == clients = Cardinality(ClientHandles)

\* Neither the lock, the timer nor a pool is used when it has been shut down or is
\* not yet made, not by UpnpFinish and not by the jobs that still run while it
\* works, and no handle's record is read after it was freed.  There is one exception:
\* a receiver that found a device before it was unregistered may come to the timer
\* after TimerThreadShutdown, for the receive pool is shut down later.
NoUseAfterShutdown == misuse \subseteq {"late reply"}

\* A device that was advertised, and is registered, has its next advertisement
\* on the timer, in the pool or being made, for every call that asked for it: as
\* long as no job was refused and no repetition was without memory for its event,
\* which end it for good.
KeepsAdvertising ==
  \A h \in Handle :
    HandleTable[h].HType = "device" /\ "timer" \in up /\ failed \cap {"schedule", "full"} = {} =>
      timers[h] + adJobs[h] + Cardinality({w \in Workers : call[w].op = "advertise" /\ call[w].h = h})
        >= HandleTable[h].chains

\* When the SDK is down, whatever way it went down, nothing of it is left: no
\* handle, no event, no job, no Param, no subsystem.  A failure to make the thread
\* pools is the exception.
NothingLeft ==
  stage = "down" /\ "pools" \notin failed =>
    /\ up = {} /\ params = {} /\ reading = {} /\ writer = None
    /\ \A h \in Handle : /\ HandleTable[h] = Empty /\ timers[h] = 0 /\ adJobs[h] = 0
                          /\ replies[h] = 0 /\ replyJobs[h] = 0
    /\ \A t \in Thread : call[t] = NoCall
    /\ clients = 0

\* UpnpFinish comes to its end: the jobs it waits for do not wait for it.
FinishEnds == stage = "devices4" ~> stage = "down"

\* Every request that was accepted is answered by one callback, or dropped by
\* UpnpFinish.
Answered == \A r \in Request : req[r] = "queued" ~> req[r] \in {"answered", "dropped"}

\* The handle table and what is kept beside it agree: the flags by which a family's
\* device is looked up and the number of control points.
TableRight == TypeOK /\ FlagsMatchTable /\ ClientsCounted

\* UpnpFinish ends, and what the pools accepted before it is answered or dropped.
Progress == FinishEnds /\ Answered
==============================================================================
