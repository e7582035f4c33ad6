# TLA+ models of the Portable UPnP SDK (libupnp)

libupnp is a C library with which a program becomes a UPnP device, a control
point, or both. This directory holds TLA+ models of the library, the TLC
configurations that check them, and TLAPS proofs about the pool, the timer, the
life of the SDK, eventing, control, discovery, the mini server and the web
server.
Every definition is translated from the C source; `map` in `PROJECT.json`
gives the file and the lines each one stands for, `hazards` what is hard to
test and which property looks after it.

    tlc -workers 2 -config tp_calls.cfg MCThreadPool     # one run
    tlapm ThreadPoolProofs.tla                           # one proof module

## The system and its parts

| component | state it keeps | operations | talks to |
|---|---|---|---|
| thread pool (`threadutil/ThreadPool.c`) | three job queues, a slot for one persistent job, thread counters, attributes | Init, Add, AddPersistent, Remove, Get/SetAttr, Shutdown; the worker loop | runs every callback, timer and server of the SDK; there are three pools (send, receive, mini server) |
| timer thread (`threadutil/TimerThread.c`) | queue of events sorted by time | Init, Schedule, Remove, Shutdown; the worker, a persistent job | hands due events to the send pool; used by renewals, advertisements, searches |
| handle table, SDK life cycle (`api/upnpapi.c`) | 200 handles, `HandleLock`, `UpnpSdkInit` | UpnpInit2, UpnpFinish, register and unregister, all API calls | everything |
| GENA device (`gena/gena_device.c`) and service table | per subscription: SID, event key, expiry, queue of outgoing events; per event: a reference count | subscribe, renew, unsubscribe, accept, notify, the NOTIFY job | requests come from the mini server, NOTIFY jobs run in the send pool |
| GENA control point (`gena/gena_ctrlpt.c`, `genlib/client_table`) | client subscriptions with their renewal timer ids | subscribe, renew, unsubscribe, receive an event | timer, mini server |
| SSDP (`ssdp/*.c`) | search list of a control point | search, reply matching, search timeout, advertisement, reply, byebye | mini server loop, timer, pools |
| mini server (`genlib/miniserver`) | state idle / running / stopping, sockets | start, stop, dispatch of a request to SOAP, GENA or the web server | mini server pool |
| web server (`genlib/net/http/webserver.c`), URL configuration | root directory, one XML document with a reference count, virtual directories | GET and HEAD with ranges, POST | mini server |
| HTTP (`httpparser.c`, `httpreadwrite.c`, `sock.c`) | incremental parser of one message; a connection handle | parse, read, write with timeouts | mini server, GENA, SOAP |
| SOAP (`soap/*.c`) | none between calls | action and query requests and replies | mini server, application callbacks |
| URI (`uri.c`) | none | parse, resolve, remove dots and escapes | all of the network code |
| ixml (`ixml/src`) | DOM trees | parse, print, clone, tree operations, lookups | service table, SOAP, GENA, applications |
| lists, buffers, UUID, generated objects, tools | data structures and pure functions | | all |

What is hard here is seldom in one function: a call releases a mutex in the
middle (`CreateWorker`), a job looks at a subscription before and after it sent
a message without the lock (`genaNotifyThread`), an event overtakes the answer
to the request that caused it, an object expires while it is in use, shutdown
runs while jobs are still going, a message is cut at any byte, a queue is full,
an allocation or one of several sockets fails half-way.

What makes each component correct:

* thread pool: a job runs at most once and, once accepted, does run, or is
  removed or freed; no wakeup is lost; the counters the code decides by are
  right; priorities are fair and first-in first-out; shutdown ends and nobody
  is inside a destroyed pool.
* timer: an event is handed over not before its time, in the order of the
  times, at most once, not after it was removed; the worker does not oversleep;
  shutdown disposes of all events.
* SDK: a handle is used only while it is registered, a subsystem only while it
  is there; advertisements go on by themselves; UpnpFinish ends and leaves
  nothing, whatever stage of UpnpInit2 had failed.
* GENA device: a subscriber sees SEQ 0, 1, 2, ... and the events in order; one
  message is on its way at a time; the text of an event is freed exactly once
  and after its last use.
* GENA control point: the first event is not refused because it came early; a
  subscription is renewed as long as it lives and its timer event goes with it.
* SSDP: who is looked for is found, answers in time and is recognised; what was
  announced is taken back; a search ends.
* mini server: whatever fails at the start, no socket is left; stop ends.
* HTTP: how a message is cut makes no difference; both sides read what was
  written; a call ends.
* SOAP: an action is done at most once, and the caller learns what became of it.
* web server: a document is not freed while it is sent; the bytes are the ones
  the headers promise; the advertised URL is the one that is served.
* URI: dots, escapes and references as RFC 3986 has them.
* ixml: trees stay trees, every node is freed once, copies and printed
  documents are the same document.

## Modules

| module | what it is | used by |
|---|---|---|
| `ThreadPool` | the pool: 7 operations, the worker loop, condition variables | `MCThreadPool` |
| `ThreadPoolProofs` | types, counters, limits on threads, who is inside at the end; no lost wakeup; the order of jobs | |
| `TimerService` | what a timer promises: the abstract specification | `TimerThread` |
| `TimerThread` | the timer as the code implements it | `MCTimerThread` |
| `TimerThreadProofs` | the queue, the sleeper, the refinement of `TimerService`, the end of the timer | |
| `Sdk` | life of the SDK, handle table, advertisements, replies to searches, asynchronous calls | `MCSdk` |
| `SdkProofs` | the table, the advertisements, use only of what is there, nothing left | |
| `GenaDevice` | subscriptions and events of one service | `MCGenaDevice` |
| `GenaDeviceProofs` | reference counts, order of delivery | |
| `GenaCtrlpt` | subscriptions of a control point | `MCControl` |
| `Soap` | a call and the device that answers it | `MCControl` |
| `ControlProofs` | renewals not left behind and lost only where they are refused, the first event; an action at most once, what a call reports | |
| `Ssdp` | both sides of discovery and the datagrams between them | `MCServer` |
| `MiniServer` | the server thread and its sockets | `MCServer` |
| `SsdpProofs` | searches are answered, announcements taken back; no socket left open | |
| `HttpParser` | the parser as operators on a record | `HttpMessages` |
| `HttpMessages` | an HTTP exchange: client handle, server, two byte streams | `MCServer` |
| `Uri` | URI operators | `WebServer` |
| `WebServer` | requests, description document, virtual files | `MCWeb` |
| `WebServerProofs` | transfers in both directions, the description document | |
| `IxmlDom` | the heap of nodes and the DOM calls | `IxmlParser` |
| `IxmlParser` | parser, printer, and a client that uses them and the DOM | `MCIxml` |
| `IxmlProofs` | trees stay trees, each node is freed once | |

An operator that a comment calls a mutant is a plausible mistake in the
operator after it; `mutants` in `PROJECT.json` says which property notices.

`HttpParser` uses RECURSIVE operators, and it and `HttpMessages` are for TLC only; the
other modules are written so that they can be proved about.

### ThreadPool

`tp->mutex` protects all fields, so a step is one critical section: from the
moment a thread gets the mutex until it releases it or blocks. The variables
are the fields of `struct THREADPOOL`; `jobQ` holds the three queues. A worker
is `starting` (created, not yet counted), `top` (about to lock), `waiting` on
`tp->condition`, `signalled` or `timedout` (woken, not yet in possession of the
mutex), or `running` a job. A thread that blocks inside a call has a record
`call[t]`: the operation, where it is, and its local variables; `ssWaiters` is
the wait set of `start_and_shutdown`. `CreateWorker` is the heart: it waits
when another start is pending (`cwPending`) and for its own thread
(`cwStarted`), and each caller goes on differently. `fate`, `retId` and
`requestTime` are what the properties look at; `fate` and `retId` are not in
the code.

Jobs are numbered in the order of creation. `ThreadPoolGetAttr` has two steps,
because it tests `tp->shutdown` before it locks; the unlock it may skip is
`mutexLeaked`. `ThreadPoolGetStats` does the same and needs no action of its
own. The closed form of `BumpPriority` (a prefix of low moves behind med, then a
prefix of that to high) is compared with the loop of the code by `BumpIsLoop`,
a part of `QueuesFair`.

Left out: statistics, scheduling policies, stack sizes, the free list (an
allocation is a choice between success and failure). `BumpPriority` gives a node
back to the free list just before it appends one, so that its `ListAddTail` cannot
fail.

`MCThreadPool` has two scenes: in "calls" anything but `ThreadPoolSetAttr` is
called, with one priority; in "attrs" one client adds jobs and sets attributes
while time passes. A scene says who calls and whether the clock runs; what a call
or a worker does is the same in both.

### TimerThread and TimerService

`TimerThreadSchedule` is two steps: it computes the event time before it locks.
`TimerThreadWorker` keeps the mutex from one due event to the next (`locked`)
and gives it up only to wait; `deadline` is the end of the wait. The worker and
the thread in `TimerThreadShutdown` wait on the same condition variable
(`asleep`), which is why `Signal` may wake either. `TimerService` knows no
queue and no thread: events are accepted, fired in the order of their times,
cancelled, or dropped when the timer closes. The refinement maps `eventTime` to
`due`, `fate` to `status`, and `open` to "shutdown has not begun" (the worker
clears the flag `shutdown` on its way out, so the flag alone will not do).

### Sdk

The threads of the application, the one that calls UpnpInit2 and UpnpFinish, those
of the send pool (`Workers`) and those of the receive pool (`Receivers`), which
handle searches. A step is a critical section of `GlobalHndRWLock`;
two things take long with the lock held and have variables: a registration
downloads the description with the write lock (`writer`), `AdvertiseAndReply`
sends with the read lock (`reading`) and reports no failure to send. `up` is the
set of subsystems that are initialised; whoever uses one that is not there, or the
record of a handle that was freed, enters it in `misuse`. Each stage of UpnpInit2
may fail (`InitFaults`), and UpnpInit2 then calls UpnpFinish, except that a failure
to make the thread pools clears `UpnpSdkInit` first. The application keeps to the
documentation: no call before UpnpInit2 has returned or after UpnpFinish was
called, and no two threads that unregister one handle.

An advertisement is on the timer (`timers`), then a job of the send pool (`adJobs`),
then a call of a worker, which puts the next one on the timer. The timer may have no
memory for it (fault `schedule`) and the pool may refuse it (`full`); `failed`
records both, since nobody is told and the advertisements stop. A receiver that
handles a search looks for one device after the other and puts the reply of each
on the timer (`replies`), from where it goes to the send pool (`replyJobs`).
UpnpFinish shuts the timer down before the receive pool: a receiver may come to it
after that ("late reply" in `misuse`). `MCSdk` has the application's calls in one
scene and searches in another.

### GenaDevice

One service of one device. All is under `HandleLock`, so a step is a critical
section; `genaNotifyThread` has two, with the sending between them. New
subscriptions go to the front of the list and are numbered, so the list is a
set. A `notify_thread_struct` is the pair of its subscription and its event;
`pool` and `sending` are the structs in `gSendThreadPool` and on the wire, and
`outgoing` is the queue of `ThreadPoolJob`s of a subscription, whose head is
the copy of the job in the pool. Every lookup that meets an expired
subscription removes it (`Stale`, `Unlink`), as `GetSubscriptionSID` and
`GetNextSubscription` do. `Faults` names what may fail: the pool refuses a job,
the copy of a subscription, the allocation of a struct or a job, the answer to
a renewal. A behaviour has none or all of them (`faults`, chosen in `Init`), so
that one run checks what holds without failures (exact reference counts, queues
that empty) and what holds with them; behaviours with faults make fewer events
(`MaxFaultyEvents`) and keep one limit (`LimitsNow`).

Left out: texts, callback URLs, several services (they share nothing but the
lock), the failure of a list-node allocation after the pool took the job, and
the allocations before the lock.

### GenaCtrlpt

A call is a sequence of critical sections of the handle lock with the exchange
with the device between them; `SubscribeLock` is held over the exchange of
`genaSubscribe`. A subscription is a number for both of its SIDs. The first
event of a subscription (SEQ 0) walks over the registered control points as
`gena_process_notification_event` does, waits for `SubscribeLock` when it finds
nothing, and looks again. Timer events are numbered as the timer does; one that
is due becomes a job of the send pool, then a renewal. `Shortages` says what may be
refused: the timer has no memory for an event, after which the subscription is
removed or deleted, or the pool does not take the job of a due renewal, which is
then lost without a word (`dropped`). When it is genaSubscribe whose event is
refused, the subscription is deleted though it is in the list (`dangling`): the next
walk over the list reads freed memory, and the model takes no further step.
`TimersOwned` and `KeepsRenewing` look at registered control points; two renewals
of one subscription at a time are recorded in `overlapped`.

### Soap

`cp[i]` is the control point's side of call i, `dev[i]` the thread of the device
that handles its request. XML is abstracted to the names the code compares, a
service type to the part before its last colon and the part after it. A device has
an address family; `flags` are the families whose registration flag is set, which is
tested before a path is looked up, and `lost` those that lost a device, whose other
devices are then out of reach. The connection may be lost before or after the device
got the request; the device does not notice. `performed` is what the application was
asked to do. `Proper`, in `CallRight`, leaves out calls with a header
(`UpnpSendActionEx`): the library's own device refuses them, see below.

### Ssdp

Datagrams stay in `sent`, so they arrive late, several times or never. A type
is a name made of parts, with a version, so that one name may begin with
another; the comparisons of the code, which look at a prefix and at the last
digit, are modelled as they are (`SameName`, `TypeReply`, `Matches`). A search
request of the same or of another host is answered device by device
(`AskNext`), with the time reduced as the code does (`Fudged`), among the devices
of the family it came in for and while the registration flag of that family is set
(`NextDevices`). Unregistering has two steps with the lock released between them:
the byebyes (`Shutdown`), then the handle and the flag (`FreeHandle`). An
advertisement or a reply that goes out between them stays known (`raced`). The
timer may refuse the event of a search or a reply, or lose it because the pool does
not take the job (`SearchExpiryLost`, `ReplyLost`); the searches it happened to
are `untimed`.

### MiniServer

`StartMiniServer` makes one socket after the other (`start`), with the retries
of `do_bind` over `taken` ports whose numbers wrap; what it leaves to the job
is `open`. `RunMiniServer` and `handle_request` are jobs. The 500 seconds
`StartMiniServer` waits may be over before the job ran (fault `slow`), which
`gaveUp` records. An answer is sent with a blocking `send` in a loop without a
timeout (sock.c:237-265): `blocked` are the connections whose peer reads nothing.

### HttpParser and HttpMessages

A text is a sequence of characters of which a word has one or two, since all
that matters is where it may be cut. The matchers return OK, NO_MATCH, FAILURE
or INCOMPLETE as in the code, and the parser tries again from the last place
it was sure of. `HttpMessages` puts a client handle (open, write, end, get,
read) and `http_RecvMessage` at the two ends of two streams, of which each read
takes any number of characters. `contentLength` of a new handle is not
initialised in the code: `Leftover` says what the memory may hold.

### WebServer and Uri

A worker handles one request from its parts to the last byte in buffers of
`BufSize`; `docs` counts the references to each description document. Setting
an alias is two steps (the old one is released, then the new one takes its
place), files change between a `stat` and a read, a connection breaks.
The check that there is an alias is made without the lock and asserted later;
when it no longer holds, or a document is used or released that was freed, the
behaviour ends (`crashed`). A device that has installed an alias (`installed`) is
unregistered, and the web server is destroyed, at any time, also while requests are
handled. `web_server_set_alias(NULL)` drops the reference of `gAliasDoc` but empties
it only when that freed the document; otherwise `gAliasDoc` is `stale`, and the next
call drops the reference again, which is then one of a request's (`overdrawn`).
`Uri` is the functions of uri.c over lexemes. `probe` in `MCWeb` is a text to which
they are applied: all small paths, escapes and references.

Not asked for in `Requests`: ranges of the description document and requests
with a TE header, which the code gets wrong (below); bases with a fragment or
without a path are left out. `web_server_destroy` also destroys `gWebMutex` and
`gDocumentRootDir` under the requests that still run; in the model a reference is
still counted correctly after that, and the root directory is a flag that each
request reads once.

### IxmlDom and IxmlParser

`heap` maps each allocated node to its pointers, and `held` is what the client has
to free. `lost` is what nobody can free any more: a text after the root element,
which the tree refuses and the error handler forgets. These and, during a parse, the
document under construction are the `Holders`. The calls change the pointers as the
code does, in its order. The parser works on lexemes and has one step per turn of
`Parser_parseDocument`. After a parse the client makes `MaxCalls` calls, then prints
a document and parses what was printed. `Careful` says that the client follows the
rules in the comment at its declaration; what happens otherwise is below.

## Runs

Nine runs pass; `gd_stall`, `web_dots` and `ssdp_versions` show a disagreement
each. State counts are of distinct states.

| run | module | checks | instance |
|---|---|---|---|
| `tp_calls` | MCThreadPool | `TypeOK` `CountersAgree` `NoLostWakeup` `PoolConsistent` `MinThreadsKept` `QueuesFair` | 2 clients, 3 worker slots with `maxThreads` 2, 3 jobs, all faults; or 1 client that sets attributes, 2 priorities, 3 instants; 1,159,417 states |
| `tp_ends` | MCThreadPool | `CallsReturn` `AcceptedJobLeaves` `SurplusThreadsLeave` | 2 clients, 2 workers, 3 jobs of which 1 persistent; or 1 client that sets attributes; 60,154 states |
| `tt_calls` | MCTimerThread | `TimerSound` `NeverOversleeps` `QueueInOrder` `IsTimerService` `Progress` | 2 clients, 3 events, 4 seconds, all faults; 166,024 states |
| `gd_events` | MCGenaDevice | `CountsExact` `DeliveryRight` `EventsLeave` | 2 subscriptions, 3 events, none or all faults; 147,154 states |
| `sdk_life` | MCSdk | `TableRight` `NoUseAfterShutdown` `KeepsAdvertising` `NothingLeft` `Progress` | 2 application threads, 1 send and 1 receive thread, 2 handles, 2 registrations, and one advertisement and one asynchronous call, or one search; 29,848 states |
| `cp_calls` | MCControl | `RenewalsRight` `FirstEventKept` `AtMostOnce` `CallRight` | 1 control point with 2 threads, 1 subscription, 3 timer events; or 2 SOAP calls to 2 devices; 3,112,386 states |
| `net_stack` | MCServer | `NoSocketLeft` `PiecesAgree` `ExchangeRight` `RepliesRight` `ByebyeCoversAlive` `ServerEnds` `CallEnds` `SearchEnds` | 3 interfaces, ports 2 to 4, 1 connection; or 4 requests and 6 answers in all pieces; or 3 root devices of 2 families, 5 targets, 1 search, 1 foreign request; 192,333 states |
| `xml_docs` | MCIxml | `TreeSound` `CopiesFaithful` `ReadsRight` | 19 documents and 10 texts that are none, 2 DOM calls; 125,869 states |
| `web_requests` | MCWeb | `TransfersRight` `DocServed` `TextsRight` | 2 workers, 17 pairs of requests, 2 registrations, 1 change of a file; all texts of up to 6 lexemes; 2,498,098 states |
| `gd_stall` | MCGenaDevice | `HeadInPool`: violated | the pool may refuse a job |
| `web_dots` | MCWeb | `PastRootRefused`: violated | as `web_requests`, with a request for a path past the root |
| `ssdp_versions` | MCServer | `LowerVersionAnswered`: violated | as `net_stack`, with a device of version 10 |

Four modules have a variable that says what a behaviour is about (`scene`, in
MCControl `talk`). In MCServer and MCControl it chooses between components that
share no state, and the others stay as they began. In MCThreadPool and MCSdk it
says who calls; what a call does is the same in each scene. Several properties are
conjunctions of named parts
(`PoolConsistent == PlacedOnce /\ ThreadCap /\ QuietWhenDestroyed`); the parts
have comments of their own.

The bounds and why they suffice:

* Two threads in the pool and two clients give every pair of calls in every order,
  including a call that runs while another waits in `CreateWorker`; the third
  job makes a queue of length two behind a running job, and `maxJobsTotal` is
  2, so that the pool is also full. In `tp_calls`
  there is a third worker slot, which must stay unused: without it no mistake in
  the code could exceed `maxThreads`. The proofs cover any number of each.
* `MaxTime` is large enough for a job to pass `starvationTime` (1) and
  `maxIdleTime` (2), and for an event to be scheduled before and after another
  that is still in the future. The attributes are lowered to one thread and raised
  to two that must stay (`Shrink`), with no other client, as the proofs of
  `PoolConsistent` and `MinThreadsKept` ask for.
* `MaxPersistent` bounds persistent jobs: with two at once
  `ThreadPoolAddPersistent` may overwrite the slot or hang (below), so the
  passing runs have one.
* `KeyMax` stands for `INT_MAX`; with 1 the key wraps within three events.
  `EQMaxLen` is 1, so the third event meets a full queue. `MaxSids` 2 lets one
  subscription be in flight while the other is refused, renewed or expired; a
  granted time of 0 seconds and an infinite one are asked for.
* In `sdk_life` two registrations of two families or of a device and a control
  point, with a thread each, meet one another and UpnpFinish at every point; a
  third handle would only repeat the walk over the table. One search with one
  receiver meets both registrations. `DevicesPerFamily` is 1
  because the flags are wrong with two (below), and `MaxInits` is 1: what a second
  life of the SDK finds is what `NothingLeft` says of the first, and the theorems
  hold for any number.
* One subscription with three timer events is enough for an automatic and a
  manual renewal, an unsubscription and an unregistration to overlap. The
  first SOAP call tries everything and the second is a plain one that runs
  beside it.
* Of the root devices of `net_stack` two are of one family, so that unregistering
  one clears the flag of the other, and one is of another family. The names of
  their types begin with one another, the versions are 1 and 2 (10 in
  `ssdp_versions`), and one embedded device lacks a UDN.
* `TakenSets` has no free port, one taken, and all taken; `MaxPort` 4 lets the
  number wrap. An exchange has messages with a length, chunks, an end by
  closing, none, a folded header and a header twice.
* `MaxNodes` 16 has room for the largest document, its two changes and the
  document that is parsed from its print.
* Clocks stop at `MaxTime`, and calls stop when their number is used up:
  that is why deadlock is not checked.

Symmetry over workers is used in `tp_calls`, which checks invariants only.

### Fairness

* Thread pool (`FairSpec`): a thread that can get the mutex eventually does,
  a worker that was created starts, short jobs return, and all jobs return once
  shutdown has begun (the header says that shutdown "may block indefinitely if
  jobs do not exit"). No client has to call, no clock has to tick. `TimeoutSpec`
  adds that `ithread_cond_timedwait` returns when its time is up; `MCFairSpec` does so
  in the scene "attrs" only, where surplus workers have to leave.
* `PromptCallers` (in `tp_ends`): a thread woken inside a call
  gets the mutex before another worker's idle wait (15 s by default) ends.
  Without it a worker may start, find nothing, time out and die before its
  creator runs, again and again, which no scheduler does.
* Timer: time passes, waits end at their deadline, the worker and the shutting
  down thread get the mutex. Nobody has to call.
* GENA device: the threads of the pool take their jobs and sending ends, since
  `genaNotify` connects and reads with timeouts.
* Sdk: threads run; downloads, sending and the calls of jobs end, as they have
  timeouts, and some thread of the pool comes to each asynchronous call. Strong
  fairness for what waits for the lock: it is a read-write lock that others take
  and release again and again.
* Ssdp: the timer hands over the end of a search that is due, to the pool or to
  nobody, and the pool runs what it took; nothing is asked of the network.
* MiniServer: every thread runs, and of the datagrams `StopMiniServer` sends to
  its own host until the server has ended, one arrives. Strong fairness for the
  steps of a request: one whose peer reads again and again gets its answer. Nobody
  makes a peer read, and no clock frees the worker from one that does not.
* HttpMessages: a `select` with a timeout ends; nothing is asked of the peer.

## Disagreements between code, comments and documentation

`gd_stall`, `web_dots` and `ssdp_versions` are kept as runs, with the quotations under
`findings`. TLC finds the following ones when the named property is checked with the
constants given; the definitions are in the modules (`H!` and `S!` are HttpMessages
and Soap, as `MCServer` and `MCControl` instantiate them).

* `NoJobForgotten` (`tp_calls.cfg` with `MaxPersistent = 2`): "Job will be run
  as soon as possible. Call will block until job is scheduled." (ThreadPool.h:285).
  A second `ThreadPoolAddPersistent` overwrites the slot (ThreadPool.c:810); the
  first job is neither run nor freed, and its caller returns success.
* `ShutdownReturns` (`tp_ends.cfg` with `JobOps = {"getAttr"}`):
  `ThreadPoolGetAttr` and `GetStats` test `tp->shutdown` without the mutex and
  again before they unlock (ThreadPool.c:939-944): a shutdown in between leaves
  the mutex locked, though every job exits (ThreadPool.h:358-359).
* `AddPersistentReturns` (`tp_ends.cfg` with `MaxPersistent = 3`): "if there is
  more than one worker thread available then schedule job, otherwise fail"
  (ThreadPool.c:798-799). With all threads persistent
  `totalThreads - persistentThreads - 1` is -1, not 0, and the call waits for ever.
* `ReturnedIdNamesJob` (`tp_calls.cfg`): `ThreadPoolAdd` gives the job the id
  `lastJobId` of before `AddWorker`, and returns the one of after it.
* `NoJobLeftBehind` (`tp_calls.cfg`): a job that a job adds while the pool shuts
  down is neither run nor freed.
* `CleanupOnlyIfShort` (`Spec` of ThreadPool, two clients that call
  `ThreadPoolSetAttr`): "clean up if the min threads could not be created"
  (ThreadPool.c:984) also happens when others created them meanwhile, because the
  loop counts from a stale number.
* `StarvingJobsBumped` (`tp_calls.cfg`): low priority jobs are compared with
  `maxIdleTime`, not with `starvationTime` as ThreadPool.h:159 says.
* `NoEventLeftBehind` (`tt_calls.cfg` with `LateCalls = TRUE`): "Delete nodes in
  Q. Call registered free function on argument." (TimerThread.c:371), but an
  event scheduled while shutdown waits is neither run nor freed.
* `AcceptedIsActive` (`gd_events.cfg`): "Now accepts an empty state list"
  (upnpapi.c:2749), but such a subscription is never activated
  (gena_device.c:678).
* `FlagsMatchTable` (`sdk_life.cfg` with `DevicesPerFamily = 2`): unregistering
  one of two devices of a family clears the family's flag (upnpapi.c:1520-1529),
  after which the other is found neither by searches (4154-4158) nor by SOAP
  requests (4192-4196); upnpapi.h:169-172 promises all entries of the family.
* `SilentAfterUnregister` (`cp_calls.cfg`): upnp.h:1003-1004 says that no
  callbacks follow UpnpUnRegisterClient; the callback is copied under the lock
  and called after it (gena_ctrlpt.c:130-133, 883-892).
* `NoLockCycle` (`cp_calls.cfg`): `genaSubscribe` with a bad handle waits for
  `SubscribeLock` with the read lock held (gena_ctrlpt.c:587), while a thread
  with `SubscribeLock` waits for the write lock (595, 849): both wait for ever.
* `NoResultAfterTimeout` (`net_stack.cfg`): Callback.h says of
  UPNP_DISCOVERY_SEARCH_TIMEOUT that no more callbacks follow for the search;
  results that are already in the pool do.
* `StartReturns` (`net_stack.cfg` with `StartPort = 4`, `TakenSets = {{3}}`): ports
  are tried until one is free, but from the last one the number wraps and the
  loop never ends (miniserver.c:868-890, 962-976; comment at 855-858).
* `H!RequestRead` (`net_stack.cfg` with `Asks <- MCChunkedAsks`,
  `Leftover = {TRUE, FALSE}`): `contentLength` of a handle is compared before
  anyone has set it (httpreadwrite.c:1278-1283, 1373, 1417), so that a request
  that should be chunked (upnp.h:2371-2372) is chunked or not by chance.
* `S!ErrorDescribed` (`cp_calls.cfg`): upnp.h says that the description of a
  positive error code is in RespNode; it is not filled for a fault
  (soap_ctrlpt.c:455-458).
* `RemovedFirst` (`xml_docs.cfg` with `Careful = FALSE`): ixml.h:426-427 says that
  a node that is already in the tree is removed first; `ixmlNode_appendChild` and
  `ixmlNode_insertBefore` do not (node.c:562, 668).

Found while modelling, by reading; the models have the behaviour, or leave the
input out as said above:

* upnpapi.c: `UpnpSdkInit` is set (552) before anything is initialised, and
  failures of the first stages make UpnpFinish shut down what was never made; a
  failure of the thread pools leaks locks and pools; asynchronous calls return
  success though the pool refused the job (2248, 2447, 2584, 3068, 3197, 3269);
  `UpnpSetContentLength` unlocks what it has not locked when the SDK is not
  initialised (4589-4611); an advertisement that finds no memory for the event of the
  next one (2005, 2019) or that the pool refuses when it is due
  (TimerThread.c:110-122) is the last one, and nobody is told; a device is
  registered and its document downloaded with the write lock held; between the
  byebyes of a device (1492-1500) and the freeing of its handle (1502) the lock is
  released, so that an advertisement or a reply may follow the byebye.
* TimerThread.c: an event that is due when the pool refuses the job is freed
  without a word (110-122): a search then never ends, a subscription is not renewed.
* gena_ctrlpt.c: a subscription that is linked between the two halves of
  UpnpUnRegisterClient is an orphan (595-640); a failure of
  `ScheduleGenaAutoRenew` deletes a subscription that is in the list (645-646), and
  the next walk over the list reads freed memory;
  a lease shorter than `AUTO_RENEW_TIME` gives a negative delay (199);
  overlapping renewals leave the first one's timer event behind (683-695, 737).
* SSDP: types match by prefix (ssdp_server.c:333, 480); a search the timer refused
  never ends (ssdp_ctrlpt.c:670-672); the time of a search is reduced once per
  device; a receiver schedules a reply (ssdp_device.c:187) while UpnpFinish has
  shut down the timer (upnpapi.c:716) and not yet the receive pool (728): the timer
  it locks was destroyed, and the argument of the reply is leaked. `sdk_life` records
  that it happens; what a destroyed mutex does is not modelled.
* miniserver.c: `do_reinit` forgets the port reached (949-953), and when it fails
  (970 ignores that) `do_bind` tries every port from 0 on without a socket, for
  ever; when the 500 s are over the sockets of the queued job are closed
  (1272-1285); StopMiniServer without a socket leaves the server running
  (1312-1321); a connection is leaked when `sock_init_with_ip` fails (412-415).
* sock.c: a peer that accepts an answer and does not read it holds the worker in
  `send` (237-265), and with it the shutdown of the pool in UpnpFinish.
* HTTP: the rest of a timeout may become negative, which means no limit
  (sock.c:276); `http_OpenHttpGetEx` leaks the socket when the response is bad
  (2233-2247); a refused connection may count as connected (116-154);
  `http_SendMessage` returns 0 after a short write (713-716); "GET /x " cut before
  its line end is NO_MATCH (httpparser.c:1252, 1298).
* webserver.c: a range of the description document sends all of it (1736-1744);
  a TE header promises chunks that are not sent (569, 602-609); a virtual read
  that fails becomes a huge size (578-590); virtual directories are added with a
  slash and removed without (upnpapi.c:4342, 4412); the list has no lock.
  Whether there is an alias is tested without the lock (1238) and asserted later
  (392). When a request still has the document, `web_server_set_alias` drops its
  reference (433-436) and leaves it in `gAliasDoc`: the document is
  freed when that request ends, one that comes later takes what was freed, and the
  next call drops the reference again. A request
  for another path, HEAD and POST grab the document and do not release it
  (1238-1241, 1760). `web_server_destroy` destroys `gWebMutex` while workers still use it
  (upnpapi.c:721, 723), and they read `gDocumentRootDir` without it.
* uri.c: uri.h:311 says that ".." is not implemented; it is resolved. Ports wrap at
  65536 (406).
* ixml: `setAttributeNode` that replaces one of several attributes loses the rest
  (element.c:245-258); cloning and printing drop the siblings of a text node
  (node.c:1018-1026, ixml.c:104-112); `isAncestor` looks at following siblings;
  `ixmlNodeList` of a leaf has length 1; the parser accepts some ill-formed texts
  (`<a </a>`, a document without root, undeclared prefixes), refuses empty
  comments, and gets redeclared prefixes wrong (1703-1714, 1751-1761, 2404-2418);
  a text refused at the top level is leaked (2584-2598).
* SOAP: the device refuses a call with a header, because the first child of the
  envelope is not its body (soap_device.c:680-687); a foreign fault without a
  numeric code is success (soap_ctrlpt.c:454, 642-643); an empty value is
  UPNP_E_BAD_RESPONSE (430-431).
* gena_device.c: "The list size can never go over
  MAX_SUBSCRIPTION_QUEUED_EVENTS" (764): it goes one over, since it is pruned
  before the append and the test is `>`.

## Proofs

A theorem holds for every value of the constants that satisfies the named
assumptions of its module (`PoolConstants`, `TimerConstants`, `SdkConstants`,
`InitFaultsAssumption`, `GenaConstants`, ...): any finite sets of threads, any
attributes, any faults, any bounds. They say no more than what a thread is not,
which sets are finite and which numbers are natural; `SsdpConstants` also says
that a handle is that of a device or of a control point and not both, and
`ControlConstants` that no service has the type that stands for "query of a
variable" or for "none" in a request. Where a theorem has a
hypothesis, the code needs it: what happens without it is said here. Each
inductive invariant was first checked by TLC with the constants of the run, or
larger ones. In each module the proof that the invariant is kept has a lemma per
action.

### ThreadPoolProofs

* `TypeCorrect` and `CountersCorrect`. `TypeOK` says that the counters are natural
  numbers, so it is not inductive by itself: that `busyThreads - 1` is not
  negative needs `CountersAgree`, which in turn needs that a worker has a job
  only at `top` or `running` and that the jobs the pool holds were created and
  are in the place of their kind (`JobsKnown`), and that a thread waiting in a
  call has the record of that call (`CallsTyped`). The inductive invariant `IInv`
  is the conjunction; the lemmas about cardinality say how the set of workers in
  some state changes when one worker moves.
* `PoolStaysConsistent` (`PoolConsistent`: a job has one place; never more threads
  than `maxThreads`; a destroyed pool is empty of callers and workers). That a job
  has one place is shown for each change of the queues; for `BumpPriority` by
  following positions, since what leaves one queue goes behind the next. The rest is
  about calls in progress. `Kind` classifies every step of `Next` by what it does to
  the call records and the counters (a call that goes on, a shutdown, a worker, or
  nothing of this), `EveryStep` proves the classification, and each invariant is
  then kept kind by kind. `CallsOrdered` is the strengthening: a worker in a call
  runs a job, a client in `ThreadPoolInit` or `ThreadPoolSetAttr` is alone, someone
  waits for a start that is pending (`StartAwaited`), and once `shutdown` is set a
  thread waits for the workers (`DrainAwaited`); `CapKept` says that the attributes
  in force allow no more threads than the first ones. Hypotheses: `AttrsWithinCap`,
  since `ThreadPoolSetAttr` may raise `maxThreads` and `ThreadCap` is about the
  value `ThreadPoolInit` was given; and `SoleSetter`, a client calls
  `ThreadPoolSetAttr` only where it is the only client, because a call that fails
  shuts the pool down under whoever else is inside it.
* `MinThreadsStay` (`MinThreadsKept`). While there are fewer than `minThreads`
  threads somebody is in `ThreadPoolInit` or `ThreadPoolSetAttr` and its loop
  counter has not passed the number of threads (`Accurate`): the counter is
  stale, others may have started threads meanwhile, but never too high, since
  a surplus worker only leaves while `minThreads` remain. Hypothesis
  `MinBelowMax`: no attributes have `minThreads` above `maxThreads`. With them
  workers above `maxThreads` leave though fewer than `minThreads` are left.
* `WakeupsNotLost` (`NoLostWakeup`). The number of jobs waiting is compared with
  the workers that are awake and the calls of `ThreadPoolAdd` that have yet to
  signal. A worker that falls asleep does so with empty queues; a worker that
  takes a job removes one from both sides; a signal moves a worker from asleep
  to awake when a call leaves.
* `QueuesStayFair` (`QueuesFair`). The three queues are read as one line: the
  job at turn `g` (`At`) is taken before the one at turn `g + 1`. `Fair` is the
  invariant: jobs of one priority are in line by age (`InTurn`), and a worker's job
  is older than those of its priority in line (`Younger`). For bumped jobs this is
  not inductive by itself: a new job goes to the end of its own queue, and that
  is the end of the line for its priority only if no job of that priority is
  behind it. So `Raised` adds that a job is never in a queue below its priority.
  Every change of the queues is a map between the turns before and after
  (`Follows`): `BumpPriority` keeps the whole line and only moves the borders of the
  queues (`BumpKeepsTurns`), a removal drops one turn (`Dropped`), and both keep
  `Fair` for that reason alone. Only a new job needs its age.
  That `BumpPriority` is its loop (`BumpIsLoop`) is seen on the same line: a turn
  moves one border over one job (`TurnMoves`), and there is only one place where
  both borders can come to rest (`Borders`, `BordersUnique`). The loop is a recursive
  function; that it is defined, and what it keeps, is shown by taking the least
  turn at which it would not (`LoopRunExists`, `LoopInvariant`).

### TimerThreadProofs

`QueueStaysInOrder`, `WorkerNeverOversleeps`, `ImplementsTimerService` and
`TimerStaysSound`. The invariant `IInv` adds who can be asleep (`Sleepers`) and
that ids not yet handed out are in no queue (`IdsFresh`). Each action of the
code maps to one action of `TimerService` or to a stutter; insertion into the
queue and deletion are described by index maps. That the thread in
`TimerThreadShutdown` is the last one inside when it destroys the condition
variable on which it and the worker both slept needs `OneCloser` (it is the only
one of its kind and the only client asleep). The refinement and the last theorem
need `~LateCalls`: after shutdown has begun nobody schedules (`Orderly`), without
which they fail (`NoEventLeftBehind` above).

### SdkProofs

`IInv` says who holds the lock and what for (`LocksHeld`), that a handle in the
hands of a register or unregister call stays what it is (`HandlesHeld`), how the
flags follow the table (`Flags`), what is left at each stage of UpnpInit2 and
UpnpFinish (`Stages`, `UpAtMost`), whom each Param belongs to (`Requests`), and
that no more advertisements repeat than were asked for (`AdsCounted`).

* `TableKept`, `FinishLeavesNothing` and `AdvertisingKept` have the hypothesis
  `DevicesPerFamily <= 1`: there is one registration flag per address family, and
  with two devices of a family the flags are wrong (`FlagsMatchTable` above).
* `AdvertisingKept` counts chains: each advertisement that repeats is on the timer, in
  the pool or with a worker, and the step that takes it from one puts it in the next.
  It says so until the timer has had no memory for one or the pool has refused one.
* `NothingUsedAfterShutdown` needs moreover that the log, the mutexes and the timer
  could be made (`CleanFaults`): after a failure of an earlier stage UpnpFinish
  shuts down what was never made. The network and the pools may fail. The invariant
  follows how far UpnpInit2 and UpnpFinish are: nobody searches where there is no mini
  server (`Deaf`), and what a failure to make the pools leaves is `LeftOver`. The
  exception "late reply" is the one step of a receiver for which the timer may be gone.

### GenaDeviceProofs

`CountsAreExact` and `DeliveredInOrder`, without hypotheses. A reference count is
compared with the set of subscriptions that have a struct for the event in their
queue, the pool or on the wire (`RefsRight`); one lemma per place says how that
set changes. A copied job and the head of its queue are the same struct
(`JobsRight`), from which it follows that a subscriber has one NOTIFY on its way.
`SentRight` ties `ToSendEventKey` to the number of messages sent, where the key
wraps from `KeyMax` to 1 (`KeyStep`), and says that what is queued is newer than
what was sent, though the queue is pruned in the middle.

### ControlProofs

About `GenaCtrlpt`, for any number of control points and threads, without hypotheses.

* `RenewalsStayRight` (`RenewalsRight`). A step does one of a few things to
  subscriptions and timer events: it moves a subscription or its event along
  (`Moves`), hands an event over (`Due`), drops one that no longer matters
  (`Moot`), or does nothing of this (`NotifyRest`); `StepMoves` proves that every
  step is of one kind. What makes the property inductive is whom a step can
  disturb: a subscription is known to one handle only and a timer event to one
  subscription only, wherever they are known: in a list, in the call record of a
  thread, on the timer or in the pool (`KnownOnce`, kept because numbers that were
  not given out are known to nobody). `Alone` is the rest, kept kind by kind: a
  subscription about to be put into a list is known to that call only, one in a
  list has its renewal on the timer, in the pool or in a thread (`Keeps`), what is
  on the timer is what the subscription remembers, and while it is renewed nothing of
  it is on the timer. Excepted are overlapping renewals and renewals the pool refused,
  as in the property; the invariant shows that an event is left behind or lost in no
  other way. A renewal answered with "infinite" changes the lease just before its last
  section: `Hopes` are the calls of which one may still expect a renewal or the end of
  the subscription, and `LeaseKnown` ties the lease to what a new subscription was
  granted.
* `FirstEventStaysKept` (`FirstEventKept`). The event looks at one handle after the
  other with the lock released between them. `FirstInv` says that an event nobody
  has accepted so far is only past handles that do not have the subscription and
  will not get it (`Gone`). It gets past a handle only in its second look, for
  which it has `SubscribeLock`, as a thread has over its exchange with the device
  and until the subscription is in the list (`LockKept`): so no such thread is
  left. The same is then true of a subscription whose event was refused.

About `Soap`: `Effect(i)` says what a step may do to call i, its request and what the
application did for it, and that the other calls stay; `EveryStep` proves that
each step is an `Effect` of one call or concerns none. The calls are then
looked at one at a time.

* `ActionsAtMostOnce` (`AtMostOnce`), without hypotheses. `OnceInv` says where the
  request is on its way to the application and back. It is repeated as M-POST only
  after a 405, and that answer comes from a server in front of the device: the
  application has not been asked.
* `CallsReportWhatWasDone` (`CallRight`). `RightInv` says what the request carries
  at each place and what the response may be, given what the application was
  asked and said. `AllThere`: the devices of a family are registered and its flag is
  set until one of them is unregistered; after that a proper call to another one may
  be refused, and the property says that this is the only reason. Hypothesis
  `OneServicePerPath`, no control or event URL belongs to two
  services: `GetDeviceHandleInfoForPath` takes the first device that has the
  path, so that with a shared URL a proper call for the other one is refused.

### SsdpProofs

About `Ssdp`, without hypotheses:

* `SearchesAreAnswered` (`RepliesRight`). Who is looked for is found: the walk over the
  handles leaves out no device that was registered when the request came, unless one
  of its family was unregistered and the family's flag cleared (`NobodyMissed`; the
  history variable `due` has the devices still to come). A device that is found makes
  for every target it offers a reply that the comparisons of the searching side
  accept (`OfferAnswered`), though both look at prefixes and at one digit of the
  version. This is why versions of 10 and more are no offers: with them it is false, as
  `ssdp_versions` shows. A request is answered device by
  device, so the invariant collects the replies of those done. `FudgedShorter`:
  with each device the time for a reply gets shorter, down to a second.
* `ByebyesCoverAlives` (`ByebyeCoversAlive`). What was announced, by advertisements and
  by replies, is what the description has at most (`AdvertInv`), and `Described` is what
  the shutdown takes back, whatever copies of the messages were sent. Excepted is
  what goes out between the byebye and the freeing of the handle (`raced`).

About `MiniServer`, from its assumption on interfaces and ports only:

* `SocketsClosed` (`NoSocketLeft`). `SocketInv` says what is open at each point of
  StartMiniServer (`OpenAt`) and which state the job has then (`ServerAt`). The
  lemma about `SsdpMade` is the long chain of closes in `get_ssdp_sockets`: when
  the n-th socket fails, the n - 1 before it are closed.
  It holds for any interfaces, ports, connections and faults.

### WebServerProofs

Any number of workers, requests, files, descriptions and registrations, and any
size of the buffer.

* `TransfersAreRight` (`TransfersRight`). `SendInv` follows one request. What it says of
  the headers (`Headed`) comes from `RangeRight`: for every range and every length
  the result is either an error or a slice within the file. `Copying` is the
  loop of `http_SendMessage`: what was written is the slice from the offset to
  `pos`, and `left` is the rest of it; `Written` is the same for a posted body. All
  of this is about the file as it was when its length was read (`same`), since
  it may change between any two reads. `ExtensionFound` is the binary search of the
  media types. Hypothesis `PlainRequests`: no request has a TE header or asks for
  a range of the description, which the code gets wrong (above).
* `DocIsServed` (`DocServed`). `DocInv` compares the count of each document with
  the set of requests that hold it (`Holders`), plus one while `gAliasDoc` does
  (`AliasHolds`: not between the two halves of `web_server_set_alias`, although it
  still names the document). The count may be larger, since references are
  leaked, so this is an inequality. `Advertised` ties the URL to the alias; a
  request that asks for it while nothing changes goes the way that `Served`
  describes. A registration, the unregistration and `web_server_destroy` may come at
  any step of any request. The exception, in the property, is a document whose
  reference `gAliasDoc` dropped twice (`overdrawn`): the second one is that of a
  request. Hypothesis `AliasesPlain`, the path of each
  description's URL, without escapes and dots, is the name of its alias, which
  is not so when the name contains them.

### IxmlProofs

`TreesStaySound` (`TreeSound`), for any texts and any number of nodes and calls.
The property says that what hangs together is a tree and that each node is reached
from one holder; as it stands no call can be shown to keep it. The invariant
`ParserOk` sees the heap as a forest in which a node hangs at the one whose first
child, next sibling or first attribute it is (`Edge`):

* `Links`: lists are linked in both directions, are of one kind and one parent,
  and are reached from one node only;
* `Rooted`: the roots are the `Holders`, and every other node hangs somewhere;
* `Acyclic`: in every set of nodes one hangs at none of the others. In this form,
  without paths, a change of a few pointers is seen to keep it;
* `Opened`: while a text is parsed, the open elements are a path from the current
  node up to the document.

Each call is shown to make one or two of a few changes: a node is taken out of its
list (`Out`), a root is hung in after a node, as first child or as first attribute
(`After`, `AsFirst`, `AsAttr`), a part is copied (`Copied`), a root and
all below it is freed. Each change keeps the forest. What `ixmlNode_isAncestor`,
cloning and freeing visit is a closure, which the model computes with a recursive
function; that it is the least closed set (`ClosureIs`) is shown by taking the
least number of steps for which it would not be. `ParserOk` itself was not checked
by TLC, since `Acyclic` quantifies over all sets of nodes; `TreeSound` was, and
follows from it (`TreeShaped`).

Hypothesis `Careful`: the client follows the rules at the declaration in `IxmlDom`.
Otherwise the code does break trees: `ixmlNode_insertBefore` and
`ixmlNode_appendChild` unlink a node that is already in a tree only when it is a
child of the same parent, `setAttributeNode` loses the attributes next to the one it
replaces, and a copy of an attribute does not know its element.

### Only model-checked

* Liveness, which is out of reach of the prover: `CallsReturn`, `AcceptedJobLeaves`,
  `SurplusThreadsLeave`, `Progress` of the timer and of the SDK, `EventsLeave`,
  `SearchEnds`, `ServerEnds`, `CallEnds`.
* `TextsRight`, `CopiesFaithful` and `ReadsRight`: they say what a recursive function
  computes for every text or tree, which needs induction over data.
* `PiecesAgree` and `ExchangeRight`: the parser is a RECURSIVE operator.

## Plan

1. (done) Thread pool, timer, device side of eventing; first proofs.
2. (done) The life of the SDK, both sides of eventing, discovery and control,
   the mini server, HTTP, the web server, URIs and ixml.
3. (done) Proofs about the pool, the timer, the SDK, both sides of eventing,
   discovery, control, the mini server and the web server.
4. (done) The order in which jobs leave the queues of the pool, and its loop.
5. (done) The trees of ixml, under the DOM calls and the parser.

## Not modelled

Socket set-up and reading of datagrams, logging, error texts, the generated
accessor objects of `api/Upnp*.c`, lists and buffers as data structures, MD5 and
UUIDs, the namespace variants of the DOM calls, the scanning of characters into
lexemes, building the service table from the description, the sample programs,
build and test code. `PROJECT.json` has the reason for each component.
