-------------------------------- MODULE Soap --------------------------------
(***************************************************************************)
(* Control: a control point's calls (soap_ctrlpt.c, and the calls of       *)
(* upnpapi.c above it) and the device that answers them (soap_device.c).   *)
(*                                                                         *)
(* A call builds a request, waits for the response, sends the request once *)
(* more as M-POST when the device's server answers 405, and reads the      *)
(* outcome.  The device looks the service up under the handle lock, checks *)
(* the request, calls the application without the lock and sends what the  *)
(* application said.  A call may lose its connection or stop waiting at    *)
(* any time; the device goes on without it.  XML is abstracted to the      *)
(* names the code compares; a service type is the part before the last     *)
(* colon and the part after it.                                            *)
(***************************************************************************)
EXTENDS Integers, Sequences, FiniteSets

CONSTANTS Call,       \* calls, each in a thread of its own
          Asks,       \* call -> what it may ask for
          Strays,     \* call -> requests of other control points in its place
          Answers,    \* what the application may say
          Handle,     \* device handles, 1 .. n
          Devices,    \* handle -> the device registered under it: af, its
                      \* address family, and services
          Old,        \* whether a server in front of the device refuses POST
          Faults      \* {"mem"} when memory may run out

UPNP_E_SUCCESS        == 0
UPNP_E_INVALID_HANDLE == -100
UPNP_E_INVALID_PARAM  == -101
UPNP_E_OUTOF_MEMORY   == -104
UPNP_E_INVALID_URL    == -108
UPNP_E_BAD_RESPONSE   == -113
UPNP_E_INVALID_ACTION == -115
UPNP_E_BAD_HTTPMSG    == -119
UPNP_E_SOCKET_CONNECT == -204
UPNP_E_TIMEDOUT       == -207

SOAP_INVALID_VAR   == 404
SOAP_ACTION_FAILED == 501
SOAP_MEMORY_OUT    == 603

NoValue == "none"
NoType == [base |-> "none", last |-> "none"]
QUERY_STATE_VAR_URN == [base |-> "urn:schemas-upnp-org", last |-> "control-1-0"]
Query == "QueryStateVariable"

VARIABLES registered, \* handles of the devices that are registered
          flags,      \* address families whose flag says that a device is registered
          lost,       \* history: the families a device of which was ever unregistered
          old,        \* the server in front of the device refuses POST
          cp,         \* call -> what the control point knows of it
          dev,        \* call -> the device's thread that handles its request
          performed   \* what the application was asked to do, in order

handles == <<registered, flags, lost>>
vars == <<registered, flags, lost, old, cp, dev, performed>>

NoRequest == [method |-> "none"]
NoAsk == [kind |-> "none"]
NoneYet == [err |-> 0]
NoResponse == [status |-> 0]

\* The client's side of a call, and the device's.
IdleCp  == [pc |-> "idle", ask |-> NoAsk, req |-> NoRequest, code |-> 0, value |-> NoValue]
IdleDev == [pc |-> "none", type |-> NoType, name |-> NoValue, arg |-> NoValue,
            answer |-> NoneYet, resp |-> NoResponse, short |-> FALSE]

Init ==
    /\ registered = Handle
    /\ flags = {Devices[h].af : h \in Handle}
    /\ lost = {}
    /\ old \in Old
    /\ cp = [i \in Call |-> IdleCp]
    /\ dev = [i \in Call |-> IdleDev]
    /\ performed = <<>>

-----------------------------------------------------------------------------
(* The control point *)

\* A call is over with this code and value.
Returns(i, code, value) ==
    cp' = [cp EXCEPT ![i].pc = "done", ![i].code = code, ![i].value = value]

\* The request SoapSendAction sends: the header names the service type the
\* caller gave, the body the namespace of the caller's document.
ActionRequest(a) ==
    [method |-> "POST", path |-> a.path, af |-> a.af, xml |-> TRUE, man |-> FALSE, type |-> a.type,
     name |-> a.name, parts |-> <<"Body">>, ns |-> a.ns, element |-> a.name, arg |-> a.arg]

\* SoapSendActionEx puts the caller's header before the body.
ActionRequestEx(a) == [ActionRequest(a) EXCEPT !.parts = <<"Header", "Body">>]

VarRequest(a) ==
    [method |-> "POST", path |-> a.path, af |-> a.af, xml |-> TRUE, man |-> FALSE,
     type |-> QUERY_STATE_VAR_URN, name |-> Query, parts |-> <<"Body">>,
     ns |-> QUERY_STATE_VAR_URN, element |-> Query, arg |-> a.name]

\* The request goes out.
Send(i, a, req) ==
    /\ cp' = [cp EXCEPT ![i].pc = "sent", ![i].ask = a, ![i].req = req]
    /\ dev' = [dev EXCEPT ![i].pc = "wire"]

\* The call fails before anything is sent.
Refused(i, a, code) ==
    /\ cp' = [cp EXCEPT ![i].pc = "done", ![i].ask = a, ![i].code = code]
    /\ UNCHANGED dev

OutOfMemory(i, a) == "mem" \in Faults /\ Refused(i, a, UPNP_E_OUTOF_MEMORY)

\* The name of an action is the one after the prefix of its element.
get_action_name(a) == a.prefixed

SoapSendAction(i, a) ==
    \/ OutOfMemory(i, a)
    \/ ~get_action_name(a) /\ Refused(i, a, UPNP_E_INVALID_ACTION)
    \/ get_action_name(a) /\ a.url = "bad" /\ Refused(i, a, UPNP_E_INVALID_URL)
    \/ get_action_name(a) /\ a.url = "good" /\ Send(i, a, ActionRequest(a))

SoapSendActionEx(i, a) ==
    \/ OutOfMemory(i, a)
    \/ ~get_action_name(a) /\ Refused(i, a, UPNP_E_INVALID_ACTION)
    \/ get_action_name(a) /\ a.url = "bad" /\ Refused(i, a, UPNP_E_INVALID_URL)
    \/ get_action_name(a) /\ a.url = "good" /\ Send(i, a, ActionRequestEx(a))

SoapGetServiceVarStatus(i, a) ==
    \/ a.url = "bad" /\ Refused(i, a, UPNP_E_INVALID_URL)
    \/ a.url = "good" /\ (OutOfMemory(i, a) \/ Send(i, a, VarRequest(a)))

\* UpnpSendAction, UpnpSendActionEx and UpnpGetServiceVarStatus look at the
\* handle, then at the parameters.
ParamsChecked(i, a) ==
    \/ a.handle # "client" /\ Refused(i, a, UPNP_E_INVALID_HANDLE)
    \/ a.handle = "client" /\ a.url = "null" /\ Refused(i, a, UPNP_E_INVALID_PARAM)

MayCall(a) == a.handle = "client" /\ a.url # "null"

UpnpSendAction(i) ==
    /\ cp[i].pc = "idle"
    /\ \E a \in Asks[i] :
         /\ a.kind = "action" /\ ~a.hdr /\ ~a.async
         /\ ParamsChecked(i, a) \/ (MayCall(a) /\ SoapSendAction(i, a))
    /\ UNCHANGED <<handles, old, performed>>

UpnpSendActionEx(i) ==
    /\ cp[i].pc = "idle"
    /\ \E a \in Asks[i] :
         /\ a.kind = "action" /\ a.hdr /\ ~a.async
         /\ ParamsChecked(i, a) \/ (MayCall(a) /\ SoapSendActionEx(i, a))
    /\ UNCHANGED <<handles, old, performed>>

UpnpGetServiceVarStatus(i) ==
    /\ cp[i].pc = "idle"
    /\ \E a \in Asks[i] :
         /\ a.kind = "var" /\ ~a.async
         /\ ParamsChecked(i, a) \/ (MayCall(a) /\ SoapGetServiceVarStatus(i, a))
    /\ UNCHANGED <<handles, old, performed>>

\* The job of an asynchronous call, whose parameters were checked when it was
\* made, makes the same calls.
UpnpThreadDistribution(i) ==
    /\ cp[i].pc = "idle"
    /\ \E a \in Asks[i] :
         /\ a.async
         /\ \/ a.kind = "action" /\ a.hdr /\ SoapSendActionEx(i, a)
            \/ a.kind = "action" /\ ~a.hdr /\ SoapSendAction(i, a)
            \/ a.kind = "var" /\ SoapGetServiceVarStatus(i, a)
    /\ UNCHANGED <<handles, old, performed>>

\* A request of another control point.
Stray(i) ==
    /\ cp[i].pc = "idle"
    /\ \E r \in Strays[i] :
         /\ cp' = [cp EXCEPT ![i].pc = "done", ![i].req = r]
         /\ dev' = [dev EXCEPT ![i].pc = "wire"]
    /\ UNCHANGED <<handles, old, performed>>

\* Mutant of Again: an error is a reason as well.
AgainAlsoOnError(req, resp) == req.method = "POST" /\ resp.status \in {405, 500}

\* The response that makes the call send its request again.
Again(req, resp) == req.method = "POST" /\ resp.status = 405

\* ... and what it sends then.
add_man_header(req) == [req EXCEPT !.method = "M-POST", !.man = TRUE]

Outcome(code, value) == [code |-> code, value |-> value]
Bad == Outcome(UPNP_E_BAD_RESPONSE, NoValue)

\* The UPnPError of a fault.
FaultValue(a, body) ==
    IF body.tag # "Fault" THEN Bad
    ELSE IF body.code > 400 THEN Outcome(body.code, NoValue)
    ELSE IF a.kind = "action" THEN Outcome(body.code, "fault")
    ELSE IF body.text THEN Outcome(body.code, "fault")
    ELSE Bad

\* The outcome a response means for the call.
get_response_value(a, resp) ==
    IF resp.status \notin {200, 500} \/ ~resp.xml THEN Bad
    ELSE IF a.kind = "action" /\ resp.body.tag = "Response" /\ resp.body.name = a.name
         THEN Outcome(UPNP_E_SUCCESS, resp.body.value)
    ELSE IF a.kind = "var" /\ resp.body.tag = "Var"
         THEN IF resp.body.value = "" THEN Bad ELSE Outcome(UPNP_E_SUCCESS, resp.body.value)
    ELSE FaultValue(a, resp.body)

soap_request_and_response(i) ==
    /\ cp[i].pc = "sent" /\ dev[i].pc = "replied"
    /\ Again(cp[i].req, dev[i].resp)
    /\ \/ /\ cp' = [cp EXCEPT ![i].req = add_man_header(cp[i].req)]
          /\ dev' = [dev EXCEPT ![i] = [IdleDev EXCEPT !.pc = "wire"]]
       \/ /\ "mem" \in Faults
          /\ Returns(i, UPNP_E_OUTOF_MEMORY, NoValue)
          /\ UNCHANGED dev
    /\ UNCHANGED <<handles, old, performed>>

ReadResponse(i) ==
    /\ cp[i].pc = "sent" /\ dev[i].pc = "replied"
    /\ ~Again(cp[i].req, dev[i].resp)
    /\ \/ LET o == get_response_value(cp[i].ask, dev[i].resp)
          IN  Returns(i, o.code, o.value)
       \/ "mem" \in Faults /\ Returns(i, UPNP_E_OUTOF_MEMORY, NoValue)
    /\ UNCHANGED <<handles, old, dev, performed>>

\* The connection is closed without a response.
NoAnswer(i) ==
    /\ cp[i].pc = "sent" /\ dev[i].pc = "closed"
    /\ Returns(i, UPNP_E_BAD_HTTPMSG, NoValue)
    /\ UNCHANGED <<handles, old, dev, performed>>

\* The device cannot be reached: the request is not delivered.
ConnectFails(i) ==
    /\ cp[i].pc = "sent" /\ dev[i].pc = "wire"
    /\ Returns(i, UPNP_E_SOCKET_CONNECT, NoValue)
    /\ dev' = [dev EXCEPT ![i].pc = "closed"]
    /\ UNCHANGED <<handles, old, performed>>

\* UPNP_TIMEOUT passes.  What was sent may still reach the device.
TimesOut(i) ==
    /\ cp[i].pc = "sent"
    /\ Returns(i, UPNP_E_TIMEDOUT, NoValue)
    /\ UNCHANGED <<handles, old, dev, performed>>

-----------------------------------------------------------------------------
(* The device *)

Response(status, xml, body) == [status |-> status, xml |-> xml, body |-> body]
NoBody == [tag |-> "none"]
StatusResponse(n) == Response(n, FALSE, NoBody)
send_error_response(code) == Response(500, TRUE, [tag |-> "Fault", code |-> code, text |-> TRUE])
send_action_response(name, value) ==
    Response(200, TRUE, [tag |-> "Response", name |-> name, value |-> value])
send_var_query_response(value) == Response(200, TRUE, [tag |-> "Var", value |-> value])

\* The device's thread sends a response and is done.
Reply(i, resp) == dev' = [dev EXCEPT ![i].pc = "replied", ![i].resp = resp]
ReplyShort(i, resp) ==
    dev' = [dev EXCEPT ![i].pc = "replied", ![i].resp = resp, ![i].short = TRUE]

ControlMatches(h, path) ==
    {k \in DOMAIN Devices[h].services : Devices[h].services[k].control = path}
EventMatches(h, path) ==
    {k \in DOMAIN Devices[h].services : Devices[h].services[k].event = path}
First(set) == CHOOSE k \in set : \A j \in set : k <= j

FindServiceControlURLPath(h, path) == Devices[h].services[First(ControlMatches(h, path))]
FindServiceEventURLPath(h, path) == Devices[h].services[First(EventMatches(h, path))]

\* The registered devices of a family that have a service with this control or
\* event URL: none while the family's flag is not set.
DevicesWith(path, af) ==
    {h \in registered : /\ af \in flags /\ Devices[h].af = af
                        /\ ControlMatches(h, path) \cup EventMatches(h, path) # {}}

GetDeviceHandleInfoForPath(path, af) == First(DevicesWith(path, af))

ServiceFor(path, af) ==
    LET h == GetDeviceHandleInfoForPath(path, af)
    IN  IF ControlMatches(h, path) # {} THEN FindServiceControlURLPath(h, path)
                                        ELSE FindServiceEventURLPath(h, path)

\* The status get_mpost_acton_hdrval's failure becomes, 0 when it finds the
\* header the MAN header names.
get_mpost_acton_hdrval(r) == IF ~r.man THEN 510 ELSE IF r.type = NoType THEN 400 ELSE 0

\* The type and the action the SOAPACTION header stands for: the type is the
\* header's when it differs from the service's in its last part only.
IsQuery(r) == r.type = QUERY_STATE_VAR_URN /\ r.name = Query
HeaderOk(r, type) == r.type # NoType /\ (r.type.base = type.base \/ IsQuery(r))
HeaderStatus(r, type) ==
    IF r.method = "M-POST" /\ get_mpost_acton_hdrval(r) # 0 THEN get_mpost_acton_hdrval(r)
    ELSE IF HeaderOk(r, type) THEN 0 ELSE 400

\* Mutant of check_soapaction_hdr: the type the device has, not the one that was asked for.
OwnType(r, type) == type

check_soapaction_hdr(r, type) == IF r.type.base = type.base THEN r.type ELSE type
ActionNamed(r, type) == IF r.type.base = type.base THEN r.name ELSE NoValue

\* The body: the envelope's first child is the body, whose first child is the
\* action the header names or a query.
check_soap_request(r, type, name) ==
    /\ r.parts # <<>> /\ r.parts[1] = "Body"
    /\ r.element # NoValue
    /\ IF name = NoValue THEN r.ns = QUERY_STATE_VAR_URN /\ r.element = Query /\ r.arg # NoValue
                         ELSE r.ns = type /\ r.element = name

\* The status a request is refused with, 0 when it is taken.
Refusal(r, type) ==
    IF ~r.xml THEN 415
    ELSE IF HeaderStatus(r, type) # 0 THEN HeaderStatus(r, type)
    ELSE IF ~check_soap_request(r, check_soapaction_hdr(r, type), ActionNamed(r, type)) THEN 400
    ELSE 0

\* get_dev_service copies what it needs of the device while it holds the lock.
get_dev_service(i, r) ==
    LET s == ServiceFor(r.path, r.af)
    IN  dev' = [dev EXCEPT ![i].pc = "call",
                           ![i].type = check_soapaction_hdr(r, s.type),
                           ![i].name = ActionNamed(r, s.type),
                           ![i].arg = r.arg]

\* The server in front of the device refuses the method.
PostRefused(i) ==
    /\ dev[i].pc = "wire"
    /\ old /\ cp[i].req.method = "POST"
    /\ Reply(i, StatusResponse(405))
    /\ UNCHANGED <<handles, old, cp, performed>>

soap_device_callback(i) ==
    /\ dev[i].pc = "wire"
    /\ ~(old /\ cp[i].req.method = "POST")
    /\ LET r == cp[i].req
       IN  \/ DevicesWith(r.path, r.af) = {} /\ Reply(i, StatusResponse(404))
           \/ /\ DevicesWith(r.path, r.af) # {}
              /\ Refusal(r, ServiceFor(r.path, r.af).type) # 0
              /\ Reply(i, StatusResponse(Refusal(r, ServiceFor(r.path, r.af).type)))
           \/ /\ DevicesWith(r.path, r.af) # {}
              /\ Refusal(r, ServiceFor(r.path, r.af).type) = 0
              /\ get_dev_service(i, r)
           \/ "mem" \in Faults /\ ReplyShort(i, StatusResponse(500))
    /\ UNCHANGED <<handles, old, cp, performed>>

\* The application is called, without the lock.
Callback(i) ==
    /\ dev[i].pc = "call"
    /\ \E ans \in Answers :
         /\ dev' = [dev EXCEPT ![i].pc = "answer", ![i].answer = ans]
         /\ performed' = Append(performed, [call |-> i, name |-> dev[i].name, type |-> dev[i].type,
                                            arg |-> dev[i].arg, answer |-> ans])
    /\ UNCHANGED <<handles, old, cp>>

\* Memory runs out before the application is called.
NoMemoryToCall(i) ==
    /\ dev[i].pc = "call" /\ "mem" \in Faults
    /\ ReplyShort(i, send_error_response(SOAP_MEMORY_OUT))
    /\ UNCHANGED <<handles, old, cp, performed>>

handle_query_variable(ans) ==
    IF ans.value = NoValue THEN send_error_response(SOAP_INVALID_VAR)
    ELSE IF ans.err # 0
         THEN send_error_response(IF ans.text THEN ans.err ELSE SOAP_INVALID_VAR)
    ELSE send_var_query_response(ans.value)

handle_invoke_action(name, ans) ==
    IF ans.err # 0 THEN send_error_response(IF ans.text THEN ans.err ELSE SOAP_ACTION_FAILED)
    ELSE IF ans.value = NoValue THEN send_error_response(SOAP_ACTION_FAILED)
    ELSE send_action_response(name, ans.value)

\* What the application said is sent; when memory runs out it is a fault, or
\* nothing at all.
Answer(i) ==
    /\ dev[i].pc = "answer"
    /\ \/ Reply(i, IF dev[i].name = NoValue THEN handle_query_variable(dev[i].answer)
                   ELSE handle_invoke_action(dev[i].name, dev[i].answer))
       \/ "mem" \in Faults /\ ReplyShort(i, send_error_response(SOAP_ACTION_FAILED))
       \/ "mem" \in Faults /\ dev' = [dev EXCEPT ![i].pc = "closed"]
    /\ UNCHANGED <<handles, old, cp, performed>>

\* The application registers a device, or unregisters one (Sdk.tla), which
\* clears the flag of its family although another device may have it too.
RegisterDevice(h) ==
    /\ h \notin registered
    /\ registered' = registered \cup {h}
    /\ flags' = flags \cup {Devices[h].af}
    /\ UNCHANGED <<lost, old, cp, dev, performed>>

UnRegisterDevice(h) ==
    /\ h \in registered
    /\ registered' = registered \ {h}
    /\ flags' = flags \ {Devices[h].af}
    /\ lost' = lost \cup {Devices[h].af}
    /\ UNCHANGED <<old, cp, dev, performed>>

ClientStep(i) ==
    \/ UpnpSendAction(i) \/ UpnpSendActionEx(i) \/ UpnpGetServiceVarStatus(i)
    \/ UpnpThreadDistribution(i) \/ Stray(i)
    \/ soap_request_and_response(i) \/ ReadResponse(i) \/ NoAnswer(i)
    \/ ConnectFails(i) \/ TimesOut(i)

DeviceStep(i) ==
    \/ PostRefused(i) \/ soap_device_callback(i)
    \/ Callback(i) \/ NoMemoryToCall(i) \/ Answer(i)

Next == \/ \E i \in Call : ClientStep(i) \/ DeviceStep(i)
        \/ \E h \in Handle : RegisterDevice(h) \/ UnRegisterDevice(h)

Spec == Init /\ [][Next]_vars

-----------------------------------------------------------------------------
(* Properties *)

\* What the application was asked to do for a call.
Done(i) == {k \in DOMAIN performed : performed[k].call = i}

\* A call of UpnpSendAction (soap_request_and_response, soap_ctrlpt.c) never
\* makes the application act twice, whatever is lost, answered late or sent
\* again as M-POST.
AtMostOnce == \A i \in Call : Cardinality(Done(i)) <= 1

\* A call a device should take: a client's, for a service of a device of its
\* family, by its type in any version, without a header of its own.
Proper(a) ==
    /\ MayCall(a) /\ ~a.hdr /\ a.url = "good"
    /\ \E h \in Handle : \E k \in DOMAIN Devices[h].services :
         LET s == Devices[h].services[k]
         IN  /\ Devices[h].af = a.af /\ s.control = a.path
             /\ a.kind = "action" => a.prefixed /\ a.ns = a.type /\ a.type.base = s.type.base

\* The application did what was asked, and its answer is the outcome: its
\* value, or the error it explained.
Told(i, d) ==
    LET a == cp[i].ask
    IN  /\ IF a.kind = "var" THEN d.name = NoValue /\ d.arg = a.name
           ELSE d.name = a.name /\ d.type = a.type /\ d.arg = a.arg
        /\ d.answer.err = 0 /\ d.answer.value \notin {NoValue, ""}
             => cp[i].code = UPNP_E_SUCCESS /\ cp[i].value = d.answer.value
        /\ d.answer.err # 0 /\ d.answer.text /\ d.answer.value # NoValue
             => cp[i].code = d.answer.err
        /\ d.answer.err # 0 \/ d.answer.value = NoValue => cp[i].code # UPNP_E_SUCCESS

\* What a call reports when something on the way failed.
Trouble(i) == dev[i].short
              \/ cp[i].code \in {UPNP_E_OUTOF_MEMORY, UPNP_E_BAD_HTTPMSG, UPNP_E_SOCKET_CONNECT,
                                 UPNP_E_TIMEDOUT}

\* UpnpSendAction and UpnpGetServiceVarStatus report success only for what
\* the application did; without trouble they report what it said, and a
\* proper call is refused only when a device of its family was unregistered,
\* which takes the others of the family out of reach as well
\* (soap_device_callback, GetDeviceHandleInfoForPath, get_response_value).
CallRight ==
    \A i \in Call :
      cp[i].pc = "done" /\ cp[i].ask # NoAsk =>
        /\ cp[i].code = UPNP_E_SUCCESS => Done(i) # {}
        /\ ~Trouble(i) => \A k \in Done(i) : Told(i, performed[k])
        /\ ~Trouble(i) /\ Done(i) = {} /\ Proper(cp[i].ask)
             => /\ dev[i].resp.status = 404 /\ cp[i].code = UPNP_E_BAD_RESPONSE
                /\ cp[i].ask.af \in lost

\* A positive code is a SOAP error, whose description the response document
\* holds (upnp.h, UpnpSendAction).
ErrorDescribed ==
    \A i \in Call :
      cp[i].pc = "done" /\ cp[i].code > 0 /\ cp[i].ask.kind = "action" => cp[i].value = "fault"
=============================================================================
