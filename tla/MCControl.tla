------------------------------ MODULE MCControl ------------------------------
(***************************************************************************)
(* What a control point does: it keeps subscriptions (GenaCtrlpt) or calls *)
(* actions (Soap).  The two share no state, so a behaviour is one of       *)
(* either: `talk' says which, and the other one stays as it began.         *)
(***************************************************************************)
EXTENDS GenaCtrlpt, Sequences

CONSTANTS Call, Asks, Strays, Answers, Handle, Devices, Old, Faults

VARIABLES talk, registered, flags, lost, old, cp, dev, performed

S == INSTANCE Soap

soapVars == <<registered, flags, lost, old, cp, dev, performed>>

\* Two devices of one family; one service has a newer version.
T(n) == [base |-> "service", last |-> n]

Service(c, e, t) == [control |-> c, event |-> e, type |-> t]
MCDevices ==
    <<[af |-> "4", services |-> <<Service("/c1", "/e1", T("2")), Service("/c2", "/e2", T("1"))>>],
      [af |-> "4", services |-> <<Service("/c3", "/e3", T("1"))>>]>>

Asked == [kind |-> "action", handle |-> "client", url |-> "good", path |-> "/c1", af |-> "4",
          type |-> T("1"), ns |-> T("1"), name |-> "Set", arg |-> "x", hdr |-> FALSE, prefixed |-> TRUE,
          async |-> FALSE]

AllAsks ==
    {Asked,
     [Asked EXCEPT !.kind = "var", !.name = "Volume"],
     [Asked EXCEPT !.path = "/c3", !.async = TRUE],
     [Asked EXCEPT !.hdr = TRUE], [Asked EXCEPT !.hdr = TRUE, !.async = TRUE],
     [Asked EXCEPT !.kind = "var", !.path = "/e2", !.async = TRUE],
     [Asked EXCEPT !.af = "6"],
     [Asked EXCEPT !.ns = T("2")], [Asked EXCEPT !.path = "/none"],
     [Asked EXCEPT !.handle = "device"], [Asked EXCEPT !.url = "null"],
     [Asked EXCEPT !.url = "bad"], [Asked EXCEPT !.prefixed = FALSE],
     [Asked EXCEPT !.hdr = TRUE, !.url = "bad"], [Asked EXCEPT !.hdr = TRUE, !.prefixed = FALSE],
     [Asked EXCEPT !.hdr = TRUE, !.handle = "device"],
     [Asked EXCEPT !.kind = "var", !.url = "bad"], [Asked EXCEPT !.kind = "var", !.url = "null"]}

Nothing == "none"
NoType == [base |-> "none", last |-> "none"]
Control == [base |-> "urn:schemas-upnp-org", last |-> "control-1-0"]

Good == [method |-> "POST", path |-> "/c1", af |-> "4", xml |-> TRUE, man |-> FALSE, type |-> T("1"),
         name |-> "Set", parts |-> <<"Body">>, ns |-> T("1"), element |-> "Set", arg |-> "x"]
Query == [Good EXCEPT !.type = Control, !.ns = Control, !.name = "QueryStateVariable",
                      !.element = "QueryStateVariable"]

AllStrays ==
    {[Good EXCEPT !.xml = FALSE], [Good EXCEPT !.type = NoType],
     [Good EXCEPT !.method = "M-POST"], [Good EXCEPT !.method = "M-POST", !.man = TRUE],
     [Good EXCEPT !.method = "M-POST", !.man = TRUE, !.type = NoType],
     [Good EXCEPT !.parts = <<>>], [Good EXCEPT !.element = Nothing],
     [Good EXCEPT !.name = "Get"],
     [Query EXCEPT !.arg = Nothing], [Query EXCEPT !.ns = T("1")]}

\* The first call tries everything, the second is a plain one.
MCAsks == <<AllAsks, {Asked}>>
MCStrays == <<AllStrays, {}>>

Said(err, text, value) == [err |-> err, text |-> text, value |-> value]
MCAnswers == {Said(0, FALSE, "v"), Said(0, FALSE, Nothing), Said(0, FALSE, ""),
              Said(402, TRUE, "v"), Said(402, FALSE, "v"), Said(402, TRUE, Nothing),
              Said(-7, TRUE, "v")}

\* What a device and a call are made of: handles and the places of services are
\* numbers, no service has the type of a query or none at all, and a call asks for
\* an action of a service or for a variable, by its name.
DevicesRight ==
    /\ Handle \subseteq Nat
    /\ \A h \in Handle :
         /\ DOMAIN Devices[h].services \subseteq Nat
         /\ \A k \in DOMAIN Devices[h].services :
              Devices[h].services[k].type.base
                \notin {S!NoType.base, S!QUERY_STATE_VAR_URN.base}
AsksRight ==
    \A i \in Call : \A a \in Asks[i] :
      a.name # S!NoValue /\ (a.kind = "action" => a.type # S!QUERY_STATE_VAR_URN)

ASSUME ControlConstants == DevicesRight /\ AsksRight

MCInit == Init /\ S!Init /\ talk \in {"events", "actions"}

MCNext ==
    \/ talk = "events" /\ Next /\ UNCHANGED <<talk, soapVars>>
    \/ talk = "actions" /\ S!Next /\ UNCHANGED <<talk, vars>>

MCSpec == MCInit /\ [][MCNext]_<<talk, vars, soapVars>>

\* Soap: an action is performed at most once for a call (soap_request_and_response).
AtMostOnce == S!AtMostOnce

\* Soap: a call reports what the application on the device did and said.
CallRight == S!CallRight
=============================================================================
