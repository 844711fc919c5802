--------------------------- MODULE DynamicGateway ---------------------------
(***************************************************************************)
(* The dynamic gateway: DynamicGateway.Post of                             *)
(* internal/handlers/gateway_dynamic.go behind the middleware              *)
(* FwHeaderTrace of internal/middleware/fw_header_trace.go.                *)
(*                                                                         *)
(* Every request runs in a goroutine of its own.  It consults the database *)
(* five to seven times, each time in a statement of its own, while others  *)
(* edit the tables; it publishes log events on the way; it calls the       *)
(* upstream once; and it answers the caller.  A step of the model reaches  *)
(* from one of these calls to the next.                                    *)
(***************************************************************************)
EXTENDS Repository, Sequences, FiniteSets

CONSTANTS Hosted,    \* APIs with a TARGET_URI or a configured group host
          MaxEdits   \* bound: edits of the tables while requests run

ASSUME GatewayAssumption ==
    /\ Hosted \subseteq Apis
    /\ MaxEdits \in Nat
    /\ GatewayCode # NoCode

(* What a request looks like to the gateway: its method, whether its body  *)
(* is a JSON object with data, one without, or unusable (cut short by the  *)
(* body limit, too), and what its X-Fw-Header says.                        *)
Body == {"data", "noData", "unusable"}
Shape(r) ==
    {s \in [method : {"GET", "POST"}, body : Body,
            fw : {NoHeader} \cup
                 {[tcid |-> <<r, "caller">>, srno |-> 1, code |-> c] :
                      c \in CallerCodes}] :
        s.method = "GET" => s.body = "noData"}

Status == {"badRequest", "notFound", "serverError", "badGateway"}
Outcome == Status \cup {"none", "cutShort", "passed"}

VARIABLES
    db,         \* the tables
    edits,      \* how often the tables were edited
    pc,         \* how far each request has got
    shape,      \* what each request looks like
    trace,      \* the header FwHeaderTrace made, kept by fwHeaderWriter
    rHeader,    \* X-Fw-Header of r.Header
    merged,     \* the header Post made for itself
    api,        \* requestData: the API found for the path
    upHeader,   \* X-Fw-Header of the upstream's response
    wHeader,    \* X-Fw-Header of w.Header()
    outcome,    \* what Post has made of the request
    reply,      \* X-Fw-Header of the answer the caller gets
    outHeader,  \* the values of X-Fw-Header in the upstream request
    events,     \* history: events handed to the log publisher
    off,        \* history: log points whose lookup said no
    seen        \* history: approvals that held since the request arrived

pass == <<shape, trace, merged>>
past == <<events, off>>
vars == <<db, edits, pc, pass, rHeader, api, outHeader, upHeader, wHeader,
          outcome, reply, past, seen>>

Running(r) == pc[r] \notin {"idle", "answered", "panicked"}

(* Everything is in order to begin with, whatever is logged. *)
Init ==
    /\ \E a \in Apis, logs \in SUBSET LogPoint :
           db = [path |-> a, apiControlled |-> {},
                 groups |-> [g \in Groups |-> "open"],
                 roles |-> Apis \X {GatewayCode}, logs |-> logs]
    /\ edits = 0
    /\ pc = [r \in Requests |-> "idle"]
    /\ shape = [r \in Requests |->
                   [method |-> "GET", body |-> "noData", fw |-> NoHeader]]
    /\ trace = [r \in Requests |-> NoHeader]
    /\ rHeader = trace /\ merged = trace /\ upHeader = trace
    /\ wHeader = trace /\ reply = trace
    /\ api = [r \in Requests |-> NoApi]
    /\ outcome = [r \in Requests |-> "none"]
    /\ outHeader = [r \in Requests |-> <<>>]
    /\ events = outHeader
    /\ off = [r \in Requests |-> {}]
    /\ seen = off

-----------------------------------------------------------------------------
(* A request arrives: FwHeaderTrace, and Post up to its first query. *)

(* The service code the role check will use: the header's, else the body's *)
(* (never reached behind FwHeaderTrace, which sets the header's), else SMP.*)
BizCode(h) == IF h.code # NoCode THEN h.code ELSE "SMP"

Arrive(r) ==
    /\ pc[r] = "idle"
    /\ \E s \in Shape(r) :
           LET t == EnsureTCIDForRequest(s.fw, GatewayCode, <<r, "trace">>)
           IN  /\ shape' = [shape EXCEPT ![r] = s]
               /\ trace' = [trace EXCEPT ![r] = t]
               /\ rHeader' = [rHeader EXCEPT ![r] = t]
               /\ merged' = [merged EXCEPT ![r] =
                      ApplyServerSideFields(t, BizCode(t), <<r, "merged">>)]
    /\ pc' = [pc EXCEPT ![r] = "logInbound"]
    /\ seen' = [seen EXCEPT ![r] = Approvals(db)]
    /\ UNCHANGED <<db, edits, api, outHeader, upHeader, wHeader, outcome, reply,
                   past>>

-----------------------------------------------------------------------------
(* Logging: the switch of the log point is looked up, then the event is    *)
(* published, whose key is the TCID of a header that is not always the     *)
(* header of the event.                                                    *)

Event(type, normal, h, keyHeader) ==
    [rasTyp |-> type, nmlYn |-> normal, tcid |-> h.tcid, srno |-> h.srno,
     key |-> keyHeader.tcid]

Log(r, point, event) ==
    \/ /\ TRUE \in ExistConfig(db, point)
       /\ events' = [events EXCEPT ![r] = Append(@, event)]
       /\ UNCHANGED off
    \/ /\ FALSE \in ExistConfig(db, point)
       /\ off' = [off EXCEPT ![r] = @ \cup {point}]
       /\ UNCHANGED events

logging == <<db, edits, pass, rHeader, api, outHeader, upHeader, seen>>

Goto(r, from, to) == pc[r] = from /\ pc' = [pc EXCEPT ![r] = to]

(* Mutated form: the event is made from the header of the answer. *)
LogFromAnswer(r) ==
    /\ Goto(r, "logInbound", "parse")
    /\ Log(r, "inbound.request", Event("11", "Y", wHeader[r], rHeader[r]))
    /\ UNCHANGED <<logging, wHeader, outcome, reply>>

LogInboundRequest(r) ==
    /\ Goto(r, "logInbound", "parse")
    /\ Log(r, "inbound.request", Event("11", "Y", merged[r], rHeader[r]))
    /\ UNCHANGED <<logging, wHeader, outcome, reply>>

-----------------------------------------------------------------------------
(* The checks.  Continue and Refuse are the two ends of each of them. *)

Continue(r, to) ==
    /\ pc' = [pc EXCEPT ![r] = to]
    /\ UNCHANGED outcome

Refuse(r, status) ==
    /\ pc' = [pc EXCEPT ![r] = "refused"]
    /\ outcome' = [outcome EXCEPT ![r] = status]

checking == <<db, edits, pass, rHeader, outHeader, upHeader, wHeader, reply,
              past, seen>>

ParseBody(r) ==
    /\ pc[r] = "parse"
    /\ IF shape[r].body = "unusable"
       THEN Refuse(r, "badRequest")
       ELSE Continue(r, "findRequestData")
    /\ UNCHANGED <<checking, api>>

(* Mutated form: the query is repeated until it finds something. *)
FindApiAtLast(r) ==
    /\ pc[r] = "findRequestData"
    /\ \E a \in FindRequestData(db) \ {Error} :
           Continue(r, "useApi") /\ api' = [api EXCEPT ![r] = a]
    /\ UNCHANGED checking

FindApi(r) ==
    /\ pc[r] = "findRequestData"
    /\ \E a \in FindRequestData(db) :
           IF a = Error
           THEN Refuse(r, "serverError") /\ UNCHANGED api
           ELSE Continue(r, "useApi") /\ api' = [api EXCEPT ![r] = a]
    /\ UNCHANGED checking

(* Mutated form: the role check is that of any API, not the one found.     *)
CheckRoleOfAny(r) ==
    /\ pc[r] = "useApi"
    /\ \E a \in Apis :
         \E ok \in ExistUseAPIList(db, a, BizCode(trace[r])) :
           IF ok = "yes" THEN Continue(r, "apiGroup")
                         ELSE Refuse(r, "serverError")
    /\ UNCHANGED <<checking, api>>

CheckRole(r) ==
    /\ pc[r] = "useApi"
    /\ \E ok \in ExistUseAPIList(db, api[r], BizCode(trace[r])) :
           IF ok = "yes" THEN Continue(r, "apiGroup")
                         ELSE Refuse(r, "serverError")
    /\ UNCHANGED <<checking, api>>

CheckGroup(r) ==
    /\ pc[r] = "apiGroup"
    /\ \E ok \in ExistAPIGroup(db, api[r]) :
           IF ok = "yes" THEN Continue(r, "api") ELSE Refuse(r, "serverError")
    /\ UNCHANGED <<checking, api>>

CheckApi(r) ==
    /\ pc[r] = "api"
    /\ \E ok \in ExistAPI(db) :
           CASE ok = "yes" -> Continue(r, "prepare")
             [] ok = "no" -> Refuse(r, "notFound")
             [] OTHER -> Refuse(r, "serverError")
    /\ UNCHANGED <<checking, api>>

(* Without a host for the API the request is refused, and so it may be     *)
(* with one, when the host and the URL of the body make no URL; else the   *)
(* upstream request gets both headers, first the caller's as FwHeaderTrace *)
(* left it, then Post's own, which also replaces the first in r.Header.    *)
Prepare(r) ==
    /\ pc[r] = "prepare"
    /\ \/ Refuse(r, "serverError") /\ UNCHANGED <<rHeader, outHeader>>
       \/ /\ api[r] \in Hosted
          /\ Continue(r, "logOutbound")
          /\ rHeader' = [rHeader EXCEPT ![r] = merged[r]]
          /\ outHeader' = [outHeader EXCEPT ![r] = <<rHeader[r], merged[r]>>]
    /\ UNCHANGED <<db, edits, pass, api, upHeader, wHeader, reply, past, seen>>

-----------------------------------------------------------------------------
(* The upstream call. *)

(* io.ReadAll(reqUp.Body) panics when the upstream request has no body,    *)
(* which is so for a POST without data; net/http aborts the connection.    *)
LogOutboundRequest(r) ==
    /\ pc[r] = "logOutbound"
    /\ IF shape[r].method = "POST" /\ shape[r].body = "noData"
       THEN \/ /\ TRUE \in ExistConfig(db, "outbound.request")
               /\ pc' = [pc EXCEPT ![r] = "panicked"]
               /\ UNCHANGED past
            \/ /\ FALSE \in ExistConfig(db, "outbound.request")
               /\ pc' = [pc EXCEPT ![r] = "call"]
               /\ off' = [off EXCEPT ![r] = @ \cup {"outbound.request"}]
               /\ UNCHANGED events
       ELSE /\ pc' = [pc EXCEPT ![r] = "call"]
            /\ Log(r, "outbound.request",
                   Event("21", "Y", outHeader[r][1], outHeader[r][1]))
    /\ UNCHANGED <<logging, wHeader, outcome, reply>>

calling == <<db, edits, pass, rHeader, api, outHeader, wHeader, reply, past,
             seen>>

(* Do returns an error: no connection, a timeout, a cancelled request.     *)
(* The bump of the bare TCIDSRNO that follows does nothing.                *)
CallFails(r) ==
    /\ pc[r] = "call"
    /\ Refuse(r, "badGateway")
    /\ UNCHANGED <<calling, upHeader>>

CallReturns(r) ==
    /\ pc[r] = "call"
    /\ Continue(r, "read")
    /\ \E h \in {NoHeader,
                 [tcid |-> <<r, "upstream">>, srno |-> 7, code |-> "SMP"]} :
           upHeader' = [upHeader EXCEPT ![r] = h]
    /\ UNCHANGED calling

-----------------------------------------------------------------------------
(* Answering: fwHeaderWriter.WriteHeader sets X-Fw-Header to the header it *)
(* has kept, one hop on, whatever the handler had put there.  The first    *)
(* call of WriteHeader is the one the caller sees.                         *)

(* Mutated form: the writer leaves a header alone that is already there. *)
KeepHeader(r, h) == IF h = NoHeader THEN BumpTCIDSRNO(trace[r]) ELSE h

WriteHeader(r, h) == BumpTCIDSRNO(trace[r])

Answer(r, to, result, h) ==
    /\ pc' = [pc EXCEPT ![r] = to]
    /\ outcome' = [outcome EXCEPT ![r] = result]
    /\ wHeader' = [wHeader EXCEPT ![r] = WriteHeader(r, h)]
    /\ reply' = [reply EXCEPT ![r] = WriteHeader(r, h)]

(* Mutated form: the answer is sent before returnlog, and not logged.      *)
AnswerUnlogged(r) ==
    /\ pc[r] = "refused"
    /\ Answer(r, "answered", outcome[r], NoHeader)
    /\ UNCHANGED <<logging, past>>

(* returnlog and WriteJSON; the bump of returnlog does nothing.            *)
ReturnError(r) ==
    /\ pc[r] = "refused"
    /\ LET h == [merged[r] EXCEPT !.srno = BumpBareNumber(@)]
       IN  Log(r, "inbound.response", Event("12", "N", h, rHeader[r]))
    /\ Answer(r, "answered", outcome[r], NoHeader)
    /\ UNCHANGED logging

(* The response breaks off: answered 502, without an event. *)
ReadFails(r) ==
    /\ pc[r] = "read"
    /\ Answer(r, "answered", "cutShort", NoHeader)
    /\ UNCHANGED <<logging, past>>

(* The upstream's headers are copied and its X-Fw-Header is set, one hop   *)
(* on; then its status and its body are passed on.                         *)
PassOn(r) ==
    /\ pc[r] = "read"
    /\ Answer(r, "logOutboundResponse", "passed", BumpTCIDSRNO(upHeader[r]))
    /\ UNCHANGED <<logging, past>>

(* Mutated form: the second copy of the headers is not followed by a call  *)
(* of WriteHeader.                                                         *)
CopyHeadersOnly(r) ==
    /\ Goto(r, "logOutboundResponse", "logInboundResponse")
    /\ Log(r, "outbound.response", Event("12", "Y", wHeader[r], wHeader[r]))
    /\ wHeader' = [wHeader EXCEPT ![r] = BumpTCIDSRNO(upHeader[r])]
    /\ UNCHANGED <<logging, outcome, reply>>

(* The event of the upstream's response, then the headers once more and a  *)
(* second WriteHeader, which the caller does not see.                      *)
LogOutboundResponse(r) ==
    /\ Goto(r, "logOutboundResponse", "logInboundResponse")
    /\ Log(r, "outbound.response", Event("12", "Y", wHeader[r], wHeader[r]))
    /\ wHeader' = [wHeader EXCEPT ![r] =
                      WriteHeader(r, BumpTCIDSRNO(upHeader[r]))]
    /\ UNCHANGED <<logging, outcome, reply>>

LogInboundResponse(r) ==
    /\ Goto(r, "logInboundResponse", "answered")
    /\ Log(r, "inbound.response", Event("12", "Y", wHeader[r], wHeader[r]))
    /\ UNCHANGED <<logging, wHeader, outcome, reply>>

-----------------------------------------------------------------------------
Check(r) ==
    \/ ParseBody(r)
    \/ FindApi(r)
    \/ CheckRole(r)
    \/ CheckGroup(r)
    \/ CheckApi(r)
    \/ Prepare(r)

Step(r) ==
    \/ LogInboundRequest(r)
    \/ Check(r)
    \/ LogOutboundRequest(r)
    \/ CallFails(r)
    \/ CallReturns(r)
    \/ ReturnError(r)
    \/ ReadFails(r)
    \/ PassOn(r)
    \/ LogOutboundResponse(r)
    \/ LogInboundResponse(r)

EditTables ==
    /\ edits < MaxEdits
    /\ edits' = edits + 1
    /\ db' \in Edited(db)
    /\ seen' = [r \in Requests |->
                   IF Running(r) THEN seen[r] \cup Approvals(db') ELSE seen[r]]
    /\ UNCHANGED <<pc, pass, rHeader, api, outHeader, upHeader, wHeader,
                   outcome, reply, past>>

Next ==
    \/ \E r \in Requests : Arrive(r) \/ Step(r)
    \/ EditTables

Spec == Init /\ [][Next]_vars

(* What a request waits for besides its queries comes to an end: ReadAll   *)
(* of the body by ReadTimeout, and a call by the client's Timeout.         *)
Unaided(r) ==
    \/ ParseBody(r)
    \/ Prepare(r)
    \/ CallFails(r)
    \/ CallReturns(r)
    \/ ReadFails(r)
    \/ PassOn(r)

Queries(r) ==
    \/ LogInboundRequest(r)
    \/ FindApi(r)
    \/ CheckRole(r)
    \/ CheckGroup(r)
    \/ CheckApi(r)
    \/ LogOutboundRequest(r)
    \/ ReturnError(r)
    \/ LogOutboundResponse(r)
    \/ LogInboundResponse(r)

(* Nothing bounds a query, so that the database answers, or fails, is no   *)
(* part of the specification; a property that needs it says so.            *)
FairSpec == Spec /\ \A r \in Requests : WF_vars(Unaided(r))

DatabaseAnswers == \A r \in Requests : WF_vars(Queries(r))

-----------------------------------------------------------------------------
(* Properties *)

PC == {"idle", "logInbound", "parse", "findRequestData", "useApi",
       "apiGroup", "api", "prepare", "logOutbound", "call", "read", "refused",
       "logOutboundResponse", "logInboundResponse", "answered", "panicked"}

LogEvent ==
    [rasTyp : {"11", "12", "21"}, nmlYn : {"Y", "N"}, tcid : Tcid, srno : Nat,
     key : Tcid]

(* Every variable has its type, and every event carries a TCID. *)
TypeOK ==
    /\ db \in Tables
    /\ edits \in 0 .. MaxEdits
    /\ pc \in [Requests -> PC]
    /\ DOMAIN shape = Requests /\ \A r \in Requests : shape[r] \in Shape(r)
    /\ trace \in [Requests -> FwHeader] /\ merged \in [Requests -> FwHeader]
    /\ rHeader \in [Requests -> FwHeader] /\ upHeader \in [Requests -> FwHeader]
    /\ wHeader \in [Requests -> FwHeader] /\ reply \in [Requests -> FwHeader]
    /\ outHeader \in [Requests -> {<<>>} \cup FwHeader \X FwHeader]
    /\ api \in [Requests -> Apis \cup {NoApi}]
    /\ outcome \in [Requests -> Outcome]
    /\ events \in [Requests -> Seq(LogEvent)]
    /\ off \in [Requests -> SUBSET LogPoint]
    /\ seen \in [Requests -> SUBSET Approval]

(* Although the tables are edited between the queries of a request: when   *)
(* the upstream is called, its API was the one found for the path, was     *)
(* allowed to the service code of the request, and had an open group, and  *)
(* the path led to an API that was not controlled, each of it at some      *)
(* moment since the request arrived.  Nothing from before it counts.       *)
Committed == {"logOutbound", "call", "read", "logOutboundResponse",
              "logInboundResponse"}

Sent(r) ==
    \/ pc[r] \in Committed
    \/ outcome[r] \in {"badGateway", "cutShort", "passed"}

ForwardedIsApproved ==
    \A r \in Requests :
        Sent(r) =>
            {Found(api[r]), Role(api[r], trace[r].code), GroupOpen(api[r]),
             ApiOpen} \subseteq seen[r]

(* The caller's answer and the upstream request agree: whatever way a      *)
(* request ends, the answer bears the id of the header that FwHeaderTrace  *)
(* made for it, one hop on, under which it also went upstream; never the   *)
(* upstream's own id or hop, or the id of Post's second header.            *)
AnswerIsTraced ==
    \A r \in Requests :
        pc[r] = "answered" =>
            /\ reply[r].tcid = trace[r].tcid
            /\ reply[r].srno = trace[r].srno + 1
            /\ outHeader[r] # <<>> => reply[r].tcid = outHeader[r][1].tcid

(* The comments of fw_header_trace.go and header.go: the TCID of a caller  *)
(* that sent one is kept.  The code does not keep this: both functions     *)
(* that make headers overwrite it, the one named PreserveTCID, too.        *)
CallerTcidKept ==
    \A r \in Requests :
        pc[r] = "answered" /\ shape[r].fw.tcid # NoTcid =>
            reply[r].tcid = shape[r].fw.tcid

(* What makes ForwardedIsApproved inductive: the checks a request has      *)
(* passed, by how far it has got, each have their approval in seen, which  *)
(* holds everything the tables say now.                                    *)
Approved(r) ==
    /\ Running(r) => Approvals(db) \subseteq seen[r]
    /\ outcome[r] # "none" =>
           pc[r] \in {"refused", "logOutboundResponse",
                      "logInboundResponse", "answered"}
    /\ Sent(r) \/ pc[r] \in {"useApi", "apiGroup", "api", "prepare"} =>
           api[r] \in Apis /\ Found(api[r]) \in seen[r]
    /\ Sent(r) \/ pc[r] \in {"apiGroup", "api", "prepare"} =>
           Role(api[r], trace[r].code) \in seen[r]
    /\ Sent(r) \/ pc[r] \in {"api", "prepare"} =>
           GroupOpen(api[r]) \in seen[r]
    /\ Sent(r) \/ pc[r] = "prepare" => ApiOpen \in seen[r]

ApprovedInv == \A r \in Requests : Approved(r)

(* What makes AnswerIsTraced inductive: the gateway's two headers, and     *)
(* where they are when, by how far the request has got.                    *)
Made(r, maker) == [tcid |-> <<r, maker>>, srno |-> 1, code |-> GatewayCode]

BeforeCall == {"logInbound", "parse", "findRequestData", "useApi",
               "apiGroup", "api", "prepare"}

Traced(r) ==
    /\ pc[r] = "idle" => outHeader[r] = <<>>
    /\ pc[r] # "idle" =>
        /\ trace[r] = Made(r, "trace")
        /\ merged[r] = Made(r, "merged")
        /\ rHeader[r] \in {trace[r], merged[r]}
        /\ pc[r] \in BeforeCall => rHeader[r] = trace[r]
        /\ outHeader[r] \in {<<>>, <<trace[r], merged[r]>>}
        /\ pc[r] \in Committed => outHeader[r] # <<>>
        /\ pc[r] \in {"logOutboundResponse", "logInboundResponse",
                      "answered"} => reply[r] = BumpTCIDSRNO(trace[r])
        /\ pc[r] \in {"logOutboundResponse", "logInboundResponse"} =>
               wHeader[r] = BumpTCIDSRNO(trace[r])

TraceInv == \A r \in Requests : Traced(r)

(* The events that follow the answer, which are made from w.Header(),      *)
(* match what the caller was sent, although the upstream's headers are     *)
(* copied over it twice.                                                   *)
LoggedAsAnswered ==
    \A r \in Requests :
        outcome[r] = "passed" =>
            \A i \in DOMAIN events[r] :
                events[r][i].rasTyp = "12" =>
                    /\ events[r][i].tcid = reply[r].tcid
                    /\ events[r][i].srno = reply[r].srno

(* The trail of an answered request is complete: on each way through Post  *)
(* it has an event for each log point of that way whose lookup said yes,   *)
(* in this order, and no other.  On the way with a response cut short no   *)
(* response is logged.                                                     *)
Entry(r, point, type) == IF point \in off[r] THEN <<>> ELSE <<type>>

InboundEntry(r) == Entry(r, "inbound.request", "11")
CallEntries(r) == InboundEntry(r) \o Entry(r, "outbound.request", "21")
ResponseEntries(r) == CallEntries(r) \o Entry(r, "outbound.response", "12")
AnswerEntry(r) == Entry(r, "inbound.response", "12")

Trail(r) ==
    CASE outcome[r] = "passed" -> ResponseEntries(r) \o AnswerEntry(r)
      [] outcome[r] = "cutShort" -> CallEntries(r)
      [] outcome[r] = "badGateway" -> CallEntries(r) \o AnswerEntry(r)
      [] OTHER -> InboundEntry(r) \o AnswerEntry(r)

RasTyps(r) == [i \in 1 .. Len(events[r]) |-> events[r][i].rasTyp]

TrailComplete ==
    \A r \in Requests : pc[r] = "answered" => RasTyps(r) = Trail(r)

(* What makes TrailComplete and LoggedAsAnswered inductive: the events and *)
(* the unlogged points so far, by how far the request has got.             *)
Stage(r, entries, points) == RasTyps(r) = entries /\ off[r] \subseteq points

BadGateway(r) == pc[r] = "refused" /\ outcome[r] = "badGateway"

Recorded(r) ==
    /\ pc[r] \in {"idle", "logInbound"} => Stage(r, <<>>, {})
    /\ \/ pc[r] \in {"parse", "findRequestData", "useApi", "apiGroup", "api",
                      "prepare", "logOutbound"}
       \/ pc[r] = "refused" /\ ~BadGateway(r)
       => Stage(r, InboundEntry(r), {"inbound.request"})
    /\ pc[r] \in {"call", "read", "logOutboundResponse"} \/ BadGateway(r)
       => Stage(r, CallEntries(r), {"inbound.request", "outbound.request"})
    /\ pc[r] = "logInboundResponse"
       => Stage(r, ResponseEntries(r), LogPoint \ {"inbound.response"})
    /\ pc[r] = "answered" => RasTyps(r) = Trail(r)
    /\ pc[r] = "refused" => outcome[r] \in Status
    /\ pc[r] \in {"logOutboundResponse", "logInboundResponse"}
       => outcome[r] = "passed"
    /\ outcome[r] = "none"
       => \A i \in DOMAIN events[r] : events[r][i].rasTyp # "12"

RecordInv == (\A r \in Requests : Recorded(r)) /\ LoggedAsAnswered

(* Every request that arrives comes to an end, if the database answers.    *)
EveryRequestEnds ==
    DatabaseAnswers =>
        \A r \in Requests :
            (pc[r] = "logInbound") ~> (pc[r] \in {"answered", "panicked"})

=============================================================================
