----------------------------- MODULE CodeGateway -----------------------------
(***************************************************************************)
(* One request to "/": the body limit, the routes declared in code, those  *)
(* of the YAML file behind them, and ReverseProxy.Proxy, which both call.  *)
(*                                                                         *)
(* The handlers share nothing between requests, so one request is modelled *)
(* with all that runs for it: the handler, the goroutine that a route with *)
(* WithAsyncAck starts, the client, who may leave or stop sending, and the *)
(* upstream.  When the handler returns, net/http cancels the context of    *)
(* the request and closes its body, whoever still uses them.               *)
(***************************************************************************)
EXTENDS Naturals, Sequences

CONSTANTS
    Routes,         \* the routes a request may match
    UpstreamFails   \* whether calls fail for a reason of the upstream's

(* A route, by what its handling depends on.  In the table "none" it       *)
(* stands for a path that no table matches.                                *)
RouteShape == [table : {"code", "yaml", "none"}, validates : BOOLEAN,
               acks : BOOLEAN, rewrites : BOOLEAN,
               name : {"save-user", "find-user-info", "another"}]

(* Only a route of the YAML file has one of the names that Proxy looks for. *)
ASSUME RoutesAssumption ==
    Routes \subseteq {r \in RouteShape : r.name # "another" => r.table = "yaml"}
ASSUME UpstreamAssumption == UpstreamFails \in BOOLEAN

(* A request: its body, whether that is longer than the limit, whether its *)
(* length is declared, and whether it has a session header.  A valid body  *)
(* passes the validation and has a session's key.  The query string is     *)
(* left out, as Proxy leaves it out of the upstream's URL.                 *)
Request == [route : Routes, body : {"nothing", "valid", "invalid"},
            long : BOOLEAN, declared : BOOLEAN, session : BOOLEAN]

(* What may be read or sent of it.  A part is "keyed" if it is a document  *)
(* of its own with a session's key: the body was cut off in white space    *)
(* at its end, or in a second document behind the first.                   *)
Data == {"nothing", "part", "keyed", "valid", "invalid", "session"}
Status == {"202", "400", "404", "413", "500", "502", "upstream"}
Threads == {"handler", "background"}
Place == {"idle", "limit", "match", "check", "build", "ack", "read", "send",
          "wait", "copy", "return", "done"}

(* What the client has of an upstream's answer: the session header, a      *)
(* declared length, and the body; it takes a broken one for what it is.    *)
Reply == [session : BOOLEAN, declared : BOOLEAN,
          body : {"nothing", "whole", "part", "broken"}]

VARIABLES
    req,        \* the request
    pc,         \* control points of the two goroutines
    raw,        \* the body as read for the validation, or "unread"
    out,        \* the body of the outbound request
    sessionID,  \* Proxy has found a session's key in the body
    received,   \* the bodies that reached the upstream
    sized,      \* the upstream has declared the length of its answer
    answers,    \* the headers written to the client's ResponseWriter
    reply,      \* what the client has of the upstream's answer
    left        \* the client has closed its connection

call == <<raw, out, sessionID, received, sized, reply>>
vars == <<req, pc, call, answers, left>>

Init ==
    /\ req \in {r \in Request : r.body = "nothing" => ~r.long}
    /\ pc = [t \in Threads |-> IF t = "handler" THEN "limit" ELSE "idle"]
    /\ raw = "unread"
    /\ out = "nothing"
    /\ sessionID = FALSE
    /\ received = <<>>
    /\ sized = FALSE
    /\ answers = <<>>
    /\ reply = [session |-> FALSE, declared |-> FALSE, body |-> "nothing"]
    /\ left = FALSE

Returned == pc["handler"] = "done"
Cancelled == Returned \/ left

Goto(t, place) == pc' = [pc EXCEPT ![t] = place]

(* The handler returns after its last step, the background is then over.   *)
End(t) == Goto(t, IF t = "handler" THEN "return" ELSE "done")

(* Mutated form: the background is given the client's writer. *)
WriteToClient(t, status) == answers' = Append(answers, status)

(* The background writes to ioDiscardResponseWriter. *)
Write(t, status) ==
    answers' = IF t = "handler" THEN Append(answers, status) ELSE answers

Refuse(status) ==
    /\ Write("handler", status)
    /\ End("handler")
    /\ UNCHANGED <<req, call, left>>

-----------------------------------------------------------------------------
(* The middleware and the routing *)

(* BodyLimit: a declared length over the limit is answered at once; else   *)
(* the body is wrapped in a MaxBytesReader.                                *)
Limit ==
    /\ pc["handler"] = "limit"
    /\ IF req.declared /\ req.long
       THEN Refuse("413")
       ELSE /\ Goto("handler", "match")
            /\ UNCHANGED <<req, call, answers, left>>

(* MatchRoute of the code's table, then of the YAML table. *)
Match ==
    /\ pc["handler"] = "match"
    /\ IF req.route.table = "none"
       THEN Refuse("404")
       ELSE /\ Goto("handler",
                    IF req.route.table = "code" /\ req.route.validates
                    THEN "check" ELSE "build")
            /\ UNCHANGED <<req, call, answers, left>>

(* What reading r.Body to its end gives.  It fails after a part, or at     *)
(* once, when the limit is passed, the client stops sending until          *)
(* ReadTimeout or leaves, or the handler has returned.                     *)
Reads ==
    LET whole  == [data |-> req.body, err |-> FALSE]
        broken == [data : {"nothing", "part", "keyed"}, err : {TRUE}]
    IN  IF req.body = "nothing" THEN {whole}
        ELSE IF req.long \/ Returned THEN broken
        ELSE broken \cup {whole}

(* Mutated form: the error of ReadAll is dropped, as Proxy drops it, and   *)
(* the validator sees what has been read. *)
CheckWhatCame ==
    /\ pc["handler"] = "check"
    /\ \E read \in Reads :
        IF read.data = "invalid"
        THEN Refuse("400")
        ELSE /\ raw' = read.data
             /\ Goto("handler", "build")
             /\ UNCHANGED <<req, out, sessionID, received, sized, reply,
                            answers, left>>

(* Mutated form: no return after the 400. *)
CheckGoesOn ==
    /\ pc["handler"] = "check"
    /\ \E read \in Reads :
        /\ raw' = read.data
        /\ IF read.err \/ read.data = "invalid"
           THEN Write("handler", "400")
           ELSE UNCHANGED answers
        /\ Goto("handler", "build")
        /\ UNCHANGED <<req, out, sessionID, received, sized, reply, left>>

(* The validation reads the whole body first; an empty one is not checked. *)
Check ==
    /\ pc["handler"] = "check"
    /\ \E read \in Reads :
        IF read.err \/ read.data = "invalid"
        THEN Refuse("400")
        ELSE /\ raw' = read.data
             /\ Goto("handler", "build")
             /\ UNCHANGED <<req, out, sessionID, received, sized, reply,
                            answers, left>>

Build ==
    /\ pc["handler"] = "build"
    /\ Goto("handler", IF req.route.table = "code" /\ req.route.acks
                       THEN "ack" ELSE "read")
    /\ UNCHANGED <<req, call, answers, left>>

(* Without a path_rewrite the client's path becomes part of the URL, which *)
(* NewRequestWithContext may then refuse to parse.                         *)
BuildFails ==
    /\ pc["handler"] = "build"
    /\ ~req.route.rewrites
    /\ Refuse("500")

(* WithAsyncAck: 202, and Proxy in a goroutine. *)
Ack ==
    /\ pc["handler"] = "ack"
    /\ pc' = [handler |-> "return", background |-> "read"]
    /\ Write("handler", "202")
    /\ UNCHANGED <<req, call, left>>

Return ==
    /\ pc["handler"] = "return"
    /\ Goto("handler", "done")
    /\ UNCHANGED <<req, call, answers, left>>

-----------------------------------------------------------------------------
(* ReverseProxy.Proxy, run by thread t.  Its context is the request's, or, *)
(* in the background, a child of that.                                     *)

(* Mutated form: the body is taken from the validation on every route. *)
ReadBodyOfCheck(t) ==
    /\ pc[t] = "read"
    /\ out' = raw
    /\ Goto(t, "send")
    /\ UNCHANGED <<req, raw, sessionID, received, sized, reply, answers, left>>

(* Mutated form: save-user's session is taken from the request's header. *)
SessionOfHeader(data) == req.route.name = "save-user" /\ req.session

(* save-user finds the session's key in what has been read, if that can be *)
(* unmarshalled, be it the whole body or not.                              *)
Keyed == {"valid", "keyed"}

SessionOf(data) == req.route.name = "save-user" /\ data \in Keyed

(* The body: what the validation has read, or ReadAll of r.Body with its   *)
(* error dropped.  The route find-user-info then makes a body of its own   *)
(* and requires the session header.                                        *)
ReadBody(t) ==
    /\ pc[t] = "read"
    /\ \E read \in IF raw = "unread" THEN Reads
                   ELSE {[data |-> raw, err |-> FALSE]} :
        IF req.route.name = "find-user-info" /\ ~req.session
        THEN /\ Write(t, "502")
             /\ End(t)
             /\ UNCHANGED <<out, sessionID>>
        ELSE /\ out' = IF req.route.name = "find-user-info" THEN "session"
                       ELSE read.data
             /\ sessionID' = SessionOf(read.data)
             /\ Goto(t, "send")
             /\ UNCHANGED answers
    /\ UNCHANGED <<req, raw, received, sized, reply, left>>

(* Client.Do sends the request unless its context is over; the length it   *)
(* declares is that of the body it has, be that a part.                    *)
Send(t) ==
    /\ pc[t] = "send"
    /\ ~Cancelled
    /\ received' = Append(received, out)
    /\ Goto(t, "wait")
    /\ UNCHANGED <<req, raw, out, sessionID, sized, reply, answers, left>>

(* Mutated form: a client without a Timeout. *)
CallNeverTimesOut(t) ==
    /\ pc[t] = "send" \/ (pc[t] = "wait" /\ Cancelled)
    /\ UpstreamFails \/ Cancelled
    /\ Write(t, "502")
    /\ End(t)
    /\ UNCHANGED <<req, call, left>>

(* Do fails, before or after the upstream has got the request: the context *)
(* is over, the upstream cannot be reached, or the Timeout passes.         *)
CallFails(t) ==
    /\ pc[t] \in {"send", "wait"}
    /\ UpstreamFails \/ Cancelled
    /\ Write(t, "502")
    /\ End(t)
    /\ UNCHANGED <<req, call, left>>

(* Mutated form: the headers are copied behind WriteHeader. *)
RespondThenCopyHeaders(t) ==
    /\ pc[t] = "wait"
    /\ ~Cancelled
    /\ sized' \in BOOLEAN
    /\ reply' = reply
    /\ Write(t, "upstream")
    /\ Goto(t, "copy")
    /\ UNCHANGED <<req, raw, out, sessionID, received, left>>

(* The upstream answers; its headers are copied to the writer, with the    *)
(* session that has been found, and then its status.                       *)
Respond(t) ==
    /\ pc[t] = "wait"
    /\ ~Cancelled
    /\ sized' \in BOOLEAN
    /\ reply' = IF t = "handler"
                THEN [reply EXCEPT !.session = sessionID, !.declared = sized']
                ELSE reply
    /\ Write(t, "upstream")
    /\ Goto(t, "copy")
    /\ UNCHANGED <<req, raw, out, sessionID, received, left>>

(* io.Copy with its error dropped: the upstream's body breaks off if the   *)
(* upstream does, at the client's Timeout, or when the context is over.    *)
(* net/http then ends the answer: it closes the connection if less than    *)
(* the declared length was written, and else makes it a complete one.      *)
CopyBody(t) ==
    /\ pc[t] = "copy"
    /\ \/ /\ ~Cancelled
          /\ reply' = IF t = "handler" THEN [reply EXCEPT !.body = "whole"]
                      ELSE reply
       \/ /\ UpstreamFails \/ Cancelled
          /\ reply' = IF t = "handler" /\ ~left
                      THEN [reply EXCEPT !.body = IF reply.declared
                                                  THEN "broken" ELSE "part"]
                      ELSE reply
    /\ End(t)
    /\ UNCHANGED <<req, raw, out, sessionID, received, sized, answers, left>>

-----------------------------------------------------------------------------
ClientLeaves ==
    /\ ~left
    /\ left' = TRUE
    /\ UNCHANGED <<req, pc, call, answers>>

Handle == Limit \/ Match \/ Check \/ Build \/ BuildFails \/ Ack \/ Return
Proxy(t) == ReadBody(t) \/ Send(t) \/ CallFails(t) \/ CopyBody(t)

Next ==
    \/ Handle
    \/ \E t \in Threads : Proxy(t) \/ Respond(t)
    \/ ClientLeaves

Spec == Init /\ [][Next]_vars

(* Go runs both goroutines; reading ends by ReadTimeout at the latest and  *)
(* a call by the client's Timeout.  The upstream need never answer.        *)
FairSpec ==
    /\ Spec
    /\ WF_vars(Handle)
    /\ \A t \in Threads : WF_vars(Proxy(t))

-----------------------------------------------------------------------------
(* Properties *)

(* Every variable has its type; what is forwarded is a body, never the     *)
(* mark of a validation that has not taken place.                          *)
TypeOK ==
    /\ req \in Request
    /\ pc \in [Threads -> Place]
    /\ raw \in Data \cup {"unread"}
    /\ out \in Data
    /\ sessionID \in BOOLEAN
    /\ received \in Seq(Data)
    /\ sized \in BOOLEAN
    /\ answers \in Seq(Status)
    /\ reply \in Reply
    /\ left \in BOOLEAN

(* A client is answered once, by the handler: nothing is written after the *)
(* handler has returned, whatever the background still does.               *)
AnsweredOnce ==
    /\ pc["handler"] \in {"copy", "return", "done"} => Len(answers) = 1
    /\ pc["handler"] \notin {"copy", "return", "done"} => answers = <<>>

(* A route with a validator forwards a body only if the client sent all of *)
(* it and it is valid, or there is none: never a part that the limit, a    *)
(* timeout or a broken connection has cut off, synchronously or not.       *)
ForwardedIsChecked ==
    req.route.table = "code" /\ req.route.validates =>
        \A i \in 1 .. Len(received) :
            /\ received[i] = req.body
            /\ received[i] # "invalid"

(* The status tells the client what became of its request: one refused as  *)
(* too long, invalid, unknown or unbuildable has not reached the upstream, *)
(* and the upstream's status comes from the one call that was made.        *)
StatusIsTrue ==
    \A i \in 1 .. Len(answers) :
        /\ answers[i] \in {"400", "404", "413", "500"} => received = <<>>
        /\ answers[i] = "upstream" => Len(received) = 1

(* Proxy drops the error of io.Copy, and yet a client whose upstream has   *)
(* declared the length of its answer never takes a part of it for the      *)
(* whole: the declaration reaches the client before the body breaks off.   *)
DeclaredIsWhole == reply.body = "part" => ~sized

(* The session that Proxy finds before the call is told after it, and both *)
(* go by one reading of the body: a client of save-user is told a session  *)
(* exactly when the upstream has got that session's key and has answered,  *)
(* never with a call that failed, whatever cut off the body.               *)
SessionIsForwarded ==
    reply.session <=>
        /\ req.route.name = "save-user"
        /\ answers = <<"upstream">>
        /\ \E data \in Keyed : received = <<data>>

(* Synchronously or in the background, whoever leaves or breaks off: the   *)
(* gateway implements the exchange.  The upstream is called at most once,  *)
(* by a validated route with the client's whole valid body only; a request *)
(* that was refused is never forwarded after all, one that was called for  *)
(* is never told a refusal, no answer is followed by another, and a part   *)
(* is never taken for the whole of a declared length.                      *)
Between == INSTANCE Exchange WITH
    Bodies <- Data,
    Refusals <- {"400", "404", "413", "500"},
    acceptable <- IF req.route.table = "code" /\ req.route.validates
                  THEN {req.body} \ {"invalid"} ELSE Data,
    body <- reply.body

ImplementsExchange == Between!Spec

(* Every request is answered and its handler returns, and the background   *)
(* work of an acknowledged one ends too: neither a silent client nor a     *)
(* silent upstream keeps a goroutine.                                      *)
AllEnds == <>[](Returned /\ pc["background"] \in {"idle", "done"})

(* "Proxy in the background after returning 202": with an upstream that    *)
(* does not fail, an acknowledged request gets there.  The code does not   *)
(* keep this.                                                              *)
AckedIsProxied == pc["background"] = "done" => received # <<>>

=============================================================================
