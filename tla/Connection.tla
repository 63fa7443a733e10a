----------------------------- MODULE Connection -----------------------------
(***************************************************************************)
(* One client connection of src/src/proxy.rs: handle_connection runs       *)
(* process_request until a request fails, asks to close or the cap on      *)
(* requests is reached; process_request vets the request stage by stage,   *)
(* answers locally or reads the body and exchanges it with the upstream,   *)
(* and writes the response.                                                *)
(*                                                                         *)
(* Bytes after a request head are counted in units: unread of them belong  *)
(* to the request's body, what follows belongs to the next request.  The   *)
(* proxy has taken buffer of them out of the socket together with the head *)
(* (remainder, BufferedInput), and the client may send more at any time.   *)
(* Agreement::run contributes its three visible outcomes; that it never    *)
(* fails for want of implementations is NoInternal of module Agreement.    *)
(***************************************************************************)
EXTENDS Naturals, Sequences

CONSTANTS
    MaxUnits,       \* bound on the units of a body, of a buffer, of the socket
    MaxCompleted    \* requests after the first one a connection may carry (999)

ASSUME ConnectionAssumption == MaxUnits \in Nat /\ MaxCompleted \in Nat

VARIABLES
    pc,         \* the stage process_request is about to run
    facts,      \* what the request (and the upstream's response) turns out to be
    unread,     \* units of the request's body not yet taken by the proxy
    buffer,     \* units taken with the head and not yet consumed
    socket,     \* units the client has sent and the proxy has not taken
    upstream,   \* how much of the request was written upstream: none, part, all
    client,     \* what was written to the client for this request
    status,     \* the status of the error response, 0 when there is none
    announced,  \* the Connection header of the response
    raised,     \* history: the first fault of this request, and its stage
    result,     \* what process_request returned: keep, close or a Fault
    vetted,     \* history: the stages this request has passed
    completed,  \* the local variable completed
    metrics,    \* the request counters of Metrics
    delivered   \* history: final responses written completely

io == <<unread, buffer, socket>>
wire == <<upstream, client, status, announced>>
tally == <<completed, metrics, delivered>>
vars == <<pc, facts, io, wire, raised, result, vetted, tally>>

Faults ==
    {"Protocol", "Disagreement", "Timeout", "UpstreamTimeout", "TooLarge", "ExpectationFailed",
     "Busy", "Forbidden", "ClientClosed", "ClientIo", "Upstream", "Internal"}

Facts ==
    [framing : {"None", "ContentLength", "Chunked"},
     expect : BOOLEAN,
     keepAlive : BOOLEAN,
     action : {"Redirect", "Respond", "Static", "Proxy"},
     response : {"None", "Length", "Chunked", "Close"}]

NoFault == [stage |-> "none", fault |-> "none"]

-----------------------------------------------------------------------------
\* Agreement::run as its caller sees it: Err of the agreed result or of the run.
RunFaults == {"Disagreement", "Protocol"}

\* Faulty variant: the Upgrade decision is never asked for.
AfterWithoutUpgrade(s) ==
    CASE s = "request_line" -> "header_section" [] s = "header_section" -> "framing"
      [] s = "framing" -> "expect" [] s = "expect" -> "target"
      [] s = "target" -> "authority" [] s = "authority" -> "hop_by_hop"
      [] s = "hop_by_hop" -> "route" [] s = "route" -> "limits"
      [] s = "limits" -> "forwarding" [] s = "forwarding" -> "action"
      [] s = "request_headers" -> "reserve" [] s = "reserve" -> "body" [] OTHER -> "connect"

\* The checks of process_request in source order.  authority includes the
\* comparison with the TLS server name, limits the deny list; reserve is the
\* body's first claim on the memory budget.
After(s) ==
    CASE s = "request_line" -> "header_section"
      [] s = "header_section" -> "framing"
      [] s = "framing" -> "expect"
      [] s = "expect" -> "target"
      [] s = "target" -> "authority"
      [] s = "authority" -> "hop_by_hop"
      [] s = "hop_by_hop" -> "upgrade"
      [] s = "upgrade" -> "route"
      [] s = "route" -> "limits"
      [] s = "limits" -> "forwarding"
      [] s = "forwarding" -> "action"
      [] s = "request_headers" -> "reserve"
      [] s = "reserve" -> "body"
      [] s = "canonical" -> "connect"

RequestChecks ==
    {"request_line", "header_section", "framing", "expect", "target", "authority", "hop_by_hop",
     "upgrade", "route", "limits", "forwarding", "request_headers", "reserve", "canonical"}

\* The faults each check can return.
CheckFaults(s) ==
    CASE s \in {"request_line", "route", "canonical"} -> RunFaults \cup {"Internal"}
      [] s = "expect" -> {"ExpectationFailed"}
      [] s = "authority" -> RunFaults \cup {"Forbidden"}
      [] s = "limits" -> {"Forbidden"} \cup
                         IF facts.framing = "ContentLength" THEN {"TooLarge"} ELSE {}
      [] s = "request_headers" -> {"TooLarge", "Internal"}
      [] s = "reserve" -> {"Busy"}
      [] OTHER -> RunFaults

\* exchange_upstream after the request was written, up to the response's body.
ExchangeAfter(s) ==
    CASE s = "connect" -> "send"
      [] s = "upstream_head" -> "status_line"
      [] s = "status_line" -> "response_headers"
      [] s = "response_headers" -> "response_hop_by_hop"
      [] s = "response_hop_by_hop" -> "render"
      [] s = "render" -> "response_framing"
      [] s = "response_framing" -> "response_body"
      [] s = "response_body" -> "gzip"
      [] s = "gzip" -> "reply"

ExchangeChecks ==
    {"connect", "upstream_head", "status_line", "response_headers", "response_hop_by_hop",
     "render", "response_framing", "response_body", "gzip"}

\* read_exact_vec, read_chunked and read_to_eof_bounded on the response, with
\* the reservation that precedes them.
ResponseBodyFaults ==
    CASE facts.response = "None" -> {"Busy"}
      [] facts.response = "Length" -> {"Busy", "Upstream", "Timeout", "ClientIo"}
      [] facts.response = "Chunked" ->
            {"Busy", "Timeout", "ClientIo", "TooLarge", "Internal"} \cup RunFaults
      [] facts.response = "Close" -> {"Busy", "Upstream", "Timeout", "Internal"}

ExchangeFaults(s) ==
    CASE s \in {"connect", "status_line", "response_framing"} -> {"Upstream"}
      [] s = "upstream_head" -> {"ClientClosed", "ClientIo", "Timeout", "TooLarge"}
      [] s = "response_headers" -> RunFaults \cup {"Upstream"}
      [] s = "response_hop_by_hop" -> RunFaults
      [] s = "render" -> {"TooLarge", "Internal"}
      [] s = "response_body" -> ResponseBodyFaults
      [] s = "gzip" -> {"Internal"}

MapUpstreamFault(f) ==
    CASE f \in {"Timeout", "UpstreamTimeout"} -> "UpstreamTimeout"
      [] f = "Busy" -> "Busy"
      [] OTHER -> "Upstream"

\* Where exchange_upstream applies map_upstream_fault.
ExchangeFault(s, f) ==
    IF s = "upstream_head" \/ (s = "response_body" /\ facts.response \in {"Length", "Chunked"})
    THEN MapUpstreamFault(f)
    ELSE f

\* render_template, reserve, serve_static and gzip_body_accounted.
LocalFaults ==
    {"TooLarge", "Internal"} \cup IF facts.action = "Redirect" THEN {} ELSE {"Busy"}

\* Fault::status.
Status(f) ==
    CASE f = "Timeout" -> {408}
      [] f = "UpstreamTimeout" -> {504}
      [] f = "TooLarge" -> {413}
      [] f = "ExpectationFailed" -> {417}
      [] f = "Busy" -> {503}
      [] f = "Forbidden" -> {403}
      [] f = "Upstream" -> {502}
      [] f = "Internal" -> {500}
      [] f = "Protocol" -> {400, 404, 413, 501}
      [] OTHER -> {400}

-----------------------------------------------------------------------------
Init ==
    /\ pc = "head"
    /\ facts \in { f \in Facts : ~f.expect /\ f.framing = "None" /\ f.action = "Proxy"
                                 /\ ~f.keepAlive /\ f.response = "None" }
    /\ unread = 0 /\ buffer = 0 /\ socket = 0
    /\ upstream = "none"
    /\ client = <<>>
    /\ status = 0
    /\ announced = "none"
    /\ raised = NoFault
    /\ result = "none"
    /\ vetted = {}
    /\ completed = 0
    /\ metrics = [accepted |-> 0, rejected |-> 0, disagreements |-> 0,
                  upstream_failures |-> 0, timeouts |-> 0]
    /\ delivered = 0

\* ? at stage s: process_request returns f, for the original fault orig.
Fails(s, orig, f) ==
    /\ raised' = [stage |-> s, fault |-> orig]
    /\ result' = f
    /\ pc' = "returned"
    /\ UNCHANGED vetted

Passes(s, next) ==
    /\ vetted' = vetted \cup {s}
    /\ pc' = next
    /\ UNCHANGED <<raised, result>>

Done(s, outcome) ==
    /\ vetted' = vetted \cup {s}
    /\ result' = outcome
    /\ pc' = "returned"
    /\ UNCHANGED raised

\* The client sends something more.
ClientSends ==
    /\ pc # "closed"
    /\ socket < MaxUnits
    /\ socket' = socket + 1
    /\ UNCHANGED <<pc, facts, unread, buffer, wire, raised, result, vetted, tally>>

\* read_head returns one head and what arrived with it; units still in the
\* socket are as good as sent later.
ReadHead ==
    /\ pc = "head"
    /\ facts' \in Facts
    /\ unread' \in IF facts'.framing = "None" THEN {0}
                   ELSE IF facts'.framing = "Chunked" THEN 1 .. MaxUnits
                   ELSE 0 .. MaxUnits
    /\ buffer' \in 0 .. MaxUnits
    /\ socket' = 0
    /\ Passes("head", "request_line")
    /\ UNCHANGED <<wire, tally>>

HeadFails ==
    /\ pc = "head"
    /\ \E f \in {"ClientClosed", "ClientIo", "Timeout", "TooLarge"} : Fails("head", f, f)
    /\ UNCHANGED <<facts, io, wire, tally>>

CheckPasses ==
    /\ pc \in RequestChecks
    /\ Passes(pc, After(pc))
    /\ UNCHANGED <<facts, io, wire, tally>>

CheckFails ==
    /\ pc \in RequestChecks
    /\ \E f \in CheckFaults(pc) : Fails(pc, f, f)
    /\ UNCHANGED <<facts, io, wire, tally>>

\* The match on route.action.
ChooseAction ==
    /\ pc = "action"
    /\ Passes("action", IF facts.action = "Proxy" THEN "continue" ELSE "local")
    /\ UNCHANGED <<facts, io, wire, tally>>

\* Faulty variant: a local action keeps the connection as the client asks.
LocalKeepsUnread == facts.keepAlive

\* Redirect, Respond and Static never read the body, so the connection stays
\* open only when there is none and nothing came with the head.
LocalKeeps == facts.keepAlive /\ facts.framing = "None" /\ buffer = 0

Connection(keep) == IF keep THEN "keep-alive" ELSE "close"

\* Faulty variant: answers close, then goes on as the client asked.
LocalRespondKeeps ==
    /\ pc = "local"
    /\ client' = Append(client, "final")
    /\ announced' = Connection(LocalKeeps)
    /\ delivered' = delivered + 1
    /\ Done("local", IF facts.keepAlive /\ buffer = 0 /\ unread = 0 THEN "keep" ELSE "close")
    /\ UNCHANGED <<facts, io, upstream, status, completed, metrics>>

LocalRespond ==
    /\ pc = "local"
    /\ client' = Append(client, "final")
    /\ announced' = Connection(LocalKeeps)
    /\ delivered' = delivered + 1
    /\ Done("local", IF LocalKeeps THEN "keep" ELSE "close")
    /\ UNCHANGED <<facts, io, upstream, status, completed, metrics>>

LocalFails ==
    /\ pc = "local"
    /\ \/ /\ \E f \in LocalFaults : Fails("local", f, f)
          /\ UNCHANGED client
       \/ /\ Fails("local", "ClientIo", "ClientIo")
          /\ client' \in {client, Append(client, "partial")}
    /\ UNCHANGED <<facts, io, upstream, status, announced, tally>>

\* The interim response is due only when there is a body to ask for.
Continue ==
    /\ pc = "continue"
    /\ \/ /\ facts.expect /\ facts.framing # "None"
          /\ \/ client' = Append(client, "100") /\ Passes("continue", "request_headers")
             \/ UNCHANGED client /\ Fails("continue", "ClientIo", "ClientIo")
       \/ /\ ~(facts.expect /\ facts.framing # "None")
          /\ Passes("continue", "request_headers")
          /\ UNCHANGED client
    /\ UNCHANGED <<facts, io, upstream, status, announced, tally>>

\* read_request_body takes what is buffered before it reads the socket.
ReadBody ==
    /\ pc = "body"
    /\ unread <= buffer + socket
    /\ unread' = 0
    /\ buffer' = IF unread < buffer THEN buffer - unread ELSE 0
    /\ socket' = IF unread < buffer THEN socket ELSE socket - (unread - buffer)
    /\ Passes("body", "extra")
    /\ UNCHANGED <<facts, wire, tally>>

\* Faulty variant: a read that fails or times out is tried again.
BodyFailsRetried ==
    /\ pc = "body"
    /\ facts.framing = "Chunked" /\ buffer + socket > 0
    /\ \E f \in {"Busy", "TooLarge", "Internal"} \cup RunFaults : Fails("body", f, f)
    /\ UNCHANGED <<facts, io, wire, tally>>

\* The body ends early or late, or a chunk that has arrived is refused.
BodyFails ==
    /\ pc = "body"
    /\ \/ /\ unread > buffer + socket
          /\ \E f \in {"Timeout", "ClientIo"} : Fails("body", f, f)
       \/ /\ facts.framing = "Chunked" /\ buffer + socket > 0
          /\ \E f \in {"Busy", "TooLarge", "Internal"} \cup RunFaults : Fails("body", f, f)
    /\ UNCHANGED <<facts, io, wire, tally>>

\* has_immediate_extra sees everything buffered, but not a TLS record that is
\* still encrypted, nor anything when the peek is interrupted.
NoExtra ==
    /\ pc = "extra"
    /\ buffer = 0
    /\ Passes("extra", "canonical")
    /\ UNCHANGED <<facts, io, wire, tally>>

ExtraFails ==
    /\ pc = "extra"
    /\ \/ (buffer # 0 \/ socket # 0) /\ Fails("extra", "Protocol", "Protocol")
       \/ Fails("extra", "ClientIo", "ClientIo")
    /\ UNCHANGED <<facts, io, wire, tally>>

ExchangePasses ==
    /\ pc \in ExchangeChecks
    /\ Passes(pc, ExchangeAfter(pc))
    /\ UNCHANGED <<facts, io, wire, tally>>

ExchangeFails ==
    /\ pc \in ExchangeChecks
    /\ \E f \in ExchangeFaults(pc) : Fails(pc, f, ExchangeFault(pc, f))
    /\ UNCHANGED <<facts, io, wire, tally>>

\* The canonical head and the body go to the upstream.
Send ==
    /\ pc = "send"
    /\ \/ upstream' = "all" /\ Passes("send", "upstream_head")
       \/ upstream' \in {"none", "part"} /\ Fails("send", "Upstream", "Upstream")
    /\ UNCHANGED <<facts, io, client, status, announced, tally>>

Reply ==
    /\ pc = "reply"
    /\ client' = Append(client, "final")
    /\ announced' = Connection(facts.keepAlive)
    /\ delivered' = delivered + 1
    /\ Done("reply", IF facts.keepAlive THEN "keep" ELSE "close")
    /\ UNCHANGED <<facts, io, upstream, status, completed, metrics>>

\* Faulty variant: the result of the write is ignored.
ReplyFailsIgnored ==
    /\ pc = "reply"
    /\ client' \in {client, Append(client, "partial")}
    /\ Done("reply", IF facts.keepAlive THEN "keep" ELSE "close")
    /\ UNCHANGED <<facts, io, upstream, status, announced, tally>>

ReplyFails ==
    /\ pc = "reply"
    /\ client' \in {client, Append(client, "partial")}
    /\ Fails("reply", "ClientIo", "ClientIo")
    /\ UNCHANGED <<facts, io, upstream, status, announced, tally>>

-----------------------------------------------------------------------------
\* handle_connection: what it takes for the end of an idle connection.
IdleClose ==
    \/ result = "ClientClosed"
    \/ completed # 0 /\ result \in {"ClientIo", "Timeout"}

One(b) == IF b THEN 1 ELSE 0

\* record_request_result.
Recorded ==
    [accepted |-> metrics.accepted + One(result \in {"keep", "close"}),
     rejected |-> metrics.rejected + One(result \in Faults),
     disagreements |-> metrics.disagreements + One(result = "Disagreement"),
     upstream_failures |-> metrics.upstream_failures + One(result = "Upstream"),
     timeouts |-> metrics.timeouts + One(result \in {"Timeout", "UpstreamTimeout"})]

\* Ok(true) below the cap: process_request starts again with nothing buffered;
\* the buffer it had goes out of scope with it.
NextRequest ==
    /\ pc = "returned"
    /\ result = "keep" /\ completed < MaxCompleted
    /\ metrics' = Recorded
    /\ completed' = completed + 1
    /\ pc' = "head"
    /\ upstream' = "none" /\ client' = <<>> /\ announced' = "none"
    /\ raised' = NoFault /\ result' = "none" /\ vetted' = {}
    /\ UNCHANGED <<facts, io, status, delivered>>

CloseServed ==
    /\ pc = "returned"
    /\ result = "close" \/ (result = "keep" /\ completed >= MaxCompleted)
    /\ metrics' = Recorded
    /\ pc' = "closed"
    /\ UNCHANGED <<facts, io, wire, raised, result, vetted, completed, delivered>>

CloseIdle ==
    /\ pc = "returned"
    /\ IdleClose
    /\ pc' = "closed"
    /\ UNCHANGED <<facts, io, wire, raised, result, vetted, tally>>

\* Every other fault: counted, answered if the socket still takes the answer.
CloseRejected ==
    /\ pc = "returned"
    /\ result \in Faults /\ ~IdleClose
    /\ metrics' = Recorded
    /\ \/ client' = Append(client, "error") /\ status' \in Status(result)
       \/ UNCHANGED <<client, status>>
    /\ pc' = "closed"
    /\ UNCHANGED <<facts, io, upstream, announced, raised, result, vetted, completed, delivered>>

Worker ==
    \/ ReadHead \/ HeadFails \/ CheckPasses \/ CheckFails
    \/ ChooseAction \/ LocalRespond \/ LocalFails
    \/ Continue \/ ReadBody \/ BodyFails \/ NoExtra \/ ExtraFails
    \/ ExchangePasses \/ ExchangeFails \/ Send \/ Reply \/ ReplyFails
    \/ NextRequest \/ CloseServed \/ CloseIdle \/ CloseRejected

Next == ClientSends \/ Worker

\* Every blocking call of the worker has a deadline (set_read_timeout,
\* set_write_timeout, connect_timeout), so the worker always goes on.
Fairness == WF_vars(Worker)

Spec == Init /\ [][Next]_vars /\ Fairness

-----------------------------------------------------------------------------
Stages ==
    {"head", "action", "local", "continue", "body", "extra", "send", "reply",
     "returned", "closed"} \cup RequestChecks \cup ExchangeChecks

TypeOK ==
    /\ pc \in Stages
    /\ facts \in Facts
    /\ unread \in 0 .. MaxUnits /\ buffer \in 0 .. MaxUnits /\ socket \in 0 .. MaxUnits
    /\ upstream \in {"none", "part", "all"}
    /\ client \in Seq({"100", "final", "partial", "error"})
    /\ status \in {0, 400, 403, 404, 408, 413, 417, 500, 501, 502, 503, 504}
    /\ announced \in {"none", "keep-alive", "close"}
    /\ raised.stage \in Stages \cup {"none"} /\ raised.fault \in Faults \cup {"none"}
    /\ result \in Faults \cup {"none", "keep", "close"}
    /\ vetted \subseteq Stages
    /\ completed \in 0 .. MaxCompleted
    /\ \A m \in DOMAIN metrics : metrics[m] \in 0 .. MaxCompleted + 1
    /\ delivered \in 0 .. MaxCompleted + 1

\* Not one byte reaches the upstream before every check of the request has
\* passed, its whole body has been read and nothing was buffered behind it.
NothingUnvettedUpstream ==
    upstream # "none" =>
        /\ RequestChecks \cup {"body", "extra"} \subseteq vetted
        /\ unread = 0 /\ buffer = 0

\* A kept-alive connection starts its next request at a message boundary: no
\* unread body of the previous request is taken for a request head, and no
\* byte that came with the previous head is thrown away.
NextRequestAligned == pc = "head" => unread = 0 /\ buffer = 0

\* The accepted counter counts the responses delivered completely, no more.
AcceptedMeansDelivered == pc \in {"head", "closed"} => metrics.accepted = delivered

\* A request that announced Connection: close is the connection's last one.
CloseIsKept == [][announced = "close" => pc' # "head"]_vars

\* Requests are bounded and every stage has a deadline: connections end.
ConnectionEnds == <>(pc = "closed")

-----------------------------------------------------------------------------
\* docs/threat-model.md says any disagreement is classified as such and never
\* reaches the upstream.
DisagreementContained ==
    raised.fault = "Disagreement" => upstream = "none" /\ result = "Disagreement"

\* docs/operator-guide.md says a timeout is closed and counted; here, one that
\* strikes after the request's head was read.
TimeoutCounted ==
    pc = "closed" /\ raised.fault = "Timeout" /\ raised.stage # "head" => metrics.timeouts # 0
=============================================================================
