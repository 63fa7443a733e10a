-------------------------- MODULE ConnectionProofs --------------------------
(***************************************************************************)
(* For bodies and buffers of any size and connections of any length: what  *)
(* process_request sends upstream has passed every check, a reused         *)
(* connection is at a message boundary, the accepted counter is exact, and *)
(* a connection announced as closing carries no further request.           *)
(***************************************************************************)
EXTENDS Connection, TLAPS

Returned == {"returned", "closed"}

\* The stages from the canonical head on, and those after the request was sent.
Late == {"canonical", "send", "reply"} \cup ExchangeChecks
Sent == Late \ {"canonical", "connect", "send"}

\* Stage t is reached, or was passed, only through stage s.
Through(s, t) == pc = t \/ t \in vetted => s \in vetted

\* The order of the checks, each link as process_request has it.
Chain ==
    /\ Through("request_line", "header_section")
    /\ Through("header_section", "framing")
    /\ Through("framing", "expect")
    /\ Through("expect", "target")
    /\ Through("target", "authority")
    /\ Through("authority", "hop_by_hop")
    /\ Through("hop_by_hop", "upgrade")
    /\ Through("upgrade", "route")
    /\ Through("route", "limits")
    /\ Through("limits", "forwarding")
    /\ Through("forwarding", "action")
    /\ Through("action", "continue")
    /\ Through("continue", "request_headers")
    /\ Through("request_headers", "reserve")
    /\ Through("reserve", "body")
    /\ Through("body", "extra")
    /\ Through("extra", "canonical")
    /\ pc \in Late \ {"canonical"} => "canonical" \in vetted

\* Where the request's bytes are: the body is behind from "extra" on, the
\* buffer empty from "canonical" on, and both when the connection is kept.
Intake ==
    /\ facts.framing = "None" => unread = 0
    /\ pc \in Late \cup {"extra", "head"} => unread = 0
    /\ pc \in Late \cup {"head"} => buffer = 0
    /\ result = "keep" => unread = 0 /\ buffer = 0

\* What has left for the upstream.
Outgoing ==
    upstream # "none" =>
        /\ pc \in Sent \cup Returned
        /\ "canonical" \in vetted
        /\ unread = 0 /\ buffer = 0

\* process_request has no result, no fault and no announcement before it
\* returns, and what it announces is what it returns.
Outcome ==
    /\ pc \notin Returned => result = "none" /\ raised = NoFault /\ announced = "none"
    /\ announced = "close" => result = "close"

\* The response just delivered is counted when handle_connection records it,
\* and no counter outgrows the requests.
Counting ==
    /\ metrics \in [{"accepted", "rejected", "disagreements", "upstream_failures", "timeouts"} -> Nat]
    /\ delivered = metrics.accepted + One(pc = "returned" /\ result \in {"keep", "close"})
    /\ \A m \in DOMAIN metrics : metrics[m] <= completed + One(pc = "closed")

\* A disagreement about the request stops it: nothing goes upstream and the
\* fault is returned as it is.
RequestDisagreementContained ==
    raised.fault = "Disagreement" /\ raised.stage \notin ExchangeChecks =>
        upstream = "none" /\ result = "Disagreement"

\* The inductive invariant.
IInv ==
    /\ TypeOK
    /\ Chain
    /\ Intake
    /\ Outgoing
    /\ Outcome
    /\ Counting
    /\ RequestDisagreementContained

-----------------------------------------------------------------------------
LEMMA InitIInv == Init => IInv
<1> SUFFICES ASSUME Init PROVE IInv
  OBVIOUS
<1> USE ConnectionAssumption DEF Init
<1>1. TypeOK
  BY DEF TypeOK, Stages, NoFault
<1>2. Chain
  BY DEF Chain, Through, Late, ExchangeChecks
<1>3. Intake /\ Outgoing /\ Outcome
  BY DEF Intake, Outgoing, Outcome
<1>4. Counting
  BY DEF Counting, One
<1>5. RequestDisagreementContained
  BY DEF RequestDisagreementContained, NoFault
<1>6. QED
  BY <1>1, <1>2, <1>3, <1>4, <1>5 DEF IInv

-----------------------------------------------------------------------------
(* The stages. *)

LEMMA AfterType ==
    ASSUME NEW s \in RequestChecks
    PROVE  After(s) \in Stages \ {"head", "returned", "closed"}
BY DEF RequestChecks, ExchangeChecks, Stages, After

LEMMA ExchangeAfterType ==
    ASSUME NEW s \in ExchangeChecks
    PROVE  ExchangeAfter(s) \in Late \ {"canonical", "connect"}
BY DEF ExchangeChecks, Late, ExchangeAfter

LEMMA CheckFaultsType ==
    ASSUME NEW s \in RequestChecks
    PROVE  CheckFaults(s) \subseteq Faults
BY DEF RequestChecks, CheckFaults, RunFaults, Faults

LEMMA ExchangeFaultsType ==
    ASSUME TypeOK, NEW s \in ExchangeChecks, NEW f \in ExchangeFaults(s)
    PROVE  f \in Faults /\ ExchangeFault(s, f) \in Faults
<1>1. facts.response \in {"None", "Length", "Chunked", "Close"}
  BY DEF TypeOK, Facts
<1>2. ResponseBodyFaults \subseteq Faults
  BY <1>1 DEF ResponseBodyFaults, RunFaults, Faults
<1>3. f \in Faults
  BY <1>2 DEF ExchangeChecks, ExchangeFaults, RunFaults, Faults
<1>4. MapUpstreamFault(f) \in Faults
  BY DEF MapUpstreamFault, Faults
<1>5. QED
  BY <1>3, <1>4 DEF ExchangeFault

LEMMA StatusType ==
    ASSUME NEW f
    PROVE  Status(f) \subseteq {0, 400, 403, 404, 408, 413, 417, 500, 501, 502, 503, 504}
BY DEF Status

-----------------------------------------------------------------------------
(* The inductive step, one lemma per conjunct. *)

\* A step that passes stage pc, or that ends the request.
LEMMA NextChain ==
    ASSUME IInv, [Next]_vars
    PROVE  Chain'
<1> USE DEF Chain, Through
<1>0. Chain /\ pc \in Stages
  BY DEF IInv, TypeOK
<1>1. ASSUME pc' \in {"returned", "closed", "local", "head", "request_line"},
             vetted' \in {vetted, vetted \cup {pc}, {}}
      PROVE  Chain'
  BY <1>0, <1>1 DEF Late, ExchangeChecks
<1>2. CASE CheckPasses
  <2>1. pc \in RequestChecks /\ vetted' = vetted \cup {pc} /\ pc' = After(pc)
    BY <1>2 DEF CheckPasses, Passes
  <2>2. QED
    BY <1>0, <2>1 DEF After, RequestChecks, Late, ExchangeChecks
<1>3. CASE ExchangePasses
  <2>1. pc \in ExchangeChecks /\ vetted' = vetted \cup {pc} /\ pc' \in Late \ {"canonical", "connect"}
    BY <1>3, ExchangeAfterType DEF ExchangePasses, Passes
  <2>2. QED
    BY <1>0, <2>1 DEF Late, ExchangeChecks
<1>4. CASE Send
  BY <1>0, <1>1, <1>4 DEF Send, Passes, Fails, Late, ExchangeChecks
<1>5. CASE ChooseAction \/ Continue \/ ReadBody \/ NoExtra
  BY <1>0, <1>1, <1>5 DEF ChooseAction, Continue, ReadBody, NoExtra, Passes, Fails, Late, ExchangeChecks
<1>6. CASE HeadFails \/ CheckFails \/ BodyFails \/ ExtraFails \/ ExchangeFails \/ ReplyFails \/ LocalFails
  BY <1>1, <1>6 DEF HeadFails, CheckFails, BodyFails, ExtraFails, ExchangeFails, ReplyFails,
     LocalFails, Fails
<1>7. CASE LocalRespond \/ Reply \/ ReadHead
  BY <1>1, <1>7 DEF LocalRespond, Reply, ReadHead, Done, Passes
<1>8. CASE NextRequest \/ CloseServed \/ CloseIdle \/ CloseRejected
  BY <1>1, <1>8 DEF NextRequest, CloseServed, CloseIdle, CloseRejected
<1>9. CASE ClientSends \/ UNCHANGED vars
  BY <1>0, <1>9 DEF ClientSends, vars
<1>10. QED
  BY <1>2, <1>3, <1>4, <1>5, <1>6, <1>7, <1>8, <1>9 DEF Next, Worker

\* Bytes are taken by ReadHead, which only "head" runs, and by ReadBody.
LEMMA NextIntake ==
    ASSUME IInv, [Next]_vars
    PROVE  Intake'
<1> USE DEF Intake
<1>0. /\ Intake /\ Outcome /\ pc \in Stages
      /\ facts \in Facts /\ unread \in Nat /\ buffer \in Nat /\ socket \in Nat
  BY ConnectionAssumption DEF IInv, TypeOK
<1>1. ASSUME UNCHANGED <<facts, unread, buffer>>, pc' \in Returned, result' # "keep" \/ result' = result
      PROVE  Intake'
  BY <1>0, <1>1 DEF Returned, Late, ExchangeChecks
<1>2. CASE ReadHead
  <2>1. /\ pc' = "request_line" /\ result' = "none"
        /\ facts'.framing = "None" => unread' = 0
    BY <1>0, <1>2 DEF ReadHead, Passes, Outcome, Returned
  <2>2. QED
    BY <2>1 DEF Late, ExchangeChecks
<1>3. CASE CheckPasses
  <2>1. /\ UNCHANGED <<facts, unread, buffer, result>> /\ pc \in RequestChecks
        /\ pc' = After(pc)
    BY <1>3 DEF CheckPasses, Passes, io
  <2>2. pc' \in Late \cup {"extra", "head"} => pc = "canonical"
    BY <2>1 DEF RequestChecks, After, Late, ExchangeChecks
  <2>3. QED
    BY <1>0, <2>1, <2>2 DEF Late
<1>4. CASE ChooseAction \/ Continue
  BY <1>0, <1>1, <1>4 DEF ChooseAction, Continue, Passes, Fails, io, Late, ExchangeChecks, Returned
<1>5. CASE LocalRespond
  <2>1. /\ UNCHANGED <<facts, unread, buffer>> /\ pc' = "returned"
        /\ result' = "keep" => facts.framing = "None" /\ buffer = 0
    BY <1>5 DEF LocalRespond, LocalKeeps, Done, io
  <2>2. QED
    BY <1>0, <2>1 DEF Late, ExchangeChecks
<1>6. CASE ReadBody
  <2>1. /\ facts' = facts /\ unread' = 0 /\ pc' = "extra" /\ result' = "none"
    BY <1>0, <1>6 DEF ReadBody, Passes, Outcome, Returned
  <2>2. QED
    BY <2>1 DEF Late, ExchangeChecks
<1>7. CASE NoExtra
  BY <1>0, <1>7 DEF NoExtra, Passes, io
<1>8. CASE ExchangePasses
  <2>1. UNCHANGED <<facts, unread, buffer, result>> /\ pc \in Late
    BY <1>8 DEF ExchangePasses, Passes, io, Late
  <2>2. QED
    BY <1>0, <2>1
<1>9. CASE Send \/ Reply
  BY <1>0, <1>9 DEF Send, Reply, Passes, Fails, Done, io, Late, ExchangeChecks
<1>10. CASE HeadFails \/ BodyFails \/ ExtraFails \/ ReplyFails
  BY <1>1, <1>10 DEF HeadFails, BodyFails, ExtraFails, ReplyFails, Fails, RunFaults, io, Returned
<1>11. CASE CheckFails
  <2>1. /\ UNCHANGED <<facts, unread, buffer>> /\ pc' = "returned" /\ result' \in Faults
    BY <1>11, CheckFaultsType DEF CheckFails, Fails, io
  <2>2. QED
    BY <1>1, <2>1 DEF Faults, Returned
<1>12. CASE ExchangeFails
  <2>1. /\ UNCHANGED <<facts, unread, buffer>> /\ pc' = "returned" /\ result' \in Faults
    BY <1>12, ExchangeFaultsType DEF ExchangeFails, Fails, io, IInv
  <2>2. QED
    BY <1>1, <2>1 DEF Faults, Returned
<1>13. CASE LocalFails
  BY <1>1, <1>13 DEF LocalFails, LocalFaults, Fails, io, Returned
<1>14. CASE NextRequest
  BY <1>0, <1>14 DEF NextRequest, io
<1>15. CASE CloseServed \/ CloseIdle \/ CloseRejected
  BY <1>1, <1>15 DEF CloseServed, CloseIdle, CloseRejected, io, Returned
<1>16. CASE ClientSends \/ UNCHANGED vars
  BY <1>0, <1>16 DEF ClientSends, vars, io
<1>17. QED
  BY <1>2, <1>3, <1>4, <1>5, <1>6, <1>7, <1>8, <1>9, <1>10, <1>11, <1>12, <1>13, <1>14,
     <1>15, <1>16 DEF Next, Worker

\* Only Send writes upstream, and only "head", "body" and the stages before
\* take bytes in.
LEMMA NextOutgoing ==
    ASSUME IInv, [Next]_vars
    PROVE  Outgoing'
<1> USE DEF Outgoing
<1>0. /\ Outgoing /\ Chain /\ Intake /\ pc \in Stages
  BY DEF IInv, TypeOK
<1>1. CASE Send
  <2>1. /\ pc = "send" /\ UNCHANGED <<unread, buffer>> /\ vetted \subseteq vetted'
        /\ pc' \in {"upstream_head", "returned"}
    BY <1>1 DEF Send, Passes, Fails, io
  <2>2. unread = 0 /\ buffer = 0 /\ "canonical" \in vetted
    BY <1>0, <2>1 DEF Intake, Chain, Late
  <2>3. QED
    BY <2>1, <2>2 DEF Sent, Late, ExchangeChecks, Returned
<1>2. CASE NextRequest
  BY <1>2 DEF NextRequest
<1>3. CASE ExchangePasses \/ ExchangeFails \/ Reply \/ ReplyFails \/ CloseServed \/ CloseIdle \/ CloseRejected
  <2>1. /\ UNCHANGED <<unread, buffer, upstream>> /\ vetted \subseteq vetted'
        /\ pc \in ExchangeChecks \cup {"reply", "returned"}
    BY <1>3 DEF ExchangePasses, ExchangeFails, Reply, ReplyFails, CloseServed, CloseIdle,
       CloseRejected, Passes, Fails, Done, io, wire
  <2>2. pc \in Sent \cup Returned => pc' \in Sent \cup Returned
    <3>1. CASE ExchangePasses
      BY <3>1 DEF ExchangePasses, Passes, ExchangeAfter, ExchangeChecks, Sent, Late, Returned
    <3>2. CASE ExchangeFails \/ Reply \/ ReplyFails \/ CloseServed \/ CloseIdle \/ CloseRejected
      BY <3>2 DEF ExchangeFails, Reply, ReplyFails, CloseServed, CloseIdle, CloseRejected,
         Fails, Done, Returned
    <3>3. QED
      BY <1>3, <3>1, <3>2
  <2>3. QED
    BY <1>0, <2>1, <2>2
<1>4. CASE ReadHead \/ HeadFails \/ CheckPasses \/ CheckFails \/ ChooseAction \/ LocalRespond
           \/ LocalFails \/ Continue \/ ReadBody \/ BodyFails \/ NoExtra \/ ExtraFails
  <2>1. upstream' = upstream /\ pc \notin Sent \cup Returned
    BY <1>4 DEF ReadHead, HeadFails, CheckPasses, CheckFails, ChooseAction, LocalRespond,
       LocalFails, Continue, ReadBody, BodyFails, NoExtra, ExtraFails, wire, Sent, Late,
       Returned, RequestChecks, ExchangeChecks
  <2>2. QED
    BY <1>0, <2>1
<1>5. CASE ClientSends \/ UNCHANGED vars
  BY <1>0, <1>5 DEF ClientSends, vars, io, wire
<1>6. QED
  BY <1>1, <1>2, <1>3, <1>4, <1>5 DEF Next, Worker

LEMMA NextOutcome ==
    ASSUME IInv, [Next]_vars
    PROVE  Outcome'
<1> USE DEF Outcome, Returned
<1>0. /\ Outcome /\ pc \in Stages
  BY DEF IInv, TypeOK
<1>1. CASE ReadHead \/ CheckPasses \/ ChooseAction \/ ReadBody \/ NoExtra \/ ExchangePasses
  <2>1. UNCHANGED <<result, raised, announced>> /\ pc \notin Returned
    BY <1>1 DEF ReadHead, CheckPasses, ChooseAction, ReadBody, NoExtra, ExchangePasses, Passes,
       wire, RequestChecks, ExchangeChecks
  <2>2. QED
    BY <1>0, <2>1
<1>2. CASE HeadFails \/ CheckFails \/ LocalFails \/ BodyFails \/ ExtraFails \/ ExchangeFails \/ ReplyFails
  <2>1. pc' = "returned" /\ announced' = announced /\ pc \notin Returned
    BY <1>2 DEF HeadFails, CheckFails, LocalFails, BodyFails, ExtraFails, ExchangeFails,
       ReplyFails, Fails, wire, RequestChecks, ExchangeChecks
  <2>2. QED
    BY <1>0, <2>1
<1>3. CASE Continue \/ Send
  BY <1>0, <1>3 DEF Continue, Send, Passes, Fails
<1>4. CASE LocalRespond \/ Reply
  <2>1. pc' = "returned"
    BY <1>4 DEF LocalRespond, Reply, Done
  <2>2. announced' = "close" => result' = "close"
    BY <1>4 DEF LocalRespond, Reply, Done, Connection
  <2>3. QED
    BY <2>1, <2>2
<1>5. CASE NextRequest
  BY <1>5 DEF NextRequest
<1>6. CASE CloseServed \/ CloseIdle \/ CloseRejected
  BY <1>0, <1>6 DEF CloseServed, CloseIdle, CloseRejected, wire
<1>7. CASE ClientSends \/ UNCHANGED vars
  BY <1>0, <1>7 DEF ClientSends, vars, wire
<1>8. QED
  BY <1>1, <1>2, <1>3, <1>4, <1>5, <1>6, <1>7 DEF Next, Worker

\* record_request_result adds at most one to each counter, and one to accepted
\* exactly when a response was delivered.
LEMMA RecordedCounts ==
    ASSUME TypeOK, Counting, pc = "returned"
    PROVE  /\ Recorded \in [{"accepted", "rejected", "disagreements", "upstream_failures", "timeouts"} -> Nat]
           /\ Recorded.accepted = delivered
           /\ \A m \in DOMAIN Recorded : Recorded[m] <= completed + 1
<1>1. /\ metrics.accepted \in Nat /\ metrics.rejected \in Nat /\ metrics.disagreements \in Nat
      /\ metrics.upstream_failures \in Nat /\ metrics.timeouts \in Nat
  BY DEF Counting
<1>2. /\ One(result \in {"keep", "close"}) \in {0, 1} /\ One(result \in Faults) \in {0, 1}
      /\ One(result = "Disagreement") \in {0, 1} /\ One(result = "Upstream") \in {0, 1}
      /\ One(result \in {"Timeout", "UpstreamTimeout"}) \in {0, 1}
  BY DEF One
<1>3. completed \in Nat
  BY ConnectionAssumption DEF TypeOK
<1>4. /\ metrics.accepted <= completed /\ metrics.rejected <= completed
      /\ metrics.disagreements <= completed /\ metrics.upstream_failures <= completed
      /\ metrics.timeouts <= completed
  BY <1>1, <1>3 DEF Counting, One
<1>5. Recorded.accepted = delivered
  BY DEF Recorded, Counting
<1>6. /\ Recorded.accepted \in 0 .. completed + 1 /\ Recorded.rejected \in 0 .. completed + 1
      /\ Recorded.disagreements \in 0 .. completed + 1
      /\ Recorded.upstream_failures \in 0 .. completed + 1
      /\ Recorded.timeouts \in 0 .. completed + 1
  BY <1>1, <1>2, <1>3, <1>4 DEF Recorded
<1>7. Recorded \in [{"accepted", "rejected", "disagreements", "upstream_failures", "timeouts"}
                   -> 0 .. completed + 1]
  BY <1>6 DEF Recorded
<1>8. QED
  BY <1>3, <1>5, <1>7

LEMMA NextCounting ==
    ASSUME IInv, [Next]_vars
    PROVE  Counting'
<1>0. /\ TypeOK /\ Counting /\ Outcome /\ pc \in Stages
      /\ completed \in Nat /\ delivered \in Nat /\ metrics.accepted \in Nat
  BY ConnectionAssumption DEF IInv, TypeOK, Counting
<1>1. ASSUME UNCHANGED tally, pc \notin Returned, pc' # "closed", result' \notin {"keep", "close"}
      PROVE  Counting'
  BY <1>0, <1>1 DEF Counting, One, tally, Returned
<1>2. CASE ReadHead \/ CheckPasses \/ ChooseAction \/ ReadBody \/ NoExtra
  <2>1. UNCHANGED tally /\ UNCHANGED result /\ pc \notin Returned /\ pc' # "closed"
    BY <1>2, AfterType DEF ReadHead, CheckPasses, ChooseAction, ReadBody, NoExtra, Passes,
       RequestChecks, Returned
  <2>2. QED
    BY <1>0, <1>1, <2>1 DEF Outcome
<1>3. CASE ExchangePasses
  <2>1. UNCHANGED tally /\ UNCHANGED result /\ pc \notin Returned /\ pc' # "closed"
    BY <1>3, ExchangeAfterType DEF ExchangePasses, Passes, ExchangeChecks, Returned, Late
  <2>2. QED
    BY <1>0, <1>1, <2>1 DEF Outcome
<1>4. CASE CheckFails
  <2>1. UNCHANGED tally /\ result' \in Faults /\ pc \notin Returned /\ pc' = "returned"
    BY <1>4, CheckFaultsType DEF CheckFails, Fails, RequestChecks, Returned
  <2>2. QED
    BY <1>1, <2>1 DEF Faults
<1>5. CASE ExchangeFails
  <2>1. UNCHANGED tally /\ result' \in Faults /\ pc \notin Returned /\ pc' = "returned"
    BY <1>0, <1>5, ExchangeFaultsType DEF ExchangeFails, Fails, ExchangeChecks, Returned
  <2>2. QED
    BY <1>1, <2>1 DEF Faults
<1>6. CASE HeadFails \/ LocalFails \/ BodyFails \/ ExtraFails \/ ReplyFails
  BY <1>1, <1>6 DEF HeadFails, LocalFails, LocalFaults, BodyFails, RunFaults, ExtraFails,
     ReplyFails, Fails, Returned
<1>7. CASE Continue \/ Send
  <2>1. UNCHANGED tally /\ pc \notin Returned /\ pc' # "closed" /\ result' \in {result, "ClientIo", "Upstream"}
    BY <1>7 DEF Continue, Send, Passes, Fails, Returned
  <2>2. QED
    BY <1>0, <1>1, <2>1 DEF Outcome
<1>8. CASE LocalRespond \/ Reply
  <2>1. /\ pc \notin Returned /\ pc' = "returned" /\ result' \in {"keep", "close"}
        /\ delivered' = delivered + 1 /\ UNCHANGED <<completed, metrics>>
    BY <1>8 DEF LocalRespond, Reply, Done, Returned
  <2>2. delivered = metrics.accepted
    BY <1>0, <2>1 DEF Counting, One, Returned
  <2>3. QED
    BY <1>0, <2>1, <2>2 DEF Counting, One, Returned
<1>9. CASE NextRequest
  <2>1. /\ pc = "returned" /\ pc' = "head" /\ metrics' = Recorded
        /\ completed' = completed + 1 /\ delivered' = delivered
    BY <1>9 DEF NextRequest
  <2>2. QED
    BY <1>0, <2>1, RecordedCounts DEF Counting, One
<1>10. CASE CloseServed \/ CloseRejected
  <2>1. /\ pc = "returned" /\ pc' = "closed" /\ metrics' = Recorded
        /\ UNCHANGED <<completed, delivered>>
    BY <1>10 DEF CloseServed, CloseRejected
  <2>2. QED
    BY <1>0, <2>1, RecordedCounts DEF Counting, One
<1>11. CASE CloseIdle
  <2>1. /\ pc = "returned" /\ pc' = "closed" /\ UNCHANGED tally /\ result \notin {"keep", "close"}
    BY <1>11 DEF CloseIdle, IdleClose
  <2>2. \A m \in DOMAIN metrics : metrics[m] \in Nat /\ metrics[m] <= completed
    BY <1>0, <2>1 DEF Counting, One
  <2>3. QED
    BY <1>0, <2>1, <2>2 DEF Counting, One, tally
<1>12. CASE ClientSends \/ UNCHANGED vars
  BY <1>0, <1>12 DEF ClientSends, vars, tally, Counting
<1>13. QED
  BY <1>2, <1>3, <1>4, <1>5, <1>6, <1>7, <1>8, <1>9, <1>10, <1>11, <1>12 DEF Next, Worker

\* Where a request fails, upstream has seen nothing yet and no fault is mapped.
LEMMA NextContained ==
    ASSUME IInv, [Next]_vars
    PROVE  RequestDisagreementContained'
<1> USE DEF RequestDisagreementContained
<1>0. /\ RequestDisagreementContained /\ Outgoing /\ Outcome /\ pc \in Stages
  BY DEF IInv, TypeOK
<1>1. ASSUME UNCHANGED <<raised, upstream>>, UNCHANGED result \/ pc \notin Returned
      PROVE  RequestDisagreementContained'
  BY <1>0, <1>1 DEF Outcome, NoFault
<1>2. ASSUME pc \notin Sent \cup Returned, UNCHANGED upstream, result' = raised'.fault
      PROVE  RequestDisagreementContained'
  BY <1>0, <1>2 DEF Outgoing
<1>3. CASE ReadHead \/ CheckPasses \/ ChooseAction \/ ReadBody \/ NoExtra \/ ExchangePasses
  BY <1>1, <1>3 DEF ReadHead, CheckPasses, ChooseAction, ReadBody, NoExtra, ExchangePasses, Passes, wire
<1>4. CASE HeadFails \/ CheckFails \/ LocalFails \/ BodyFails \/ ExtraFails
  BY <1>2, <1>4 DEF HeadFails, CheckFails, LocalFails, BodyFails, ExtraFails, Fails, wire, Sent,
     Late, Returned, RequestChecks, ExchangeChecks
<1>5. CASE ExchangeFails
  BY <1>5 DEF ExchangeFails, Fails
<1>6. CASE Continue \/ Send \/ ReplyFails
  <2>1. raised' \in {raised} \/ raised'.fault \in {"ClientIo", "Upstream"}
    BY <1>6 DEF Continue, Send, ReplyFails, Passes, Fails
  <2>2. pc \notin Returned
    BY <1>6 DEF Continue, Send, ReplyFails, Returned
  <2>3. QED
    BY <1>0, <2>1, <2>2 DEF Outcome, NoFault
<1>7. CASE LocalRespond \/ Reply
  BY <1>1, <1>7 DEF LocalRespond, Reply, Done, Returned
<1>8. CASE NextRequest
  BY <1>8 DEF NextRequest, NoFault
<1>9. CASE CloseServed \/ CloseIdle \/ CloseRejected
  BY <1>1, <1>9 DEF CloseServed, CloseIdle, CloseRejected, wire
<1>10. CASE ClientSends \/ UNCHANGED vars
  BY <1>1, <1>10 DEF ClientSends, vars, wire
<1>11. QED
  BY <1>3, <1>4, <1>5, <1>6, <1>7, <1>8, <1>9, <1>10 DEF Next, Worker

\* The counters keep their bounds because each request counts once.
LEMMA CountersType ==
    ASSUME TypeOK, Counting', completed' \in 0 .. MaxCompleted
    PROVE  /\ \A m \in DOMAIN metrics' : metrics'[m] \in 0 .. MaxCompleted + 1
           /\ delivered' \in 0 .. MaxCompleted + 1
<1>1. completed' \in Nat /\ completed' <= MaxCompleted /\ MaxCompleted \in Nat
  BY ConnectionAssumption
<1>2. \A m \in DOMAIN metrics' : metrics'[m] \in Nat /\ metrics'[m] <= completed' + One(pc = "closed")'
  BY DEF Counting
<1>3. \A m \in DOMAIN metrics' : metrics'[m] \in 0 .. MaxCompleted + 1
  BY <1>1, <1>2 DEF One
<1>4. metrics'.accepted \in Nat /\ metrics'.accepted <= completed' + One(pc = "closed")'
  BY DEF Counting
<1>5. delivered' \in 0 .. MaxCompleted + 1
  BY <1>1, <1>4 DEF Counting, One
<1>6. QED
  BY <1>3, <1>5

LEMMA NextType ==
    ASSUME IInv, [Next]_vars
    PROVE  TypeOK'
<1> DEFINE Kept == UNCHANGED <<facts, unread, buffer, socket>>
           Results == Faults \cup {"none", "keep", "close"}
<1>0. /\ TypeOK /\ pc \in Stages /\ Counting'
      /\ MaxUnits \in Nat /\ MaxCompleted \in Nat
  BY NextCounting, ConnectionAssumption DEF IInv, TypeOK
<1>1. ASSUME pc' \in Stages,
             UNCHANGED facts \/ facts' \in Facts,
             unread' \in 0 .. MaxUnits, buffer' \in 0 .. MaxUnits, socket' \in 0 .. MaxUnits,
             upstream' \in {"none", "part", "all"},
             client' \in Seq({"100", "final", "partial", "error"}),
             status' \in {0, 400, 403, 404, 408, 413, 417, 500, 501, 502, 503, 504},
             announced' \in {"none", "keep-alive", "close"},
             raised'.stage \in Stages \cup {"none"}, raised'.fault \in Faults \cup {"none"},
             result' \in Results, vetted' \subseteq Stages,
             completed' \in 0 .. MaxCompleted
      PROVE  TypeOK'
  <2>1. facts' \in Facts
    BY <1>0, <1>1 DEF TypeOK
  <2>2. QED
    BY <1>0, <1>1, <2>1, CountersType DEF TypeOK
<1>2. ASSUME NEW s \in Stages, NEW f \in Faults, NEW g \in Faults, Fails(s, f, g), Kept,
             UNCHANGED completed, UNCHANGED status, UNCHANGED announced,
             upstream' \in {"none", "part", "all"},
             client' \in {client, Append(client, "partial")}
      PROVE  TypeOK'
  <2>1. /\ raised'.stage = s /\ raised'.fault = f /\ result' = g /\ pc' = "returned"
        /\ vetted' = vetted
    BY <1>2 DEF Fails
  <2>2. pc' \in Stages
    BY <2>1 DEF Stages
  <2>3. client' \in Seq({"100", "final", "partial", "error"})
    BY <1>0, <1>2 DEF TypeOK
  <2>4. QED
    BY <1>0, <1>1, <1>2, <2>1, <2>2, <2>3 DEF TypeOK
<1>3. ASSUME NEW s \in Stages, NEW next \in Stages, Passes(s, next),
             UNCHANGED facts \/ facts' \in Facts,
             unread' \in 0 .. MaxUnits, buffer' \in 0 .. MaxUnits, socket' \in 0 .. MaxUnits,
             UNCHANGED completed, UNCHANGED status, UNCHANGED announced,
             upstream' \in {"none", "part", "all"},
             client' \in {client, Append(client, "100")}
      PROVE  TypeOK'
  <2>1. pc' = next /\ vetted' \subseteq Stages /\ UNCHANGED <<raised, result>>
    BY <1>0, <1>3 DEF Passes, TypeOK
  <2>2. client' \in Seq({"100", "final", "partial", "error"})
    BY <1>0, <1>3 DEF TypeOK
  <2>3. QED
    BY <1>0, <1>1, <1>3, <2>1, <2>2 DEF TypeOK
<1>4. CASE ReadHead
  <2>1. unread' \in 0 .. MaxUnits
    BY <1>0, <1>4 DEF ReadHead
  <2>2. QED
    BY <1>0, <1>3, <1>4, <2>1 DEF ReadHead, TypeOK, wire, tally, Stages, RequestChecks
<1>5. CASE HeadFails
  BY <1>0, <1>2, <1>5 DEF HeadFails, TypeOK, io, wire, tally, Stages, Faults
<1>6. CASE CheckPasses
  BY <1>0, <1>3, <1>6, AfterType DEF CheckPasses, TypeOK, io, wire, tally
<1>7. CASE CheckFails
  BY <1>0, <1>2, <1>7, CheckFaultsType DEF CheckFails, TypeOK, io, wire, tally
<1>8. CASE ChooseAction
  BY <1>0, <1>3, <1>8 DEF ChooseAction, TypeOK, io, wire, tally, Stages
<1>9. CASE LocalFails
  BY <1>0, <1>2, <1>9 DEF LocalFails, LocalFaults, Faults, TypeOK, io, tally, Stages
<1>10. CASE Continue
  <2>1. /\ Kept /\ UNCHANGED <<completed, status, announced, upstream>>
        /\ client' \in {client, Append(client, "100")}
        /\ \/ Passes("continue", "request_headers")
           \/ Fails("continue", "ClientIo", "ClientIo") /\ client' = client
    BY <1>10 DEF Continue, io, tally
  <2>2. {"continue", "request_headers"} \subseteq Stages /\ "ClientIo" \in Faults
    BY DEF Stages, RequestChecks, Faults
  <2>3. QED
    BY <1>0, <1>2, <1>3, <2>1, <2>2 DEF TypeOK
<1>11. CASE ReadBody
  <2>1. unread' = 0 /\ buffer' \in 0 .. MaxUnits /\ socket' \in 0 .. MaxUnits
    BY <1>0, <1>11 DEF ReadBody, TypeOK
  <2>2. QED
    BY <1>0, <1>3, <1>11, <2>1 DEF ReadBody, TypeOK, wire, tally, Stages
<1>12. CASE BodyFails
  BY <1>0, <1>2, <1>12 DEF BodyFails, RunFaults, Faults, TypeOK, io, wire, tally, Stages
<1>13. CASE NoExtra
  BY <1>0, <1>3, <1>13 DEF NoExtra, TypeOK, io, wire, tally, Stages, RequestChecks
<1>14. CASE ExtraFails
  BY <1>0, <1>2, <1>14 DEF ExtraFails, Faults, TypeOK, io, wire, tally, Stages
<1>15. CASE ExchangePasses
  <2>1. ExchangeAfter(pc) \in Stages
    BY <1>15, ExchangeAfterType DEF ExchangePasses, Late, Stages, RequestChecks
  <2>2. QED
    BY <1>0, <1>3, <1>15, <2>1 DEF ExchangePasses, TypeOK, io, wire, tally
<1>16. CASE ExchangeFails
  BY <1>0, <1>2, <1>16, ExchangeFaultsType DEF ExchangeFails, TypeOK, io, wire, tally
<1>17. CASE Send
  <2>1. /\ Kept /\ UNCHANGED <<completed, status, announced, client>>
        /\ upstream' \in {"none", "part", "all"}
        /\ Passes("send", "upstream_head") \/ Fails("send", "Upstream", "Upstream")
    BY <1>17 DEF Send, io, tally
  <2>2. {"send", "upstream_head"} \subseteq Stages /\ "Upstream" \in Faults
    BY DEF Stages, ExchangeChecks, Faults
  <2>3. QED
    BY <1>0, <1>2, <1>3, <2>1, <2>2 DEF TypeOK
<1>18. CASE ReplyFails
  BY <1>0, <1>2, <1>18 DEF ReplyFails, TypeOK, Faults, io, tally, Stages
<1>19. CASE LocalRespond \/ Reply
  <2>1. /\ Kept /\ UNCHANGED <<completed, status, upstream, raised>>
        /\ client' = Append(client, "final")
        /\ announced' \in {"keep-alive", "close"} /\ result' \in {"keep", "close"}
        /\ pc' = "returned" /\ vetted' \subseteq vetted \cup {"local", "reply"}
    BY <1>19 DEF LocalRespond, Reply, Done, Connection, io
  <2>2. client' \in Seq({"100", "final", "partial", "error"})
    BY <1>0, <2>1 DEF TypeOK
  <2>3. {"local", "reply", "returned"} \subseteq Stages
    BY DEF Stages
  <2>4. QED
    BY <1>0, <1>1, <2>1, <2>2, <2>3 DEF TypeOK
<1>20. CASE NextRequest
  <2>1. /\ Kept /\ completed' = completed + 1 /\ completed < MaxCompleted
        /\ pc' = "head" /\ upstream' = "none" /\ client' = <<>> /\ announced' = "none"
        /\ raised' = NoFault /\ result' = "none" /\ vetted' = {} /\ status' = status
    BY <1>20 DEF NextRequest, io
  <2>2. completed' \in 0 .. MaxCompleted
    BY <1>0, <2>1 DEF TypeOK
  <2>3. QED
    BY <1>0, <1>1, <2>1, <2>2 DEF TypeOK, NoFault, Stages
<1>21. CASE CloseServed \/ CloseIdle
  <2>1. /\ Kept /\ pc' = "closed" /\ UNCHANGED <<upstream, client, status, announced>>
        /\ UNCHANGED <<raised, result, vetted, completed>>
    BY <1>21 DEF CloseServed, CloseIdle, io, wire, tally
  <2>2. pc' \in Stages
    BY <2>1 DEF Stages
  <2>3. QED
    BY <1>0, <1>1, <2>1, <2>2 DEF TypeOK
<1>22. CASE CloseRejected
  <2>1. /\ Kept /\ UNCHANGED <<upstream, announced, raised, result, vetted, completed>>
        /\ client' \in {client, Append(client, "error")} /\ pc' = "closed"
        /\ status' = status \/ status' \in Status(result)
    BY <1>22 DEF CloseRejected, io
  <2>2. client' \in Seq({"100", "final", "partial", "error"})
    BY <1>0, <2>1 DEF TypeOK
  <2>3. status' \in {0, 400, 403, 404, 408, 413, 417, 500, 501, 502, 503, 504}
    BY <1>0, <2>1, StatusType DEF TypeOK
  <2>4. QED
    BY <1>0, <1>1, <2>1, <2>2, <2>3 DEF TypeOK, Stages
<1>23. CASE ClientSends
  <2>1. socket' \in 0 .. MaxUnits
    BY <1>0, <1>23 DEF ClientSends, TypeOK
  <2>2. QED
    BY <1>0, <1>1, <1>23, <2>1 DEF ClientSends, TypeOK, wire, tally
<1>24. CASE UNCHANGED vars
  BY <1>0, <1>24 DEF TypeOK, vars, io, wire, tally
<1>25. QED
  BY <1>4, <1>5, <1>6, <1>7, <1>8, <1>9, <1>10, <1>11, <1>12, <1>13, <1>14, <1>15, <1>16,
     <1>17, <1>18, <1>19, <1>20, <1>21, <1>22, <1>23, <1>24 DEF Next, Worker

LEMMA NextIInv == IInv /\ [Next]_vars => IInv'
BY NextType, NextChain, NextIntake, NextOutgoing, NextOutcome, NextCounting, NextContained DEF IInv

-----------------------------------------------------------------------------
(* The theorems. *)

LEMMA IInvAlways == Spec => []IInv
BY InitIInv, NextIInv, PTL DEF Spec

\* The connection's state is always well formed, its counters within the
\* requests it may carry.
THEOREM ConnectionTypeCorrect == Spec => []TypeOK
BY IInvAlways, PTL DEF IInv

\* Not one byte of a request reaches the upstream before every check of
\* process_request has passed, its body is read and nothing is buffered.
THEOREM NothingUnvettedUpstreamAlways == Spec => []NothingUnvettedUpstream
<1>1. IInv => NothingUnvettedUpstream
  <2> SUFFICES ASSUME IInv, upstream # "none" PROVE NothingUnvettedUpstream
    BY DEF NothingUnvettedUpstream
  <2>1. "canonical" \in vetted /\ unread = 0 /\ buffer = 0 /\ Chain
    BY DEF IInv, Outgoing
  <2>2. {"extra", "body", "reserve", "request_headers", "continue", "action", "forwarding",
         "limits"} \subseteq vetted
    BY <2>1 DEF Chain, Through
  <2>3. {"route", "upgrade", "hop_by_hop", "authority", "target", "expect", "framing",
         "header_section", "request_line"} \subseteq vetted
    BY <2>1, <2>2 DEF Chain, Through
  <2>4. QED
    BY <2>1, <2>2, <2>3 DEF NothingUnvettedUpstream, RequestChecks
<1>2. QED
  BY <1>1, IInvAlways, PTL

\* handle_connection starts every further request at a message boundary.
THEOREM NextRequestAlignedAlways == Spec => []NextRequestAligned
<1>1. IInv => NextRequestAligned
  BY DEF IInv, Intake, NextRequestAligned
<1>2. QED
  BY <1>1, IInvAlways, PTL

\* Metrics.accepted is the number of responses written completely.
THEOREM AcceptedMeansDeliveredAlways == Spec => []AcceptedMeansDelivered
<1>1. IInv => AcceptedMeansDelivered
  <2> SUFFICES ASSUME IInv, pc \in {"head", "closed"} PROVE metrics.accepted = delivered
    BY DEF AcceptedMeansDelivered
  <2>1. metrics.accepted \in Nat
    BY DEF IInv, Counting
  <2>2. QED
    BY <2>1 DEF IInv, Counting, One
<1>2. QED
  BY <1>1, IInvAlways, PTL

\* After Connection: close was announced, handle_connection reads no further
\* request head.
THEOREM CloseIsKeptAlways == Spec => CloseIsKept
<1>1. ASSUME IInv, [Next]_vars, announced = "close"
      PROVE  pc' # "head"
  <2>1. pc \in Returned /\ result = "close"
    BY <1>1 DEF IInv, Outcome
  <2>2. QED
    BY <1>1, <2>1 DEF Next, Worker, ClientSends, ReadHead, HeadFails, CheckPasses, CheckFails,
       ChooseAction, LocalRespond, LocalFails, Continue, ReadBody, BodyFails, NoExtra, ExtraFails,
       ExchangePasses, ExchangeFails, Send, Reply, ReplyFails, NextRequest, CloseServed,
       CloseIdle, CloseRejected, vars, Returned, RequestChecks, ExchangeChecks
<1>2. QED
  BY <1>1, IInvAlways, PTL DEF Spec, CloseIsKept

\* What is true of the threat model's promise: a disagreement about the request
\* itself, its trailers included, is returned as Fault::Disagreement and
\* nothing of the request has gone upstream.
THEOREM RequestDisagreementContainedAlways == Spec => []RequestDisagreementContained
BY IInvAlways, PTL DEF IInv
=============================================================================
