--------------------------- MODULE ResponseProofs ---------------------------
(***************************************************************************)
(* Theorems about response actions, for any requests, hosts and bounds.    *)
(***************************************************************************)
EXTENDS Response, TLAPS

IInv == TypeOK /\ ResponseInv

(* The invariant holds before any request.                                 *)
LEMMA InitInvariant == Init => IInv
BY RequestsAssumption, ParametersAssumption
   DEF Init, IInv, TypeOK, ResponseInv, StageInv, RecordInv, VerdictInv, HostInv,
       Isolation, Succeeded, Failed

-----------------------------------------------------------------------------
(***************************************************************************)
(* Most steps concern one request and leave the upstream's job, the host   *)
(* and the history alone.  Which steps there are:                          *)
(***************************************************************************)

(* The steps of the system, by request.                                    *)
LEMMA StepCases ==
  ASSUME [Next]_vars
  PROVE  \/ UNCHANGED vars
         \/ Crash
         \/ \E r \in Requests :
              \/ CaseRequest(r) \/ ExecuteTemplate(r)
              \/ Refuse(r) \/ Acknowledge(r) \/ Preflight(r) \/ ManagerToken(r)
              \/ TriggerWorkflow(r) \/ Answered(r) \/ GiveUp(r) \/ Poll(r)
              \/ CaseOutcome(r) \/ FinishExecution(r)
              \/ Take(r) \/ TurnDown(r) \/ FlowEnds(r) \/ HangUp(r)
BY DEF Next, Handle, Request, Upstream

(* A poll ends the loop with what it saw, or leaves a turn to go.          *)
LEMMA PollCases ==
  ASSUME NEW r \in Requests, Poll(r)
  PROVE  \E v \in {"none", "success", "failure", "timeout"} :
           /\ verdict' = [verdict EXCEPT ![r] = v]
           /\ pc' = [pc EXCEPT ![r] = IF v = "none" THEN "poll" ELSE "report"]
           /\ polls' = [polls EXCEPT ![r] = polls[r] + 1]
           /\ v = "none" => polls[r] + 1 # Polls
           /\ v = "success" => flow[r] = "finished"
           /\ v = "failure" => flow[r] \in Broken
<1>1. PICK answered \in BOOLEAN :
        /\ polls' = [polls EXCEPT ![r] = polls[r] + 1]
        /\ verdict' = [verdict EXCEPT
                         ![r] = PollVerdict(Seen(r, answered), polls[r] + 1 = Polls)]
        /\ pc' = [pc EXCEPT
                    ![r] = IF PollVerdict(Seen(r, answered), polls[r] + 1 = Polls) = "none"
                           THEN "poll" ELSE "report"]
  BY DEF Poll, PollsAfter, LastPoll, GoTo
<1> DEFINE v == PollVerdict(Seen(r, answered), polls[r] + 1 = Polls)
<1>2. /\ v \in {"none", "success", "failure", "timeout"}
      /\ v = "success" => flow[r] = "finished"
      /\ v = "failure" => flow[r] \in Broken
      /\ v = "none" => polls[r] + 1 # Polls
  BY DEF PollVerdict, Seen, Broken
<1> HIDE DEF v
<1>3. /\ verdict' = [verdict EXCEPT ![r] = v]
      /\ pc' = [pc EXCEPT ![r] = IF v = "none" THEN "poll" ELSE "report"]
  BY <1>1 DEF v
<1> QED
  BY <1>1, <1>2, <1>3

-----------------------------------------------------------------------------
(***************************************************************************)
(* The invariant, part by part.                                            *)
(***************************************************************************)

(* Every step keeps the types, and a polling loop its bound.               *)
LEMMA TypeStep ==
  ASSUME IInv, [Next]_vars
  PROVE  TypeOK'
<1> USE RequestsAssumption, ParametersAssumption
    DEF TypeOK, InFlight, Verdicts, Isolation, Broken,
        GoTo, Conclude, Fault, Send, Kept, upstream, records, handler
<1>1. CASE UNCHANGED vars
  BY <1>1 DEF vars, IInv
<1>2. CASE Crash
  BY <1>2 DEF Crash, IInv
<1>3. ASSUME NEW r \in Requests, CaseRequest(r) PROVE TypeOK'
  BY <1>3 DEF CaseRequest, Begin, IInv
<1>4. ASSUME NEW r \in Requests, ExecuteTemplate(r) PROVE TypeOK'
  BY <1>4 DEF ExecuteTemplate, Begin, IInv
<1>5. ASSUME NEW r \in Requests, Refuse(r) \/ Acknowledge(r) \/ Preflight(r)
                                  \/ ManagerToken(r) \/ TriggerWorkflow(r)
      PROVE  TypeOK'
  BY <1>5 DEF Refuse, Acknowledge, Preflight, ManagerToken, TriggerWorkflow, IInv
<1>6. ASSUME NEW r \in Requests, Answered(r) PROVE TypeOK'
  BY <1>6 DEF Answered, IInv
<1>7. ASSUME NEW r \in Requests, GiveUp(r) PROVE TypeOK'
  BY <1>7 DEF GiveUp, Unanswered, IInv
<1>8. ASSUME NEW r \in Requests, Poll(r) PROVE TypeOK'
  <2>1. pc[r] = "poll" /\ polls[r] + 1 \in 0..Polls
    BY <1>8 DEF Poll, IInv, ResponseInv, StageInv
  <2>2. UNCHANGED <<upstream, records, faults, before>>
    BY <1>8 DEF Poll
  <2>3. PICK v \in {"none", "success", "failure", "timeout"} :
        /\ verdict' = [verdict EXCEPT ![r] = v]
        /\ pc' = [pc EXCEPT ![r] = IF v = "none" THEN "poll" ELSE "report"]
        /\ polls' = [polls EXCEPT ![r] = polls[r] + 1]
    BY <1>8, PollCases
  <2> QED
    BY <2>1, <2>2, <2>3 DEF IInv
<1>9. ASSUME NEW r \in Requests, CaseOutcome(r) PROVE TypeOK'
  <2>1. verdict[r] \in Verdicts
    BY <1>9 DEF CaseOutcome, IInv, ResponseInv, StageInv
  <2>2. Audited(verdict[r]) \in {"success", "failure", "timeout"}
    BY <2>1 DEF Audited
  <2> QED
    BY <1>9, <2>2 DEF CaseOutcome, IInv
<1>10. ASSUME NEW r \in Requests, FinishExecution(r) PROVE TypeOK'
  BY <1>10 DEF FinishExecution, Status, IInv
<1>11. ASSUME NEW r \in Requests, Take(r) \/ TurnDown(r) \/ HangUp(r) PROVE TypeOK'
  BY <1>11 DEF Take, TurnDown, HangUp, IInv
<1>12. ASSUME NEW r \in Requests, FlowEnds(r) PROVE TypeOK'
  BY <1>12 DEF FlowEnds, Apply, IInv
<1> QED
  BY StepCases, <1>1, <1>2, <1>3, <1>4, <1>5, <1>6, <1>7, <1>8, <1>9, <1>10,
     <1>11, <1>12

(* Every step keeps the place of the handler in line with the wire and the *)
(* flow.                                                                   *)
LEMMA StageStep ==
  ASSUME IInv, [Next]_vars
  PROVE  StageInv'
<1> USE RequestsAssumption, ParametersAssumption
    DEF IInv, ResponseInv, TypeOK, StageInv, InFlight, Broken,
        GoTo, Conclude, Send, Kept, upstream, records, handler
<1>1. CASE UNCHANGED vars
  BY <1>1 DEF vars
<1>2. CASE Crash
  BY <1>2 DEF Crash
<1>3. ASSUME NEW r \in Requests, CaseRequest(r) PROVE StageInv'
  BY <1>3 DEF CaseRequest, Begin
<1>4. ASSUME NEW r \in Requests, ExecuteTemplate(r) PROVE StageInv'
  BY <1>4 DEF ExecuteTemplate, Begin
<1>5. ASSUME NEW r \in Requests, Refuse(r) \/ Acknowledge(r) \/ Preflight(r)
                                  \/ ManagerToken(r) \/ TriggerWorkflow(r)
      PROVE  StageInv'
  BY <1>5 DEF Refuse, Acknowledge, Preflight, ManagerToken, TriggerWorkflow
<1>6. ASSUME NEW r \in Requests, Answered(r) PROVE StageInv'
  <2>1. UNCHANGED <<polls, net, flow>> /\ pc[r] = "wait" /\ polls[r] = 0
    BY <1>6 DEF Answered
  <2>2. CASE GoTo(r, "poll") /\ UNCHANGED verdict
    <3>1. Via[r] = "velociraptor" /\ FlowIdRead(r)
      BY <1>6, <2>1, <2>2 DEF Answered
    <3> QED
      BY <2>1, <2>2, <3>1 DEF FlowIdRead
  <2>3. ASSUME NEW v \in Verdicts, Conclude(r, v) PROVE StageInv'
    BY <2>1, <2>3 DEF Verdicts
  <2> QED
    BY <1>6, <2>2, <2>3 DEF Answered, Verdicts
<1>7. ASSUME NEW r \in Requests, GiveUp(r) PROVE StageInv'
  BY <1>7 DEF GiveUp, Unanswered
<1>8. ASSUME NEW r \in Requests, Poll(r) PROVE StageInv'
  <2>1. pc[r] = "poll" /\ UNCHANGED upstream
    BY <1>8 DEF Poll
  <2>2. PICK v \in {"none", "success", "failure", "timeout"} :
        /\ verdict' = [verdict EXCEPT ![r] = v]
        /\ pc' = [pc EXCEPT ![r] = IF v = "none" THEN "poll" ELSE "report"]
        /\ polls' = [polls EXCEPT ![r] = polls[r] + 1]
        /\ v = "none" => polls[r] + 1 # Polls
    BY <1>8, PollCases
  <2>3. \A q \in Requests \ {r} : /\ pc'[q] = pc[q] /\ verdict'[q] = verdict[q]
                                  /\ polls'[q] = polls[q]
    BY <2>2
  <2>4. /\ pc'[r] = IF v = "none" THEN "poll" ELSE "report"
        /\ verdict'[r] = v /\ polls'[r] = polls[r] + 1
    BY <2>2
  <2>5. polls[r] \in Nat /\ Polls \in Nat /\ polls[r] < Polls
    BY <2>1
  <2>6. v = "none" => polls'[r] < Polls
    BY <2>2, <2>4, <2>5
  <2> QED
    BY <2>1, <2>3, <2>4, <2>6 DEF upstream
<1>9. ASSUME NEW r \in Requests, CaseOutcome(r) \/ FinishExecution(r) PROVE StageInv'
  BY <1>9 DEF CaseOutcome, FinishExecution
<1>10. ASSUME NEW r \in Requests, Take(r) \/ TurnDown(r) \/ HangUp(r) PROVE StageInv'
  BY <1>10 DEF Take, TurnDown, HangUp
<1>11. ASSUME NEW r \in Requests, FlowEnds(r) PROVE StageInv'
  <2>1. \E state \in {"finished", "partial", "error"} : flow' = [flow EXCEPT ![r] = state]
    BY <1>11 DEF FlowEnds
  <2>2. flow[r] = "running" /\ UNCHANGED <<pc, verdict, polls, net>>
    BY <1>11 DEF FlowEnds
  <2> QED
    BY <2>1, <2>2
<1> QED
  BY StepCases, <1>1, <1>2, <1>3, <1>4, <1>5, <1>6, <1>7, <1>8, <1>9, <1>10, <1>11

(* Only the end of a handler writes a record, and it writes its verdict.   *)
LEMMA RecordStep ==
  ASSUME IInv, [Next]_vars
  PROVE  RecordInv'
<1> USE DEF IInv, ResponseInv, TypeOK, StageInv, RecordInv, Succeeded, Failed, InFlight,
            GoTo, Conclude, Send, Kept, upstream, records, handler
<1>1. CASE UNCHANGED vars
  BY <1>1 DEF vars
<1>2. CASE Crash
  BY <1>2 DEF Crash
<1>3. ASSUME NEW r \in Requests, CaseRequest(r) PROVE RecordInv'
  BY <1>3 DEF CaseRequest, Begin
<1>4. ASSUME NEW r \in Requests, ExecuteTemplate(r) PROVE RecordInv'
  BY <1>4 DEF ExecuteTemplate, Begin
<1>5. ASSUME NEW r \in Requests, Refuse(r) \/ Acknowledge(r) \/ Preflight(r)
                                  \/ ManagerToken(r) \/ TriggerWorkflow(r)
      PROVE  RecordInv'
  BY <1>5 DEF Refuse, Acknowledge, Preflight, ManagerToken, TriggerWorkflow
<1>6. ASSUME NEW r \in Requests, Answered(r) \/ GiveUp(r) PROVE RecordInv'
  <2>1. /\ pc[r] = "wait" /\ UNCHANGED <<audit, execution>>
        /\ \A q \in Requests \ {r} : pc'[q] = pc[q] /\ verdict'[q] = verdict[q]
    BY <1>6 DEF Answered, GiveUp
  <2> QED
    BY <2>1
<1>7. ASSUME NEW r \in Requests, Poll(r) PROVE RecordInv'
  <2>1. pc[r] = "poll" /\ UNCHANGED records
    BY <1>7 DEF Poll
  <2> QED
    BY <1>7, <2>1, PollCases
<1>8. ASSUME NEW r \in Requests, CaseOutcome(r) PROVE RecordInv'
  BY <1>8 DEF CaseOutcome, Audited
<1>9. ASSUME NEW r \in Requests, FinishExecution(r) PROVE RecordInv'
  BY <1>9 DEF FinishExecution, Status
<1>10. ASSUME NEW r \in Requests,
              Take(r) \/ TurnDown(r) \/ FlowEnds(r) \/ HangUp(r)
       PROVE  RecordInv'
  <2>1. CASE HangUp(r)
    BY <2>1 DEF HangUp
  <2>2. CASE Take(r) \/ TurnDown(r) \/ FlowEnds(r)
    <3>1. UNCHANGED <<pc, verdict, audit, execution>>
      BY <2>2 DEF Take, TurnDown, FlowEnds
    <3> QED
      BY <3>1
  <2> QED
    BY <1>10, <2>1, <2>2
<1> QED
  BY StepCases, <1>1, <1>2, <1>3, <1>4, <1>5, <1>6, <1>7, <1>8, <1>9, <1>10

(* A verdict stays true whatever the upstream does later.                  *)
LEMMA VerdictStep ==
  ASSUME IInv, [Next]_vars
  PROVE  VerdictInv'
<1> USE DEF IInv, ResponseInv, TypeOK, StageInv, VerdictInv, Definite, NotTaken,
            BrokenOff, Broken, InFlight, GoTo, Conclude, Send, Kept, upstream, records, handler
<1>1. CASE UNCHANGED vars
  BY <1>1 DEF vars
<1>2. CASE Crash
  BY <1>2 DEF Crash
<1>3. ASSUME NEW r \in Requests,
             CaseRequest(r) \/ ExecuteTemplate(r) \/ CaseOutcome(r)
               \/ FinishExecution(r) \/ HangUp(r)
      PROVE  VerdictInv'
  BY <1>3 DEF CaseRequest, ExecuteTemplate, Begin, CaseOutcome, FinishExecution, HangUp
<1>4. ASSUME NEW r \in Requests, Refuse(r) \/ Acknowledge(r) \/ Preflight(r)
                                  \/ ManagerToken(r) \/ TriggerWorkflow(r)
      PROVE  VerdictInv'
  BY <1>4 DEF Refuse, Acknowledge, Preflight, ManagerToken, TriggerWorkflow
<1>5. ASSUME NEW r \in Requests, Answered(r) PROVE VerdictInv'
  <2>1. UNCHANGED <<net, flow, polls>> /\ net[r] \in {"taken", "refused"}
    BY <1>5 DEF Answered
  <2>2. CASE UNCHANGED verdict
    BY <2>1, <2>2
  <2>3. CASE Conclude(r, "failure") /\ Via[r] = "velociraptor"
    <3>1. net[r] = "refused" \/ FlowIdShape # "string"
      BY <1>5, <2>1, <2>3 DEF Answered, FlowIdRead
    <3> QED
      BY <2>1, <2>3, <3>1
  <2>4. CASE Conclude(r, "failure") /\ net[r] = "refused"
    BY <2>1, <2>4
  <2>5. CASE /\ Conclude(r, "success")
             /\ Via[r] # "velociraptor"
             /\ Via[r] \in {"wazuh", "shuffle"} => net[r] = "taken"
    BY <2>1, <2>5
  <2>6. \/ UNCHANGED verdict
        \/ Conclude(r, "failure") /\ Via[r] = "velociraptor"
        \/ Conclude(r, "failure") /\ net[r] = "refused"
        \/ /\ Conclude(r, "success")
           /\ Via[r] # "velociraptor"
           /\ Via[r] \in {"wazuh", "shuffle"} => net[r] = "taken"
    BY <1>5, <2>1 DEF Answered
  <2> QED
    BY <2>2, <2>3, <2>4, <2>5, <2>6
<1>6. ASSUME NEW r \in Requests, GiveUp(r) PROVE VerdictInv'
  BY <1>6 DEF GiveUp, Unanswered
<1>7. ASSUME NEW r \in Requests, Poll(r) PROVE VerdictInv'
  <2>1. pc[r] = "poll" /\ UNCHANGED upstream
    BY <1>7 DEF Poll
  <2> QED
    BY <1>7, <2>1, PollCases
<1>8. ASSUME NEW r \in Requests, Take(r) \/ TurnDown(r) PROVE VerdictInv'
  BY <1>8 DEF Take, TurnDown
<1>9. ASSUME NEW r \in Requests, FlowEnds(r) PROVE VerdictInv'
  <2>1. \E state \in {"finished", "partial", "error"} : flow' = [flow EXCEPT ![r] = state]
    BY <1>9 DEF FlowEnds
  <2>2. flow[r] = "running" /\ UNCHANGED <<verdict, net, polls>>
    BY <1>9 DEF FlowEnds
  <2> QED
    BY <2>1, <2>2
<1> QED
  BY StepCases, <1>1, <1>2, <1>3, <1>4, <1>5, <1>6, <1>7, <1>8, <1>9

(* A host stays as the last finished flow left it while no other flow of   *)
(* it can move.                                                            *)
LEMMA HostStep ==
  ASSUME IInv, [Next]_vars
  PROVE  HostInv'
<1> USE DEF IInv, ResponseInv, TypeOK, StageInv, HostInv, OnHost, Alone, Settled, InFlight,
            GoTo, Conclude, Send, Kept, upstream, records, handler
<1>1. CASE UNCHANGED vars
  BY <1>1 DEF vars
<1>2. CASE Crash
  BY <1>2 DEF Crash
<1>3. ASSUME NEW r \in Requests, CaseRequest(r) \/ ExecuteTemplate(r)
      PROVE  HostInv'
  <2>1. /\ pc[r] = "new" /\ pc'[r] # "new"
        /\ \A q \in Requests \ {r} : pc'[q] = pc[q]
        /\ UNCHANGED <<verdict, flow, endpoint>>
        /\ before' = [before EXCEPT
                        ![r] = {q \in Requests : Host[q] = Host[r] /\ Settled(q)}]
    BY <1>3 DEF CaseRequest, ExecuteTemplate, Begin
  <2>2. \A q \in Requests : Settled(q) => Settled(q)'
    BY <2>1
  <2>3. \A q \in Requests : \A p \in before'[q] : Settled(p)'
    BY <2>1, <2>2
  <2>4. flow[r] = "none"
    BY <2>1
  <2>5. \A q \in Requests : q # r /\ Alone(q)' => Alone(q)
    BY <2>1
  <2> QED
    BY <2>1, <2>3, <2>4, <2>5
<1>4. ASSUME NEW r \in Requests,
             pc[r] \in InFlight, pc'[r] # "new",
             \A q \in Requests \ {r} : pc'[q] = pc[q] /\ verdict'[q] = verdict[q],
             UNCHANGED <<flow, endpoint, before>>
      PROVE  HostInv'
  BY <1>4
<1>5. ASSUME NEW r \in Requests, Refuse(r) \/ Acknowledge(r) \/ Preflight(r)
                                  \/ ManagerToken(r) \/ TriggerWorkflow(r)
      PROVE  HostInv'
  BY <1>4, <1>5 DEF Refuse, Acknowledge, Preflight, ManagerToken, TriggerWorkflow
<1>6. ASSUME NEW r \in Requests, Answered(r) \/ GiveUp(r) PROVE HostInv'
  BY <1>4, <1>6 DEF Answered, GiveUp
<1>7. ASSUME NEW r \in Requests, Poll(r) PROVE HostInv'
  <2>1. pc[r] = "poll" /\ UNCHANGED <<upstream, before>>
    BY <1>7 DEF Poll
  <2> QED
    BY <1>4, <1>7, <2>1, PollCases
<1>8. ASSUME NEW r \in Requests, CaseOutcome(r) \/ FinishExecution(r) \/ HangUp(r)
      PROVE  HostInv'
  BY <1>4, <1>8 DEF CaseOutcome, FinishExecution, HangUp
<1>9. ASSUME NEW r \in Requests, Take(r) \/ TurnDown(r) PROVE HostInv'
  BY <1>9 DEF Take, TurnDown
<1>10. ASSUME NEW r \in Requests, FlowEnds(r) PROVE HostInv'
  <2>1. flow[r] = "running" /\ UNCHANGED <<pc, verdict, before>>
    BY <1>10 DEF FlowEnds
  <2>2. \/ flow' = [flow EXCEPT ![r] = "finished"] /\ Apply(r)
        \/ flow' = [flow EXCEPT ![r] = "partial"] /\ Apply(r)
        \/ flow' = [flow EXCEPT ![r] = "error"] /\ UNCHANGED endpoint
    BY <1>10 DEF FlowEnds
  <2>3. \A q \in Requests : \A p \in before'[q] : Settled(p)'
    BY <2>1
  <2>4. SUFFICES ASSUME FlowIdShape = "string",
                        NEW q \in Requests,
                        Via[q] = "velociraptor", flow'[q] = "finished", Alone(q)'
                 PROVE  endpoint'[Host[q]] = Wants[q]
    BY <2>3
  <2>5. Alone(q)
    BY <2>1, <2>4
  <2>6. CASE q = r
    <3>1. Apply(r)
      BY <2>2, <2>4, <2>6
    <3> QED
      BY <2>4, <2>6, <3>1, RequestsAssumption DEF Apply
  <2>7. CASE q # r
    <3>1. endpoint[Host[q]] = Wants[q]
      <4>1. flow[q] = "finished"
        BY <2>2, <2>4, <2>7
      <4> QED
        BY <2>4, <2>5, <4>1
    <3>2. \/ endpoint' = endpoint
          \/ Via[r] = "velociraptor" /\ endpoint' = [endpoint EXCEPT ![Host[r]] = Wants[r]]
      BY <2>2 DEF Apply
    <3>3. ASSUME Via[r] = "velociraptor", Host[r] = Host[q] PROVE FALSE
      <4>1. pc[r] = "new" \/ r \in before[q]
        BY <2>5, <2>7, <3>3
      <4>2. pc[r] # "new"
        BY <2>1
      <4>3. verdict[r] \in {"success", "failure"}
        BY <4>1, <4>2
      <4> QED
        BY <2>1, <2>4, <3>3, <4>3 DEF VerdictInv, Definite, NotTaken, BrokenOff, Broken
    <3> QED
      BY <3>1, <3>2, <3>3, RequestsAssumption
  <2> QED
    BY <2>6, <2>7
<1> QED
  BY StepCases, <1>1, <1>2, <1>3, <1>5, <1>6, <1>7, <1>8, <1>9, <1>10

-----------------------------------------------------------------------------
(***************************************************************************)
(* The theorems.                                                           *)
(***************************************************************************)

(* The invariant holds in every reachable state.                           *)
LEMMA Inductive == Spec => []IInv
<1>1. IInv /\ [Next]_vars => IInv'
  BY TypeStep, StageStep, RecordStep, VerdictStep, HostStep DEF IInv, ResponseInv
<1> QED
  BY InitInvariant, <1>1, PTL DEF Spec

(* Every state of the handlers, the wire and the records is well typed;    *)
(* the polling loop stays within its bound.                                *)
THEOREM TypeCorrect == Spec => []TypeOK
<1>1. IInv => TypeOK
  BY DEF IInv
<1> QED
  BY <1>1, Inductive, PTL

(* The invariant the other theorems rest on.                               *)
THEOREM Invariance == Spec => []ResponseInv
<1>1. IInv => ResponseInv
  BY DEF IInv
<1> QED
  BY <1>1, Inductive, PTL

(* A success on record is one, whatever was lost or came late.             *)
THEOREM SuccessIsTrue == Spec => []SuccessIsReal
<1>1. IInv => SuccessIsReal
  BY DEF IInv, ResponseInv, RecordInv, VerdictInv, SuccessIsReal
<1> QED
  BY <1>1, Inductive, PTL

(* A failure in the audit log is the end of its action: no upstream has    *)
(* taken it or will, or its flow was followed to an error.  What such a    *)
(* flow had changed on the host by then is left open.                      *)
THEOREM FailureIsFinal == Spec => []FailureEndsIt
<1>1. IInv => FailureEndsIt
  BY DEF IInv, ResponseInv, RecordInv, VerdictInv, FailureEndsIt
<1> QED
  BY <1>1, Inductive, PTL

(* The last success on record is the state of the host, when the requests  *)
(* before it were settled.                                                 *)
THEOREM HostAsReported == Spec => []EndpointAsReported
<1>1. IInv => EndpointAsReported
  BY DEF IInv, ResponseInv, RecordInv, VerdictInv, HostInv, EndpointAsReported
<1> QED
  BY <1>1, Inductive, PTL

-----------------------------------------------------------------------------
(***************************************************************************)
(* The records are a ledger.                                               *)
(***************************************************************************)

(* Until its handler ends nothing is told of a request; one that no        *)
(* connector supports is refused before any call; and Wazuh fails a        *)
(* command only by refusing it.                                            *)
BookInv ==
  \A r \in Requests :
    /\ pc[r] # "done" => audit[r] \subseteq {"request"} /\ execution[r] \in {"none", "running"}
    /\ Via[r] = "unsupported" => pc[r] \notin {"wait", "poll"} /\ verdict[r] \in {"none", "failure"}
    /\ Via[r] = "wazuh" /\ verdict[r] = "failure" => net[r] = "refused"

(* The ledger's invariant holds before any request.                        *)
LEMMA BookInit == Init => BookInv
BY DEF Init, BookInv

(* Every step keeps it.                                                    *)
LEMMA BookStep ==
  ASSUME IInv, BookInv, [Next]_vars
  PROVE  BookInv'
<1> USE DEF IInv, ResponseInv, TypeOK, StageInv, BookInv, InFlight,
            GoTo, Conclude, Send, Kept, upstream, records, handler
<1>1. CASE UNCHANGED vars
  BY <1>1 DEF vars
<1>2. CASE Crash
  BY <1>2 DEF Crash
<1>3. ASSUME NEW r \in Requests, CaseRequest(r) PROVE BookInv'
  BY <1>3 DEF CaseRequest, Begin
<1>4. ASSUME NEW r \in Requests, ExecuteTemplate(r) PROVE BookInv'
  BY <1>4 DEF ExecuteTemplate, Begin
<1>5. ASSUME NEW r \in Requests, Refuse(r) \/ Acknowledge(r) \/ Preflight(r)
                                  \/ ManagerToken(r) \/ TriggerWorkflow(r)
      PROVE  BookInv'
  BY <1>5 DEF Refuse, Acknowledge, Preflight, ManagerToken, TriggerWorkflow
<1>6. ASSUME NEW r \in Requests, Answered(r) PROVE BookInv'
  BY <1>6 DEF Answered
<1>7. ASSUME NEW r \in Requests, GiveUp(r) PROVE BookInv'
  BY <1>7 DEF GiveUp, Unanswered
<1>8. ASSUME NEW r \in Requests, Poll(r) PROVE BookInv'
  <2>1. pc[r] = "poll" /\ Via[r] = "velociraptor" /\ UNCHANGED <<net, audit, execution>>
    BY <1>8 DEF Poll
  <2> QED
    BY <1>8, <2>1, PollCases
<1>9. ASSUME NEW r \in Requests, CaseOutcome(r) \/ FinishExecution(r) PROVE BookInv'
  BY <1>9 DEF CaseOutcome, FinishExecution
<1>10. ASSUME NEW r \in Requests, Take(r) \/ TurnDown(r) \/ HangUp(r) PROVE BookInv'
  BY <1>10 DEF Take, TurnDown, HangUp
<1>11. ASSUME NEW r \in Requests, FlowEnds(r) PROVE BookInv'
  BY <1>11 DEF FlowEnds
<1> QED
  BY StepCases, <1>1, <1>2, <1>3, <1>4, <1>5, <1>6, <1>7, <1>8, <1>9, <1>10, <1>11

(* A call is sent by the handler that starts, and neither what became of   *)
(* it nor what became of its job is taken back.                            *)
LEMMA CallsGoOn ==
  ASSUME IInv, [Next]_vars, NEW q \in Requests
  PROVE  /\ net[q] = "none" => net'[q] = "none" \/ (pc[q] = "start" /\ net'[q] = "sent")
         /\ net[q] \in {"taken", "refused", "lost"} => net'[q] = net[q]
         /\ flow[q] \in {"finished", "partial", "error"} => flow'[q] = flow[q]
         /\ pc[q] \notin {"new", "start"} => pc'[q] \notin {"new", "start"}
<1> USE DEF IInv, ResponseInv, TypeOK, InFlight, Broken,
            GoTo, Conclude, Send, Kept, upstream, records, handler
<1>1. CASE UNCHANGED vars
  BY <1>1 DEF vars
<1>2. CASE Crash
  BY <1>2 DEF Crash
<1>3. ASSUME NEW r \in Requests, CaseRequest(r) \/ ExecuteTemplate(r)
      PROVE  UNCHANGED <<net, flow>> /\ (pc[q] # "new" => pc'[q] = pc[q])
  BY <1>3 DEF CaseRequest, ExecuteTemplate, Begin
<1>4. ASSUME NEW r \in Requests, Refuse(r) \/ Acknowledge(r) \/ Preflight(r)
                                  \/ ManagerToken(r) \/ TriggerWorkflow(r)
      PROVE  /\ UNCHANGED flow /\ (pc[q] # "start" => pc'[q] = pc[q])
             /\ net'[q] = net[q] \/ (pc[q] = "start" /\ net'[q] = "sent")
  BY <1>4 DEF Refuse, Acknowledge, Preflight, ManagerToken, TriggerWorkflow
<1>5. ASSUME NEW r \in Requests, Answered(r) \/ GiveUp(r) \/ CaseOutcome(r) \/ FinishExecution(r)
                                  \/ HangUp(r)
      PROVE  UNCHANGED <<net, flow>> /\ (pc'[q] = pc[q] \/ pc'[q] \notin {"new", "start"})
  BY <1>5 DEF Answered, GiveUp, CaseOutcome, FinishExecution, HangUp
<1>6. ASSUME NEW r \in Requests, Poll(r)
      PROVE  UNCHANGED <<net, flow>> /\ (pc'[q] = pc[q] \/ pc'[q] \notin {"new", "start"})
  BY <1>6, PollCases DEF Poll
<1>7. ASSUME NEW r \in Requests, Take(r) \/ TurnDown(r)
      PROVE  /\ UNCHANGED pc /\ (net[q] # "sent" => net'[q] = net[q])
             /\ flow[q] \in {"finished", "partial", "error"} => flow'[q] = flow[q]
  BY <1>7 DEF Take, TurnDown, StageInv
<1>8. ASSUME NEW r \in Requests, FlowEnds(r)
      PROVE  UNCHANGED <<pc, net>> /\ (flow[q] # "running" => flow'[q] = flow[q])
  BY <1>8 DEF FlowEnds
<1>9. CASE \E r \in Requests : Refuse(r) \/ Acknowledge(r) \/ Preflight(r)
                                  \/ ManagerToken(r) \/ TriggerWorkflow(r)
  BY <1>4, <1>9 DEF StageInv
<1>10. CASE \E r \in Requests : CaseRequest(r) \/ ExecuteTemplate(r)
  BY <1>3, <1>10
<1>11. CASE \E r \in Requests : \/ Answered(r) \/ GiveUp(r) \/ CaseOutcome(r) \/ Poll(r)
                                \/ FinishExecution(r) \/ HangUp(r)
  BY <1>5, <1>6, <1>11
<1>12. CASE \E r \in Requests : Take(r) \/ TurnDown(r) \/ FlowEnds(r)
  BY <1>7, <1>8, <1>12
<1> QED
  BY StepCases, <1>1, <1>2, <1>9, <1>10, <1>11, <1>12

(* What became of an action stays.                                         *)
LEMMA FatesStay ==
  ASSUME IInv, IInv', BookInv, [Next]_vars, NEW r \in Accountable
  PROVE  FateOf(r) # "open" => FateOf(r)' = FateOf(r)
<1>1. /\ r \in Requests /\ Via[r] \in {"velociraptor", "wazuh", "unsupported"}
      /\ net[r] \in {"none", "sent", "taken", "refused", "lost"}
      /\ flow[r] \in {"none", "running", "finished", "partial", "error"}
      /\ (net[r] = "taken" <=> flow[r] # "none") /\ (net'[r] = "taken" <=> flow'[r] # "none")
      /\ pc[r] \in {"new", "start"} => net[r] = "none"
  BY DEF Accountable, IInv, TypeOK, ResponseInv, StageInv, Broken
<1>2. /\ net[r] = "none" => net'[r] = "none" \/ (pc[r] = "start" /\ net'[r] = "sent")
      /\ net[r] \in {"taken", "refused", "lost"} => net'[r] = net[r]
      /\ flow[r] \in {"finished", "partial", "error"} => flow'[r] = flow[r]
      /\ pc[r] \notin {"new", "start"} => pc'[r] \notin {"new", "start"}
  BY <1>1, CallsGoOn
<1>3. CASE Happened(r)
  BY <1>1, <1>2, <1>3 DEF FateOf, Happened
<1>4. CASE ~Happened(r) /\ ~Pending(r)
  <2>1. /\ ~Happened(r)' /\ ~Pending(r)'
        /\ flow[r] = "partial" <=> flow'[r] = "partial"
    BY <1>1, <1>2, <1>4 DEF Happened, Pending
  <2> QED
    BY <1>4, <2>1 DEF FateOf
<1> QED
  BY <1>3, <1>4 DEF FateOf

(* What is told when a handler ends is true.                               *)
LEMMA TalesAreTrue ==
  ASSUME IInv, BookInv, NEW r \in Accountable
  PROVE  /\ verdict[r] = "success" => FateOf(r) = "happened"
         /\ verdict[r] = "failure" => FateOf(r) \in {"never", "partly"}
<1>1. /\ r \in Requests /\ Via[r] \in {"velociraptor", "wazuh", "unsupported"}
      /\ Via[r] = "velociraptor" => FlowIdShape = "string"
      /\ net[r] \in {"none", "sent", "taken", "refused", "lost"}
      /\ net[r] = "taken" <=> flow[r] # "none"
      /\ pc[r] \in {"new", "start"} => verdict[r] = "none"
  BY DEF Accountable, IInv, TypeOK, ResponseInv, StageInv
<1>2. /\ Via[r] = "unsupported" => verdict[r] # "success"
      /\ Via[r] = "wazuh" /\ verdict[r] = "failure" => net[r] = "refused"
  BY <1>1 DEF BookInv
<1>3. /\ verdict[r] = "success" /\ Via[r] = "velociraptor" => flow[r] = "finished"
      /\ verdict[r] = "success" /\ Via[r] = "wazuh" => net[r] = "taken"
      /\ verdict[r] = "failure" => NotTaken(r) \/ BrokenOff(r)
  BY <1>1 DEF IInv, ResponseInv, VerdictInv, Definite
<1> QED
  BY <1>1, <1>2, <1>3 DEF FateOf, Happened, Pending, NotTaken, BrokenOff, Broken

(* The steps that tell nothing.                                            *)
LEMMA NothingIsTold ==
  ASSUME IInv, BookInv, [Next]_vars,
         ~ \E r \in Requests : CaseOutcome(r) \/ FinishExecution(r)
  PROVE  \A q \in Requests : ToldOf(q)' = ToldOf(q)
<1> USE DEF ToldOf, Succeeded, Failed
<1>1. CASE UNCHANGED records
  BY <1>1 DEF records
<1>2. ASSUME NEW r \in Requests, CaseRequest(r)
      PROVE  \A q \in Requests : ToldOf(q)' = ToldOf(q)
  <2>1. /\ execution' = execution /\ (audit' = audit \/ audit' = [audit EXCEPT ![r] = @ \cup {"request"}])
        /\ audit \in [Requests -> SUBSET {"request", "success", "failure", "timeout"}]
    BY <1>2 DEF CaseRequest, IInv, TypeOK
  <2>2. \A q \in Requests : \A t \in {"success", "failure", "timeout"} : t \in audit'[q] <=> t \in audit[q]
    BY <2>1
  <2> QED
    BY <2>1, <2>2
<1>3. ASSUME NEW r \in Requests, ExecuteTemplate(r)
      PROVE  \A q \in Requests : ToldOf(q)' = ToldOf(q)
  <2>1. /\ audit' = audit /\ (execution' = execution \/ execution' = [execution EXCEPT ![r] = "running"])
        /\ execution \in [Requests -> {"none", "running", "completed", "failed"}]
        /\ execution[r] \in {"none", "running"}
    BY <1>3 DEF ExecuteTemplate, Begin, IInv, TypeOK, BookInv
  <2>2. \A q \in Requests : \A t \in {"completed", "failed"} : execution'[q] = t <=> execution[q] = t
    BY <2>1
  <2> QED
    BY <2>1, <2>2
<1>4. CASE UNCHANGED vars
  BY <1>1, <1>4 DEF vars
<1>5. ASSUME \/ Crash
             \/ \E r \in Requests :
                  \/ Refuse(r) \/ Acknowledge(r) \/ Preflight(r) \/ ManagerToken(r)
                  \/ TriggerWorkflow(r) \/ Answered(r) \/ GiveUp(r) \/ Poll(r)
                  \/ Take(r) \/ TurnDown(r) \/ FlowEnds(r) \/ HangUp(r)
      PROVE  UNCHANGED records
  BY <1>5 DEF Crash, Refuse, Acknowledge, Preflight, ManagerToken, TriggerWorkflow, Answered,
              GiveUp, Poll, Take, TurnDown, FlowEnds, HangUp, Kept, records
<1> QED
  BY StepCases, <1>1, <1>2, <1>3, <1>4, <1>5

(* A handler that ends tells one thing of one action.                      *)
LEMMA OneIsTold ==
  ASSUME IInv, BookInv, NEW r \in Requests, CaseOutcome(r) \/ FinishExecution(r)
  PROVE  /\ \A q \in Requests : FateOf(q)' = FateOf(q)
         /\ \A q \in Requests \ {r} : ToldOf(q)' = ToldOf(q)
         /\ ToldOf(r) = "nothing"
         /\ ToldOf(r)' \in {"nothing", "unknown", "success", "failure"}
         /\ ToldOf(r)' = "success" => verdict[r] = "success"
         /\ ToldOf(r)' = "failure" => verdict[r] = "failure"
<1>1. /\ pc[r] = "report" /\ pc' = [pc EXCEPT ![r] = "done"] /\ UNCHANGED upstream
      /\ pc \in [Requests -> InFlight \cup {"new", "done", "gone"}]
      /\ audit[r] \subseteq {"request"} /\ execution[r] \in {"none", "running"}
      /\ audit \in [Requests -> SUBSET {"request", "success", "failure", "timeout"}]
      /\ execution \in [Requests -> {"none", "running", "completed", "failed"}]
  BY DEF CaseOutcome, FinishExecution, GoTo, IInv, TypeOK, BookInv
<1>2. \A q \in Requests : FateOf(q)' = FateOf(q)
  <2>1. \A q \in Requests : pc'[q] \in {"new", "start"} <=> pc[q] \in {"new", "start"}
    BY <1>1
  <2> QED
    BY <1>1, <2>1 DEF FateOf, Happened, Pending, upstream
<1>3. \/ execution' = execution
         /\ (audit' = audit \/ audit' = [audit EXCEPT ![r] = @ \cup {Audited(verdict[r])}])
      \/ audit' = audit
         /\ (execution' = execution \/ execution' = [execution EXCEPT ![r] = Status(verdict[r])])
  BY DEF CaseOutcome, FinishExecution
<1>4. \A q \in Requests \ {r} : audit'[q] = audit[q] /\ execution'[q] = execution[q]
  BY <1>1, <1>3
<1>5. ToldOf(r) = "nothing"
  BY <1>1 DEF ToldOf, Succeeded, Failed
<1>6. /\ audit'[r] \in {audit[r], audit[r] \cup {Audited(verdict[r])}}
      /\ execution'[r] \in {execution[r], Status(verdict[r])}
  BY <1>1, <1>3
<1>7. /\ "success" \in audit'[r] => verdict[r] = "success"
      /\ execution'[r] = "completed" => verdict[r] = "success"
      /\ "failure" \in audit'[r] => verdict[r] = "failure"
  BY <1>1, <1>6 DEF Audited, Status
<1>8. \A q \in Requests \ {r} : ToldOf(q)' = ToldOf(q)
  BY <1>4 DEF ToldOf, Succeeded, Failed
<1>9. /\ ToldOf(r)' \in {"nothing", "unknown", "success", "failure"}
      /\ ToldOf(r)' = "success" => verdict[r] = "success"
      /\ ToldOf(r)' = "failure" => verdict[r] = "failure"
  BY <1>7 DEF ToldOf, Succeeded, Failed
<1> QED
  BY <1>2, <1>5, <1>8, <1>9

(* The handlers start where the ledger starts.                             *)
LEMMA LedgerInit == Init => Book!Init
<1> SUFFICES ASSUME Init PROVE Book!Init
  OBVIOUS
<1>1. \A r \in Accountable : FateOf(r) = "open" /\ ToldOf(r) = "nothing"
  BY DEF Init, Accountable, FateOf, ToldOf, Happened, Pending, Succeeded, Failed
<1> QED
  BY <1>1 DEF Book!Init

(* Every step of the handlers and the upstreams is one of the ledger, or   *)
(* leaves it alone.                                                        *)
LEMMA LedgerStep ==
  ASSUME IInv, IInv', BookInv, [Next]_vars
  PROVE  [Book!Next]_Book!ledger
<1>1. Accountable \subseteq Requests
  BY DEF Accountable
<1>2. ASSUME NEW r \in Requests, CaseOutcome(r) \/ FinishExecution(r)
      PROVE  [Book!Next]_Book!ledger
  <2>1. /\ \A q \in Requests : FateOf(q)' = FateOf(q)
        /\ \A q \in Requests \ {r} : ToldOf(q)' = ToldOf(q)
        /\ ToldOf(r) = "nothing"
        /\ ToldOf(r)' \in {"nothing", "unknown", "success", "failure"}
        /\ ToldOf(r)' = "success" => verdict[r] = "success"
        /\ ToldOf(r)' = "failure" => verdict[r] = "failure"
    BY <1>2, OneIsTold
  <2>2. [q \in Accountable |-> FateOf(q)]' = [q \in Accountable |-> FateOf(q)]
    BY <1>1, <2>1
  <2>3. CASE r \in Accountable /\ ToldOf(r)' # "nothing"
    <3>1. PICK t \in {"unknown", "success", "failure"} : t = ToldOf(r)'
      BY <2>1, <2>3
    <3>2. [q \in Accountable |-> ToldOf(q)]'
            = [[q \in Accountable |-> ToldOf(q)] EXCEPT ![r] = t]
      BY <1>1, <2>1, <2>3, <3>1
    <3>3. /\ t = "success" => FateOf(r) = "happened"
          /\ t = "failure" => FateOf(r) \in {"never", "partly"}
      BY <2>1, <2>3, <3>1, TalesAreTrue
    <3>4. Book!Tell(r)
      BY <2>1, <2>2, <2>3, <3>2, <3>3 DEF Book!Tell, Book!Tales
    <3> QED
      BY <2>3, <3>4 DEF Book!Next
  <2>4. CASE r \notin Accountable \/ ToldOf(r)' = "nothing"
    <3>1. [q \in Accountable |-> ToldOf(q)]' = [q \in Accountable |-> ToldOf(q)]
      BY <1>1, <2>1, <2>4
    <3> QED
      BY <2>2, <3>1 DEF Book!ledger
  <2> QED
    BY <2>3, <2>4
<1>3. CASE ~ \E r \in Requests : CaseOutcome(r) \/ FinishExecution(r)
  <2>1. [q \in Accountable |-> ToldOf(q)]' = [q \in Accountable |-> ToldOf(q)]
    BY <1>1, <1>3, NothingIsTold
  <2>2. \A q \in Accountable : FateOf(q) # "open" => FateOf(q)' = FateOf(q)
    BY FatesStay
  <2>3. \A q \in Accountable : FateOf(q)' \in {"open", "happened", "partly", "never"}
    BY DEF FateOf
  <2>4. Book!Settle
    BY <2>1, <2>2, <2>3 DEF Book!Settle, Book!Fates
  <2> QED
    BY <2>4 DEF Book!Next
<1> QED
  BY <1>2, <1>3

(* Every behaviour of the handlers is one of the ledger: what the records  *)
(* tell of an action is told once and is true for good, whatever is lost,  *)
(* late, or broken off.                                                    *)
THEOREM Refinement == Spec => ImplementsLedger
<1>1. Init => BookInv
  BY BookInit
<1>2. IInv /\ BookInv /\ [Next]_vars => BookInv'
  BY BookStep
<1>3. Init => Book!Init
  BY LedgerInit
<1>4. IInv /\ IInv' /\ BookInv /\ [Next]_vars => [Book!Next]_Book!ledger
  BY LedgerStep
<1> QED
  BY <1>1, <1>2, <1>3, <1>4, Inductive, PTL DEF Spec, ImplementsLedger, Book!Spec
=============================================================================
