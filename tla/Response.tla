------------------------------ MODULE Response ------------------------------
(***************************************************************************)
(* Response actions, from the analyst's request to the record of their     *)
(* outcome: the two handlers that dispatch them (routes/cases.rs, which    *)
(* writes the audit log, and services/actions.rs, which writes             *)
(* action_executions), push_action of each connector, and, as the handlers *)
(* see them, Velociraptor, the Wazuh manager and Shuffle.                  *)
(*                                                                         *)
(* A request on the wire is a state of its own: it can still arrive after  *)
(* the handler stopped waiting for the answer.                             *)
(*                                                                         *)
(*    new -> start -> wait -> poll -> report -> done                       *)
(*             \--------\------------/                                     *)
(*    (gone: the client hung up or the process died; the handler is lost)  *)
(***************************************************************************)
EXTENDS Integers, FiniteSets

CONSTANTS
  Requests,     \* requests of analysts
  Hosts,        \* endpoints
  Entry,        \* Entry[r]: the handler that serves r
  Via,          \* Via[r]: who is asked to carry r out (see Routes)
  Host,         \* Host[r]: the endpoint r is about
  Wants,        \* Wants[r]: the isolation r asks for
  ShuffleOn,    \* whether a Shuffle connector is registered
  FlowIdShape,  \* how collect_client's reply carries its flow id
  Polls,        \* how often push_action polls a flow (15)
  MaxFaults     \* bound: database failures in a behaviour

(***************************************************************************)
(* "unsupported": an action type its connector refuses (Graylog refuses    *)
(* all).  "local": a template the service answers itself.  "generic": any  *)
(* other template, offered to every connector in turn under its own name;  *)
(* only Shuffle, which takes it for a workflow id, can accept it.          *)
(***************************************************************************)
Routes == {"velociraptor", "wazuh", "shuffle", "unsupported", "local", "generic"}

Isolation == {"isolated", "open"}

ASSUME RequestsAssumption ==
  /\ Entry \in [Requests -> {"case", "template"}]
  /\ Via \in [Requests -> Routes]
  /\ Host \in [Requests -> Hosts]
  /\ Wants \in [Requests -> Isolation]
  /\ \A r \in Requests :
       /\ Via[r] \in {"local", "generic"} => Entry[r] = "template"
       /\ Via[r] = "shuffle" => Entry[r] = "case" /\ ShuffleOn

ASSUME ParametersAssumption ==
  /\ ShuffleOn \in BOOLEAN
  /\ FlowIdShape \in {"string", "object"}
  /\ Polls \in Nat \ {0}
  /\ MaxFaults \in Nat

VARIABLES
  pc,         \* pc[r]: where the handler of r is
  verdict,    \* verdict[r]: the ActionResult of push_action ("error": an Err)
  polls,      \* polls[r]: how often its flow was polled
  net,        \* net[r]: the triggering call on its way to the upstream
  flow,       \* flow[r]: the upstream's job for r
  endpoint,   \* endpoint[h]: whether host h is isolated
  audit,      \* audit[r]: the actions of its audit_log rows
  execution,  \* execution[r]: action_executions.status
  faults,     \* database failures that may still happen
  before      \* history: requests for its host that were settled when r began

handler  == <<pc, verdict, polls>>
upstream == <<net, flow, endpoint>>
records  == <<audit, execution>>
vars     == <<handler, upstream, records, faults, before>>

InFlight == {"start", "wait", "poll", "report"}
(* A flow in state ERROR changed nothing, or broke off after a change.     *)
Broken   == {"error", "partial"}
Verdicts == {"success", "failure", "timeout", "error"}

TypeOK ==
  /\ pc \in [Requests -> InFlight \cup {"new", "done", "gone"}]
  /\ verdict \in [Requests -> Verdicts \cup {"none"}]
  /\ polls \in [Requests -> 0..Polls]
  /\ net \in [Requests -> {"none", "sent", "taken", "refused", "lost"}]
  /\ flow \in [Requests -> {"none", "running", "finished"} \cup Broken]
  /\ endpoint \in [Hosts -> Isolation]
  /\ audit \in [Requests -> SUBSET {"request", "success", "failure", "timeout"}]
  /\ execution \in [Requests -> {"none", "running", "completed", "failed"}]
  /\ faults \in 0..MaxFaults
  /\ before \in [Requests -> SUBSET Requests]

Init ==
  /\ pc = [r \in Requests |-> "new"]
  /\ verdict = [r \in Requests |-> "none"]
  /\ polls = [r \in Requests |-> 0]
  /\ net = [r \in Requests |-> "none"]
  /\ flow = [r \in Requests |-> "none"]
  /\ endpoint = [h \in Hosts |-> "open"]
  /\ audit = [r \in Requests |-> {}]
  /\ execution = [r \in Requests |-> "none"]
  /\ faults = MaxFaults
  /\ before = [r \in Requests |-> {}]

Settled(r) == pc[r] = "done" /\ verdict[r] \in {"success", "failure"}

GoTo(r, place) == pc' = [pc EXCEPT ![r] = place]

Conclude(r, v) ==
  /\ verdict' = [verdict EXCEPT ![r] = v]
  /\ GoTo(r, "report")

Fault ==
  /\ faults > 0
  /\ faults' = faults - 1

-----------------------------------------------------------------------------
(***************************************************************************)
(* The handlers: what they record before.                                  *)
(***************************************************************************)

Begin(r) ==
  /\ pc[r] = "new"
  /\ before' = [before EXCEPT ![r] = {q \in Requests : Host[q] = Host[r] /\ Settled(q)}]
  /\ UNCHANGED <<verdict, polls, upstream>>

(* The row 'action_request'; a failing INSERT is ignored. *)
CaseRequest(r) ==
  /\ Entry[r] = "case"
  /\ Begin(r)
  /\ GoTo(r, "start")
  /\ \/ audit' = [audit EXCEPT ![r] = @ \cup {"request"}] /\ UNCHANGED faults
     \/ Fault /\ UNCHANGED audit
  /\ UNCHANGED execution

(* The row with status 'running'; without it nothing is dispatched. *)
ExecuteTemplate(r) ==
  /\ Entry[r] = "template"
  /\ Begin(r)
  /\ \/ /\ execution' = [execution EXCEPT ![r] = "running"]
        /\ GoTo(r, "start")
        /\ UNCHANGED faults
     \/ /\ Fault
        /\ GoTo(r, "done")
        /\ UNCHANGED execution
  /\ UNCHANGED audit

-----------------------------------------------------------------------------
(***************************************************************************)
(* push_action, up to the call that triggers the action.                   *)
(***************************************************************************)

Kept == UNCHANGED <<polls, flow, endpoint, records, faults, before>>

Send(r) ==
  /\ net' = [net EXCEPT ![r] = "sent"]
  /\ GoTo(r, "wait")
  /\ UNCHANGED verdict

Refuse(r) ==
  /\ pc[r] = "start"
  /\ Via[r] = "unsupported"
  /\ Conclude(r, "failure")
  /\ Kept /\ UNCHANGED net

(* No connector is asked, or none accepts: the dispatch is Ok. *)
Acknowledge(r) ==
  /\ pc[r] = "start"
  /\ Via[r] = "local" \/ (Via[r] = "generic" /\ ~ShuffleOn)
  /\ Conclude(r, "success")
  /\ Kept /\ UNCHANGED net

(* Velociraptor: the target must be known and seen in the last 10 minutes. *)
Preflight(r) ==
  /\ pc[r] = "start"
  /\ Via[r] = "velociraptor"
  /\ \/ Send(r)
     \/ Conclude(r, "failure") /\ UNCHANGED net
  /\ Kept

(* Wazuh: every action asks the manager for a token first. *)
ManagerToken(r) ==
  /\ pc[r] = "start"
  /\ Via[r] = "wazuh"
  /\ \/ Send(r)
     \/ Conclude(r, "error") /\ UNCHANGED net
  /\ Kept

TriggerWorkflow(r) ==
  /\ pc[r] = "start"
  /\ Via[r] = "shuffle" \/ (Via[r] = "generic" /\ ShuffleOn)
  /\ Send(r)
  /\ Kept

-----------------------------------------------------------------------------
(***************************************************************************)
(* The upstreams: they take a call, refuse it, or never see it; a job they *)
(* took ends well or not, whoever still waits for it.  A Velociraptor flow *)
(* that ends in an error may have changed the host before; its state does  *)
(* not tell.                                                               *)
(***************************************************************************)

Apply(r) ==
  endpoint' = IF Via[r] = "velociraptor"
              THEN [endpoint EXCEPT ![Host[r]] = Wants[r]] ELSE endpoint

Take(r) ==
  /\ net[r] = "sent"
  /\ net' = [net EXCEPT ![r] = "taken"]
  /\ flow' = [flow EXCEPT ![r] = "running"]
  /\ UNCHANGED <<handler, endpoint, records, faults, before>>

TurnDown(r) ==
  /\ net[r] = "sent"
  /\ net' \in {[net EXCEPT ![r] = "refused"], [net EXCEPT ![r] = "lost"]}
  /\ UNCHANGED <<handler, flow, endpoint, records, faults, before>>

FlowEnds(r) ==
  /\ flow[r] = "running"
  /\ \/ flow' = [flow EXCEPT ![r] = "finished"] /\ Apply(r)
     \/ /\ Via[r] = "velociraptor"
        /\ flow' = [flow EXCEPT ![r] = "partial"]
        /\ Apply(r)
     \/ flow' = [flow EXCEPT ![r] = "error"] /\ UNCHANGED endpoint
  /\ UNCHANGED <<handler, net, records, faults, before>>

-----------------------------------------------------------------------------
(***************************************************************************)
(* push_action, from the answer on.                                        *)
(***************************************************************************)

(* A query answered without a flow id that is a string counts as refused.  *)
FlowIdRead(r) == net[r] = "taken" /\ FlowIdShape = "string"

Answered(r) ==
  /\ pc[r] = "wait"
  /\ net[r] \in {"taken", "refused"}
  /\ CASE Via[r] = "velociraptor" /\ FlowIdRead(r) ->
            GoTo(r, "poll") /\ UNCHANGED verdict
       [] Via[r] = "velociraptor" /\ ~FlowIdRead(r) -> Conclude(r, "failure")
       [] Via[r] \in {"wazuh", "shuffle"} ->
            Conclude(r, IF net[r] = "taken" THEN "success" ELSE "failure")
       [] OTHER -> Conclude(r, "success")   \* "acknowledged", whatever Shuffle said
  /\ Kept /\ UNCHANGED net

(* The connection breaks, the timeout of the request expires, or the       *)
(* answer cannot be read: the call may be anywhere.                        *)
UnansweredSure(r) == "failure"     \* mutant: no answer taken for a refusal
Unanswered(r) ==
  CASE Via[r] = "velociraptor" -> "timeout"
    [] Via[r] = "wazuh"        -> "error"
    [] Via[r] = "shuffle"      -> "failure"
    [] OTHER                   -> "success"

GiveUp(r) ==
  /\ pc[r] = "wait"
  /\ Conclude(r, Unanswered(r))
  /\ Kept /\ UNCHANGED net

(* One turn of the polling loop: a sleep and a query, which may fail.      *)
Seen(r, answered) ==
  IF ~answered THEN "unknown" ELSE IF flow[r] \in Broken THEN "error" ELSE flow[r]

LastPollLate(n) == n = Polls + 1   \* mutant: 0..=15
LastPoll(n) == n = Polls

PollsAfterMisses(r, answered) == IF answered THEN 0 ELSE polls[r] + 1  \* mutant: counts misses in a row
PollsAfter(r, answered) == polls[r] + 1

PollVerdictEager(state, last) ==   \* mutant: whatever is no error is a success
  IF state = "error" THEN "failure"
  ELSE IF state \in {"running", "finished"} THEN "success"
  ELSE IF last THEN "timeout" ELSE "none"
PollVerdict(state, last) ==
  CASE state = "finished" -> "success"
    [] state = "error"    -> "failure"
    [] OTHER              -> IF last THEN "timeout" ELSE "none"

Poll(r) ==
  /\ pc[r] = "poll"
  /\ \E answered \in BOOLEAN :
       LET n == PollsAfter(r, answered)
           v == PollVerdict(Seen(r, answered), LastPoll(n)) IN
       /\ polls' = [polls EXCEPT ![r] = n]
       /\ verdict' = [verdict EXCEPT ![r] = v]
       /\ GoTo(r, IF v = "none" THEN "poll" ELSE "report")
  /\ UNCHANGED <<upstream, records, faults, before>>

-----------------------------------------------------------------------------
(***************************************************************************)
(* The handlers: what they record after.                                   *)
(***************************************************************************)

(* An Err of push_action is audited as a timeout: the state is unknown.    *)
AuditedSure(v) == IF v = "error" THEN "failure" ELSE v   \* mutant: for a failure
Audited(v) == IF v = "error" THEN "timeout" ELSE v

StatusOptimist(v) == IF v = "failure" THEN "failed" ELSE "completed"  \* mutant
Status(v) == IF v = "success" THEN "completed" ELSE "failed"

(* A failing INSERT is ignored. *)
CaseOutcome(r) ==
  /\ pc[r] = "report" /\ Entry[r] = "case"
  /\ \/ audit' = [audit EXCEPT ![r] = @ \cup {Audited(verdict[r])}] /\ UNCHANGED faults
     \/ Fault /\ UNCHANGED audit
  /\ GoTo(r, "done")
  /\ UNCHANGED <<verdict, polls, upstream, execution, before>>

(* A failing UPDATE leaves the row 'running'. *)
FinishExecution(r) ==
  /\ pc[r] = "report" /\ Entry[r] = "template"
  /\ \/ execution' = [execution EXCEPT ![r] = Status(verdict[r])] /\ UNCHANGED faults
     \/ Fault /\ UNCHANGED execution
  /\ GoTo(r, "done")
  /\ UNCHANGED <<verdict, polls, upstream, audit, before>>

(* The client hangs up and the server drops the handler at an await.       *)
HangUp(r) ==
  /\ pc[r] \in InFlight
  /\ GoTo(r, "gone")
  /\ UNCHANGED <<verdict, polls, upstream, records, faults, before>>

(* The process dies with all its handlers. *)
Crash ==
  /\ \E r \in Requests : pc[r] \in InFlight
  /\ pc' = [r \in Requests |-> IF pc[r] \in InFlight THEN "gone" ELSE pc[r]]
  /\ UNCHANGED <<verdict, polls, upstream, records, faults, before>>

-----------------------------------------------------------------------------
Handle(r) ==
  \/ Refuse(r) \/ Acknowledge(r) \/ Preflight(r) \/ ManagerToken(r)
  \/ TriggerWorkflow(r) \/ Answered(r) \/ GiveUp(r) \/ Poll(r)
  \/ CaseOutcome(r) \/ FinishExecution(r)

Request(r)  == CaseRequest(r) \/ ExecuteTemplate(r)
Upstream(r) == Take(r) \/ TurnDown(r) \/ FlowEnds(r)

Next ==
  \/ \E r \in Requests : Request(r) \/ Handle(r) \/ Upstream(r) \/ HangUp(r)
  \/ Crash

Spec == Init /\ [][Next]_vars

(* A handler runs on and every call it waits for ends: HTTP requests carry *)
(* a timeout, the polling loop a bound, and the stream of a Velociraptor   *)
(* query the deadline its server is sent.  Of what an upstream does with a *)
(* call nothing is assumed, not even that it takes or refuses it.          *)
Fairness == \A r \in Requests : WF_vars(Handle(r))

FairSpec == Spec /\ Fairness

-----------------------------------------------------------------------------
(***************************************************************************)
(* What a record may be trusted for.                                       *)
(***************************************************************************)

Succeeded(r) == "success" \in audit[r] \/ execution[r] = "completed"
Failed(r)    == "failure" \in audit[r]

(* A success on record is one: the flow has finished on the endpoint, or   *)
(* Wazuh, or Shuffle when a case asks it, has taken the action and is not  *)
(* asked again.  (A template that no connector, or only Shuffle, is asked  *)
(* for is completed whatever happens; nothing is said of those.)           *)
SuccessIsReal ==
  \A r \in Requests : Succeeded(r) =>
    /\ Via[r] = "velociraptor" => flow[r] = "finished"
    /\ Via[r] \in {"wazuh", "shuffle"} => net[r] = "taken"

(* No upstream has taken r, nor will.                                      *)
NotTaken(r) == net[r] \in {"none", "refused", "lost"}

(* The flow of r was polled and is over, in an error.                      *)
BrokenOff(r) == Via[r] = "velociraptor" /\ polls[r] > 0 /\ flow[r] \in Broken

(* A failure in the audit log is the end of the action: it was never taken *)
(* and never will be, not even by a call that arrives after the handler    *)
(* gave up, or its flow was followed to an end in an error.  It is not     *)
(* said that the action changed nothing: a flow that broke off may have    *)
(* changed the host, and its record has the same status.  (Not so for      *)
(* Shuffle, nor when the flow id cannot be read; below.)                   *)
Definite(r) ==
  /\ Via[r] = "velociraptor" => FlowIdShape = "string"
  /\ Via[r] # "shuffle"

FailureEndsIt ==
  \A r \in Requests : Failed(r) /\ Definite(r) => NotTaken(r) \/ BrokenOff(r)

(* When a Velociraptor request is on record as a success and every other   *)
(* one for its host was settled before it began, the host is as it asked:  *)
(* nothing of the earlier ones is still to come.                           *)
OnHost(h) == {r \in Requests : Via[r] = "velociraptor" /\ Host[r] = h}

Alone(r) == \A q \in OnHost(Host[r]) \ {r} : pc[q] = "new" \/ q \in before[r]

EndpointAsReported ==
  FlowIdShape = "string" =>
    \A r \in Requests :
      Via[r] = "velociraptor" /\ Succeeded(r) /\ Alone(r)
        => endpoint[Host[r]] = Wants[r]

(* Every handler ends, however the upstream answers, or is lost. *)
EventuallyAnswered ==
  \A r \in Requests : pc[r] = "start" ~> pc[r] \in {"done", "gone"}

-----------------------------------------------------------------------------
(***************************************************************************)
(* The records are a ledger of the actions whose outcome the code can      *)
(* find out: isolations through Velociraptor, when the flow id can be      *)
(* read, commands of Wazuh, and what no connector supports.  (The outcome  *)
(* of a workflow of Shuffle, and of an acknowledgement, is not followed.)  *)
(***************************************************************************)
Accountable ==
  {r \in Requests : /\ Via[r] \in {"velociraptor", "wazuh", "unsupported"}
                    /\ Via[r] = "velociraptor" => FlowIdShape = "string"}

Happened(r) ==
  \/ Via[r] = "velociraptor" /\ flow[r] = "finished"
  \/ Via[r] = "wazuh" /\ net[r] = "taken"

Pending(r) ==
  pc[r] \in {"new", "start"} \/ net[r] = "sent" \/ flow[r] = "running"

FateOf(r) ==
  IF Happened(r) THEN "happened"
  ELSE IF Pending(r) THEN "open"
  ELSE IF flow[r] = "partial" THEN "partly" ELSE "never"

(* A failed execution tells no more than a timeout: Status takes an error  *)
(* for a failure.                                                          *)
ToldOf(r) ==
  IF Succeeded(r) THEN "success"
  ELSE IF Failed(r) THEN "failure"
  ELSE IF "timeout" \in audit[r] \/ execution[r] = "failed" THEN "unknown" ELSE "nothing"

Book == INSTANCE Ledger WITH
  Actions <- Accountable,
  fate    <- [r \in Accountable |-> FateOf(r)],
  told    <- [r \in Accountable |-> ToldOf(r)]

(* Every behaviour of the handlers is one of Ledger: what a record tells   *)
(* of an action stays told and stays true, whenever calls arrive, answers  *)
(* are lost, and handlers hang up or crash.                                *)
ImplementsLedger == Book!Spec

-----------------------------------------------------------------------------
(***************************************************************************)
(* Why a record may be trusted: an inductive invariant.                    *)
(***************************************************************************)

(* What the handler, the wire and the upstream have to do with each other. *)
StageInv ==
  \A r \in Requests :
    /\ pc[r] \in {"new", "start"} => net[r] = "none"
    /\ pc[r] \in {"new", "start", "wait"} => polls[r] = 0
    /\ net[r] = "taken" <=> flow[r] # "none"
    /\ pc[r] = "poll" => Via[r] = "velociraptor" /\ FlowIdShape = "string"
                         /\ net[r] = "taken" /\ polls[r] < Polls
    /\ pc[r] \in {"new", "start", "wait", "poll"} => verdict[r] = "none"
    /\ pc[r] = "report" => verdict[r] # "none"

(* A record says what push_action found. *)
RecordInv ==
  \A r \in Requests :
    /\ Succeeded(r) => pc[r] = "done" /\ verdict[r] = "success"
    /\ Failed(r) => pc[r] = "done" /\ verdict[r] = "failure"

VerdictInv ==
  \A r \in Requests :
    /\ verdict[r] = "success" =>
         /\ Via[r] = "velociraptor" => flow[r] = "finished"
         /\ Via[r] \in {"wazuh", "shuffle"} => net[r] = "taken"
    /\ verdict[r] = "failure" /\ Definite(r) => NotTaken(r) \/ BrokenOff(r)

(* A flow that finished with nothing else going on left the host as asked. *)
HostInv ==
  /\ \A r \in Requests : \A q \in before[r] : Settled(q)
  /\ FlowIdShape = "string" =>
       \A r \in Requests :
         Via[r] = "velociraptor" /\ flow[r] = "finished" /\ Alone(r)
           => endpoint[Host[r]] = Wants[r]

ResponseInv == StageInv /\ RecordInv /\ VerdictInv /\ HostInv

-----------------------------------------------------------------------------
(***************************************************************************)
(* What comments of the code say and the code does not do.                 *)
(***************************************************************************)

(* "returned no flow_id.  The action was definitively not scheduled."      *)
(* (velociraptor.rs), of a failure before the first poll.                  *)
FailureMeansNotScheduled ==
  \A r \in Requests :
    Via[r] = "velociraptor" /\ Failed(r) /\ polls[r] = 0 => flow[r] = "none"
=============================================================================
