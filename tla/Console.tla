------------------------------ MODULE Console ------------------------------
(***************************************************************************)
(* The Velociraptor console: the handlers of routes/velociraptor.rs and    *)
(* the queries they make (connectors/velociraptor.rs).                     *)
(*                                                                         *)
(* A call runs a query on the server, or collects an artifact from an      *)
(* endpoint and polls the flow that the collection starts, turn by turn:   *)
(*                                                                         *)
(*    idle -> server -> close -> end                                       *)
(*    idle -> check -> send -> sent -> poll -> results -> logs -> poll ... *)
(*                                                  ... -> close -> end    *)
(*    (refused: a 4xx or 503 at once; gone: client or process lost)        *)
(*                                                                         *)
(* A query of a turn may fail at any time; its error is ignored.  The flow *)
(* is the endpoint's: it outlives the call, or begins after its end.       *)
(***************************************************************************)
EXTENDS VqlText, FiniteSets

CONSTANTS
  Calls,
  Foreign,    \* a flow of the same endpoint that is not a call's, long finished
  Kinds,      \* Kinds[k]: what call k may ask for
  Args,       \* Args[k]: the values its parameter may have
  Registered, \* whether the connector is registered
  Polls,      \* turns of the loop (30)
  Cap,        \* rows a query returns at most (500)
  MaxRows,    \* bound: MaxRows[k], rows of k's flow
  MaxLogs,    \* bound: MaxLogs[k], log entries of k's flow
  MaxHeld,    \* bound: rows of a query on the server
  MaxFaults   \* bound: INSERTs that fail

Lists   == {"clients", "artifacts"}         \* the two listings, which are not audited
Queries == {"server", "collect"}            \* POST /velociraptor/query
Flows   == Calls \cup {Foreign}             \* k is also the id of call k's flow

ASSUME CallsAssumption ==
  /\ Foreign \notin Calls
  /\ Kinds \in [Calls -> SUBSET (Lists \cup Queries \cup {"malformed"})]
  /\ Args \in [Calls -> SUBSET Texts]
  /\ Registered \in BOOLEAN

ASSUME ParametersAssumption ==
  /\ Polls \in Nat /\ Cap \in Nat \ {0}
  /\ MaxRows \in [Calls -> Nat] /\ MaxLogs \in [Calls -> Nat] /\ MaxHeld \in Nat /\ MaxFaults \in Nat

VARIABLES
  op,        \* op[k]: what call k asks for
  pc,        \* pc[k]: where call k is
  typed,     \* typed[k]: the value of its parameter, as the analyst means it
  seen,      \* seen[k]: final_state, the last state of the flow it read
  polls,     \* polls[k]: turns it has taken
  counted,   \* counted[k]: last_log_count
  answer,    \* answer[k]: what it answers
  got,       \* got[k]: how many rows
  held,      \* held[k]: the rows there were when the query it answers from ran
  wire,      \* wire[k]: its collect_client on the way to the server
  flow,      \* flow[k]: the state of the flow it started
  rows,      \* rows[k]: that flow's result rows
  logs,      \* logs[k]: its log entries; TRUE, one with a message
  received,  \* received[k]: the parameters of the flow
  started,   \* audit_log: calls with a vql_query row
  closed,    \* audit_log: calls with a vql_query_done or vql_query_failed row
  faults,    \* INSERTs that may still fail
  blind,     \* history: calls whose last query for results failed
  shown,     \* history: calls that were sent a row or a message
  unlogged   \* history: calls an INSERT of which failed

loop     == <<seen, polls, counted>>
outcome  == <<answer, got, held>>
endpoint == <<wire, flow, rows, logs, received>>
record   == <<started, closed, faults, unlogged>>
past     == <<blind, shown>>
request  == <<op, typed>>
vars     == <<pc, request, loop, outcome, endpoint, record, past>>

InFlight == {"server", "check", "send", "sent", "poll", "results", "logs", "close"}
Ended    == {"end", "refused", "gone"}

TypeOK ==
  /\ op \in [Calls -> Lists \cup Queries \cup {"malformed"}]
  /\ pc \in [Calls -> InFlight \cup Ended \cup {"idle"}]
  /\ seen \in [Calls -> {"none", "running", "finished"}]
  /\ polls \in [Calls -> 0..Polls]
  /\ counted \in [Calls -> Nat]
  /\ answer \in [Calls -> {"none", "rows", "output", "error"}]
  /\ got \in [Calls -> Nat]
  /\ held \in [Calls -> Nat]
  /\ wire \in [Calls -> {"none", "sent", "taken", "lost"}]
  /\ flow \in [Flows -> {"none", "running", "finished", "error"}]
  /\ rows \in [Flows -> Nat]
  /\ logs \in [Flows -> Seq(BOOLEAN)]
  /\ started \in SUBSET Calls
  /\ closed \in SUBSET Calls
  /\ faults \in 0..MaxFaults
  /\ blind \in SUBSET Calls
  /\ shown \in SUBSET Calls
  /\ unlogged \in SUBSET Calls

Init ==
  /\ op \in {o \in [Calls -> UNION {Kinds[k] : k \in Calls}] : \A k \in Calls : o[k] \in Kinds[k]}
  /\ typed \in {v \in [Calls -> UNION {Args[k] : k \in Calls}] : \A k \in Calls : v[k] \in Args[k]}
  /\ pc = [k \in Calls |-> "idle"]
  /\ seen = [k \in Calls |-> "none"]
  /\ polls = [k \in Calls |-> 0]
  /\ counted = [k \in Calls |-> 0]
  /\ answer = [k \in Calls |-> "none"]
  /\ got = [k \in Calls |-> 0]
  /\ held = [k \in Calls |-> 0]
  /\ wire = [k \in Calls |-> "none"]
  /\ flow = [w \in Flows |-> IF w = Foreign THEN "finished" ELSE "none"]
  /\ rows = [w \in Flows |-> IF w = Foreign THEN 1 ELSE 0]
  /\ logs = [w \in Flows |-> <<>>]
  /\ received = [k \in Calls |-> <<>>]
  /\ started = {} /\ closed = {} /\ unlogged = {}
  /\ faults = MaxFaults
  /\ blind = {} /\ shown = {}

GoTo(k, place) == pc' = [pc EXCEPT ![k] = place]

Capped(n) == IF n > Cap THEN Cap ELSE n

(* The call will answer with n rows, of m that there were.                 *)
Answer(k, what, n, m) ==
  /\ answer' = [answer EXCEPT ![k] = what]
  /\ got' = [got EXCEPT ![k] = n]
  /\ held' = [held EXCEPT ![k] = m]
  /\ GoTo(k, IF op[k] \in Lists THEN "end" ELSE "close")

-----------------------------------------------------------------------------
(***************************************************************************)
(* Requests and the audit rows around them.                                *)
(***************************************************************************)

(* An audit row; a failing INSERT is ignored. *)
Audit(k, table) ==
  \/ table' = table \cup {k} /\ UNCHANGED <<faults, unlogged>>
  \/ /\ faults > 0
     /\ faults' = faults - 1
     /\ unlogged' = unlogged \cup {k}
     /\ UNCHANGED table

(* A query without text, with too much of it, or for an endpoint without   *)
(* an artifact call in it is refused, and so is any without the connector. *)
Accepted(k) ==
  /\ Registered
  /\ op[k] # "malformed"
  /\ op[k] = "collect" => ParseCall(CallText(typed[k])) # NoCall

Refuse(k) ==
  /\ pc[k] = "idle"
  /\ ~Accepted(k)
  /\ GoTo(k, "refused")
  /\ UNCHANGED <<request, loop, outcome, endpoint, record, past>>

(* The audit row is written BEFORE the query is made.                      *)
FirstPlace(k) == IF op[k] = "collect" THEN "check" ELSE "server"

Unaudited(k) == UNCHANGED <<started, faults, unlogged>>   \* mutant: no row before
Audited(k) == Audit(k, started)

Begin(k) ==
  /\ pc[k] = "idle"
  /\ Accepted(k)
  /\ IF op[k] \in Lists THEN UNCHANGED <<started, faults, unlogged>> ELSE Audited(k)
  /\ GoTo(k, FirstPlace(k))
  /\ UNCHANGED <<request, loop, outcome, endpoint, closed, past>>

Close(k) ==
  /\ pc[k] = "close"
  /\ Audit(k, closed)
  /\ GoTo(k, "end")
  /\ UNCHANGED <<request, loop, outcome, endpoint, started, past>>

(* The flag of an answer.  The list of clients has none.                   *)
TruncatedAbove(k) == got[k] > Cap            \* mutant
Truncated(k) == got[k] >= Cap

-----------------------------------------------------------------------------
(***************************************************************************)
(* run_query: one query on the server, and the listings made of one.       *)
(***************************************************************************)

AskServer(k) ==
  /\ pc[k] = "server"
  /\ \/ \E n \in 0..MaxHeld : Answer(k, "rows", Capped(n), n)
     \/ Answer(k, "error", 0, 0)
  /\ UNCHANGED <<request, loop, endpoint, record, past>>

-----------------------------------------------------------------------------
(***************************************************************************)
(* run_artifact_on_client.                                                 *)
(***************************************************************************)

(* An endpoint last seen more than ten minutes ago is offline; when the    *)
(* query fails or tells no time, the call goes on.                         *)
CheckClient(k) ==
  /\ pc[k] = "check"
  /\ \/ Answer(k, "error", 0, 0)
     \/ GoTo(k, "send") /\ UNCHANGED outcome
  /\ UNCHANGED <<request, loop, endpoint, record, past>>

Dispatch(k) ==
  /\ pc[k] = "send"
  /\ wire' = [wire EXCEPT ![k] = "sent"]
  /\ GoTo(k, "sent")
  /\ UNCHANGED <<request, loop, outcome, flow, rows, logs, received, record, past>>

Dispatched(k) ==
  /\ pc[k] = "sent" /\ wire[k] = "taken"
  /\ GoTo(k, "poll")
  /\ UNCHANGED <<request, loop, outcome, endpoint, record, past>>

(* No answer, an error, or one without a flow id.                          *)
DispatchFails(k) ==
  /\ pc[k] = "sent"
  /\ Answer(k, "error", 0, 0)
  /\ UNCHANGED <<request, loop, endpoint, record, past>>

(* A turn: the state of the flow, its results, its logs.  The queries name *)
(* the flow.                                                               *)
FlowOfClient(k) == Foreign          \* mutant: only its client is named
FlowOf(k) == k

TurnsLeftOneMore(k) == polls[k] <= Polls     \* mutant: 0..=30
TurnsLeft(k) == polls[k] < Polls

PollState(k) ==
  /\ pc[k] = "poll" /\ TurnsLeft(k)
  /\ polls' = [polls EXCEPT ![k] = @ + 1]
  /\ blind' = blind \ {k}
  /\ \/ /\ flow[FlowOf(k)] # "error"
        /\ seen' = [seen EXCEPT ![k] = flow[FlowOf(k)]]
        /\ GoTo(k, "results")
        /\ UNCHANGED outcome
     \/ GoTo(k, "results") /\ UNCHANGED <<seen, outcome>>
     \/ flow[FlowOf(k)] = "error" /\ Answer(k, "error", 0, 0) /\ UNCHANGED seen
  /\ UNCHANGED <<request, counted, endpoint, record, shown>>

(* Rows end the loop at once; none do when the flow was seen finished.     *)
EmptyEnds(k) == seen[k] = "finished"

PollResults(k) ==
  /\ pc[k] = "results"
  /\ LET n == rows[FlowOf(k)] IN
       IF n > 0 \/ EmptyEnds(k)
       THEN /\ Answer(k, "rows", Capped(n), n)
            /\ shown' = IF n > 0 THEN shown \cup {k} ELSE shown
       ELSE /\ GoTo(k, "logs")
            /\ UNCHANGED <<outcome, shown>>
  /\ UNCHANGED <<request, loop, endpoint, record, blind>>

PollResultsFails(k) ==
  /\ pc[k] = "results"
  /\ blind' = blind \cup {k}
  /\ GoTo(k, "logs")
  /\ UNCHANGED <<request, loop, outcome, endpoint, record, shown>>

(* More entries than were counted are looked through from the first; those *)
(* with a message become rows.  A flow that was seen finished ends the     *)
(* loop with what messages there are.                                      *)
Entries(k) == SubSeq(logs[FlowOf(k)], 1, Capped(Len(logs[FlowOf(k)])))
Messages(k) == Cardinality({i \in 1..Len(Entries(k)) : Entries(k)[i]})

CountedAnew(k) == Len(Entries(k)) + 1      \* mutant: the next entry is taken for seen
Counted(k) == Len(Entries(k))

EndsWithLogs(k) ==
  \/ Len(Entries(k)) > counted[k] /\ Messages(k) > 0
  \/ seen[k] = "finished" /\ Entries(k) # <<>>

PollLogs(k) ==
  /\ pc[k] = "logs"
  /\ shown' = IF Messages(k) > 0 THEN shown \cup {k} ELSE shown
  /\ counted' = [counted EXCEPT ![k] = IF Len(Entries(k)) > @ THEN Counted(k) ELSE @]
  /\ IF EndsWithLogs(k)
     THEN Answer(k, "output", Messages(k), Messages(k))
     ELSE GoTo(k, "poll") /\ UNCHANGED outcome
  /\ UNCHANGED <<request, seen, polls, endpoint, record, blind>>

PollLogsFails(k) ==
  /\ pc[k] = "logs"
  /\ GoTo(k, "poll")
  /\ UNCHANGED <<request, loop, outcome, endpoint, record, past>>

(* No results within 60 s. *)
LastTurnSeen(k) == polls[k] = Polls /\ seen[k] # "none"   \* mutant: not before a state was read
LastTurn(k) == polls[k] = Polls

GiveUp(k) ==
  /\ pc[k] = "poll" /\ LastTurn(k)
  /\ Answer(k, "error", 0, 0)
  /\ UNCHANGED <<request, loop, endpoint, record, past>>
-----------------------------------------------------------------------------
(***************************************************************************)
(* The server takes a collection, also one whose caller is gone, or never  *)
(* sees it; the endpoint adds rows and log entries until the flow ends.    *)
(***************************************************************************)

(* Bound: of a flow nobody will read again only its start is followed.     *)
Watched(k) == pc[k] \notin Ended \cup {"close"}

Take(k) ==
  /\ wire[k] = "sent"
  /\ wire' = [wire EXCEPT ![k] = "taken"]
  /\ flow' = [flow EXCEPT ![k] = "running"]
  /\ received' = [received EXCEPT ![k] = ParseCall(CallText(typed[k]))]
  /\ UNCHANGED <<pc, request, loop, outcome, rows, logs, record, past>>

Lose(k) ==
  /\ wire[k] = "sent"
  /\ wire' = [wire EXCEPT ![k] = "lost"]
  /\ UNCHANGED <<pc, request, loop, outcome, flow, rows, logs, received, record, past>>

AddRow(k) ==
  /\ Watched(k) /\ flow[k] = "running" /\ rows[k] < MaxRows[k]
  /\ rows' = [rows EXCEPT ![k] = @ + 1]
  /\ UNCHANGED <<pc, request, loop, outcome, wire, flow, logs, received, record, past>>

AddLog(k) ==
  /\ Watched(k) /\ flow[k] = "running" /\ Len(logs[k]) < MaxLogs[k]
  /\ \E message \in BOOLEAN : logs' = [logs EXCEPT ![k] = Append(@, message)]
  /\ UNCHANGED <<pc, request, loop, outcome, wire, flow, rows, received, record, past>>

FlowEnds(k) ==
  /\ Watched(k) /\ flow[k] = "running"
  /\ \E state \in {"finished", "error"} : flow' = [flow EXCEPT ![k] = state]
  /\ UNCHANGED <<pc, request, loop, outcome, wire, rows, logs, received, record, past>>

-----------------------------------------------------------------------------
(***************************************************************************)
(* A call ends at an await, with its client or with the process.           *)
(***************************************************************************)

Drop(calls) ==
  /\ pc' = [k \in Calls |-> IF k \in calls THEN "gone" ELSE pc[k]]
  /\ UNCHANGED <<request, loop, outcome, endpoint, record, past>>

HangUp(k) == pc[k] \in InFlight /\ Drop({k})

Crash ==
  LET lost == {k \in Calls : pc[k] \in InFlight} IN lost # {} /\ Drop(lost)

-----------------------------------------------------------------------------
Step(k) ==
  \/ AskServer(k) \/ CheckClient(k) \/ Dispatch(k) \/ Dispatched(k) \/ DispatchFails(k)
  \/ PollState(k) \/ PollResults(k) \/ PollResultsFails(k)
  \/ PollLogs(k) \/ PollLogsFails(k) \/ GiveUp(k) \/ Close(k)

Upstream(k) == Take(k) \/ Lose(k) \/ AddRow(k) \/ AddLog(k) \/ FlowEnds(k)

Next ==
  \/ \E k \in Calls : Refuse(k) \/ Begin(k) \/ Step(k) \/ Upstream(k) \/ HangUp(k)
  \/ Crash

Spec == Init /\ [][Next]_vars

(* A handler runs on; nothing is assumed of the endpoint.                  *)
FairSpec == Spec /\ \A k \in Calls : WF_vars(Step(k))

-----------------------------------------------------------------------------
(***************************************************************************)
(* What may be relied on.                                                  *)
(***************************************************************************)

(* Result rows that end a collection seen finished, and those of a query,  *)
(* are all there were (run_artifact_on_client asks for the state before    *)
(* the results), unless the answer says that it is truncated; an empty     *)
(* answer means no result rows.  It is not said that there was no output   *)
(* (see FinishedOutputIsReturned), nor that a flow not seen finished has   *)
(* no more to come, which no field of the answer tells.  The list of       *)
(* clients carries no flag.                                                *)
ResultsWholeOrTold ==
  \A k \in Calls : answer[k] = "rows" /\ op[k] # "clients" =>
    \/ Truncated(k)
    \/ op[k] = "collect" /\ seen[k] # "finished" /\ got[k] > 0
    \/ got[k] = IF op[k] = "collect" THEN rows[k] ELSE held[k]

(* A loop that was shown output of the endpoint does not end without any:  *)
(* one to which a row or a message was sent answers with at least one,     *)
(* whatever entries came before and whatever queries failed.               *)
NothingShownIsDropped ==
  \A k \in Calls : k \in shown /\ pc[k] \in {"close", "end"} =>
    answer[k] \in {"rows", "output"} /\ got[k] > 0

(* Flows of one endpoint are told apart: an answer holds no more than its  *)
(* own flow has, and none comes without rows from a flow that has some or  *)
(* may still have, but when the query for results failed.                  *)
AnswersAreOwn ==
  \A k \in Calls : op[k] = "collect" /\ answer[k] \in {"rows", "output"} =>
    /\ answer[k] = "rows" => got[k] <= rows[k]
    /\ answer[k] = "output" => got[k] <= Cardinality({i \in 1..Len(logs[k]) : logs[k][i]})
    /\ got[k] = 0 => flow[k] = "finished" /\ (rows[k] = 0 \/ k \in blind)

(* "Rule 7: log before + after real actions" (routes/velociraptor.rs): a   *)
(* flow exists only for a call on record, and a call that is answered has  *)
(* its second row, unless an INSERT failed.                                *)
RunsAreRecorded ==
  \A k \in Calls \ unlogged :
    /\ wire[k] # "none" => k \in started
    /\ pc[k] = "end" /\ op[k] \in Queries => k \in started \cap closed

(* The endpoint runs the value the analyst quoted: parse_artifact_call     *)
(* undoes the quoting.                                                     *)
ArgumentsArrive ==
  \A k \in Calls : flow[k] # "none" /\ Carried(typed[k]) =>
    received[k] = << <<<<"k">>, typed[k]>> >>

(* A call on record is closed on record, whatever the endpoint does, if    *)
(* the client waits and the process lives.                                 *)
EventuallyClosed ==
  \A k \in Calls :
    k \in started ~> k \in closed \/ k \in unlogged \/ pc[k] = "gone"

-----------------------------------------------------------------------------
(***************************************************************************)
(* What a comment of the code says and the code does not do.               *)
(***************************************************************************)

HasMessage(k) == \E i \in 1..Len(logs[k]) : logs[k][i]

(* "If flow finished and we have logs, return them" (velociraptor.rs):     *)
(* a collection seen finished has no empty answer when its log has a       *)
(* message.  It has one when the flow ended without result rows before     *)
(* any turn looked at its log: EmptyEnds ends the loop first.              *)
FinishedOutputIsReturned ==
  \A k \in Calls :
    op[k] = "collect" /\ seen[k] = "finished" /\ answer[k] \in {"rows", "output"}
      => got[k] > 0 \/ ~HasMessage(k)
=============================================================================
