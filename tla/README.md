# Shieldgrid Core in TLA+

TLA+ models of shieldgrid-core (a Rust service on PostgreSQL that unifies the alerts of
Wazuh, Velociraptor and Graylog, keeps cases, dispatches response actions, and has a console
for the endpoints of Velociraptor), TLC configurations that model-check them, and theorems
about them proved with TLAPS. Paths below are relative to the repository's root; paths
without a directory that is obvious are under `src/`.

## 1. The system

One process (`src/main.rs`) holds a connector registry, a pool of database connections, a
background task that ingests alerts, and an axum router whose handlers run concurrently,
one task per request. All lasting state is in PostgreSQL; the handlers and the ingest task
meet only there, and every SQL statement commits on its own: nothing in the code opens a
transaction. The upstream tools are reached over HTTP or gRPC.

| Component (source) | State | Operations | What makes it correct | Modelled in |
|---|---|---|---|---|
| Ingest scheduler (`services/ingest.rs`) | table `jobs`: watermark, next run, last status; the cycle's copy of the due rows | `seed_jobs`, `run_due_jobs`, `run_job`, `record_job_error` | no event lost behind the watermark; the watermark never retreats; every event eventually stored; a stalled job is visible | `Ingest` |
| Alert store (`services/alerts.rs`, `routes/alerts.rs`) | table `alerts` | `upsert_alerts`, `update_alert_status` | one row per event; triage survives a re-fetch | `Ingest` |
| Connectors, reading (`connectors/*.rs`) | none (the upstream's documents) | `fetch_alerts` of Wazuh, Velociraptor, Graylog, Shuffle | complete and, with the watermark, gap-free fetches | `Ingest` |
| Connectors, acting (`connectors/*.rs`) | flows and workflows of the upstreams | `push_action` | its outcome is what happened | `Response` |
| Case response actions (`routes/cases.rs:256`) | table `audit_log` | `execute_action_handler` | the audit row tells the truth | `Response` |
| Action templates (`services/actions.rs`) | table `action_executions` | `execute_action` | the status tells the truth | `Response` |
| Registry and start (`src/main.rs`) | the registered connectors | start, seeding of jobs and of the administrator | what survives a restart is resumed, and stays as it is | `Ingest`, `Session` |
| Cases (`routes/cases.rs`) | `cases`, `case_alerts`, `audit_log` | create, update, attach, detach | the audit log tells what is linked | `Casework` |
| Incidents (`services/incidents.rs`) | tasks, observables | CRUD, `apply_template`, progress | a template is applied once and whole; progress adds up | `Casework` |
| Velociraptor console (`routes/velociraptor.rs`, `run_artifact_on_client`) | flows; `audit_log` | list, query, collect from an endpoint and poll the flow | result rows are whole or said to be cut, an answer is of its own flow, and what runs is on record | `Console`, `VqlText` |
| Agent sync (`routes/agents.rs`) | `unified_agents` | `sync_agents_handler` | a row tells what a sync read of one agent, an agent has one row, and an older sync does not undo a newer one | `Agents` |
| Threat intelligence (`services/threat_intel.rs`, `routes/threat_intel.rs`) | `threat_intel_cache` | lookups, batches | a result is of the indicator that was asked and no staler than its row may be; what was fetched is kept; a batch is complete | `ThreatIntel` |
| AI analyst (`services/ai_analyst.rs`) | none | `generate_triage_report` | the triage goes by the score and by the level it is made of, and escalates nothing without a verdict for it | `ThreatIntel` |
| Notifications (`services/notifications.rs`) | channels, rules, log | CRUD, `send_notification`, statistics | the log tells what happened; a channel that is off is quiet | `Automation` |
| Detection rules (`services/detection.rs`) | `detection_rules` | read, merge, write back | an update is lost only to one that overlaps it | `Automation` |
| Schedules (`services/scheduler.rs`) | `scheduled_actions` | CRUD; its executor is never called | an update sticks; a trigger without a next run comes from an update only | `Automation` |
| Network connectors (`routes/network_connectors.rs`) | one table | CRUD | an update sticks | `Automation` |
| Sessions (`routes/auth.rs`, `middleware.rs`) | `users`; signed tokens; `audit_log` | login, refresh, logout, role checks | a grant goes back to a login; a logout stays; the log tells refusals from errors | `Session` |
| Health (`routes/health.rs`, `services/health_monitor.rs`) | none | concurrent and sequential checks, counts | a page is whole and adds up, although the system changes while it is made | `Health` |
| Router (`routes/mod.rs`) | shared handles | one task per request | services do not disturb each other | `Services` |
| Audit and job lists, MCP tools, configuration | none | read-only or static | - | not modelled |

How they interact: the ingest task calls `fetch_alerts` of a connector, stores the batch
with `upsert_alerts` and updates its `jobs` row; analysts change the same `alerts` rows
through `routes/alerts.rs`. The two action handlers call `push_action`; while it waits, the
upstream acts on its own, and other requests for the same endpoint run. Nothing joins the
two handlers' records: the case handler writes `audit_log`, the template service
`action_executions`. The console starts flows on the same endpoints, and tells its flow from
others by the id in its queries. The other services share nothing but the process: each has
tables of its own, in which its requests meet.

Hard behaviour: awaits at which anything else may run; a crash between two statements; a
client that hangs up, at which axum drops the handler at its next await; calls that arrive
after their caller gave up; timestamps compared across sources of different precision; and
errors that are logged and ignored. `PROJECT.json` lists each hazard at its line with the
properties aimed at it, or why there is none.

## 2. The modules

    AlertFeed                    abstract: a position that passes only delivered events
       ^ refined by
    Ingest       <- MCIngest     <- IngestProofs
    Ledger                       abstract: one true tale of each action, for good
       ^ refined by
    Response     <- MCResponse   <- ResponseProofs
    Casework     <- MCCasework   <- CaseworkProofs
    VqlText
       ^ extended by
    Console      <- MCConsole    <- ConsoleProofs
    ThreatIntel  <-.                           <- ThreatIntelProofs  <-.
    Automation   <-|                           <- AutomationProofs   <-|
    Session      <-+ Services <- MCServices    <- SessionProofs      <-+ ServicesProofs
    Agents       <-|
    Health       <-'

### Ingest: scheduler, alert store, fetches, process, sources, analyst

One action per await of the task, so that the clock, the sources, the analyst and a crash
come in between.

| Actions | Code |
|---|---|
| `Start`, `SeedJob`, `SeedFails`, `Crash` | `main.rs:92-152`; `seed_jobs`, one INSERT per connector in registry order; a failure is a warning and the loop starts with the jobs seeded so far |
| `LoopTick` | `run_due_jobs`: the SELECT, whose rows (`due`, `snap`) are used until the cycle ends |
| `StartJob` | the lookup in the registry and the arguments of the request (`Ask`) |
| `QueryServed`, `FetchFails`, `MapReply` | `fetch_alerts`: the source evaluates the request at a time of its own; then the mapping, and the newest timestamp of the batch (`top`) |
| `UpsertRow`, `RowRejected`, `StoreFails` | `upsert_alerts`, one committed statement per alert, in the order of the reply; `StoreFails` is also the failing UPDATE of the job row |
| `Finish`, `RecordError`, `RecordErrorFails` | the UPDATE of the `jobs` row on success (COALESCE keeps the old watermark on an empty batch), on error, and the error that is only logged |
| `CloseAlert`, `ReopenAlert` | `update_alert_status` |
| `Tick`, `Index`, `TimerElapses` | the clock, an event becoming searchable at a source, `next_run_at` passing |

State: `mark`, `waiting`, `status`, `seeded` are columns and rows of `jobs`; `rows` and
`open` count the rows of `alerts` per upstream document and those still open; `snap`, `cur`,
`ask`, `batch`, `top` are the locals of `run_job`; `late` and `cut` are history variables
that only properties read. A document is a model value with a connector and a form (well
formed, unmappable, refused by PostgreSQL, without id, without timestamp).

Each source has its own fetch: Wazuh asks for `@timestamp >= since`, newest first, at most
500; Velociraptor runs an artifact that is not part of the repository, so its bound may be
either; Graylog is asked for the last so many whole seconds, and counts them from the moment
it evaluates the search; Shuffle returns nothing. A Graylog message gets a new UUID as
`source_id` at every fetch, and so does a Velociraptor row without an id.

### AlertFeed: what ingesting promises

Events are published, delivered, excused; a position passes only events that are delivered
or excused. No queries, batches, timestamps, failures. `Ingest!ImplementsFeed` maps the
Wazuh side onto it: an event is delivered when a row holds it, and passed when it is older
than the watermark.

### Response: actions from the request to the record

`pc[r]` is where the handler of request `r` is. A request on the wire (`net[r] = "sent"`) is
a state of its own: `Take` may come after `GiveUp`, `HangUp` or `Crash`.

| Actions | Code |
|---|---|
| `CaseRequest`, `CaseOutcome` | `execute_action_handler`: the audit rows before and after, whose failures are ignored |
| `ExecuteTemplate`, `FinishExecution` | `execute_action`: INSERT 'running', UPDATE 'completed' or 'failed' |
| `Refuse`, `Acknowledge` | unsupported action types; templates that are answered without a connector |
| `Preflight`, `Poll` | Velociraptor's `push_action`: the check of the target, the trigger, and the loop of 15 polls, whose errors are ignored |
| `ManagerToken` | Wazuh: the token, an error of which is an `Err` |
| `TriggerWorkflow` | Shuffle, also as the only connector that can take a generic template |
| `Answered`, `GiveUp` | the answer to the trigger, or none (broken connection, timeout, unreadable body) |
| `Take`, `TurnDown`, `FlowEnds` | the upstream: takes, refuses or never sees the call; ends the flow, finished or in error, and changes the host, also halfway into an error (`flow[r] = "partial"`, which `push_action` cannot tell from an error without effect) |
| `HangUp`, `Crash` | the handler is dropped at an await; the process dies |

`before[r]` is a history variable: the requests for the same host that were settled when
`r` began. In `services/actions.rs` the "simulated mode" of an isolation without a
Velociraptor connector is not modelled: `main` always registers one. A reply of Wazuh
without a 2xx status is taken to mean that nothing was done.

### Ledger: what the records of actions promise

An action is open until it has happened, has broken off halfway (`partly`) or never will, and none of
these changes; one thing at most is told of it, for good: a success only after it happened, a
failure only when it broke off or never will, that the outcome is unknown at any time. No handlers, calls, polls or failures.
`Response!ImplementsLedger` maps the requests onto it whose outcome a record decides
(`Accountable`): flows whose id can be read, commands of Wazuh and what no connector supports.
An action has happened when its flow has finished or the manager took its command, and broken off
when its flow ended in error after it changed the host; it is open while it is `Pending`; an execution recorded as failed tells as little as a timeout.

### Casework: cases, links, tasks, observables, templates, progress

A handler of one statement is an action; a handler of several is a call that runs once, with
its place in `pc[k]`. Analysts work on tasks and observables all the time.

| Actions | Code |
|---|---|
| `Change`, `ChangeFails`, `Audit` | the handlers of `routes/cases.rs`: the statement, its error, which is answered, and the audit row, whose error is ignored |
| `CreateTask`, `UpdateTask`, `DeleteTask` | `case_tasks`; `completed_at` is written by COALESCE and never cleared |
| `CreateObservable`, `DeleteObservable` | `observables`, unique in case, type and value |
| `ReadTemplate`, `ApplyTask`, `ApplyObservable`, `ApplyFails`, `ApplyEnds` | `apply_template`: one INSERT per row, `?` at the first that fails, nothing undone |
| `CountTotal`, `CountCompleted`, `CountFails` | the two SELECTs of `get_case_progress` |
| `HangUp`, `Crash` | as above |

A table is the set of its keys. `CaseOf` fixes beforehand which case a fresh task id would
belong to: a UUID says nothing, so this loses no behaviour. `since`, `deleted` and `blurred`
are history variables. `blurred` holds the links for which the log cannot be expected to be
right: the last changes overlapped, or an audit row was lost; a later change that is alone
takes the link out again. A case's status and assignee, and what `update_observable` writes,
are left out, since no statement decides by them.

### Console and VqlText: queries, collections and the text of a call

A call of the console lists, queries the server, or collects an artifact from an endpoint;
`pc[k]` is where its handler is. The flow of a call is the endpoint's: it may begin after the
call gave up (`Take` after `GiveUp`), goes on after it, and changes between any two queries.

| Actions | Code |
|---|---|
| `Refuse`, `Begin`, `Close` | `routes/velociraptor.rs`: the conditions of a 4xx or 503, the audit row before (its failure is ignored) and the one after |
| `AskServer` | `run_query`: its rows, cut at 500, or an error |
| `CheckClient` | the last-seen check, whose failure lets the call go on |
| `Dispatch`, `Dispatched`, `DispatchFails` | the query that schedules the collection, and its answer |
| `PollState`, `PollResults`, `PollResultsFails`, `PollLogs`, `PollLogsFails`, `GiveUp` | a turn of the loop: the state of the flow is read before its results, the results before the log, the errors of all three are ignored, and the loop ends after 30 turns |
| `Take`, `Lose`, `AddRow`, `AddLog`, `FlowEnds` | the server and the endpoint |
| `HangUp`, `Crash` | as above |

`VqlText` has what happens to an argument: `ParseCall` is `parse_artifact_call` with its
parentheses, splitting and unquoting, `VqlQuote` is `vql_quote`. Texts are sequences of
characters in which those the code treats alike are one, and every loop of the code over a text
is a `Fold` of one function per character: `Escapes`, `Replaces` (one `str::replace`), `Splits`,
`Reads` and `Closes`. `received[k]` is what the endpoint is sent. `shown`, `blind` and `unlogged` are history variables.

### ThreatIntel: lookups with a cache, batches, triage

A request has a list of indicators and looks them up one after the other: `Hit`, `Miss`,
`SelectFails` (the SELECT), `Read`, `Receive`, `ReceiveNotFound`, `FetchFails` (the provider,
which reads its report at a moment of its own, within the timeout), `Store`, `StoreFails` (the
INSERT ... ON CONFLICT). `NoKey` is an indicator for which nobody can be asked, `Skip` a blank
one of a batch, `Refuse` a lookup without an indicator; `Err` is what an error means: a result
of a batch, the failure of anything else. Providers replace their reports (`NewReport`) and
time passes (`Tick`). `TriageAlert` and `Done` are `generate_triage_report`; scores are
thousandths, so that thresholds are compared as integers. The type of an indicator, its
trimmed and its upper-case form are functions given by their values: what matters is which
spellings share a row. `beside[k]` is a history variable: who ran at the same time as `k`.

### Agents: two inventories in one table

A sync is `ReadAgents`, `ReadClients` (each may fail: the first with an answer, the second with
an empty list), then an upsert per entry in the order of the lists (`UpsertAgent`,
`UpsertClient`, either may fail, which is a warning), and an answer. Upstream, agents connect,
disconnect, are removed and enrolled again. A row holds the columns a sync can confuse: which
agent the wazuh_ columns are about and its status, and which client the velo_ columns are
about, with the sync that wrote them (`by`, a history of the row). `earlier`, `overlaps`,
`missed` and `renamed` are history variables.

### Automation: notifications, detection rules, schedules, network connectors

A job is a request for one row, which has a switch and one more field. `Patch` is the UPDATE
with COALESCE that three of the four tables have; a detection rule is read (`ReadRule`) and
written back whole (`WriteRule`). `ReadChannel`, `Post`, `CannotPost`, `Email`, `Log`,
`LogFails` are `send_notification`: the channel as it was read is used after the awaits that
follow. `DropChannel` takes rules and log along (ON DELETE CASCADE). `AddSchedule` computes
the next run and refuses a trigger without one; `PatchSchedule` does not. `CountFirst`,
`CountNext`, `CountLast` are the three counts of the statistics. `wrote` and `before[k]` are
history variables: the order of the writes, and what had been written when `k` began.

### Session: logins, cookies and the routes they open

A visit is one request of one browser. The server keeps nothing: a session is a cookie with a
role and an end. `Send` takes the cookie along, `LogIn`, `LookupFails`, `RecordLogin` are
`login_handler` with its audit row, `Refresh` and `LogOut` the other two, `CallHandled` the
extractors of `middleware.rs`, `Arrive` the reply reaching the browser, in any order; `Lose`
a reply that does not. `SetRole` is an edit of the table from outside, which no route makes,
and `Restart` seeds the administrator again. `known[k]` is a history variable: the replies
that had arrived when `k` was sent. The bearer token of the tools is static and left out.

### Health: pages made of checks that are not simultaneous

`ProbeAnswers` in any order and `ProbeEnds`, which sorts, are `GET /health`; `CheckNext`,
`ChecksDone`, `CheckDatabase`, `CountHour` and `CountDay` the monitoring page. Connectors
change, alerts come in and age. `been[k]` is a history variable: the states since the request.

### Services: five of them in one process

`Services` composes the five modules above: a step of one leaves the variables of the others alone.
`ServicesProofs` holds the proofs about `Agents` and `Health`, and about the composition.

## 3. Runs

Deadlock checking is off in every run: the clock is bounded, a failed seeding leaves the loop
without jobs, and requests are finite in number, so that behaviours really end.

| Run | Shows |
|---|---|
| `MCIngestCursor` | three Wazuh events, two fit a page, time 1..3, two faults anywhere: `TypeOK`, `NoSilentGap` (no event silently behind the watermark), `TriageSticks` and `ImplementsFeed`, whose position never goes back; apart from them two Graylog messages with two clock units in a second and one fault, marks cut to the second and relative ranges: `WatermarkNeverRetreats` |
| `MCIngestLive` | Wazuh, Velociraptor and a Shuffle that comes and goes, one fault anywhere, under `FairSpec`: `EventuallyIngested`, `StallIsObservable`; apart from the events of Wazuh a Velociraptor row stamped with the present: `WatermarkNeverRetreats` |
| `MCIngestDuplicate`, `MCIngestTruncate` | findings, section 6 |
| `MCResponseHost` | two isolations (one per handler) and a release race for one host; apart from them Wazuh through both handlers and Shuffle, two at a time, with a failing statement: `TypeOK`, `SuccessIsReal`, `FailureEndsIt`, `EndpointAsReported` |
| `MCResponseLive` | any two of an isolation per handler, Wazuh through both handlers, Shuffle, a refused and a local action, three polls, one failing statement, under `FairSpec`: `EventuallyAnswered` and `ImplementsLedger` |
| `MCResponseObject` | a finding, section 6 |
| `MCCasework` | two templates that share an observable on one case; a count of progress; attachments, a detachment, the creation, an update and a template of another case; analysts, one failing statement: `TypeOK`, `AppliedWhole`, `AppliedOnce`, `ProgressBounded`, `AuditTellsLinks` |
| `MCCaseworkTemplate` | a finding, section 6 |
| `MCConsole` | a collection of two turns with up to two rows and two log entries beside a listing, a query or a refused request, one failing INSERT, under `FairSpec`: `TypeOK`, `ResultsWholeOrTold`, `NothingShownIsDropped`, `AnswersAreOwn`, `RunsAreRecorded`, `ArgumentsArrive`, `EventuallyClosed` |
| `MCConsoleLogs` | a finding, section 6 |
| `MCServices` | the five services without a common state: for `ThreatIntel`, `ResultsAreSound`, `FetchedIsKept`, `BatchIsComplete`, `TriageIsSound`; for `Agents`, `SyncSticks`, `InventoryIsSound`; for `Automation`, `UpdatesStick`, `LogTellsDeliveries`, `SwitchedOffIsQuiet`; for `Session`, `GrantsAreEarned`, `LoggedOutStays`, `LoginsAreAudited`; for `Health`, `HealthIsTold`; and `ServicesTypeOK` |

Some runs follow several things apart. `MCApart`, the constraint of the runs of `Ingest` that
pass, of `MCResponseHost` and of `MCCasework`, keeps requests that have no statement and no
upstream in common out of one behaviour (Wazuh's documents and the others'; Velociraptor's
requests and the other connectors'; the two cases). `MCPairs`, that of `MCResponseLive`, lets any
two requests begin: nothing makes a request begin and the ledger's actions are independent, so
that a third adds interleavings only. `MCServices` restricts `Services` with a variable `followed`
that says which one moves: they have no variable in common, so that an interleaving of two shows
nothing that one alone does not.

Bounds. `Cap = 2` with three events makes a page overflow; `Window = 1`, `MaxLag = 1` and
time up to 3 let an event be late, older than the first window, share the timestamp of the
watermark, or come after it. Two faults allow a failure during the recovery from another;
that a third would add nothing is what the proofs say for the safety properties.
`MaxCopies` stops the count of rows per document; `TypeOK` and the proofs hold for every
value of it. `Second = 2` is the least that tells an instant from a second. One poll
suffices for races on a host, since lost polls only delay the verdict; `MCResponseLive` has
three, so that there are a first, a middle and a last turn. Three requests for one host are
needed for a third to see the leftovers of two.

`Casework`: templates `full` and `part` share their last observable, as the seeded ones share
`hash_sha256`; two task ids let a task be created, counted and deleted beside another; three
calls about one link let two overlap while the third follows.

`Console`: two turns are a first and a last; two rows reach `Cap`, three rows on the server
exceed it; two log entries are one counted and one new. The arguments are one whose quoting
needs every rule of the parser and one that is no call at all.

`MCServices`: two lookups of one CVE in two spellings, of one URL, and of two URLs that differ
in case (called malicious by 3 of 70 engines, then by 20), with a life of one unit and a clock up to 3, so that a row is live, expires between
two requests and is replaced; two alerts on either side of level 15. Two syncs of two agents,
one of them enrolled on the host the other is registered under (it starts as connected), and
two clients, one without a hostname. Three jobs for each kind of row, so that two can overlap
and a third come after or between. A login and two more visits with lifetime and leeway of
one unit each, a restart or an edit, a lost reply. Two connectors, whose sorted order is not
that of the registry, a change of one of them, and two alerts.

Fairness. `Casework` and the services need none. `Ingest`: the loop (`WF(Process)`) because the
task is spawned for ever, its awaits end, and the container is restarted
(`docker-compose.yml:11`); `TimerElapses` because time passes. `Response` and `Console`:
`WF(Handle(r))` and `WF(Step(k))`, a handler runs on. Awaits end because the HTTP clients carry
a 30 s timeout (`wazuh.rs:86`, `shuffle.rs:93`, `graylog.rs:62`). Two assumptions are not
enforced by the code and are named here: tonic's client-side timeout (`velociraptor.rs:64,95`)
ends with the headers of a reply, so that reading the stream relies on the server keeping to
the deadline it is sent; and PostgreSQL answers or drops the connection. Nothing is assumed
of what an upstream does with a call, of the analyst or of the clock.

Symmetry is used where no liveness property is checked: in `MCIngestCursor`, whose documents
of one source and form are interchangeable, in `MCCasework`, whose task ids and attachments
are, and in `MCServices`, whose syncs are.

## 4. Proofs

`IngestProofs` (for any connectors, any finite set of documents, any bounds):

- `TypeCorrect`: `Spec => []TypeOK`.
- `Invariance`: `Spec => []IngestInv`. `NoSilentGap` alone is not inductive. `CycleInv`: the
  copy of the watermark a cycle works with still is the table's. `ClockInv`: without skewed
  sources no timestamp is ahead of the clock, so a new event cannot be behind the newest of
  a batch. `AboveInv`: ask, batch and new watermark of the running job stay at or above the
  old one; for Graylog this needs `SecondsInv` (watermarks are whole seconds, so that cutting
  an alert to the second cannot go below one) and arithmetic of truncation. `CoverInv`: what
  is older than the newest alert of a Wazuh batch is stored, still in the batch, or excused.
- `GapFree` and `MarksOnlyAdvance`: `NoSilentGap` and `WatermarkNeverRetreats` follow.
- `TriageKept`: `TriageSticks`, from the types and from what an insert that conflicts does.
- `Refinement`: `Spec => ImplementsFeed`, step by step, when Wazuh is registered and sources
  do not stamp events in the future (`MaxSkew = 0`).

`ResponseProofs` (any requests, hosts and bounds):

- `TypeCorrect`, `Invariance` (`ResponseInv`): `StageInv` ties the handler's place to the wire
  and the flow; `RecordInv` says a record repeats the verdict; `VerdictInv` says what a verdict
  implies of the upstream; `HostInv` says a flow that finished with nothing else going on left
  the host as asked.
- `SuccessIsTrue`, `FailureIsFinal`, `HostAsReported`: `SuccessIsReal`, `FailureEndsIt` and
  `EndpointAsReported` follow.
- `Refinement`: `Spec => ImplementsLedger`. A step settles fates or tells of one request, never
  both; that a fate which is settled stays so is the part of `StageInv` that says where a request
  can still be taken from.

`CaseworkProofs` (any cases, calls, templates and bounds):

- `TypeCorrect`, `Invariance` (`CaseworkInv`): `LinkInv` says that at most one call is on its way
  to the audit row of a link that is not blurred, and that link or log is as it left it;
  `ApplyInv` that what a call inserted is there or was deleted, and that what two calls
  inserted was deleted in between; `ProgressInv` that the tasks of a case are, while a call is
  between its counts, those of the first count or newer.
- `TemplateWhole`, `TemplateOnce`, `ProgressIsBounded` (with the library's facts on the
  cardinality of unions), `LogTellsLinks`: the four properties follow.

`ConsoleProofs` (any calls, arguments that are texts, number of turns and cap):

- `Invariance`: per call, `Placed` (where it is against its wire and flow), `PassedOver` (the log
  entries it has counted hold no message, and it reads the log of a flow seen finished only
  when its query for results failed), `Answered` (its answer against its flow) and `Recorded`.
  It is preserved because an endpoint's step leaves a finished flow alone and an answered call
  no longer watches its flow.
- `TypeCorrect`, `ResultsWhole`, `NoneDropped`, `Own`, `Recording`: `TypeOK`, `ResultsWholeOrTold`,
  `NothingShownIsDropped`, `AnswersAreOwn` and `RunsAreRecorded` follow.
- What `VqlText` computes is shown for every text, by induction. The library's theorems of
  induction take an operator and are of no use here; `Counting` and `Appending` derive the
  principle for sets from the well-foundedness of the order on the naturals: a set of texts that
  holds the empty one and, with a text, every one longer by a character is all of them.
  `FoldOfAppend` and `FoldInRange` say that a fold takes one step for one character more and
  keeps the type of its step.
- `UnquoteQuote`: `unquote_value` undoes `vql_quote`, for every text. `Doubled`: the first
  replacement leaves every backslash twice; `Halved`: after the second, the third leaves the
  value, whether or not the last backslash is still free to be replaced with what comes next.
- `RoundTrip`: `ParseCall(CallText(v))` is the one parameter `v`, if `Carried(v)`. `Held`: no
  parenthesis of the value ends the call early, since the depth of the search is that of the
  value; `Uncut`: no comma of it cuts the part, since the apostrophe before it is still open.
- `Arrival`: `ArgumentsArrive` follows from `RoundTrip` and `Delivered`, which says that a flow
  has what was parsed of its call.

`ThreatIntelProofs` (any requests, indicators, reports and durations; `KeysAssumption` says that
whatever is looked up has a key and what reports look like):

- `IntelInvariance`: `Position`, `ReadingInv` (a reading is of its own key, no older than its fetch),
  `RowInv` and `ResultInv` (rows and results repeat readings), `BesideInv` and `LaterInv` (of two
  requests of which neither ran beside the other, the later one read later), without which
  `FetchedIsKept` is not inductive.
- `Results`, `Kept`, `Triage`: `ResultsAreSound`, `FetchedIsKept` and `TriageIsSound` follow; the
  last for every report and every level, by arithmetic.
- `Batches`: `BatchIsComplete`, from `BatchInv`: a batch has as many results as there are indicators
  that are not blank among those it has passed, each in its place (a cardinality, so that the
  proof needs no induction over the list).

`AutomationProofs` (any jobs, rows and values; `RowsAssumption` says that a request names a row of
its own table):

- `AutoInvariance`: a job writes at most once (`WrittenInv`); the row is what the last writes ask for,
  and the copy a detection rule is merged into is the row as it was then (`StickInv`); what
  was delivered was read while the channel was on (`QuietInv`); counts taken in turn only grow
  (`CoveredInv`, on cardinalities).
- `Sticks`, `LogTells`, `Quiet`: `UpdatesStick`, `LogTellsDeliveries` and `SwitchedOffIsQuiet` follow.
  `NoneDangles`, `TotalCovered` and `TriggersArePatched` prove three properties of the module that
  the run leaves out: nothing refers to a deleted channel, a total is at most its parts, and
  a trigger without a next run comes from a PATCH.

`SessionProofs` (any visits, users, roles and durations):

- `SessionInvariance`: `CookieInv` says that every cookie, in the browser, in a request or in a reply,
  has a login with its user and role behind it, and someone who made it at its end minus the
  lifetime; `JarInv` that of the replies that arrived, whoever carries a cookie knows of none
  but undone logouts; `RowsInv` what the audit log holds of a visit.
- `Earned`, `StaysLoggedOut`, `Audited`: `GrantsAreEarned`, `LoggedOutStays` and `LoginsAreAudited`
  follow.

`ServicesProofs` is about `Agents` and `Health`, both of which need `Places`: how many elements of a
finite set have a lower rank is a bijection of the set with its places, by cardinalities. For
`Agents` (any agents, clients and lists without repetition):

- `SyncInvariance`: `SyncInv` says that of a sync that has read and one that is running, the second
  read later or they ran side by side (`Met`); that each entry a sync has come past is on its row,
  was missed, or gave way to a later entry of the same list or to a sync that may replace it
  (`Leaves`; `SyncSticks` speaks only of syncs that are answered, and so is not inductive); that a
  row is what its sync read; and that what was read of one agent differs in the hostname only
  before and after it first connected (`Fits`, `Agree`). `ChosenAre` says that a listing has the
  entries it is made of, in order.
- `AnswersStick`, `InventorySound`: `SyncSticks` and `InventoryIsSound` follow. `SyncTypeCorrect`.

For `Health` (any registry, whose ids sort differently, any requests and bounds):

- `PagesInvariance`: per request, `UnderWay` (a concurrent check adds a connector that is not there
  yet, a sequential one the next of the registry, and while the request waits the condition of
  every connector is among those it was in), `Witnessed` (every entry is such a condition) and
  `Told`. Sorting by distinct ids loses no entry, by `Places`.
- `PagesTypeCorrect`, and `Tells`: `HealthIsTold` follows.

For `Services`: `Composition` shows that a behaviour of the process is one of each service, from
which `ServicesTypeCorrect` (`ServicesTypeOK`) and `ServicesKeep` (the thirteen properties that
`MCServices` checks, together) follow from the theorems about each.

Only model-checked: the liveness properties (`EventuallyIngested`, `StallIsObservable`,
`EventuallyAnswered`, `EventuallyClosed`), which need fairness and ENABLED, out of the prover's
reach. Every safety property of a passing run is stated by a theorem.

## 5. What the properties excuse

`NoSilentGap` and the feed excuse two kinds of events: those a first fetch or a full page leaves
out (`cut`), which the code documents as limits, and those that became searchable only after
their timestamp (`late`), which the watermark may have passed: the code has that limit and
documents it nowhere. They say nothing about Graylog and Velociraptor: Graylog's range is
relative to a later moment (section 6), and the Velociraptor artifact is not in the repository.

`SuccessIsReal` speaks of requests that have an upstream: a template that is only acknowledged, or
that no connector takes, is completed with nothing sent. `FailureEndsIt` says of a failure in the
audit log that nothing of the action is still to come: nobody took the call, or its flow ended in
error. It does not say that the host is unchanged. A flow that ends in ERROR may have changed it,
and `push_action` reports it as a failure all the same (`velociraptor.rs:540-545`); the status on
record is that of a call nobody took, and only the text of the audit row ("failed during
execution") tells the two apart. Shuffle and the unreadable flow id are left out, being findings.
`action_executions` does not tell a failure from a timeout, so that `FailureEndsIt` speaks of the
audit log. `EndpointAsReported` excuses a success beside which another request for the host was open
(`Alone`): the code does not order requests that are made at once, and their flows end in any
order. It covers what abandoned and timed-out requests leave running.

`AppliedWhole` and `AppliedOnce` are about placeholders. A template that fails leaves the tasks it
inserted, and one that is applied again inserts them again: no property forbids it. `AuditTellsLinks`
leaves out links that are `blurred`.

`ResultsWholeOrTold` is about result rows. It leaves out the list of clients, which carries no flag,
and rows of a flow that is still running, of which the reader is not told that it is: the answer
(`routes/velociraptor.rs:47-54`) has the rows, a flag for the cut and the time it took, no state of the
flow. An empty answer of a finished flow without result rows counts as whole, even if its log holds
output (section 6). `NothingShownIsDropped` asks for at least one row, not for all that were
shown: the loop answers with what one query gave it. `RunsAreRecorded`, `LoginsAreAudited` and
`LogTellsDeliveries` leave out rows whose INSERT failed, since the code ignores or only answers
that. `ArgumentsArrive` is about values `Carried` holds of: an unbalanced closing parenthesis,
or an apostrophe with a comma, does not survive `parse_artifact_call`, which counts parentheses
and splits without regard to escapes. The query built of what was parsed quotes it once more with
`vql_quote`; that quoting and the server's reading of it are taken for the identity.

`FetchedIsKept` leaves out requests that ran beside each other, of which the one that stores last
may have read first; so does `SyncSticks`. `TriageGoesByShare` does not promise that a malicious
indicator is escalated: VirusTotal's verdict goes by the number of engines, the triage by their
share (`Diluted`; section 6). A detection rule may lose an update to one that had begun before it was
written (`UpdatesStick`): the read and the write of `services/detection.rs` are two statements. A
request that had read a channel delivers to it although it was switched off or changed meanwhile
(`SwitchedOffIsQuiet`). A refresh that is under way during a logout may bring the session back
(`LoggedOutStays`). `InventoryIsSound` leaves out agents whose hostname changed when they first
connected: they are in two rows. `HealthIsTold` assumes that a check does not panic, as
`connectors/mod.rs` asks of it ("never returns an error"): a panic ends the loop that collects the
checks (`routes/health.rs:92`).

## 6. Disagreements between the code and what it says

Shown by a run that TLC refutes:

- `MCIngestDuplicate`: a Graylog message fetched twice becomes two alerts
  (`services/alerts.rs:4-6` promises one row per event).
- `MCIngestTruncate`: a Graylog fetch misses an event newer than the watermark that is not stored
  (`connectors/mod.rs:74`), with a range of at least a second.
- `MCResponseObject`: a flow id inside an object, the shape `velociraptor.rs:321` documents,
  is reported as "definitively not scheduled" (`:499`) while the flow runs.
- `MCConsoleLogs`: a collection that finished without result rows is answered empty although its
  log holds output (`velociraptor.rs:243`): the results are asked for first, and the loop ends
  there. "If flow finished and we have logs, return them" (`:281`) comes after, and shell
  artifacts write to the log only (`:204-206`). Only an earlier turn that met the output, or a
  failing query of the results, saves it.
- `MCCaseworkTemplate`: on a case that exists, a second template that shares an observable type
  with the first fails after inserting its tasks (`services/incidents.rs:331`), since all
  placeholders have the same empty value and nothing can fill them in (`:382`).

Seen while modelling, without a run:

- A row PostgreSQL refuses stops its batch in every cycle (`connectors/wazuh.rs:389`, of
  unmappable hits, says one bad document does not break the batch; `StallIsObservable` says that
  it is seen). A fetch returns the event at the watermark again (`wazuh.rs:319`), against the
  "exclusive lower bound" of `connectors/mod.rs:56,77`, and it is this inclusive bound that
  `NoSilentGap` needs. The first window is 24 hours, not the "last hour" of
  `services/ingest.rs:5-6`.
- An unanswered trigger of Shuffle is audited as a failure
  (`migrations/0002_reclassify_action_error.sql:13` maps such drops to a timeout); a Wazuh
  template that no connector takes is completed (`services/actions.rs:263`); nothing writes the
  status 'timeout' of `migrations/0005:26`. The triage recommends a template "isolate_host"
  (`services/ai_analyst.rs:176`) while the template is called "isolate_endpoint"
  (`services/actions.rs:119`).
- An indicator that 3 of 70 engines call malicious is "malicious" (`services/threat_intel.rs:236`)
  and its triage "INFORMATIONAL" (`services/ai_analyst.rs:201-208`), in one answer; no text
  says which of the two is meant.
- The percentage of `get_case_progress` can exceed 100, since its two counts are two statements
  (`services/incidents.rs:397`; `ProgressBounded` says by how much).
- A collection is polled "for up to 60 s" (`velociraptor.rs:142`), which counts the pauses of 30
  turns and not their three queries.
- An email is only logged (`services/notifications.rs:365`), and its notification is recorded as
  'sent'; notification rules are stored and never evaluated.
- `update_schedule` leaves `next_run_at` as it was when the trigger changes, and does not check
  the trigger (`TriggersArePatched`); the executor that the header of `services/scheduler.rs`
  describes is never called.
- The database check of the monitoring page reads `SELECT 1`, a 32-bit integer, as a 64-bit one
  (`services/health_monitor.rs:156`), and so fails whatever the state of the database; the
  overall status does not look at it. The posture summary counts cached scores of 50 and more
  (`services/ai_analyst.rs:271`) while scores are at most 1. `/health` checks connectors on tasks
  of their own so that a slow one "cannot delay the others' health results"
  (`routes/health.rs:86`), but answers when all have ended.
- `wait_for_completion` of `shuffle.rs`, the parsers of `connectors/syslog.rs` and
  `services/agents.rs` are never called.

## 7. Not modelled, and what could follow

Not modelled, and why: the code that is never called (the list above); the MCP tools, a
catalogue with a dispatch to operations that are modelled; the posture summary and the lists,
single statements that only read; the routes (but for `Services`) and the configuration, which are
static; parsers
of formats (data only). Within modelled components: `interval_minutes` is a timer per job, the
status and assignee of a case and the columns of `update_observable` decide nothing, and four of
the six counts of the monitoring page are like the two that are kept.

What could follow: the composition of `Ingest` and `Casework` over the alerts they share, to
follow the links of an alert that is stored twice; larger instances of `MCServices`, one run per service.
