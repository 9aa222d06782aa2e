----------------------------- MODULE Automation -----------------------------
(***************************************************************************)
(* The configurable automation: notification channels, rules and the       *)
(* sending of notifications (services/notifications.rs), detection rules   *)
(* (services/detection.rs), schedules (services/scheduler.rs) and network  *)
(* connectors (routes/network_connectors.rs).                              *)
(*                                                                         *)
(* A job is one request.  What it writes is a row with a switch and one    *)
(* more field: the target of a channel, the severity of a rule, the        *)
(* trigger of a schedule, the configuration of a network connector.        *)
(* Nothing runs schedules or evaluates notification rules.                 *)
(***************************************************************************)
EXTENDS Integers, Sequences, FiniteSets

CONSTANTS
  Jobs,
  Tasks,      \* what the jobs may ask: functions to [op, row, enabled, field]
  Channels, DetectionRules, Schedules, Devices,    \* ids of rows
  Seeded,     \* rows that there are at first, those of the migrations
  Seeds,      \* what their other field may be
  SenderOf,   \* SenderOf[c]: "webhook", "slack", "email" or another type
  Values,     \* of the other field; "" is an empty target
  Bad,        \* triggers of which no next run can be computed
  MaxLapses   \* bound: statements that fail

Keep == "keep"                      \* a field that is not in the request
Switch == {"on", "off"}
None == [enabled |-> "off", field |-> "none"]
RowIds  == Channels \cup DetectionRules \cup Schedules \cup Devices
Patches == {"patchChannel", "patchRule", "patchSchedule", "patchDevice"}
JobOps  == Patches \cup
  {"addChannel", "dropChannel", "addRule", "dropRule", "send", "stats",
   "addSchedule", "dropSchedule", "addDevice", "dropDevice"}

ASSUME TasksAssumption ==
  /\ Tasks \subseteq [Jobs -> [op : JobOps, row : RowIds, enabled : Switch \cup {Keep},
                               field : Values \cup {Keep}]]
  /\ Keep \notin Values /\ "none" \notin Values /\ Bad \subseteq Values
  /\ Seeded \subseteq RowIds /\ Seeds \subseteq [Seeded -> Values \ Bad]
  /\ SenderOf \in [Channels -> STRING]
  /\ MaxLapses \in Nat

(* Each table has its ids, and a request names a row of the table it is    *)
(* about; a row is not made without its field.                             *)
ASSUME RowsAssumption ==
  /\ Channels \cap (DetectionRules \cup Schedules \cup Devices) = {}
  /\ Schedules \cap (DetectionRules \cup Devices) = {}
  /\ DetectionRules \cap Devices = {}
  /\ \A t \in Tasks : \A k \in Jobs :
       /\ t[k].op \in {"addChannel", "patchChannel", "dropChannel", "addRule", "send"}
            => t[k].row \in Channels
       /\ t[k].op = "patchRule" => t[k].row \in DetectionRules
       /\ t[k].op \in {"addSchedule", "patchSchedule", "dropSchedule"} => t[k].row \in Schedules
       /\ t[k].op \in {"addDevice", "patchDevice", "dropDevice"} => t[k].row \in Devices
       /\ t[k].op \in {"addChannel", "addSchedule", "addDevice"} => t[k].field # Keep

VARIABLES
  task,       \* task[k]: what job k asks
  stage,      \* stage[k]: where job k is
  table,      \* table[r]: row r, or None
  rules,      \* notification_rules: [id, channel], the id being the job that made it
  notices,    \* notification_log: [job, channel, status]
  snapshot,   \* snapshot[k]: the row job k has read
  outcome,    \* outcome[k]: "ok" or "error", how the delivery went
  count,      \* count[k]: what a reading of the statistics has counted
  received,   \* history: jobs whose message reached its receiver
  wrote,      \* history: jobs that wrote a row, in order
  before,     \* history: before[k]: wrote, when k began
  lapses      \* statements that may still fail

jobState   == <<snapshot, outcome, count>>
logState   == <<rules, notices>>
jobHistory == <<received, wrote, before>>
autoVars   == <<task, stage, table, jobState, logState, jobHistory, lapses>>

AtWork  == {"merge", "deliver", "log", "second", "third"}
Over    == {"done", "refused", "error", "lost"}
Uncounted == [all |-> -1, sent |-> -1, failed |-> -1]
RowType == [enabled : Switch, field : Values \cup {"none"}]

AutoTypeOK ==
  /\ task \in Tasks
  /\ stage \in [Jobs -> AtWork \cup Over \cup {"idle"}]
  /\ table \in [RowIds -> RowType]
  /\ rules \in SUBSET [id : Jobs, channel : Channels]
  /\ notices \in SUBSET [job : Jobs, channel : Channels, status : {"sent", "failed"}]
  /\ snapshot \in [Jobs -> RowType]
  /\ outcome \in [Jobs -> {"none", "ok", "error"}]
  /\ count \in [Jobs -> [all : Int, sent : Int, failed : Int]]
  /\ received \in SUBSET Jobs
  /\ wrote \in Seq(Jobs)
  /\ before \in [Jobs -> Seq(Jobs)]
  /\ lapses \in 0..MaxLapses

AutoInit ==
  /\ task \in Tasks
  /\ stage = [k \in Jobs |-> "idle"]
  /\ \E seed \in Seeds :
       table = [r \in RowIds |-> IF r \in Seeded THEN [enabled |-> "on", field |-> seed[r]] ELSE None]
  /\ rules = {} /\ notices = {}
  /\ snapshot = [k \in Jobs |-> None]
  /\ outcome = [k \in Jobs |-> "none"]
  /\ count = [k \in Jobs |-> Uncounted]
  /\ received = {} /\ wrote = <<>>
  /\ before = [k \in Jobs |-> <<>>]
  /\ lapses = MaxLapses

to(k)      == task[k].row
GoOn(k, s) == stage' = [stage EXCEPT ![k] = s]
Lapse      == lapses > 0 /\ lapses' = lapses - 1
Exists(r)  == table[r] # None

(* A job begins with its first statement. *)
Opens(k, op) ==
  /\ stage[k] = "idle" /\ task[k].op = op
  /\ before' = [before EXCEPT ![k] = wrote]

Write(k, row) ==
  /\ table' = [table EXCEPT ![to(k)] = row]
  /\ wrote' = Append(wrote, k)

(* The answer when there is nothing to do, or a statement failed. *)
AnswerOnly(k, s) ==
  /\ GoOn(k, s)
  /\ UNCHANGED <<task, table, jobState, logState, received, wrote>>

Failing(k) ==
  /\ task[k].op # "stats" /\ Opens(k, task[k].op)
  /\ Lapse
  /\ AnswerOnly(k, "error")

-----------------------------------------------------------------------------
(***************************************************************************)
(* Rows: one statement each.                                               *)
(***************************************************************************)

Add(k, op) ==
  /\ Opens(k, op) /\ ~Exists(to(k))
  /\ Write(k, [enabled |-> "on", field |-> task[k].field])
  /\ GoOn(k, "done")
  /\ UNCHANGED <<task, jobState, logState, received, lapses>>

(* SET column = COALESCE($n, column): what the request leaves out stays.   *)
CoalescedNot(asked, old) == asked             \* mutant: it is set all the same
Coalesced(asked, old) == IF asked = Keep THEN old ELSE asked

Merged(k, old) ==
  [enabled |-> Coalesced(task[k].enabled, old.enabled),
   field   |-> Coalesced(task[k].field, old.field)]

Patch(k, op) ==
  /\ Opens(k, op)
  /\ IF Exists(to(k))
     THEN /\ Write(k, Merged(k, table[to(k)]))
          /\ GoOn(k, "done")
          /\ UNCHANGED <<task, jobState, logState, received>>
     ELSE AnswerOnly(k, "refused")
  /\ UNCHANGED lapses

(* Deleting what is not there: 204, or 404 for a network connector.        *)
Remove(k, op, absent) ==
  /\ Opens(k, op)
  /\ IF Exists(to(k))
     THEN /\ Write(k, None)
          /\ GoOn(k, "done")
          /\ UNCHANGED <<task, jobState, received>>
     ELSE AnswerOnly(k, absent)
  /\ UNCHANGED lapses

AddChannel(k)   == Add(k, "addChannel")
PatchChannel(k) == Patch(k, "patchChannel")

(* The rules and the log go with their channel (ON DELETE CASCADE).        *)
Cascade(c) ==
  /\ rules' = {u \in rules : u.channel # c}
  /\ notices' = {n \in notices : n.channel # c}

DropChannel(k)  == Remove(k, "dropChannel", "done") /\ Cascade(to(k))

(* The next run is computed before the row is written.                     *)
Runnable(trigger) == trigger \notin Bad

AddSchedule(k) ==
  \/ Runnable(task[k].field) /\ Add(k, "addSchedule")
  \/ /\ ~Runnable(task[k].field)
     /\ Opens(k, "addSchedule")
     /\ AnswerOnly(k, "error") /\ UNCHANGED lapses
PatchSchedule(k) == Patch(k, "patchSchedule")
DropSchedule(k)  == Remove(k, "dropSchedule", "done") /\ UNCHANGED logState

AddDevice(k)   == Add(k, "addDevice")
PatchDevice(k) == Patch(k, "patchDevice")
DropDevice(k)  == Remove(k, "dropDevice", "refused") /\ UNCHANGED logState

RuleChanges(k) ==
  /\ GoOn(k, "done")
  /\ UNCHANGED <<task, table, jobState, notices, received, wrote, lapses>>

(* channel_id REFERENCES notification_channels. *)
AddRule(k) ==
  \/ /\ Opens(k, "addRule") /\ Exists(to(k))
     /\ rules' = rules \cup {[id |-> k, channel |-> to(k)]}
     /\ RuleChanges(k)
  \/ /\ Opens(k, "addRule") /\ ~Exists(to(k))
     /\ AnswerOnly(k, "error") /\ UNCHANGED lapses

DropRule(k) ==
  /\ Opens(k, "dropRule")
  /\ \E id \in Jobs : rules' = {u \in rules : u.id # id}
  /\ RuleChanges(k)

-----------------------------------------------------------------------------
(***************************************************************************)
(* update_detection_rule reads the row, merges, and writes both fields.    *)
(***************************************************************************)

ReadRule(k) ==
  /\ Opens(k, "patchRule")
  /\ snapshot' = [snapshot EXCEPT ![k] = table[to(k)]]
  /\ GoOn(k, IF Exists(to(k)) THEN "merge" ELSE "refused")
  /\ UNCHANGED <<task, table, outcome, count, logState, received, wrote, lapses>>

WriteRule(k) ==
  /\ stage[k] = "merge"
  /\ Write(k, Merged(k, snapshot[k]))
  /\ GoOn(k, "done")
  /\ UNCHANGED <<task, jobState, logState, received, before, lapses>>

WriteRuleFails(k) ==
  /\ stage[k] = "merge"
  /\ Lapse
  /\ AnswerOnly(k, "error") /\ UNCHANGED before

-----------------------------------------------------------------------------
(***************************************************************************)
(* send_notification: the channel is read, the message delivered, and how  *)
(* it went is logged.                                                      *)
(***************************************************************************)

SwitchedOnAlways(row) == TRUE                 \* mutant: `enabled` is not looked at
SwitchedOn(row) == row.enabled = "on"

ReadChannel(k) ==
  /\ Opens(k, "send")
  /\ snapshot' = [snapshot EXCEPT ![k] = table[to(k)]]
  /\ GoOn(k, IF Exists(to(k)) /\ SwitchedOn(table[to(k)]) THEN "deliver" ELSE "refused")
  /\ UNCHANGED <<task, table, outcome, count, logState, received, wrote, lapses>>

Delivered(k, how) ==
  /\ outcome' = [outcome EXCEPT ![k] = how]
  /\ GoOn(k, "log")
  /\ UNCHANGED <<task, table, snapshot, count, logState, wrote, before, lapses>>

(* What an answer of the receiver is taken for. *)
TakenForOk(status) == "ok"                    \* mutant: any answer is success
TakenFor(status) == IF status = "success" THEN "ok" ELSE "error"

(* A webhook or Slack: the receiver takes the message and says so, takes   *)
(* it and the answer is lost, or does not take it.                         *)
Post(k) ==
  /\ stage[k] = "deliver"
  /\ SenderOf[to(k)] \in {"webhook", "slack"} /\ snapshot[k].field # ""
  /\ \/ received' = received \cup {k} /\ Delivered(k, TakenFor("success"))
     \/ received' = received \cup {k} /\ Delivered(k, "error")
     \/ UNCHANGED received /\ Delivered(k, TakenFor("refused"))
     \/ UNCHANGED received /\ Delivered(k, "error")

(* No target, or no sender for that type. *)
CannotPost(k) ==
  /\ stage[k] = "deliver"
  /\ \/ SenderOf[to(k)] \in {"webhook", "slack"} /\ snapshot[k].field = ""
     \/ SenderOf[to(k)] \notin {"webhook", "slack", "email"}
  /\ UNCHANGED received
  /\ Delivered(k, "error")

(* send_email sends nothing and reports success. *)
Email(k) ==
  /\ stage[k] = "deliver" /\ SenderOf[to(k)] = "email"
  /\ UNCHANGED received
  /\ Delivered(k, "ok")

(* The INSERT refers to the channel: it fails if that is gone.             *)
LoggedStatus(k) == IF outcome[k] = "ok" THEN "sent" ELSE "failed"

LogNotice(k) ==
  notices' = notices \cup {[job |-> k, channel |-> to(k), status |-> LoggedStatus(k)]}

Log(k) ==
  /\ stage[k] = "log" /\ Exists(to(k))
  /\ LogNotice(k)
  /\ GoOn(k, "done")
  /\ UNCHANGED <<task, table, jobState, rules, jobHistory, lapses>>

LogFails(k) ==
  /\ stage[k] = "log"
  /\ IF Exists(to(k)) THEN Lapse ELSE UNCHANGED lapses
  /\ GoOn(k, "error")
  /\ UNCHANGED <<task, table, jobState, logState, jobHistory>>

-----------------------------------------------------------------------------
(***************************************************************************)
(* get_notification_stats: three counts, one after the other; a failed one *)
(* is 0.                                                                   *)
(***************************************************************************)

CountOf(what) == Cardinality({n \in notices : what = "all" \/ n.status = what})

Counted(k, what) ==
  /\ \/ count' = [count EXCEPT ![k][what] = CountOf(what)] /\ UNCHANGED lapses
     \/ count' = [count EXCEPT ![k][what] = 0] /\ Lapse
  /\ UNCHANGED <<task, table, snapshot, outcome, logState, received, wrote>>

CountOrder == <<"all", "sent", "failed">>

CountFirst(k) == Opens(k, "stats") /\ Counted(k, CountOrder[1]) /\ GoOn(k, "second")

CountNext(k) ==
  /\ stage[k] = "second"
  /\ Counted(k, CountOrder[2]) /\ GoOn(k, "third") /\ UNCHANGED before

CountLast(k) ==
  /\ stage[k] = "third"
  /\ Counted(k, CountOrder[3]) /\ GoOn(k, "done") /\ UNCHANGED before

-----------------------------------------------------------------------------
(* The client hangs up, or the process ends.                               *)
Abandon(k) ==
  /\ stage[k] \in AtWork
  /\ GoOn(k, "lost")
  /\ UNCHANGED <<task, table, jobState, logState, jobHistory, lapses>>

Job(k) ==
  \/ /\ AddChannel(k) \/ PatchChannel(k) \/ AddSchedule(k) \/ PatchSchedule(k)
        \/ AddDevice(k) \/ PatchDevice(k)
     /\ UNCHANGED logState
  \/ DropChannel(k) \/ DropSchedule(k) \/ DropDevice(k) \/ AddRule(k) \/ DropRule(k)
  \/ Failing(k)
  \/ ReadRule(k) \/ WriteRule(k) \/ WriteRuleFails(k)
  \/ ReadChannel(k) \/ Post(k) \/ CannotPost(k) \/ Email(k) \/ Log(k) \/ LogFails(k)
  \/ CountFirst(k) \/ CountNext(k) \/ CountLast(k)
  \/ Abandon(k)

AutoNext == \E k \in Jobs : Job(k)

AutoSpec == AutoInit /\ [][AutoNext]_autoVars

-----------------------------------------------------------------------------
(***************************************************************************)
(* What may be relied on.                                                  *)
(***************************************************************************)

Place(k) == CHOOSE p \in 1..Len(wrote) : wrote[p] = k
Wrote(k) == \E p \in 1..Len(wrote) : wrote[p] = k
Clears(j) == task[j].op \in {"dropChannel", "dropSchedule", "dropDevice"}

(* What a PATCH asked for stays until a later request for the same row     *)
(* asks otherwise or deletes it.  That goes for the COALESCE updates       *)
(* however they interleave; a detection rule, read and written back whole, *)
(* may also lose it to a request that had begun before it was written.     *)
Overrides(j, k, asks) ==
  /\ Wrote(j) /\ Place(j) > Place(k) /\ to(j) = to(k)
  /\ \/ asks \/ Clears(j)
     \/ task[j].op = "patchRule" /\ Len(before[j]) < Place(k)

UpdatesStick ==
  \A k \in Jobs : Wrote(k) /\ task[k].op \in Patches =>
    /\ task[k].enabled # Keep /\ table[to(k)].enabled # task[k].enabled =>
         \E j \in Jobs : Overrides(j, k, task[j].enabled # Keep)
    /\ task[k].field # Keep /\ table[to(k)].field # task[k].field =>
         \E j \in Jobs : Overrides(j, k, task[j].field # Keep)

(* The log tells what happened: a webhook that is "sent" has arrived, and  *)
(* of a message that arrived there is a row, unless its request was lost   *)
(* or failed, or its channel was deleted since.                            *)
LogTellsDeliveries ==
  /\ \A n \in notices : n.status = "sent" /\ SenderOf[n.channel] # "email" => n.job \in received
  /\ \A k \in received : stage[k] = "done" =>
       \/ \E n \in notices : n.job = k
       \/ \E j \in Jobs : Wrote(j) /\ task[j].op = "dropChannel" /\ to(j) = to(k)

(* A rule or a notice is never left behind by its channel.                 *)
NothingDangles ==
  /\ \A u \in rules : Exists(u.channel)
  /\ \A n \in notices : Exists(n.channel)

(* Once a PATCH has switched a channel off, no request that begins after   *)
(* it delivers through it, until one switches it on.                       *)
Switches(j, c) == to(j) = c /\ (task[j].enabled # Keep \/ task[j].op = "addChannel" \/ Clears(j))

SwitchedOffIsQuiet ==
  \A k \in received : \A p \in 1..Len(before[k]) :
    /\ task[before[k][p]].op = "patchChannel"
    /\ to(before[k][p]) = to(k) /\ task[before[k][p]].enabled = "off"
    => \E q \in (p + 1)..Len(before[k]) : Switches(before[k][q], to(k))

(* The total of the statistics is no more than its parts, although they    *)
(* are counted while notices come in; deletions and failures aside.        *)
TotalIsCovered ==
  \A k \in Jobs :
    /\ stage[k] = "done" /\ task[k].op = "stats" /\ lapses = MaxLapses
    /\ \A j \in Jobs : ~(Wrote(j) /\ Clears(j))
    => count[k].all <= count[k].sent + count[k].failed

(* A trigger of which no next run can be computed is only ever there       *)
(* because a PATCH put it there, which update_schedule does not prevent.   *)
BadTriggersArePatched ==
  \A r \in Schedules : table[r].field \in Bad =>
    \E j \in Jobs : Wrote(j) /\ task[j].op = "patchSchedule" /\ task[j].field = table[r].field
=============================================================================
