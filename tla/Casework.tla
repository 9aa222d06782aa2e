------------------------------ MODULE Casework ------------------------------
(***************************************************************************)
(* Cases and what hangs on them: the handlers of routes/cases.rs that      *)
(* change a case and write the audit log after it, and the tasks,          *)
(* observables and templates of services/incidents.rs.                     *)
(*                                                                         *)
(* Every SQL statement commits on its own.  A handler of one statement is  *)
(* one action; one of several is a call with a place of its own:           *)
(*                                                                         *)
(*    idle -> audit -> ok             create, update, attach, detach       *)
(*    idle -> insert -> ... -> ok     apply_template                       *)
(*    idle -> counted -> ok           get_case_progress                    *)
(*    (failed: an error is answered; gone: client or process lost)         *)
(*                                                                         *)
(* Nothing removes a case.  A column that no statement here decides by is  *)
(* left out (titles, assignees, a case's status, an observable's           *)
(* confidence), and with them update_observable, which writes no other: it *)
(* cannot give an observable a value.                                      *)
(***************************************************************************)
EXTENDS Integers, Sequences, FiniteSets

CONSTANTS
  Cases, Alerts, Types,
  Opened,     \* the cases that exist at the start
  TaskIds,    \* UUIDs of tasks, as many as may ever be inserted (a bound)
  CaseOf,     \* CaseOf[t]: the case task t, once inserted, belongs to
  Values,     \* values analysts give to observables
  Templates,
  TaskCount,  \* TaskCount[p]: how many tasks template p has
  ObsTypes,   \* ObsTypes[p]: the types of its observables, in order
  Calls,      \* calls of handlers with several statements
  Op, On,     \* Op[k], On[k]: what call k does, and to which case
  Alert,      \* Alert[k]: the alert it attaches or detaches
  Template,   \* Template[k]: the template it applies
  MaxFaults   \* bound: failing statements in a behaviour

LinkOps == {"attach", "detach"}
CaseOps == {"create", "update"} \cup LinkOps
Links   == Cases \X Alerts

Blank == ""   \* the value of a template's observable
Keys  == Cases \X Types \X (Values \cup {Blank})

ASSUME CallsAssumption ==
  /\ Op \in [Calls -> CaseOps \cup {"apply", "progress"}]
  /\ On \in [Calls -> Cases]
  /\ Alert \in [Calls -> Alerts]
  /\ Template \in [Calls -> Templates]

ASSUME DataAssumption ==
  /\ Opened \subseteq Cases
  /\ IsFiniteSet(TaskIds)
  /\ CaseOf \in [TaskIds -> Cases]
  /\ TaskCount \in [Templates -> Nat]
  /\ ObsTypes \in [Templates -> Seq(Types)]
  /\ MaxFaults \in Nat

VARIABLES
  cases,        \* table cases
  links,        \* table case_alerts
  tasks,        \* table case_tasks: the ids of its rows
  done,         \* tasks whose status is 'completed'
  stamped,      \* tasks with a completed_at
  observables,  \* table observables: case, type and value are its key
  audited,      \* audit_log: calls that wrote their row
  latest,       \* latest[l]: what the last audit_log row about link l says
  pc,           \* pc[k]: where call k is
  taskCount,    \* taskCount[k]: tasks call k inserted
  obsCount,     \* obsCount[k]: observables call k inserted
  total,        \* total[k]: the tasks k counted
  completed,    \* completed[k]: the completed tasks k counted
  faults,       \* statements that may still fail
  used,         \* history: the UUIDs given to tasks so far
  since,        \* history: since[k]: tasks created for On[k] since k's first count
  deleted,      \* history: the keys of observables that were deleted
  blurred       \* history: links whose last changes overlapped, or whose row was lost

taskRows == <<tasks, done, stamped, used, since>>
obsRows  == <<observables, deleted>>
caseRows == <<cases, links, audited, latest, blurred>>
counts   == <<taskCount, obsCount>>
progress == <<total, completed>>
vars     == <<taskRows, obsRows, caseRows, counts, progress, pc, faults>>

InFlight == {"audit", "insert", "counted"}

TypeOK ==
  /\ cases \in SUBSET Cases
  /\ links \in SUBSET Links
  /\ tasks \in SUBSET used
  /\ stamped \in SUBSET tasks
  /\ done \in SUBSET stamped
  /\ observables \in SUBSET Keys
  /\ audited \in SUBSET Calls
  /\ latest \in [Links -> LinkOps \cup {"none"}]
  /\ pc \in [Calls -> InFlight \cup {"idle", "ok", "failed", "gone"}]
  /\ taskCount \in [Calls -> Nat]
  /\ obsCount \in [Calls -> Nat]
  /\ total \in [Calls -> SUBSET used]
  /\ completed \in [Calls -> SUBSET used]
  /\ faults \in 0..MaxFaults
  /\ used \in SUBSET TaskIds
  /\ since \in [Calls -> SUBSET used]
  /\ deleted \in SUBSET Keys
  /\ blurred \in SUBSET Links

Init ==
  /\ cases = Opened
  /\ links = {}
  /\ tasks = {} /\ done = {} /\ stamped = {} /\ used = {}
  /\ observables = {} /\ deleted = {}
  /\ audited = {} /\ blurred = {}
  /\ latest = [l \in Links |-> "none"]
  /\ pc = [k \in Calls |-> "idle"]
  /\ taskCount = [k \in Calls |-> 0]
  /\ obsCount = [k \in Calls |-> 0]
  /\ total = [k \in Calls |-> {}]
  /\ completed = [k \in Calls |-> {}]
  /\ since = [k \in Calls |-> {}]
  /\ faults = MaxFaults

GoTo(k, place) == pc' = [pc EXCEPT ![k] = place]

Fault ==
  /\ faults > 0
  /\ faults' = faults - 1

TasksOf(c) == {t \in tasks : CaseOf[t] = c}

-----------------------------------------------------------------------------
(***************************************************************************)
(* Rows: what one statement does to the tables.                            *)
(***************************************************************************)

(* INSERT INTO case_tasks: a new id, pending; the case must exist.         *)
InsertTask(c) ==
  /\ c \in cases
  /\ \E t \in TaskIds \ used :
       /\ CaseOf[t] = c
       /\ tasks' = tasks \cup {t}
       /\ used' = used \cup {t}
       /\ since' = [k \in Calls |->
                      IF pc[k] = "counted" /\ On[k] = c THEN since[k] \cup {t} ELSE since[k]]
  /\ UNCHANGED <<done, stamped>>

(* INSERT INTO observables: the case must exist, and the key be new.       *)
AcceptsTwice(key) == key[1] \in cases     \* mutant: without the unique index
Accepts(key) == key[1] \in cases /\ key \notin observables

InsertObservable(key) ==
  /\ Accepts(key)
  /\ observables' = observables \cup {key}
  /\ UNCHANGED deleted

-----------------------------------------------------------------------------
(***************************************************************************)
(* Handlers of one statement.                                              *)
(***************************************************************************)

CreateTask ==
  /\ \E c \in Cases : InsertTask(c)
  /\ UNCHANGED <<obsRows, caseRows, counts, progress, pc, faults>>

(* A task that is completed is stamped; it keeps the stamp when it is      *)
(* opened again.  Without a status nothing that is modelled changes.       *)
ExistingEver == used     \* mutant: no row is not an error
Existing == tasks

UpdateTask ==
  /\ \E t \in Existing :
       \/ done' = done \cup {t} /\ stamped' = stamped \cup {t}
       \/ done' = done \ {t} /\ UNCHANGED stamped
  /\ UNCHANGED <<tasks, used, since, obsRows, caseRows, counts, progress, pc, faults>>

DeleteTask ==
  /\ \E t \in tasks : tasks' = tasks \ {t} /\ done' = done \ {t} /\ stamped' = stamped \ {t}
  /\ UNCHANGED <<used, since, obsRows, caseRows, counts, progress, pc, faults>>

CreateObservable ==
  /\ \E c \in Cases, y \in Types, v \in Values : InsertObservable(<<c, y, v>>)
  /\ UNCHANGED <<taskRows, caseRows, counts, progress, pc, faults>>

DeleteObservable ==
  /\ \E key \in observables :
       /\ observables' = observables \ {key}
       /\ deleted' = deleted \cup {key}
  /\ UNCHANGED <<taskRows, caseRows, counts, progress, pc, faults>>

-----------------------------------------------------------------------------
(***************************************************************************)
(* A change of a case and its audit row.                                   *)
(***************************************************************************)

Link(k) == <<On[k], Alert[k]>>

LinkCalls == {k \in Calls : Op[k] \in LinkOps}

About(l) == {k \in LinkCalls : Link(k) = l}

Auditing(l) == {k \in About(l) : pc[k] = "audit"}

(* update: 404 without the case; attach: the foreign key of the link.      *)
Allowed(k) == Op[k] \in {"update", "attach"} => On[k] \in cases

Change(k) ==
  /\ pc[k] = "idle" /\ Op[k] \in CaseOps
  /\ Allowed(k)
  /\ cases' = IF Op[k] = "create" THEN cases \cup {On[k]} ELSE cases
  /\ links' = CASE Op[k] = "attach" -> links \cup {Link(k)}
                [] Op[k] = "detach" -> links \ {Link(k)}
                [] OTHER -> links
  /\ blurred' = IF Op[k] \notin LinkOps THEN blurred
                ELSE IF Auditing(Link(k)) = {} THEN blurred \ {Link(k)}
                ELSE blurred \cup {Link(k)}
  /\ GoTo(k, "audit")
  /\ UNCHANGED <<taskRows, obsRows, audited, latest, counts, progress, faults>>

(* An error of the statement is answered; nothing is audited.              *)
AfterErrorAudit == "audit"     \* mutant: logged only, like one of the audit row
AfterError == "failed"

ChangeFails(k) ==
  /\ pc[k] = "idle" /\ Op[k] \in CaseOps
  /\ \/ ~Allowed(k) /\ UNCHANGED faults
     \/ Fault
  /\ GoTo(k, AfterError)
  /\ UNCHANGED <<taskRows, obsRows, caseRows, counts, progress>>

(* A failing INSERT is ignored. *)
Audit(k) ==
  /\ pc[k] = "audit"
  /\ \/ /\ audited' = audited \cup {k}
        /\ latest' = IF Op[k] \in LinkOps THEN [latest EXCEPT ![Link(k)] = Op[k]] ELSE latest
        /\ UNCHANGED <<blurred, faults>>
     \/ /\ Fault
        /\ blurred' = IF Op[k] \in LinkOps THEN blurred \cup {Link(k)} ELSE blurred
        /\ UNCHANGED <<audited, latest>>
  /\ GoTo(k, "ok")
  /\ UNCHANGED <<taskRows, obsRows, cases, links, counts, progress>>

-----------------------------------------------------------------------------
(***************************************************************************)
(* apply_template: the tasks, then the observables, one INSERT each; the   *)
(* first that fails ends the call and leaves what was inserted.            *)
(***************************************************************************)

Placeholder(k, i) == <<On[k], ObsTypes[Template[k]][i], Blank>>

(* Templates are read-only: that the row is read at all is what counts.    *)
ReadTemplate(k) ==
  /\ pc[k] = "idle" /\ Op[k] = "apply"
  /\ GoTo(k, "insert")
  /\ UNCHANGED <<taskRows, obsRows, caseRows, counts, progress, faults>>

ApplyTask(k) ==
  /\ pc[k] = "insert"
  /\ taskCount[k] < TaskCount[Template[k]]
  /\ InsertTask(On[k])
  /\ taskCount' = [taskCount EXCEPT ![k] = @ + 1]
  /\ UNCHANGED <<obsRows, caseRows, obsCount, progress, pc, faults>>

TasksApplied(k) == taskCount[k] >= TaskCount[Template[k]]

ApplyObservable(k) ==
  /\ pc[k] = "insert" /\ TasksApplied(k)
  /\ obsCount[k] < Len(ObsTypes[Template[k]])
  /\ InsertObservable(Placeholder(k, obsCount[k] + 1))
  /\ obsCount' = [obsCount EXCEPT ![k] = @ + 1]
  /\ UNCHANGED <<taskRows, caseRows, taskCount, progress, pc, faults>>

(* No case, or the key is taken. *)
Refused(k) ==
  /\ pc[k] = "insert"
  /\ \/ taskCount[k] < TaskCount[Template[k]] /\ On[k] \notin cases
     \/ /\ TasksApplied(k)
        /\ obsCount[k] < Len(ObsTypes[Template[k]])
        /\ ~Accepts(Placeholder(k, obsCount[k] + 1))

(* An error ends the call, at the SELECT or at an INSERT; what was inserted *)
(* stays.                                                                  *)
ApplyFails(k) ==
  /\ Op[k] = "apply"
  /\ \/ Refused(k) /\ UNCHANGED faults
     \/ pc[k] \in {"idle", "insert"} /\ Fault
  /\ GoTo(k, "failed")
  /\ UNCHANGED <<taskRows, obsRows, caseRows, counts, progress>>

AppliedEarly(k) == TasksApplied(k) /\ obsCount[k] >= Len(ObsTypes[Template[k]]) - 1  \* mutant
Applied(k) == TasksApplied(k) /\ obsCount[k] = Len(ObsTypes[Template[k]])

ApplyEnds(k) ==
  /\ pc[k] = "insert"
  /\ Applied(k)
  /\ GoTo(k, "ok")
  /\ UNCHANGED <<taskRows, obsRows, caseRows, counts, progress, faults>>

-----------------------------------------------------------------------------
(***************************************************************************)
(* get_case_progress: two SELECTs.                                         *)
(***************************************************************************)

CountedOpen(c) == TasksOf(c) \ done     \* mutant: tasks still to do
Counted(c) == TasksOf(c)

CountTotal(k) ==
  /\ pc[k] = "idle" /\ Op[k] = "progress"
  /\ total' = [total EXCEPT ![k] = Counted(On[k])]
  /\ GoTo(k, "counted")
  /\ UNCHANGED <<taskRows, obsRows, caseRows, counts, completed, faults>>

CountCompleted(k) ==
  /\ pc[k] = "counted"
  /\ completed' = [completed EXCEPT ![k] = TasksOf(On[k]) \cap done]
  /\ GoTo(k, "ok")
  /\ UNCHANGED <<taskRows, obsRows, caseRows, counts, total, faults>>

CountFails(k) ==
  /\ Op[k] = "progress" /\ pc[k] \in {"idle", "counted"}
  /\ Fault
  /\ GoTo(k, "failed")
  /\ UNCHANGED <<taskRows, obsRows, caseRows, counts, progress>>

-----------------------------------------------------------------------------
(***************************************************************************)
(* A call ends at an await, with its client or with the process.           *)
(***************************************************************************)

Unaudited(calls) == {Link(k) : k \in {j \in calls : pc[j] = "audit" /\ Op[j] \in LinkOps}}

Lose(calls) ==
  /\ pc' = [k \in Calls |-> IF k \in calls THEN "gone" ELSE pc[k]]
  /\ blurred' = blurred \cup Unaudited(calls)
  /\ UNCHANGED <<taskRows, obsRows, cases, links, audited, latest, counts, progress, faults>>

HangUp(k) == pc[k] \in InFlight /\ Lose({k})

Crash ==
  LET lost == {k \in Calls : pc[k] \in InFlight} IN lost # {} /\ Lose(lost)

-----------------------------------------------------------------------------
Rows == CreateTask \/ UpdateTask \/ DeleteTask \/ CreateObservable \/ DeleteObservable

Handle(k) ==
  \/ Change(k) \/ ChangeFails(k) \/ Audit(k)
  \/ ReadTemplate(k) \/ ApplyTask(k) \/ ApplyObservable(k) \/ ApplyFails(k) \/ ApplyEnds(k)
  \/ CountTotal(k) \/ CountCompleted(k) \/ CountFails(k)
  \/ HangUp(k)

Next == Rows \/ (\E k \in Calls : Handle(k)) \/ Crash

Spec == Init /\ [][Next]_vars

-----------------------------------------------------------------------------
(***************************************************************************)
(* What may be relied on.                                                  *)
(***************************************************************************)

Succeeded(k) == Op[k] = "apply" /\ pc[k] = "ok"

(* Of a template whose application is answered with success every          *)
(* placeholder is on the case (apply_template), but for those an analyst   *)
(* deleted, whatever other applications did.  Its tasks have no key: a     *)
(* call that failed leaves those it inserted, a second try inserts them    *)
(* again, and nothing here forbids either.                                 *)
AppliedWhole ==
  \A k \in Calls : Succeeded(k) =>
    \A i \in 1..Len(ObsTypes[Template[k]]) :
      Placeholder(k, i) \in observables \cup deleted

(* Applications race for their placeholders (the unique index of           *)
(* migrations/0011): of two that share one on a case, or are the same      *)
(* template applied twice, both succeed only if it was deleted meanwhile.  *)
AppliedOnce ==
  \A j \in Calls : Succeeded(j) => \A k \in Calls \ {j} : Succeeded(k) =>
    \A i \in 1..Len(ObsTypes[Template[j]]) : \A n \in 1..Len(ObsTypes[Template[k]]) :
      Placeholder(j, i) = Placeholder(k, n) => Placeholder(j, i) \in deleted

(* get_case_progress reports more completed tasks than there are in all    *)
(* by at most those that were created between its two counts.              *)
ProgressBounded ==
  \A k \in Calls : Op[k] = "progress" /\ pc[k] = "ok" =>
    Cardinality(completed[k]) <= Cardinality(total[k]) + Cardinality(since[k])

(* The audit log (routes/cases.rs) tells whether an alert is linked to a   *)
(* case: its last row about the link does, once no change is on its way,   *)
(* unless the last changes overlapped or the row of one was lost.          *)
AuditTellsLinks ==
  \A l \in Links : l \notin blurred /\ Auditing(l) = {} =>
    (latest[l] = "attach" <=> l \in links)

-----------------------------------------------------------------------------
(***************************************************************************)
(* Why: an inductive invariant.                                            *)
(***************************************************************************)

LinkInv ==
  \A l \in Links : l \notin blurred =>
    /\ \A j, k \in Auditing(l) : j = k
    /\ \A k \in Auditing(l) : Op[k] = "attach" <=> l \in links
    /\ Auditing(l) = {} => (latest[l] = "attach" <=> l \in links)

(* What an application inserted so far; no two inserted the same key       *)
(* unless it was deleted in between.                                       *)
ApplyInv ==
  \A k \in Calls :
    /\ Op[k] = "apply" => obsCount[k] <= Len(ObsTypes[Template[k]])
    /\ Succeeded(k) => obsCount[k] = Len(ObsTypes[Template[k]])
    /\ pc[k] = "insert" => Op[k] = "apply"
    /\ pc[k] \in {"audit", "counted"} => Op[k] # "apply"
    /\ Op[k] # "apply" => obsCount[k] = 0
    /\ \A i \in 1..obsCount[k] : Placeholder(k, i) \in observables \cup deleted
    /\ obsCount[k] # 0 =>
         \A j \in Calls \ {k} : \A i \in 1..obsCount[k] : \A n \in 1..obsCount[j] :
         Placeholder(j, n) = Placeholder(k, i) => Placeholder(k, i) \in deleted

ProgressInv ==
  \A k \in Calls :
    /\ pc[k] = "counted" => TasksOf(On[k]) \subseteq total[k] \cup since[k]
    /\ pc[k] # "ok" => completed[k] = {}
    /\ completed[k] \subseteq total[k] \cup since[k]

CaseworkInv == LinkInv /\ ApplyInv /\ ProgressInv

-----------------------------------------------------------------------------
(***************************************************************************)
(* What a comment of the code says and the code does not do.               *)
(***************************************************************************)

(* "Apply a case template to create tasks and observables for a case"      *)
(* (incidents.rs): when the case exists and no statement fails, it does.   *)
TemplateApplies ==
  MaxFaults = 0 =>
    \A k \in Calls : Op[k] = "apply" /\ On[k] \in Opened => pc[k] # "failed"
=============================================================================
