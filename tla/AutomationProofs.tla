-------------------------- MODULE AutomationProofs --------------------------
(***************************************************************************)
(* Theorems about the configurable automation, for any jobs and rows.      *)
(*                                                                         *)
(* The argument: a job writes at most once and is then done, so the order  *)
(* of the writes is a history that only grows; the table is what the last  *)
(* writes in it ask for, and what a job has read is what the table was     *)
(* when it began.                                                          *)
(***************************************************************************)
EXTENDS Automation, FiniteSetTheorems, TLAPS

Adds  == {"addChannel", "addSchedule", "addDevice"}
Drops == {"dropChannel", "dropSchedule", "dropDevice"}

(* A row holds a value, or is not there.                                   *)
TableInv == \A r \in RowIds : table[r] = None \/ table[r].field \in Values

(* Where a job is, and what it has then.                                   *)
StagesInv ==
  \A k \in Jobs :
    /\ stage[k] = "merge" => task[k].op = "patchRule" /\ snapshot[k].field \in Values
    /\ stage[k] \in {"deliver", "log"} => task[k].op = "send"
    /\ stage[k] \in {"second", "third"} => task[k].op = "stats"
    /\ k \in received => task[k].op = "send" /\ stage[k] \in {"log", "done", "error", "lost"}
    /\ stage[k] = "log" /\ outcome[k] = "ok" /\ SenderOf[to(k)] # "email" => k \in received

(* The history of the writes, and of what was written before a job began.  *)
WrittenInv ==
  /\ \A p \in 1..Len(wrote) : stage[wrote[p]] = "done"
  /\ \A p, q \in 1..Len(wrote) : wrote[p] = wrote[q] => p = q
  /\ \A k \in Jobs : stage[k] # "idle" =>
       /\ Len(before[k]) <= Len(wrote)
       /\ \A p \in 1..Len(before[k]) : before[k][p] = wrote[p]

-----------------------------------------------------------------------------
(***************************************************************************)
(* Rows and what jobs make of them.                                        *)
(***************************************************************************)

(* What a job asks.                                                        *)
LEMMA TaskType ==
  ASSUME AutoTypeOK, NEW k \in Jobs
  PROVE  /\ to(k) \in RowIds /\ task[k].op \in JobOps
         /\ task[k].enabled \in Switch \cup {Keep} /\ task[k].field \in Values \cup {Keep}
         /\ task[k].op \in {"addChannel", "patchChannel", "dropChannel", "addRule", "send"} => to(k) \in Channels
         /\ task[k].op = "patchRule" => to(k) \in DetectionRules
         /\ task[k].op \in {"addSchedule", "patchSchedule", "dropSchedule"} => to(k) \in Schedules
         /\ task[k].op \in {"addDevice", "patchDevice", "dropDevice"} => to(k) \in Devices
         /\ task[k].op \in Adds => task[k].field \in Values
<1>1. task \in Tasks
  BY DEF AutoTypeOK
<1>2. task[k] \in [op : JobOps, row : RowIds, enabled : Switch \cup {Keep}, field : Values \cup {Keep}]
  BY <1>1, TasksAssumption
<1> QED
  BY <1>1, <1>2, RowsAssumption DEF to, Adds

(* A merged row is of the type, and there if the old one is.               *)
LEMMA MergedType ==
  ASSUME AutoTypeOK, NEW k \in Jobs, NEW old \in RowType
  PROVE  /\ Merged(k, old) \in RowType
         /\ Merged(k, old).enabled = IF task[k].enabled = Keep THEN old.enabled ELSE task[k].enabled
         /\ Merged(k, old).field = IF task[k].field = Keep THEN old.field ELSE task[k].field
         /\ old.field \in Values => Merged(k, old).field \in Values /\ Merged(k, old) # None
<1>1. /\ task[k].enabled \in Switch \cup {Keep} /\ task[k].field \in Values \cup {Keep}
  BY TaskType
<1>2. /\ Merged(k, old).enabled = IF task[k].enabled = Keep THEN old.enabled ELSE task[k].enabled
      /\ Merged(k, old).field = IF task[k].field = Keep THEN old.field ELSE task[k].field
  BY DEF Merged, Coalesced
<1>3. Merged(k, old) \in RowType
  BY <1>1 DEF Merged, Coalesced, RowType
<1>4. old.field \in Values => Merged(k, old).field \in Values
  BY <1>1, <1>2
<1>5. None.field \notin Values
  BY TasksAssumption DEF None
<1> QED
  BY <1>2, <1>3, <1>4, <1>5

(* A row that is added is of the type and there.                           *)
LEMMA AddedType ==
  ASSUME AutoTypeOK, NEW k \in Jobs, task[k].op \in Adds
  PROVE  LET row == [enabled |-> "on", field |-> task[k].field] IN
           row \in RowType /\ row.field \in Values /\ row # None
BY TaskType DEF RowType, Switch, None

(* So is None of the type.                                                 *)
LEMMA NoneType == None \in RowType
BY DEF None, RowType, Switch

-----------------------------------------------------------------------------
(***************************************************************************)
(* Steps.                                                                  *)
(***************************************************************************)

(* A job begins with its first step.                                       *)
Began(k) == before' = IF stage[k] = "idle" THEN [before EXCEPT ![k] = wrote] ELSE before

(* A step that writes a row, and what the job may write.                   *)
Writes(k, row) ==
  /\ table' = [table EXCEPT ![to(k)] = row]
  /\ wrote' = Append(wrote, k)
  /\ task' = task /\ Began(k)
  /\ stage[k] \in {"idle", "merge"} /\ stage' = [stage EXCEPT ![k] = "done"]
  /\ received' = received /\ outcome' = outcome /\ count' = count
  /\ snapshot' = snapshot /\ lapses' = lapses
  /\ \/ /\ task[k].op \in Adds /\ ~Exists(to(k))
        /\ row = [enabled |-> "on", field |-> task[k].field]
        /\ task[k].op = "addSchedule" => Runnable(task[k].field)
     \/ /\ task[k].op \in Patches /\ task[k].op # "patchRule" /\ Exists(to(k))
        /\ row = Merged(k, table[to(k)])
     \/ /\ task[k].op = "patchRule" /\ stage[k] = "merge"
        /\ row = Merged(k, snapshot[k])
     \/ task[k].op \in Drops /\ Exists(to(k)) /\ row = None
  /\ \/ task[k].op # "dropChannel" /\ rules' = rules /\ notices' = notices
     \/ task[k].op = "dropChannel" /\ Cascade(to(k))

(* A step that ends a job, with or without a change of the rules.          *)
Halts(k, s) ==
  /\ task' = task /\ Began(k)
  /\ s \in Over /\ stage[k] \in AtWork \cup {"idle"} /\ stage' = [stage EXCEPT ![k] = s]
  /\ s \in {"done", "refused"} => stage[k] = "idle" /\ task[k].op \notin {"send", "stats"}
  /\ UNCHANGED <<table, snapshot, outcome, count, received, wrote>>
  /\ lapses' = lapses \/ Lapse
  /\ notices' \subseteq notices /\ \A n \in notices \ notices' : ~Exists(n.channel)
  /\ \/ rules' \subseteq rules
     \/ /\ to(k) \in Channels /\ Exists(to(k))
        /\ rules' = rules \cup {[id |-> k, channel |-> to(k)]}

(* One of the steps by which a job goes on.                                *)
GoesOn(k) ==
  \/ ReadRule(k) \/ ReadChannel(k) \/ Post(k) \/ CannotPost(k) \/ Email(k) \/ Log(k)
  \/ CountFirst(k) \/ CountNext(k) \/ CountLast(k)

(* A step writes a row, ends its job or goes on with it.                   *)
LEMMA AutoStepCases ==
  ASSUME AutoTypeOK, StagesInv, NEW k \in Jobs, Job(k)
  PROVE  (\E row : Writes(k, row)) \/ (\E s : Halts(k, s)) \/ GoesOn(k)
<1> USE DEF jobState, logState, jobHistory, Over, AtWork, GoOn, Opens, Began, Lapse
<1>1. ASSUME NEW s \in {"refused", "error", "done"}, AnswerOnly(k, s), UNCHANGED logState,
             stage[k] \in AtWork \cup {"idle"}, Began(k),
             s \in {"done", "refused"} => stage[k] = "idle" /\ task[k].op \notin {"send", "stats"},
             lapses' = lapses \/ Lapse
      PROVE  \E t : Halts(k, t)
  <2>1. Halts(k, s)
    BY <1>1 DEF AnswerOnly, Halts
  <2> QED
    BY <2>1
<1>2. ASSUME NEW op \in Adds, Add(k, op), UNCHANGED logState, op = "addSchedule" => Runnable(task[k].field)
      PROVE  \E row : Writes(k, row)
  <2>1. Writes(k, [enabled |-> "on", field |-> task[k].field])
    BY <1>2 DEF Add, Write, Writes, Adds
  <2> QED
    BY <2>1
<1>3. ASSUME NEW op \in Patches \ {"patchRule"}, Patch(k, op), UNCHANGED logState
      PROVE  (\E row : Writes(k, row)) \/ (\E s : Halts(k, s))
  <2>1. CASE Exists(to(k))
    <3>1. Writes(k, Merged(k, table[to(k)]))
      BY <1>3, <2>1 DEF Patch, Write, Writes, Patches
    <3> QED
      BY <3>1
  <2>2. CASE ~Exists(to(k))
    <3>1. /\ AnswerOnly(k, "refused") /\ lapses' = lapses /\ stage[k] = "idle" /\ Began(k)
          /\ task[k].op \notin {"send", "stats"}
      BY <1>3, <2>2 DEF Patch, Patches
    <3> QED
      BY <1>1, <1>3, <3>1
  <2> QED
    BY <2>1, <2>2
<1>4. ASSUME NEW op \in Drops, NEW absent \in {"refused", "done"}, Remove(k, op, absent),
             IF op = "dropChannel" THEN Cascade(to(k)) ELSE UNCHANGED logState
      PROVE  (\E row : Writes(k, row)) \/ (\E s : Halts(k, s))
  <2>1. CASE Exists(to(k))
    <3>1. Writes(k, None)
      BY <1>4, <2>1 DEF Remove, Write, Writes, Drops
    <3> QED
      BY <3>1
  <2>2. CASE ~Exists(to(k))
    <3>1. /\ AnswerOnly(k, absent) /\ lapses' = lapses
          /\ stage[k] = "idle" /\ Began(k) /\ task[k].op \notin {"send", "stats"}
      BY <1>4, <2>2 DEF Remove, Drops
    <3>2. /\ notices' \subseteq notices /\ \A n \in notices \ notices' : ~Exists(n.channel)
          /\ rules' \subseteq rules
      BY <1>4, <2>2 DEF Cascade
    <3>3. Halts(k, absent)
      BY <3>1, <3>2 DEF AnswerOnly, Halts
    <3> QED
      BY <3>3
  <2> QED
    BY <2>1, <2>2
<1>5. CASE (AddChannel(k) \/ AddDevice(k)) /\ UNCHANGED logState
  BY <1>2, <1>5 DEF AddChannel, AddDevice, Adds
<1>6. CASE AddSchedule(k) /\ UNCHANGED logState
  <2>1. CASE Runnable(task[k].field) /\ Add(k, "addSchedule")
    BY <1>2, <1>6, <2>1 DEF Adds
  <2>2. CASE Opens(k, "addSchedule") /\ AnswerOnly(k, "error") /\ UNCHANGED lapses
    BY <1>1, <1>6, <2>2
  <2> QED
    BY <1>6, <2>1, <2>2 DEF AddSchedule
<1>7. CASE (PatchChannel(k) \/ PatchSchedule(k) \/ PatchDevice(k)) /\ UNCHANGED logState
  BY <1>3, <1>7 DEF PatchChannel, PatchSchedule, PatchDevice, Patches
<1>8. CASE DropChannel(k) \/ DropSchedule(k) \/ DropDevice(k)
  BY <1>4, <1>8 DEF DropChannel, DropSchedule, DropDevice, Drops
<1>9. CASE WriteRule(k)
  <2>1. task[k].op = "patchRule"
    BY <1>9 DEF WriteRule, StagesInv
  <2>2. Writes(k, Merged(k, snapshot[k]))
    BY <1>9, <2>1 DEF WriteRule, Write, Writes
  <2> QED
    BY <2>2
<1>10. CASE AddRule(k)
  <2>1. CASE ~Exists(to(k))
    <3>1. AnswerOnly(k, "error") /\ lapses' = lapses /\ stage[k] = "idle" /\ Began(k)
      BY <1>10, <2>1 DEF AddRule
    <3> QED
      BY <1>1, <3>1 DEF AnswerOnly
  <2>2. CASE Exists(to(k))
    <3>1. task[k].op = "addRule" /\ stage[k] = "idle" /\ Began(k) /\ RuleChanges(k)
      BY <1>10, <2>2 DEF AddRule, RuleChanges
    <3>2. to(k) \in Channels
      BY <3>1, TaskType
    <3>3. rules' = rules \cup {[id |-> k, channel |-> to(k)]}
      BY <1>10, <2>2 DEF AddRule
    <3>4. Halts(k, "done")
      BY <2>2, <3>1, <3>2, <3>3 DEF RuleChanges, Halts
    <3> QED
      BY <3>4
  <2> QED
    BY <2>1, <2>2
<1>11. CASE DropRule(k)
  <2>1. Halts(k, "done")
    BY <1>11 DEF DropRule, RuleChanges, Halts
  <2> QED
    BY <2>1
<1>12. CASE Failing(k) \/ WriteRuleFails(k)
  <2>1. AnswerOnly(k, "error") /\ Lapse /\ stage[k] \in AtWork \cup {"idle"} /\ Began(k)
    BY <1>12 DEF Failing, WriteRuleFails
  <2> QED
    BY <1>1, <2>1 DEF AnswerOnly
<1>13. CASE LogFails(k)
  <2>1. Halts(k, "error")
    BY <1>13 DEF LogFails, Halts
  <2> QED
    BY <2>1
<1>14. CASE Abandon(k)
  <2>1. Halts(k, "lost")
    BY <1>14 DEF Abandon, Halts
  <2> QED
    BY <2>1
<1>15. CASE GoesOn(k)
  BY <1>15
<1> QED
  BY <1>5, <1>6, <1>7, <1>8, <1>9, <1>10, <1>11, <1>12, <1>13, <1>14, <1>15 DEF Job, GoesOn

(* How a job goes on, in particular of its place.                          *)
LEMMA GoingOn ==
  ASSUME AutoTypeOK, NEW k \in Jobs, GoesOn(k)
  PROVE  /\ task' = task /\ Began(k) /\ wrote' = wrote /\ table' = table /\ rules' = rules
         /\ stage[k] \in AtWork \cup {"idle"} /\ stage[k] # "merge"
         /\ \E s \in {"merge", "deliver", "log", "second", "third", "refused", "done"} :
              stage' = [stage EXCEPT ![k] = s]
         /\ \A j \in Jobs \ {k} :
              /\ snapshot'[j] = snapshot[j] /\ outcome'[j] = outcome[j] /\ count'[j] = count[j]
              /\ j \in received' <=> j \in received
<1> USE DEF jobState, logState, jobHistory, AutoTypeOK, AtWork, GoOn, Opens, Began
<1>1. CASE ReadRule(k)
  BY <1>1 DEF ReadRule
<1>2. CASE ReadChannel(k)
  BY <1>2 DEF ReadChannel
<1>3. CASE Post(k)
  BY <1>3 DEF Post, Delivered
<1>4. CASE CannotPost(k) \/ Email(k)
  BY <1>4 DEF CannotPost, Email, Delivered
<1>5. CASE Log(k)
  BY <1>5 DEF Log
<1>6. CASE CountFirst(k)
  BY <1>6 DEF CountFirst, Counted
<1>7. CASE CountNext(k) \/ CountLast(k)
  BY <1>7 DEF CountNext, CountLast, Counted
<1> QED
  BY <1>1, <1>2, <1>3, <1>4, <1>5, <1>6, <1>7 DEF GoesOn

(* What every step of a job leaves of the others, and when it began.       *)
LEMMA StepShape ==
  ASSUME AutoTypeOK, StagesInv, NEW k \in Jobs, Job(k)
  PROVE  /\ task' = task /\ stage[k] \in AtWork \cup {"idle"} /\ stage'[k] # "idle"
         /\ before'[k] = IF stage[k] = "idle" THEN wrote ELSE before[k]
         /\ \A j \in Jobs \ {k} :
              /\ stage'[j] = stage[j] /\ before'[j] = before[j] /\ snapshot'[j] = snapshot[j]
              /\ outcome'[j] = outcome[j] /\ count'[j] = count[j]
              /\ j \in received' <=> j \in received
<1> USE DEF AutoTypeOK, AtWork, Over, Began
<1>1. CASE \E row : Writes(k, row)
  BY <1>1 DEF Writes
<1>2. CASE \E s : Halts(k, s)
  BY <1>2 DEF Halts
<1>3. CASE GoesOn(k)
  <2>1. PICK s \in {"merge", "deliver", "log", "second", "third", "refused", "done"} :
          stage' = [stage EXCEPT ![k] = s]
    BY <1>3, GoingOn
  <2>2. task' = task /\ Began(k) /\ stage[k] \in AtWork \cup {"idle"}
    BY <1>3, GoingOn
  <2> QED
    BY <1>3, <2>1, <2>2, GoingOn
<1> QED
  BY <1>1, <1>2, <1>3, AutoStepCases

-----------------------------------------------------------------------------
(***************************************************************************)
(* Types.                                                                  *)
(***************************************************************************)

(* The steps that write keep the types of rows and of the history.         *)
LEMMA WriteTypes ==
  ASSUME AutoTypeOK, NEW k \in Jobs, NEW row, Writes(k, row)
  PROVE  row \in RowType /\ table' \in [RowIds -> RowType] /\ wrote' \in Seq(Jobs)
         /\ rules' \in SUBSET [id : Jobs, channel : Channels]
         /\ notices' \in SUBSET [job : Jobs, channel : Channels, status : {"sent", "failed"}]
<1>1. row \in RowType
  <2>1. snapshot[k] \in RowType /\ table[to(k)] \in RowType
    BY TaskType DEF AutoTypeOK
  <2> QED
    BY <2>1, MergedType, AddedType, NoneType DEF Writes
<1>2. table' \in [RowIds -> RowType]
  BY <1>1, TaskType DEF AutoTypeOK, Writes
<1>3. wrote' \in Seq(Jobs)
  BY DEF AutoTypeOK, Writes
<1>4. rules' \subseteq rules /\ notices' \subseteq notices
  BY DEF Writes, Cascade
<1> QED
  BY <1>1, <1>2, <1>3, <1>4 DEF AutoTypeOK

(* Every step is of the type.                                              *)
LEMMA AutoTypeStep ==
  ASSUME AutoTypeOK, StagesInv, IsFiniteSet(notices), [AutoNext]_autoVars
  PROVE  AutoTypeOK' /\ IsFiniteSet(notices')
<1>1. CASE UNCHANGED autoVars
  BY <1>1 DEF autoVars, jobState, logState, jobHistory, AutoTypeOK
<1>2. ASSUME NEW k \in Jobs, Job(k) PROVE AutoTypeOK' /\ IsFiniteSet(notices')
  <2>1. before' \in [Jobs -> Seq(Jobs)] /\ task' \in Tasks
    <3>1. Began(k) /\ task' = task
      BY <1>2, AutoStepCases, GoingOn DEF Writes, Halts
    <3> QED
      BY <3>1 DEF Began, AutoTypeOK
  <2>2. ASSUME NEW row, Writes(k, row) PROVE AutoTypeOK' /\ IsFiniteSet(notices')
    <3>1. /\ table' \in [RowIds -> RowType] /\ wrote' \in Seq(Jobs)
          /\ rules' \in SUBSET [id : Jobs, channel : Channels]
          /\ notices' \in SUBSET [job : Jobs, channel : Channels, status : {"sent", "failed"}]
      BY <2>2, WriteTypes
    <3>2. notices' \subseteq notices
      BY <2>2 DEF Writes, Cascade
    <3>3. IsFiniteSet(notices')
      BY <3>2, FS_Subset
    <3> QED
      BY <2>1, <2>2, <3>1, <3>3 DEF Writes, AutoTypeOK, Over
  <2>3. ASSUME NEW s, Halts(k, s) PROVE AutoTypeOK' /\ IsFiniteSet(notices')
    <3>1. rules' \in SUBSET [id : Jobs, channel : Channels]
      BY <2>3 DEF Halts, AutoTypeOK
    <3>2. notices' \subseteq notices
      BY <2>3 DEF Halts
    <3>3. IsFiniteSet(notices')
      BY <3>2, FS_Subset
    <3>4. lapses' \in 0..MaxLapses
      BY <2>3, TasksAssumption DEF Halts, Lapse, AutoTypeOK
    <3> QED
      BY <2>1, <2>3, <3>1, <3>2, <3>3, <3>4 DEF Halts, AutoTypeOK
  <2>4. ASSUME GoesOn(k) PROVE AutoTypeOK' /\ IsFiniteSet(notices')
    <3>1. /\ wrote' = wrote /\ table' = table /\ rules' = rules
          /\ stage' \in [Jobs -> AtWork \cup Over \cup {"idle"}]
      <4>1. PICK s \in {"merge", "deliver", "log", "second", "third", "refused", "done"} :
              stage' = [stage EXCEPT ![k] = s]
        BY <2>4, GoingOn
      <4> QED
        BY <2>4, <4>1, GoingOn DEF AutoTypeOK, AtWork, Over
    <3>2. /\ received' \in SUBSET Jobs
          /\ snapshot' \in [Jobs -> RowType]
          /\ outcome' \in [Jobs -> {"none", "ok", "error"}]
          /\ notices' = notices \/ Log(k)
          /\ count' = count \/ CountFirst(k) \/ CountNext(k) \/ CountLast(k)
          /\ lapses' = lapses \/ Lapse
      <4> USE DEF AutoTypeOK, jobState, logState, jobHistory
      <4>1. CASE ReadRule(k) \/ ReadChannel(k)
        BY <4>1, TaskType DEF ReadRule, ReadChannel
      <4>2. CASE Post(k)
        BY <4>2 DEF Post, Delivered, TakenFor
      <4>3. CASE CannotPost(k) \/ Email(k)
        BY <4>3 DEF CannotPost, Email, Delivered
      <4>4. CASE Log(k)
        BY <4>4 DEF Log
      <4>5. CASE CountFirst(k) \/ CountNext(k) \/ CountLast(k)
        BY <4>5 DEF CountFirst, CountNext, CountLast, Counted
      <4> QED
        BY <2>4, <4>1, <4>2, <4>3, <4>4, <4>5 DEF GoesOn
    <3>3. lapses' \in 0..MaxLapses
      BY <3>2, TasksAssumption DEF Lapse, AutoTypeOK
    <3>4. /\ notices' \in SUBSET [job : Jobs, channel : Channels, status : {"sent", "failed"}]
          /\ IsFiniteSet(notices')
      <4>1. CASE notices' = notices
        BY <4>1 DEF AutoTypeOK
      <4>2. CASE Log(k)
        <5>1. to(k) \in Channels
          BY <4>2, TaskType DEF Log, StagesInv
        <5>2. notices' = notices \cup {[job |-> k, channel |-> to(k), status |-> LoggedStatus(k)]}
          BY <4>2 DEF Log, LogNotice
        <5>3. IsFiniteSet(notices')
          BY <5>2, FS_AddElement
        <5> QED
          BY <5>1, <5>2, <5>3 DEF AutoTypeOK, LoggedStatus
      <4> QED
        BY <3>2, <4>1, <4>2
    <3>5. count' \in [Jobs -> [all : Int, sent : Int, failed : Int]]
      <4>1. ASSUME NEW what \in {"all", "sent", "failed"}, Counted(k, what)
            PROVE  count' \in [Jobs -> [all : Int, sent : Int, failed : Int]]
        <5>1. {n \in notices : what = "all" \/ n.status = what} \subseteq notices
          OBVIOUS
        <5>2. IsFiniteSet({n \in notices : what = "all" \/ n.status = what})
          BY <5>1, FS_Subset
        <5>3. CountOf(what) \in Int
          BY <5>2, FS_CardinalityType DEF CountOf
        <5>4. PICK n \in Int : count' = [count EXCEPT ![k][what] = n]
          BY <4>1, <5>3 DEF Counted
        <5> QED
          BY <5>4 DEF AutoTypeOK
      <4>2. CASE CountFirst(k) \/ CountNext(k) \/ CountLast(k)
        BY <4>1, <4>2 DEF CountFirst, CountNext, CountLast, CountOrder
      <4> QED
        BY <3>2, <4>2 DEF AutoTypeOK
    <3> QED
      BY <2>1, <3>1, <3>2, <3>3, <3>4, <3>5 DEF AutoTypeOK
  <2> QED
    BY <1>2, <2>2, <2>3, <2>4, AutoStepCases
<1> QED
  BY <1>1, <1>2 DEF AutoNext

-----------------------------------------------------------------------------
(***************************************************************************)
(* Rows, places, the history and the log.                                  *)
(***************************************************************************)

(* What the log tells, in parts: whose the notices are, that nothing is    *)
(* left behind by its channel, and that what arrived is logged.            *)
Gone(c) == \E p \in 1..Len(wrote) : task[wrote[p]].op = "dropChannel" /\ to(wrote[p]) = c

NoticesInv ==
  /\ \A n \in notices :
       /\ n.channel = to(n.job) /\ stage[n.job] = "done"
       /\ n.status = "sent" /\ SenderOf[n.channel] # "email" => n.job \in received
  /\ NothingDangles
  /\ \A k \in received : stage[k] = "done" =>
       (\E n \in notices : n.job = k) \/ Gone(to(k))

(* What a job writes is a value, or that there is no row.                  *)
LEMMA WrittenRow ==
  ASSUME AutoTypeOK, TableInv, StagesInv, NEW k \in Jobs, NEW row, Writes(k, row)
  PROVE  IF task[k].op \in Drops THEN row = None ELSE row.field \in Values /\ row # None
<1>1. to(k) \in RowIds /\ table[to(k)] \in RowType /\ snapshot[k] \in RowType
  BY TaskType DEF AutoTypeOK
<1>2. None.field \notin Values
  BY TasksAssumption DEF None
<1>3. CASE task[k].op \in Adds
  BY <1>3, AddedType DEF Writes, Adds, Patches, Drops
<1>4. CASE task[k].op \in Patches /\ task[k].op # "patchRule"
  BY <1>1, <1>2, <1>4, MergedType DEF Writes, Adds, Patches, Drops, TableInv, Exists
<1>5. CASE task[k].op = "patchRule"
  BY <1>1, <1>2, <1>5, MergedType DEF Writes, Adds, Patches, Drops, StagesInv
<1>6. CASE task[k].op \in Drops
  BY <1>6 DEF Writes, Adds, Patches, Drops
<1> QED
  BY <1>3, <1>4, <1>5, <1>6 DEF Writes

(* Rows stay rows.                                                         *)
LEMMA TableStep ==
  ASSUME AutoTypeOK, TableInv, StagesInv, NEW k \in Jobs, Job(k)
  PROVE  TableInv'
<1>1. ASSUME NEW row, Writes(k, row) PROVE TableInv'
  <2>1. row = None \/ row.field \in Values
    BY <1>1, WrittenRow
  <2> QED
    BY <1>1, <2>1 DEF Writes, TableInv, AutoTypeOK
<1>2. CASE \E s : Halts(k, s)
  BY <1>2 DEF Halts, TableInv
<1>3. CASE GoesOn(k)
  BY <1>3, GoingOn DEF TableInv
<1> QED
  BY <1>1, <1>2, <1>3, AutoStepCases

(* So do the places of jobs.                                               *)
LEMMA StagesStep ==
  ASSUME AutoTypeOK, TableInv, StagesInv, NEW k \in Jobs, Job(k)
  PROVE  StagesInv'
<1> DEFINE Placed(j) ==
      /\ stage[j] = "merge" => task[j].op = "patchRule" /\ snapshot[j].field \in Values
      /\ stage[j] \in {"deliver", "log"} => task[j].op = "send"
      /\ stage[j] \in {"second", "third"} => task[j].op = "stats"
      /\ j \in received => task[j].op = "send" /\ stage[j] \in {"log", "done", "error", "lost"}
      /\ stage[j] = "log" /\ outcome[j] = "ok" /\ SenderOf[to(j)] # "email" => j \in received
<1>1. StagesInv = \A j \in Jobs : Placed(j)
  BY DEF StagesInv
<1>2. ASSUME NEW j \in Jobs \ {k} PROVE Placed(j)'
  <2>1. Placed(j)
    BY <1>1
  <2> QED
    BY <2>1, StepShape DEF to
<1>3. Placed(k)'
  <2>1. Placed(k)
    BY <1>1
  <2> HIDE DEF Placed
  <2>2. CASE \E row : Writes(k, row)
    <3>1. stage'[k] = "done" /\ received' = received /\ k \notin received
      BY <2>1, <2>2 DEF Writes, AutoTypeOK, Placed
    <3> QED
      BY <3>1 DEF Placed
  <2>3. CASE \E s : Halts(k, s)
    <3>1. PICK s : Halts(k, s)
      BY <2>3
    <3>2. stage'[k] = s /\ received' = received /\ task' = task /\ s \in Over
      BY <3>1 DEF Halts, AutoTypeOK
    <3>3. k \in received => task[k].op = "send" /\ s \in {"done", "error", "lost"}
      BY <2>1, <3>1, <3>2 DEF Halts, Placed, Over, AtWork
    <3> QED
      BY <3>2, <3>3 DEF Placed, Over
  <2>4. CASE GoesOn(k)
    <3> USE DEF AutoTypeOK, GoOn, Opens, Placed, jobState, logState, jobHistory
    <3>1. CASE ReadRule(k)
      <4>1. table[to(k)] # None => table[to(k)].field \in Values
        BY TaskType DEF TableInv
      <4> QED
        BY <2>1, <3>1, <4>1 DEF ReadRule, Exists
    <3>2. CASE ReadChannel(k)
      BY <2>1, <3>2 DEF ReadChannel
    <3>3. CASE Post(k)
      BY <2>1, <3>3 DEF Post, Delivered, TakenFor, to
    <3>4. CASE CannotPost(k) \/ Email(k)
      BY <2>1, <3>4 DEF CannotPost, Email, Delivered, to
    <3>5. CASE Log(k)
      BY <2>1, <3>5 DEF Log
    <3>6. CASE CountFirst(k) \/ CountNext(k) \/ CountLast(k)
      BY <2>1, <3>6 DEF CountFirst, CountNext, CountLast, Counted
    <3> QED
      BY <2>4, <3>1, <3>2, <3>3, <3>4, <3>5, <3>6 DEF GoesOn
  <2> QED
    BY <2>2, <2>3, <2>4, AutoStepCases
<1> HIDE DEF Placed
<1>4. \A j \in Jobs : Placed(j)'
  BY <1>2, <1>3
<1> QED
  BY <1>4, Zenon DEF StagesInv, Placed

(* A job writes once, and what there was when it began stays.              *)
LEMMA WrittenStep ==
  ASSUME AutoTypeOK, StagesInv, WrittenInv, NEW k \in Jobs, Job(k)
  PROVE  WrittenInv' /\ Len(wrote) <= Len(wrote') /\ \A p \in 1..Len(wrote) : wrote'[p] = wrote[p]
<1>1. wrote \in Seq(Jobs) /\ stage[k] # "done" /\ \A p \in 1..Len(wrote) : wrote[p] # k
  BY StepShape DEF AtWork, WrittenInv, AutoTypeOK
<1>2. \/ wrote' = wrote
      \/ wrote' = Append(wrote, k) /\ stage'[k] = "done"
  <2>1. CASE \E row : Writes(k, row)
    BY <2>1 DEF Writes, AutoTypeOK
  <2>2. CASE \E s : Halts(k, s)
    BY <2>2 DEF Halts
  <2>3. CASE GoesOn(k)
    BY <2>3, GoingOn
  <2> QED
    BY <2>1, <2>2, <2>3, AutoStepCases
<1>3. Len(wrote) <= Len(wrote') /\ \A p \in 1..Len(wrote) : wrote'[p] = wrote[p]
  BY <1>1, <1>2
<1>4. \A p \in 1..Len(wrote') : stage'[wrote'[p]] = "done"
  <2>1. \A p \in 1..Len(wrote) : wrote[p] \in Jobs \ {k} /\ stage'[wrote[p]] = "done"
    BY <1>1, StepShape DEF WrittenInv
  <2> QED
    BY <1>1, <1>2, <2>1
<1>5. \A p, q \in 1..Len(wrote') : wrote'[p] = wrote'[q] => p = q
  <2>0. \A p, q \in 1..Len(wrote) : wrote[p] = wrote[q] => p = q
    BY DEF WrittenInv
  <2>1. CASE wrote' = wrote
    BY <2>0, <2>1
  <2>2. CASE wrote' = Append(wrote, k)
    <3>1. /\ Len(wrote) \in Nat /\ Len(wrote') = Len(wrote) + 1
          /\ wrote'[Len(wrote) + 1] = k
          /\ \A p \in 1..Len(wrote) : wrote'[p] = wrote[p] /\ wrote[p] # k
      BY <1>1, <2>2
    <3> QED
      BY <2>0, <3>1
  <2> QED
    BY <1>2, <2>1, <2>2
<1>6. ASSUME NEW j \in Jobs, stage'[j] # "idle"
      PROVE  /\ Len(before'[j]) <= Len(wrote')
             /\ \A p \in 1..Len(before'[j]) : before'[j][p] = wrote'[p]
  <2>1. CASE j # k \/ stage[k] # "idle"
    <3>1. before'[j] = before[j] /\ stage[j] # "idle"
      BY <1>6, <2>1, StepShape
    <3>2. Len(before[j]) <= Len(wrote) /\ \A p \in 1..Len(before[j]) : before[j][p] = wrote[p]
      BY <3>1 DEF WrittenInv
    <3>3. Len(before[j]) \in Nat /\ Len(wrote) \in Nat /\ Len(wrote') \in Nat
      BY <1>1, <1>2 DEF AutoTypeOK
    <3> QED
      BY <1>3, <3>1, <3>2, <3>3
  <2>2. CASE j = k /\ stage[k] = "idle"
    BY <1>1, <1>3, <2>2, StepShape
  <2> QED
    BY <2>1, <2>2
<1> QED
  BY <1>3, <1>4, <1>5, <1>6 DEF WrittenInv

(* The log stays true.                                                     *)
LEMMA NoticesStep ==
  ASSUME AutoTypeOK, TableInv, StagesInv, WrittenInv, NoticesInv, NEW k \in Jobs, Job(k)
  PROVE  NoticesInv'
<1>1. /\ task' = task /\ stage[k] # "done" /\ wrote \in Seq(Jobs)
      /\ \A j \in Jobs \ {k} : stage'[j] = stage[j] /\ (j \in received' <=> j \in received)
  BY StepShape DEF AtWork, AutoTypeOK
<1>2. \A n \in notices : n.job \in Jobs \ {k} /\ n.channel \in Channels
  BY <1>1 DEF NoticesInv, AutoTypeOK
<1>3. \A u \in rules : u.channel \in Channels
  BY DEF AutoTypeOK
<1>4. /\ Len(wrote) <= Len(wrote') /\ Len(wrote) \in Nat /\ Len(wrote') \in Nat
      /\ \A p \in 1..Len(wrote) : wrote'[p] = wrote[p]
  <2>1. wrote' = wrote \/ wrote' = Append(wrote, k)
    BY AutoStepCases, GoingOn DEF Writes, Halts
  <2> QED
    BY <1>1, <2>1
<1>5. ASSUME \A n \in notices' : n \in notices
      PROVE  \A n \in notices' :
               /\ n.channel = to(n.job)' /\ stage'[n.job] = "done"
               /\ n.status = "sent" /\ SenderOf[n.channel] # "email" => n.job \in received'
  BY <1>1, <1>2, <1>5 DEF NoticesInv, to
<1>6. ASSUME NEW j \in Jobs, j \in received', stage'[j] = "done", j # k
      PROVE  \/ \E n \in notices : n.job = j
             \/ Gone(to(j))'
  <2>1. j \in received /\ stage[j] = "done"
    BY <1>1, <1>6
  <2>2. CASE Gone(to(j))
    <3>1. PICK p \in 1..Len(wrote) : task[wrote[p]].op = "dropChannel" /\ to(wrote[p]) = to(j)
      BY <2>2 DEF Gone
    <3>2. p \in 1..Len(wrote') /\ wrote'[p] = wrote[p]
      BY <1>4, <3>1
    <3> QED
      BY <1>1, <3>1, <3>2 DEF Gone, to
  <2> QED
    BY <2>1, <2>2 DEF NoticesInv
<1>7. ASSUME NEW row, Writes(k, row) PROVE NoticesInv'
  <2>1. notices' \subseteq notices /\ rules' \subseteq rules /\ k \notin received' /\ received' = received
    BY <1>7, <1>1 DEF Writes, Cascade, StagesInv, AtWork
  <2>2. wrote' = Append(wrote, k) /\ table' = [table EXCEPT ![to(k)] = row]
    BY <1>7 DEF Writes
  <2>3. NothingDangles'
    <3>1. CASE task[k].op = "dropChannel"
      <4>1. /\ \A u \in rules' : u \in rules /\ u.channel # to(k)
            /\ \A n \in notices' : n \in notices /\ n.channel # to(k)
        BY <1>7, <3>1 DEF Writes, Cascade
      <4> QED
        BY <1>2, <1>3, <2>2, <4>1 DEF NoticesInv, NothingDangles, Exists, AutoTypeOK
    <3>2. CASE task[k].op # "dropChannel"
      <4>1. to(k) \notin Channels \/ row # None
        BY <1>7, <3>2, WrittenRow, TaskType, RowsAssumption DEF Drops
      <4> QED
        BY <1>2, <1>3, <2>1, <2>2, <4>1 DEF NoticesInv, NothingDangles, Exists, AutoTypeOK
    <3> QED
      BY <3>1, <3>2
  <2>4. ASSUME NEW j \in received', stage'[j] = "done"
        PROVE  \/ \E n \in notices' : n.job = j
               \/ Gone(to(j))'
    <3>1. j \in Jobs /\ j # k
      BY <2>1 DEF AutoTypeOK
    <3>2. ASSUME NEW n \in notices, n.job = j, n \notin notices'
          PROVE  Gone(to(j))'
      <4>1. task[k].op = "dropChannel" /\ n.channel = to(k)
        BY <1>7, <3>2 DEF Writes, Cascade
      <4>2. to(k) = to(j)
        BY <3>2, <4>1 DEF NoticesInv
      <4>3. Len(wrote') = Len(wrote) + 1 /\ wrote'[Len(wrote) + 1] = k
        BY <1>1, <2>2
      <4> QED
        BY <1>1, <1>4, <4>1, <4>2, <4>3 DEF Gone, to
    <3> QED
      BY <1>6, <2>4, <3>1, <3>2
  <2> QED
    BY <1>5, <2>1, <2>3, <2>4 DEF NoticesInv
<1>8. ASSUME NEW s, Halts(k, s) PROVE NoticesInv'
  <2>1. /\ table' = table /\ received' = received /\ notices' \subseteq notices
        /\ \A u \in rules' : u \in rules \/ Exists(u.channel)
        /\ \A n \in notices : n \in notices'
    BY <1>8 DEF Halts, NoticesInv, NothingDangles
  <2>2. NothingDangles'
    BY <2>1 DEF NoticesInv, NothingDangles, Exists
  <2>3. ~(k \in received' /\ stage'[k] = "done")
    BY <1>8 DEF Halts, StagesInv, AutoTypeOK
  <2> QED
    BY <1>5, <1>6, <2>1, <2>2, <2>3 DEF NoticesInv, AutoTypeOK
<1>9. CASE Log(k)
  <2>1. /\ notices' = notices \cup {[job |-> k, channel |-> to(k), status |-> LoggedStatus(k)]}
        /\ rules' = rules /\ table' = table /\ received' = received
        /\ stage'[k] = "done" /\ Exists(to(k)) /\ stage[k] = "log"
    BY <1>9 DEF Log, LogNotice, GoOn, jobHistory, AutoTypeOK
  <2>2. NothingDangles'
    BY <2>1 DEF NoticesInv, NothingDangles, Exists
  <2>3. ASSUME NEW n \in notices'
        PROVE  /\ n.channel = to(n.job)' /\ stage'[n.job] = "done"
               /\ n.status = "sent" /\ SenderOf[n.channel] # "email" => n.job \in received'
    <3>1. CASE n \in notices
      BY <1>1, <1>2, <2>1, <3>1 DEF NoticesInv, to
    <3>2. CASE n = [job |-> k, channel |-> to(k), status |-> LoggedStatus(k)]
      BY <1>1, <2>1, <3>2 DEF to, LoggedStatus, StagesInv
    <3> QED
      BY <2>1, <3>1, <3>2
  <2>4. \E n \in notices' : n.job = k
    <3>1. [job |-> k, channel |-> to(k), status |-> LoggedStatus(k)] \in notices'
      BY <2>1
    <3> QED
      BY <3>1
  <2>5. \A j \in received' : stage'[j] = "done" =>
             \/ \E n \in notices' : n.job = j
             \/ Gone(to(j))'
    BY <1>6, <2>1, <2>4 DEF AutoTypeOK
  <2> QED
    BY <2>2, <2>3, <2>5 DEF NoticesInv
<1>10. CASE GoesOn(k) /\ ~Log(k)
  <2>1. table' = table /\ rules' = rules
    BY <1>10, GoingOn
  <2>2. notices' = notices /\ ~(k \in received' /\ stage'[k] = "done") /\ received' \subseteq Jobs
    <3> USE DEF AutoTypeOK, GoOn, Opens, StagesInv, jobState, logState, jobHistory
    <3>1. CASE ReadRule(k) \/ ReadChannel(k)
      BY <3>1 DEF ReadRule, ReadChannel
    <3>2. CASE Post(k)
      BY <3>2 DEF Post, Delivered
    <3>3. CASE CannotPost(k) \/ Email(k)
      BY <3>3 DEF CannotPost, Email, Delivered
    <3>4. CASE CountFirst(k) \/ CountNext(k) \/ CountLast(k)
      BY <3>4 DEF CountFirst, CountNext, CountLast, Counted
    <3> QED
      BY <1>10, <3>1, <3>2, <3>3, <3>4 DEF GoesOn
  <2>3. NothingDangles'
    BY <2>1, <2>2 DEF NoticesInv, NothingDangles, Exists
  <2> QED
    BY <1>5, <1>6, <2>2, <2>3 DEF NoticesInv
<1> QED
  BY <1>7, <1>8, <1>9, <1>10, AutoStepCases

-----------------------------------------------------------------------------
(***************************************************************************)
(* Switching off, and triggers.                                            *)
(***************************************************************************)

(* In seq every request that switches channel c off is followed by one     *)
(* that may switch it on.                                                  *)
Heard(seq, c) ==
  \A p \in 1..Len(seq) :
    /\ task[seq[p]].op = "patchChannel" /\ to(seq[p]) = c /\ task[seq[p]].enabled = "off"
    => \E q \in (p + 1)..Len(seq) : Switches(seq[q], c)

(* So it is of a channel that is on, and was when a job found it on.       *)
QuietInv ==
  /\ \A c \in Channels : table[c].enabled = "on" => Heard(wrote, c)
  /\ \A k \in Jobs : stage[k] = "deliver" \/ k \in received => Heard(before[k], to(k))

(* A step writes a row or leaves the table and the history as they are.    *)
LEMMA RowCases ==
  ASSUME AutoTypeOK, StagesInv, NEW k \in Jobs, Job(k)
  PROVE  (table' = table /\ wrote' = wrote) \/ \E row : Writes(k, row)
<1>1. CASE \E s : Halts(k, s)
  BY <1>1 DEF Halts
<1>2. CASE GoesOn(k)
  BY <1>2, GoingOn
<1> QED
  BY <1>1, <1>2, AutoStepCases

(* What is appended is the last and what was there stays.                  *)
LEMMA Appended ==
  ASSUME AutoTypeOK, NEW k \in Jobs, NEW row, Writes(k, row)
  PROVE  /\ wrote' \in Seq(Jobs) /\ Len(wrote) \in Nat /\ Len(wrote') = Len(wrote) + 1
         /\ wrote'[Len(wrote) + 1] = k
         /\ \A p \in 1..Len(wrote) : wrote'[p] = wrote[p]
<1>1. wrote \in Seq(Jobs) /\ wrote' = Append(wrote, k)
  BY DEF AutoTypeOK, Writes
<1> QED
  BY <1>1

(* A channel that is on has been switched on.                              *)
LEMMA QuietStep ==
  ASSUME AutoTypeOK, TableInv, StagesInv, QuietInv, NEW k \in Jobs, Job(k)
  PROVE  QuietInv'
<1>2. ASSUME NEW c \in Channels, table'[c].enabled = "on" PROVE Heard(wrote, c)'
  <2>1. CASE table' = table /\ wrote' = wrote
    BY <1>2, <2>1, StepShape DEF QuietInv, Heard, Switches, Clears, to
  <2>2. ASSUME NEW row, Writes(k, row) PROVE Heard(wrote, c)'
    <3>1. /\ wrote' \in Seq(Jobs) /\ Len(wrote) \in Nat /\ Len(wrote') = Len(wrote) + 1
          /\ wrote'[Len(wrote) + 1] = k
          /\ \A p \in 1..Len(wrote) : wrote'[p] = wrote[p]
      BY <2>2, Appended
    <3>2. table' = [table EXCEPT ![to(k)] = row] /\ task' = task
      BY <2>2, StepShape DEF Writes
    <3>3. CASE Heard(wrote, c) /\ ~(task[k].op = "patchChannel" /\ to(k) = c /\ task[k].enabled = "off")
      <4> SUFFICES ASSUME NEW p \in 1..Len(wrote'),
                          task'[wrote'[p]].op = "patchChannel", task'[wrote'[p]].row = c,
                          task'[wrote'[p]].enabled = "off"
                   PROVE  \E q \in (p + 1)..Len(wrote') : Switches(wrote[q], c)'
        BY DEF Heard, to
      <4>1. p \in 1..Len(wrote) /\ wrote'[p] = wrote[p]
        BY <3>1, <3>2, <3>3 DEF to
      <4>2. PICK q \in (p + 1)..Len(wrote) : Switches(wrote[q], c)
        BY <3>2, <3>3, <4>1 DEF Heard, to
      <4>3. q \in (p + 1)..Len(wrote') /\ wrote'[q] = wrote[q]
        BY <3>1, <4>1, <4>2
      <4> QED
        BY <3>2, <4>2, <4>3 DEF Switches, Clears, to
    <3>4. CASE Switches(k, c) /\ ~(task[k].op = "patchChannel" /\ task[k].enabled = "off")
      <4> SUFFICES ASSUME NEW p \in 1..Len(wrote'),
                          task'[wrote'[p]].op = "patchChannel", task'[wrote'[p]].row = c,
                          task'[wrote'[p]].enabled = "off"
                   PROVE  \E q \in (p + 1)..Len(wrote') : Switches(wrote[q], c)'
        BY DEF Heard, to
      <4>1. p \in 1..Len(wrote)
        BY <3>1, <3>2, <3>4
      <4>2. Len(wrote) + 1 \in (p + 1)..Len(wrote')
        BY <3>1, <4>1
      <4> QED
        BY <3>1, <3>2, <3>4, <4>2 DEF Switches, Clears, to
    <3>5. CASE to(k) # c
      <4>1. table[c].enabled = "on"
        BY <1>2, <3>2, <3>5 DEF AutoTypeOK
      <4> QED
        BY <3>3, <3>5, <4>1 DEF QuietInv
    <3>6. CASE to(k) = c
      <4>1. row.enabled = "on"
        BY <1>2, <3>2, <3>6, TaskType DEF AutoTypeOK
      <4>2. task[k].op \in Drops => row = None
        BY <2>2, WrittenRow
      <4>3. None.enabled # "on"
        BY DEF None
      <4>4. CASE task[k].op \in Adds
        BY <3>4, <3>6, <4>4, TaskType, RowsAssumption DEF Adds, Switches
      <4>5. CASE task[k].op \in Patches
        <5>1. task[k].op = "patchChannel"
          BY <3>6, <4>5, TaskType, RowsAssumption DEF Patches
        <5>2. row = Merged(k, table[c]) /\ table[c] \in RowType
          BY <2>2, <3>6, <5>1, TaskType DEF Writes, Adds, Drops, AutoTypeOK
        <5>3. task[k].enabled \in {"on", Keep} /\ (task[k].enabled = Keep => table[c].enabled = "on")
          BY <4>1, <5>2, MergedType, TaskType DEF Switch
        <5>4. CASE task[k].enabled = Keep
          <6>1. "off" # Keep
            BY DEF Keep
          <6> QED
            BY <3>3, <5>3, <5>4, <6>1 DEF QuietInv
        <5>5. CASE task[k].enabled = "on" /\ Keep # "on"
          BY <3>4, <3>6, <5>5 DEF Switches
        <5>6. Keep # "on"
          BY DEF Keep
        <5> QED
          BY <5>3, <5>4, <5>5, <5>6
      <4>6. task[k].op \in Adds \cup Patches \cup Drops
        BY <2>2 DEF Writes, Patches
      <4> QED
        BY <4>1, <4>2, <4>3, <4>4, <4>5, <4>6
    <3> QED
      BY <3>5, <3>6
  <2> QED
    BY <2>1, <2>2, RowCases
<1>3. ASSUME NEW j \in Jobs, stage'[j] = "deliver" \/ j \in received' PROVE Heard(before[j], to(j))'
  <2>1. CASE Heard(before[j], to(j)) /\ before'[j] = before[j]
    BY <2>1, StepShape DEF Heard, Switches, Clears, to
  <2>2. CASE j # k
    BY <1>3, <2>1, <2>2, StepShape DEF QuietInv
  <2>3. CASE j = k /\ ReadChannel(k)
    <3>1. /\ stage[k] = "idle" /\ task[k].op = "send" /\ received' = received
          /\ k \notin received
      BY <2>3 DEF ReadChannel, Opens, StagesInv
    <3>2. stage'[k] = "deliver" /\ table[to(k)].enabled = "on" /\ to(k) \in Channels
      BY <1>3, <2>3, <3>1, TaskType DEF ReadChannel, GoOn, SwitchedOn, AutoTypeOK
    <3>3. Heard(wrote, to(k)) /\ before'[k] = wrote
      BY <3>1, <3>2, StepShape DEF QuietInv
    <3> QED
      BY <2>3, <3>3, StepShape DEF Heard, Switches, Clears, to
  <2>4. CASE j = k /\ ~ReadChannel(k)
    <3>1. (stage[k] = "deliver" \/ k \in received)
      <4>1. CASE \E row : Writes(k, row)
        BY <1>3, <2>4, <4>1 DEF Writes, AutoTypeOK
      <4>2. CASE \E s : Halts(k, s)
        BY <1>3, <2>4, <4>2 DEF Halts, AutoTypeOK, Over
      <4>3. CASE GoesOn(k)
        <5> USE DEF AutoTypeOK, GoOn, jobState, logState, jobHistory
        <5>1. CASE ReadRule(k) \/ Log(k)
          BY <1>3, <2>4, <5>1 DEF ReadRule, Log
        <5>2. CASE Post(k) \/ CannotPost(k) \/ Email(k)
          BY <5>2 DEF Post, CannotPost, Email
        <5>3. CASE CountFirst(k) \/ CountNext(k) \/ CountLast(k)
          BY <1>3, <2>4, <5>3 DEF CountFirst, CountNext, CountLast, Counted
        <5> QED
          BY <2>4, <4>3, <5>1, <5>2, <5>3 DEF GoesOn
      <4> QED
        BY <4>1, <4>2, <4>3, AutoStepCases
    <3>2. stage[k] # "idle"
      BY <3>1 DEF StagesInv
    <3> QED
      BY <2>1, <2>4, <3>1, <3>2, StepShape DEF QuietInv
  <2> QED
    BY <2>2, <2>3, <2>4
<1> QED
  BY <1>2, <1>3 DEF QuietInv

(* Triggers without a next run come from patches.                          *)
LEMMA TriggersStep ==
  ASSUME AutoTypeOK, TableInv, StagesInv, BadTriggersArePatched, NEW k \in Jobs, Job(k)
  PROVE  BadTriggersArePatched'
<1> SUFFICES ASSUME NEW r \in Schedules, table'[r].field \in Bad
             PROVE  \E p \in 1..Len(wrote') : \E j \in Jobs :
                      /\ wrote'[p] = j /\ task[j].op = "patchSchedule"
                      /\ task[j].field = table'[r].field
  <2>1. task' = task
    BY StepShape
  <2> QED
    BY <2>1 DEF BadTriggersArePatched, Wrote
<1>1. ASSUME table'[r].field = table[r].field,
             wrote' = wrote \/ \E row : Writes(k, row)
      PROVE  \E p \in 1..Len(wrote') : \E j \in Jobs :
                      /\ wrote'[p] = j /\ task[j].op = "patchSchedule"
                      /\ task[j].field = table'[r].field
  <2>1. PICK j \in Jobs : /\ Wrote(j) /\ task[j].op = "patchSchedule"
                          /\ task[j].field = table'[r].field
    BY <1>1 DEF BadTriggersArePatched
  <2>2. PICK p \in 1..Len(wrote) : wrote[p] = j
    BY <2>1 DEF Wrote
  <2>3. p \in 1..Len(wrote') /\ wrote'[p] = j
    BY <1>1, <2>2, Appended
  <2> QED
    BY <2>1, <2>3
<1>2. CASE table' = table /\ wrote' = wrote
  BY <1>1, <1>2
<1>3. ASSUME NEW row, Writes(k, row)
      PROVE  \E p \in 1..Len(wrote') : \E j \in Jobs :
                      /\ wrote'[p] = j /\ task[j].op = "patchSchedule"
                      /\ task[j].field = table'[r].field
  <2>1. table' = [table EXCEPT ![to(k)] = row] /\ to(k) \in RowIds /\ r \in RowIds
    BY <1>3, TaskType DEF Writes, RowIds
  <2>2. CASE to(k) # r
    BY <1>1, <1>3, <2>1, <2>2 DEF AutoTypeOK
  <2>3. CASE to(k) = r
    <3>1. table'[r] = row /\ row.field \in Bad
      BY <2>1, <2>3 DEF AutoTypeOK
    <3>2. task[k].op \notin Drops
      BY <1>3, <3>1, WrittenRow, TasksAssumption DEF None
    <3>3. task[k].op \in {"addSchedule", "patchSchedule"}
      BY <1>3, <2>3, <3>2, TaskType, RowsAssumption DEF Writes, Adds, Drops, Patches
    <3>4. task[k].op # "addSchedule"
      BY <1>3, <3>1 DEF Writes, Adds, Drops, Patches, Runnable
    <3>5. row = Merged(k, table[r]) /\ table[r] \in RowType
      BY <1>3, <2>1, <2>3, <3>3, <3>4 DEF Writes, Adds, Drops, AutoTypeOK
    <3>6. row.field = IF task[k].field = Keep THEN table[r].field ELSE task[k].field
      BY <3>5, MergedType
    <3>7. CASE task[k].field = Keep
      BY <1>1, <1>3, <3>1, <3>6, <3>7
    <3>8. CASE task[k].field # Keep
      <4>1. Len(wrote) + 1 \in 1..Len(wrote') /\ wrote'[Len(wrote) + 1] = k
        BY <1>3, Appended
      <4> QED
        BY <3>1, <3>3, <3>4, <3>6, <3>8, <4>1
    <3> QED
      BY <3>7, <3>8
  <2> QED
    BY <2>2, <2>3
<1> QED
  BY <1>2, <1>3, RowCases

-----------------------------------------------------------------------------
(***************************************************************************)
(* Updates.                                                                *)
(***************************************************************************)

Parts == {"enabled", "field"}
Part(row, x) == IF x = "enabled" THEN row.enabled ELSE row.field

(* Write q makes an end of what write p asked of part x.                   *)
Ends(x, p, q) ==
  /\ to(wrote[q]) = to(wrote[p])
  /\ \/ Part(task[wrote[q]], x) # Keep \/ Clears(wrote[q])
     \/ task[wrote[q]].op = "patchRule" /\ Len(before[wrote[q]]) < p

(* A row that is not as write p asked, or is not there, is so by one of    *)
(* the writes up to the n-th.                                              *)
Holds(x, p, row, n) ==
  /\ task[wrote[p]].op \in Patches /\ Part(task[wrote[p]], x) # Keep
  /\ row = None \/ Part(row, x) # Part(task[wrote[p]], x)
  => \E q \in (p + 1)..n : Ends(x, p, q)

(* That goes for the table, and for a rule that was read, as of then.      *)
StickInv ==
  /\ \A x \in Parts : \A p \in 1..Len(wrote) : Holds(x, p, table[to(wrote[p])], Len(wrote))
  /\ \A j \in Jobs : \A x \in Parts : stage[j] = "merge" =>
       \A p \in 1..Len(before[j]) : to(wrote[p]) = to(j) => Holds(x, p, snapshot[j], Len(before[j]))

(* What a job merges is what it asks for, and the old for the rest.        *)
LEMMA MergedParts ==
  ASSUME AutoTypeOK, NEW k \in Jobs, NEW old \in RowType, NEW x \in Parts
  PROVE  Part(Merged(k, old), x) = IF Part(task[k], x) = Keep THEN Part(old, x) ELSE Part(task[k], x)
BY MergedType DEF Part, Parts

(* No step takes it back.                                                  *)
LEMMA HoldsOn ==
  ASSUME AutoTypeOK, StagesInv, WrittenInv, NEW k \in Jobs, Job(k),
         NEW x, NEW p \in 1..Len(wrote), NEW row, NEW n \in 0..Len(wrote), NEW m \in n..Len(wrote'),
         Holds(x, p, row, n)
  PROVE  Holds(x, p, row, m)'
<1>1. /\ task' = task /\ Len(wrote) \in Nat /\ Len(wrote') \in Nat
      /\ \A q \in 1..Len(wrote) : wrote'[q] = wrote[q] /\ before'[wrote[q]] = before[wrote[q]]
  <2>1. wrote \in Seq(Jobs) /\ stage[k] # "done" /\ task' = task
    BY StepShape DEF AtWork, AutoTypeOK
  <2>2. \A q \in 1..Len(wrote) : wrote'[q] = wrote[q]
    BY WrittenStep
  <2>3. \A q \in 1..Len(wrote) : wrote[q] \in Jobs /\ wrote[q] # k
    BY <2>1 DEF WrittenInv
  <2>4. \A j \in Jobs : j # k => before'[j] = before[j]
    BY StepShape
  <2>5. Len(wrote') \in Nat
    <3>1. wrote' = wrote \/ wrote' = Append(wrote, k)
      BY RowCases DEF Writes
    <3> QED
      BY <2>1, <3>1
  <2> QED
    BY <2>1, <2>2, <2>3, <2>4, <2>5
<1>2. ASSUME NEW q \in (p + 1)..n, Ends(x, p, q) PROVE q \in (p + 1)..m /\ Ends(x, p, q)'
  <2>1. q \in 1..Len(wrote) /\ q \in (p + 1)..m
    BY <1>1
  <2>2. wrote'[q] = wrote[q] /\ wrote'[p] = wrote[p] /\ before'[wrote[q]] = before[wrote[q]]
    BY <1>1, <2>1
  <2> QED
    BY <1>1, <1>2, <2>1, <2>2 DEF Ends, to, Clears
<1>3. wrote'[p] = wrote[p]
  BY <1>1
<1> QED
  BY <1>1, <1>2, <1>3 DEF Holds

(* Updates go on to stick.                                                 *)
LEMMA StickStep ==
  ASSUME AutoTypeOK, TableInv, StagesInv, WrittenInv, StickInv, NEW k \in Jobs, Job(k)
  PROVE  StickInv'
<1>1. /\ task' = task /\ wrote \in Seq(Jobs)
      /\ Len(wrote) \in Nat /\ Len(wrote') \in Nat /\ Len(wrote) <= Len(wrote')
      /\ \A q \in 1..Len(wrote) : wrote'[q] = wrote[q] /\ to(wrote[q]) \in RowIds
  <2>1. wrote' = wrote \/ wrote' = Append(wrote, k)
    BY RowCases DEF Writes
  <2>2. wrote \in Seq(Jobs) /\ \A j \in Jobs : to(j) \in RowIds
    BY TaskType DEF AutoTypeOK
  <2>3. \A q \in 1..Len(wrote) : wrote[q] \in Jobs
    BY <2>2
  <2> QED
    BY <2>1, <2>2, <2>3, StepShape
<1>2. ASSUME NEW x \in Parts, NEW p \in 1..Len(wrote')
      PROVE  Holds(x, p, table[to(wrote[p])], Len(wrote))'
  <2>1. PICK row, l, m : row = table'[task[wrote'[p]].row] /\ l = Len(wrote) /\ m = Len(wrote')
    OBVIOUS
  <2>2. SUFFICES Holds(x, p, row, m)'
    BY <1>1, <2>1 DEF Holds, to
  <2>3. ASSUME p \in 1..Len(wrote), row = table[to(wrote[p])] PROVE Holds(x, p, row, m)'
    <3>1. Holds(x, p, row, l) /\ l \in 0..Len(wrote) /\ m \in l..Len(wrote')
      BY <1>1, <2>1, <2>3 DEF StickInv
    <3> QED
      BY <2>3, <3>1, HoldsOn
  <2>4. CASE table' = table /\ wrote' = wrote
    BY <1>1, <2>1, <2>3, <2>4 DEF to
  <2>5. ASSUME NEW new, Writes(k, new) PROVE Holds(x, p, row, m)'
    <3>1. /\ Len(wrote') = Len(wrote) + 1 /\ wrote'[Len(wrote) + 1] = k
          /\ table' = [table EXCEPT ![to(k)] = new] /\ to(k) \in RowIds
      BY <2>5, Appended, TaskType DEF Writes
    <3>2. IF task[k].op \in Drops THEN new = None ELSE new # None
      BY <2>5, WrittenRow
    <3>3. task[k].op \in Patches => \E old \in RowType : new = Merged(k, old)
      BY <2>5, TaskType DEF Writes, Patches, Adds, Drops, AutoTypeOK
    <3>4. CASE p = Len(wrote) + 1
      <4>1. row = new /\ wrote'[p] = k
        BY <1>1, <2>1, <3>1, <3>4 DEF AutoTypeOK, to
      <4>2. task[k].op \in Patches /\ Part(task[k], x) # Keep => Part(new, x) = Part(task[k], x)
        BY <3>3, MergedParts
      <4> QED
        BY <1>1, <3>2, <4>1, <4>2 DEF Holds, Patches, Drops
    <3>5. CASE p \in 1..Len(wrote) /\ to(wrote[p]) # to(k)
      BY <1>1, <2>1, <2>3, <3>1, <3>5 DEF AutoTypeOK, to
    <3>6. CASE p \in 1..Len(wrote) /\ to(wrote[p]) = to(k)
      <4>1. row = new /\ wrote'[p] = wrote[p]
        BY <1>1, <2>1, <3>1, <3>6 DEF AutoTypeOK, to
      <4>2. ASSUME \/ Part(task[k], x) # Keep \/ Clears(k)
                   \/ task[k].op = "patchRule" /\ Len(before'[k]) < p
            PROVE  Holds(x, p, row, m)'
        <5>1. Ends(x, p, l + 1)'
          BY <1>1, <2>1, <3>1, <3>6, <4>1, <4>2 DEF Ends, Clears, to
        <5>2. l + 1 \in (p + 1)..m
          BY <1>1, <2>1, <3>1, <3>6
        <5> QED
          BY <5>1, <5>2 DEF Holds
      <4>3. ASSUME NEW old, NEW n \in 0..Len(wrote), Holds(x, p, old, n),
                   old = None \/ (new # None /\ Part(new, x) = Part(old, x))
            PROVE  Holds(x, p, row, m)'
        <5>1. m \in n..Len(wrote')
          BY <1>1, <2>1
        <5>2. Holds(x, p, old, m)'
          BY <3>6, <4>3, <5>1, HoldsOn
        <5> QED
          BY <4>1, <4>3, <5>2 DEF Holds
      <4>4. Holds(x, p, table[to(k)], Len(wrote)) /\ Len(wrote) \in 0..Len(wrote)
        BY <1>1, <3>6 DEF StickInv
      <4>5. CASE task[k].op \in Adds
        BY <2>5, <4>3, <4>4, <4>5 DEF Writes, Adds, Patches, Drops, Exists
      <4>6. CASE task[k].op \in Patches /\ task[k].op # "patchRule"
        <5>1. new = Merged(k, table[to(k)]) /\ table[to(k)] \in RowType /\ new # None
          BY <2>5, <3>1, <3>2, <4>6 DEF Writes, Adds, Patches, Drops, AutoTypeOK
        <5>2. Part(task[k], x) = Keep => Part(new, x) = Part(table[to(k)], x)
          BY <5>1, MergedParts
        <5> QED
          BY <4>2, <4>3, <4>4, <5>1, <5>2
      <4>7. CASE task[k].op = "patchRule"
        <5>1. /\ new = Merged(k, snapshot[k]) /\ snapshot[k] \in RowType /\ new # None
              /\ stage[k] = "merge"
          BY <2>5, <3>2, <4>7 DEF Writes, Adds, Patches, Drops, AutoTypeOK
        <5>2. Part(task[k], x) = Keep => Part(new, x) = Part(snapshot[k], x)
          BY <5>1, MergedParts
        <5>3. before'[k] = before[k] /\ Len(before[k]) \in 0..Len(wrote)
          <6>1. before'[k] = before[k]
            BY <5>1, StepShape
          <6>2. Len(before[k]) \in Nat
            BY DEF AutoTypeOK
          <6>3. Len(before[k]) <= Len(wrote)
            BY <5>1 DEF WrittenInv
          <6> QED
            BY <1>1, <6>1, <6>2, <6>3
        <5>4. CASE Len(before[k]) < p
          BY <4>2, <4>7, <5>3, <5>4
        <5>5. CASE ~(Len(before[k]) < p)
          <6>1. p \in 1..Len(before[k])
            BY <1>1, <3>6, <5>3, <5>5
          <6>2. Holds(x, p, snapshot[k], Len(before[k]))
            BY <3>6, <5>1, <6>1 DEF StickInv
          <6> QED
            BY <4>2, <4>3, <5>1, <5>2, <5>3, <6>2
        <5> QED
          BY <5>4, <5>5
      <4>8. CASE task[k].op \in Drops
        BY <4>2, <4>8 DEF Clears, Drops
      <4> QED
        BY <2>5, <4>5, <4>6, <4>7, <4>8 DEF Writes
    <3> QED
      BY <1>1, <3>1, <3>4, <3>5, <3>6
  <2> QED
    BY <2>4, <2>5, RowCases
<1>3. ASSUME NEW j \in Jobs, NEW x \in Parts, stage'[j] = "merge", NEW p \in 1..Len(before'[j]),
             to(wrote[p])' = to(j)'
      PROVE  Holds(x, p, snapshot[j], Len(before[j]))'
  <2>1. ASSUME NEW row, NEW n \in 0..Len(wrote), n = Len(before'[j]), row = snapshot'[j],
               Holds(x, p, row, n)
        PROVE  Holds(x, p, snapshot[j], Len(before[j]))'
    <3>1. n \in n..Len(wrote') /\ p \in 1..Len(wrote)
      BY <1>1, <2>1
    <3>2. Holds(x, p, row, n)'
      BY <2>1, <3>1, HoldsOn
    <3> QED
      BY <2>1, <3>2 DEF Holds
  <2>2. CASE j # k
    <3>1. /\ stage[j] = "merge" /\ before'[j] = before[j] /\ snapshot'[j] = snapshot[j]
          /\ Len(before[j]) \in 0..Len(wrote)
      <4>1. stage[j] = "merge" /\ before'[j] = before[j] /\ snapshot'[j] = snapshot[j]
        BY <1>3, <2>2, StepShape
      <4>2. Len(before[j]) \in Nat
        BY DEF AutoTypeOK
      <4>3. Len(before[j]) <= Len(wrote)
        BY <4>1 DEF WrittenInv
      <4> QED
        BY <1>1, <4>1, <4>2, <4>3
    <3>2. to(wrote[p]) = to(j)
      BY <1>1, <1>3, <3>1 DEF to
    <3> QED
      BY <1>3, <2>1, <3>1, <3>2 DEF StickInv
  <2>3. CASE j = k
    <3>1. ReadRule(k)
      <4>1. CASE \E row : Writes(k, row)
        BY <1>3, <2>3, <4>1 DEF Writes, AutoTypeOK
      <4>2. CASE \E s : Halts(k, s)
        BY <1>3, <2>3, <4>2 DEF Halts, AutoTypeOK, Over
      <4>3. CASE GoesOn(k)
        <5> USE DEF AutoTypeOK, GoOn, jobState, logState, jobHistory
        <5>1. CASE ReadChannel(k) \/ Log(k)
          BY <1>3, <2>3, <5>1 DEF ReadChannel, Log
        <5>2. CASE Post(k) \/ CannotPost(k) \/ Email(k)
          BY <1>3, <2>3, <5>2 DEF Post, CannotPost, Email, Delivered
        <5>3. CASE CountFirst(k) \/ CountNext(k) \/ CountLast(k)
          BY <1>3, <2>3, <5>3 DEF CountFirst, CountNext, CountLast, Counted
        <5> QED
          BY <4>3, <5>1, <5>2, <5>3 DEF GoesOn
      <4> QED
        BY <4>1, <4>2, <4>3, AutoStepCases
    <3>2. /\ stage[k] = "idle" /\ snapshot'[k] = table[to(k)] /\ before'[k] = wrote
          /\ wrote' = wrote
      BY <3>1, StepShape DEF ReadRule, Opens, AutoTypeOK
    <3>3. Holds(x, p, table[to(k)], Len(wrote))
      BY <1>1, <1>3, <2>3, <3>2 DEF StickInv, to
    <3> QED
      BY <1>1, <2>1, <2>3, <3>2, <3>3
  <2> QED
    BY <2>2, <2>3
<1> QED
  BY <1>2, <1>3 DEF StickInv

(* The place of a job that wrote is where it wrote.                        *)
LEMMA PlacesOfWrites ==
  ASSUME WrittenInv, NEW p \in 1..Len(wrote)
  PROVE  Place(wrote[p]) = p
BY DEF WrittenInv, Place

(* So what a job asked for is there or has been overridden.                *)
LEMMA StickSticks ==
  ASSUME AutoTypeOK, WrittenInv, StickInv PROVE UpdatesStick
<1> SUFFICES ASSUME NEW k \in Jobs, Wrote(k), task[k].op \in Patches
    PROVE
    /\ task[k].enabled # Keep /\ table[to(k)].enabled # task[k].enabled =>
         \E j \in Jobs : Overrides(j, k, task[j].enabled # Keep)
    /\ task[k].field # Keep /\ table[to(k)].field # task[k].field =>
         \E j \in Jobs : Overrides(j, k, task[j].field # Keep)
  BY DEF UpdatesStick
<1>1. PICK p \in 1..Len(wrote) : wrote[p] = k
  BY DEF Wrote
<1>2. ASSUME NEW x \in Parts, Part(task[k], x) # Keep, Part(table[to(k)], x) # Part(task[k], x)
      PROVE  \E j \in Jobs : Overrides(j, k, Part(task[j], x) # Keep)
  <2>1. PICK q \in (p + 1)..Len(wrote) : Ends(x, p, q)
    BY <1>1, <1>2 DEF StickInv, Holds
  <2>2. Len(wrote) \in Nat /\ q \in 1..Len(wrote) /\ wrote[q] \in Jobs
    <3>1. wrote \in Seq(Jobs)
      BY DEF AutoTypeOK
    <3>2. q \in 1..Len(wrote)
      BY <2>1, <3>1
    <3> QED
      BY <3>1, <3>2
  <2>3. Place(wrote[q]) = q /\ Place(k) = p /\ q > p
    BY <1>1, <2>1, <2>2, PlacesOfWrites
  <2>4. Overrides(wrote[q], k, Part(task[wrote[q]], x) # Keep)
    BY <1>1, <2>1, <2>2, <2>3 DEF Overrides, Ends, Wrote
  <2> QED
    BY <2>2, <2>4
<1>3. task[k].enabled # Keep /\ table[to(k)].enabled # task[k].enabled =>
         \E j \in Jobs : Overrides(j, k, task[j].enabled # Keep)
  BY <1>2 DEF Parts, Part
<1>4. task[k].field # Keep /\ table[to(k)].field # task[k].field =>
         \E j \in Jobs : Overrides(j, k, task[j].field # Keep)
  BY <1>2 DEF Parts, Part
<1> QED
  BY <1>3, <1>4

-----------------------------------------------------------------------------
(***************************************************************************)
(* The statistics.                                                         *)
(***************************************************************************)

NoneCleared == \A p \in 1..Len(wrote) : ~Clears(wrote[p])

(* While nothing failed and nothing was deleted, the total that a reading  *)
(* has counted is covered by what it has counted since and has yet to.     *)
Covered(k) ==
  /\ stage[k] = "second" => count[k].all <= CountOf("all")
  /\ stage[k] = "third" => count[k].all <= count[k].sent + CountOf("failed")
  /\ stage[k] = "done" /\ task[k].op = "stats" => count[k].all <= count[k].sent + count[k].failed

CoveredInv == lapses = MaxLapses /\ NoneCleared => \A k \in Jobs : Covered(k)

(* Counts are naturals, and the total is that of the parts.                *)
LEMMA Counts ==
  ASSUME AutoTypeOK, IsFiniteSet(notices)
  PROVE  /\ CountOf("all") \in Nat /\ CountOf("sent") \in Nat /\ CountOf("failed") \in Nat
         /\ CountOf("all") <= CountOf("sent") + CountOf("failed")
<1> DEFINE S == {n \in notices : n.status = "sent"}
           F == {n \in notices : n.status = "failed"}
<1>1. S \subseteq notices /\ F \subseteq notices
  OBVIOUS
<1>2. notices = S \cup F
  BY DEF AutoTypeOK
<1>3. IsFiniteSet(S) /\ IsFiniteSet(F)
  BY <1>1, FS_Subset
<1>4. CountOf("all") = Cardinality(notices)
  <2>1. {n \in notices : "all" = "all" \/ n.status = "all"} = notices
    OBVIOUS
  <2> QED
    BY <2>1 DEF CountOf
<1>5. CountOf("sent") = Cardinality(S) /\ CountOf("failed") = Cardinality(F)
  BY DEF CountOf
<1> HIDE DEF S, F
<1>6. Cardinality(S \cup F) = Cardinality(S) + Cardinality(F) - Cardinality(S \cap F)
  BY <1>3, FS_Union
<1>7. IsFiniteSet(S \cap F)
  <2>1. S \cap F \subseteq S
    OBVIOUS
  <2> QED
    BY <1>3, <2>1, FS_Subset
<1>8. Cardinality(S) \in Nat /\ Cardinality(F) \in Nat /\ Cardinality(S \cap F) \in Nat /\ Cardinality(notices) \in Nat
  BY <1>3, <1>7, FS_CardinalityType
<1> QED
  BY <1>2, <1>4, <1>5, <1>6, <1>8

(* Counts do not fall while notices stay.                                  *)
LEMMA CountsGrow ==
  ASSUME AutoTypeOK, IsFiniteSet(notices), AutoTypeOK', IsFiniteSet(notices'), notices \subseteq notices'
  PROVE  /\ CountOf("all") \in Nat /\ CountOf("sent") \in Nat /\ CountOf("failed") \in Nat
         /\ CountOf("all")' \in Nat /\ CountOf("failed")' \in Nat
         /\ CountOf("all") <= CountOf("all")' /\ CountOf("failed") <= CountOf("failed")'
<1>1. ASSUME NEW what
      PROVE  CountOf(what) <= CountOf(what)' /\ CountOf(what) \in Nat /\ CountOf(what)' \in Nat
  <2> DEFINE S == {n \in notices : what = "all" \/ n.status = what}
             T == {n \in notices' : what = "all" \/ n.status = what}
  <2>1. S \subseteq T /\ T \subseteq notices' /\ CountOf(what) = Cardinality(S) /\ CountOf(what)' = Cardinality(T)
    BY DEF CountOf
  <2> HIDE DEF S, T
  <2>2. IsFiniteSet(T)
    BY <2>1, FS_Subset
  <2>3. IsFiniteSet(S) /\ Cardinality(S) <= Cardinality(T)
    BY <2>1, <2>2, FS_Subset
  <2> QED
    BY <2>1, <2>2, <2>3, FS_CardinalityType
<1> QED
  BY <1>1

(* The total stays covered.                                                *)
LEMMA CoveredStep ==
  ASSUME AutoTypeOK, TableInv, StagesInv, WrittenInv, NoticesInv, IsFiniteSet(notices), CoveredInv,
         AutoTypeOK', IsFiniteSet(notices'), NEW k \in Jobs, Job(k)
  PROVE  CoveredInv'
<1> SUFFICES ASSUME lapses' = MaxLapses, NoneCleared', NEW j \in Jobs PROVE Covered(j)'
  BY DEF CoveredInv
<1>1. ~Lapse
  BY TasksAssumption DEF Lapse, AutoTypeOK
<1>2. lapses = MaxLapses
  <2>1. lapses' = lapses \/ Lapse
    <3>1. CASE GoesOn(k)
      BY <3>1 DEF GoesOn, ReadRule, ReadChannel, Post, CannotPost, Email, Delivered, Log,
         CountFirst, CountNext, CountLast, Counted
    <3> QED
      BY <3>1, AutoStepCases DEF Writes, Halts
  <2> QED
    BY <1>1, <2>1
<1>3. task' = task /\ NoneCleared
  <2>1. task' = task /\ wrote \in Seq(Jobs) /\ (wrote' = wrote \/ wrote' = Append(wrote, k))
    BY RowCases, StepShape DEF Writes, AutoTypeOK
  <2>2. \A p \in 1..Len(wrote) : p \in 1..Len(wrote') /\ wrote'[p] = wrote[p]
    BY <2>1
  <2> QED
    BY <2>1, <2>2 DEF NoneCleared, Clears
<1>4. notices \subseteq notices'
  <2>1. ASSUME NEW row, Writes(k, row) PROVE notices' = notices
    <3>1. Len(wrote) + 1 \in 1..Len(wrote') /\ wrote'[Len(wrote) + 1] = k
      BY <2>1, Appended
    <3>2. ~Clears(k)
      BY <1>3, <3>1 DEF NoneCleared, Clears
    <3> QED
      BY <2>1, <3>2 DEF Writes, Clears
  <2>2. ASSUME NEW s, Halts(k, s) PROVE notices \subseteq notices'
    BY <2>2 DEF Halts, NoticesInv, NothingDangles
  <2>3. CASE GoesOn(k)
    BY <2>3 DEF GoesOn, ReadRule, ReadChannel, Post, CannotPost, Email, Delivered, Log, LogNotice,
       CountFirst, CountNext, CountLast, Counted, logState
  <2> QED
    BY <2>1, <2>2, <2>3, AutoStepCases
<1>5. /\ CountOf("all") \in Nat /\ CountOf("sent") \in Nat /\ CountOf("failed") \in Nat
      /\ CountOf("all")' \in Nat /\ CountOf("failed")' \in Nat
      /\ CountOf("all") <= CountOf("all")' /\ CountOf("failed") <= CountOf("failed")'
  BY <1>4, CountsGrow
<1>6. Covered(j) /\ count[j].all \in Int /\ count[j].sent \in Int /\ count[j].failed \in Int
  BY <1>2, <1>3 DEF CoveredInv, AutoTypeOK
<1>7. CASE stage'[j] = stage[j] /\ count'[j] = count[j]
  <2>1. /\ stage[j] = "second" => count[j].all <= CountOf("all")'
        /\ stage[j] = "third" => count[j].all <= count[j].sent + CountOf("failed")'
    BY <1>5, <1>6 DEF Covered
  <2> QED
    BY <1>3, <1>6, <1>7, <2>1 DEF Covered
<1>8. CASE stage'[j] \notin {"second", "third"} /\ ~(stage'[j] = "done" /\ task[j].op = "stats")
  BY <1>3, <1>8 DEF Covered
<1>9. CASE j # k
  BY <1>7, <1>9, StepShape
<1>10. CASE j = k /\ \E row : Writes(k, row)
  BY <1>8, <1>10 DEF Writes, Adds, Patches, Drops, AutoTypeOK
<1>11. CASE j = k /\ \E s : Halts(k, s)
  BY <1>8, <1>11 DEF Halts, Over, AutoTypeOK
<1>12. CASE j = k /\ GoesOn(k)
  <2> USE DEF AutoTypeOK, GoOn, Opens, jobState, logState, jobHistory
  <2>1. CASE ReadRule(k) \/ ReadChannel(k)
    BY <1>8, <1>12, <2>1 DEF ReadRule, ReadChannel
  <2>2. CASE Post(k) \/ CannotPost(k) \/ Email(k)
    BY <1>8, <1>12, <2>2 DEF Post, CannotPost, Email, Delivered
  <2>3. CASE Log(k)
    <3>1. task[k].op = "send"
      BY <2>3 DEF Log, StagesInv
    <3>2. stage'[k] = "done"
      BY <2>3 DEF Log
    <3> QED
      BY <1>8, <1>12, <3>1, <3>2
  <2>4. CASE CountFirst(k)
    <3>1. count' = [count EXCEPT ![k]["all"] = CountOf("all")] /\ stage'[k] = "second" /\ notices' = notices
      BY <1>1, <2>4 DEF CountFirst, Counted, CountOrder
    <3>2. count'[k].all = CountOf("all")
      BY <3>1
    <3>3. CountOf("all")' = CountOf("all")
      BY <3>1 DEF CountOf
    <3> QED
      BY <1>5, <1>12, <3>1, <3>2, <3>3 DEF Covered
  <2>5. CASE CountNext(k)
    <3>1. /\ count' = [count EXCEPT ![k]["sent"] = CountOf("sent")] /\ notices' = notices
          /\ stage[k] = "second" /\ stage'[k] = "third"
      BY <1>1, <2>5 DEF CountNext, Counted, CountOrder
    <3>2. count'[k].sent = CountOf("sent") /\ count'[k].all = count[k].all
      BY <3>1
    <3>3. CountOf("failed")' = CountOf("failed")
      BY <3>1 DEF CountOf
    <3>4. count[k].all <= CountOf("all")
      BY <1>6, <1>12, <3>1 DEF Covered
    <3>5. count[k].all <= CountOf("sent") + CountOf("failed")
      <4>1. CountOf("all") <= CountOf("sent") + CountOf("failed")
        BY Counts
      <4>2. count[k].all \in Int
        OBVIOUS
      <4> HIDE DEF AutoTypeOK
      <4> QED
        BY <1>5, <3>4, <4>1, <4>2
    <3> QED
      BY <1>12, <3>1, <3>2, <3>3, <3>5 DEF Covered
  <2>6. CASE CountLast(k)
    <3>1. /\ count' = [count EXCEPT ![k]["failed"] = CountOf("failed")]
          /\ stage[k] = "third" /\ stage'[k] = "done"
      BY <1>1, <2>6 DEF CountLast, Counted, CountOrder
    <3>2. count'[k].failed = CountOf("failed") /\ count'[k].all = count[k].all /\ count'[k].sent = count[k].sent
      BY <3>1
    <3>3. count[k].all <= count[k].sent + CountOf("failed")
      BY <1>6, <1>12, <3>1 DEF Covered
    <3> QED
      BY <1>12, <3>1, <3>2, <3>3 DEF Covered
  <2> QED
    BY <1>12, <2>1, <2>2, <2>3, <2>4, <2>5, <2>6 DEF GoesOn
<1> QED
  BY <1>9, <1>10, <1>11, <1>12, AutoStepCases

-----------------------------------------------------------------------------
(***************************************************************************)
(* The theorems.                                                           *)
(***************************************************************************)

(* The inductive invariant.                                                *)
AutoInv ==
  /\ AutoTypeOK /\ IsFiniteSet(notices)
  /\ TableInv /\ StagesInv /\ WrittenInv /\ NoticesInv
  /\ QuietInv /\ BadTriggersArePatched /\ StickInv /\ CoveredInv

LEMMA AutoInvInit == AutoInit => AutoInv
<1> SUFFICES ASSUME AutoInit PROVE AutoInv
  OBVIOUS
<1> USE DEF AutoInit
<1>1. AutoTypeOK /\ TableInv
  <2>1. PICK seed \in Seeds :
          table = [r \in RowIds |-> IF r \in Seeded THEN [enabled |-> "on", field |-> seed[r]] ELSE None]
    OBVIOUS
  <2>2. \A r \in Seeded : r \in RowIds /\ seed[r] \in Values \ Bad
    BY TasksAssumption
  <2>3. table \in [RowIds -> RowType] /\ TableInv
    BY <2>1, <2>2, NoneType DEF RowType, Switch, TableInv
  <2>4. /\ snapshot \in [Jobs -> RowType]
        /\ count \in [Jobs -> [all : Int, sent : Int, failed : Int]]
    BY NoneType DEF Uncounted
  <2>5. lapses \in 0..MaxLapses /\ wrote \in Seq(Jobs) /\ before \in [Jobs -> Seq(Jobs)]
    BY TasksAssumption
  <2> QED
    BY <2>3, <2>4, <2>5 DEF AutoTypeOK
<1>2. IsFiniteSet(notices)
  BY FS_EmptySet
<1>3. StagesInv /\ WrittenInv /\ NoticesInv /\ QuietInv /\ StickInv
  BY DEF StagesInv, WrittenInv, NoticesInv, NothingDangles, QuietInv, Heard, StickInv
<1>4. BadTriggersArePatched
  <2>1. \A r \in Schedules : table[r].field \notin Bad
    BY TasksAssumption DEF None, RowIds
  <2> QED
    BY <2>1 DEF BadTriggersArePatched
<1>5. CoveredInv
  BY DEF CoveredInv, Covered
<1> QED
  BY <1>1, <1>2, <1>3, <1>4, <1>5 DEF AutoInv

LEMMA AutoInvStep == AutoInv /\ [AutoNext]_autoVars => AutoInv'
<1> SUFFICES ASSUME AutoInv, [AutoNext]_autoVars PROVE AutoInv'
  OBVIOUS
<1>1. AutoTypeOK' /\ IsFiniteSet(notices')
  BY AutoTypeStep DEF AutoInv
<1>2. ASSUME NEW k \in Jobs, Job(k) PROVE AutoInv'
  BY <1>1, <1>2, TableStep, StagesStep, WrittenStep, NoticesStep, QuietStep, TriggersStep,
     StickStep, CoveredStep DEF AutoInv
<1>3. CASE UNCHANGED autoVars
  <2> USE <1>3 DEF autoVars, jobState, logState, jobHistory
  <2>1. TableInv' /\ StagesInv' /\ WrittenInv'
    BY DEF AutoInv, TableInv, StagesInv, WrittenInv, to
  <2>2. NoticesInv' /\ BadTriggersArePatched'
    BY DEF AutoInv, NoticesInv, NothingDangles, Exists, Gone, to, BadTriggersArePatched, Wrote
  <2>3. QuietInv'
    BY DEF AutoInv, QuietInv, Heard, Switches, Clears, to
  <2>4. StickInv'
    BY DEF AutoInv, StickInv, Holds, Ends, Clears, to
  <2>5. CoveredInv'
    BY DEF AutoInv, CoveredInv, NoneCleared, Covered, CountOf, Clears
  <2> QED
    BY <1>1, <2>1, <2>2, <2>3, <2>4, <2>5 DEF AutoInv
<1> QED
  BY <1>2, <1>3 DEF AutoNext

(* The invariant holds of every state of the automation.                   *)
THEOREM AutoInvariance == AutoSpec => []AutoInv
BY AutoInvInit, AutoInvStep, PTL DEF AutoSpec

(* Every variable keeps its type.                                          *)
THEOREM AutoTypeCorrect == AutoSpec => []AutoTypeOK
<1>1. AutoInv => AutoTypeOK
  BY DEF AutoInv
<1> QED
  BY <1>1, AutoInvariance, PTL

(* What a PATCH of routes/ and services/ asked for stays until a later     *)
(* request, or for a detection rule one that had begun, overrides it.      *)
THEOREM Sticks == AutoSpec => []UpdatesStick
<1>1. AutoInv => UpdatesStick
  BY StickSticks DEF AutoInv
<1> QED
  BY <1>1, AutoInvariance, PTL

(* notification_log tells of send_notification's deliveries what happened. *)
THEOREM LogTells == AutoSpec => []LogTellsDeliveries
<1>1. AutoInv => LogTellsDeliveries
  <2> SUFFICES ASSUME AutoInv PROVE LogTellsDeliveries
    OBVIOUS
  <2>1. ASSUME NEW k \in received, Gone(to(k))
        PROVE  \E j \in Jobs : Wrote(j) /\ task[j].op = "dropChannel" /\ to(j) = to(k)
    <3>1. PICK p \in 1..Len(wrote) : task[wrote[p]].op = "dropChannel" /\ to(wrote[p]) = to(k)
      BY <2>1 DEF Gone
    <3>2. wrote[p] \in Jobs /\ Wrote(wrote[p])
      BY DEF AutoInv, AutoTypeOK, Wrote
    <3> QED
      BY <3>1, <3>2
  <2> QED
    BY <2>1 DEF AutoInv, NoticesInv, LogTellsDeliveries
<1> QED
  BY <1>1, AutoInvariance, PTL

(* A channel that a PATCH has switched off delivers nothing to requests of *)
(* /notifications/send that begin after it.                                *)
THEOREM Quiet == AutoSpec => []SwitchedOffIsQuiet
<1>1. AutoInv => SwitchedOffIsQuiet
  BY DEF AutoInv, AutoTypeOK, QuietInv, Heard, SwitchedOffIsQuiet
<1> QED
  BY <1>1, AutoInvariance, PTL

(* ON DELETE CASCADE, and the foreign keys of rules and log.               *)
THEOREM NoneDangles == AutoSpec => []NothingDangles
<1>1. AutoInv => NothingDangles
  BY DEF AutoInv, NoticesInv
<1> QED
  BY <1>1, AutoInvariance, PTL

(* create_schedule checks triggers, update_schedule does not.              *)
THEOREM TriggersArePatched == AutoSpec => []BadTriggersArePatched
<1>1. AutoInv => BadTriggersArePatched
  BY DEF AutoInv
<1> QED
  BY <1>1, AutoInvariance, PTL

(* The total of get_notification_stats never exceeds its parts.            *)
THEOREM TotalCovered == AutoSpec => []TotalIsCovered
<1>1. AutoInv => TotalIsCovered
  <2> SUFFICES ASSUME AutoInv, NEW k \in Jobs, stage[k] = "done", task[k].op = "stats", lapses = MaxLapses,
                      \A j \in Jobs : ~(Wrote(j) /\ Clears(j))
               PROVE  count[k].all <= count[k].sent + count[k].failed
    BY DEF TotalIsCovered
  <2>1. NoneCleared
    <3>1. \A p \in 1..Len(wrote) : wrote[p] \in Jobs /\ Wrote(wrote[p])
      BY DEF AutoInv, AutoTypeOK, Wrote
    <3> QED
      BY <3>1 DEF NoneCleared
  <2> QED
    BY <2>1 DEF AutoInv, CoveredInv, Covered
<1> QED
  BY <1>1, AutoInvariance, PTL
=============================================================================
