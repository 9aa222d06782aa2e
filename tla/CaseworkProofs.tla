--------------------------- MODULE CaseworkProofs ---------------------------
(***************************************************************************)
(* Theorems about cases, templates and progress, for any cases, calls,     *)
(* templates and bounds.                                                   *)
(***************************************************************************)
EXTENDS Casework, FiniteSetTheorems, TLAPS

IInv == TypeOK /\ CaseworkInv

(* The invariant holds before any call.                                    *)
LEMMA InitInvariant == Init => IInv
<1> SUFFICES ASSUME Init PROVE IInv
  OBVIOUS
<1> USE CallsAssumption, DataAssumption DEF Init
<1>1. TypeOK
  BY DEF TypeOK
<1>2. LinkInv
  BY DEF LinkInv, Auditing, About, LinkCalls
<1>3. ApplyInv
  <2>1. \A k \in Calls : Op[k] = "apply" => Len(ObsTypes[Template[k]]) \in Nat
    OBVIOUS
  <2> QED
    BY <2>1 DEF ApplyInv, Succeeded
<1>4. ProgressInv
  BY DEF ProgressInv
<1> QED
  BY <1>1, <1>2, <1>3, <1>4 DEF IInv, CaseworkInv

-----------------------------------------------------------------------------
(***************************************************************************)
(* Which steps there are.                                                  *)
(***************************************************************************)

Running == {k \in Calls : pc[k] \in InFlight}

(* The steps of the system, by call.                                       *)
LEMMA StepCases ==
  ASSUME [Next]_vars
  PROVE  \/ UNCHANGED vars
         \/ CreateTask \/ UpdateTask \/ DeleteTask
         \/ CreateObservable \/ DeleteObservable
         \/ \E calls \in SUBSET Running : Lose(calls)
         \/ \E k \in Calls :
              \/ Change(k) \/ ChangeFails(k) \/ Audit(k)
              \/ ReadTemplate(k) \/ ApplyTask(k) \/ ApplyObservable(k)
              \/ ApplyFails(k) \/ ApplyEnds(k)
              \/ CountTotal(k) \/ CountCompleted(k) \/ CountFails(k)
<1>1. ASSUME Crash PROVE \E calls \in SUBSET Running : Lose(calls)
  BY <1>1 DEF Crash, Running
<1>2. ASSUME NEW k \in Calls, HangUp(k) PROVE \E calls \in SUBSET Running : Lose(calls)
  BY <1>2 DEF HangUp, Running
<1> QED
  BY <1>1, <1>2 DEF Next, Handle, Rows

(* A placeholder of a template is a key of the table.                      *)
LEMMA PlaceholderType ==
  ASSUME NEW k \in Calls, NEW i \in 1..Len(ObsTypes[Template[k]])
  PROVE  Placeholder(k, i) \in Keys
<1>1. ObsTypes[Template[k]] \in Seq(Types)
  BY CallsAssumption, DataAssumption
<1>2. ObsTypes[Template[k]][i] \in Types
  BY <1>1
<1> QED
  BY <1>2, CallsAssumption DEF Placeholder, Keys

-----------------------------------------------------------------------------
(***************************************************************************)
(* The invariant, part by part.                                            *)
(***************************************************************************)

(* Every step keeps the types.                                             *)
LEMMA TypeStep ==
  ASSUME IInv, [Next]_vars
  PROVE  TypeOK'
<1> USE CallsAssumption, DataAssumption
    DEF IInv, TypeOK, InFlight, GoTo, Fault, taskRows, obsRows, caseRows, counts, progress
<1>1. CASE UNCHANGED vars
  BY <1>1 DEF vars
<1>2. CASE CreateTask
  BY <1>2 DEF CreateTask, InsertTask
<1>3. CASE UpdateTask
  BY <1>3 DEF UpdateTask, Existing
<1>4. CASE DeleteTask
  BY <1>4 DEF DeleteTask
<1>5. CASE CreateObservable
  BY <1>5 DEF CreateObservable, InsertObservable, Keys
<1>6. CASE DeleteObservable
  BY <1>6 DEF DeleteObservable
<1>7. ASSUME NEW calls \in SUBSET Running, Lose(calls) PROVE TypeOK'
  <2>1. Unaudited(calls) \in SUBSET Links
    BY DEF Unaudited, Link, Links, Running
  <2> QED
    BY <1>7, <2>1 DEF Lose
<1>8. ASSUME NEW k \in Calls, Change(k) PROVE TypeOK'
  <2>1. Link(k) \in Links
    BY DEF Link, Links
  <2>2. cases' \in SUBSET Cases
    BY <1>8 DEF Change
  <2>3. links' \in SUBSET Links
    BY <1>8, <2>1 DEF Change
  <2>4. blurred' \in SUBSET Links
    BY <1>8, <2>1 DEF Change
  <2> QED
    BY <1>8, <2>2, <2>3, <2>4 DEF Change
<1>9. ASSUME NEW k \in Calls, ChangeFails(k) PROVE TypeOK'
  BY <1>9 DEF ChangeFails, AfterError
<1>10. ASSUME NEW k \in Calls, Audit(k) PROVE TypeOK'
  <2>1. Link(k) \in Links
    BY DEF Link, Links
  <2>2. latest' \in [Links -> LinkOps \cup {"none"}]
    BY <1>10, <2>1 DEF Audit
  <2>3. blurred' \in SUBSET Links
    BY <1>10, <2>1 DEF Audit
  <2> QED
    BY <1>10, <2>2, <2>3 DEF Audit
<1>11. ASSUME NEW k \in Calls, ReadTemplate(k) \/ ApplyFails(k) \/ ApplyEnds(k) \/ CountFails(k)
       PROVE  TypeOK'
  <2>1. CASE ReadTemplate(k)
    BY <2>1 DEF ReadTemplate
  <2>2. CASE ApplyFails(k)
    BY <2>2 DEF ApplyFails
  <2>3. CASE ApplyEnds(k)
    BY <2>3 DEF ApplyEnds
  <2>4. CASE CountFails(k)
    BY <2>4 DEF CountFails
  <2> QED
    BY <1>11, <2>1, <2>2, <2>3, <2>4
<1>12. ASSUME NEW k \in Calls, ApplyTask(k) PROVE TypeOK'
  BY <1>12 DEF ApplyTask, InsertTask
<1>13. ASSUME NEW k \in Calls, ApplyObservable(k) PROVE TypeOK'
  <2>1. obsCount[k] + 1 \in 1..Len(ObsTypes[Template[k]])
    BY <1>13 DEF ApplyObservable
  <2>2. Placeholder(k, obsCount[k] + 1) \in Keys
    BY <2>1, PlaceholderType
  <2> QED
    BY <1>13, <2>2 DEF ApplyObservable, InsertObservable
<1>14. ASSUME NEW k \in Calls, CountTotal(k) PROVE TypeOK'
  BY <1>14 DEF CountTotal, Counted, TasksOf
<1>15. ASSUME NEW k \in Calls, CountCompleted(k) PROVE TypeOK'
  BY <1>15 DEF CountCompleted, TasksOf
<1> QED
  BY StepCases, <1>1, <1>2, <1>3, <1>4, <1>5, <1>6, <1>7, <1>8, <1>9, <1>10,
     <1>11, <1>12, <1>13, <1>14, <1>15

(* Every step keeps what a call of get_case_progress has seen ahead of     *)
(* what it is going to count.                                              *)
LEMMA ProgressStep ==
  ASSUME IInv, [Next]_vars
  PROVE  ProgressInv'
<1> USE DEF IInv, CaseworkInv, TypeOK, ProgressInv, TasksOf, GoTo, taskRows, progress
<1>1. CASE UNCHANGED vars
  BY <1>1 DEF vars
<1>2. ASSUME NEW c, InsertTask(c), UNCHANGED <<pc, total, completed>> PROVE ProgressInv'
  <2>1. PICK t \in TaskIds :
          /\ CaseOf[t] = c
          /\ tasks' = tasks \cup {t}
          /\ since' = [k \in Calls |->
                         IF pc[k] = "counted" /\ On[k] = c THEN since[k] \cup {t} ELSE since[k]]
    BY <1>2 DEF InsertTask
  <2> QED
    BY <1>2, <2>1
<1>3. CASE CreateTask
  BY <1>3, <1>2 DEF CreateTask
<1>4. CASE UpdateTask
  BY <1>4 DEF UpdateTask
<1>5. CASE DeleteTask
  BY <1>5 DEF DeleteTask
<1>6. CASE CreateObservable \/ DeleteObservable
  BY <1>6 DEF CreateObservable, DeleteObservable
<1>7. ASSUME NEW calls \in SUBSET Running, Lose(calls) PROVE ProgressInv'
  BY <1>7 DEF Lose, Running, InFlight
<1>8. ASSUME NEW k \in Calls, Change(k) \/ ChangeFails(k) \/ Audit(k) PROVE ProgressInv'
  BY <1>8 DEF Change, ChangeFails, AfterError, Audit
<1>9. ASSUME NEW k \in Calls, ReadTemplate(k) \/ ApplyObservable(k) \/ ApplyFails(k) \/ ApplyEnds(k)
      PROVE  ProgressInv'
  <2>1. CASE ReadTemplate(k)
    BY <2>1 DEF ReadTemplate
  <2>2. CASE ApplyObservable(k)
    BY <2>2 DEF ApplyObservable
  <2>3. CASE ApplyFails(k)
    BY <2>3 DEF ApplyFails, Refused
  <2>4. CASE ApplyEnds(k)
    BY <2>4 DEF ApplyEnds
  <2> QED
    BY <1>9, <2>1, <2>2, <2>3, <2>4
<1>10. ASSUME NEW k \in Calls, ApplyTask(k) PROVE ProgressInv'
  BY <1>10, <1>2 DEF ApplyTask
<1>11. ASSUME NEW k \in Calls, CountTotal(k) PROVE ProgressInv'
  BY <1>11 DEF CountTotal, Counted
<1>12. ASSUME NEW k \in Calls, CountCompleted(k) PROVE ProgressInv'
  BY <1>12 DEF CountCompleted
<1>13. ASSUME NEW k \in Calls, CountFails(k) PROVE ProgressInv'
  BY <1>13 DEF CountFails
<1> QED
  BY StepCases, <1>1, <1>3, <1>4, <1>5, <1>6, <1>7, <1>8, <1>9, <1>10,
     <1>11, <1>12, <1>13

-----------------------------------------------------------------------------
(* Steps that end a call or change other rows leave the calls on the way   *)
(* to their audit row, and what the links and the log say, alone.          *)
LEMMA LinkKept ==
  ASSUME IInv,
         links' = links, latest' = latest, blurred \subseteq blurred',
         \A l \in Links : l \notin blurred' => Auditing(l)' = Auditing(l)
  PROVE  LinkInv'
BY DEF IInv, CaseworkInv, LinkInv

(* A step of a call that is not on the way to its audit row, and does not  *)
(* get there.                                                              *)
LEMMA AuditingKept ==
  ASSUME TypeOK, NEW k \in Calls, NEW place,
         pc' = [pc EXCEPT ![k] = place], pc[k] # "audit", place # "audit"
  PROVE  \A l \in Links : Auditing(l)' = Auditing(l)
BY DEF TypeOK, Auditing, About, LinkCalls, Link

(* Every step keeps the log in line with the links.                        *)
LEMMA LinkStep ==
  ASSUME IInv, [Next]_vars
  PROVE  LinkInv'
<1> USE DEF IInv, caseRows
<1>1. ASSUME UNCHANGED <<links, latest, blurred, pc>> PROVE LinkInv'
  BY <1>1, LinkKept DEF Auditing, About, LinkCalls, Link
<1>2. CASE UNCHANGED vars
  BY <1>1, <1>2 DEF vars
<1>3. CASE CreateTask \/ UpdateTask \/ DeleteTask
  BY <1>1, <1>3 DEF CreateTask, UpdateTask, DeleteTask
<1>4. CASE CreateObservable \/ DeleteObservable
  BY <1>1, <1>4 DEF CreateObservable, DeleteObservable
<1>5. ASSUME NEW k \in Calls, ApplyTask(k) \/ ApplyObservable(k) PROVE LinkInv'
  BY <1>1, <1>5 DEF ApplyTask, ApplyObservable
<1>6. ASSUME NEW calls \in SUBSET Running, Lose(calls) PROVE LinkInv'
  <2>1. ASSUME NEW l \in Links, l \notin blurred', NEW k \in Auditing(l)
        PROVE  k \notin calls
    BY <1>6, <2>1 DEF Lose, Unaudited, Auditing, About, LinkCalls, Running
  <2>2. \A l \in Links : l \notin blurred' => Auditing(l)' = Auditing(l)
    BY <1>6, <2>1 DEF Lose, Auditing, About, LinkCalls, Link, TypeOK
  <2> QED
    BY <1>6, <2>2, LinkKept DEF Lose
<1>7. ASSUME NEW k \in Calls, NEW place,
             pc' = [pc EXCEPT ![k] = place], pc[k] # "audit", place # "audit",
             UNCHANGED <<links, latest, blurred>>
      PROVE  LinkInv'
  BY <1>7, AuditingKept, LinkKept
<1>8. ASSUME NEW k \in Calls, ChangeFails(k) PROVE LinkInv'
  BY <1>7, <1>8 DEF ChangeFails, AfterError, GoTo
<1>9. ASSUME NEW k \in Calls, ReadTemplate(k) PROVE LinkInv'
  BY <1>7, <1>9 DEF ReadTemplate, GoTo
<1>10. ASSUME NEW k \in Calls, ApplyFails(k) PROVE LinkInv'
  BY <1>7, <1>10 DEF ApplyFails, Refused, GoTo
<1>11. ASSUME NEW k \in Calls, ApplyEnds(k) PROVE LinkInv'
  BY <1>7, <1>11 DEF ApplyEnds, GoTo
<1>12. ASSUME NEW k \in Calls, CountTotal(k) \/ CountCompleted(k) PROVE LinkInv'
  BY <1>7, <1>12 DEF CountTotal, CountCompleted, GoTo
<1>13. ASSUME NEW k \in Calls, CountFails(k) PROVE LinkInv'
  BY <1>7, <1>13 DEF CountFails, GoTo
<1>14. ASSUME NEW k \in Calls, Change(k) PROVE LinkInv'
  <2>1. pc' = [pc EXCEPT ![k] = "audit"] /\ pc[k] = "idle" /\ latest' = latest
    BY <1>14 DEF Change, GoTo
  <2>2. CASE Op[k] \notin LinkOps
    <3>1. UNCHANGED <<links, blurred>>
      BY <1>14, <2>2 DEF Change, LinkOps
    <3>2. \A l \in Links : Auditing(l)' = Auditing(l)
      BY <2>1, <2>2 DEF Auditing, About, LinkCalls, Link, TypeOK
    <3> QED
      BY <2>1, <3>1, <3>2, LinkKept
  <2>3. CASE Op[k] \in LinkOps
    <3> SUFFICES ASSUME NEW l \in Links, l \notin blurred'
                 PROVE  /\ \A j, n \in Auditing(l)' : j = n
                        /\ \A n \in Auditing(l)' : Op[n] = "attach" <=> l \in links'
                        /\ Auditing(l)' = {} => (latest'[l] = "attach" <=> l \in links')
      BY DEF LinkInv
    <3>1. CASE l # Link(k)
      <4>1. Auditing(l)' = Auditing(l)
        BY <2>1, <3>1 DEF Auditing, About, LinkCalls, Link, TypeOK
      <4>2. l \notin blurred /\ (l \in links' <=> l \in links)
        BY <1>14, <3>1 DEF Change
      <4> QED
        BY <2>1, <4>1, <4>2 DEF CaseworkInv, LinkInv
    <3>2. CASE l = Link(k)
      <4>1. Auditing(l) = {}
        BY <1>14, <2>3, <3>2 DEF Change
      <4>2. Auditing(l)' = {k}
        BY <2>1, <2>3, <3>2, <4>1 DEF Auditing, About, LinkCalls, Link, TypeOK
      <4>3. Op[k] = "attach" <=> l \in links'
        BY <1>14, <2>3, <3>2 DEF Change, LinkOps
      <4> QED
        BY <4>2, <4>3
    <3> QED
      BY <3>1, <3>2
  <2> QED
    BY <2>2, <2>3
<1>15. ASSUME NEW k \in Calls, Audit(k) PROVE LinkInv'
  <2>1. pc' = [pc EXCEPT ![k] = "ok"] /\ pc[k] = "audit" /\ links' = links
    BY <1>15 DEF Audit, GoTo
  <2>2. blurred \subseteq blurred'
    BY <1>15 DEF Audit
  <2>3. CASE Op[k] \notin LinkOps
    <3>1. UNCHANGED latest
      BY <1>15, <2>3 DEF Audit
    <3>2. \A l \in Links : Auditing(l)' = Auditing(l)
      BY <2>1, <2>3 DEF Auditing, About, LinkCalls, Link, TypeOK
    <3> QED
      BY <2>1, <2>2, <3>1, <3>2, LinkKept
  <2>4. CASE Op[k] \in LinkOps
    <3> SUFFICES ASSUME NEW l \in Links, l \notin blurred'
                 PROVE  /\ \A j, n \in Auditing(l)' : j = n
                        /\ \A n \in Auditing(l)' : Op[n] = "attach" <=> l \in links'
                        /\ Auditing(l)' = {} => (latest'[l] = "attach" <=> l \in links')
      BY DEF LinkInv
    <3>1. CASE l # Link(k)
      <4>1. Auditing(l)' = Auditing(l)
        BY <2>1, <3>1 DEF Auditing, About, LinkCalls, Link, TypeOK
      <4>2. latest'[l] = latest[l]
        BY <1>15, <3>1 DEF Audit, TypeOK
      <4> QED
        BY <2>1, <2>2, <4>1, <4>2 DEF CaseworkInv, LinkInv
    <3>2. CASE l = Link(k)
      <4>1. k \in Auditing(l)
        BY <2>1, <2>4, <3>2 DEF Auditing, About, LinkCalls
      <4>2. Auditing(l)' = {}
        <5>1. Auditing(l) = {k}
          BY <2>2, <4>1 DEF CaseworkInv, LinkInv
        <5> QED
          BY <2>1, <5>1 DEF Auditing, About, LinkCalls, Link, TypeOK
      <4>3. latest'[l] = Op[k]
        BY <1>15, <2>4, <3>2 DEF Audit, TypeOK
      <4>4. Op[k] = "attach" <=> l \in links
        BY <2>2, <4>1 DEF CaseworkInv, LinkInv
      <4> QED
        BY <2>1, <4>2, <4>3, <4>4
    <3> QED
      BY <3>1, <3>2
  <2> QED
    BY <2>3, <2>4
<1> QED
  BY StepCases, <1>2, <1>3, <1>4, <1>5, <1>6, <1>8, <1>9, <1>10, <1>11, <1>12,
     <1>13, <1>14, <1>15

-----------------------------------------------------------------------------
(* A key of an observable that was seen once is there or was deleted.      *)
Known == observables \cup deleted

(* What call k inserted is known.                                          *)
InsertedKnown(k) == \A i \in 1..obsCount[k] : Placeholder(k, i) \in Known

(* What k and j both inserted was deleted in between.                      *)
Exclusive(k, j) ==
  \A i \in 1..obsCount[k] : \A n \in 1..obsCount[j] :
    Placeholder(j, n) = Placeholder(k, i) => Placeholder(k, i) \in deleted

(* How far call k is.                                                      *)
StageOf(k) ==
  /\ Op[k] = "apply" => obsCount[k] <= Len(ObsTypes[Template[k]])
  /\ Succeeded(k) => obsCount[k] = Len(ObsTypes[Template[k]])
  /\ pc[k] = "insert" => Op[k] = "apply"
  /\ pc[k] \in {"audit", "counted"} => Op[k] # "apply"
  /\ Op[k] # "apply" => obsCount[k] = 0

(* The invariant of applications in these terms.                           *)
LEMMA ApplyParts ==
  ApplyInv <=> \A k \in Calls :
                 /\ StageOf(k)
                 /\ InsertedKnown(k)
                 /\ \A j \in Calls \ {k} : Exclusive(k, j)
BY DEF ApplyInv, StageOf, InsertedKnown, Exclusive, Known

(* A step that inserts no placeholder and forgets no deletion keeps what   *)
(* calls inserted known and exclusive.                                     *)
LEMMA RowsKept ==
  ASSUME ApplyInv, obsCount' = obsCount, Known \subseteq Known', deleted \subseteq deleted',
         \A k \in Calls : StageOf(k)'
  PROVE  ApplyInv'
<1>1. \A k \in Calls : InsertedKnown(k)'
  BY ApplyParts DEF InsertedKnown, Placeholder
<1>2. \A k \in Calls : \A j \in Calls \ {k} : Exclusive(k, j)'
  BY ApplyParts DEF Exclusive, Placeholder
<1>3. \A k \in Calls : /\ StageOf(k)'
                       /\ InsertedKnown(k)'
                       /\ \A j \in Calls \ {k} : Exclusive(k, j)'
  BY <1>1, <1>2
<1> QED
  BY <1>3 DEF ApplyInv, StageOf, InsertedKnown, Exclusive, Known

(* Every step keeps applications whole and exclusive.                      *)
LEMMA ApplyStep ==
  ASSUME IInv, [Next]_vars
  PROVE  ApplyInv'
<1> USE DEF IInv, CaseworkInv, obsRows, counts
<1>1. \A k \in Calls : StageOf(k) /\ InsertedKnown(k)
  BY ApplyParts
<1>2. ASSUME UNCHANGED <<pc, obsCount, observables, deleted>> PROVE ApplyInv'
  <2>1. \A k \in Calls : StageOf(k)'
    BY <1>1, <1>2 DEF StageOf, Succeeded
  <2> QED
    BY <1>2, <2>1, RowsKept DEF Known
<1>3. CASE UNCHANGED vars
  BY <1>2, <1>3 DEF vars
<1>4. CASE CreateTask \/ UpdateTask \/ DeleteTask
  BY <1>2, <1>4 DEF CreateTask, UpdateTask, DeleteTask
<1>5. CASE CreateObservable \/ DeleteObservable
  <2>1. UNCHANGED <<pc, obsCount>> /\ Known \subseteq Known' /\ deleted \subseteq deleted'
    BY <1>5 DEF CreateObservable, DeleteObservable, InsertObservable, Known
  <2>2. \A k \in Calls : StageOf(k)'
    BY <1>1, <2>1 DEF StageOf, Succeeded
  <2> QED
    BY <2>1, <2>2, RowsKept
<1>6. ASSUME NEW k \in Calls, ApplyTask(k) PROVE ApplyInv'
  BY <1>2, <1>6 DEF ApplyTask
<1>7. ASSUME NEW calls \in SUBSET Running, Lose(calls) PROVE ApplyInv'
  <2>1. UNCHANGED <<obsCount, observables, deleted>>
    BY <1>7 DEF Lose
  <2>2. \A k \in Calls : pc'[k] \in {"gone", pc[k]}
    BY <1>7 DEF Lose
  <2>3. \A k \in Calls : StageOf(k)'
    BY <1>1, <2>1, <2>2 DEF StageOf, Succeeded
  <2> QED
    BY <2>1, <2>3, RowsKept DEF Known
<1>8. ASSUME NEW k \in Calls, NEW place,
             pc' = [pc EXCEPT ![k] = place],
             UNCHANGED <<obsCount, observables, deleted>>,
             place = "insert" => Op[k] = "apply",
             place \in {"audit", "counted"} => Op[k] # "apply",
             place = "ok" /\ Op[k] = "apply" => obsCount[k] = Len(ObsTypes[Template[k]])
      PROVE  ApplyInv'
  <2>1. \A j \in Calls : StageOf(j)'
    BY <1>1, <1>8 DEF StageOf, Succeeded, TypeOK
  <2> QED
    BY <1>8, <2>1, RowsKept DEF Known
<1>9. ASSUME NEW k \in Calls, Change(k) PROVE ApplyInv'
  BY <1>8, <1>9 DEF Change, CaseOps, LinkOps, GoTo
<1>10. ASSUME NEW k \in Calls, ChangeFails(k) PROVE ApplyInv'
  BY <1>8, <1>10 DEF ChangeFails, AfterError, GoTo
<1>11. ASSUME NEW k \in Calls, Audit(k) PROVE ApplyInv'
  BY <1>1, <1>8, <1>11 DEF Audit, StageOf, GoTo
<1>12. ASSUME NEW k \in Calls, ReadTemplate(k) PROVE ApplyInv'
  BY <1>8, <1>12 DEF ReadTemplate, GoTo
<1>13. ASSUME NEW k \in Calls, ApplyFails(k) PROVE ApplyInv'
  BY <1>8, <1>13 DEF ApplyFails, GoTo
<1>14. ASSUME NEW k \in Calls, ApplyEnds(k) PROVE ApplyInv'
  BY <1>8, <1>14 DEF ApplyEnds, Applied, GoTo
<1>15. ASSUME NEW k \in Calls, CountTotal(k) PROVE ApplyInv'
  BY <1>8, <1>15 DEF CountTotal, GoTo
<1>16. ASSUME NEW k \in Calls, CountCompleted(k) PROVE ApplyInv'
  BY <1>1, <1>8, <1>16 DEF CountCompleted, StageOf, GoTo
<1>17. ASSUME NEW k \in Calls, CountFails(k) PROVE ApplyInv'
  BY <1>8, <1>17 DEF CountFails, GoTo
<1>18. ASSUME NEW k \in Calls, ApplyObservable(k) PROVE ApplyInv'
  <2> DEFINE key == Placeholder(k, obsCount[k] + 1)
  <2>1. /\ pc[k] = "insert" /\ pc' = pc /\ deleted' = deleted
        /\ obsCount[k] < Len(ObsTypes[Template[k]])
        /\ obsCount' = [obsCount EXCEPT ![k] = obsCount[k] + 1]
        /\ key \notin observables
        /\ observables' = observables \cup {key}
    BY <1>18 DEF ApplyObservable, InsertObservable, Accepts
  <2>2. \A j \in Calls : obsCount[j] \in Nat
    BY DEF TypeOK
  <2>3. \A j \in Calls : obsCount'[j] = IF j = k THEN obsCount[k] + 1 ELSE obsCount[j]
    BY <2>1 DEF TypeOK
  <2>4. Op[k] = "apply" /\ Len(ObsTypes[Template[k]]) \in Nat
    BY <1>1, <2>1, CallsAssumption, DataAssumption DEF StageOf
  <2>5. \A j \in Calls : StageOf(j)'
    <3>1. StageOf(k)'
      BY <2>1, <2>2, <2>3, <2>4 DEF StageOf, Succeeded
    <3>2. \A j \in Calls \ {k} : StageOf(j)'
      BY <1>1, <2>1, <2>3 DEF StageOf, Succeeded
    <3> QED
      BY <3>1, <3>2
  <2>6. \A j \in Calls : \A i \in 1..obsCount'[j] :
          i \in 1..obsCount[j] \/ (j = k /\ i = obsCount[k] + 1)
    BY <2>2, <2>3
  <2>7. \A j \in Calls : \A i : Placeholder(j, i)' = Placeholder(j, i)
    BY DEF Placeholder
  <2>8. key \in Known' /\ Known \subseteq Known'
    BY <2>1 DEF Known
  <2>9. \A j \in Calls : InsertedKnown(j)'
    <3> SUFFICES ASSUME NEW j \in Calls, NEW i \in 1..obsCount'[j]
                 PROVE  Placeholder(j, i) \in Known'
      BY <2>7 DEF InsertedKnown
    <3>1. CASE i \in 1..obsCount[j]
      BY <1>1, <2>8, <3>1 DEF InsertedKnown
    <3>2. CASE j = k /\ i = obsCount[k] + 1
      BY <2>8, <3>2
    <3> QED
      BY <2>6, <3>1, <3>2
  <2>10. \A j \in Calls : \A i \in 1..obsCount[j] : Placeholder(j, i) = key => key \in deleted
    BY <1>1, <2>1 DEF InsertedKnown, Known
  <2>11. ASSUME NEW g \in Calls, NEW j \in Calls \ {g} PROVE Exclusive(g, j)'
    <3> SUFFICES ASSUME NEW i \in 1..obsCount'[g], NEW n \in 1..obsCount'[j],
                        Placeholder(j, n) = Placeholder(g, i)
                 PROVE  Placeholder(g, i) \in deleted
      BY <2>1, <2>7 DEF Exclusive
    <3>1. CASE i \in 1..obsCount[g] /\ n \in 1..obsCount[j]
      BY <3>1, ApplyParts DEF Exclusive
    <3>2. CASE g = k /\ i = obsCount[k] + 1
      <4>1. n \in 1..obsCount[j]
        BY <2>6, <3>2
      <4> QED
        BY <2>10, <3>2, <4>1
    <3>3. CASE j = k /\ n = obsCount[k] + 1
      <4>1. i \in 1..obsCount[g]
        BY <2>6, <3>3
      <4> QED
        BY <2>10, <3>3, <4>1
    <3> QED
      BY <2>6, <3>1, <3>2, <3>3
  <2> QED
    BY <2>5, <2>9, <2>11 DEF ApplyInv, StageOf, InsertedKnown, Exclusive, Known
<1> QED
  BY StepCases, <1>3, <1>4, <1>5, <1>6, <1>7, <1>9, <1>10, <1>11, <1>12, <1>13,
     <1>14, <1>15, <1>16, <1>17, <1>18

-----------------------------------------------------------------------------
(***************************************************************************)
(* The theorems.                                                           *)
(***************************************************************************)

(* IInv is inductive.                                                      *)
LEMMA Inductive == IInv /\ [Next]_vars => IInv'
BY TypeStep, ProgressStep, LinkStep, ApplyStep DEF IInv, CaseworkInv

(* Every reachable state of casework (routes/cases.rs, incidents.rs)       *)
(* satisfies the inductive invariant.                                      *)
THEOREM Invariance == Spec => []CaseworkInv
<1>1. IInv => CaseworkInv
  BY DEF IInv
<1> QED
  BY InitInvariant, Inductive, <1>1, PTL DEF Spec

(* Every reachable state is well typed; done and stamped are columns of    *)
(* rows that exist, and a completed task has a time of completion.         *)
THEOREM TypeCorrect == Spec => []TypeOK
<1>1. IInv => TypeOK
  BY DEF IInv
<1> QED
  BY InitInvariant, Inductive, <1>1, PTL DEF Spec

(* A template applied with success is on the case as a whole.              *)
THEOREM TemplateWhole == Spec => []AppliedWhole
<1>1. IInv => AppliedWhole
  BY DEF IInv, CaseworkInv, ApplyInv, AppliedWhole
<1> QED
  BY InitInvariant, Inductive, <1>1, PTL DEF Spec

(* No two applications succeed with one placeholder, unless it was deleted *)
(* in between.                                                             *)
THEOREM TemplateOnce == Spec => []AppliedOnce
<1>1. IInv => AppliedOnce
  BY DEF IInv, CaseworkInv, ApplyInv, AppliedOnce
<1> QED
  BY InitInvariant, Inductive, <1>1, PTL DEF Spec

(* A report of progress exceeds its total by no more than the tasks that   *)
(* were created while it was made.                                         *)
THEOREM ProgressIsBounded == Spec => []ProgressBounded
<1>1. ASSUME IInv, NEW k \in Calls
      PROVE  Cardinality(completed[k]) <= Cardinality(total[k]) + Cardinality(since[k])
  <2>1. total[k] \subseteq TaskIds /\ since[k] \subseteq TaskIds
    BY <1>1 DEF IInv, TypeOK
  <2>2. IsFiniteSet(total[k]) /\ IsFiniteSet(since[k])
    BY <2>1, FS_Subset, DataAssumption
  <2>3. /\ IsFiniteSet(total[k] \cup since[k])
        /\ Cardinality(total[k] \cup since[k]) =
             Cardinality(total[k]) + Cardinality(since[k]) - Cardinality(total[k] \cap since[k])
    BY <2>2, FS_Union
  <2>4. IsFiniteSet(total[k] \cap since[k])
    BY <2>2, FS_Subset
  <2>5. completed[k] \subseteq total[k] \cup since[k]
    BY <1>1 DEF IInv, CaseworkInv, ProgressInv
  <2>6. IsFiniteSet(completed[k]) /\ Cardinality(completed[k]) <= Cardinality(total[k] \cup since[k])
    BY <2>3, <2>5, FS_Subset
  <2>7. /\ Cardinality(total[k]) \in Nat /\ Cardinality(since[k]) \in Nat
        /\ Cardinality(total[k] \cap since[k]) \in Nat /\ Cardinality(completed[k]) \in Nat
    BY <2>2, <2>4, <2>6, FS_CardinalityType
  <2> QED
    BY <2>3, <2>6, <2>7
<1>2. IInv => ProgressBounded
  BY <1>1 DEF ProgressBounded
<1> QED
  BY InitInvariant, Inductive, <1>2, PTL DEF Spec

(* The last row of the audit log about a link tells whether it is there.   *)
THEOREM LogTellsLinks == Spec => []AuditTellsLinks
<1>1. IInv => AuditTellsLinks
  BY DEF IInv, CaseworkInv, LinkInv, AuditTellsLinks
<1> QED
  BY InitInvariant, Inductive, <1>1, PTL DEF Spec
=============================================================================
