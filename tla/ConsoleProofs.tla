---------------------------- MODULE ConsoleProofs ----------------------------
(***************************************************************************)
(* Theorems about the Velociraptor console, for any calls, endpoints,      *)
(* number of turns and cap on rows.                                        *)
(*                                                                         *)
(* The argument is per call.  Until a call has its answer, nothing it was  *)
(* shown is kept back: the entries it has counted hold no message, and a   *)
(* flow it saw finished is finished and changes no more.  Once it has one, *)
(* nobody watches its flow.                                                *)
(*                                                                         *)
(* What its parameter becomes is shown for every text, by induction: a     *)
(* fold takes one step for one character more, and a set of texts that     *)
(* holds the empty one and, with a text, every longer one is all of them.  *)
(***************************************************************************)
EXTENDS Console, FiniteSetTheorems, SequenceTheorems, WellFoundedInduction, TLAPS

Starting == {"idle", "server", "check", "send"}
Looping  == {"poll", "results", "logs"}
Open     == Starting \cup {"sent"} \cup Looping

(* Where a call is, and what there is of its flow then.                    *)
Placed(k) ==
  /\ pc[k] \in Open => answer[k] = "none" /\ k \notin shown
  /\ pc[k] = "server" => op[k] \in Lists \cup {"server"}
  /\ pc[k] \in {"check", "send", "sent"} \cup Looping => op[k] = "collect"
  /\ pc[k] = "close" => op[k] \in Queries
  /\ pc[k] \in Starting \cup {"refused"} => wire[k] = "none"
  /\ wire[k] # "none" => op[k] = "collect"
  /\ pc[k] \in Looping => wire[k] = "taken"
  /\ flow[k] # "none" => wire[k] = "taken"
  /\ seen[k] = "finished" => flow[k] = "finished"

(* What a call in its loop has passed over.                                *)
PassedOver(k) ==
  /\ pc[k] \in Open =>
       counted[k] <= Len(logs[k]) /\ \A i \in 1..counted[k] : ~logs[k][i]
  /\ pc[k] = "logs" /\ seen[k] = "finished" => k \in blind

(* What it has answered, against its flow.                                 *)
LogMessages(k) == {i \in 1..Len(logs[k]) : logs[k][i]}

Answered(k) ==
  /\ answer[k] = "rows" =>
       /\ op[k] = "collect" =>
            /\ got[k] <= rows[k]
            /\ got[k] < Cap => (seen[k] # "finished" /\ got[k] > 0) \/ got[k] = rows[k]
       /\ op[k] # "collect" => (got[k] < Cap => got[k] = held[k])
  /\ answer[k] = "output" => op[k] = "collect" /\ got[k] <= Cardinality(LogMessages(k))
  /\ answer[k] \in {"rows", "output"} /\ op[k] = "collect" /\ got[k] = 0 =>
       seen[k] = "finished" /\ (rows[k] = 0 \/ k \in blind)
  /\ k \in shown /\ pc[k] \in {"close", "end"} => answer[k] \in {"rows", "output"} /\ got[k] > 0

(* What the audit log holds of it.                                         *)
Recorded(k) ==
  k \notin unlogged /\ op[k] \in Queries =>
    /\ pc[k] \notin {"idle", "refused"} => k \in started
    /\ pc[k] = "end" => k \in closed

Sound(k) == Placed(k) /\ PassedOver(k) /\ Answered(k) /\ Recorded(k)

IInv == TypeOK /\ \A k \in Calls : Sound(k)

-----------------------------------------------------------------------------
(***************************************************************************)
(* Before any call.                                                        *)
(***************************************************************************)

(* The invariant holds before any call.                                    *)
LEMMA InitInvariant == Init => IInv
<1> SUFFICES ASSUME Init PROVE IInv
  OBVIOUS
<1> USE CallsAssumption, ParametersAssumption DEF Init, Flows
<1>1. TypeOK
  <2>1. op \in [Calls -> Lists \cup Queries \cup {"malformed"}]
    OBVIOUS
  <2> QED
    BY <2>1 DEF TypeOK, InFlight, Ended
<1>2. ASSUME NEW k \in Calls PROVE Sound(k)
  <2>1. Placed(k)
    BY <1>2 DEF Placed, Open, Starting, Looping
  <2>2. PassedOver(k)
    BY <1>2 DEF PassedOver
  <2>3. Answered(k) /\ Recorded(k)
    BY <1>2 DEF Answered, Recorded
  <2> QED
    BY <2>1, <2>2, <2>3 DEF Sound
<1> QED
  BY <1>1, <1>2 DEF IInv

-----------------------------------------------------------------------------
(***************************************************************************)
(* Types.                                                                  *)
(***************************************************************************)

(* A capped number of rows is a number of rows.                            *)
LEMMA CappedType ==
  ASSUME NEW n \in Nat
  PROVE  /\ Capped(n) \in Nat /\ Capped(n) <= n
         /\ Capped(n) < Cap => Capped(n) = n
         /\ n > 0 => Capped(n) > 0
BY ParametersAssumption DEF Capped

(* The messages of a log are counted.                                      *)
LEMMA MessagesType ==
  ASSUME NEW s \in Seq(BOOLEAN), NEW n \in Nat, n <= Len(s)
  PROVE  /\ Cardinality({i \in 1..n : s[i]}) \in Nat
         /\ Cardinality({i \in 1..n : s[i]}) <= Cardinality({i \in 1..Len(s) : s[i]})
         /\ Cardinality({i \in 1..n : s[i]}) = 0 <=> \A i \in 1..n : ~s[i]
<1> DEFINE few == {i \in 1..n : s[i]}
           all == {i \in 1..Len(s) : s[i]}
<1>1. IsFiniteSet(1..Len(s))
  BY FS_Interval
<1>2. all \subseteq 1..Len(s) /\ few \subseteq all
  OBVIOUS
<1>3. IsFiniteSet(all)
  BY <1>1, <1>2, FS_Subset
<1>4. IsFiniteSet(few) /\ Cardinality(few) <= Cardinality(all)
  BY <1>2, <1>3, FS_Subset
<1>5. Cardinality(few) \in Nat
  BY <1>4, FS_CardinalityType
<1>6. Cardinality(few) = 0 <=> few = {}
  BY <1>4, FS_EmptySet
<1>7. few = {} <=> \A i \in 1..n : ~s[i]
  OBVIOUS
<1> QED
  BY <1>4, <1>5, <1>6, <1>7

(* The entries a poll gets, and the messages among them.                   *)
LEMMA EntriesType ==
  ASSUME TypeOK, NEW k \in Calls
  PROVE  /\ Len(Entries(k)) = Capped(Len(logs[k]))
         /\ Entries(k) \in Seq(BOOLEAN) /\ Len(Entries(k)) \in Nat
         /\ Messages(k) \in Nat /\ Messages(k) <= Cardinality(LogMessages(k))
         /\ Messages(k) = 0 <=> \A i \in 1..Len(Entries(k)) : ~logs[k][i]
<1>1. logs[k] \in Seq(BOOLEAN)
  BY DEF TypeOK, Flows
<1> DEFINE n == Capped(Len(logs[k]))
<1>2. n \in Nat /\ n <= Len(logs[k])
  BY <1>1, CappedType
<1>3. Entries(k) = SubSeq(logs[k], 1, n)
  BY DEF Entries, FlowOf
<1>4. /\ Entries(k) \in Seq(BOOLEAN) /\ Len(Entries(k)) = n
      /\ \A i \in 1..n : Entries(k)[i] = logs[k][i]
  <2> HIDE DEF n
  <2> QED
    BY <1>1, <1>2, <1>3
<1>5. Messages(k) = Cardinality({i \in 1..n : logs[k][i]})
  <2>1. {i \in 1..Len(Entries(k)) : Entries(k)[i]} = {i \in 1..n : logs[k][i]}
    BY <1>4
  <2> QED
    BY <2>1 DEF Messages
<1> HIDE DEF n
<1> QED
  BY <1>1, <1>2, <1>4, <1>5, MessagesType DEF LogMessages, n

(* An answer of the type keeps it.                                         *)
LEMMA AnswerType ==
  ASSUME TypeOK, NEW k \in Calls, NEW what \in {"rows", "output", "error"},
         NEW n \in Nat, NEW m \in Nat, Answer(k, what, n, m)
  PROVE  /\ pc' \in [Calls -> InFlight \cup Ended \cup {"idle"}]
         /\ answer' \in [Calls -> {"none", "rows", "output", "error"}]
         /\ got' \in [Calls -> Nat] /\ held' \in [Calls -> Nat]
<1>1. pc' = [pc EXCEPT ![k] = IF op[k] \in Lists THEN "end" ELSE "close"]
  BY DEF Answer, GoTo
<1>2. pc' \in [Calls -> InFlight \cup Ended \cup {"idle"}]
  BY <1>1 DEF TypeOK, InFlight, Ended
<1> QED
  BY <1>2 DEF TypeOK, Answer

(* So does a move from a place to the next.                                *)
LEMMA MoveType ==
  ASSUME TypeOK, NEW k \in Calls, NEW place \in InFlight \cup Ended \cup {"idle"}, GoTo(k, place)
  PROVE  pc' \in [Calls -> InFlight \cup Ended \cup {"idle"}]
BY DEF TypeOK, GoTo

(* Every step is of the type.                                              *)
LEMMA TypeStep == TypeOK /\ [Next]_vars => TypeOK'
<1> SUFFICES ASSUME TypeOK, [Next]_vars PROVE TypeOK'
  OBVIOUS
<1> USE CallsAssumption, ParametersAssumption DEF loop, outcome, endpoint, record, past, request
<1>1. CASE UNCHANGED vars
  BY <1>1 DEF vars, TypeOK
<1>2. ASSUME NEW k \in Calls, Refuse(k) PROVE TypeOK'
  <2>1. pc' \in [Calls -> InFlight \cup Ended \cup {"idle"}]
    BY <1>2, MoveType DEF Refuse, Ended
  <2> QED
    BY <1>2, <2>1 DEF Refuse, TypeOK
<1>3. ASSUME NEW k \in Calls, Begin(k) PROVE TypeOK'
  <2>1. pc' \in [Calls -> InFlight \cup Ended \cup {"idle"}]
    BY <1>3, MoveType DEF Begin, FirstPlace, InFlight
  <2>2. started' \in SUBSET Calls /\ faults' \in 0..MaxFaults /\ unlogged' \in SUBSET Calls
    BY <1>3 DEF Begin, Audited, Audit, TypeOK
  <2> QED
    BY <1>3, <2>1, <2>2 DEF Begin, TypeOK
<1>4. ASSUME NEW k \in Calls, Close(k) PROVE TypeOK'
  <2>1. pc' \in [Calls -> InFlight \cup Ended \cup {"idle"}]
    BY <1>4, MoveType DEF Close, Ended
  <2>2. closed' \in SUBSET Calls /\ faults' \in 0..MaxFaults /\ unlogged' \in SUBSET Calls
    BY <1>4 DEF Close, Audit, TypeOK
  <2> QED
    BY <1>4, <2>1, <2>2 DEF Close, TypeOK
<1>5. ASSUME NEW k \in Calls, AskServer(k) PROVE TypeOK'
  <2>1. PICK what \in {"rows", "error"}, n \in Nat, m \in Nat : Answer(k, what, n, m)
    BY <1>5, CappedType DEF AskServer
  <2> QED
    <3>1. UNCHANGED <<request, loop, endpoint, record, past>>
      BY <1>5 DEF AskServer
    <3>2. what \in {"rows", "output", "error"}
      OBVIOUS
    <3>3. /\ pc' \in [Calls -> InFlight \cup Ended \cup {"idle"}]
          /\ answer' \in [Calls -> {"none", "rows", "output", "error"}]
          /\ got' \in [Calls -> Nat] /\ held' \in [Calls -> Nat]
      BY <2>1, <3>2, AnswerType
    <3> QED
      BY <3>1, <3>3 DEF TypeOK
<1>6. ASSUME NEW k \in Calls, CheckClient(k) PROVE TypeOK'
  <2>1. CASE Answer(k, "error", 0, 0)
    BY <1>6, <2>1, AnswerType DEF CheckClient, TypeOK
  <2>2. CASE GoTo(k, "send") /\ UNCHANGED outcome
    <3>1. pc' \in [Calls -> InFlight \cup Ended \cup {"idle"}]
      BY <2>2, MoveType DEF InFlight
    <3> QED
      BY <1>6, <2>2, <3>1 DEF CheckClient, TypeOK
  <2> QED
    BY <1>6, <2>1, <2>2 DEF CheckClient
<1>7. ASSUME NEW k \in Calls, Dispatch(k) PROVE TypeOK'
  <2>1. pc' \in [Calls -> InFlight \cup Ended \cup {"idle"}]
    BY <1>7, MoveType DEF Dispatch, InFlight
  <2> QED
    BY <1>7, <2>1 DEF Dispatch, TypeOK
<1>8. ASSUME NEW k \in Calls, Dispatched(k) PROVE TypeOK'
  <2>1. pc' \in [Calls -> InFlight \cup Ended \cup {"idle"}]
    BY <1>8, MoveType DEF Dispatched, InFlight
  <2> QED
    BY <1>8, <2>1 DEF Dispatched, TypeOK
<1>9. ASSUME NEW k \in Calls, DispatchFails(k) \/ GiveUp(k) PROVE TypeOK'
  BY <1>9, AnswerType DEF DispatchFails, GiveUp, TypeOK
<1>10. ASSUME NEW k \in Calls, PollState(k) PROVE TypeOK'
  <2>1. polls' \in [Calls -> 0..Polls] /\ blind' \in SUBSET Calls
    BY <1>10 DEF PollState, TurnsLeft, TypeOK
  <2>2. seen' \in [Calls -> {"none", "running", "finished"}]
    <3>1. flow[k] \in {"none", "running", "finished", "error"}
      BY DEF TypeOK, Flows
    <3> QED
      BY <1>10, <3>1 DEF PollState, FlowOf, TypeOK
  <2>3. CASE GoTo(k, "results") /\ UNCHANGED outcome
    <3>1. pc' \in [Calls -> InFlight \cup Ended \cup {"idle"}]
      BY <2>3, MoveType DEF InFlight
    <3> QED
      BY <1>10, <2>1, <2>2, <2>3, <3>1 DEF PollState, TypeOK
  <2>4. CASE Answer(k, "error", 0, 0)
    BY <1>10, <2>1, <2>2, <2>4, AnswerType DEF PollState, TypeOK
  <2> QED
    BY <1>10, <2>3, <2>4 DEF PollState
<1>11. ASSUME NEW k \in Calls, PollResults(k) PROVE TypeOK'
  <2>1. rows[FlowOf(k)] \in Nat
    BY DEF FlowOf, TypeOK, Flows
  <2>2. shown' \in SUBSET Calls
    BY <1>11 DEF PollResults, TypeOK
  <2>3. CASE \E n \in Nat : Answer(k, "rows", Capped(n), n)
    BY <1>11, <2>2, <2>3, AnswerType, CappedType DEF PollResults, TypeOK
  <2>4. CASE GoTo(k, "logs") /\ UNCHANGED outcome
    <3>1. pc' \in [Calls -> InFlight \cup Ended \cup {"idle"}]
      BY <2>4, MoveType DEF InFlight
    <3> QED
      BY <1>11, <2>2, <2>4, <3>1 DEF PollResults, TypeOK
  <2> QED
    BY <1>11, <2>1, <2>3, <2>4 DEF PollResults
<1>12. ASSUME NEW k \in Calls, PollResultsFails(k) PROVE TypeOK'
  <2>1. pc' \in [Calls -> InFlight \cup Ended \cup {"idle"}]
    BY <1>12, MoveType DEF PollResultsFails, InFlight
  <2> QED
    BY <1>12, <2>1 DEF PollResultsFails, TypeOK
<1>13. ASSUME NEW k \in Calls, PollLogs(k) PROVE TypeOK'
  <2>1. Messages(k) \in Nat /\ Len(Entries(k)) \in Nat
    BY EntriesType
  <2>2. shown' \in SUBSET Calls /\ counted' \in [Calls -> Nat]
    BY <1>13, <2>1 DEF PollLogs, Counted, TypeOK
  <2>3. CASE Answer(k, "output", Messages(k), Messages(k))
    BY <1>13, <2>1, <2>2, <2>3, AnswerType DEF PollLogs, TypeOK
  <2>4. CASE GoTo(k, "poll") /\ UNCHANGED outcome
    <3>1. pc' \in [Calls -> InFlight \cup Ended \cup {"idle"}]
      BY <2>4, MoveType DEF InFlight
    <3> QED
      BY <1>13, <2>2, <2>4, <3>1 DEF PollLogs, TypeOK
  <2> QED
    BY <1>13, <2>3, <2>4 DEF PollLogs
<1>14. ASSUME NEW k \in Calls, PollLogsFails(k) PROVE TypeOK'
  <2>1. pc' \in [Calls -> InFlight \cup Ended \cup {"idle"}]
    BY <1>14, MoveType DEF PollLogsFails, InFlight
  <2> QED
    BY <1>14, <2>1 DEF PollLogsFails, TypeOK
<1>15. ASSUME NEW k \in Calls, Take(k) \/ Lose(k) PROVE TypeOK'
  <2>1. CASE Take(k)
    BY <2>1 DEF Take, TypeOK, Flows
  <2>2. CASE Lose(k)
    BY <2>2 DEF Lose, TypeOK
  <2> QED
    BY <1>15, <2>1, <2>2
<1>16. ASSUME NEW k \in Calls, AddRow(k) \/ FlowEnds(k) PROVE TypeOK'
  <2>1. CASE AddRow(k)
    <3>1. rows' \in [Flows -> Nat]
      BY <2>1 DEF AddRow, TypeOK, Flows
    <3> QED
      BY <2>1, <3>1 DEF AddRow, TypeOK
  <2>2. CASE FlowEnds(k)
    <3>1. flow' \in [Flows -> {"none", "running", "finished", "error"}]
      <4>1. PICK state \in {"finished", "error"} : flow' = [flow EXCEPT ![k] = state]
        BY <2>2 DEF FlowEnds
      <4> QED
        BY <4>1 DEF TypeOK
    <3> QED
      BY <2>2, <3>1 DEF FlowEnds, TypeOK
  <2> QED
    BY <1>16, <2>1, <2>2
<1>17. ASSUME NEW k \in Calls, AddLog(k) PROVE TypeOK'
  <2>1. logs' \in [Flows -> Seq(BOOLEAN)]
    BY <1>17 DEF AddLog, TypeOK, Flows
  <2> QED
    BY <1>17, <2>1 DEF AddLog, TypeOK
<1>18. ASSUME NEW calls \in SUBSET Calls, Drop(calls) PROVE TypeOK'
  BY <1>18 DEF Drop, TypeOK, Ended
<1> QED
  <2>1. ASSUME NEW k \in Calls, HangUp(k) PROVE TypeOK'
    BY <1>18, <2>1 DEF HangUp
  <2>2. ASSUME Crash PROVE TypeOK'
    BY <1>18, <2>2 DEF Crash
  <2> QED
    BY <1>1, <1>2, <1>3, <1>4, <1>5, <1>6, <1>7, <1>8, <1>9, <1>10, <1>11, <1>12, <1>13, <1>14,
       <1>15, <1>16, <1>17, <2>1, <2>2 DEF Next, Step, Upstream

-----------------------------------------------------------------------------
(***************************************************************************)
(* What is sound of a call.                                                *)
(***************************************************************************)

(* What a step leaves of a call and of its flow.                           *)
Untouched(k) ==
  /\ pc'[k] = pc[k] /\ op'[k] = op[k] /\ seen'[k] = seen[k] /\ counted'[k] = counted[k]
  /\ answer'[k] = answer[k] /\ got'[k] = got[k] /\ held'[k] = held[k]
  /\ wire'[k] = wire[k] /\ flow'[k] = flow[k] /\ rows'[k] = rows[k] /\ logs'[k] = logs[k]
  /\ k \in started' <=> k \in started
  /\ k \in closed' <=> k \in closed
  /\ k \in unlogged' <=> k \in unlogged
  /\ k \in blind' <=> k \in blind
  /\ k \in shown' <=> k \in shown

(* A call that a step leaves alone stays sound.                            *)
LEMMA UntouchedStays ==
  ASSUME NEW k \in Calls, Sound(k), Untouched(k)
  PROVE  Sound(k)'
<1> USE DEF Untouched
<1>1. Placed(k)'
  BY DEF Sound, Placed
<1>2. PassedOver(k)'
  BY DEF Sound, PassedOver
<1>3. Answered(k)'
  <2>1. LogMessages(k)' = LogMessages(k)
    BY DEF LogMessages
  <2> QED
    BY <2>1 DEF Sound, Answered
<1>4. Recorded(k)'
  BY DEF Sound, Recorded
<1> QED
  BY <1>1, <1>2, <1>3, <1>4 DEF Sound

(* An answer, of a call and to it alone.                                   *)
LEMMA AnswerMoves ==
  ASSUME TypeOK, NEW k \in Calls, NEW what, NEW n, NEW m, Answer(k, what, n, m)
  PROVE  /\ pc'[k] = (IF op[k] \in Lists THEN "end" ELSE "close")
         /\ answer'[k] = what /\ got'[k] = n /\ held'[k] = m
         /\ \A j \in Calls \ {k} : /\ pc'[j] = pc[j] /\ answer'[j] = answer[j]
                                   /\ got'[j] = got[j] /\ held'[j] = held[j]
BY DEF TypeOK, Answer, GoTo

(* A move, of a call and of it alone.                                      *)
LEMMA PlaceMoves ==
  ASSUME TypeOK, NEW k \in Calls, NEW place, GoTo(k, place)
  PROVE  pc'[k] = place /\ \A j \in Calls \ {k} : pc'[j] = pc[j]
BY DEF TypeOK, GoTo

(* An audit row, of a call and of it alone.                                *)
LEMMA AuditMoves ==
  ASSUME NEW k \in Calls, Audit(k, started)
  PROVE  /\ k \in started' \cup unlogged'
         /\ unlogged \subseteq unlogged'
         /\ \A j \in Calls \ {k} : /\ j \in started' <=> j \in started
                                   /\ j \in unlogged' <=> j \in unlogged
BY DEF Audit

LEMMA AuditCloses ==
  ASSUME NEW k \in Calls, Audit(k, closed)
  PROVE  /\ k \in closed' \cup unlogged'
         /\ unlogged \subseteq unlogged'
         /\ \A j \in Calls \ {k} : /\ j \in closed' <=> j \in closed
                                   /\ j \in unlogged' <=> j \in unlogged
BY DEF Audit

(* An error answered, to a call that had no answer yet, is sound.          *)
LEMMA ErrorIsSound ==
  ASSUME TypeOK, NEW k \in Calls, Sound(k), Answer(k, "error", 0, 0),
         pc[k] \in {"server", "check", "sent", "poll"},
         op' = op, wire' = wire, flow' = flow, rows' = rows, logs' = logs, counted' = counted,
         started' = started, closed' = closed, unlogged' = unlogged, shown' = shown,
         seen'[k] = seen[k]
  PROVE  Sound(k)'
<1>1. /\ pc'[k] = (IF op[k] \in Lists THEN "end" ELSE "close")
      /\ answer'[k] = "error" /\ got'[k] = 0
  BY AnswerMoves
<1>2. op[k] \in Lists \cup Queries /\ k \notin shown
  BY DEF Sound, Placed, Open, Starting, Looping, Queries
<1>3. pc'[k] = "end" => op[k] \in Lists
  BY <1>1
<1>4. pc'[k] \in {"end", "close"} /\ (pc'[k] = "close" => op[k] \in Queries)
  BY <1>1, <1>2
<1>5. Placed(k)'
  BY <1>1, <1>4 DEF Sound, Placed, Open, Starting, Looping
<1>6. PassedOver(k)'
  BY <1>4 DEF PassedOver, Open, Starting, Looping
<1>7. Answered(k)'
  BY <1>1, <1>2 DEF Answered
<1>8. Recorded(k)'
  BY <1>3, <1>4 DEF Sound, Recorded, Lists, Queries
<1> QED
  BY <1>5, <1>6, <1>7, <1>8 DEF Sound

(* So is a move from a place of its way to another.                        *)
LEMMA MoveIsSound ==
  ASSUME TypeOK, NEW k \in Calls, Sound(k), NEW place \in Open \ Starting, GoTo(k, place),
         pc[k] \in Open \ Starting, wire[k] = "taken",
         op' = op, answer' = answer, wire' = wire, flow' = flow, rows' = rows, logs' = logs,
         counted' = counted, started' = started, closed' = closed, unlogged' = unlogged,
         shown' = shown,
         seen'[k] = "finished" => flow[k] = "finished",
         place = "logs" /\ seen'[k] = "finished" => k \in blind'
  PROVE  Sound(k)'
<1>1. pc'[k] = place
  BY PlaceMoves
<1>2. Placed(k)'
  BY <1>1 DEF Sound, Placed, Open, Starting, Looping
<1>3. PassedOver(k)'
  BY <1>1 DEF Sound, PassedOver, Open, Starting, Looping
<1>4. Answered(k)'
  BY <1>1 DEF Sound, Placed, Answered, Open, Starting, Looping
<1>5. Recorded(k)'
  BY <1>1 DEF Sound, Recorded, Open, Starting, Looping
<1> QED
  BY <1>2, <1>3, <1>4, <1>5 DEF Sound

-----------------------------------------------------------------------------
(***************************************************************************)
(* One lemma per step, in the order of a call's way.                       *)
(***************************************************************************)

(* A call that begins, or is refused.                                      *)
LEMMA BeginStep ==
  ASSUME TypeOK, NEW k \in Calls, Sound(k), Refuse(k) \/ Begin(k)
  PROVE  Sound(k)' /\ \A j \in Calls \ {k} : Untouched(j)
<1> USE DEF loop, outcome, endpoint, record, past, request
<1>1. /\ UNCHANGED <<op, seen, counted, answer, got, held, wire, flow, rows, logs, closed, blind, shown>>
      /\ pc[k] = "idle"
  BY DEF Refuse, Begin
<1>2. /\ \A j \in Calls \ {k} : pc'[j] = pc[j]
      /\ \/ pc'[k] = "refused" /\ UNCHANGED <<started, unlogged>>
         \/ /\ op[k] # "malformed"
            /\ pc'[k] = FirstPlace(k)
            /\ op[k] \in Lists => UNCHANGED <<started, unlogged>>
            /\ op[k] \notin Lists => Audit(k, started)
  <2>1. CASE Refuse(k)
    BY <2>1, PlaceMoves DEF Refuse
  <2>2. CASE Begin(k)
    <3>1. /\ \A j \in Calls \ {k} : pc'[j] = pc[j]
          /\ pc'[k] = FirstPlace(k)
      BY <2>2, PlaceMoves DEF Begin
    <3>2. op[k] # "malformed"
      BY <2>2 DEF Begin, Accepted
    <3>3. IF op[k] \in Lists THEN UNCHANGED <<started, faults, unlogged>> ELSE Audited(k)
      BY <2>2 DEF Begin
    <3> QED
      BY <3>1, <3>2, <3>3 DEF Audited
  <2> QED
    BY <2>1, <2>2
<1>3. op[k] \in Lists \cup Queries \cup {"malformed"}
  BY DEF TypeOK
<1>4. /\ op[k] \in Queries /\ pc'[k] # "refused" => k \in started' \cup unlogged'
      /\ unlogged \subseteq unlogged'
      /\ \A j \in Calls \ {k} : (j \in started' <=> j \in started) /\ (j \in unlogged' <=> j \in unlogged)
  <2>1. CASE pc'[k] = "refused" /\ UNCHANGED <<started, unlogged>>
    BY <2>1
  <2>2. CASE op[k] \in Lists /\ UNCHANGED <<started, unlogged>>
    BY <2>2 DEF Lists, Queries
  <2>3. CASE Audit(k, started)
    BY <2>3, AuditMoves
  <2> QED
    BY <1>2, <2>1, <2>2, <2>3
<1>5. pc'[k] \in {"refused", "check", "server"} /\ (pc'[k] = "check" => op[k] = "collect")
      /\ (pc'[k] = "server" => op[k] \in Lists \cup {"server"})
  BY <1>2, <1>3 DEF FirstPlace, Queries
<1>6. \A j \in Calls \ {k} : Untouched(j)
  BY <1>1, <1>2, <1>4 DEF Untouched
<1>7. Placed(k)'
  BY <1>1, <1>5 DEF Sound, Placed, Open, Starting, Looping
<1>8. PassedOver(k)' /\ Answered(k)'
  <2>1. LogMessages(k)' = LogMessages(k)
    BY <1>1 DEF LogMessages
  <2> QED
    BY <1>1, <1>5, <2>1 DEF Sound, PassedOver, Answered, Placed, Open, Starting, Looping
<1>9. Recorded(k)'
  BY <1>1, <1>4, <1>5 DEF Recorded
<1> QED
  BY <1>6, <1>7, <1>8, <1>9 DEF Sound

(* A query on the server.                                                  *)
LEMMA ServerStep ==
  ASSUME TypeOK, NEW k \in Calls, Sound(k), AskServer(k)
  PROVE  Sound(k)' /\ \A j \in Calls \ {k} : Untouched(j)
<1>1. /\ UNCHANGED <<op, seen, counted, wire, flow, rows, logs, started, closed, unlogged, blind, shown>>
      /\ pc[k] = "server"
  BY DEF AskServer, loop, endpoint, record, past, request
<1>2. CASE Answer(k, "error", 0, 0)
  <2>1. Sound(k)'
    BY <1>1, <1>2, ErrorIsSound
  <2>2. \A j \in Calls \ {k} : Untouched(j)
    BY <1>1, <1>2, AnswerMoves DEF Untouched
  <2> QED
    BY <2>1, <2>2
<1>3. ASSUME NEW n \in Nat, Answer(k, "rows", Capped(n), n)
      PROVE  Sound(k)' /\ \A j \in Calls \ {k} : Untouched(j)
  <2>1. /\ pc'[k] = (IF op[k] \in Lists THEN "end" ELSE "close")
        /\ answer'[k] = "rows" /\ got'[k] = Capped(n) /\ held'[k] = n
        /\ \A j \in Calls \ {k} : /\ pc'[j] = pc[j] /\ answer'[j] = answer[j]
                                  /\ got'[j] = got[j] /\ held'[j] = held[j]
    BY <1>3, AnswerMoves
  <2>2. op[k] \in Lists \cup {"server"} /\ k \notin shown
    BY <1>1 DEF Sound, Placed, Open, Starting
  <2>3. pc'[k] \in {"end", "close"} /\ (pc'[k] = "close" => op[k] = "server")
        /\ (pc'[k] = "end" => op[k] \notin Queries) /\ op[k] # "collect"
    BY <2>1, <2>2 DEF Lists, Queries
  <2>4. Placed(k)'
    BY <1>1, <2>1, <2>3 DEF Sound, Placed, Open, Starting, Looping, Queries
  <2>5. PassedOver(k)'
    BY <2>3 DEF PassedOver, Open, Starting, Looping
  <2>6. Answered(k)'
    BY <1>1, <2>1, <2>2, <2>3, CappedType DEF Answered
  <2>7. Recorded(k)'
    BY <1>1, <2>3 DEF Sound, Recorded
  <2>8. \A j \in Calls \ {k} : Untouched(j)
    BY <1>1, <2>1 DEF Untouched
  <2> QED
    BY <2>4, <2>5, <2>6, <2>7, <2>8 DEF Sound
<1> QED
  BY <1>2, <1>3 DEF AskServer

(* The way of a collection to the server.                                  *)
LEMMA SendStep ==
  ASSUME TypeOK, NEW k \in Calls, Sound(k),
         CheckClient(k) \/ Dispatch(k) \/ Dispatched(k) \/ DispatchFails(k) \/ GiveUp(k)
  PROVE  Sound(k)' /\ \A j \in Calls \ {k} : Untouched(j)
<1> USE DEF loop, outcome, endpoint, record, past, request
<1>1. UNCHANGED <<op, seen, counted, flow, rows, logs, started, closed, unlogged, blind, shown>>
  BY DEF CheckClient, Dispatch, Dispatched, DispatchFails, GiveUp
<1>2. CASE Answer(k, "error", 0, 0) /\ wire' = wire /\ pc[k] \in {"check", "sent", "poll"}
  <2>1. Sound(k)'
    BY <1>1, <1>2, ErrorIsSound
  <2>2. \A j \in Calls \ {k} : Untouched(j)
    BY <1>1, <1>2, AnswerMoves DEF Untouched
  <2> QED
    BY <2>1, <2>2
<1>3. ASSUME NEW place, GoTo(k, place), UNCHANGED <<answer, got, held>>,
             \A j \in Calls \ {k} : wire'[j] = wire[j],
             \/ pc[k] = "check" /\ place = "send" /\ wire' = wire
             \/ pc[k] = "send" /\ place = "sent" /\ wire'[k] = "sent"
             \/ pc[k] = "sent" /\ place = "poll" /\ wire' = wire /\ wire[k] = "taken"
      PROVE  Sound(k)' /\ \A j \in Calls \ {k} : Untouched(j)
  <2>1. pc'[k] = place /\ \A j \in Calls \ {k} : pc'[j] = pc[j]
    BY <1>3, PlaceMoves
  <2>2. Placed(k)'
    BY <1>1, <1>3, <2>1 DEF Sound, Placed, Open, Starting, Looping
  <2>3. PassedOver(k)'
    BY <1>1, <1>3, <2>1 DEF Sound, PassedOver, Open, Starting, Looping
  <2>4. Answered(k)'
    BY <1>1, <1>3, <2>1 DEF Sound, Placed, Answered, Open, Starting, Looping
  <2>5. Recorded(k)'
    BY <1>1, <1>3, <2>1 DEF Sound, Recorded
  <2>6. \A j \in Calls \ {k} : Untouched(j)
    BY <1>1, <1>3, <2>1 DEF Untouched
  <2> QED
    BY <2>2, <2>3, <2>4, <2>5, <2>6 DEF Sound
<1>4. CASE CheckClient(k)
  BY <1>2, <1>3, <1>4 DEF CheckClient
<1>5. CASE Dispatch(k)
  <2>1. wire'[k] = "sent" /\ \A j \in Calls \ {k} : wire'[j] = wire[j]
    BY <1>5 DEF Dispatch, TypeOK
  <2>2. GoTo(k, "sent") /\ UNCHANGED <<answer, got, held>> /\ pc[k] = "send"
    BY <1>5 DEF Dispatch
  <2> QED
    BY <1>3, <2>1, <2>2
<1>6. CASE Dispatched(k)
  BY <1>3, <1>6 DEF Dispatched
<1>7. CASE DispatchFails(k) \/ GiveUp(k)
  BY <1>2, <1>7 DEF DispatchFails, GiveUp
<1> QED
  BY <1>4, <1>5, <1>6, <1>7

(* A turn: the state of the flow.                                          *)
LEMMA StateStep ==
  ASSUME TypeOK, NEW k \in Calls, Sound(k), PollState(k)
  PROVE  Sound(k)' /\ \A j \in Calls \ {k} : Untouched(j)
<1> USE DEF loop, outcome, endpoint, record, past, request
<1>1. /\ UNCHANGED <<op, counted, wire, flow, rows, logs, started, closed, unlogged, shown>>
      /\ pc[k] = "poll" /\ blind' = blind \ {k}
  BY DEF PollState
<1>2. wire[k] = "taken" /\ (seen[k] = "finished" => flow[k] = "finished")
  BY <1>1 DEF Sound, Placed, Looping
<1>3. CASE GoTo(k, "results") /\ UNCHANGED outcome
  <2>1. /\ seen'[k] = "finished" => flow[k] = "finished"
        /\ \A j \in Calls \ {k} : seen'[j] = seen[j]
    BY <1>2, <1>3 DEF PollState, FlowOf, TypeOK
  <2>2. Sound(k)'
    <3>1. "results" \in Open \ Starting /\ pc[k] \in Open \ Starting
      BY <1>1 DEF Open, Starting, Looping
    <3> QED
      BY <1>1, <1>2, <1>3, <2>1, <3>1, MoveIsSound
  <2>3. \A j \in Calls \ {k} : Untouched(j)
    BY <1>1, <1>3, <2>1, PlaceMoves DEF Untouched
  <2> QED
    BY <2>2, <2>3
<1>4. CASE Answer(k, "error", 0, 0) /\ UNCHANGED seen
  <2>1. Sound(k)'
    BY <1>1, <1>4, ErrorIsSound
  <2>2. \A j \in Calls \ {k} : Untouched(j)
    BY <1>1, <1>4, AnswerMoves DEF Untouched
  <2> QED
    BY <2>1, <2>2
<1> QED
  BY <1>3, <1>4 DEF PollState

(* A turn: the results of the flow.                                        *)
LEMMA ResultsStep ==
  ASSUME TypeOK, NEW k \in Calls, Sound(k), PollResults(k) \/ PollResultsFails(k)
  PROVE  Sound(k)' /\ \A j \in Calls \ {k} : Untouched(j)
<1> USE DEF loop, outcome, endpoint, record, past, request
<1>1. /\ UNCHANGED <<op, seen, counted, wire, flow, rows, logs, started, closed, unlogged>>
      /\ pc[k] = "results"
  BY DEF PollResults, PollResultsFails
<1>2. wire[k] = "taken" /\ op[k] = "collect" /\ answer[k] = "none" /\ k \notin shown
      /\ (seen[k] = "finished" => flow[k] = "finished")
  BY <1>1 DEF Sound, Placed, Looping, Open
<1>3. rows[k] \in Nat
  BY DEF TypeOK, Flows
<1>4. ASSUME GoTo(k, "logs"), UNCHANGED <<answer, got, held, shown>>,
             seen[k] = "finished" => k \in blind',
             \A j \in Calls \ {k} : j \in blind' <=> j \in blind
      PROVE  Sound(k)' /\ \A j \in Calls \ {k} : Untouched(j)
  <2>1. Sound(k)'
    <3>1. "logs" \in Open \ Starting /\ pc[k] \in Open \ Starting
      BY <1>1 DEF Open, Starting, Looping
    <3> QED
      BY <1>1, <1>2, <1>4, <3>1, MoveIsSound
  <2>2. \A j \in Calls \ {k} : Untouched(j)
    BY <1>1, <1>4, PlaceMoves DEF Untouched
  <2> QED
    BY <2>1, <2>2
<1>5. CASE PollResultsFails(k)
  BY <1>4, <1>5 DEF PollResultsFails
<1>6. CASE PollResults(k) /\ ~(rows[k] > 0 \/ EmptyEnds(k))
  BY <1>4, <1>6 DEF PollResults, FlowOf, EmptyEnds
<1>7. CASE PollResults(k) /\ (rows[k] > 0 \/ EmptyEnds(k))
  <2>1. /\ Answer(k, "rows", Capped(rows[k]), rows[k])
        /\ shown' = (IF rows[k] > 0 THEN shown \cup {k} ELSE shown)
        /\ blind' = blind
    BY <1>7 DEF PollResults, FlowOf
  <2>2. /\ pc'[k] = "close" /\ answer'[k] = "rows" /\ got'[k] = Capped(rows[k])
        /\ \A j \in Calls \ {k} : /\ pc'[j] = pc[j] /\ answer'[j] = answer[j]
                                  /\ got'[j] = got[j] /\ held'[j] = held[j]
    BY <1>2, <2>1, AnswerMoves DEF Lists
  <2>3. Capped(rows[k]) \in Nat /\ Capped(rows[k]) <= rows[k]
        /\ (Capped(rows[k]) < Cap => Capped(rows[k]) = rows[k])
        /\ (rows[k] > 0 => Capped(rows[k]) > 0)
    BY <1>3, CappedType
  <2>4. Placed(k)'
    BY <1>1, <1>2, <2>2 DEF Placed, Open, Starting, Looping, Queries
  <2>5. PassedOver(k)'
    BY <2>2 DEF PassedOver, Open, Starting, Looping
  <2>6. Answered(k)'
    BY <1>1, <1>2, <1>3, <1>7, <2>1, <2>2, <2>3 DEF Answered, EmptyEnds
  <2>7. Recorded(k)'
    BY <1>1, <2>2 DEF Sound, Recorded
  <2>8. \A j \in Calls \ {k} : Untouched(j)
    BY <1>1, <2>1, <2>2 DEF Untouched
  <2> QED
    BY <2>4, <2>5, <2>6, <2>7, <2>8 DEF Sound
<1> QED
  BY <1>5, <1>6, <1>7

(* A turn: the logs of the flow.                                           *)
LEMMA LogsStep ==
  ASSUME TypeOK, NEW k \in Calls, Sound(k), PollLogs(k) \/ PollLogsFails(k)
  PROVE  Sound(k)' /\ \A j \in Calls \ {k} : Untouched(j)
<1> USE DEF loop, outcome, endpoint, record, past, request
<1>1. /\ UNCHANGED <<op, seen, wire, flow, rows, logs, started, closed, unlogged, blind>>
      /\ pc[k] = "logs"
  BY DEF PollLogs, PollLogsFails
<1>2. /\ wire[k] = "taken" /\ op[k] = "collect" /\ answer[k] = "none" /\ k \notin shown
      /\ seen[k] = "finished" => flow[k] = "finished" /\ k \in blind
      /\ counted[k] <= Len(logs[k]) /\ \A i \in 1..counted[k] : ~logs[k][i]
  BY <1>1 DEF Sound, Placed, PassedOver, Looping, Open
<1>3. /\ Messages(k) \in Nat /\ Messages(k) <= Cardinality(LogMessages(k))
      /\ Messages(k) = 0 <=> \A i \in 1..Len(Entries(k)) : ~logs[k][i]
      /\ Len(Entries(k)) \in Nat /\ Len(Entries(k)) <= Len(logs[k])
      /\ Len(logs[k]) \in Nat /\ counted[k] \in Nat
  <2>1. Len(logs[k]) \in Nat /\ counted[k] \in Nat
    BY DEF TypeOK, Flows
  <2> QED
    BY <2>1, EntriesType, CappedType
<1>4. CASE PollLogsFails(k)
  <2>1. Sound(k)'
    <3>1. "poll" \in Open \ Starting /\ pc[k] \in Open \ Starting
      BY <1>1 DEF Open, Starting, Looping
    <3> QED
      BY <1>1, <1>2, <1>4, <3>1, MoveIsSound DEF PollLogsFails
  <2>2. \A j \in Calls \ {k} : Untouched(j)
    BY <1>1, <1>4, PlaceMoves DEF PollLogsFails, Untouched
  <2> QED
    BY <2>1, <2>2
<1>5. CASE PollLogs(k)
  <2>1. /\ shown' = (IF Messages(k) > 0 THEN shown \cup {k} ELSE shown)
        /\ counted'[k] = (IF Len(Entries(k)) > counted[k] THEN Len(Entries(k)) ELSE counted[k])
        /\ \A j \in Calls \ {k} : counted'[j] = counted[j]
    BY <1>5 DEF PollLogs, Counted, TypeOK
  <2>2. CASE ~EndsWithLogs(k)
    <3>1. pc'[k] = "poll" /\ \A j \in Calls \ {k} : pc'[j] = pc[j]
      BY <1>5, <2>2, PlaceMoves DEF PollLogs
    <3>2. UNCHANGED <<answer, got, held>>
      BY <1>5, <2>2 DEF PollLogs
    <3>3. Messages(k) = 0
      <4>1. CASE Len(Entries(k)) > counted[k]
        BY <1>3, <2>2, <4>1 DEF EndsWithLogs
      <4>2. CASE Len(Entries(k)) <= counted[k]
        BY <1>2, <1>3, <4>2
      <4> QED
        BY <1>3, <4>1, <4>2
    <3>4. shown' = shown
      BY <2>1, <3>3
    <3>5. counted'[k] <= Len(logs[k]) /\ \A i \in 1..counted'[k] : ~logs[k][i]
      BY <1>2, <1>3, <2>1, <3>3
    <3>6. Placed(k)'
      BY <1>1, <1>2, <3>1, <3>2, <3>4 DEF Sound, Placed, Open, Starting, Looping
    <3>7. PassedOver(k)'
      BY <1>1, <3>1, <3>5 DEF PassedOver
    <3>8. Answered(k)'
      BY <1>2, <3>1, <3>2 DEF Answered
    <3>9. Recorded(k)'
      BY <1>1, <3>1 DEF Sound, Recorded
    <3>10. \A j \in Calls \ {k} : Untouched(j)
      BY <1>1, <2>1, <3>1, <3>2, <3>4 DEF Untouched
    <3> QED
      BY <3>6, <3>7, <3>8, <3>9, <3>10 DEF Sound
  <2>3. CASE EndsWithLogs(k)
    <3>1. Answer(k, "output", Messages(k), Messages(k))
      BY <1>5, <2>3 DEF PollLogs
    <3>2. /\ pc'[k] = "close" /\ answer'[k] = "output" /\ got'[k] = Messages(k)
          /\ \A j \in Calls \ {k} : /\ pc'[j] = pc[j] /\ answer'[j] = answer[j]
                                    /\ got'[j] = got[j] /\ held'[j] = held[j]
      BY <1>2, <3>1, AnswerMoves DEF Lists
    <3>3. Messages(k) = 0 => seen[k] = "finished"
      BY <1>3, <2>3 DEF EndsWithLogs
    <3>4. Placed(k)'
      BY <1>1, <1>2, <3>2 DEF Placed, Open, Starting, Looping, Queries
    <3>5. PassedOver(k)'
      BY <3>2 DEF PassedOver, Open, Starting, Looping
    <3>6. Answered(k)'
      <4>1. LogMessages(k)' = LogMessages(k)
        BY <1>1 DEF LogMessages
      <4> QED
        BY <1>1, <1>2, <1>3, <2>1, <3>2, <3>3, <4>1 DEF Answered
    <3>7. Recorded(k)'
      BY <1>1, <3>2 DEF Sound, Recorded
    <3>8. \A j \in Calls \ {k} : Untouched(j)
      BY <1>1, <2>1, <3>2 DEF Untouched
    <3> QED
      BY <3>4, <3>5, <3>6, <3>7, <3>8 DEF Sound
  <2> QED
    BY <2>2, <2>3
<1> QED
  BY <1>4, <1>5

(* The second audit row.                                                   *)
LEMMA CloseStep ==
  ASSUME TypeOK, NEW k \in Calls, Sound(k), Close(k)
  PROVE  Sound(k)' /\ \A j \in Calls \ {k} : Untouched(j)
<1> USE DEF loop, outcome, endpoint, record, past, request
<1>1. /\ UNCHANGED <<op, seen, counted, answer, got, held, wire, flow, rows, logs, started, blind, shown>>
      /\ pc[k] = "close" /\ Audit(k, closed)
  BY DEF Close
<1>2. pc'[k] = "end" /\ \A j \in Calls \ {k} : pc'[j] = pc[j]
  BY PlaceMoves DEF Close
<1>3. /\ k \in closed' \cup unlogged'
      /\ unlogged \subseteq unlogged'
      /\ \A j \in Calls \ {k} : /\ j \in closed' <=> j \in closed
                                /\ j \in unlogged' <=> j \in unlogged
  BY <1>1, AuditCloses
<1>4. Placed(k)'
  BY <1>1, <1>2 DEF Sound, Placed, Open, Starting, Looping
<1>5. PassedOver(k)'
  BY <1>2 DEF PassedOver, Open, Starting, Looping
<1>6. Answered(k)'
  <2>1. LogMessages(k)' = LogMessages(k)
    BY <1>1 DEF LogMessages
  <2> QED
    BY <1>1, <1>2, <2>1 DEF Sound, Answered
<1>7. Recorded(k)'
  BY <1>1, <1>2, <1>3 DEF Sound, Recorded
<1>8. \A j \in Calls \ {k} : Untouched(j)
  BY <1>1, <1>2, <1>3 DEF Untouched
<1> QED
  BY <1>4, <1>5, <1>6, <1>7, <1>8 DEF Sound

(* The server and the endpoint.                                            *)
LEMMA UpstreamStep ==
  ASSUME TypeOK, NEW k \in Calls, Sound(k), Upstream(k)
  PROVE  Sound(k)' /\ \A j \in Calls \ {k} : Untouched(j)
<1> USE CallsAssumption DEF loop, outcome, endpoint, record, past, request
<1>1. UNCHANGED <<pc, op, seen, counted, answer, got, held, started, closed, unlogged, blind, shown>>
  BY DEF Upstream, Take, Lose, AddRow, AddLog, FlowEnds
<1>2. CASE Take(k)
  <2>1. /\ wire[k] = "sent" /\ wire'[k] = "taken" /\ flow'[k] = "running"
        /\ rows' = rows /\ logs' = logs
        /\ \A j \in Calls \ {k} : wire'[j] = wire[j] /\ flow'[j] = flow[j]
    BY <1>2 DEF Take, TypeOK, Flows
  <2>2. flow[k] = "none"
    BY <2>1 DEF Sound, Placed
  <2>3. Placed(k)'
    BY <1>1, <2>1, <2>2 DEF Sound, Placed, Open, Starting, Looping
  <2>4. PassedOver(k)' /\ Answered(k)' /\ Recorded(k)'
    <3>1. LogMessages(k)' = LogMessages(k)
      BY <2>1 DEF LogMessages
    <3> QED
      BY <1>1, <2>1, <3>1 DEF Sound, PassedOver, Answered, Recorded
  <2>5. \A j \in Calls \ {k} : Untouched(j)
    BY <1>1, <2>1 DEF Untouched
  <2> QED
    BY <2>3, <2>4, <2>5 DEF Sound
<1>3. CASE Lose(k)
  <2>1. /\ wire[k] = "sent" /\ wire'[k] = "lost"
        /\ rows' = rows /\ logs' = logs /\ flow' = flow
        /\ \A j \in Calls \ {k} : wire'[j] = wire[j]
    BY <1>3 DEF Lose, TypeOK
  <2>2. flow[k] = "none"
    BY <2>1 DEF Sound, Placed
  <2>3. Placed(k)'
    BY <1>1, <2>1, <2>2 DEF Sound, Placed, Open, Starting, Looping
  <2>4. PassedOver(k)' /\ Answered(k)' /\ Recorded(k)'
    <3>1. LogMessages(k)' = LogMessages(k)
      BY <2>1 DEF LogMessages
    <3> QED
      BY <1>1, <2>1, <3>1 DEF Sound, PassedOver, Answered, Recorded
  <2>5. \A j \in Calls \ {k} : Untouched(j)
    BY <1>1, <2>1 DEF Untouched
  <2> QED
    BY <2>3, <2>4, <2>5 DEF Sound
<1>4. CASE AddRow(k) \/ AddLog(k) \/ FlowEnds(k)
  <2>1. Watched(k) /\ flow[k] = "running" /\ wire' = wire
    BY <1>4 DEF AddRow, AddLog, FlowEnds
  <2>2. /\ pc[k] \in Open /\ answer[k] = "none" /\ k \notin shown
        /\ seen[k] # "finished" /\ wire[k] = "taken"
    BY <2>1 DEF Watched, Ended, TypeOK, InFlight, Sound, Placed, Open, Starting, Looping
  <2>3. /\ flow'[k] # "none"
        /\ \A j \in Calls \ {k} : flow'[j] = flow[j] /\ rows'[j] = rows[j] /\ logs'[j] = logs[j]
    BY <1>4, <2>1 DEF AddRow, AddLog, FlowEnds, TypeOK, Flows
  <2>4. /\ Len(logs[k]) <= Len(logs'[k]) /\ Len(logs'[k]) \in Nat
        /\ \A i \in 1..Len(logs[k]) : logs'[k][i] = logs[k][i]
    <3>1. logs[k] \in Seq(BOOLEAN)
      BY DEF TypeOK, Flows
    <3>2. CASE logs' = logs
      BY <3>1, <3>2
    <3>3. CASE AddLog(k)
      <4>1. PICK message \in BOOLEAN : logs' = [logs EXCEPT ![k] = Append(@, message)]
        BY <3>3 DEF AddLog
      <4>2. logs'[k] = Append(logs[k], message)
        BY <4>1 DEF TypeOK, Flows
      <4> QED
        BY <3>1, <4>2
    <3> QED
      BY <1>4, <3>2, <3>3 DEF AddRow, FlowEnds
  <2>5. Placed(k)'
    BY <1>1, <2>1, <2>2, <2>3 DEF Sound, Placed, Starting
  <2>6. PassedOver(k)'
    <3>1. counted[k] \in Nat /\ Len(logs[k]) \in Nat
      BY DEF TypeOK, Flows
    <3> QED
      BY <1>1, <2>2, <2>4, <3>1 DEF Sound, PassedOver
  <2>7. Answered(k)' /\ Recorded(k)'
    BY <1>1, <2>2 DEF Sound, Answered, Recorded
  <2>8. \A j \in Calls \ {k} : Untouched(j)
    BY <1>1, <2>1, <2>3 DEF Untouched
  <2> QED
    BY <2>5, <2>6, <2>7, <2>8 DEF Sound
<1> QED
  BY <1>2, <1>3, <1>4 DEF Upstream

(* Calls that are gone.                                                    *)
LEMMA DropStep ==
  ASSUME TypeOK, NEW calls \in SUBSET Calls, \A k \in calls : pc[k] \in InFlight,
         \A k \in Calls : Sound(k), Drop(calls), NEW k \in Calls
  PROVE  Sound(k)'
<1>1. UNCHANGED <<op, seen, counted, answer, got, held, wire, flow, rows, logs,
                  started, closed, unlogged, blind, shown>>
  BY DEF Drop, loop, outcome, endpoint, record, past, request
<1>2. CASE k \notin calls
  <2>1. pc'[k] = pc[k]
    BY <1>2 DEF Drop
  <2>2. Untouched(k)
    BY <1>1, <2>1 DEF Untouched
  <2> QED
    BY <2>2, UntouchedStays
<1>3. CASE k \in calls
  <2>1. pc'[k] = "gone" /\ pc[k] \in InFlight
    BY <1>3 DEF Drop
  <2>2. Placed(k)'
    BY <1>1, <2>1 DEF Sound, Placed, Open, Starting, Looping
  <2>3. PassedOver(k)'
    BY <2>1 DEF PassedOver, Open, Starting, Looping
  <2>4. Answered(k)'
    <3>1. LogMessages(k)' = LogMessages(k)
      BY <1>1 DEF LogMessages
    <3> QED
      BY <1>1, <2>1, <3>1 DEF Sound, Answered
  <2>5. Recorded(k)'
    BY <1>1, <2>1 DEF Sound, Recorded, InFlight
  <2> QED
    BY <2>2, <2>3, <2>4, <2>5 DEF Sound
<1> QED
  BY <1>2, <1>3

-----------------------------------------------------------------------------
(***************************************************************************)
(* The theorems.                                                           *)
(***************************************************************************)

(* The invariant is inductive.                                             *)
LEMMA Inductive == IInv /\ [Next]_vars => IInv'
<1> SUFFICES ASSUME TypeOK, \A k \in Calls : Sound(k), [Next]_vars
             PROVE  \A k \in Calls : Sound(k)'
  BY TypeStep DEF IInv
<1>1. ASSUME NEW k \in Calls, Sound(k)', \A j \in Calls \ {k} : Untouched(j)
      PROVE  \A j \in Calls : Sound(j)'
  BY <1>1, UntouchedStays
<1>2. ASSUME NEW k \in Calls, Refuse(k) \/ Begin(k) \/ Step(k) \/ Upstream(k)
      PROVE  Sound(k)' /\ \A j \in Calls \ {k} : Untouched(j)
  BY <1>2, BeginStep, ServerStep, SendStep, StateStep, ResultsStep, LogsStep, CloseStep, UpstreamStep
     DEF Step
<1>3. ASSUME NEW k \in Calls, HangUp(k) PROVE \A j \in Calls : Sound(j)'
  BY <1>3, DropStep DEF HangUp
<1>4. ASSUME Crash PROVE \A j \in Calls : Sound(j)'
  BY <1>4, DropStep DEF Crash
<1>5. ASSUME UNCHANGED vars PROVE \A j \in Calls : Sound(j)'
  <2>1. \A j \in Calls : Untouched(j)
    BY <1>5 DEF vars, loop, outcome, endpoint, record, past, request, Untouched
  <2> QED
    BY <2>1, UntouchedStays
<1> QED
  BY <1>1, <1>2, <1>3, <1>4, <1>5 DEF Next

(* Every reachable state satisfies it.                                     *)
THEOREM Invariance == Spec => []IInv
BY InitInvariant, Inductive, PTL DEF Spec

(* Calls, flows and the audit log are of their types.                      *)
THEOREM TypeCorrect == Spec => []TypeOK
<1>1. IInv => TypeOK
  BY DEF IInv
<1> QED
  BY <1>1, Invariance, PTL

(* The result rows of a collection seen finished (run_artifact_on_client)  *)
(* and of a query (run_query) are all there were, or the answer says that  *)
(* it is cut.  Of log output it says nothing.                              *)
THEOREM ResultsWhole == Spec => []ResultsWholeOrTold
<1>1. IInv => ResultsWholeOrTold
  <2> SUFFICES ASSUME IInv, NEW k \in Calls, answer[k] = "rows", op[k] # "clients"
               PROVE  \/ Truncated(k)
                      \/ op[k] = "collect" /\ seen[k] # "finished" /\ got[k] > 0
                      \/ got[k] = IF op[k] = "collect" THEN rows[k] ELSE held[k]
    BY DEF ResultsWholeOrTold
  <2>1. Answered(k) /\ got[k] \in Nat
    BY DEF IInv, Sound, TypeOK
  <2>2. got[k] >= Cap \/ got[k] < Cap
    BY <2>1, ParametersAssumption
  <2> QED
    BY <2>1, <2>2 DEF Answered, Truncated
<1> QED
  BY <1>1, Invariance, PTL

(* No row and no message the loop of run_artifact_on_client was sent is    *)
(* left out of the answer.                                                 *)
THEOREM NoneDropped == Spec => []NothingShownIsDropped
<1>1. IInv => NothingShownIsDropped
  BY DEF IInv, Sound, Answered, NothingShownIsDropped
<1> QED
  BY <1>1, Invariance, PTL

(* An answer holds what its own flow has (the queries name the flow).      *)
THEOREM Own == Spec => []AnswersAreOwn
<1>1. IInv => AnswersAreOwn
  <2> SUFFICES ASSUME IInv, NEW k \in Calls, op[k] = "collect", answer[k] \in {"rows", "output"}
               PROVE  /\ answer[k] = "rows" => got[k] <= rows[k]
                      /\ answer[k] = "output" => got[k] <= Cardinality({i \in 1..Len(logs[k]) : logs[k][i]})
                      /\ got[k] = 0 => flow[k] = "finished" /\ (rows[k] = 0 \/ k \in blind)
    BY DEF AnswersAreOwn
  <2>1. Answered(k) /\ Placed(k)
    BY DEF IInv, Sound
  <2> QED
    BY <2>1 DEF Answered, Placed, LogMessages
<1> QED
  BY <1>1, Invariance, PTL

(* "Log before + after real actions" (routes/velociraptor.rs): a flow is   *)
(* on record before it exists, an answered query is closed on record.      *)
THEOREM Recording == Spec => []RunsAreRecorded
<1>1. IInv => RunsAreRecorded
  <2> SUFFICES ASSUME IInv, NEW k \in Calls \ unlogged
               PROVE  /\ wire[k] # "none" => k \in started
                      /\ pc[k] = "end" /\ op[k] \in Queries => k \in started \cap closed
    BY DEF RunsAreRecorded
  <2>1. Recorded(k) /\ Placed(k)
    BY DEF IInv, Sound
  <2>2. wire[k] # "none" => op[k] \in Queries /\ pc[k] \notin {"idle", "refused"}
    BY <2>1 DEF Placed, Starting, Queries
  <2> QED
    BY <2>1, <2>2 DEF Recorded
<1> QED
  BY <1>1, Invariance, PTL

-----------------------------------------------------------------------------
(***************************************************************************)
(* The parameter of a call.                                                *)
(***************************************************************************)

(* Induction over the natural numbers, for a set of them.                  *)
LEMMA Counting ==
  ASSUME NEW S \in SUBSET Nat, 0 \in S, \A n \in S : n + 1 \in S
  PROVE  S = Nat
<1> DEFINE Less == {p \in Nat \X Nat : p[1] < p[2]}
           T == Nat \ S
<1> SUFFICES ASSUME T # {} PROVE FALSE
  OBVIOUS
<1>1. IsWellFoundedOn(Less, Nat)
  BY NatLessThanWellFounded DEF OpToRel
<1>2. PICK x \in T : \A y \in T : <<y, x>> \notin Less
  <2>1. T \subseteq Nat
    OBVIOUS
  <2> HIDE DEF T, Less
  <2> QED
    BY <1>1, <2>1, WFMin
<1>3. x \in Nat /\ x # 0
  OBVIOUS
<1>4. x - 1 \in Nat /\ x - 1 < x /\ (x - 1) + 1 = x
  BY <1>3
<1>5. x - 1 \notin T
  BY <1>2, <1>3, <1>4
<1> QED
  BY <1>4, <1>5

(* Induction over sequences, for a set of them.                            *)
LEMMA Appending ==
  ASSUME NEW C, NEW S \in SUBSET Seq(C), <<>> \in S,
         \A s \in S, c \in C : Append(s, c) \in S
  PROVE  S = Seq(C)
<1> DEFINE N == {n \in Nat : \A s \in Seq(C) : Len(s) = n => s \in S}
<1>1. 0 \in N
  <2> SUFFICES ASSUME NEW s \in Seq(C), Len(s) = 0 PROVE s \in S
    OBVIOUS
  <2>1. s = <<>>
    BY EmptySeq
  <2> QED
    BY <2>1
<1>2. ASSUME NEW n \in N PROVE n + 1 \in N
  <2> SUFFICES ASSUME NEW s \in Seq(C), Len(s) = n + 1 PROVE s \in S
    OBVIOUS
  <2>1. s # <<>>
    BY EmptySeq
  <2>2. PICK t \in Seq(C), c \in C : s = Append(t, c)
    BY <2>1, SequenceEmptyOrAppend
  <2>3. Len(t) \in Nat /\ Len(t) + 1 = n + 1
    BY <2>2, LenProperties, AppendProperties
  <2>4. Len(t) = n
    BY <2>3
  <2>5. t \in S
    BY <2>4
  <2> QED
    BY <2>2, <2>5
<1>3. N = Nat
  <2>1. N \in SUBSET Nat
    OBVIOUS
  <2> HIDE DEF N
  <2> QED
    BY <1>1, <1>2, <2>1, Counting
<1> QED
  BY <1>3, LenProperties

-----------------------------------------------------------------------------
(* A fold has a run.                                                       *)
IsRun(f, step, a, s) ==
  \A n \in 0..Len(s) : f[n] = IF n = 0 THEN a ELSE step[s[n]][f[n - 1]]

(* Every fold has one, of the type of its step.                            *)
LEMMA RunExists ==
  ASSUME NEW T, NEW C, NEW step \in [C -> [T -> T]], NEW a \in T, NEW s \in Seq(C)
  PROVE  \E f \in [0..Len(s) -> T] : IsRun(f, step, a, s)
<1> DEFINE S == {m \in Nat : m <= Len(s) =>
                   \E f \in [0..m -> T] :
                     \A n \in 0..m : f[n] = IF n = 0 THEN a ELSE step[s[n]][f[n - 1]]}
<1>0. Len(s) \in Nat /\ \A n \in 1..Len(s) : s[n] \in C
  BY LenProperties, ElementOfSeq
<1>1. 0 \in S
  <2> DEFINE z == [n \in 0..0 |-> a]
  <2>1. z \in [0..0 -> T]
    OBVIOUS
  <2>2. \A n \in 0..0 : z[n] = IF n = 0 THEN a ELSE step[s[n]][z[n - 1]]
    OBVIOUS
  <2> HIDE DEF z
  <2> QED
    BY <2>1, <2>2
<1>2. ASSUME NEW m \in S PROVE m + 1 \in S
  <2> SUFFICES ASSUME m + 1 <= Len(s)
      PROVE \E g \in [0..(m + 1) -> T] :
              \A n \in 0..(m + 1) : g[n] = IF n = 0 THEN a ELSE step[s[n]][g[n - 1]]
    OBVIOUS
  <2>1. PICK f \in [0..m -> T] :
          \A n \in 0..m : f[n] = IF n = 0 THEN a ELSE step[s[n]][f[n - 1]]
    BY <1>0
  <2> DEFINE last == step[s[m + 1]][f[m]]
             g == [n \in 0..(m + 1) |-> IF n = m + 1 THEN last ELSE f[n]]
  <2>2. last \in T
    BY <1>0, <2>1
  <2>3. g \in [0..(m + 1) -> T]
    BY <2>1, <2>2
  <2>4. ASSUME NEW n \in 0..(m + 1)
        PROVE  g[n] = IF n = 0 THEN a ELSE step[s[n]][g[n - 1]]
    <3>1. CASE n = m + 1
      <4>1. n # 0 /\ n - 1 \in 0..m /\ n - 1 = m
        BY <3>1
      <4> QED
        BY <3>1, <4>1
    <3>2. CASE n \in 0..m
      <4>1. g[n] = f[n] /\ (n # 0 => n - 1 \in 0..m /\ g[n - 1] = f[n - 1])
        BY <3>2
      <4> QED
        BY <2>1, <3>2, <4>1
    <3> QED
      BY <3>1, <3>2
  <2> HIDE DEF g
  <2> QED
    BY <2>3, <2>4
<1>3. S = Nat
  <2>1. S \in SUBSET Nat
    OBVIOUS
  <2> HIDE DEF S
  <2> QED
    BY <1>1, <1>2, <2>1, Counting
<1> QED
  BY <1>0, <1>3 DEF IsRun

(* What a fold has run does not depend on what comes after.                *)
LEMMA RunsAgree ==
  ASSUME NEW T, NEW C, NEW step \in [C -> [T -> T]], NEW a \in T, NEW s \in Seq(C), NEW d \in C,
         NEW f, IsRun(f, step, a, s), NEW g, IsRun(g, step, a, Append(s, d))
  PROVE  f[Len(s)] = g[Len(s)]
<1> DEFINE S == {n \in Nat : n <= Len(s) => f[n] = g[n]}
<1>0. Len(s) \in Nat /\ Len(Append(s, d)) = Len(s) + 1
      /\ \A n \in 1..Len(s) : Append(s, d)[n] = s[n]
  BY LenProperties, AppendProperties
<1>1. 0 \in S
  BY <1>0 DEF IsRun
<1>2. ASSUME NEW n \in S PROVE n + 1 \in S
  <2> SUFFICES ASSUME n + 1 <= Len(s) PROVE f[n + 1] = g[n + 1]
    OBVIOUS
  <2>1. n + 1 \in 0..Len(s) /\ n + 1 \in 0..Len(Append(s, d)) /\ n + 1 \in 1..Len(s)
        /\ n + 1 # 0 /\ (n + 1) - 1 = n
    BY <1>0
  <2>2. f[n] = g[n]
    BY <1>0
  <2>3. f[n + 1] = step[s[n + 1]][f[n]]
    BY <2>1 DEF IsRun
  <2>4. g[n + 1] = step[Append(s, d)[n + 1]][g[n]]
    BY <2>1 DEF IsRun
  <2> QED
    BY <1>0, <2>1, <2>2, <2>3, <2>4
<1>3. S = Nat
  <2>1. S \in SUBSET Nat
    OBVIOUS
  <2> HIDE DEF S
  <2> QED
    BY <1>1, <1>2, <2>1, Counting
<1> QED
  BY <1>0, <1>3

(* Its value is where its run ends.                                        *)
LEMMA FoldHasRun ==
  ASSUME NEW T, NEW C, NEW step \in [C -> [T -> T]], NEW a \in T, NEW s \in Seq(C)
  PROVE  \E f : IsRun(f, step, a, s) /\ Fold(step, a, s) = f[Len(s)]
<1> DEFINE Eq(h) == h = [n \in 0..Len(s) |-> IF n = 0 THEN a ELSE step[s[n]][h[n - 1]]]
           after[n \in 0..Len(s)] == IF n = 0 THEN a ELSE step[s[n]][after[n - 1]]
<1>1. PICK f \in [0..Len(s) -> T] : IsRun(f, step, a, s)
  BY RunExists
<1>2. Eq(f)
  BY <1>1 DEF IsRun
<1>3. after = CHOOSE h : Eq(h)
  OBVIOUS
<1>4. Eq(after)
  <2> HIDE DEF Eq, after
  <2> QED
    BY <1>2, <1>3
<1>5. Fold(step, a, s) = after[Len(s)]
  BY DEF Fold
<1> HIDE DEF after
<1>6. IsRun(after, step, a, s)
  BY <1>4 DEF IsRun
<1> QED
  BY <1>5, <1>6

(* A fold of nothing is its start.                                         *)
LEMMA FoldOfNone ==
  ASSUME NEW step, NEW a PROVE Fold(step, a, <<>>) = a
<1> DEFINE Eq(h) == h = [n \in 0..0 |-> IF n = 0 THEN a ELSE step[(<<>>)[n]][h[n - 1]]]
           after[n \in 0..Len(<<>>)] == IF n = 0 THEN a ELSE step[(<<>>)[n]][after[n - 1]]
<1>1. Len(<<>>) = 0
  BY EmptySeq
<1>2. Eq([n \in 0..0 |-> a])
  OBVIOUS
<1>3. after = CHOOSE h : Eq(h)
  BY <1>1
<1>4. Eq(after)
  <2> HIDE DEF Eq, after
  <2> QED
    BY <1>2, <1>3
<1>5. Fold(step, a, <<>>) = after[Len(<<>>)]
  BY DEF Fold
<1> HIDE DEF after
<1> QED
  BY <1>1, <1>4, <1>5

(* A fold takes one step for one element more.                             *)
LEMMA FoldOfAppend ==
  ASSUME NEW T, NEW C, NEW step \in [C -> [T -> T]], NEW a \in T
  PROVE  \A s \in Seq(C), c \in C : Fold(step, a, Append(s, c)) = step[c][Fold(step, a, s)]
<1>0. \A t \in Seq(C) : \E f : IsRun(f, step, a, t) /\ Fold(step, a, t) = f[Len(t)]
  BY FoldHasRun
<1> TAKE s \in Seq(C), c \in C
<1>1. /\ Append(s, c) \in Seq(C) /\ Len(s) \in Nat /\ Len(Append(s, c)) = Len(s) + 1
      /\ Append(s, c)[Len(s) + 1] = c
  BY LenProperties, AppendProperties
<1>2. PICK f : IsRun(f, step, a, s) /\ Fold(step, a, s) = f[Len(s)]
  BY <1>0
<1>3. PICK g : IsRun(g, step, a, Append(s, c))
               /\ Fold(step, a, Append(s, c)) = g[Len(Append(s, c))]
  BY <1>0, <1>1
<1>4. f[Len(s)] = g[Len(s)]
  BY <1>2, <1>3, RunsAgree
<1>5. g[Len(s) + 1] = step[c][g[Len(s)]]
  <2>1. Len(s) + 1 \in 0..Len(Append(s, c)) /\ Len(s) + 1 # 0 /\ (Len(s) + 1) - 1 = Len(s)
    BY <1>1
  <2> QED
    BY <1>1, <1>3, <2>1 DEF IsRun
<1> QED
  BY <1>1, <1>2, <1>3, <1>4, <1>5

(* A fold stays in the type of its step.                                   *)
LEMMA FoldInRange ==
  ASSUME NEW T, NEW C, NEW step \in [C -> [T -> T]], NEW a \in T
  PROVE  \A s \in Seq(C) : Fold(step, a, s) \in T
<1> DEFINE S == {t \in Seq(C) : Fold(step, a, t) \in T}
<1>0. \A s \in Seq(C), c \in C : Fold(step, a, Append(s, c)) = step[c][Fold(step, a, s)]
  BY FoldOfAppend
<1>1. <<>> \in S
  BY FoldOfNone, EmptySeq
<1>2. ASSUME NEW t \in S, NEW c \in C PROVE Append(t, c) \in S
  BY <1>0, AppendProperties
<1>3. S = Seq(C)
  <2>1. S \in SUBSET Seq(C)
    OBVIOUS
  <2> HIDE DEF S
  <2> QED
    BY <1>1, <1>2, <2>1, Appending
<1> QED
  BY <1>3

-----------------------------------------------------------------------------
(* What vql_quote does to the text between its quotes.                     *)
LEMMA EscapedIs ==
  /\ Escaped(<<>>) = <<>>
  /\ \A v \in Texts : Escaped(v) \in Texts
  /\ \A v \in Texts, c \in Chars :
       Escaped(Append(v, c)) =
         IF c \in {Backslash, Apostrophe}
         THEN Append(Append(Escaped(v), Backslash), c) ELSE Append(Escaped(v), c)
<1>0. <<>> \in Texts /\ Backslash \in Chars /\ Apostrophe \in Chars
  BY EmptySeq DEF Texts, Chars, Quotes
<1>1. ASSUME NEW t \in Texts, NEW c \in Chars
      PROVE  /\ Append(t, c) \in Texts
             /\ t \o <<Backslash, c>> = Append(Append(t, Backslash), c)
             /\ Append(Append(t, Backslash), c) \in Texts
  BY <1>0 DEF Texts
<1>2. Escapes \in [Chars -> [Texts -> Texts]]
  BY <1>1 DEF Escapes
<1>3. ASSUME NEW t \in Texts, NEW c \in Chars
      PROVE  Escapes[c][t] = IF c \in {Backslash, Apostrophe}
                             THEN Append(Append(t, Backslash), c) ELSE Append(t, c)
  BY <1>1 DEF Escapes
<1>4. \A v \in Seq(Chars) : Fold(Escapes, <<>>, v) \in Texts
  BY <1>0, <1>2, FoldInRange
<1>5. \A v \in Seq(Chars), c \in Chars :
        Fold(Escapes, <<>>, Append(v, c)) = Escapes[c][Fold(Escapes, <<>>, v)]
  BY <1>0, <1>2, FoldOfAppend
<1> QED
  BY <1>3, <1>4, <1>5, FoldOfNone DEF Escaped, Texts

(* What one str::replace does.                                             *)
LEMMA CopyIs ==
  ASSUME NEW c \in Chars
  PROVE  /\ Copy(c, <<>>) = [text |-> <<>>, free |-> FALSE]
         /\ \A s \in Texts : Copy(c, s) \in Copies
         /\ \A s \in Texts, d \in Chars :
              Copy(c, Append(s, d)) =
                IF Copy(c, s).free /\ d = c
                THEN [text |-> Append(SubSeq(Copy(c, s).text, 1, Len(Copy(c, s).text) - 1), c),
                      free |-> FALSE]
                ELSE [text |-> Append(Copy(c, s).text, d), free |-> d = Backslash]
<1> DEFINE start == [text |-> <<>>, free |-> FALSE]
<1>0. start \in Copies
  BY EmptySeq DEF Copies, Texts
<1>1. ASSUME NEW t \in Texts, NEW d \in Chars
      PROVE  Append(t, d) \in Texts /\ Append(SubSeq(t, 1, Len(t) - 1), d) \in Texts
  <2>1. Len(t) \in Nat /\ \A n \in 1..(Len(t) - 1) : t[n] \in Chars
    BY LenProperties, ElementOfSeq DEF Texts
  <2>2. SubSeq(t, 1, Len(t) - 1) \in Texts
    BY <2>1, SubSeqProperties DEF Texts
  <2> QED
    BY <2>2, AppendProperties DEF Texts
<1>2. ASSUME NEW r \in Copies, NEW d \in Chars
      PROVE  /\ Replaces(c)[d][r] =
                  IF r.free /\ d = c
                  THEN [text |-> Append(SubSeq(r.text, 1, Len(r.text) - 1), c), free |-> FALSE]
                  ELSE [text |-> Append(r.text, d), free |-> d = Backslash]
             /\ Replaces(c)[d][r] \in Copies
  <2>1. r.text \in Texts /\ r.free \in BOOLEAN
    BY DEF Copies
  <2>2. Append(r.text, d) \in Texts /\ Append(SubSeq(r.text, 1, Len(r.text) - 1), c) \in Texts
    BY <1>1, <2>1
  <2>3. Replaces(c)[d][r] =
          IF r.free /\ d = c
          THEN [text |-> Append(SubSeq(r.text, 1, Len(r.text) - 1), c), free |-> FALSE]
          ELSE [text |-> Append(r.text, d), free |-> d = Backslash]
    BY DEF Replaces
  <2> QED
    BY <2>2, <2>3 DEF Copies
<1>3. Replaces(c) \in [Chars -> [Copies -> Copies]]
  <2>1. \A d \in Chars : \A r \in Copies :
          (IF r.free /\ d = c
           THEN [text |-> Append(SubSeq(r.text, 1, Len(r.text) - 1), c), free |-> FALSE]
           ELSE [text |-> Append(r.text, d), free |-> d = Backslash]) \in Copies
    BY <1>2
  <2> QED
    BY <2>1 DEF Replaces
<1> HIDE DEF start
<1>4. \A s \in Seq(Chars) : Fold(Replaces(c), start, s) \in Copies
  BY <1>0, <1>3, FoldInRange
<1>5. \A s \in Seq(Chars), d \in Chars :
        Fold(Replaces(c), start, Append(s, d)) = Replaces(c)[d][Fold(Replaces(c), start, s)]
  BY <1>0, <1>3, FoldOfAppend
<1>6. \A s : Copy(c, s) = Fold(Replaces(c), start, s)
  BY DEF Copy, start
<1>7. Copy(c, <<>>) = start
  BY <1>6, FoldOfNone
<1>8. \A s \in Texts : Copy(c, s) \in Copies
  BY <1>4, <1>6 DEF Texts
<1>9. ASSUME NEW s \in Texts, NEW d \in Chars
      PROVE  Copy(c, Append(s, d)) =
               IF Copy(c, s).free /\ d = c
               THEN [text |-> Append(SubSeq(Copy(c, s).text, 1, Len(Copy(c, s).text) - 1), c),
                     free |-> FALSE]
               ELSE [text |-> Append(Copy(c, s).text, d), free |-> d = Backslash]
  <2>1. Copy(c, Append(s, d)) = Replaces(c)[d][Copy(c, s)]
    BY <1>5, <1>6 DEF Texts
  <2> DEFINE r == Copy(c, s)
  <2>2. r \in Copies
    BY <1>8
  <2> HIDE DEF r
  <2>3. Replaces(c)[d][r] =
          IF r.free /\ d = c
          THEN [text |-> Append(SubSeq(r.text, 1, Len(r.text) - 1), c), free |-> FALSE]
          ELSE [text |-> Append(r.text, d), free |-> d = Backslash]
    BY <1>2, <2>2
  <2> QED
    BY <2>1, <2>3 DEF r
<1>10. Copy(c, <<>>) = [text |-> <<>>, free |-> FALSE]
  BY <1>7 DEF start
<1> QED
  BY <1>8, <1>9, <1>10

(* The escaped text, with apostrophes as they were: backslashes are doubled. *)
Doubled(v) == Unescaped(Escaped(v), Apostrophe)

(* The first replacement leaves all but the backslashes as they were.      *)
LEMMA DoubledIs ==
  /\ Doubled(<<>>) = <<>>
  /\ \A v \in Texts : Doubled(v) \in Texts
  /\ \A v \in Texts, c \in Chars :
       Doubled(Append(v, c)) =
         IF c = Backslash THEN Append(Append(Doubled(v), Backslash), Backslash)
         ELSE Append(Doubled(v), c)
<1> USE DEF Doubled, Unescaped
<1>0. Apostrophe \in Chars /\ Backslash \in Chars /\ Apostrophe # Backslash
  BY DEF Chars, Quotes, Apostrophe, Backslash, Quotation
<1>1. Doubled(<<>>) = <<>>
  BY <1>0, EscapedIs, CopyIs
<1>2. \A s \in Texts : Copy(Apostrophe, s).text \in Texts /\ Copy(Apostrophe, s).free \in BOOLEAN
  BY <1>0, CopyIs DEF Copies
<1>3. ASSUME NEW v \in Texts PROVE Doubled(v) \in Texts
  BY <1>2, EscapedIs
<1>4. ASSUME NEW v \in Texts, NEW c \in Chars
      PROVE  Doubled(Append(v, c)) =
               IF c = Backslash THEN Append(Append(Doubled(v), Backslash), Backslash)
               ELSE Append(Doubled(v), c)
  <2> DEFINE e == Escaped(v)
             r == Copy(Apostrophe, e)
  <2>1. e \in Texts /\ Append(e, Backslash) \in Texts /\ r.text \in Texts
    BY <1>0, <1>2, EscapedIs, AppendProperties DEF Texts
  <2>2. Copy(Apostrophe, Append(e, Backslash)) = [text |-> Append(r.text, Backslash), free |-> TRUE]
    BY <1>0, <2>1, CopyIs
  <2>3. CASE c = Backslash
    <3>1. Escaped(Append(v, c)) = Append(Append(e, Backslash), Backslash)
      BY <2>3, EscapedIs
    <3>2. Copy(Apostrophe, Append(Append(e, Backslash), Backslash)).text
            = Append(Append(r.text, Backslash), Backslash)
      BY <1>0, <2>1, <2>2, CopyIs
    <3> QED
      BY <2>3, <3>1, <3>2
  <2>4. CASE c = Apostrophe
    <3>1. Escaped(Append(v, c)) = Append(Append(e, Backslash), Apostrophe)
      BY <2>4, EscapedIs
    <3>2. SubSeq(Append(r.text, Backslash), 1, Len(Append(r.text, Backslash)) - 1) = r.text
      BY <1>0, <2>1 DEF Texts
    <3>3. Copy(Apostrophe, Append(Append(e, Backslash), Apostrophe)).text
            = Append(r.text, Apostrophe)
      BY <1>0, <2>1, <2>2, <3>2, CopyIs
    <3> QED
      BY <1>0, <2>4, <3>1, <3>3
  <2>5. CASE c \notin {Backslash, Apostrophe}
    <3>1. Escaped(Append(v, c)) = Append(e, c)
      BY <2>5, EscapedIs
    <3>2. Copy(Apostrophe, Append(e, c)).text = Append(r.text, c)
      BY <1>0, <2>1, <2>5, CopyIs
    <3> QED
      BY <2>5, <3>1, <3>2
  <2> QED
    BY <2>3, <2>4, <2>5
<1> QED
  BY <1>1, <1>3, <1>4

(* One more character, by component.                                       *)
LEMMA CopyOn ==
  ASSUME NEW c \in Chars, NEW s \in Texts, NEW d \in Chars
  PROVE  /\ Append(s, d) \in Texts
         /\ Copy(c, s).text \in Texts
         /\ Copy(c, s).free /\ d = c
              => /\ ~Copy(c, Append(s, d)).free
                 /\ Copy(c, Append(s, d)).text
                      = Append(SubSeq(Copy(c, s).text, 1, Len(Copy(c, s).text) - 1), c)
         /\ ~(Copy(c, s).free /\ d = c)
              => /\ Copy(c, Append(s, d)).free <=> d = Backslash
                 /\ Copy(c, Append(s, d)).text = Append(Copy(c, s).text, d)
<1> DEFINE r == Copy(c, s)
           t == Copy(c, Append(s, d))
<1>1. t = IF r.free /\ d = c
          THEN [text |-> Append(SubSeq(r.text, 1, Len(r.text) - 1), c), free |-> FALSE]
          ELSE [text |-> Append(r.text, d), free |-> d = Backslash]
  BY CopyIs
<1>2. Append(s, d) \in Texts
  BY AppendProperties DEF Texts
<1>3. r \in Copies
  BY CopyIs
<1> HIDE DEF r, t
<1>4. CASE r.free /\ d = c
  <2>1. t = [text |-> Append(SubSeq(r.text, 1, Len(r.text) - 1), c), free |-> FALSE]
    BY <1>1, <1>4
  <2> QED
    BY <1>2, <1>3, <1>4, <2>1 DEF r, t, Copies
<1>5. CASE ~(r.free /\ d = c)
  <2>1. t = [text |-> Append(r.text, d), free |-> d = Backslash]
    BY <1>1, <1>5
  <2>2. t.text = Append(r.text, d)
    BY <2>1
  <2>3. t.free = (d = Backslash)
    BY <2>1
  <2>4. r.text \in Texts
    BY <1>3 DEF Copies
  <2> QED
    BY <1>2, <1>5, <2>2, <2>3, <2>4 DEF r, t
<1> QED
  BY <1>4, <1>5

(* Removing what was appended.                                             *)
LEMMA ButLast ==
  ASSUME NEW s \in Texts, NEW d \in Chars
  PROVE  SubSeq(Append(s, d), 1, Len(Append(s, d)) - 1) = s
BY DEF Texts

(* After the second replacement: a backslash that is free, the second of a *)
(* pair, may still go; but for it the third replacement leaves v.          *)
Leaves(x, v, b) == Copy(Backslash, x).text = v /\ (Copy(Backslash, x).free <=> b)
Halved(v) ==
  IF Copy(Quotation, Doubled(v)).free
  THEN \E w \in Texts, x \in Texts :
         /\ v = Append(w, Backslash)
         /\ Copy(Quotation, Doubled(v)).text = Append(x, Backslash)
         /\ Leaves(x, v, TRUE)
  ELSE Leaves(Copy(Quotation, Doubled(v)).text, v, FALSE)

(* The third replacement leaves v.                                         *)
LEMMA HalvedIsBack ==
  ASSUME NEW v \in Texts, Halved(v)
  PROVE  Leaves(Copy(Quotation, Doubled(v)).text, v, FALSE)
<1> DEFINE r == Copy(Quotation, Doubled(v))
<1>1. CASE r.free
  <2>1. PICK w \in Texts, x \in Texts :
          /\ v = Append(w, Backslash) /\ r.text = Append(x, Backslash) /\ Leaves(x, v, TRUE)
    BY <1>1 DEF Halved
  <2>2. Backslash \in Chars
    BY DEF Chars
  <2>3. SubSeq(v, 1, Len(v) - 1) = w
    BY <2>1, <2>2, ButLast
  <2>4. Copy(Backslash, x).text = v /\ Copy(Backslash, x).free
    BY <2>1 DEF Leaves
  <2>5. Copy(Backslash, Append(x, Backslash)).text = Append(w, Backslash)
        /\ ~Copy(Backslash, Append(x, Backslash)).free
    BY <2>2, <2>3, <2>4, CopyOn
  <2> QED
    BY <2>1, <2>5 DEF Leaves
<1>2. CASE ~r.free
  BY <1>2 DEF Halved
<1> QED
  BY <1>1, <1>2

(* And does so whatever character comes next.                              *)
LEMMA HalvedKept ==
  ASSUME NEW v \in Texts, NEW c \in Chars, Halved(v)
  PROVE  Halved(Append(v, c))
<1> DEFINE r == Copy(Quotation, Doubled(v))
           t == Copy(Quotation, Doubled(Append(v, c)))
<1>0. /\ Backslash \in Chars /\ Quotation \in Chars /\ Backslash # Quotation
      /\ Doubled(v) \in Texts /\ r.text \in Texts /\ Append(v, c) \in Texts
      /\ Append(Doubled(v), Backslash) \in Texts /\ Append(r.text, Backslash) \in Texts
  <2>1. Backslash \in Chars /\ Quotation \in Chars /\ Backslash # Quotation
    BY DEF Chars, Quotes, Quotation, Backslash
  <2>2. Doubled(v) \in Texts
    BY DoubledIs
  <2>3. r.text \in Texts
    BY <2>1, <2>2, CopyOn
  <2> QED
    BY <2>1, <2>2, <2>3, CopyOn
<1>1. Copy(Backslash, r.text).text = v /\ ~Copy(Backslash, r.text).free
  BY HalvedIsBack DEF Leaves
<1> DEFINE Goal == Halved(Append(v, c))
<1>2. CASE c = Backslash
  <2>1. Doubled(Append(v, c)) = Append(Append(Doubled(v), Backslash), Backslash)
    BY <1>2, DoubledIs
  <2>2. /\ Copy(Quotation, Append(Doubled(v), Backslash)).text = Append(r.text, Backslash)
        /\ Copy(Quotation, Append(Doubled(v), Backslash)).free
    BY <1>0, CopyOn
  <2>3. t.text = Append(Append(r.text, Backslash), Backslash) /\ t.free
    BY <1>0, <2>1, <2>2, CopyOn
  <2>4. Copy(Backslash, Append(r.text, Backslash)).text = Append(v, Backslash)
        /\ Copy(Backslash, Append(r.text, Backslash)).free
    BY <1>0, <1>1, CopyOn
  <2>5. Leaves(Append(r.text, Backslash), Append(v, c), TRUE)
    BY <1>2, <2>4 DEF Leaves
  <2>6. \E w \in Texts, x \in Texts :
         /\ Append(v, c) = Append(w, Backslash)
         /\ t.text = Append(x, Backslash)
         /\ Leaves(x, Append(v, c), TRUE)
    BY <1>0, <1>2, <2>3, <2>5
  <2> QED
    BY <2>3, <2>6 DEF Halved
<1>3. CASE c # Backslash
  <2>1. Doubled(Append(v, c)) = Append(Doubled(v), c)
    BY <1>3, DoubledIs
  <2>2. CASE r.free /\ c = Quotation
    <3>1. PICK w \in Texts, x \in Texts :
            /\ v = Append(w, Backslash) /\ r.text = Append(x, Backslash)
            /\ Leaves(x, v, TRUE)
      BY <2>2 DEF Halved
    <3>2. SubSeq(r.text, 1, Len(r.text) - 1) = x
      BY <1>0, <3>1, ButLast
    <3>3. t.text = Append(x, c) /\ ~t.free
      <4>1. /\ ~Copy(Quotation, Append(Doubled(v), c)).free
            /\ Copy(Quotation, Append(Doubled(v), c)).text
                 = Append(SubSeq(r.text, 1, Len(r.text) - 1), Quotation)
        BY <1>0, <2>2, CopyOn
      <4> QED
        BY <2>1, <2>2, <3>2, <4>1
    <3>4. Copy(Backslash, x).text = v
      BY <3>1 DEF Leaves
    <3>5. Copy(Backslash, Append(x, c)).text = Append(v, c) /\ ~Copy(Backslash, Append(x, c)).free
      BY <1>0, <1>3, <3>4, CopyOn
    <3>6. Leaves(t.text, Append(v, c), FALSE)
      BY <3>3, <3>5 DEF Leaves
    <3> QED
      BY <3>3, <3>6 DEF Halved
  <2>3. CASE ~(r.free /\ c = Quotation)
    <3>1. t.text = Append(r.text, c) /\ ~t.free
      BY <1>0, <1>3, <2>1, <2>3, CopyOn
    <3>2. Copy(Backslash, Append(r.text, c)).text = Append(v, c)
          /\ ~Copy(Backslash, Append(r.text, c)).free
      BY <1>0, <1>1, <1>3, CopyOn
    <3>3. Leaves(t.text, Append(v, c), FALSE)
      BY <3>1, <3>2 DEF Leaves
    <3> QED
      BY <3>1, <3>3 DEF Halved
  <2> QED
    BY <2>2, <2>3
<1> QED
  BY <1>2, <1>3

(* The three replacements undo the escaping, for every text.               *)
LEMMA UnquotesQuoted ==
  ASSUME NEW v \in Texts
  PROVE  Unescaped(Unescaped(Unescaped(Escaped(v), Apostrophe), Quotation), Backslash) = v
<1> DEFINE S == {w \in Texts : Halved(w)}
<1>0. Backslash \in Chars /\ Quotation \in Chars
  BY DEF Chars, Quotes
<1>1. <<>> \in S
  <2>0. <<>> \in Texts
    BY EmptySeq DEF Texts
  <2>1. Copy(Quotation, Doubled(<<>>)) = [text |-> <<>>, free |-> FALSE]
    BY <1>0, DoubledIs, CopyIs
  <2>2. Copy(Backslash, <<>>) = [text |-> <<>>, free |-> FALSE]
    BY <1>0, CopyIs
  <2>3. Copy(Quotation, Doubled(<<>>)).text = <<>> /\ ~Copy(Quotation, Doubled(<<>>)).free
        /\ Copy(Backslash, <<>>).text = <<>> /\ ~Copy(Backslash, <<>>).free
    BY <2>1, <2>2
  <2>4. Halved(<<>>)
    BY <2>3 DEF Halved, Leaves
  <2> QED
    BY <2>0, <2>4
<1>2. ASSUME NEW w \in S, NEW c \in Chars PROVE Append(w, c) \in S
  <2>1. w \in Texts /\ Halved(w)
    OBVIOUS
  <2>2. Halved(Append(w, c))
    BY <2>1, HalvedKept
  <2> QED
    BY <2>1, <2>2, CopyOn, <1>0
<1>3. S = Seq(Chars)
  <2>1. S \in SUBSET Seq(Chars)
    BY DEF Texts
  <2> HIDE DEF S
  <2> QED
    BY <1>1, <1>2, <2>1, Appending
<1>4. Halved(v)
  BY <1>3 DEF Texts
<1> QED
  BY <1>4, HalvedIsBack DEF Doubled, Unescaped, Leaves

-----------------------------------------------------------------------------
(* The part of the call before the closing apostrophe.                     *)
Lead(v) == <<"k", "=", Apostrophe>> \o Escaped(v)

(* It grows with the value.                                                *)
LEMMA LeadIs ==
  /\ Lead(<<>>) = <<"k", "=", Apostrophe>>
  /\ \A v \in Texts : Lead(v) \in Texts
  /\ \A v \in Texts, c \in Chars :
       /\ Append(Lead(v), c) \in Texts
       /\ c \in {Backslash, Apostrophe} =>
            Lead(Append(v, c)) = Append(Append(Lead(v), Backslash), c)
       /\ c \notin {Backslash, Apostrophe} => Lead(Append(v, c)) = Append(Lead(v), c)
<1> DEFINE kea == <<"k", "=", Apostrophe>>
<1>0. Backslash \in Chars /\ kea \in Texts
  <2>1. "k" \in Chars /\ "=" \in Chars /\ Apostrophe \in Chars /\ Backslash \in Chars
    BY DEF Chars, Quotes
  <2> QED
    BY <2>1 DEF Texts
<1> HIDE DEF kea
<1>1. \A v : Lead(v) = kea \o Escaped(v)
  BY DEF Lead, kea
<1>2. ASSUME NEW t \in Texts, NEW c \in Chars
      PROVE  /\ kea \o t \in Texts /\ Append(t, c) \in Texts
             /\ kea \o Append(t, c) = Append(kea \o t, c)
  BY <1>0 DEF Texts
<1>3. Lead(<<>>) = kea
  BY <1>0, <1>1, EscapedIs DEF Texts
<1>4. ASSUME NEW v \in Texts PROVE Lead(v) \in Texts
  BY <1>0, <1>1, <1>2, EscapedIs
<1>5. ASSUME NEW v \in Texts, NEW c \in Chars
      PROVE  /\ Append(Lead(v), c) \in Texts
             /\ c \in {Backslash, Apostrophe} =>
                  Lead(Append(v, c)) = Append(Append(Lead(v), Backslash), c)
             /\ c \notin {Backslash, Apostrophe} => Lead(Append(v, c)) = Append(Lead(v), c)
  <2>1. Escaped(v) \in Texts /\ Append(Escaped(v), Backslash) \in Texts
    BY <1>0, <1>2, EscapedIs
  <2>2. CASE c \in {Backslash, Apostrophe}
    <3>1. Escaped(Append(v, c)) = Append(Append(Escaped(v), Backslash), c)
      BY <2>2, EscapedIs
    <3>2. Lead(Append(v, c)) = kea \o Append(Append(Escaped(v), Backslash), c)
      BY <1>1, <3>1
    <3>3. kea \o Append(Append(Escaped(v), Backslash), c)
            = Append(kea \o Append(Escaped(v), Backslash), c)
      BY <1>2, <2>1
    <3>4. kea \o Append(Escaped(v), Backslash) = Append(Lead(v), Backslash)
      BY <1>0, <1>1, <1>2, <2>1
    <3> QED
      BY <1>2, <1>4, <2>2, <3>2, <3>3, <3>4
  <2>3. CASE c \notin {Backslash, Apostrophe}
    <3>1. Escaped(Append(v, c)) = Append(Escaped(v), c)
      BY <2>3, EscapedIs
    <3>2. Lead(Append(v, c)) = Append(Lead(v), c)
      BY <1>1, <1>2, <2>1, <3>1
    <3> QED
      BY <1>2, <1>4, <2>3, <3>2
  <2> QED
    BY <2>2, <2>3
<1> QED
  BY <1>3, <1>4, <1>5 DEF kea

(* The depth of a value, in all that is read of it.                        *)
Level(v) == \A n \in 0..Len(v) : Depth(SubSeq(v, 1, n)) >= 0

(* One character changes it by its turn.                                   *)
LEMMA DepthIs ==
  /\ Depth(<<>>) = 0
  /\ \A v \in Texts : Depth(v) \in Int
  /\ \A v \in Texts, c \in Chars : Depth(Append(v, c)) = Depth(v) + Turn(c)
<1>1. \A c : Turn(c) \in Int
  BY DEF Turn
<1> DEFINE zero == 0
           Depths == Int
<1>2. Deepens \in [Chars -> [Depths -> Depths]] /\ zero \in Depths
  BY <1>1 DEF Deepens
<1>3. ASSUME NEW c \in Chars, NEW n \in Int PROVE Deepens[c][n] = n + Turn(c)
  BY DEF Deepens
<1> HIDE DEF zero, Depths
<1>4. \A v \in Seq(Chars) : Fold(Deepens, zero, v) \in Depths
  BY <1>2, FoldInRange
<1>5. \A v \in Seq(Chars), c \in Chars :
        Fold(Deepens, zero, Append(v, c)) = Deepens[c][Fold(Deepens, zero, v)]
  BY <1>2, FoldOfAppend
<1>6. Depth(<<>>) = 0
  BY FoldOfNone DEF Depth, zero
<1>7. \A v : Depth(v) = Fold(Deepens, zero, v)
  BY DEF Depth, zero
<1>8. \A v \in Texts : Depth(v) \in Int
  BY <1>4, <1>7 DEF Texts, Depths
<1>9. ASSUME NEW v \in Texts, NEW c \in Chars PROVE Depth(Append(v, c)) = Depth(v) + Turn(c)
  <2>1. Depth(Append(v, c)) = Deepens[c][Depth(v)]
    BY <1>5, <1>7 DEF Texts
  <2> QED
    BY <1>3, <1>8, <2>1
<1> QED
  BY <1>6, <1>8, <1>9

(* A value that closes nothing it has not opened starts with one.          *)
LEMMA LevelOn ==
  ASSUME NEW v \in Texts, NEW c \in Chars, Level(Append(v, c))
  PROVE  Level(v) /\ Depth(v) + Turn(c) >= 0
<1>0. Len(v) \in Nat /\ Len(Append(v, c)) = Len(v) + 1
  BY LenProperties, AppendProperties DEF Texts
<1>1. ASSUME NEW n \in 0..Len(v) PROVE Depth(SubSeq(v, 1, n)) >= 0
  <2>1. SubSeq(Append(v, c), 1, n) = SubSeq(v, 1, n)
    BY <1>0 DEF Texts
  <2>2. n \in 0..Len(Append(v, c))
    BY <1>0
  <2> QED
    BY <2>1, <2>2 DEF Level
<1>2. Depth(Append(v, c)) >= 0
  <2>1. SubSeq(Append(v, c), 1, Len(v) + 1) = Append(v, c)
    BY <1>0 DEF Texts
  <2>2. Len(v) + 1 \in 0..Len(Append(v, c))
    BY <1>0
  <2> QED
    BY <2>1, <2>2 DEF Level
<1> QED
  BY <1>1, <1>2, DepthIs DEF Level

(* What the search for the closing parenthesis does.                       *)
LEMMA OpenedIs ==
  /\ Opened(<<>>) = [inside |-> <<>>, depth |-> 0, closed |-> FALSE]
  /\ \A s \in Texts : Opened(s) \in Openings
  /\ \A s \in Texts, d \in Chars :
       Opened(Append(s, d)) =
         IF Opened(s).closed THEN Opened(s)
         ELSE IF d = ")" /\ Opened(s).depth = 0 THEN [Opened(s) EXCEPT !.closed = TRUE]
         ELSE [inside |-> Append(Opened(s).inside, d), depth |-> Opened(s).depth + Turn(d),
               closed |-> FALSE]
<1> DEFINE start == [inside |-> <<>>, depth |-> 0, closed |-> FALSE]
           After(r, d) ==
             IF r.closed THEN r
             ELSE IF d = ")" /\ r.depth = 0 THEN [r EXCEPT !.closed = TRUE]
             ELSE [inside |-> Append(r.inside, d), depth |-> r.depth + Turn(d),
                   closed |-> FALSE]
<1>0. start \in Openings
  BY EmptySeq DEF Openings, Texts
<1>1. ASSUME NEW r \in Openings, NEW d \in Chars PROVE After(r, d) \in Openings
  <2>1. /\ r.inside \in Texts /\ r.depth \in Int /\ r.closed \in BOOLEAN
        /\ Append(r.inside, d) \in Texts /\ r.depth + Turn(d) \in Int
    <3>1. r.inside \in Texts /\ r.depth \in Int /\ r.closed \in BOOLEAN
      BY DEF Openings
    <3> QED
      BY <3>1, AppendProperties DEF Texts, Turn
  <2>2. [r EXCEPT !.closed = TRUE] \in Openings
    BY DEF Openings
  <2>3. [inside |-> Append(r.inside, d), depth |-> r.depth + Turn(d), closed |-> FALSE] \in Openings
    BY <2>1 DEF Openings
  <2> QED
    BY <2>2, <2>3
<1>2. Closes = [d \in Chars |-> [r \in Openings |-> After(r, d)]]
  BY DEF Closes
<1> HIDE DEF start, After
<1>3. Closes \in [Chars -> [Openings -> Openings]]
  BY <1>1, <1>2
<1>4. \A s \in Seq(Chars) : Fold(Closes, start, s) \in Openings
  BY <1>0, <1>3, FoldInRange
<1>5. \A s \in Seq(Chars), d \in Chars :
        Fold(Closes, start, Append(s, d)) = Closes[d][Fold(Closes, start, s)]
  BY <1>0, <1>3, FoldOfAppend
<1>6. \A s : Opened(s) = Fold(Closes, start, s)
  BY DEF Opened, start
<1>7. Opened(<<>>) = start
  BY <1>6, FoldOfNone
<1>8. \A s \in Texts : Opened(s) \in Openings
  BY <1>4, <1>6 DEF Texts
<1>9. ASSUME NEW s \in Texts, NEW d \in Chars PROVE Opened(Append(s, d)) = After(Opened(s), d)
  BY <1>2, <1>5, <1>6, <1>8 DEF Texts
<1> QED
  BY <1>7, <1>8, <1>9 DEF start, After

(* One more character, by component.                                       *)
LEMMA OpenedOn ==
  ASSUME NEW s \in Texts, NEW d \in Chars, ~Opened(s).closed
  PROVE  /\ d = ")" /\ Opened(s).depth = 0
              => /\ Opened(Append(s, d)).closed
                 /\ Opened(Append(s, d)).inside = Opened(s).inside
         /\ ~(d = ")" /\ Opened(s).depth = 0)
              => /\ ~Opened(Append(s, d)).closed
                 /\ Opened(Append(s, d)).inside = Append(Opened(s).inside, d)
                 /\ Opened(Append(s, d)).depth = Opened(s).depth + Turn(d)
<1> DEFINE r == Opened(s)
           t == Opened(Append(s, d))
<1>1. t = IF r.closed THEN r
          ELSE IF d = ")" /\ r.depth = 0 THEN [r EXCEPT !.closed = TRUE]
          ELSE [inside |-> Append(r.inside, d), depth |-> r.depth + Turn(d), closed |-> FALSE]
  BY OpenedIs
<1>2. r \in Openings /\ ~r.closed
  BY OpenedIs
<1> HIDE DEF r, t
<1>3. CASE d = ")" /\ r.depth = 0
  <2>1. t = [r EXCEPT !.closed = TRUE]
    BY <1>1, <1>2, <1>3
  <2>2. t.closed /\ t.inside = r.inside
    BY <1>2, <2>1 DEF Openings
  <2> QED
    BY <1>3, <2>2 DEF r, t
<1>4. CASE ~(d = ")" /\ r.depth = 0)
  <2>1. t = [inside |-> Append(r.inside, d), depth |-> r.depth + Turn(d), closed |-> FALSE]
    BY <1>1, <1>2, <1>4
  <2>2. ~t.closed /\ t.inside = Append(r.inside, d) /\ t.depth = r.depth + Turn(d)
    BY <2>1
  <2> QED
    BY <1>4, <2>2 DEF r, t
<1> QED
  BY <1>3, <1>4

(* The call up to the apostrophe, character by character.                  *)
LEMMA AtFirst ==
  /\ "k" \in Chars /\ "=" \in Chars /\ Apostrophe \in Chars
  /\ <<>> \in Texts /\ <<"k">> \in Texts /\ <<"k", "=">> \in Texts
  /\ <<"k">> = Append(<<>>, "k") /\ <<"k", "=">> = Append(<<"k">>, "=")
  /\ <<"k", "=", Apostrophe>> = Append(<<"k", "=">>, Apostrophe)
<1>1. "k" \in Chars /\ "=" \in Chars /\ Apostrophe \in Chars
  BY DEF Chars, Quotes
<1> QED
  BY <1>1 DEF Texts

(* No parenthesis of the value ends the call early.                        *)
Held(v) == ~Opened(Lead(v)).closed /\ Opened(Lead(v)).inside = Lead(v)
           /\ Opened(Lead(v)).depth = Depth(v)

(* Before the value.                                                       *)
LEMMA HeldAtFirst == Held(<<>>)
<1> DEFINE k == <<"k">>
           ke == <<"k", "=">>
           kea == <<"k", "=", Apostrophe>>
<1>0. /\ "k" \in Chars /\ "=" \in Chars /\ Apostrophe \in Chars
      /\ Turn("k") = 0 /\ Turn("=") = 0 /\ Turn(Apostrophe) = 0
      /\ "k" # ")" /\ "=" # ")" /\ Apostrophe # ")"
  BY DEF Chars, Quotes, Turn, Apostrophe
<1>1. /\ <<>> \in Texts /\ k \in Texts /\ ke \in Texts
      /\ k = Append(<<>>, "k") /\ ke = Append(k, "=") /\ kea = Append(ke, Apostrophe)
  BY AtFirst
<1>2. ~Opened(<<>>).closed /\ Opened(<<>>).inside = <<>> /\ Opened(<<>>).depth = 0
  BY OpenedIs
<1> HIDE DEF k, ke, kea
<1> DEFINE Same(s) == ~Opened(s).closed /\ Opened(s).inside = s /\ Opened(s).depth = 0
<1>a. ASSUME NEW s \in Texts, NEW d \in Chars, d # ")", Turn(d) = 0, Same(s)
      PROVE  Same(Append(s, d))
  <2>1. /\ ~Opened(Append(s, d)).closed
        /\ Opened(Append(s, d)).inside = Append(Opened(s).inside, d)
        /\ Opened(Append(s, d)).depth = Opened(s).depth + Turn(d)
    BY <1>a, OpenedOn
  <2> QED
    BY <1>a, <2>1
<1>b. Same(<<>>)
  BY <1>2
<1> HIDE DEF Same
<1>3. Same(k)
  BY <1>0, <1>1, <1>a, <1>b
<1>4. Same(ke)
  BY <1>0, <1>1, <1>a, <1>3
<1>5. Same(kea)
  BY <1>0, <1>1, <1>a, <1>4
<1>6. Lead(<<>>) = kea
  BY LeadIs DEF kea
<1> QED
  BY <1>5, <1>6, DepthIs DEF Held, Same

(* One character of it more.                                               *)
LEMMA HeldOn ==
  ASSUME NEW v \in Texts, NEW c \in Chars, Held(v), Level(Append(v, c))
  PROVE  Held(Append(v, c))
<1> DEFINE l == Lead(v)
<1>0. /\ Backslash \in Chars /\ Backslash # ")" /\ Turn(Backslash) = 0
      /\ l \in Texts /\ Append(l, Backslash) \in Texts
  <2>1. Backslash \in Chars /\ Backslash # ")" /\ Turn(Backslash) = 0
    BY DEF Chars, Turn, Backslash
  <2> QED
    BY <2>1, LeadIs
<1>1. ~Opened(l).closed /\ Opened(l).inside = l /\ Opened(l).depth = Depth(v)
  BY DEF Held
<1>2. Depth(v) \in Int /\ Depth(Append(v, c)) = Depth(v) + Turn(c) /\ Depth(v) + Turn(c) >= 0
  BY DepthIs, LevelOn
<1>3. c = ")" => Depth(v) # 0
  BY <1>2 DEF Turn
<1>4. CASE c \in {Backslash, Apostrophe}
  <2>1. Lead(Append(v, c)) = Append(Append(l, Backslash), c)
    BY <1>4, LeadIs
  <2>2. /\ ~Opened(Append(l, Backslash)).closed
        /\ Opened(Append(l, Backslash)).inside = Append(l, Backslash)
        /\ Opened(Append(l, Backslash)).depth = Depth(v)
    BY <1>0, <1>1, <1>2, OpenedOn
  <2>3. /\ ~Opened(Append(Append(l, Backslash), c)).closed
        /\ Opened(Append(Append(l, Backslash), c)).inside = Append(Append(l, Backslash), c)
        /\ Opened(Append(Append(l, Backslash), c)).depth = Depth(v) + Turn(c)
    BY <1>0, <1>3, <2>2, OpenedOn
  <2> QED
    BY <1>2, <2>1, <2>3 DEF Held
<1>5. CASE c \notin {Backslash, Apostrophe}
  <2>1. Lead(Append(v, c)) = Append(l, c)
    BY <1>5, LeadIs
  <2>2. /\ ~Opened(Append(l, c)).closed
        /\ Opened(Append(l, c)).inside = Append(l, c)
        /\ Opened(Append(l, c)).depth = Depth(v) + Turn(c)
    BY <1>0, <1>1, <1>3, OpenedOn
  <2> QED
    BY <1>2, <2>1, <2>2 DEF Held
<1> QED
  BY <1>4, <1>5

(* All of it.                                                              *)
LEMMA LevelIsHeld ==
  ASSUME NEW v \in Texts, Level(v)
  PROVE  Held(v)
<1> DEFINE S == {w \in Texts : Level(w) => Held(w)}
<1>1. <<>> \in S
  BY HeldAtFirst, EmptySeq DEF Texts
<1>2. ASSUME NEW w \in S, NEW c \in Chars PROVE Append(w, c) \in S
  <2>1. w \in Texts /\ Append(w, c) \in Texts
    BY AppendProperties DEF Texts
  <2>2. ASSUME Level(Append(w, c)) PROVE Held(Append(w, c))
    <3>1. Level(w)
      BY <2>1, <2>2, LevelOn
    <3>2. Held(w)
      BY <3>1
    <3> QED
      BY <2>1, <2>2, <3>2, HeldOn
  <2> QED
    BY <2>1, <2>2
<1>3. S = Seq(Chars)
  <2>1. S \in SUBSET Seq(Chars)
    BY DEF Texts
  <2> HIDE DEF S
  <2> QED
    BY <1>1, <1>2, <2>1, Appending
<1> QED
  BY <1>3 DEF Texts

-----------------------------------------------------------------------------
(* What split_top_level_commas does.                                       *)
LEMMA CutIs ==
  /\ Cut(<<>>) = [parts |-> <<>>, part |-> <<>>, open |-> "none"]
  /\ \A s \in Texts : Cut(s) \in Cuts
  /\ \A s \in Texts, c \in Chars : Cut(Append(s, c)) = Splits[c][Cut(s)]
<1> DEFINE start == [parts |-> <<>>, part |-> <<>>, open |-> "none"]
<1>0. start \in Cuts
  BY EmptySeq DEF Cuts, Texts
<1>1. ASSUME NEW r \in Cuts, NEW c \in Chars
      PROVE  (IF c = "," /\ r.open = "none"
              THEN [parts |-> Append(r.parts, r.part), part |-> <<>>, open |-> "none"]
              ELSE [parts |-> r.parts,
                    part  |-> Append(r.part, c),
                    open  |-> IF c \notin Quotes THEN r.open
                              ELSE IF r.open = "none" THEN c
                              ELSE IF r.open = c THEN "none" ELSE r.open]) \in Cuts
  <2>1. r.parts \in Seq(Texts) /\ r.part \in Texts /\ r.open \in Quotes \cup {"none"}
    BY DEF Cuts
  <2>2. /\ Append(r.parts, r.part) \in Seq(Texts) /\ Append(r.part, c) \in Texts
        /\ <<>> \in Texts
    BY <2>1, AppendProperties, EmptySeq DEF Texts
  <2>3. [parts |-> Append(r.parts, r.part), part |-> <<>>, open |-> "none"] \in Cuts
    BY <2>2 DEF Cuts
  <2> DEFINE o == IF c \notin Quotes THEN r.open
                  ELSE IF r.open = "none" THEN c
                  ELSE IF r.open = c THEN "none" ELSE r.open
  <2>4. o \in Quotes \cup {"none"}
    BY <2>1
  <2> HIDE DEF o
  <2>5. [parts |-> r.parts, part |-> Append(r.part, c), open |-> o] \in Cuts
    BY <2>1, <2>2, <2>4 DEF Cuts
  <2> QED
    BY <2>3, <2>5 DEF o
<1>2. Splits \in [Chars -> [Cuts -> Cuts]]
  BY <1>1 DEF Splits
<1> HIDE DEF start
<1>3. \A s \in Seq(Chars) : Fold(Splits, start, s) \in Cuts
  BY <1>0, <1>2, FoldInRange
<1>4. \A s \in Seq(Chars), c \in Chars :
        Fold(Splits, start, Append(s, c)) = Splits[c][Fold(Splits, start, s)]
  BY <1>0, <1>2, FoldOfAppend
<1>5. \A s : Cut(s) = Fold(Splits, start, s)
  BY DEF Cut, start
<1>6. Cut(<<>>) = start
  BY <1>5, FoldOfNone
<1> QED
  BY <1>3, <1>4, <1>5, <1>6 DEF Texts, start

(* A character that is no comma outside quotes stays in the part.          *)
LEMMA CutOn ==
  ASSUME NEW s \in Texts, NEW c \in Chars, c = "," => Cut(s).open # "none"
  PROVE  /\ Cut(Append(s, c)).parts = Cut(s).parts
         /\ Cut(Append(s, c)).part = Append(Cut(s).part, c)
         /\ c \notin Quotes => Cut(Append(s, c)).open = Cut(s).open
         /\ c \in Quotes /\ Cut(s).open = "none" => Cut(Append(s, c)).open = c
         /\ c \in Quotes /\ Cut(s).open \notin {"none", c}
              => Cut(Append(s, c)).open = Cut(s).open
<1> DEFINE r == Cut(s)
           t == Cut(Append(s, c))
           o == IF c \notin Quotes THEN r.open
                ELSE IF r.open = "none" THEN c
                ELSE IF r.open = c THEN "none" ELSE r.open
<1>1. t = Splits[c][r] /\ r \in Cuts
  BY CutIs
<1>2. ~(c = "," /\ r.open = "none")
  OBVIOUS
<1> HIDE DEF r, t
<1>3. t = IF c = "," /\ r.open = "none"
          THEN [parts |-> Append(r.parts, r.part), part |-> <<>>, open |-> "none"]
          ELSE [parts |-> r.parts, part |-> Append(r.part, c), open |-> o]
  BY <1>1 DEF Splits
<1>4. o = IF c \notin Quotes THEN r.open
          ELSE IF r.open = "none" THEN c
          ELSE IF r.open = c THEN "none" ELSE r.open
  OBVIOUS
<1> HIDE DEF o
<1>5. t = [parts |-> r.parts, part |-> Append(r.part, c), open |-> o]
  BY <1>2, <1>3
<1>6. t.parts = r.parts /\ t.part = Append(r.part, c) /\ t.open = o
  BY <1>5
<1> QED
  BY <1>4, <1>6 DEF r, t

(* A text has the characters of its parts.                                 *)
LEMMA HasOn ==
  ASSUME NEW v \in Texts, NEW c \in Chars, NEW d
  PROVE  Has(Append(v, c), d) <=> Has(v, d) \/ d = c
<1>1. /\ Len(v) \in Nat /\ Len(Append(v, c)) = Len(v) + 1
      /\ Append(v, c)[Len(v) + 1] = c /\ \A n \in 1..Len(v) : Append(v, c)[n] = v[n]
  BY LenProperties, AppendProperties DEF Texts
<1>2. ASSUME Has(Append(v, c), d), d # c PROVE Has(v, d)
  <2>1. PICK n \in 1..Len(Append(v, c)) : Append(v, c)[n] = d
    BY <1>2 DEF Has
  <2>2. n \in 1..Len(v)
    BY <1>1, <1>2, <2>1
  <2> QED
    BY <1>1, <2>1, <2>2 DEF Has
<1>3. ASSUME Has(v, d) PROVE Has(Append(v, c), d)
  <2>1. PICK n \in 1..Len(v) : v[n] = d
    BY <1>3 DEF Has
  <2>2. n \in 1..Len(Append(v, c))
    BY <1>1
  <2> QED
    BY <1>1, <2>1, <2>2 DEF Has
<1>4. ASSUME d = c PROVE Has(Append(v, c), d)
  <2>1. Len(v) + 1 \in 1..Len(Append(v, c))
    BY <1>1
  <2> QED
    BY <1>1, <1>4, <2>1 DEF Has
<1> QED
  BY <1>2, <1>3, <1>4

(* No comma of the value cuts it, unless an apostrophe of its own, escaped *)
(* or not, ended the quote before.                                         *)
Uncut(v) == /\ Cut(Lead(v)).parts = <<>>
            /\ Cut(Lead(v)).part = Lead(v)
            /\ ~Has(v, Apostrophe) => Cut(Lead(v)).open = Apostrophe

(* Before the value.                                                       *)
LEMMA UncutAtFirst == Uncut(<<>>)
<1> DEFINE k == <<"k">>
           ke == <<"k", "=">>
           kea == <<"k", "=", Apostrophe>>
           Same(s) == Cut(s).parts = <<>> /\ Cut(s).part = s /\ Cut(s).open = "none"
<1>0. /\ "k" \in Chars /\ "=" \in Chars /\ Apostrophe \in Chars /\ Apostrophe \in Quotes
      /\ "k" \notin Quotes /\ "=" \notin Quotes
      /\ "k" # "," /\ "=" # "," /\ Apostrophe # ","
  BY DEF Chars, Quotes, Apostrophe, Quotation
<1>1. /\ <<>> \in Texts /\ k \in Texts /\ ke \in Texts
      /\ k = Append(<<>>, "k") /\ ke = Append(k, "=") /\ kea = Append(ke, Apostrophe)
  BY AtFirst
<1>2. Same(<<>>)
  BY CutIs
<1> HIDE DEF k, ke, kea
<1>3. ASSUME NEW s \in Texts, NEW c \in Chars, c # ",", c \notin Quotes, Same(s)
      PROVE  Same(Append(s, c))
  <2>1. /\ Cut(Append(s, c)).parts = Cut(s).parts
        /\ Cut(Append(s, c)).part = Append(Cut(s).part, c)
        /\ Cut(Append(s, c)).open = Cut(s).open
    BY <1>3, CutOn
  <2> QED
    BY <1>3, <2>1
<1> HIDE DEF Same
<1>4. Same(ke)
  <2>1. Same(k)
    BY <1>0, <1>1, <1>2, <1>3
  <2> QED
    BY <1>0, <1>1, <1>3, <2>1
<1>5. Cut(ke).parts = <<>> /\ Cut(ke).part = ke /\ Cut(ke).open = "none"
  BY <1>4 DEF Same
<1>6. /\ Cut(kea).parts = <<>> /\ Cut(kea).part = kea /\ Cut(kea).open = Apostrophe
  <2>1. /\ Cut(Append(ke, Apostrophe)).parts = Cut(ke).parts
        /\ Cut(Append(ke, Apostrophe)).part = Append(Cut(ke).part, Apostrophe)
        /\ Cut(Append(ke, Apostrophe)).open = Apostrophe
    BY <1>0, <1>1, <1>5, CutOn
  <2> QED
    BY <1>1, <1>5, <2>1
<1>7. Lead(<<>>) = kea
  BY LeadIs DEF kea
<1> QED
  BY <1>6, <1>7 DEF Uncut

(* One character of it more.                                               *)
LEMMA UncutOn ==
  ASSUME NEW v \in Texts, NEW c \in Chars, Uncut(v),
         ~(Has(Append(v, c), Apostrophe) /\ Has(Append(v, c), ","))
  PROVE  Uncut(Append(v, c))
<1> DEFINE l == Lead(v)
<1>0. /\ Backslash \in Chars /\ Backslash # "," /\ Backslash \notin Quotes
      /\ Apostrophe # Backslash /\ Apostrophe # "," /\ Apostrophe # "none"
      /\ l \in Texts /\ Append(l, Backslash) \in Texts
  <2>1. /\ Backslash \in Chars /\ Backslash # "," /\ Backslash \notin Quotes
        /\ Apostrophe # Backslash /\ Apostrophe # "," /\ Apostrophe # "none"
    BY DEF Chars, Quotes, Backslash, Apostrophe, Quotation
  <2> QED
    BY <2>1, LeadIs
<1>1. /\ Cut(l).parts = <<>> /\ Cut(l).part = l
      /\ ~Has(v, Apostrophe) => Cut(l).open = Apostrophe
  BY DEF Uncut
<1>2. /\ Has(Append(v, c), Apostrophe) <=> Has(v, Apostrophe) \/ Apostrophe = c
      /\ Has(Append(v, c), ",") <=> Has(v, ",") \/ "," = c
  BY HasOn
<1>3. c = "," => Cut(l).open # "none"
  BY <1>0, <1>1, <1>2
<1>4. CASE c \in {Backslash, Apostrophe}
  <2>1. Lead(Append(v, c)) = Append(Append(l, Backslash), c)
    BY <1>4, LeadIs
  <2>2. /\ Cut(Append(l, Backslash)).parts = <<>>
        /\ Cut(Append(l, Backslash)).part = Append(l, Backslash)
        /\ Cut(Append(l, Backslash)).open = Cut(l).open
    BY <1>0, <1>1, CutOn
  <2>3. c # "," /\ c \in Chars
    BY <1>0, <1>4
  <2>4. /\ Cut(Append(Append(l, Backslash), c)).parts = <<>>
        /\ Cut(Append(Append(l, Backslash), c)).part = Append(Append(l, Backslash), c)
        /\ c \notin Quotes => Cut(Append(Append(l, Backslash), c)).open = Cut(l).open
    BY <1>0, <2>2, <2>3, CutOn
  <2>5. ~Has(Append(v, c), Apostrophe) => c \notin Quotes /\ Cut(l).open = Apostrophe
    BY <1>0, <1>1, <1>2, <1>4
  <2> QED
    BY <2>1, <2>4, <2>5 DEF Uncut
<1>5. CASE c \notin {Backslash, Apostrophe}
  <2>1. Lead(Append(v, c)) = Append(l, c)
    BY <1>5, LeadIs
  <2>2. /\ Cut(Append(l, c)).parts = <<>>
        /\ Cut(Append(l, c)).part = Append(l, c)
        /\ c \notin Quotes => Cut(Append(l, c)).open = Cut(l).open
        /\ c \in Quotes /\ Cut(l).open \notin {"none", c} => Cut(Append(l, c)).open = Cut(l).open
    BY <1>0, <1>1, <1>3, CutOn
  <2>3. ~Has(Append(v, c), Apostrophe) => Cut(Append(l, c)).open = Apostrophe
    BY <1>0, <1>1, <1>2, <1>5, <2>2
  <2> QED
    BY <2>1, <2>2, <2>3 DEF Uncut
<1> QED
  BY <1>4, <1>5

(* All of it.                                                              *)
LEMMA NotCut ==
  ASSUME NEW v \in Texts, ~(Has(v, Apostrophe) /\ Has(v, ","))
  PROVE  Uncut(v)
<1> DEFINE S == {w \in Texts : ~(Has(w, Apostrophe) /\ Has(w, ",")) => Uncut(w)}
<1>1. <<>> \in S
  BY UncutAtFirst, EmptySeq DEF Texts
<1>2. ASSUME NEW w \in S, NEW c \in Chars PROVE Append(w, c) \in S
  <2>1. w \in Texts /\ Append(w, c) \in Texts
    BY AppendProperties DEF Texts
  <2>2. ASSUME ~(Has(Append(w, c), Apostrophe) /\ Has(Append(w, c), ","))
        PROVE  Uncut(Append(w, c))
    <3>1. ~(Has(w, Apostrophe) /\ Has(w, ","))
      BY <2>1, <2>2, HasOn
    <3>2. Uncut(w)
      BY <3>1
    <3> QED
      BY <2>1, <2>2, <3>2, UncutOn
  <2> QED
    BY <2>1, <2>2
<1>3. S = Seq(Chars)
  <2>1. S \in SUBSET Seq(Chars)
    BY DEF Texts
  <2> HIDE DEF S
  <2> QED
    BY <1>1, <1>2, <2>1, Appending
<1> QED
  BY <1>3 DEF Texts

-----------------------------------------------------------------------------
(* unquote_value returns a text.                                           *)
LEMMA UnquoteIsText ==
  ASSUME NEW t \in Texts
  PROVE  Unquote(t) \in Texts
<1>0. Apostrophe \in Chars /\ Quotation \in Chars /\ Backslash \in Chars
  BY DEF Chars, Quotes
<1>1. \A c \in Chars, s \in Texts : Unescaped(s, c) \in Texts
  BY CopyOn DEF Unescaped
<1>2. SubSeq(t, 2, Len(t) - 1) \in Texts
  <2>1. Len(t) \in Nat /\ \A n \in 2..(Len(t) - 1) : t[n] \in Chars
    BY LenProperties, ElementOfSeq DEF Texts
  <2> QED
    BY <2>1, SubSeqProperties DEF Texts
<1> QED
  BY <1>0, <1>1, <1>2 DEF Unquote

(* unquote_value undoes vql_quote, for every text.                         *)
THEOREM UnquoteQuote ==
  ASSUME NEW v \in Texts
  PROVE  VqlQuote(v) \in Texts /\ Unquote(VqlQuote(v)) = v
<1> DEFINE e == Escaped(v)
           q == VqlQuote(v)
<1>0. Apostrophe \in Chars /\ Apostrophe \in Quotes /\ e \in Texts
  BY EscapedIs DEF Chars, Quotes
<1>1. q = <<Apostrophe>> \o e \o <<Apostrophe>>
  BY DEF VqlQuote
<1> HIDE DEF e, q
<1>2. Len(e) \in Nat /\ q \in Texts /\ Len(q) = Len(e) + 2
  BY <1>0, <1>1 DEF Texts
<1>3. q[1] = Apostrophe /\ q[Len(q)] = Apostrophe
  BY <1>0, <1>1, <1>2 DEF Texts
<1>4. SubSeq(q, 2, Len(q) - 1) = e
  BY <1>0, <1>1, <1>2 DEF Texts
<1>5. IsQuoted(q)
  BY <1>0, <1>2, <1>3 DEF IsQuoted
<1>6. Unquote(q) = Unescaped(Unescaped(Unescaped(e, Apostrophe), Quotation), Backslash)
  BY <1>4, <1>5 DEF Unquote
<1> QED
  BY <1>2, <1>6, UnquotesQuoted DEF e, q

(* What the reading of a part adds to the parameters.                      *)
LEMMA ReadsIs ==
  /\ Reads \in [Texts -> [Seq(Seq(Texts)) -> Seq(Seq(Texts))]]
  /\ \A p \in Texts, ps \in Seq(Seq(Texts)), n \in Nat :
       Equals(p) = {n} =>
         Reads[p][ps] = Append(ps, <<SubSeq(p, 1, n - 1), Unquote(SubSeq(p, n + 1, Len(p)))>>)
<1>1. ASSUME NEW p \in Texts, NEW ps \in Seq(Seq(Texts)), NEW n \in Equals(p)
      PROVE  Append(ps, <<SubSeq(p, 1, n - 1), Unquote(SubSeq(p, n + 1, Len(p)))>>) \in Seq(Seq(Texts))
  <2>1. Len(p) \in Nat /\ n \in 2..(Len(p) - 1) /\ \A m \in 1..Len(p) : p[m] \in Chars
    BY LenProperties, ElementOfSeq DEF Texts, Equals
  <2>2. SubSeq(p, 1, n - 1) \in Texts
    BY <2>1, SubSeqProperties DEF Texts
  <2>3. SubSeq(p, n + 1, Len(p)) \in Texts
    BY <2>1, SubSeqProperties DEF Texts
  <2>4. Unquote(SubSeq(p, n + 1, Len(p))) \in Texts
    BY <2>3, UnquoteIsText
  <2> DEFINE pair == <<SubSeq(p, 1, n - 1), Unquote(SubSeq(p, n + 1, Len(p)))>>
  <2>5. pair \in Seq(Texts)
    BY <2>2, <2>4
  <2> HIDE DEF pair
  <2>6. Append(ps, pair) \in Seq(Seq(Texts))
    BY <2>5, AppendProperties
  <2> QED
    BY <2>6 DEF pair
<1>2. ASSUME NEW p \in Texts, NEW ps \in Seq(Seq(Texts))
      PROVE  Reads[p][ps] = IF Equals(p) = {} THEN ps
               ELSE Append(ps, <<SubSeq(p, 1, (CHOOSE m \in Equals(p) : TRUE) - 1),
                        Unquote(SubSeq(p, (CHOOSE m \in Equals(p) : TRUE) + 1, Len(p)))>>)
  BY DEF Reads
<1>3. ASSUME NEW p \in Texts, NEW ps \in Seq(Seq(Texts))
      PROVE  (IF Equals(p) = {} THEN ps
              ELSE Append(ps, <<SubSeq(p, 1, (CHOOSE m \in Equals(p) : TRUE) - 1),
                        Unquote(SubSeq(p, (CHOOSE m \in Equals(p) : TRUE) + 1, Len(p)))>>))
              \in Seq(Seq(Texts))
  <2>1. CASE Equals(p) = {}
    BY <2>1
  <2>2. CASE Equals(p) # {}
    <3>1. (CHOOSE m \in Equals(p) : TRUE) \in Equals(p)
      BY <2>2
    <3> DEFINE n == CHOOSE m \in Equals(p) : TRUE
    <3> HIDE DEF n
    <3>2. Append(ps, <<SubSeq(p, 1, n - 1), Unquote(SubSeq(p, n + 1, Len(p)))>>) \in Seq(Seq(Texts))
      BY <1>1, <3>1 DEF n
    <3> QED
      BY <2>2, <3>2 DEF n
  <2> QED
    BY <2>1, <2>2
<1>4. Reads \in [Texts -> [Seq(Seq(Texts)) -> Seq(Seq(Texts))]]
  BY <1>3 DEF Reads
<1>5. ASSUME NEW p \in Texts, NEW ps \in Seq(Seq(Texts)), NEW n \in Nat, Equals(p) = {n}
      PROVE  Reads[p][ps] = Append(ps, <<SubSeq(p, 1, n - 1), Unquote(SubSeq(p, n + 1, Len(p)))>>)
  <2>1. (CHOOSE m \in {n} : TRUE) = n
    OBVIOUS
  <2>2. (CHOOSE m \in Equals(p) : TRUE) = n
    BY <1>5, <2>1
  <2> QED
    BY <1>2, <1>5, <2>2
<1> QED
  BY <1>4, <1>5

(* The one part of the call is the parameter.                              *)
LEMMA PartRead ==
  ASSUME NEW v \in Texts
  PROVE  Reads[Append(Lead(v), Apostrophe)][<<>>] = << << <<"k">>, v >> >>
<1> DEFINE e == Escaped(v)
           p == Append(Lead(v), Apostrophe)
           q == VqlQuote(v)
<1>0. /\ "k" \in Chars /\ "=" \in Chars /\ Apostrophe \in Chars /\ "k" # "="
      /\ e \in Texts
  BY EscapedIs DEF Chars, Quotes
<1>1. p = Append(<<"k", "=", Apostrophe>> \o e, Apostrophe)
      /\ q = <<Apostrophe>> \o e \o <<Apostrophe>>
  BY DEF VqlQuote, Lead
<1> HIDE DEF e, p, q
<1>2. Len(e) \in Nat /\ p \in Texts /\ Len(p) = Len(e) + 4 /\ Len(q) = Len(e) + 2
  BY <1>0, <1>1 DEF Texts
<1>3. p[1] = "k" /\ p[2] = "="
  BY <1>0, <1>1, <1>2 DEF Texts
<1>4. SubSeq(p, 1, 2 - 1) = <<"k">>
  <2>1. p \in Seq(Chars) /\ p[1] \in Chars /\ 1 <= Len(p)
    BY <1>0, <1>2, <1>3 DEF Texts
  <2> DEFINE first == SubSeq(p, 1, 2 - 1)
  <2>2. first \in Seq(Chars) /\ Len(first) = 1 /\ first[1] = p[1]
    BY <1>2, <2>1
  <2> HIDE DEF first
  <2>3. first = <<first[1]>>
    BY <2>2
  <2> QED
    BY <1>3, <2>2, <2>3 DEF first
<1>5. SubSeq(p, 2 + 1, Len(p)) = q
  BY <1>0, <1>1, <1>2 DEF Texts
<1>6. Equals(p) = {2}
  <2>1. 2 \in Equals(p)
    BY <1>0, <1>2, <1>3 DEF Equals
  <2>2. ASSUME NEW n \in Equals(p) PROVE n = 2
    BY <1>2, <1>3, <2>2 DEF Equals
  <2> QED
    BY <2>1, <2>2
<1>7. <<>> \in Seq(Seq(Texts)) /\ 2 \in Nat
  BY EmptySeq
<1>8. Reads[p][<<>>] = Append(<<>>, <<SubSeq(p, 1, 2 - 1), Unquote(SubSeq(p, 2 + 1, Len(p)))>>)
  BY <1>2, <1>6, <1>7, ReadsIs
<1>9. Unquote(q) = v
  BY UnquoteQuote DEF q
<1>10. Reads[p][<<>>] = Append(<<>>, << <<"k">>, v >>)
  BY <1>4, <1>5, <1>8, <1>9
<1> QED
  BY <1>10 DEF p

(* parse_artifact_call reads back the value that vql_quote wrote, for every *)
(* value that a quoted parameter is meant to carry.                        *)
THEOREM RoundTrip ==
  ASSUME NEW v \in Texts, Carried(v)
  PROVE  ParseCall(CallText(v)) = << << <<"k">>, v >> >>
<1> DEFINE l == Lead(v)
           p == Append(l, Apostrophe)
           s == Append(p, ")")
<1>0. /\ Apostrophe \in Chars /\ ")" \in Chars /\ Apostrophe # ")" /\ Turn(Apostrophe) = 0
      /\ Apostrophe # ","
  BY DEF Chars, Quotes, Turn, Apostrophe
<1>1. l \in Texts /\ p \in Texts
  BY <1>0, LeadIs
<1>2. Opened(s).closed /\ Opened(s).inside = p
  <2>1. Held(v) /\ Depth(v) = 0
    BY LevelIsHeld DEF Carried, Level
  <2>2. ~Opened(l).closed /\ Opened(l).inside = l /\ Opened(l).depth = 0
    BY <2>1 DEF Held
  <2>3. ~Opened(p).closed /\ Opened(p).inside = p /\ Opened(p).depth = 0
    <3>1. /\ ~Opened(Append(l, Apostrophe)).closed
          /\ Opened(Append(l, Apostrophe)).inside = Append(Opened(l).inside, Apostrophe)
          /\ Opened(Append(l, Apostrophe)).depth = Opened(l).depth + Turn(Apostrophe)
      BY <1>0, <1>1, <2>2, OpenedOn
    <3>2. Opened(l).depth + Turn(Apostrophe) = 0
      <4>1. Opened(l).depth = 0 /\ Turn(Apostrophe) = 0
        BY <1>0, <2>2
      <4>2. Opened(l).depth + Turn(Apostrophe) = 0 + 0
        BY <4>1, Zenon
      <4> QED
        BY <4>2
    <3> QED
      BY <2>2, <3>1, <3>2
  <2> QED
    BY <1>0, <1>1, <2>3, OpenedOn
<1>3. Split(p) = Append(<<>>, p)
  <2>1. Cut(l).parts = <<>> /\ Cut(l).part = l
    BY NotCut DEF Carried, Uncut
  <2>2. Cut(p).parts = <<>> /\ Cut(p).part = p
    BY <1>0, <1>1, <2>1, CutOn
  <2> QED
    BY <2>2 DEF Split
<1>4. Params(p) = Reads[p][<<>>]
  <2> DEFINE Pairs == Seq(Seq(Texts))
             none == <<>>
  <2>1. Reads \in [Texts -> [Pairs -> Pairs]] /\ none \in Pairs /\ none \in Seq(Texts)
    BY ReadsIs, EmptySeq
  <2> HIDE DEF Pairs, none
  <2>2. \A t \in Seq(Texts), c \in Texts :
          Fold(Reads, none, Append(t, c)) = Reads[c][Fold(Reads, none, t)]
    BY <2>1, FoldOfAppend
  <2>3. Fold(Reads, <<>>, Append(<<>>, p)) = Reads[p][Fold(Reads, <<>>, <<>>)]
    BY <1>1, <2>1, <2>2 DEF none
  <2> QED
    BY <1>3, <2>3, FoldOfNone DEF Params
<1>5. Params(p) = << << <<"k">>, v >> >>
  BY <1>4, PartRead
<1>6. CallText(v) # <<>> /\ CallText(v)[1] = "(" /\ Tail(CallText(v)) = s
  <2> DEFINE e == Escaped(v)
  <2>1. e \in Texts
    BY EscapedIs
  <2>2. CallText(v) = <<"(", "k", "=">> \o (<<Apostrophe>> \o e \o <<Apostrophe>>) \o <<")">>
    BY DEF CallText, VqlQuote
  <2>3. s = Append(Append(<<"k", "=", Apostrophe>> \o e, Apostrophe), ")")
    BY DEF Lead
  <2> HIDE DEF e, s
  <2>4. CallText(v) = <<"(">> \o s
    <3> DEFINE a == Apostrophe
    <3>0. a \in Chars /\ "(" \in Chars /\ ")" \in Chars /\ "k" \in Chars /\ "=" \in Chars
      BY DEF Chars, Quotes
    <3> HIDE DEF a
    <3>1. s = <<"k", "=", a>> \o e \o <<a>> \o <<")">>
      BY <2>1, <2>3, <3>0 DEF Texts, a
    <3>2. <<"k", "=", a>> = <<"k", "=">> \o <<a>> /\ <<"(", "k", "=">> = <<"(">> \o <<"k", "=">>
      OBVIOUS
    <3>3. /\ <<"(">> \in Texts /\ <<")">> \in Texts /\ <<a>> \in Texts /\ <<"k", "=">> \in Texts
      BY <3>0 DEF Texts
    <3> DEFINE ke == <<"k", "=">>
    <3> QED
      BY <2>1, <2>2, <3>1, <3>2, <3>3, ConcatAssociative DEF Texts, a
  <2>5. s \in Texts
    BY <1>0, <1>1, AppendProperties DEF s, Texts
  <2>6. Len(s) \in Nat /\ s \in Seq(Chars) /\ <<"(">> \in Seq(Chars)
    <3>1. "(" \in Chars
      BY DEF Chars
    <3> QED
      BY <2>5, <3>1, LenProperties DEF Texts
  <2>7. /\ <<"(">> \o s # <<>> /\ (<<"(">> \o s)[1] = "(" /\ Tail(<<"(">> \o s) = s
    BY <2>6
  <2> QED
    BY <2>4, <2>7
<1> HIDE DEF s, p
<1> QED
  BY <1>2, <1>5, <1>6 DEF ParseCall

-----------------------------------------------------------------------------
(* A flow has the parameters that parse_artifact_call read in its call.    *)
Delivered ==
  /\ typed \in [Calls -> Texts]
  /\ DOMAIN received = Calls
  /\ \A k \in Calls : flow[k] # "none" => received[k] = ParseCall(CallText(typed[k]))

(* Only the start of a flow gives it any.                                  *)
LEMMA DeliveredStep == TypeOK /\ Delivered /\ [Next]_vars => Delivered'
<1> SUFFICES ASSUME TypeOK, Delivered, [Next]_vars PROVE Delivered'
  OBVIOUS
<1>0. flow \in [Flows -> {"none", "running", "finished", "error"}] /\ Calls \subseteq Flows
  BY DEF TypeOK, Flows
<1>1. ASSUME NEW k \in Calls, Take(k) PROVE Delivered'
  <2>1. /\ typed' = typed
        /\ flow' = [flow EXCEPT ![k] = "running"]
        /\ received' = [received EXCEPT ![k] = ParseCall(CallText(typed[k]))]
    BY <1>1 DEF Take, request
  <2>2. DOMAIN received' = Calls
    BY <2>1 DEF Delivered
  <2>3. ASSUME NEW j \in Calls, flow'[j] # "none"
        PROVE  received'[j] = ParseCall(CallText(typed[j]))
    <3>1. CASE j = k
      BY <2>1, <3>1 DEF Delivered
    <3>2. CASE j # k
      BY <1>0, <2>1, <2>3, <3>2 DEF Delivered
    <3> QED
      BY <3>1, <3>2
  <2> QED
    BY <2>1, <2>2, <2>3 DEF Delivered
<1>2. ASSUME NEW k \in Calls, FlowEnds(k) PROVE Delivered'
  <2>1. typed' = typed /\ received' = received /\ flow[k] = "running"
    BY <1>2 DEF FlowEnds, request
  <2>2. ASSUME NEW j \in Calls, flow'[j] # "none" PROVE flow[j] # "none"
    BY <1>0, <1>2, <2>1, <2>2 DEF FlowEnds
  <2> QED
    BY <2>1, <2>2 DEF Delivered
<1>3. ASSUME UNCHANGED <<typed, flow, received>> PROVE Delivered'
  BY <1>3 DEF Delivered
<1>4. ASSUME NEW k \in Calls, Refuse(k) \/ Begin(k) \/ Step(k)
      PROVE  UNCHANGED <<typed, flow, received>>
  BY <1>4 DEF Refuse, Begin, Step, AskServer, CheckClient, Dispatch, Dispatched, DispatchFails,
     PollState, PollResults, PollResultsFails, PollLogs, PollLogsFails, GiveUp, Close,
     request, endpoint
<1>5. ASSUME NEW k \in Calls, Lose(k) \/ AddRow(k) \/ AddLog(k)
      PROVE  UNCHANGED <<typed, flow, received>>
  BY <1>5 DEF Lose, AddRow, AddLog, request
<1>6. ASSUME NEW calls, Drop(calls) PROVE UNCHANGED <<typed, flow, received>>
  BY <1>6 DEF Drop, request, endpoint
<1>7. ASSUME UNCHANGED vars PROVE UNCHANGED <<typed, flow, received>>
  BY <1>7 DEF vars, request, endpoint
<1> QED
  BY <1>1, <1>2, <1>3, <1>4, <1>5, <1>6, <1>7 DEF Next, Upstream, HangUp, Crash

(* The endpoint runs the value the analyst quoted: parse_artifact_call     *)
(* undoes the quoting (the tests of routes/velociraptor.rs).               *)
THEOREM Arrival == Spec => []ArgumentsArrive
<1>1. Init => Delivered
  <2> SUFFICES ASSUME Init PROVE Delivered
    OBVIOUS
  <2>1. typed \in [Calls -> Texts]
    BY CallsAssumption DEF Init
  <2>2. ASSUME NEW k \in Calls PROVE flow[k] = "none"
    BY CallsAssumption DEF Init, Flows
  <2> QED
    BY <2>1, <2>2 DEF Init, Delivered
<1>2. Delivered => ArgumentsArrive
  <2> SUFFICES ASSUME Delivered, NEW k \in Calls, flow[k] # "none", Carried(typed[k])
               PROVE  received[k] = << << <<"k">>, typed[k] >> >>
    BY DEF ArgumentsArrive
  <2>1. typed[k] \in Texts /\ received[k] = ParseCall(CallText(typed[k]))
    BY DEF Delivered
  <2> QED
    BY <2>1, RoundTrip
<1> QED
  BY <1>1, <1>2, DeliveredStep, TypeCorrect, PTL DEF Spec
=============================================================================
