-------------------------- MODULE ThreatIntelProofs --------------------------
(***************************************************************************)
(* Theorems about threat intelligence, for any requests and indicators.    *)
(*                                                                         *)
(* The argument: what a request has read is about its indicator and no     *)
(* older than its fetch; what it stores expires in proportion; and of two  *)
(* requests of which neither ran beside the other, the later one read      *)
(* after all the results of the earlier one.                               *)
(***************************************************************************)
EXTENDS ThreatIntel, FiniteSetTheorems, TLAPS

(* Where a request is, and what it has then.                               *)
Position(k) ==
  /\ pc[k] = "idle" => results[k] = <<>> /\ at[k] = 1
  /\ pc[k] \in {"idle", "select"} => reading[k] = Nothing
  /\ pc[k] \in {"fetch", "store"} => at[k] <= Len(iocs(k)) /\ ~Skipped(k)
  /\ pc[k] = "store" => reading[k] # Nothing
  /\ pc[k] = "fetch" => since[k] <= now
  /\ pc[k] \in InFlight => op(k) # "alert" /\ (op(k) = "lookup" => iocs(k)[1] # Blank)
  /\ op(k) # "batch" => Len(results[k]) = at[k] - 1

(* What it has read, in a fetch and then to store.                         *)
ReadingInv(k) ==
  pc[k] \in {"fetch", "store"} /\ reading[k] # Nothing =>
    LET d == reading[k]  x == KeyOf(k) IN
    /\ d.of = Normal(k) /\ d.read <= now
    /\ d.version \in 1..Len(Reports[x]) /\ d.version <= version[x]
    /\ pc[k] = "fetch" => since[k] <= d.read
    /\ pc[k] = "store" => d.read + TTL[x] <= d.expires /\ d.expires <= d.read + TTL[x] + Timeout

(* A row is about its key, and expires in proportion to its reading.       *)
RowInv(x) ==
  cache[x] # NoRow =>
    /\ cache[x].of = x.value
    /\ cache[x].version \in 1..Len(Reports[x])
    /\ cache[x].expires <= cache[x].read + TTL[x] + Timeout

Outcomes == {"cached", "fresh", "missing"}

(* So are the results.                                                     *)
ResultInv(r) ==
  /\ r.kind \in Outcomes => r.of = Indicator(r) /\ r.version \in 1..Len(Reports[r.key])
  /\ r.kind = "cached" => r.told - r.read <= TTL[r.key] + Timeout
  /\ r.kind = "fresh" => r.version <= version[r.key] /\ r.read <= now

ResultsInv(k) ==
  \A i \in 1..Len(results[k]) :
    ResultInv(results[k][i]) /\ (op(k) # "batch" => results[k][i].kind # "error")

(* The scores of those that are done.                                      *)
RiskInv(k) ==
  /\ pc[k] = "done" /\ op(k) = "alert" => risk[k] = AlertRisk(work[k].level, work[k].named)
  /\ pc[k] = "done" /\ op(k) = "triage" =>
       /\ Len(results[k]) > 0
       /\ results[k][1].kind # "local" =>
            risk[k] = IocRisk(Score(results[k][1].key, results[k][1].version))

Sound(k) == Position(k) /\ ReadingInv(k) /\ ResultsInv(k) /\ RiskInv(k)

(* Who runs beside whom; and what comes later was read later.              *)
BesideInv ==
  \A j, k \in Requests : j # k /\ pc[j] \in InFlight /\ pc[k] \in InFlight => j \in beside[k]

LaterInv ==
  \A j, k \in Requests :
    pc[j] \in {"fetch", "store"} /\ reading[j] # Nothing /\ (j = k \/ j \notin beside[k]) =>
      \A i \in 1..Len(results[k]) :
        results[k][i].kind = "fresh" /\ results[k][i].key = KeyOf(j) =>
          results[k][i].version <= reading[j].version /\ results[k][i].read <= reading[j].read

-----------------------------------------------------------------------------
(***************************************************************************)
(* Types.                                                                  *)
(***************************************************************************)

(* What a request asks.                                                    *)
LEMMA WorkType ==
  ASSUME TypeOK, NEW k \in Requests
  PROVE  /\ op(k) \in Ops /\ iocs(k) \in Seq(Inputs) /\ Len(iocs(k)) \in Nat
         /\ work[k].level \in Nat /\ work[k].named \in BOOLEAN
         /\ op(k) \in {"lookup", "epss", "triage"} => Len(iocs(k)) = 1
<1>1. work \in Workloads
  BY DEF TypeOK
<1>2. work[k] \in [op : Ops, iocs : Seq(Inputs), level : Nat, named : BOOLEAN]
  BY <1>1, InputsAssumption
<1>3. op(k) \in {"lookup", "epss", "triage"} => Len(iocs(k)) = 1
  BY <1>1, KeysAssumption DEF op, iocs
<1> QED
  BY <1>2, <1>3 DEF op, iocs

(* What it comes to is an indicator, and has a key.                        *)
LEMMA KeyType ==
  ASSUME TypeOK, NEW k \in Requests, Position(k), pc[k] \in InFlight, at[k] <= Len(iocs(k)), ~Skipped(k)
  PROVE  /\ raw(k) \in Inputs /\ KeyOf(k) \in Keys /\ Normal(k) \in Inputs
         /\ KeyOf(k).value = Normal(k)
         /\ Normal(k) = IF KeyOf(k).type = "cve" THEN Upper[raw(k)] ELSE Trimmed[raw(k)]
<1>1. /\ iocs(k) \in Seq(Inputs) /\ at[k] \in 1..Len(iocs(k)) /\ work \in Workloads
      /\ op(k) \in {"lookup", "epss", "triage"} => Len(iocs(k)) = 1
  BY WorkType DEF TypeOK
<1>2. raw(k) \in Inputs
  BY <1>1 DEF raw
<1>3. raw(k) # Blank
  <2>1. raw(k) = Blank => op(k) \in {"lookup", "batch"}
    BY <1>1, KeysAssumption DEF raw, op, iocs
  <2>2. op(k) = "lookup" => raw(k) # Blank
    <3>1. op(k) = "lookup" => iocs(k)[1] # Blank
      BY DEF Position
    <3>2. ASSUME op(k) = "lookup" PROVE at[k] = 1
      <4>1. Len(iocs(k)) = 1
        BY <3>2, WorkType
      <4> QED
        BY <1>1, <4>1
    <3> QED
      BY <3>1, <3>2 DEF raw
  <2> QED
    BY <2>1, <2>2 DEF Skipped
<1>4. KeyOf(k) \in Keys
  <2>1. TypeFor(k) = IF work[k].op = "epss" THEN "cve" ELSE TypeOf[work[k].iocs[at[k]]]
    BY DEF TypeFor, op, raw, iocs
  <2> QED
    BY <1>1, <1>3, <2>1, KeysAssumption DEF KeyOf, raw, op, iocs
<1>5. Normal(k) = IF KeyOf(k).type = "cve" THEN Upper[raw(k)] ELSE Trimmed[raw(k)]
  BY DEF Normal, KeyOf, KeyFor
<1>6. Normal(k) \in Inputs
  BY <1>2, <1>5, KeysAssumption
<1> QED
  BY <1>2, <1>4, <1>5, <1>6 DEF Normal

(* A result is added and the request goes on.                              *)
LEMMA PushType ==
  ASSUME TypeOK, NEW k \in Requests, NEW kind, NEW r, Push(k, kind, r),
         kind \in {"cached", "fresh", "missing", "local", "error"},
         raw(k) \in Inputs, KeyOf(k) \in Keys, r.of \in Inputs, r.version \in Nat, r.read \in Int
  PROVE  /\ pc' \in [Requests -> InFlight \cup Ended \cup {"idle"}]
         /\ at' \in [Requests -> Nat \ {0}]
         /\ since' \in [Requests -> 0..MaxTime]
         /\ reading' \in [Requests -> Reading \cup {Nothing}]
         /\ results' \in [Requests -> Seq(Result)]
<1> DEFINE rec == [kind |-> kind, raw |-> raw(k), key |-> KeyOf(k), of |-> r.of,
                   version |-> r.version, read |-> r.read, told |-> now]
<1>1. rec \in Result
  <2>1. now \in Int
    BY ProvidersAssumption DEF TypeOK
  <2> QED
    BY <2>1 DEF Result
<1>2. results' = [results EXCEPT ![k] = Append(@, rec)]
  BY DEF Push
<1> HIDE DEF rec
<1>3. results' \in [Requests -> Seq(Result)]
  BY <1>1, <1>2 DEF TypeOK
<1>4. 0 \in 0..MaxTime
  BY ProvidersAssumption
<1> QED
  BY <1>3, <1>4 DEF Push, GoTo, TypeOK, InFlight

(* An error ends the request or is a result.                               *)
LEMMA ErrType ==
  ASSUME TypeOK, NEW k \in Requests, Err(k), raw(k) \in Inputs, KeyOf(k) \in Keys
  PROVE  /\ pc' \in [Requests -> InFlight \cup Ended \cup {"idle"}]
         /\ at' \in [Requests -> Nat \ {0}]
         /\ since' \in [Requests -> 0..MaxTime]
         /\ reading' \in [Requests -> Reading \cup {Nothing}]
         /\ results' \in [Requests -> Seq(Result)]
<1>1. CASE op(k) = "batch"
  <2>1. Push(k, "error", Unread(k))
    BY <1>1 DEF Err, NextAfterError
  <2>2. Unread(k).of \in Inputs /\ Unread(k).version \in Nat /\ Unread(k).read \in Int
    BY ProvidersAssumption DEF Unread, TypeOK
  <2> QED
    BY <2>1, <2>2, PushType
<1>2. CASE op(k) # "batch"
  BY <1>2 DEF Err, GoTo, TypeOK, Ended
<1> QED
  BY <1>1, <1>2

(* A request is at an indicator that it does not pass over.                *)
AskedFor(k) == (Selecting(k) /\ ~Skipped(k)) \/ pc[k] \in {"fetch", "store"}

(* So it has a key.                                                        *)
LEMMA AskedKey ==
  ASSUME TypeOK, NEW k \in Requests, Position(k), AskedFor(k)
  PROVE  /\ raw(k) \in Inputs /\ KeyOf(k) \in Keys /\ Normal(k) \in Inputs
         /\ KeyOf(k).value = Normal(k)
         /\ Normal(k) = IF KeyOf(k).type = "cve" THEN Upper[raw(k)] ELSE Trimmed[raw(k)]
         /\ pc[k] \in InFlight /\ at[k] <= Len(iocs(k)) /\ ~Skipped(k)
<1>1. pc[k] \in InFlight /\ at[k] <= Len(iocs(k)) /\ ~Skipped(k)
  BY DEF AskedFor, Selecting, InFlight, Position
<1> QED
  BY <1>1, KeyType

(* Every step is of the type.                                              *)
LEMMA IntelTypeStep ==
  ASSUME TypeOK, version \in [Keys -> Nat], \A k \in Requests : Position(k), [Next]_vars
  PROVE  TypeOK' /\ version' \in [Keys -> Nat]
<1> USE DEF locals, world
<1>1. ASSUME NEW k \in Requests, Refuse(k) \/ Begin(k) \/ Skip(k) \/ Miss(k)
      PROVE  TypeOK' /\ version' \in [Keys -> Nat]
  <2> USE DEF TypeOK, GoTo, InFlight, Ended
  <2>1. CASE Refuse(k)
    BY <2>1 DEF Refuse
  <2>2. CASE Begin(k)
    <3>1. beside' \in [Requests -> SUBSET Requests]
      BY <2>2 DEF Begin, Running
    <3> QED
      BY <2>2, <3>1 DEF Begin
  <2>3. CASE Skip(k)
    BY <2>3 DEF Skip
  <2>4. CASE Miss(k)
    BY <2>4 DEF Miss
  <2> QED
    BY <1>1, <2>1, <2>2, <2>3, <2>4
<1>2. ASSUME NEW k \in Requests, TriageAlert(k) \/ Done(k)
      PROVE  TypeOK' /\ version' \in [Keys -> Nat]
  <2>1. \A level, named : AlertRisk(level, named) \in Risks
    BY DEF AlertRisk, SeverityRisk, LevelRisk, ToolRisk, Highest, Risks
  <2>2. \A score : IocRisk(score) \in Risks
    BY DEF IocRisk, Risks
  <2>3. risk' \in [Requests -> Risks]
    <3>1. CASE TriageAlert(k)
      BY <2>1, <3>1 DEF TriageAlert, TypeOK
    <3>2. CASE Done(k)
      <4>1. risk' = risk \/ \E n \in Risks : risk' = [risk EXCEPT ![k] = n]
        <5>1. 20 \in Risks
          BY DEF Risks
        <5> DEFINE r == results[k][1]
                   n == IF r.kind = "local" THEN 20 ELSE IocRisk(Score(r.key, r.version))
        <5>2. risk' = risk \/ risk' = [risk EXCEPT ![k] = n]
          BY <3>2 DEF Done
        <5>3. n \in Risks
          BY <2>2, <5>1
        <5> QED
          BY <5>2, <5>3
      <4> QED
        BY <4>1 DEF TypeOK
    <3> QED
      BY <1>2, <3>1, <3>2
  <2>4. /\ pc' = [pc EXCEPT ![k] = "done"]
        /\ UNCHANGED <<at, since, reading, results, cache, world, faults, beside>>
    BY <1>2 DEF TriageAlert, Done, GoTo
  <2> QED
    BY <2>3, <2>4 DEF TypeOK, Ended
<1>3. ASSUME NEW k \in Requests, NoKey(k) \/ Hit(k) \/ ReceiveNotFound(k)
      PROVE  TypeOK' /\ version' \in [Keys -> Nat]
  <2>1. AskedFor(k)
    BY <1>3 DEF NoKey, Hit, ReceiveNotFound, AskedFor
  <2>2. raw(k) \in Inputs /\ KeyOf(k) \in Keys
    BY <2>1, AskedKey
  <2>3. \E kind \in {"local", "cached", "missing"} : \E r :
          /\ Push(k, kind, r) /\ r.of \in Inputs /\ r.version \in Nat /\ r.read \in Int
    <3>1. CASE NoKey(k)
      <4>1. Unread(k).of \in Inputs /\ Unread(k).version \in Nat /\ Unread(k).read \in Int
        BY <2>2, ProvidersAssumption DEF Unread, TypeOK
      <4> QED
        BY <3>1, <4>1 DEF NoKey
    <3>2. CASE Hit(k)
      <4>1. cache[KeyOf(k)] \in Row
        BY <2>2, <3>2 DEF Hit, Live, TypeOK
      <4> QED
        BY <3>2, <4>1 DEF Hit, Row
    <3>3. CASE ReceiveNotFound(k)
      <4>1. reading[k] \in Reading
        BY <3>3 DEF ReceiveNotFound, TypeOK
      <4> QED
        BY <3>3, <4>1 DEF ReceiveNotFound, Reading
    <3> QED
      BY <1>3, <3>1, <3>2, <3>3
  <2>4. UNCHANGED <<risk, cache, world, faults, beside>>
    BY <1>3 DEF NoKey, Hit, ReceiveNotFound
  <2>5. /\ pc' \in [Requests -> InFlight \cup Ended \cup {"idle"}]
        /\ at' \in [Requests -> Nat \ {0}]
        /\ since' \in [Requests -> 0..MaxTime]
        /\ reading' \in [Requests -> Reading \cup {Nothing}]
        /\ results' \in [Requests -> Seq(Result)]
    BY <2>2, <2>3, PushType
  <2> QED
    BY <2>4, <2>5 DEF TypeOK
<1>4. ASSUME NEW k \in Requests, SelectFails(k) \/ FetchFails(k) \/ StoreFails(k)
      PROVE  TypeOK' /\ version' \in [Keys -> Nat]
  <2>1. AskedFor(k)
    BY <1>4 DEF SelectFails, FetchFails, StoreFails, AskedFor
  <2>2. raw(k) \in Inputs /\ KeyOf(k) \in Keys
    BY <2>1, AskedKey
  <2>3. /\ pc' \in [Requests -> InFlight \cup Ended \cup {"idle"}]
        /\ at' \in [Requests -> Nat \ {0}]
        /\ since' \in [Requests -> 0..MaxTime]
        /\ reading' \in [Requests -> Reading \cup {Nothing}]
        /\ results' \in [Requests -> Seq(Result)]
    BY <1>4, <2>2, ErrType DEF SelectFails, FetchFails, StoreFails
  <2>4. UNCHANGED <<risk, cache, world, beside>> /\ (faults' = faults \/ Fault)
    BY <1>4 DEF SelectFails, FetchFails, StoreFails
  <2>5. faults' \in 0..MaxFaults
    BY <2>4, ProvidersAssumption DEF Fault, TypeOK
  <2> QED
    BY <2>3, <2>4, <2>5 DEF TypeOK
<1>5. ASSUME NEW k \in Requests, Read(k) \/ Receive(k)
      PROVE  TypeOK' /\ version' \in [Keys -> Nat]
  <2>1. AskedFor(k)
    BY <1>5 DEF Read, Receive, AskedFor
  <2>2. Normal(k) \in Inputs /\ KeyOf(k) \in Keys
    BY <2>1, AskedKey
  <2>3. now \in Int /\ 0 \in Int /\ TTL[KeyOf(k)] \in Int /\ version[KeyOf(k)] \in Nat /\ 0 \in 0..MaxTime
    BY <2>2, ProvidersAssumption DEF TypeOK
  <2>4. CASE Read(k)
    <3> DEFINE d == [version |-> version[KeyOf(k)], of |-> Normal(k), read |-> now, expires |-> 0]
    <3>1. d \in Reading
      BY <2>2, <2>3 DEF Reading
    <3>2. reading' = [reading EXCEPT ![k] = d]
      BY <2>4 DEF Read
    <3> HIDE DEF d
    <3>3. reading' \in [Requests -> Reading \cup {Nothing}]
      BY <3>1, <3>2 DEF TypeOK
    <3> QED
      BY <2>4, <3>3 DEF Read, TypeOK
  <2>5. CASE Receive(k)
    <3>1. reading[k] \in Reading
      BY <2>5 DEF Receive, TypeOK
    <3>2. [reading[k] EXCEPT !.expires = now + TTL[KeyOf(k)]] \in Reading
      BY <2>3, <3>1 DEF Reading
    <3>3. reading' \in [Requests -> Reading \cup {Nothing}]
      BY <2>5, <3>2 DEF Receive, TypeOK
    <3> QED
      BY <2>3, <2>5, <3>3 DEF Receive, GoTo, TypeOK, InFlight
  <2> QED
    BY <1>5, <2>4, <2>5
<1>6. ASSUME NEW k \in Requests, Store(k)
      PROVE  TypeOK' /\ version' \in [Keys -> Nat]
  <2>1. AskedFor(k) /\ reading[k] # Nothing /\ Push(k, "fresh", reading[k])
    BY <1>6 DEF Store, AskedFor, Position
  <2>2. raw(k) \in Inputs /\ KeyOf(k) \in Keys
    BY <2>1, AskedKey
  <2>3. reading[k] \in Reading
    BY <2>1 DEF TypeOK
  <2>4. /\ pc' \in [Requests -> InFlight \cup Ended \cup {"idle"}]
        /\ at' \in [Requests -> Nat \ {0}]
        /\ since' \in [Requests -> 0..MaxTime]
        /\ reading' \in [Requests -> Reading \cup {Nothing}]
        /\ results' \in [Requests -> Seq(Result)]
    BY <2>1, <2>2, <2>3, PushType DEF Reading
  <2>5. \A old : Upsert(k, old) \in Row
    BY <2>3 DEF Upsert, Row, Reading
  <2>6. cache' \in [Keys -> Row \cup {NoRow}]
    BY <1>6, <2>2, <2>5 DEF Store, TypeOK
  <2> QED
    BY <1>6, <2>4, <2>6 DEF Store, TypeOK
<1>7. ASSUME NEW x \in Keys, NewReport(x)
      PROVE  TypeOK' /\ version' \in [Keys -> Nat]
  <2>1. \A y \in Keys : version[y] \in Nat /\ Len(Reports[y]) \in Nat /\ version[y] \in 1..Len(Reports[y])
    BY ProvidersAssumption DEF TypeOK
  <2>2. \A y \in Keys : version'[y] \in 1..Len(Reports[y])
    BY <1>7, <2>1 DEF NewReport
  <2>3. version' \in [Keys -> Nat]
    BY <1>7, <2>1 DEF NewReport
  <2> QED
    BY <1>7, <2>2, <2>3 DEF NewReport, TypeOK
<1>8. CASE Tick
  BY <1>8, ProvidersAssumption DEF Tick, TypeOK
<1>9. ASSUME NEW set, Drop(set) PROVE TypeOK' /\ version' \in [Keys -> Nat]
  BY <1>9 DEF Drop, TypeOK, Ended
<1>10. CASE UNCHANGED vars
  BY <1>10 DEF vars, TypeOK
<1> QED
  BY <1>1, <1>2, <1>3, <1>4, <1>5, <1>6, <1>7, <1>8, <1>9, <1>10 DEF Next, Step, HangUp, Crash

-----------------------------------------------------------------------------
(***************************************************************************)
(* What a step leaves.                                                     *)
(***************************************************************************)

ActsFor(k) == Refuse(k) \/ Begin(k) \/ TriageAlert(k) \/ Read(k) \/ Step(k)

Untouched(k) ==
  /\ pc'[k] = pc[k] /\ at'[k] = at[k] /\ since'[k] = since[k]
  /\ reading'[k] = reading[k] /\ results'[k] = results[k] /\ risk'[k] = risk[k]

(* The world goes on.                                                      *)
Onward ==
  /\ work' = work /\ now <= now'
  /\ \A x \in Keys : version[x] <= version'[x]

(* A request adds a result and goes on to the next indicator.              *)
AddsTo(k, rec) ==
  /\ results' = [results EXCEPT ![k] = Append(@, rec)]
  /\ at' = [at EXCEPT ![k] = @ + 1] /\ pc' = [pc EXCEPT ![k] = "select"]
  /\ since' = [since EXCEPT ![k] = 0] /\ reading' = [reading EXCEPT ![k] = Nothing]
  /\ risk' = risk /\ work' = work /\ version' = version /\ now' = now
  /\ pc[k] \in InFlight /\ beside' = beside
  /\ rec \in Result /\ rec.raw = raw(k) /\ rec.key = KeyOf(k) /\ rec.told = now
  /\ AskedFor(k)
  /\ op(k) # "batch" => rec.kind # "error"

(* Or it is over without one.                                              *)
Stops(k) ==
  /\ \E s \in {"refused", "failed"} : pc' = [pc EXCEPT ![k] = s]
  /\ UNCHANGED <<at, since, reading, results, risk, cache, work, version, now, beside>>

(* The results that a step adds.                                           *)
LEMMA Additions ==
  ASSUME TypeOK, NEW k \in Requests, Sound(k), \A x \in Keys : RowInv(x),
         NEW kind \in {"local", "cached", "missing", "error"}, NEW r, Push(k, kind, r),
         UNCHANGED <<risk, cache, world, beside>>, AskedFor(k),
         r.of \in Inputs, r.version \in Nat, r.read \in Int,
         op(k) # "batch" => kind # "error",
         kind \in Outcomes => r.of = Normal(k) /\ r.version \in 1..Len(Reports[KeyOf(k)]),
         kind = "cached" => now - r.read <= TTL[KeyOf(k)] + Timeout
  PROVE  \E rec : AddsTo(k, rec) /\ ResultInv(rec) /\ rec.kind # "fresh" /\ cache' = cache
<1> DEFINE rec == [kind |-> kind, raw |-> raw(k), key |-> KeyOf(k), of |-> r.of,
                   version |-> r.version, read |-> r.read, told |-> now]
<1>1. /\ raw(k) \in Inputs /\ KeyOf(k) \in Keys /\ pc[k] \in InFlight
      /\ Normal(k) = IF KeyOf(k).type = "cve" THEN Upper[raw(k)] ELSE Trimmed[raw(k)]
  BY AskedKey DEF Sound
<1>2. rec \in Result
  BY <1>1, ProvidersAssumption DEF Result, TypeOK
<1>3. AddsTo(k, rec)
  BY <1>1, <1>2 DEF Push, GoTo, AddsTo, world
<1>4. ResultInv(rec)
  BY <1>1, <1>2 DEF ResultInv, Outcomes, Indicator
<1> QED
  BY <1>3, <1>4

(* A step of a request adds a result that is sound, stops it, or is one of *)
(* a few others.                                                           *)
LEMMA ActCases ==
  ASSUME TypeOK, version \in [Keys -> Nat], NEW k \in Requests, Sound(k), \A x \in Keys : RowInv(x), ActsFor(k)
  PROVE  \/ \E rec : AddsTo(k, rec) /\ ResultInv(rec) /\ rec.kind # "fresh" /\ cache' = cache
         \/ \E rec : /\ AddsTo(k, rec) /\ ResultInv(rec) /\ rec.kind = "fresh" /\ Store(k)
                     /\ rec.version = reading[k].version /\ rec.read = reading[k].read
         \/ Stops(k)
         \/ Begin(k) \/ TriageAlert(k) \/ Read(k) \/ Done(k) \/ Skip(k) \/ Miss(k) \/ Receive(k)
<1> USE DEF world
<1>1. CASE NoKey(k)
  <2>1. AskedFor(k) /\ Push(k, "local", Unread(k)) /\ UNCHANGED <<risk, cache, world, beside>>
    BY <1>1 DEF NoKey, AskedFor
  <2>2. Unread(k).of \in Inputs /\ Unread(k).version \in Nat /\ Unread(k).read \in Int
    BY <2>1, AskedKey, ProvidersAssumption DEF Sound, Unread, TypeOK
  <2> QED
    BY <2>1, <2>2, Additions DEF Outcomes
<1>2. CASE Hit(k)
  <2>1. /\ AskedFor(k) /\ Push(k, "cached", cache[KeyOf(k)]) /\ UNCHANGED <<risk, cache, world, beside>>
        /\ cache[KeyOf(k)] # NoRow /\ cache[KeyOf(k)].expires > now
    BY <1>2 DEF Hit, AskedFor, Live
  <2>2. KeyOf(k) \in Keys /\ KeyOf(k).value = Normal(k)
    BY <2>1, AskedKey DEF Sound
  <2>3. cache[KeyOf(k)] \in Row /\ RowInv(KeyOf(k))
    BY <2>1, <2>2 DEF TypeOK
  <2>4. now \in Int /\ TTL[KeyOf(k)] \in Int /\ Timeout \in Int
    BY <2>2, ProvidersAssumption DEF TypeOK
  <2>5. now - cache[KeyOf(k)].read <= TTL[KeyOf(k)] + Timeout
    BY <2>1, <2>3, <2>4 DEF Row, RowInv
  <2> QED
    BY <2>1, <2>2, <2>3, <2>5, Additions DEF Row, RowInv
<1>3. CASE ReceiveNotFound(k)
  <2>1. /\ AskedFor(k) /\ Push(k, "missing", reading[k]) /\ UNCHANGED <<risk, cache, world, beside>>
        /\ reading[k] # Nothing /\ pc[k] = "fetch"
    BY <1>3 DEF ReceiveNotFound, AskedFor
  <2>2. reading[k] \in Reading
    BY <2>1 DEF TypeOK
  <2>3. reading[k].of = Normal(k) /\ reading[k].version \in 1..Len(Reports[KeyOf(k)])
    BY <2>1 DEF Sound, ReadingInv
  <2> QED
    BY <2>1, <2>2, <2>3, Additions DEF Reading
<1>4. CASE SelectFails(k) \/ FetchFails(k) \/ StoreFails(k)
  <2>1. AskedFor(k) /\ Err(k) /\ UNCHANGED <<risk, cache, world, beside>>
    BY <1>4 DEF SelectFails, FetchFails, StoreFails, AskedFor
  <2>2. CASE op(k) = "batch"
    <3>1. Push(k, "error", Unread(k))
      BY <2>1, <2>2 DEF Err, NextAfterError
    <3>2. Unread(k).of \in Inputs /\ Unread(k).version \in Nat /\ Unread(k).read \in Int
      BY <2>1, AskedKey, ProvidersAssumption DEF Sound, Unread, TypeOK
    <3> QED
      BY <2>1, <2>2, <3>1, <3>2, Additions DEF Outcomes
  <2>3. CASE op(k) # "batch"
    BY <2>1, <2>3 DEF Err, GoTo, Stops
  <2> QED
    BY <2>2, <2>3
<1>5. CASE Store(k)
  <2> DEFINE rec == [kind |-> "fresh", raw |-> raw(k), key |-> KeyOf(k), of |-> reading[k].of,
                     version |-> reading[k].version, read |-> reading[k].read, told |-> now]
  <2>1. pc[k] = "store" /\ reading[k] # Nothing /\ AskedFor(k)
    BY <1>5 DEF Store, AskedFor, Sound, Position
  <2>2. /\ raw(k) \in Inputs /\ KeyOf(k) \in Keys /\ pc[k] \in InFlight
        /\ Normal(k) = IF KeyOf(k).type = "cve" THEN Upper[raw(k)] ELSE Trimmed[raw(k)]
    BY <2>1, AskedKey DEF Sound
  <2>3. reading[k] \in Reading
    BY <2>1 DEF TypeOK
  <2>4. rec \in Result
    BY <2>2, <2>3, ProvidersAssumption DEF Result, Reading, TypeOK
  <2>5. AddsTo(k, rec)
    BY <1>5, <2>1, <2>2, <2>4 DEF Store, Push, GoTo, AddsTo
  <2>6. ResultInv(rec)
    BY <2>1, <2>2, <2>4 DEF ResultInv, Outcomes, Indicator, Sound, ReadingInv
  <2> QED
    BY <1>5, <2>5, <2>6
<1>6. CASE Refuse(k)
  BY <1>6 DEF Refuse, Stops, GoTo, locals
<1> QED
  BY <1>1, <1>2, <1>3, <1>4, <1>5, <1>6 DEF ActsFor, Step

(* What was a sound result stays one.                                      *)
LEMMA ResultOn ==
  ASSUME TypeOK, version \in [Keys -> Nat], TypeOK', version' \in [Keys -> Nat], Onward,
         NEW r \in Result, ResultInv(r)
  PROVE  ResultInv(r)'
<1>1. /\ r.key \in Keys /\ r.version \in Nat /\ r.read \in Int
      /\ version[r.key] \in Nat /\ version'[r.key] \in Nat /\ version[r.key] <= version'[r.key]
      /\ now \in Int /\ now' \in Int /\ now <= now'
  BY ProvidersAssumption DEF Result, Onward, TypeOK
<1> QED
  BY <1>1 DEF ResultInv, Indicator, Outcomes

(* The indicator of a request stays while it is at it.                     *)
LEMMA KeyOn ==
  ASSUME NEW k \in Requests, at'[k] = at[k], work' = work
  PROVE  /\ raw(k)' = raw(k) /\ KeyOf(k)' = KeyOf(k) /\ Normal(k)' = Normal(k)
         /\ op(k)' = op(k) /\ iocs(k)' = iocs(k) /\ (Skipped(k)' <=> Skipped(k))
BY DEF raw, KeyOf, Normal, TypeFor, op, iocs, Skipped

(* A request that is let alone stays sound.                                *)
LEMMA Frame ==
  ASSUME TypeOK, version \in [Keys -> Nat], TypeOK', version' \in [Keys -> Nat], Onward,
         NEW k \in Requests, Sound(k), Untouched(k)
  PROVE  Sound(k)'
<1>1. /\ raw(k)' = raw(k) /\ KeyOf(k)' = KeyOf(k) /\ Normal(k)' = Normal(k)
      /\ op(k)' = op(k) /\ iocs(k)' = iocs(k) /\ (Skipped(k)' <=> Skipped(k))
  BY KeyOn DEF Untouched, Onward
<1>2. Position(k)'
  <2>1. pc[k] = "fetch" => since'[k] <= now'
    <3>1. since[k] \in Int /\ now \in Int /\ now' \in Int
      BY ProvidersAssumption DEF TypeOK
    <3> QED
      BY <3>1 DEF Sound, Position, Untouched, Onward
  <2> QED
    BY <1>1, <2>1 DEF Sound, Position, Untouched
<1>3. ReadingInv(k)'
  <2>1. CASE pc[k] \in {"fetch", "store"} /\ reading[k] # Nothing
    <3>1. KeyOf(k) \in Keys /\ reading[k] \in Reading
      BY <2>1, AskedKey DEF AskedFor, Sound, TypeOK
    <3>2. /\ version[KeyOf(k)] \in Nat /\ version'[KeyOf(k)] \in Nat
          /\ version[KeyOf(k)] <= version'[KeyOf(k)]
          /\ now \in Int /\ now' \in Int /\ now <= now'
      BY <3>1, ProvidersAssumption DEF Onward, TypeOK
    <3> QED
      BY <1>1, <2>1, <3>1, <3>2 DEF Sound, ReadingInv, Untouched, Reading
  <2>2. CASE ~(pc[k] \in {"fetch", "store"} /\ reading[k] # Nothing)
    BY <2>2 DEF ReadingInv, Untouched
  <2> QED
    BY <2>1, <2>2
<1>4. ResultsInv(k)'
  <2>1. ASSUME NEW i \in 1..Len(results[k]) PROVE ResultInv(results[k][i])'
    <3>1. PICK r \in Result : r = results[k][i]
      BY DEF TypeOK
    <3>2. ResultInv(r)'
      BY <3>1, ResultOn DEF Sound, ResultsInv
    <3> QED
      BY <3>1, <3>2 DEF ResultInv, Indicator, Untouched
  <2> QED
    BY <1>1, <2>1 DEF Sound, ResultsInv, Untouched
<1>5. RiskInv(k)'
  BY <1>1 DEF Sound, RiskInv, Untouched, Onward
<1> QED
  BY <1>2, <1>3, <1>4, <1>5 DEF Sound

(* So does one that adds a sound result.                                   *)
LEMMA AddsSound ==
  ASSUME TypeOK, version \in [Keys -> Nat], TypeOK', version' \in [Keys -> Nat], Onward,
         NEW k \in Requests, Sound(k), NEW rec, AddsTo(k, rec), ResultInv(rec)
  PROVE  Sound(k)'
<1>1. /\ results'[k] = Append(results[k], rec) /\ at'[k] = at[k] + 1 /\ pc'[k] = "select"
      /\ reading'[k] = Nothing /\ work' = work /\ pc[k] \in InFlight /\ rec \in Result
      /\ op(k)' = op(k) /\ iocs(k)' = iocs(k)
      /\ op(k) # "batch" => rec.kind # "error"
  BY DEF AddsTo, TypeOK, op, iocs
<1>2. results[k] \in Seq(Result) /\ at[k] \in Nat
  BY DEF TypeOK
<1>3. /\ Len(results'[k]) = Len(results[k]) + 1 /\ Len(results[k]) \in Nat
      /\ results'[k][Len(results[k]) + 1] = rec
      /\ \A i \in 1..Len(results[k]) : results'[k][i] = results[k][i]
  BY <1>1, <1>2
<1>4. Position(k)'
  BY <1>1, <1>2, <1>3 DEF Sound, Position, InFlight
<1>5. ReadingInv(k)' /\ RiskInv(k)'
  BY <1>1 DEF ReadingInv, RiskInv
<1>6. ResultInv(rec)'
  BY <1>1, ResultOn
<1>7. ASSUME NEW i \in 1..Len(results[k]) PROVE ResultInv(results[k][i])'
  <2>1. PICK r \in Result : r = results[k][i]
    BY <1>2
  <2>2. ResultInv(r)'
    BY <2>1, ResultOn DEF Sound, ResultsInv
  <2>3. results'[k][i] = r
    BY <1>3, <2>1
  <2> QED
    BY <2>2, <2>3 DEF ResultInv, Indicator
<1>8. ASSUME NEW i \in 1..Len(results'[k])
      PROVE ResultInv(results[k][i])' /\ (op(k)' # "batch" => results'[k][i].kind # "error")
  <2>1. CASE i \in 1..Len(results[k])
    BY <1>1, <1>3, <1>7, <2>1 DEF Sound, ResultsInv
  <2>2. CASE i = Len(results[k]) + 1
    <3>1. results'[k][i] = rec
      BY <1>3, <2>2
    <3> QED
      BY <1>1, <1>6, <3>1 DEF ResultInv, Indicator
  <2> QED
    BY <1>3, <2>1, <2>2
<1>9. ResultsInv(k)'
  BY <1>8 DEF ResultsInv
<1> QED
  BY <1>4, <1>5, <1>9 DEF Sound

(* And every step of a request.                                            *)
LEMMA ActSound ==
  ASSUME TypeOK, version \in [Keys -> Nat], TypeOK', version' \in [Keys -> Nat],
         NEW k \in Requests, Sound(k), \A x \in Keys : RowInv(x), ActsFor(k)
  PROVE  Sound(k)' /\ Onward /\ \A j \in Requests \ {k} : Untouched(j)
<1> USE DEF locals, world
<1>0. now \in Int /\ \A x \in Keys : version[x] \in Int
  BY ProvidersAssumption DEF TypeOK
<1>1. ASSUME NEW rec, AddsTo(k, rec), ResultInv(rec)
      PROVE  Sound(k)' /\ Onward /\ \A j \in Requests \ {k} : Untouched(j)
  <2>1. Onward /\ \A j \in Requests \ {k} : Untouched(j)
    BY <1>0, <1>1 DEF AddsTo, Onward, Untouched, TypeOK
  <2> QED
    BY <1>1, <2>1, AddsSound
<1>2. ASSUME UNCHANGED <<results, work, version, now>>,
             at'[k] \in {at[k], at[k] + 1},
             \A j \in Requests \ {k} : Untouched(j),
             Position(k)', ReadingInv(k)', RiskInv(k)'
      PROVE  Sound(k)' /\ Onward /\ \A j \in Requests \ {k} : Untouched(j)
  <2>1. Onward
    BY <1>0, <1>2 DEF Onward
  <2>2. ResultsInv(k)'
    BY <1>2 DEF Sound, ResultsInv, ResultInv, Indicator, op
  <2> QED
    BY <1>2, <2>1, <2>2 DEF Sound
<1>3. CASE Stops(k)
  <2>1. Position(k)' /\ ReadingInv(k)' /\ RiskInv(k)'
    BY <1>3 DEF Stops, Sound, Position, ReadingInv, RiskInv, InFlight, op, iocs, Skipped, raw, TypeOK
  <2> QED
    BY <1>2, <1>3, <2>1 DEF Stops, Untouched, TypeOK
<1>4. CASE Begin(k)
  <2>1. /\ pc[k] = "idle" /\ pc'[k] = "select" /\ UNCHANGED <<at, results, reading, work>>
        /\ op(k) # "alert" /\ ~(op(k) = "lookup" /\ raw(k) = Blank)
    BY <1>4 DEF Begin, GoTo, TypeOK
  <2>2. op(k) = "lookup" => iocs(k)[1] # Blank
    BY <2>1 DEF Sound, Position, raw
  <2>3. Position(k)' /\ ReadingInv(k)' /\ RiskInv(k)'
    BY <2>1, <2>2 DEF Sound, Position, ReadingInv, RiskInv, InFlight, op, iocs
  <2> QED
    BY <1>2, <1>4, <2>3 DEF Begin, GoTo, Untouched, TypeOK
<1>5. CASE TriageAlert(k)
  <2>1. /\ pc[k] = "idle" /\ pc'[k] = "done" /\ UNCHANGED <<at, results, reading, work>>
        /\ op(k) = "alert" /\ risk'[k] = AlertRisk(work[k].level, work[k].named)
    BY <1>5 DEF TriageAlert, GoTo, TypeOK
  <2>2. Position(k)' /\ ReadingInv(k)' /\ RiskInv(k)'
    BY <2>1 DEF Sound, Position, ReadingInv, RiskInv, InFlight, op, iocs
  <2> QED
    BY <1>2, <1>5, <2>2 DEF TriageAlert, GoTo, Untouched, TypeOK
<1>6. CASE Done(k)
  <2>1. /\ pc[k] = "select" /\ pc'[k] = "done" /\ UNCHANGED <<at, results, reading, work>>
        /\ at[k] > Len(iocs(k))
    BY <1>6 DEF Done, GoTo, TypeOK
  <2>2. op(k) # "alert"
    BY <2>1 DEF Sound, Position, InFlight
  <2>3. ASSUME op(k) = "triage"
        PROVE  /\ Len(results[k]) > 0
               /\ results[k][1].kind # "local" =>
                    risk'[k] = IocRisk(Score(results[k][1].key, results[k][1].version))
    <3>1. Len(iocs(k)) = 1 /\ at[k] \in Nat
      BY <2>3, WorkType DEF TypeOK
    <3>2. Len(results[k]) = at[k] - 1
      BY <2>3 DEF Sound, Position
    <3>3. results[k][1].kind # "local" =>
            risk' = [risk EXCEPT ![k] = IocRisk(Score(results[k][1].key, results[k][1].version))]
      BY <1>6, <2>3 DEF Done
    <3> QED
      BY <2>1, <3>1, <3>2, <3>3 DEF TypeOK
  <2>4. Position(k)' /\ ReadingInv(k)'
    BY <2>1, <2>2 DEF Sound, Position, ReadingInv, InFlight, op, iocs
  <2>5. RiskInv(k)'
    BY <2>1, <2>2, <2>3 DEF RiskInv, op
  <2>6. \A j \in Requests \ {k} : Untouched(j)
    <3>1. \A j \in Requests \ {k} : risk'[j] = risk[j]
      <4>1. risk' = risk \/ \E n : risk' = [risk EXCEPT ![k] = n]
        BY <1>6 DEF Done
      <4> QED
        BY <4>1 DEF TypeOK
    <3> QED
      BY <1>6, <3>1 DEF Done, GoTo, Untouched, TypeOK
  <2> QED
    BY <1>2, <1>6, <2>4, <2>5, <2>6 DEF Done
<1>7. CASE Skip(k)
  <2>1. /\ pc[k] = "select" /\ pc'[k] = "select" /\ UNCHANGED <<results, reading, work>>
        /\ op(k) = "batch" /\ at'[k] = at[k] + 1
    BY <1>7 DEF Skip, Selecting, Skipped, TypeOK
  <2>2. Position(k)' /\ ReadingInv(k)' /\ RiskInv(k)'
    BY <2>1 DEF Sound, Position, ReadingInv, RiskInv, InFlight, op, iocs
  <2> QED
    BY <1>2, <1>7, <2>1, <2>2 DEF Skip, Untouched, TypeOK
<1>8. CASE Miss(k)
  <2>1. /\ pc[k] = "select" /\ pc'[k] = "fetch" /\ UNCHANGED <<at, results, reading, work>>
        /\ at[k] <= Len(iocs(k)) /\ ~Skipped(k) /\ since'[k] = now /\ now' = now
    BY <1>8 DEF Miss, Selecting, GoTo, TypeOK
  <2>2. Position(k)' /\ ReadingInv(k)' /\ RiskInv(k)'
    BY <1>0, <2>1 DEF Sound, Position, ReadingInv, RiskInv, InFlight, op, iocs, Skipped, raw
  <2> QED
    BY <1>2, <1>8, <2>2 DEF Miss, GoTo, Untouched, TypeOK
<1>9. CASE Read(k)
  <2>1. /\ pc[k] = "fetch" /\ UNCHANGED <<pc, at, since, results, version, now, work>>
        /\ InTime(k)
        /\ reading'[k] = [version |-> version[KeyOf(k)], of |-> Normal(k), read |-> now, expires |-> 0]
    BY <1>9 DEF Read, TypeOK
  <2>2. KeyOf(k) \in Keys
    BY <2>1, AskedKey DEF AskedFor, Sound
  <2>3. version[KeyOf(k)] \in 1..Len(Reports[KeyOf(k)]) /\ version[KeyOf(k)] \in Nat /\ now \in Int
    BY <2>2, ProvidersAssumption DEF TypeOK
  <2>4. since[k] <= now
    BY <2>1 DEF Sound, Position
  <2>5. ReadingInv(k)'
    BY <2>1, <2>3, <2>4, KeyOn DEF ReadingInv
  <2>6. Position(k)' /\ RiskInv(k)'
    BY <2>1, KeyOn DEF Sound, Position, RiskInv, InFlight
  <2> QED
    BY <1>2, <1>9, <2>1, <2>5, <2>6 DEF Read, Untouched, TypeOK
<1>10. CASE Receive(k)
  <2>1. /\ pc[k] = "fetch" /\ pc'[k] = "store" /\ UNCHANGED <<at, results, version, now, work>>
        /\ reading[k] # Nothing /\ InTime(k)
        /\ reading' = [reading EXCEPT ![k].expires = now + TTL[KeyOf(k)]]
    BY <1>10 DEF Receive, GoTo, TypeOK
  <2>2. KeyOf(k) \in Keys /\ reading[k] \in Reading
    BY <2>1, AskedKey DEF AskedFor, Sound, TypeOK
  <2>3. /\ reading'[k].version = reading[k].version /\ reading'[k].of = reading[k].of
        /\ reading'[k].read = reading[k].read /\ reading'[k].expires = now + TTL[KeyOf(k)]
        /\ reading'[k] # Nothing
    BY <2>1, <2>2 DEF Reading, Nothing, TypeOK
  <2>4. /\ now \in Int /\ TTL[KeyOf(k)] \in Int /\ Timeout \in Int /\ since[k] \in Int
        /\ reading[k].read \in Int
    BY <2>2, ProvidersAssumption DEF TypeOK, Reading
  <2>5. /\ reading[k].of = Normal(k) /\ reading[k].read <= now /\ since[k] <= reading[k].read
        /\ reading[k].version \in 1..Len(Reports[KeyOf(k)]) /\ reading[k].version <= version[KeyOf(k)]
        /\ now - since[k] <= Timeout
    BY <2>1 DEF Sound, ReadingInv, InTime
  <2>6. ReadingInv(k)'
    BY <2>1, <2>3, <2>4, <2>5, KeyOn DEF ReadingInv
  <2>7. Position(k)' /\ RiskInv(k)'
    BY <2>1, <2>3, KeyOn DEF Sound, Position, RiskInv, InFlight
  <2> QED
    BY <1>2, <1>10, <2>1, <2>6, <2>7 DEF Receive, GoTo, Untouched, TypeOK
<1> QED
  BY <1>1, <1>3, <1>4, <1>5, <1>6, <1>7, <1>8, <1>9, <1>10, ActCases

-----------------------------------------------------------------------------
(***************************************************************************)
(* Rows, and requests beside and after one another.                        *)
(***************************************************************************)

(* What a step of a request does to what the others see.                   *)
LEMMA ActShape ==
  ASSUME TypeOK, version \in [Keys -> Nat], NEW k \in Requests, Sound(k), \A x \in Keys : RowInv(x), ActsFor(k)
  PROVE  /\ cache' = cache \/ Store(k)
         /\ beside' = beside \/ Begin(k)
         /\ pc'[k] \in InFlight => pc[k] \in InFlight \/ Begin(k)
         /\ results'[k] = results[k] \/ \E rec : AddsTo(k, rec) /\ (rec.kind = "fresh" => Store(k)
              /\ rec.version = reading[k].version /\ rec.read = reading[k].read)
         /\ pc'[k] \in {"fetch", "store"} /\ reading'[k] # Nothing =>
              /\ pc[k] \in {"fetch", "store"} /\ at'[k] = at[k] /\ results' = results
              /\ \/ /\ reading[k] # Nothing /\ reading'[k].version = reading[k].version
                    /\ reading'[k].read = reading[k].read
                 \/ KeyOf(k) \in Keys /\ reading'[k].version = version[KeyOf(k)] /\ reading'[k].read = now
<1> USE DEF locals, world, InFlight
<1>1. ASSUME NEW rec, AddsTo(k, rec), cache' = cache \/ Store(k),
             rec.kind = "fresh" => Store(k)
              /\ rec.version = reading[k].version /\ rec.read = reading[k].read
      PROVE  /\ cache' = cache \/ Store(k)
             /\ beside' = beside /\ pc[k] \in InFlight
             /\ \E r : AddsTo(k, r) /\ (r.kind = "fresh" => Store(k)
                  /\ r.version = reading[k].version /\ r.read = reading[k].read)
             /\ pc'[k] = "select"
  BY <1>1 DEF AddsTo, TypeOK
<1>2. CASE Stops(k)
  BY <1>2 DEF Stops, TypeOK
<1>3. CASE Begin(k)
  BY <1>3 DEF Begin, GoTo, TypeOK
<1>4. CASE TriageAlert(k)
  BY <1>4 DEF TriageAlert, GoTo, TypeOK
<1>5. CASE Done(k)
  BY <1>5 DEF Done, GoTo, TypeOK
<1>6. CASE Skip(k)
  BY <1>6 DEF Skip, Selecting, TypeOK
<1>7. CASE Miss(k)
  BY <1>7 DEF Miss, Selecting, GoTo, Sound, Position, TypeOK
<1>8. CASE Read(k)
  <2>1. KeyOf(k) \in Keys
    BY <1>8, AskedKey DEF Read, AskedFor, Sound
  <2>2. reading'[k] = [version |-> version[KeyOf(k)], of |-> Normal(k), read |-> now, expires |-> 0]
    BY <1>8 DEF Read, TypeOK
  <2> QED
    BY <1>8, <2>1, <2>2 DEF Read, TypeOK
<1>9. CASE Receive(k)
  <2>1. reading[k] \in Reading /\ reading' = [reading EXCEPT ![k].expires = now + TTL[KeyOf(k)]]
    BY <1>9 DEF Receive, TypeOK
  <2>2. reading'[k].version = reading[k].version /\ reading'[k].read = reading[k].read
    BY <2>1 DEF Reading, TypeOK
  <2> QED
    BY <1>9, <2>2 DEF Receive, GoTo, TypeOK
<1>10. CASE \E rec : AddsTo(k, rec) /\ ResultInv(rec) /\ rec.kind # "fresh" /\ cache' = cache
  BY <1>1, <1>10
<1>11. CASE \E rec : /\ AddsTo(k, rec) /\ ResultInv(rec) /\ rec.kind = "fresh" /\ Store(k)
                     /\ rec.version = reading[k].version /\ rec.read = reading[k].read
  BY <1>1, <1>11
<1> QED
  BY <1>2, <1>3, <1>4, <1>5, <1>6, <1>7, <1>8, <1>9, <1>10, <1>11, ActCases

(* What is stored is about its key.                                        *)
LEMMA RowStep ==
  ASSUME TypeOK, version \in [Keys -> Nat], NEW k \in Requests, Sound(k), \A x \in Keys : RowInv(x), ActsFor(k)
  PROVE  \A x \in Keys : RowInv(x)'
<1>1. CASE cache' = cache
  BY <1>1 DEF RowInv
<1>2. CASE Store(k)
  <2>1. pc[k] = "store" /\ reading[k] # Nothing /\ AskedFor(k)
    BY <1>2 DEF Store, AskedFor, Sound, Position
  <2>2. KeyOf(k) \in Keys /\ KeyOf(k).value = Normal(k)
    BY <2>1, AskedKey DEF Sound
  <2>3. /\ reading[k].of = Normal(k) /\ reading[k].version \in 1..Len(Reports[KeyOf(k)])
        /\ reading[k].expires <= reading[k].read + TTL[KeyOf(k)] + Timeout
    BY <2>1 DEF Sound, ReadingInv
  <2>4. cache' = [cache EXCEPT ![KeyOf(k)] = Upsert(k, cache[KeyOf(k)])]
    BY <1>2 DEF Store
  <2>5. ASSUME NEW x \in Keys, x = KeyOf(k) PROVE RowInv(x)'
    <3>1. cache'[x] = Upsert(k, cache[x])
      BY <2>4, <2>5 DEF TypeOK
    <3> QED
      BY <2>2, <2>3, <2>5, <3>1 DEF RowInv, Upsert
  <2>6. ASSUME NEW x \in Keys, x # KeyOf(k) PROVE RowInv(x)'
    <3>1. cache'[x] = cache[x]
      BY <2>4, <2>6 DEF TypeOK
    <3> QED
      BY <3>1 DEF RowInv
  <2> QED
    BY <2>5, <2>6
<1> QED
  BY <1>1, <1>2, ActShape

(* Those that run at one time run beside one another.                      *)
LEMMA BesideStep ==
  ASSUME TypeOK, version \in [Keys -> Nat], NEW k \in Requests, \A j \in Requests : Sound(j),
         \A x \in Keys : RowInv(x), BesideInv, ActsFor(k), \A j \in Requests \ {k} : Untouched(j)
  PROVE  /\ BesideInv'
         /\ \A j \in Requests : beside[j] \subseteq beside'[j] \/ (j = k /\ results'[j] = <<>>)
<1>1. CASE Begin(k)
  <2>1. /\ pc[k] = "idle" /\ results' = results
        /\ beside' = [j \in Requests |-> IF j = k THEN Running
                                   ELSE IF j \in Running THEN beside[j] \cup {k} ELSE beside[j]]
    BY <1>1 DEF Begin, locals
  <2>2. results[k] = <<>>
    BY <2>1 DEF Sound, Position
  <2>3. ASSUME NEW i \in Requests, NEW j \in Requests, i # j, pc'[i] \in InFlight, pc'[j] \in InFlight
        PROVE  i \in beside'[j]
    <3>1. CASE j = k
      BY <2>1, <2>3, <3>1 DEF Untouched, Running
    <3>2. CASE j # k
      BY <2>1, <2>3, <3>2 DEF Untouched, Running, BesideInv
    <3> QED
      BY <3>1, <3>2
  <2> QED
    BY <2>1, <2>2, <2>3 DEF BesideInv
<1>2. CASE ~Begin(k)
  <2>1. beside' = beside /\ \A j \in Requests : pc'[j] \in InFlight => pc[j] \in InFlight
    BY <1>2, ActShape DEF Untouched
  <2> QED
    BY <2>1 DEF BesideInv
<1> QED
  BY <1>1, <1>2

(* A later request reads what is no older.                                 *)
LEMMA LaterStep ==
  ASSUME TypeOK, version \in [Keys -> Nat], NEW k \in Requests, \A j \in Requests : Sound(j),
         \A x \in Keys : RowInv(x), BesideInv, LaterInv, ActsFor(k),
         Onward, \A j \in Requests \ {k} : Untouched(j)
  PROVE  LaterInv'
<1> SUFFICES ASSUME NEW i \in Requests, NEW j \in Requests,
                    pc'[i] \in {"fetch", "store"}, reading'[i] # Nothing, i = j \/ i \notin beside'[j],
                    NEW n \in 1..Len(results'[j]), results'[j][n].kind = "fresh",
                    results'[j][n].key = KeyOf(i)'
             PROVE  results'[j][n].version <= reading'[i].version /\ results'[j][n].read <= reading'[i].read
  BY DEF LaterInv
<1>1. beside[j] \subseteq beside'[j]
  <2>1. results'[j] # <<>>
    OBVIOUS
  <2> QED
    BY <2>1, BesideStep
<1>2. /\ pc[i] \in {"fetch", "store"} /\ KeyOf(i)' = KeyOf(i) /\ (i = k => results' = results)
      /\ \/ /\ reading[i] # Nothing /\ reading'[i].version = reading[i].version
            /\ reading'[i].read = reading[i].read
         \/ KeyOf(i) \in Keys /\ reading'[i].version = version[KeyOf(i)] /\ reading'[i].read = now
  BY ActShape, KeyOn DEF Untouched, Onward
<1>3. results'[j] = results[j]
  <2>1. CASE i = k \/ j # k
    BY <1>2, <2>1 DEF Untouched
  <2>2. CASE i # k /\ j = k
    <3>1. ASSUME NEW rec, AddsTo(k, rec) PROVE FALSE
      <4>1. pc[k] \in InFlight
        BY <3>1 DEF AddsTo
      <4> QED
        BY <1>1, <1>2, <2>2, <4>1 DEF BesideInv, InFlight
    <3> QED
      BY <2>2, <3>1, ActShape
  <2> QED
    BY <2>1, <2>2
<1>4. CASE /\ reading[i] # Nothing /\ reading'[i].version = reading[i].version
           /\ reading'[i].read = reading[i].read
  BY <1>1, <1>2, <1>3, <1>4 DEF LaterInv
<1>5. CASE KeyOf(i) \in Keys /\ reading'[i].version = version[KeyOf(i)] /\ reading'[i].read = now
  <2>1. ResultInv(results[j][n])
    BY <1>3 DEF Sound, ResultsInv
  <2> QED
    BY <1>2, <1>3, <1>5, <2>1 DEF ResultInv
<1> QED
  BY <1>2, <1>4, <1>5

(* What was fetched is kept.                                               *)
LEMMA KeptStep ==
  ASSUME TypeOK, TypeOK', version \in [Keys -> Nat], NEW k \in Requests, \A j \in Requests : Sound(j),
         \A x \in Keys : RowInv(x), BesideInv, LaterInv, FetchedIsKept, ActsFor(k),
         Onward, \A j \in Requests \ {k} : Untouched(j)
  PROVE  FetchedIsKept'
<1> SUFFICES ASSUME NEW j \in Requests, NEW i \in 1..Len(results'[j]), results'[j][i].kind = "fresh"
             PROVE  LET r == results'[j][i]  row == cache'[r.key] IN
                    /\ row # NoRow
                    /\ row.by \in beside'[j] \/ (row.version >= r.version /\ row.expires >= r.read + TTL[r.key])
  BY DEF FetchedIsKept
<1> DEFINE r == results'[j][i]
<1>1. r \in Result
  BY DEF TypeOK
<1>2. beside[j] \subseteq beside'[j]
  <2>1. results'[j] # <<>>
    OBVIOUS
  <2> QED
    BY <2>1, BesideStep
<1>3. r.key \in Keys /\ r.version \in Nat /\ r.read \in Int /\ TTL[r.key] \in Int
  BY <1>1, ProvidersAssumption DEF Result
<1>4. ASSUME Store(k), r.key = KeyOf(k)
      PROVE  /\ cache'[r.key] # NoRow /\ cache'[r.key].by = k
             /\ cache'[r.key].version = reading[k].version /\ cache'[r.key].expires = reading[k].expires
             /\ reading[k].version \in Nat /\ reading[k].expires \in Int /\ reading[k].read \in Int
             /\ reading[k].read + TTL[r.key] <= reading[k].expires
             /\ pc[k] = "store" /\ reading[k] # Nothing
  <2>1. pc[k] = "store" /\ reading[k] # Nothing
    BY <1>4 DEF Store, Sound, Position
  <2>2. reading[k] \in Reading
    BY <2>1 DEF TypeOK
  <2>3. cache'[r.key] = Upsert(k, cache[KeyOf(k)])
    BY <1>3, <1>4 DEF Store, TypeOK
  <2>4. reading[k].read + TTL[r.key] <= reading[k].expires
    BY <1>4, <2>1 DEF Sound, ReadingInv
  <2> QED
    BY <2>1, <2>2, <2>3, <2>4 DEF Reading, Upsert, NoRow
<1>5. ASSUME i \in 1..Len(results[j]), r = results[j][i]
      PROVE  /\ cache'[r.key] # NoRow
             /\ \/ cache'[r.key].by \in beside'[j]
                \/ cache'[r.key].version >= r.version /\ cache'[r.key].expires >= r.read + TTL[r.key]
  <2>1. CASE cache'[r.key] = cache[r.key]
    BY <1>2, <1>5, <2>1 DEF FetchedIsKept
  <2>2. CASE Store(k) /\ r.key = KeyOf(k)
    <3>1. CASE k \in beside'[j]
      BY <1>4, <2>2, <3>1
    <3>2. CASE k \notin beside'[j]
      <4>1. k \notin beside[j] \/ k = j
        BY <1>2, <3>2
      <4>2. r.version <= reading[k].version /\ r.read <= reading[k].read
        BY <1>4, <1>5, <2>2, <4>1 DEF LaterInv
      <4> HIDE DEF r
      <4> QED
        BY <1>3, <1>4, <2>2, <4>2
    <3> QED
      BY <3>1, <3>2
  <2>3. cache'[r.key] = cache[r.key] \/ (Store(k) /\ r.key = KeyOf(k))
    <3>1. CASE Store(k)
      BY <1>3, <3>1 DEF Store, TypeOK
    <3> QED
      BY <3>1, ActShape
  <2> QED
    BY <2>1, <2>2, <2>3
<1>6. CASE i \in 1..Len(results[j]) /\ r = results[j][i]
  BY <1>5, <1>6
<1>7. CASE ~(i \in 1..Len(results[j]) /\ r = results[j][i])
  <2>1. j = k /\ results'[k] # results[k]
    BY <1>7 DEF Untouched
  <2>2. PICK rec : AddsTo(k, rec) /\ (rec.kind = "fresh" => Store(k)
              /\ rec.version = reading[k].version /\ rec.read = reading[k].read)
    BY <2>1, ActShape
  <2>3. results'[k] = Append(results[k], rec) /\ results[k] \in Seq(Result) /\ rec \in Result
        /\ rec.key = KeyOf(k)
    BY <2>2 DEF AddsTo, TypeOK
  <2>4. r = rec
    BY <1>7, <2>1, <2>3
  <2> HIDE DEF r
  <2>5. Store(k) /\ r.version = reading[k].version /\ r.read = reading[k].read /\ r.key = KeyOf(k)
    BY <2>2, <2>3, <2>4 DEF r
  <2>6. /\ cache'[r.key] # NoRow
        /\ cache'[r.key].version >= r.version /\ cache'[r.key].expires >= r.read + TTL[r.key]
    BY <1>3, <1>4, <2>5
  <2> QED
    BY <2>6 DEF r
<1> QED
  BY <1>6, <1>7

-----------------------------------------------------------------------------
(***************************************************************************)
(* The theorems.                                                           *)
(***************************************************************************)

(* The inductive invariant.                                                *)
IntelInv ==
  /\ TypeOK /\ version \in [Keys -> Nat]
  /\ \A k \in Requests : Sound(k)
  /\ \A x \in Keys : RowInv(x)
  /\ BesideInv /\ LaterInv /\ FetchedIsKept

LEMMA IntelInvInit == Init => IntelInv
<1> SUFFICES ASSUME Init PROVE IntelInv
  OBVIOUS
<1> USE DEF Init
<1>1. TypeOK /\ version \in [Keys -> Nat]
  BY ProvidersAssumption DEF TypeOK, Risks
<1>2. ASSUME NEW k \in Requests PROVE Sound(k)
  BY DEF Sound, Position, ReadingInv, ResultsInv, RiskInv, InFlight
<1>3. \A x \in Keys : RowInv(x)
  BY DEF RowInv
<1>4. BesideInv /\ LaterInv /\ FetchedIsKept
  BY DEF BesideInv, LaterInv, FetchedIsKept, InFlight
<1> QED
  BY <1>1, <1>2, <1>3, <1>4 DEF IntelInv

LEMMA IntelInvStep == IntelInv /\ [Next]_vars => IntelInv'
<1> SUFFICES ASSUME IntelInv, [Next]_vars PROVE IntelInv'
  OBVIOUS
<1>1. TypeOK' /\ version' \in [Keys -> Nat]
  BY IntelTypeStep DEF IntelInv, Sound
<1>2. now \in Int /\ \A x \in Keys : version[x] \in Int
  BY ProvidersAssumption DEF IntelInv, TypeOK
<1>3. ASSUME NEW k \in Requests, ActsFor(k) PROVE IntelInv'
  <2>1. Sound(k)' /\ Onward /\ \A j \in Requests \ {k} : Untouched(j)
    BY <1>1, <1>3, ActSound DEF IntelInv
  <2>2. \A j \in Requests : Sound(j)'
    BY <1>1, <2>1, Frame DEF IntelInv
  <2>3. \A x \in Keys : RowInv(x)'
    BY <1>3, RowStep DEF IntelInv
  <2>4. BesideInv' /\ LaterInv' /\ FetchedIsKept'
    BY <1>1, <1>3, <2>1, BesideStep, LaterStep, KeptStep DEF IntelInv
  <2> QED
    BY <1>1, <2>2, <2>3, <2>4 DEF IntelInv
<1>4. ASSUME UNCHANGED <<pc, locals, cache, beside>>, Onward PROVE IntelInv'
  <2>1. \A k \in Requests : Sound(k)'
    BY <1>1, <1>4, Frame DEF IntelInv, Untouched, locals
  <2>2. \A x \in Keys : RowInv(x)'
    BY <1>4 DEF IntelInv, RowInv
  <2>3. BesideInv' /\ FetchedIsKept'
    BY <1>4 DEF IntelInv, BesideInv, FetchedIsKept, locals
  <2>4. \A k \in Requests : KeyOf(k)' = KeyOf(k)
    BY <1>4, KeyOn DEF locals, Onward
  <2>5. LaterInv'
    BY <1>4, <2>4 DEF IntelInv, LaterInv, locals
  <2> QED
    BY <1>1, <2>1, <2>2, <2>3, <2>5 DEF IntelInv
<1>5. ASSUME NEW x \in Keys, NewReport(x) PROVE IntelInv'
  <2>1. version' = [version EXCEPT ![x] = @ + 1]
    BY <1>5 DEF NewReport
  <2>2. \A y \in Keys : version[y] <= version'[y]
    BY <1>2, <2>1 DEF IntelInv
  <2> QED
    BY <1>2, <1>4, <1>5, <2>2 DEF NewReport, Onward
<1>6. CASE Tick
  BY <1>2, <1>4, <1>6 DEF Tick, Onward
<1>7. ASSUME NEW set, Drop(set) PROVE IntelInv'
  <2>1. /\ UNCHANGED <<locals, cache, world, beside>>
        /\ \A k \in Requests : pc'[k] = pc[k] \/ pc'[k] = "gone"
    BY <1>7 DEF Drop
  <2>2. Onward
    BY <1>2, <2>1 DEF Onward, world
  <2>3. ASSUME NEW k \in Requests PROVE Sound(k)'
    <3>1. CASE pc'[k] = pc[k]
      BY <1>1, <2>1, <2>2, <3>1, Frame DEF IntelInv, Untouched, locals
    <3>2. CASE pc'[k] = "gone"
      <4>1. Position(k)' /\ ReadingInv(k)' /\ RiskInv(k)'
        BY <2>1, <3>2 DEF IntelInv, Sound, Position, ReadingInv, RiskInv, InFlight, op, locals, world
      <4>2. ResultsInv(k)'
        BY <2>1 DEF IntelInv, Sound, ResultsInv, ResultInv, Indicator, op, locals, world
      <4> QED
        BY <4>1, <4>2 DEF Sound
    <3> QED
      BY <2>1, <3>1, <3>2
  <2>4. \A x \in Keys : RowInv(x)'
    BY <2>1 DEF IntelInv, RowInv
  <2>5. BesideInv' /\ FetchedIsKept'
    BY <2>1 DEF IntelInv, BesideInv, FetchedIsKept, InFlight, locals
  <2>6. \A k \in Requests : KeyOf(k)' = KeyOf(k)
    BY <2>1, KeyOn DEF locals, world
  <2>7. LaterInv'
    BY <2>1, <2>6 DEF IntelInv, LaterInv, locals
  <2> QED
    BY <1>1, <2>3, <2>4, <2>5, <2>7 DEF IntelInv
<1>8. CASE UNCHANGED vars
  BY <1>2, <1>4, <1>8 DEF vars, world, Onward
<1> QED
  BY <1>3, <1>5, <1>6, <1>7, <1>8 DEF Next, ActsFor, HangUp, Crash

-----------------------------------------------------------------------------
(***************************************************************************)
(* Batches.                                                                *)
(***************************************************************************)

(* A batch has a result for every indicator it has come past that is not   *)
(* blank, in order; and it is done when it has come past them all.         *)
BatchInv(k) ==
  op(k) = "batch" =>
    /\ at[k] <= Len(iocs(k)) + 1
    /\ pc[k] = "done" => at[k] = Len(iocs(k)) + 1
    /\ Len(results[k]) = PlaceOf(k, at[k] - 1)
    /\ \A i \in 1..(at[k] - 1) :
         iocs(k)[i] # Blank => results[k][PlaceOf(k, i)].raw = iocs(k)[i]

(* The indicators that are not blank, counted one after the other.         *)
LEMMA PlacesCount ==
  ASSUME NEW k, NEW n \in Nat
  PROVE  /\ PlaceOf(k, n) \in Nat /\ PlaceOf(k, 0) = 0
         /\ iocs(k)[n + 1] = Blank => PlaceOf(k, n + 1) = PlaceOf(k, n)
         /\ iocs(k)[n + 1] # Blank => PlaceOf(k, n + 1) = PlaceOf(k, n) + 1
         /\ \A i \in 1..n : iocs(k)[i] # Blank => PlaceOf(k, i) \in 1..PlaceOf(k, n)
<1>1. PICK S : S = [m \in Nat |-> {j \in 1..m : iocs(k)[j] # Blank}]
  OBVIOUS
<1>2. \A m \in Nat : S[m] = {j \in 1..m : iocs(k)[j] # Blank} /\ PlaceOf(k, m) = Cardinality(S[m])
  BY <1>1 DEF PlaceOf
<1>3. ASSUME NEW m \in Nat PROVE IsFiniteSet(S[m]) /\ Cardinality(S[m]) \in Nat
  <2>1. IsFiniteSet(1..m) /\ S[m] \in SUBSET (1..m)
    BY <1>2, FS_Interval
  <2> QED
    BY <2>1, FS_Subset, FS_CardinalityType
<1>4. PlaceOf(k, 0) = 0
  <2>1. S[0] = {}
    BY <1>2
  <2> QED
    BY <1>2, <2>1, FS_EmptySet
<1>5. ASSUME iocs(k)[n + 1] = Blank PROVE PlaceOf(k, n + 1) = PlaceOf(k, n)
  <2>0. n + 1 \in Nat /\ 1..(n + 1) = (1..n) \cup {n + 1}
    OBVIOUS
  <2>1. S[n + 1] = S[n]
    BY <1>2, <1>5, <2>0
  <2> QED
    BY <1>2, <1>4, <1>5, <2>0, <2>1
<1>6. ASSUME iocs(k)[n + 1] # Blank PROVE PlaceOf(k, n + 1) = PlaceOf(k, n) + 1
  <2>0. n + 1 \in Nat /\ 1..(n + 1) = (1..n) \cup {n + 1} /\ n + 1 \notin 1..n
    OBVIOUS
  <2>1. S[n + 1] = S[n] \cup {n + 1} /\ n + 1 \notin S[n]
    BY <1>2, <1>6, <2>0
  <2>2. Cardinality(S[n + 1]) = Cardinality(S[n]) + 1
    BY <1>3, <2>1, FS_AddElement
  <2> QED
    BY <1>2, <1>6, <2>0, <2>2
<1>7. ASSUME NEW i \in 1..n, iocs(k)[i] # Blank PROVE PlaceOf(k, i) \in 1..PlaceOf(k, n)
  <2>1. i \in S[i] /\ S[i] \in SUBSET S[n] /\ i \in Nat
    BY <1>2, <1>7
  <2>2. Cardinality(S[i]) <= Cardinality(S[n])
    BY <1>3, <2>1, FS_Subset
  <2>3. Cardinality(S[i]) # 0
    BY <1>3, <2>1, FS_EmptySet
  <2> QED
    BY <1>2, <1>3, <2>1, <2>2, <2>3
<1> QED
  BY <1>2, <1>3, <1>4, <1>5, <1>6, <1>7

(* What a batch has is as it was if it comes past nothing.                 *)
LEMMA BatchStays ==
  ASSUME TypeOK, NEW k \in Requests, BatchInv(k), work' = work, at'[k] = at[k],
         results'[k] = results[k], pc'[k] = "done" => pc[k] = "done" \/ at[k] > Len(iocs(k))
  PROVE  BatchInv(k)'
<1>1. op(k)' = op(k) /\ iocs(k)' = iocs(k)
  BY DEF op, iocs
<1>2. \A i : PlaceOf(k, i)' = PlaceOf(k, i)
  BY <1>1 DEF PlaceOf
<1>3. at[k] \in Nat /\ Len(iocs(k)) \in Nat
  BY WorkType DEF TypeOK
<1> QED
  BY <1>1, <1>2, <1>3 DEF BatchInv

(* A batch comes past an indicator with a result, or past a blank one.     *)
LEMMA BatchGoesOn ==
  ASSUME TypeOK, NEW k \in Requests, Sound(k), BatchInv(k), (\E rec : AddsTo(k, rec)) \/ Skip(k)
  PROVE  BatchInv(k)'
<1>1. /\ at[k] \in Nat \ {0} /\ results[k] \in Seq(Result) /\ iocs(k) \in Seq(Inputs)
      /\ Len(iocs(k)) \in Nat /\ Len(results[k]) \in Nat
  BY WorkType DEF TypeOK
<1>2. work' = work /\ at'[k] = at[k] + 1 /\ at[k] <= Len(iocs(k)) /\ pc'[k] # "done"
  <2>1. CASE Skip(k)
    BY <2>1 DEF Skip, Selecting, TypeOK, world
  <2>2. CASE \E rec : AddsTo(k, rec)
    BY <2>2, AskedKey DEF AddsTo, TypeOK, Sound
  <2> QED
    BY <2>1, <2>2
<1>3. op(k)' = op(k) /\ iocs(k)' = iocs(k)
  BY <1>2 DEF op, iocs
<1>4. \A i : PlaceOf(k, i)' = PlaceOf(k, i)
  BY <1>3 DEF PlaceOf
<1>5. PICK n \in Nat : n = at[k] - 1
  BY <1>1
<1>6. at[k] = n + 1 /\ at'[k] - 1 = n + 1
  BY <1>1, <1>2, <1>5
<1>7. SUFFICES ASSUME op(k) = "batch"
               PROVE  /\ Len(results'[k]) = PlaceOf(k, n + 1)
                      /\ \A i \in 1..(n + 1) :
                           iocs(k)[i] # Blank => results'[k][PlaceOf(k, i)].raw = iocs(k)[i]
  BY <1>1, <1>2, <1>3, <1>4, <1>6 DEF BatchInv
<1>8. /\ Len(results[k]) = PlaceOf(k, n)
      /\ \A i \in 1..n : iocs(k)[i] # Blank => results[k][PlaceOf(k, i)].raw = iocs(k)[i]
  BY <1>5, <1>7 DEF BatchInv
<1>9. CASE Skip(k)
  <2>1. iocs(k)[n + 1] = Blank /\ results' = results
    BY <1>6, <1>9 DEF Skip, Skipped, raw
  <2>2. PlaceOf(k, n + 1) = PlaceOf(k, n)
    BY <2>1, PlacesCount
  <2>3. \A i \in 1..(n + 1) : i = n + 1 \/ i \in 1..n
    OBVIOUS
  <2> QED
    BY <1>8, <2>1, <2>2, <2>3
<1>10. CASE \E rec : AddsTo(k, rec)
  <2>1. PICK rec : AddsTo(k, rec)
    BY <1>10
  <2>2. rec.raw = iocs(k)[n + 1] /\ results'[k] = Append(results[k], rec) /\ rec \in Result
    BY <1>1, <1>6, <2>1 DEF AddsTo, raw, TypeOK
  <2>3. iocs(k)[n + 1] # Blank
    BY <1>6, <1>7, <2>1, AskedKey DEF AddsTo, Skipped, raw, Sound
  <2>4. /\ PlaceOf(k, n + 1) = Len(results[k]) + 1
        /\ \A i \in 1..n : iocs(k)[i] # Blank => PlaceOf(k, i) \in 1..Len(results[k])
    BY <1>8, <2>3, PlacesCount
  <2>5. /\ Len(results'[k]) = Len(results[k]) + 1 /\ results'[k][Len(results[k]) + 1] = rec
        /\ \A m \in 1..Len(results[k]) : results'[k][m] = results[k][m]
    BY <1>1, <2>2
  <2>6. ASSUME NEW i \in 1..(n + 1), iocs(k)[i] # Blank
        PROVE  results'[k][PlaceOf(k, i)].raw = iocs(k)[i]
    <3>1. CASE i = n + 1
      BY <2>2, <2>4, <2>5, <3>1
    <3>2. CASE i # n + 1
      <4>1. i \in 1..n
        BY <3>2
      <4> QED
        BY <1>8, <2>4, <2>5, <2>6, <4>1
    <3> QED
      BY <3>1, <3>2
  <2> QED
    BY <2>4, <2>5, <2>6
<1> QED
  BY <1>9, <1>10

(* Every step keeps what the batches have.                                 *)
LEMMA BatchStep ==
  ASSUME IntelInv, [Next]_vars, NEW k \in Requests, BatchInv(k)
  PROVE  BatchInv(k)'
<1>1. /\ TypeOK /\ version \in [Keys -> Nat] /\ \A j \in Requests : Sound(j)
      /\ \A x \in Keys : RowInv(x)
  BY DEF IntelInv
<1>2. ASSUME work' = work, at'[k] = at[k], results'[k] = results[k],
             pc'[k] = pc[k] \/ pc'[k] # "done"
      PROVE  BatchInv(k)'
  BY <1>1, <1>2, BatchStays
<1>3. ASSUME NEW j \in Requests, ActsFor(j), j # k PROVE BatchInv(k)'
  <2>1. TypeOK' /\ version' \in [Keys -> Nat]
    BY IntelInvStep DEF IntelInv
  <2>2. Untouched(k) /\ Onward
    BY <1>1, <1>3, <2>1, ActSound
  <2> QED
    BY <1>2, <2>2 DEF Untouched, Onward
<1>4. ASSUME ActsFor(k) PROVE BatchInv(k)'
  <2>1. CASE (\E rec : AddsTo(k, rec)) \/ Skip(k)
    BY <1>1, <2>1, BatchGoesOn
  <2>2. CASE Stops(k)
    BY <1>1, <1>2, <2>2 DEF Stops, TypeOK
  <2>3. CASE Begin(k) \/ Read(k) \/ Miss(k) \/ Receive(k)
    BY <1>1, <1>2, <2>3 DEF Begin, Read, Miss, Receive, GoTo, TypeOK, locals, world
  <2>4. CASE TriageAlert(k)
    <3>1. op(k)' = "alert"
      BY <2>4 DEF TriageAlert, op, world
    <3> QED
      BY <3>1 DEF BatchInv
  <2>5. CASE Done(k)
    <3>1. at[k] > Len(iocs(k)) /\ at' = at /\ results' = results /\ work' = work
      BY <2>5 DEF Done, world
    <3> QED
      BY <1>1, <3>1, BatchStays
  <2> QED
    BY <1>1, <1>4, <2>1, <2>2, <2>3, <2>4, <2>5, ActCases
<1>5. ASSUME NEW x \in Keys, NewReport(x) PROVE BatchInv(k)'
  BY <1>2, <1>5 DEF NewReport, locals
<1>6. CASE Tick
  BY <1>2, <1>6 DEF Tick, locals
<1>7. ASSUME NEW set, Drop(set) PROVE BatchInv(k)'
  BY <1>2, <1>7 DEF Drop, locals, world
<1>8. CASE UNCHANGED vars
  BY <1>2, <1>8 DEF vars, locals, world
<1> QED
  BY <1>3, <1>4, <1>5, <1>6, <1>7, <1>8 DEF Next, ActsFor, HangUp, Crash

-----------------------------------------------------------------------------
(* The invariant holds of every state of threat intelligence.              *)
THEOREM IntelInvariance == Spec => []IntelInv
BY IntelInvInit, IntelInvStep, PTL DEF Spec

(* Every variable keeps its type.                                          *)
THEOREM IntelTypeCorrect == Spec => []TypeOK
<1>1. IntelInv => TypeOK
  BY DEF IntelInv
<1> QED
  BY <1>1, IntelInvariance, PTL

(* A result of services/threat_intel.rs is about the indicator that was    *)
(* asked, and from the cache no older than its row may be.                 *)
THEOREM Results == Spec => []ResultsAreSound
<1>1. IntelInv => ResultsAreSound
  BY DEF IntelInv, Sound, ResultsInv, ResultInv, Outcomes, ResultsAreSound, ResultsAreOwn, CachedIsFresh
<1> QED
  BY <1>1, IntelInvariance, PTL

(* A result that was fetched stays in threat_intel_cache until a newer     *)
(* reading, or a lookup that ran beside it, replaces it.                   *)
THEOREM Kept == Spec => []FetchedIsKept
<1>1. IntelInv => FetchedIsKept
  BY DEF IntelInv
<1> QED
  BY <1>1, IntelInvariance, PTL

(* A batch of /threat-intel ends with a result for every indicator in it,  *)
(* in order, whatever failed on the way.                                   *)
THEOREM Batches == Spec => []BatchIsComplete
<1> DEFINE BInv == \A k \in Requests : BatchInv(k)
<1>1. Init => BInv
  <2> SUFFICES ASSUME Init, NEW k \in Requests PROVE BatchInv(k)
    OBVIOUS
  <2>1. at[k] = 1 /\ results[k] = <<>> /\ pc[k] = "idle" /\ TypeOK
    BY IntelInvInit DEF Init, IntelInv
  <2>2. Len(iocs(k)) \in Nat /\ Len(results[k]) = 0
    BY <2>1, WorkType
  <2>3. PlaceOf(k, 0) = 0
    BY PlacesCount
  <2> QED
    BY <2>1, <2>2, <2>3 DEF BatchInv
<1>2. IntelInv /\ BInv /\ [Next]_vars => BInv'
  BY BatchStep
<1>3. IntelInv /\ BInv => BatchIsComplete
  <2> SUFFICES ASSUME IntelInv, NEW k \in Requests, BatchInv(k), pc[k] = "done", op(k) = "batch"
               PROVE  /\ Len(results[k]) = PlaceOf(k, Len(iocs(k)))
                      /\ \A i \in 1..Len(iocs(k)) :
                           iocs(k)[i] # Blank => results[k][PlaceOf(k, i)].raw = iocs(k)[i]
    BY DEF BatchIsComplete
  <2>1. at[k] - 1 = Len(iocs(k))
    BY WorkType DEF BatchInv, IntelInv
  <2> QED
    BY <2>1 DEF BatchInv
<1> HIDE DEF BInv
<1> QED
  BY <1>1, <1>2, <1>3, IntelInvariance, PTL DEF Spec

(* A more serious alert does not score less: where the levels of           *)
(* services/ai_analyst.rs end, the severity goes on.                       *)
LEMMA RiskIsOrdered ==
  ASSUME NEW m \in Nat, NEW n \in Nat, NEW a \in BOOLEAN, NEW b \in BOOLEAN, m <= n, a => b
  PROVE  AlertRisk(m, a) <= AlertRisk(n, b)
<1>1. ToolRisk(a) <= ToolRisk(b) /\ ToolRisk(a) \in Nat /\ ToolRisk(b) \in Nat
  BY DEF ToolRisk
<1>2. /\ SeverityRisk(m) \in Nat /\ SeverityRisk(n) \in Nat /\ LevelRisk(m) \in Nat /\ LevelRisk(n) \in Nat
      /\ SeverityRisk(m) <= SeverityRisk(n)
      /\ LevelRisk(m) <= LevelRisk(n) \/ LevelRisk(m) <= SeverityRisk(n)
  BY DEF SeverityRisk, LevelRisk
<1> QED
  BY <1>1, <1>2 DEF AlertRisk, Highest

(* The triage of services/ai_analyst.rs goes by the score of an indicator: *)
(* what it escalates has a verdict for it, and what is malicious it        *)
(* escalates unless VirusTotal dilutes it.  A more serious alert does not  *)
(* score less.                                                             *)
THEOREM Triage == Spec => []TriageIsSound
<1>1. IntelInv => AlertsAreOrdered
  <2> SUFFICES ASSUME IntelInv, NEW j \in Requests, NEW k \in Requests,
                      pc[j] = "done", op(j) = "alert", pc[k] = "done", op(k) = "alert",
                      work[j].level <= work[k].level, work[j].named => work[k].named
               PROVE  risk[j] <= risk[k]
    BY DEF AlertsAreOrdered
  <2>1. /\ risk[j] = AlertRisk(work[j].level, work[j].named)
        /\ risk[k] = AlertRisk(work[k].level, work[k].named)
    BY DEF IntelInv, Sound, RiskInv
  <2>2. /\ work[j].level \in Nat /\ work[k].level \in Nat
        /\ work[j].named \in BOOLEAN /\ work[k].named \in BOOLEAN
    BY WorkType DEF IntelInv
  <2> QED
    BY <2>1, <2>2, RiskIsOrdered
<1>2. IntelInv => TriageGoesByShare
  <2> DEFINE escalated(k) == TriageVerdict(risk[k]) \in {"SUSPICIOUS", "MALICIOUS"}
  <2> SUFFICES ASSUME IntelInv, NEW k \in Requests, pc[k] = "done", op(k) = "triage",
                      results[k][1].kind # "local"
               PROVE  LET r == results[k][1] IN
                      /\ escalated(k) => Verdict(r.key, r.version) \in {"malicious", "suspicious"}
                      /\ Verdict(r.key, r.version) = "malicious" =>
                           escalated(k) \/ Diluted(r.key, r.version)
    BY DEF TriageGoesByShare
  <2>1. /\ Len(results[k]) > 0
        /\ risk[k] = IocRisk(Score(results[k][1].key, results[k][1].version))
    BY DEF IntelInv, Sound, RiskInv
  <2>2. results[k] \in Seq(Result) /\ 1 \in 1..Len(results[k])
    BY <2>1 DEF IntelInv, TypeOK
  <2>3. PICK r \in Result : r = results[k][1]
    BY <2>2
  <2>4. r.kind \in Outcomes /\ r.version \in 1..Len(Reports[r.key]) /\ r.key \in Keys
    <3>1. ResultInv(r) /\ r.kind # "error"
      BY <2>2, <2>3 DEF IntelInv, Sound, ResultsInv
    <3> QED
      BY <2>3, <3>1 DEF ResultInv, Result, Outcomes
  <2>5. Report(r.key, r.version) \in ReportsOf(r.key)
    <3>1. Reports[r.key] \in Seq(ReportsOf(r.key))
      BY <2>4, KeysAssumption
    <3> QED
      BY <2>4, <3>1 DEF Report
  <2>6. CASE r.key.type = "cve"
    <3>1. Report(r.key, r.version) \in {NoScore} \cup 0..1000
      BY <2>5, <2>6 DEF ReportsOf
    <3>2. CASE Report(r.key, r.version) = NoScore
      <4>1. Verdict(r.key, r.version) = "unknown"
        BY <2>6, <3>2 DEF Verdict, EpssVerdict
      <4>2. risk[k] = 20
        <5>1. Score(r.key, r.version) = <<0, 0>>
          BY <2>6, <3>2 DEF Score
        <5> QED
          BY <2>1, <2>3, <5>1 DEF IocRisk
      <4> QED
        BY <2>3, <4>1, <4>2 DEF TriageVerdict
    <3>3. CASE Report(r.key, r.version) # NoScore
      <4> DEFINE n == Report(r.key, r.version)
      <4>1. n \in 0..1000
        BY <3>1, <3>3
      <4>2. Verdict(r.key, r.version) = EpssVerdict(n)
        BY <2>6 DEF Verdict
      <4>3. risk[k] = IocRisk(<<n, 1000>>)
        BY <2>1, <2>3, <2>6, <3>3 DEF Score
      <4>4. <<n, 1000>>[1] = n /\ <<n, 1000>>[2] = 1000
        OBVIOUS
      <4>5. risk[k] = IF n * 100 > 60000 THEN 90 ELSE IF n * 100 > 15000 THEN 65 ELSE 25
        BY <4>3, <4>4 DEF IocRisk
      <4> HIDE DEF n
      <4>6. /\ EpssVerdict(n) \in {"malicious", "suspicious"} \/ risk[k] = 25
            /\ EpssVerdict(n) = "malicious" => risk[k] \in {65, 90}
        BY <4>1, <4>5, <3>3 DEF EpssVerdict, NoScore
      <4>7. /\ risk[k] = 25 => ~escalated(k)
            /\ risk[k] \in {65, 90} => escalated(k)
        BY DEF TriageVerdict
      <4> QED
        BY <2>3, <4>2, <4>6, <4>7
    <3> QED
      BY <3>2, <3>3
  <2>7. CASE r.key.type # "cve"
    <3>1. Report(r.key, r.version) \in [found : BOOLEAN, malicious : Nat, suspicious : Nat, clean : Nat]
      BY <2>5, <2>7 DEF ReportsOf
    <3>2. CASE ~Report(r.key, r.version).found
      <4>1. Verdict(r.key, r.version) = "unknown" /\ Score(r.key, r.version) = <<0, 1>>
        BY <2>7, <3>2 DEF Verdict, Score
      <4>2. risk[k] = 25
        BY <2>1, <2>3, <4>1 DEF IocRisk
      <4> QED
        BY <2>3, <4>1, <4>2 DEF TriageVerdict
    <3>3. CASE Report(r.key, r.version).found
      <4> DEFINE m == Report(r.key, r.version).malicious
                 n == m + Report(r.key, r.version).suspicious + Report(r.key, r.version).clean
      <4>1. m \in Nat /\ n \in Nat /\ m <= n
        BY <3>1
      <4>2. Score(r.key, r.version) = <<m, n>> /\ <<m, n>>[1] = m /\ <<m, n>>[2] = n
        BY <2>7, <3>3 DEF Score
      <4>3. Diluted(r.key, r.version) <=> m * 100 <= n * 15
        <5> HIDE DEF m, n
        <5> QED
          BY <2>7, <4>2, Zenon DEF Diluted
      <4>4. risk[k] = IF n = 0 THEN 20 ELSE IF m * 100 > 60 * n THEN 90
                      ELSE IF m * 100 > 15 * n THEN 65 ELSE 25
        <5> HIDE DEF m, n
        <5>1. risk[k] = IocRisk(<<m, n>>)
          BY <2>1, <2>3, <4>2
        <5> QED
          BY <4>2, <5>1, Zenon DEF IocRisk
      <4>5. m > 0 => Verdict(r.key, r.version) \in {"malicious", "suspicious"}
        BY <2>7, <3>1, <3>3 DEF Verdict, VtVerdict
      <4>6. escalated(k) => m > 0
        <5> HIDE DEF m, n
        <5> QED
          BY <4>1, <4>4 DEF TriageVerdict
      <4>7. escalated(k) \/ Diluted(r.key, r.version)
        <5> HIDE DEF m, n
        <5> QED
          BY <4>1, <4>3, <4>4 DEF TriageVerdict
      <4> QED
        BY <2>3, <4>5, <4>6, <4>7
    <3> QED
      BY <3>2, <3>3
  <2> QED
    BY <2>6, <2>7
<1> QED
  BY <1>1, <1>2, IntelInvariance, PTL DEF TriageIsSound
=============================================================================
