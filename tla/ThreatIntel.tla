---------------------------- MODULE ThreatIntel ----------------------------
(***************************************************************************)
(* Threat intelligence: the lookups of services/threat_intel.rs with their *)
(* cache (threat_intel_cache), the routes that make them, and the triage   *)
(* of services/ai_analyst.rs, which scores an alert or an indicator.       *)
(*                                                                         *)
(* A request looks its indicators up one after the other:                  *)
(*                                                                         *)
(*    idle -> select -> fetch -> store -> select -> ... -> done            *)
(*                 (cached: select -> select;  refused, failed, gone)      *)
(*                                                                         *)
(* Providers change their reports while requests are under way, and        *)
(* nothing holds two requests for one indicator apart.                     *)
(***************************************************************************)
EXTENDS Integers, Sequences, FiniteSets

CONSTANTS
  Requests,
  Workloads,  \* what the requests may ask: functions to [op, iocs, level, named]
  Inputs,     \* indicators as they are typed
  Blank,      \* one that is only white space
  TypeOf,     \* TypeOf[raw]: what IocType::infer makes of it
  Trimmed,    \* Trimmed[raw]: without the white space around it
  Upper,      \* Upper[raw]: and in upper case
  Keys,       \* [type, value]: what the cache tells apart
  Reports,    \* Reports[x]: what its provider says of key x, one report after the other
  Keyed,      \* whether there may be a key for VirusTotal, and whether there may be none
  TTL,        \* TTL[x]: 7 days for EPSS, 24 h for VirusTotal
  Timeout,    \* of a fetch: 10 s, 15 s
  MaxTime,    \* bound
  MaxFaults   \* bound: queries that fail

NoScore == -1                                \* EPSS has no data on it
Types   == {"cve", "url", "ip", "hash", "domain"}
Ops     == {"lookup", "batch", "epss", "triage", "alert"}

ASSUME InputsAssumption ==
  /\ Blank \in Inputs
  /\ TypeOf \in [Inputs -> Types]
  /\ Workloads \subseteq
       [Requests -> [op : Ops, iocs : Seq(Inputs), level : Nat, named : BOOLEAN]]

ASSUME ProvidersAssumption ==
  /\ \A x \in Keys : Len(Reports[x]) \in Nat \ {0}
  /\ TTL \in [Keys -> Nat] /\ Timeout \in Nat
  /\ MaxTime \in Nat /\ MaxFaults \in Nat
  /\ Keyed \subseteq BOOLEAN

(* What is looked up has a key, and what the providers report.             *)
KeyFor(t, w) ==
  [type  |-> t, value |-> IF t = "cve" THEN Upper[w] ELSE Trimmed[w]]

ReportsOf(x) ==
  IF x.type = "cve" THEN {NoScore} \cup 0..1000
  ELSE [found : BOOLEAN, malicious : Nat, suspicious : Nat, clean : Nat]

ASSUME KeysAssumption ==
  /\ Trimmed \in [Inputs -> Inputs] /\ Upper \in [Inputs -> Inputs]
  /\ Keys \subseteq [type : Types, value : Inputs]
  /\ \A x \in Keys : Reports[x] \in Seq(ReportsOf(x))
  /\ \A w \in Workloads : \A k \in Requests :
       /\ w[k].op \in {"lookup", "epss", "triage"} => Len(w[k].iocs) = 1
       /\ \A i \in 1..Len(w[k].iocs) :
            /\ w[k].iocs[i] = Blank => w[k].op \in {"lookup", "batch"}
            /\ w[k].iocs[i] # Blank =>
                 KeyFor(IF w[k].op = "epss" THEN "cve" ELSE TypeOf[w[k].iocs[i]], w[k].iocs[i]) \in Keys

VARIABLES
  pc,        \* pc[k]: where request k is
  work,      \* work[k]: what it asks
  at,        \* at[k]: the indicator it comes to
  since,     \* since[k]: when it began its fetch, if it is in one
  reading,   \* reading[k]: what the provider answered
  results,   \* results[k]: the results it has
  risk,      \* risk[k]: the score of its triage
  cache,     \* cache[x]: the row of key x
  version,   \* version[x]: the report its provider gives now
  keyed,     \* whether there is a key for VirusTotal
  now,
  faults,    \* queries that may still fail
  beside     \* history: beside[k]: requests that ran at a time when k did

locals   == <<at, since, reading, results, risk>>
world    == <<work, version, keyed, now>>
vars     == <<pc, locals, cache, world, faults, beside>>

InFlight == {"select", "fetch", "store"}
Ended    == {"done", "refused", "failed", "gone"}
NoRow    == [version |-> 0]
Nothing  == [version |-> 0]
Running  == {k \in Requests : pc[k] \in InFlight}

Risks    == 0..100
Reading  == [version : Nat, of : Inputs, read : Int, expires : Int]
Row      == [version : Nat, of : Inputs, read : Int, expires : Int, by : Requests]
Result   == [kind : {"cached", "fresh", "missing", "local", "error"},
             raw : Inputs, key : Keys, of : Inputs, version : Nat, read : Int, told : Int]

TypeOK ==
  /\ pc \in [Requests -> InFlight \cup Ended \cup {"idle"}]
  /\ work \in Workloads
  /\ at \in [Requests -> Nat \ {0}]
  /\ since \in [Requests -> 0..MaxTime]
  /\ reading \in [Requests -> Reading \cup {Nothing}]
  /\ results \in [Requests -> Seq(Result)]
  /\ risk \in [Requests -> Risks]
  /\ cache \in [Keys -> Row \cup {NoRow}]
  /\ \A x \in Keys : version[x] \in 1..Len(Reports[x])
  /\ keyed \in BOOLEAN
  /\ now \in 0..MaxTime
  /\ faults \in 0..MaxFaults
  /\ beside \in [Requests -> SUBSET Requests]

Init ==
  /\ work \in Workloads
  /\ pc = [k \in Requests |-> "idle"]
  /\ at = [k \in Requests |-> 1]
  /\ since = [k \in Requests |-> 0]
  /\ reading = [k \in Requests |-> Nothing]
  /\ results = [k \in Requests |-> <<>>]
  /\ risk = [k \in Requests |-> 0]
  /\ cache = [x \in Keys |-> NoRow]
  /\ version = [x \in Keys |-> 1]
  /\ keyed \in Keyed
  /\ now = 0
  /\ faults = MaxFaults
  /\ beside = [k \in Requests |-> {}]

GoTo(k, place) == pc' = [pc EXCEPT ![k] = place]

Fault == faults > 0 /\ faults' = faults - 1

-----------------------------------------------------------------------------
(***************************************************************************)
(* Indicators, reports and verdicts.  A score is a fraction; an EPSS       *)
(* report is in thousandths.                                               *)
(***************************************************************************)

op(k)   == work[k].op
iocs(k) == work[k].iocs
raw(k)  == iocs(k)[at[k]]

(* lookup_epss takes any text for a CVE; only a CVE is put in upper case.  *)
TypeFor(k) == IF op(k) = "epss" THEN "cve" ELSE TypeOf[raw(k)]

KeyOf(k)  == KeyFor(TypeFor(k), raw(k))
Normal(k) == KeyOf(k).value

EpssVerdict(r) ==
  IF r = NoScore THEN "unknown"
  ELSE IF r >= 500 THEN "malicious"
  ELSE IF r >= 150 THEN "suspicious" ELSE "benign"

VtVerdict(r) ==
  IF r.malicious >= 3 THEN "malicious"
  ELSE IF r.malicious >= 1 \/ r.suspicious >= 2 THEN "suspicious"
  ELSE IF r.clean > 0 THEN "benign" ELSE "unknown"

Report(x, v) == Reports[x][v]

Verdict(x, v) ==
  IF x.type = "cve" THEN EpssVerdict(Report(x, v))
  ELSE IF ~Report(x, v).found THEN "unknown"
  ELSE VtVerdict(Report(x, v))

(* <<part, whole>>; none with a whole of 0. *)
Score(x, v) ==
  LET r == Report(x, v) IN
  IF x.type = "cve" THEN IF r = NoScore THEN <<0, 0>> ELSE <<r, 1000>>
  ELSE IF ~r.found THEN <<0, 1>>
  ELSE <<r.malicious, r.malicious + r.suspicious + r.clean>>

-----------------------------------------------------------------------------
(***************************************************************************)
(* Triage: the score of an alert from its severity and its rule level, the *)
(* score of an indicator from what the lookup told.                        *)
(***************************************************************************)

(* map_severity of the Wazuh connector, then the score of that severity.   *)
SeverityRisk(level) ==
  IF level >= 14 THEN 90 ELSE IF level >= 11 THEN 75 ELSE IF level >= 7 THEN 50 ELSE 25

LevelRisk(level) ==
  IF level \in 14..15 THEN 90
  ELSE IF level \in 11..13 THEN 75
  ELSE IF level \in 7..10 THEN 50
  ELSE IF level \in 4..6 THEN 35 ELSE 20

Highest(a, b) == IF a > b THEN a ELSE b

(* Some tools are bad enough on their own. *)
ToolRisk(named) == IF named THEN 85 ELSE 20

AlertRiskAdded(level, named) ==               \* mutant: they are added up
  SeverityRisk(level) + LevelRisk(level)
AlertRisk(level, named) ==
  Highest(Highest(SeverityRisk(level), LevelRisk(level)), ToolRisk(named))

IocRiskOfFraction(score) ==                   \* mutant: percent of a fraction
  IF score[2] = 0 THEN 20
  ELSE IF score[1] > 60 * score[2] THEN 90
  ELSE IF score[1] > 15 * score[2] THEN 65 ELSE 25
IocRisk(score) ==
  IF score[2] = 0 THEN 20
  ELSE IF score[1] * 100 > 60 * score[2] THEN 90
  ELSE IF score[1] * 100 > 15 * score[2] THEN 65 ELSE 25

TriageVerdict(n) ==
  IF n >= 80 THEN "MALICIOUS"
  ELSE IF n >= 50 THEN "SUSPICIOUS"
  ELSE IF n >= 25 THEN "INFORMATIONAL" ELSE "BENIGN"

-----------------------------------------------------------------------------
(***************************************************************************)
(* Requests.                                                               *)
(***************************************************************************)

(* A lookup without an indicator is refused; triage of an alert is one     *)
(* read of it.                                                             *)
Refuse(k) ==
  /\ pc[k] = "idle"
  /\ op(k) = "lookup" /\ raw(k) = Blank
  /\ GoTo(k, "refused")
  /\ UNCHANGED <<locals, cache, world, faults, beside>>

Begin(k) ==
  /\ pc[k] = "idle" /\ op(k) # "alert"
  /\ ~(op(k) = "lookup" /\ raw(k) = Blank)
  /\ beside' = [j \in Requests |-> IF j = k THEN Running
                                   ELSE IF j \in Running THEN beside[j] \cup {k} ELSE beside[j]]
  /\ GoTo(k, "select")
  /\ UNCHANGED <<locals, cache, world, faults>>

TriageAlert(k) ==
  /\ pc[k] = "idle" /\ op(k) = "alert"
  /\ risk' = [risk EXCEPT ![k] = AlertRisk(work[k].level, work[k].named)]
  /\ GoTo(k, "done")
  /\ UNCHANGED <<at, since, reading, results, cache, world, faults, beside>>

(* The result for the present indicator, and on to the next.               *)
Push(k, kind, r) ==
  /\ results' = [results EXCEPT ![k] =
       Append(@, [kind |-> kind, raw |-> raw(k), key |-> KeyOf(k), of |-> r.of,
                  version |-> r.version, read |-> r.read, told |-> now])]
  /\ at' = [at EXCEPT ![k] = @ + 1]
  /\ since' = [since EXCEPT ![k] = 0]
  /\ reading' = [reading EXCEPT ![k] = Nothing]
  /\ GoTo(k, "select")

Unread(k) == [of |-> raw(k), version |-> 0, read |-> now]

(* An error ends a request, but in a batch it is a result of its own.      *)
NextAfterErrorSkipped(k) ==                   \* mutant: it has no result
  /\ at' = [at EXCEPT ![k] = @ + 1]
  /\ since' = [since EXCEPT ![k] = 0]
  /\ reading' = [reading EXCEPT ![k] = Nothing]
  /\ GoTo(k, "select")
  /\ UNCHANGED results
NextAfterError(k) == Push(k, "error", Unread(k))

Err(k) ==
  IF op(k) = "batch" THEN NextAfterError(k)
  ELSE GoTo(k, "failed") /\ UNCHANGED <<at, since, reading, results>>

Done(k) ==
  /\ pc[k] = "select" /\ at[k] > Len(iocs(k))
  /\ risk' = IF op(k) = "triage"
             THEN LET r == results[k][1] IN
                  [risk EXCEPT ![k] = IF r.kind = "local" THEN 20
                                      ELSE IocRisk(Score(r.key, r.version))]
             ELSE risk
  /\ GoTo(k, "done")
  /\ UNCHANGED <<at, since, reading, results, cache, world, faults, beside>>

-----------------------------------------------------------------------------
(***************************************************************************)
(* lookup_epss, lookup_virustotal and enrich_ioc, on the indicator at[k].  *)
(***************************************************************************)

Selecting(k) == pc[k] = "select" /\ at[k] <= Len(iocs(k))
Skipped(k)   == op(k) = "batch" /\ raw(k) = Blank
Asks(k)      == TypeFor(k) = "cve" \/ keyed
Live(x)      == cache[x] # NoRow /\ cache[x].expires > now

(* A batch passes over what is blank. *)
Skip(k) ==
  /\ Selecting(k) /\ Skipped(k)
  /\ at' = [at EXCEPT ![k] = @ + 1]
  /\ UNCHANGED <<pc, since, reading, results, risk, cache, world, faults, beside>>

NoKey(k) ==
  /\ Selecting(k) /\ ~Skipped(k) /\ ~Asks(k)
  /\ Push(k, "local", Unread(k))
  /\ UNCHANGED <<risk, cache, world, faults, beside>>

Hit(k) ==
  /\ Selecting(k) /\ ~Skipped(k) /\ Asks(k)
  /\ Live(KeyOf(k))
  /\ Push(k, "cached", cache[KeyOf(k)])
  /\ UNCHANGED <<risk, cache, world, faults, beside>>

Miss(k) ==
  /\ Selecting(k) /\ ~Skipped(k) /\ Asks(k)
  /\ ~Live(KeyOf(k))
  /\ since' = [since EXCEPT ![k] = now]
  /\ GoTo(k, "fetch")
  /\ UNCHANGED <<at, reading, results, risk, cache, world, faults, beside>>

SelectFails(k) ==
  /\ Selecting(k) /\ ~Skipped(k) /\ Asks(k)
  /\ Fault
  /\ Err(k)
  /\ UNCHANGED <<risk, cache, world, beside>>

(* The provider reads its report; the answer comes in time, or the fetch   *)
(* fails: no connection, a status that is no success, or the time is up.   *)
InTime(k) == now - since[k] <= Timeout

Read(k) ==
  /\ pc[k] = "fetch" /\ reading[k] = Nothing /\ InTime(k)
  /\ reading' = [reading EXCEPT ![k] =
       [version |-> version[KeyOf(k)], of |-> Normal(k), read |-> now, expires |-> 0]]
  /\ UNCHANGED <<pc, at, since, results, risk, cache, world, faults, beside>>

NotFound(k) == KeyOf(k).type # "cve" /\ ~Report(KeyOf(k), reading[k].version).found

Receive(k) ==
  /\ pc[k] = "fetch" /\ reading[k] # Nothing /\ InTime(k) /\ ~NotFound(k)
  /\ reading' = [reading EXCEPT ![k].expires = now + TTL[KeyOf(k)]]
  /\ since' = [since EXCEPT ![k] = 0]
  /\ GoTo(k, "store")
  /\ UNCHANGED <<at, results, risk, cache, world, faults, beside>>

(* A 404 is an answer, and not stored.                                     *)
ReceiveNotFound(k) ==
  /\ pc[k] = "fetch" /\ reading[k] # Nothing /\ InTime(k) /\ NotFound(k)
  /\ Push(k, "missing", reading[k])
  /\ UNCHANGED <<risk, cache, world, faults, beside>>

FetchFails(k) ==
  /\ pc[k] = "fetch"
  /\ Err(k)
  /\ UNCHANGED <<risk, cache, world, faults, beside>>

(* ON CONFLICT: the verdict and the time it expires are replaced.          *)
UpsertKeptExpiry(k, old) ==                   \* mutant: expires_at is missing from SET
  [version |-> reading[k].version, of |-> reading[k].of, read |-> reading[k].read,
   expires |-> IF old = NoRow THEN reading[k].expires ELSE old.expires, by |-> k]
UpsertStamped(k, old) ==                      \* mutant: expires_at is NOW() plus the TTL
  [version |-> reading[k].version, of |-> reading[k].of, read |-> reading[k].read,
   expires |-> now + TTL[KeyOf(k)], by |-> k]
Upsert(k, old) ==
  [version |-> reading[k].version, of |-> reading[k].of, read |-> reading[k].read,
   expires |-> reading[k].expires, by |-> k]

Store(k) ==
  /\ pc[k] = "store"
  /\ cache' = [cache EXCEPT ![KeyOf(k)] = Upsert(k, @)]
  /\ Push(k, "fresh", reading[k])
  /\ UNCHANGED <<risk, world, faults, beside>>

StoreFails(k) ==
  /\ pc[k] = "store"
  /\ Fault
  /\ Err(k)
  /\ UNCHANGED <<risk, cache, world, beside>>

-----------------------------------------------------------------------------
(***************************************************************************)
(* Providers, time, and the loss of a client or of the process.            *)
(***************************************************************************)

(* Bound: of what nobody will ask, and after the last answer, nothing is    *)
(* followed.                                                               *)
Wanted(x) ==
  \E k \in Requests : pc[k] \notin Ended /\ \E i \in at[k]..Len(iocs(k)) :
     x.value \in {Trimmed[iocs(k)[i]], Upper[iocs(k)[i]]}

NewReport(x) ==
  /\ Wanted(x)
  /\ version[x] < Len(Reports[x])
  /\ version' = [version EXCEPT ![x] = @ + 1]
  /\ UNCHANGED <<pc, locals, cache, work, keyed, now, faults, beside>>

Tick ==
  /\ now < MaxTime /\ \E k \in Requests : pc[k] \notin Ended
  /\ now' = now + 1
  /\ UNCHANGED <<pc, locals, cache, work, version, keyed, faults, beside>>

Drop(requests) ==
  /\ pc' = [k \in Requests |-> IF k \in requests THEN "gone" ELSE pc[k]]
  /\ UNCHANGED <<locals, cache, world, faults, beside>>

HangUp(k) == k \in Running /\ Drop({k})
Crash     == Running # {} /\ Drop(Running)

-----------------------------------------------------------------------------
Step(k) ==
  \/ Done(k) \/ Skip(k) \/ NoKey(k) \/ Hit(k) \/ Miss(k) \/ SelectFails(k)
  \/ Receive(k) \/ ReceiveNotFound(k) \/ FetchFails(k) \/ Store(k) \/ StoreFails(k)

Next ==
  \/ \E k \in Requests :
       Refuse(k) \/ Begin(k) \/ TriageAlert(k) \/ Read(k) \/ Step(k) \/ HangUp(k)
  \/ \E x \in Keys : NewReport(x)
  \/ Tick \/ Crash

Spec == Init /\ [][Next]_vars

-----------------------------------------------------------------------------
(***************************************************************************)
(* What may be relied on.                                                  *)
(***************************************************************************)

Indicator(r) == IF r.key.type = "cve" THEN Upper[r.raw] ELSE Trimmed[r.raw]

(* A result is about the indicator that was asked, from the cache too: the *)
(* spellings of a CVE are one, those of a URL are not (lookup_virustotal   *)
(* puts nothing in upper case).                                            *)
ResultsAreOwn ==
  \A k \in Requests : \A i \in 1..Len(results[k]) :
    LET r == results[k][i] IN
    r.kind \in {"cached", "fresh", "missing"} => r.of = Indicator(r)

(* However late a row is written, what is answered from it was read from   *)
(* the provider no longer ago than the row is kept and a fetch may take.   *)
CachedIsFresh ==
  \A k \in Requests : \A i \in 1..Len(results[k]) :
    LET r == results[k][i] IN
    r.kind = "cached" => r.told - r.read <= TTL[r.key] + Timeout

(* A result may be relied on, wherever it comes from.                      *)
ResultsAreSound == ResultsAreOwn /\ CachedIsFresh

(* A result that was fetched is what the cache holds on to, for its full   *)
(* time; only a newer reading replaces it, or a lookup that ran beside it. *)
FetchedIsKept ==
  \A k \in Requests : \A i \in 1..Len(results[k]) :
    LET r == results[k][i]  row == cache[r.key] IN
    r.kind = "fresh" =>
      /\ row # NoRow
      /\ row.by \in beside[k] \/ (row.version >= r.version /\ row.expires >= r.read + TTL[r.key])

(* A batch that ends has a result for every indicator in it, in order,     *)
(* whatever failed on the way.                                             *)
PlaceOf(k, i) == Cardinality({j \in 1..i : iocs(k)[j] # Blank})

BatchIsComplete ==
  \A k \in Requests : pc[k] = "done" /\ op(k) = "batch" =>
    /\ Len(results[k]) = PlaceOf(k, Len(iocs(k)))
    /\ \A i \in 1..Len(iocs(k)) :
         iocs(k)[i] # Blank => results[k][PlaceOf(k, i)].raw = iocs(k)[i]

(* Engines called the indicator malicious, at most 15 in a hundred of      *)
(* them: three are enough for the verdict of threat_intel.rs, whatever the *)
(* number of engines, and 15 in a hundred too few for ai_analyst.rs.       *)
Diluted(x, v) ==
  x.type # "cve" /\ Score(x, v)[1] * 100 <= Score(x, v)[2] * 15

(* The triage goes by the score of an indicator and not by its verdict.    *)
(* What it escalates has a verdict that is malicious or suspicious; what   *)
(* is malicious it escalates, always for a CVE, and for VirusTotal unless  *)
(* the engines that say so are diluted by the others: the code then        *)
(* reports a malicious indicator as INFORMATIONAL, and so does this model. *)
TriageGoesByShare ==
  \A k \in Requests : pc[k] = "done" /\ op(k) = "triage" =>
    LET r == results[k][1]
        escalated == TriageVerdict(risk[k]) \in {"SUSPICIOUS", "MALICIOUS"} IN
    r.kind # "local" =>
      /\ escalated => Verdict(r.key, r.version) \in {"malicious", "suspicious"}
      /\ Verdict(r.key, r.version) = "malicious" => escalated \/ Diluted(r.key, r.version)

(* A more serious alert is not scored below a less serious one, although   *)
(* the levels of the triage end at 15 and Wazuh goes on.                   *)
AlertsAreOrdered ==
  \A j, k \in Requests :
    /\ pc[j] = "done" /\ op(j) = "alert" /\ pc[k] = "done" /\ op(k) = "alert"
    /\ work[j].level <= work[k].level /\ (work[j].named => work[k].named)
    => risk[j] <= risk[k]

(* The triage stands by the score of an indicator and by the level of an   *)
(* alert.                                                                  *)
TriageIsSound == TriageGoesByShare /\ AlertsAreOrdered
=============================================================================
