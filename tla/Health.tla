------------------------------- MODULE Health -------------------------------
(***************************************************************************)
(* Health: GET /health (routes/health.rs), which checks all connectors at  *)
(* once, and GET /monitoring/health (services/health_monitor.rs), which    *)
(* checks one after the other and then counts rows, a statement per count. *)
(*                                                                         *)
(*    asked -> probing -> told                            (/health)        *)
(*    asked -> checking ... -> database -> hour -> day -> told             *)
(*                                                                         *)
(* Connectors come and go, and alerts come in and age, all the while.  Of  *)
(* the six counts two are kept, those of alerts: the other pairs are alike. *)
(***************************************************************************)
EXTENDS Integers, Sequences, FiniteSets

CONSTANTS
  Pages,         \* requests
  KindOf,        \* KindOf[k]: "probe" or "monitor"
  Registry,      \* the connectors, in the order of the registry
  Rank,          \* Rank[c]: where the id of c sorts
  MaxWeather,    \* bound: changes of the connectors
  MaxAlerts,     \* bound: alerts
  MaxMisses      \* bound: counts that fail

Checked    == {Registry[i] : i \in 1..Len(Registry)}
Conditions == {"healthy", "down"}       \* no health_check answers Degraded

ASSUME RegistryAssumption ==
  /\ KindOf \in [Pages -> {"probe", "monitor"}]
  /\ Registry \in Seq(Checked)
  /\ Rank \in [Checked -> Nat]
  /\ Len(Registry) = Cardinality(Checked)
  /\ \A c, d \in Checked : Rank[c] = Rank[d] => c = d
  /\ MaxWeather \in Nat /\ MaxAlerts \in Nat /\ MaxMisses \in Nat

VARIABLES
  page,       \* page[k]: where request k is
  entries,    \* entries[k]: [id, status] in the order of its answer
  hour,       \* hour[k]: alerts_last_hour
  day,        \* day[k]: alerts_last_24h
  overall,    \* overall[k]: status of its answer
  condition,  \* condition[c] of a connector
  weather,    \* changes that may still come
  recent,     \* alerts of the last hour
  older,      \* alerts of the last day, but not hour
  misses,     \* counts that may still fail
  been,       \* history: been[k][c]: conditions of c since k was asked
  gaps        \* history: requests a count of which failed

answer     == <<entries, hour, day, overall>>
alertTable == <<recent, older>>
healthVars == <<page, answer, condition, weather, alertTable, misses, been, gaps>>

Pending == {"probing", "checking", "database", "hour", "day"}

HealthTypeOK ==
  /\ page \in [Pages -> Pending \cup {"asked", "told"}]
  /\ entries \in [Pages -> Seq([id : Checked, status : Conditions])]
  /\ hour \in [Pages -> 0..MaxAlerts] /\ day \in [Pages -> 0..MaxAlerts]
  /\ overall \in [Pages -> {"none", "ok", "healthy", "degraded", "unhealthy"}]
  /\ condition \in [Checked -> Conditions]
  /\ weather \in 0..MaxWeather /\ misses \in 0..MaxMisses
  /\ recent \in Nat /\ older \in Nat /\ recent + older <= MaxAlerts
  /\ been \in [Pages -> [Checked -> SUBSET Conditions]]
  /\ gaps \in SUBSET Pages

HealthInit ==
  /\ page = [k \in Pages |-> "asked"]
  /\ entries = [k \in Pages |-> <<>>]
  /\ hour = [k \in Pages |-> 0] /\ day = [k \in Pages |-> 0]
  /\ overall = [k \in Pages |-> "none"]
  /\ condition \in [Checked -> Conditions]
  /\ weather = MaxWeather /\ misses = MaxMisses
  /\ recent = 0 /\ older = 0
  /\ been = [k \in Pages |-> [c \in Checked |-> {}]]
  /\ gaps = {}

Turn(k, p) == page' = [page EXCEPT ![k] = p]

-----------------------------------------------------------------------------
(***************************************************************************)
(* Connectors and alerts.                                                  *)
(***************************************************************************)
ConnectorChanges(c) ==
  /\ weather > 0 /\ weather' = weather - 1
  /\ \E s \in Conditions \ {condition[c]} :
       /\ condition' = [condition EXCEPT ![c] = s]
       /\ been' = [k \in Pages |-> IF page[k] \in Pending
                                   THEN [been[k] EXCEPT ![c] = @ \cup {s}] ELSE been[k]]
  /\ UNCHANGED <<page, answer, alertTable, misses, gaps>>

AlertComes ==
  /\ recent + older < MaxAlerts /\ recent' = recent + 1
  /\ UNCHANGED <<page, answer, condition, weather, older, misses, been, gaps>>

AlertAges ==
  /\ recent > 0 /\ recent' = recent - 1 /\ older' = older + 1
  /\ UNCHANGED <<page, answer, condition, weather, misses, been, gaps>>

-----------------------------------------------------------------------------
(***************************************************************************)
(* The two handlers.                                                       *)
(***************************************************************************)
Open(k) ==
  /\ page[k] = "asked"
  /\ Turn(k, IF KindOf[k] = "probe" THEN "probing" ELSE "checking")
  /\ been' = [been EXCEPT ![k] = [c \in Checked |-> {condition[c]}]]
  /\ UNCHANGED <<answer, condition, weather, alertTable, misses, gaps>>

Asked(k) == {entries[k][i].id : i \in 1..Len(entries[k])}

AddEntry(k, c) ==
  /\ entries' = [entries EXCEPT ![k] = Append(@, [id |-> c, status |-> condition[c]])]
  /\ UNCHANGED <<page, hour, day, overall, condition, weather, alertTable, misses, been, gaps>>

(* Each check is a task of its own: they finish in any order. *)
ProbeAnswers(k, c) ==
  /\ page[k] = "probing" /\ c \in Checked \ Asked(k)
  /\ AddEntry(k, c)

InOrder(list) ==
  LET Before(i) == {j \in 1..Len(list) : Rank[list[j].id] < Rank[list[i].id]}
  IN  [n \in 1..Len(list) |->
         list[CHOOSE i \in 1..Len(list) : Cardinality(Before(i)) = n - 1]]

(* The answer waits for the last of them. *)
ProbeEnds(k) ==
  /\ page[k] = "probing" /\ Asked(k) = Checked
  /\ entries' = [entries EXCEPT ![k] = InOrder(@)]
  /\ overall' = [overall EXCEPT ![k] = "ok"]
  /\ Turn(k, "told")
  /\ UNCHANGED <<hour, day, condition, weather, alertTable, misses, been, gaps>>

CheckNext(k) ==
  /\ page[k] = "checking" /\ Len(entries[k]) < Len(Registry)
  /\ AddEntry(k, Registry[Len(entries[k]) + 1])

ChecksDone(k) ==
  /\ page[k] = "checking" /\ Len(entries[k]) = Len(Registry)
  /\ Turn(k, "database")
  /\ UNCHANGED <<answer, condition, weather, alertTable, misses, been, gaps>>

(* Whatever the database answers to SELECT 1, the status of the answer     *)
(* does not depend on it.                                                  *)
CheckDatabase(k) ==
  /\ page[k] = "database"
  /\ Turn(k, "hour")
  /\ UNCHANGED <<answer, condition, weather, alertTable, misses, been, gaps>>

(* A count that fails is 0. *)
Count(k, column, n) ==
  \/ column' = [column EXCEPT ![k] = n] /\ UNCHANGED <<misses, gaps>>
  \/ /\ misses > 0 /\ misses' = misses - 1
     /\ gaps' = gaps \cup {k}
     /\ column' = [column EXCEPT ![k] = 0]

InHour == recent
InDay == recent + older

CountHour(k) ==
  /\ page[k] = "hour"
  /\ Count(k, hour, InHour)
  /\ Turn(k, "day")
  /\ UNCHANGED <<entries, day, overall, condition, weather, alertTable, been>>

Every(k, s) == \A i \in 1..Len(entries[k]) : entries[k][i].status = s
Some(k, s)   == \E i \in 1..Len(entries[k]) : entries[k][i].status = s

OverallOfAny(k) ==                                    \* mutant
  IF Some(k, "healthy") THEN "healthy" ELSE IF Some(k, "down") THEN "unhealthy" ELSE "degraded"
Overall(k) ==
  IF Every(k, "healthy") THEN "healthy" ELSE IF Some(k, "down") THEN "unhealthy" ELSE "degraded"

CountDay(k) ==
  /\ page[k] = "day"
  /\ Count(k, day, InDay)
  /\ overall' = [overall EXCEPT ![k] = Overall(k)]
  /\ Turn(k, "told")
  /\ UNCHANGED <<entries, hour, condition, weather, alertTable, been>>

-----------------------------------------------------------------------------
HealthNext ==
  \/ \E c \in Checked : ConnectorChanges(c)
  \/ AlertComes \/ AlertAges
  \/ \E k \in Pages :
       \/ Open(k) \/ (\E c \in Checked : ProbeAnswers(k, c)) \/ ProbeEnds(k)
       \/ CheckNext(k) \/ ChecksDone(k) \/ CheckDatabase(k) \/ CountHour(k) \/ CountDay(k)

HealthSpec == HealthInit /\ [][HealthNext]_healthVars

-----------------------------------------------------------------------------
(***************************************************************************)
(* What may be relied on.                                                  *)
(***************************************************************************)

(* The answer of /health has each connector once, by its id, whichever     *)
(* check ends first, each with a state it was in since the request.        *)
HealthIsWhole ==
  \A k \in Pages : page[k] = "told" =>
    /\ Asked(k) = Checked /\ Len(entries[k]) = Cardinality(Checked)
    /\ \A i \in 1..Len(entries[k]) : entries[k][i].status \in been[k][entries[k][i].id]
    /\ KindOf[k] = "probe" =>
         \A i, j \in 1..Len(entries[k]) : i < j => Rank[entries[k][i].id] < Rank[entries[k][j].id]

(* "healthy" is no overall state of a system one part of which was down    *)
(* from the request to its answer, and "unhealthy" none of one whose parts *)
(* were all up; states in between may be told either way.                  *)
OverallIsSeen ==
  \A k \in Pages : page[k] = "told" =>
    /\ overall[k] = "healthy" => \A c \in Checked : "healthy" \in been[k][c]
    /\ overall[k] \in {"unhealthy", "degraded"} => \E c \in Checked : been[k][c] # {"healthy"}

(* No more alerts in the last hour than in the last day, although alerts   *)
(* come in and age between the two counts, unless one failed.              *)
HourWithinDay ==
  \A k \in Pages \ gaps : page[k] = "told" => hour[k] <= day[k]

(* A page of health adds up, although the system changes while it is made. *)
HealthIsTold == HealthIsWhole /\ OverallIsSeen /\ HourWithinDay
=============================================================================
