--------------------------- MODULE ServicesProofs ---------------------------
(***************************************************************************)
(* Theorems about the inventory of agents, for any syncs, agents, clients  *)
(* and hosts, about the pages of health, for any registry and any          *)
(* requests, and about the five services in one process.                   *)
(*                                                                         *)
(* The argument for the inventory: a sync that is running, whatever it     *)
(* overwrites, read later than the one it takes a row from or ran at the   *)
(* same time; so of the entries a sync has come past each that no upsert   *)
(* failed for is on its row, or a later one of its own list is, or another *)
(* sync's that may replace it.  What is read of one agent differs in the   *)
(* hostname only before and after it first connected.                      *)
(*                                                                         *)
(* The argument for the pages: an entry is a state its connector was in    *)
(* since the request, which stays true; a concurrent check adds a connector *)
(* that is not there yet, a sequential one the next of the registry; and   *)
(* sorting by distinct ranks loses nothing.  An alert counted in the last  *)
(* hour is in the last day when that is counted.                           *)
(***************************************************************************)
EXTENDS Services, ThreatIntelProofs, AutomationProofs, SessionProofs, FiniteSetTheorems, TLAPS

-----------------------------------------------------------------------------
(***************************************************************************)
(* Places of a list, picked by how many come before them.                  *)
(***************************************************************************)

(* The members of lower rank.                                              *)
Lower(r, P) == [i \in P |-> {j \in P : r[j] < r[i]}]

(* The members of a finite set that has distinct ranks, by how many are    *)
(* lower: there is one for every count less than the cardinality.          *)
LEMMA Places ==
  ASSUME NEW P, IsFiniteSet(P), NEW r \in [P -> Nat], \A i, j \in P : r[i] = r[j] => i = j
  PROVE  /\ \A n \in 1..Cardinality(P) : \E i \in P : Cardinality(Lower(r, P)[i]) = n - 1
         /\ \A i \in P : /\ Cardinality(Lower(r, P)[i]) \in Nat
                         /\ Cardinality(Lower(r, P)[i]) + 1 \in 1..Cardinality(P)
         /\ \A i, j \in P :
              Cardinality(Lower(r, P)[i]) < Cardinality(Lower(r, P)[j]) => r[i] < r[j]
         /\ \A i, j \in P :
              Cardinality(Lower(r, P)[i]) = Cardinality(Lower(r, P)[j]) => i = j
<1>1. PICK lower : lower = Lower(r, P)
  OBVIOUS
<1>2. \A i \in P : lower[i] = {j \in P : r[j] < r[i]}
  BY <1>1 DEF Lower
<1>3. PICK L \in Nat : L = Cardinality(P)
  BY FS_CardinalityType
<1>4. ASSUME NEW i \in P
      PROVE  /\ IsFiniteSet(lower[i]) /\ Cardinality(lower[i]) \in Nat
             /\ Cardinality(lower[i]) <= L - 1
  <2>1. lower[i] \in SUBSET (P \ {i})
    BY <1>2
  <2>2. IsFiniteSet(P \ {i}) /\ Cardinality(P \ {i}) = L - 1
    BY <1>3, FS_RemoveElement
  <2>3. IsFiniteSet(lower[i]) /\ Cardinality(lower[i]) <= L - 1
    BY <2>1, <2>2, FS_Subset
  <2> QED
    BY <2>3, FS_CardinalityType
<1>5. ASSUME NEW i \in P, NEW j \in P, r[i] < r[j]
      PROVE  Cardinality(lower[i]) < Cardinality(lower[j])
  <2>1. lower[i] \in SUBSET (lower[j] \ {i}) /\ i \in lower[j]
    BY <1>2, <1>5
  <2>2. IsFiniteSet(lower[j])
    BY <1>4
  <2>3. IsFiniteSet(lower[j] \ {i}) /\ Cardinality(lower[j] \ {i}) = Cardinality(lower[j]) - 1
    BY <2>1, <2>2, FS_RemoveElement
  <2>4. Cardinality(lower[i]) <= Cardinality(lower[j]) - 1
    BY <2>1, <2>3, FS_Subset
  <2>5. Cardinality(lower[i]) \in Nat /\ Cardinality(lower[j]) \in Nat
    BY <1>4
  <2> QED
    BY <2>4, <2>5
<1>6. ASSUME NEW i \in P, NEW j \in P
      PROVE  /\ Cardinality(lower[i]) = Cardinality(lower[j]) => i = j
             /\ Cardinality(lower[i]) < Cardinality(lower[j]) => r[i] < r[j]
  <2>1. PICK a \in Nat, b \in Nat : a = Cardinality(lower[i]) /\ b = Cardinality(lower[j])
    BY <1>4
  <2>2. r[i] < r[j] => a < b
    BY <1>5, <2>1
  <2>3. r[j] < r[i] => b < a
    BY <1>5, <2>1
  <2>4. r[i] = r[j] => i = j /\ a = b
    BY <2>1
  <2>5. r[i] \in Nat /\ r[j] \in Nat
    OBVIOUS
  <2>6. (a = b => i = j) /\ (a < b => r[i] < r[j])
    BY <2>2, <2>3, <2>4, <2>5
  <2> QED
    BY <2>1, <2>6
<1>7. PICK place : place = [i \in P |-> Cardinality(lower[i])]
  OBVIOUS
<1>8. PICK b \in Int : b = L - 1
  OBVIOUS
<1>9. place \in Injection(P, 0..b)
  <2>1. \A i \in P : place[i] \in 0..b
    BY <1>4, <1>7, <1>8
  <2>2. place \in [P -> 0..b]
    BY <1>7, <2>1
  <2> QED
    BY <1>6, <1>7, <2>2 DEF Injection, IsInjective
<1>10. IsFiniteSet(0..b) /\ Cardinality(0..b) = L
  <2>1. IsFiniteSet(0..b) /\ Cardinality(0..b) = IF 0 > b THEN 0 ELSE b - 0 + 1
    BY FS_Interval
  <2> QED
    BY <1>8, <2>1
<1>11. place \in Surjection(P, 0..b)
  BY <1>3, <1>9, <1>10, FS_Injection
<1>12. ASSUME NEW n \in 1..L PROVE \E i \in P : Cardinality(lower[i]) = n - 1
  <2>1. n - 1 \in 0..b
    BY <1>8
  <2>2. PICK i \in P : place[i] = n - 1
    BY <1>11, <2>1 DEF Surjection
  <2> QED
    BY <1>7, <2>2
<1>13. ASSUME NEW i \in P PROVE Cardinality(lower[i]) + 1 \in 1..L
  <2>1. PICK a \in Nat : a = Cardinality(lower[i]) /\ a <= L - 1
    BY <1>4
  <2> QED
    BY <2>1
<1> QED
  BY <1>1, <1>3, <1>4, <1>6, <1>12, <1>13

-----------------------------------------------------------------------------
(***************************************************************************)
(* The inventory.                                                          *)
(***************************************************************************)

HasRead(k) == syncAt[k] \notin {"idle", "failed"}

(* The entries of a listing that a sync has come past, and so written      *)
(* unless an upsert failed.                                                *)
AgentPassed(k, i)  == (syncAt[k] = "agents" /\ i < next[k]) \/ syncAt[k] \in {"hosts", "ok"}
ClientPassed(k, i) == (syncAt[k] = "hosts" /\ i < next[k]) \/ syncAt[k] = "ok"

(* A sync that is running replaces what another one wrote only if it read  *)
(* later or ran at the same time.                                          *)
Met == \A k \in Syncs, j \in SyncsRunning : HasRead(k) /\ j # k => Replaced(k, j)

Starts == \A k \in Syncs : syncAt[k] \in {"idle", "clients"} => next[k] = 1

(* What a sync leaves of the entries it has come past.                     *)
LeavesAgent(k, i) ==
  LET h == agents[k][i].host IN
  AgentPassed(k, i) /\ h \notin missed[k] =>
    /\ wazuh[h] # NoSide
    /\ wazuh[h].by # k => Replaced(k, wazuh[h].by)
    /\ wazuh[h].by = k =>
         \/ wazuh[h].id = agents[k][i].id
         \/ \E n \in (i + 1)..Len(agents[k]) : AgentPassed(k, n) /\ agents[k][n].host = h

LeavesClient(k, i) ==
  LET h == HostOf[clients[k][i]] IN
  ClientPassed(k, i) /\ h # "" /\ h \notin missed[k] =>
    /\ velo[h] # NoSide
    /\ velo[h].by # k => Replaced(k, velo[h].by)
    /\ velo[h].by = k =>
         \/ velo[h].id = clients[k][i]
         \/ \E n \in (i + 1)..Len(clients[k]) : ClientPassed(k, n) /\ HostOf[clients[k][n]] = h

Leaves(k) ==
  /\ \A i \in 1..Len(agents[k]) : LeavesAgent(k, i)
  /\ \A i \in 1..Len(clients[k]) : LeavesClient(k, i)

(* A row is what the sync it is from has read.                             *)
AgentRow(h) ==
  wazuh[h] # NoSide =>
    /\ HasRead(wazuh[h].by)
    /\ \E i \in 1..Len(agents[wazuh[h].by]) :
         agents[wazuh[h].by][i] = [id |-> wazuh[h].id, status |-> wazuh[h].status, host |-> h]
ClientRow(h) ==
  velo[h] # NoSide =>
    /\ HasRead(velo[h].by) /\ syncAt[velo[h].by] # "clients"
    /\ \E i \in 1..Len(clients[velo[h].by]) :
         clients[velo[h].by][i] = velo[h].id /\ HostOf[velo[h].id] = h

(* What has been read of agents so far.                                    *)
Readings == {e \in AgentEntry : \E k \in Syncs : \E i \in 1..Len(agents[k]) : agents[k][i] = e}

Fits(e) ==
  /\ e.host = IF e.status = "never_connected" THEN NameOf[e.id] ELSE UnameOf[e.id]
  /\ e.status = "never_connected" =>
       \/ status[e.id] \in {"never_connected", "removed"}
       \/ NameOf[e.id] = UnameOf[e.id] \/ e.id \in renamed
  /\ e.status # "never_connected" => status[e.id] # "never_connected"

Agree(d, e) ==
  d.id = e.id /\ d.status = "never_connected" /\ e.status # "never_connected" =>
    NameOf[d.id] = UnameOf[d.id] \/ d.id \in renamed

SyncInv ==
  /\ SyncTypeOK /\ Met /\ Starts
  /\ \A k \in Syncs : Leaves(k)
  /\ \A h \in Hosts : AgentRow(h) /\ ClientRow(h)
  /\ \A e \in Readings : Fits(e)
  /\ \A d, e \in Readings : Agree(d, e)

-----------------------------------------------------------------------------
(* What is chosen of a list are its elements at these places.              *)
LEMMA ChosenAre ==
  ASSUME NEW S, NEW list \in Seq(S), NEW places \in SUBSET (1..Len(list))
  PROVE  /\ Chosen(list, places) \in Seq(S)
         /\ Len(Chosen(list, places)) = Cardinality(places)
         /\ Cardinality(places) \in Nat
         /\ \A n \in 1..Cardinality(places) :
              \E i \in places : Chosen(list, places)[n] = list[i]
<1>1. IsFiniteSet(places) /\ Cardinality(places) \in Nat
  <2>1. IsFiniteSet(1..Len(list))
    BY FS_Interval
  <2> QED
    BY <2>1, FS_Subset, FS_CardinalityType
<1>2. PICK r : r = [i \in places |-> i]
  OBVIOUS
<1>3. r \in [places -> Nat] /\ \A i, j \in places : r[i] = r[j] => i = j
  BY <1>2
<1>4. PICK lower : lower = Lower(r, places)
  OBVIOUS
<1>5. \A i \in places : lower[i] = {j \in places : j < i}
  BY <1>2, <1>4 DEF Lower
<1>a. \A n \in 1..Cardinality(places) :
        \E i \in places : Cardinality(Lower(r, places)[i]) = n - 1
  BY <1>1, <1>3, Places
<1>6. ASSUME NEW n \in 1..Cardinality(places)
      PROVE  \E i \in places : Chosen(list, places)[n] = list[i]
  <2>1. \E i \in places : Cardinality(lower[i]) = n - 1
    BY <1>4, <1>a
  <2>2. \E i \in places : Cardinality({j \in places : j < i}) = n - 1
    BY <1>5, <2>1
  <2>3. PICK i \in places :
          i = CHOOSE m \in places : Cardinality({j \in places : j < m}) = n - 1
    BY <2>2
  <2>4. Chosen(list, places)[n] = list[i]
    BY <2>3 DEF Chosen
  <2> QED
    BY <2>4
<1>7. \A n \in 1..Cardinality(places) : Chosen(list, places)[n] \in S
  BY <1>6
<1>8. Chosen(list, places) \in [1..Cardinality(places) -> S]
  BY <1>7 DEF Chosen
<1>9. Chosen(list, places) \in Seq(S)
  BY <1>1, <1>8
<1>10. Len(Chosen(list, places)) = Cardinality(places)
  BY <1>1, <1>8
<1> QED
  BY <1>1, <1>6, <1>9, <1>10

(* The agents Wazuh lists are those it has, as it knows them.              *)
LEMMA ListedAre ==
  ASSUME SyncTypeOK
  PROVE  /\ Listed \in Seq(AgentEntry)
         /\ \A n \in 1..Len(Listed) :
              \E a \in AgentIds : status[a] # "removed" /\ Listed[n] = Entry(a)
<1>1. Agents \in Seq(AgentIds)
  BY InventoryAssumption
<1>2. Registered \in SUBSET (1..Len(Agents))
  BY DEF Registered
<1>3. PICK L \in Nat : L = Cardinality(Registered)
  BY <1>1, <1>2, ChosenAre
<1>4. ASSUME NEW n \in 1..L
      PROVE  /\ \E a \in AgentIds : status[a] # "removed" /\ Listed[n] = Entry(a)
             /\ Listed[n] \in AgentEntry
  <2>1. PICK i \in Registered : Chosen(Agents, Registered)[n] = Agents[i]
    BY <1>1, <1>2, <1>3, ChosenAre
  <2>2. PICK a \in AgentIds : a = Agents[i]
    BY <1>1, <1>2
  <2>3. status[a] # "removed"
    BY <2>1, <2>2 DEF Registered
  <2>4. Listed[n] = Entry(a)
    BY <1>3, <2>1, <2>2 DEF Listed
  <2>5. status[a] \in Statuses
    BY <2>3 DEF SyncTypeOK
  <2>6. HostIn(a) \in Hosts
    BY InventoryAssumption DEF HostIn
  <2>7. Entry(a) \in AgentEntry
    BY <2>5, <2>6 DEF Entry, AgentEntry
  <2> QED
    BY <2>3, <2>4, <2>7
<1>5. Listed \in [1..L -> AgentEntry]
  BY <1>3, <1>4 DEF Listed
<1>6. Listed \in Seq(AgentEntry) /\ Len(Listed) = L
  BY <1>5
<1> QED
  BY <1>4, <1>6

(* What is upserted is not NULL.                                           *)
LEMMA SidesAreSides ==
  /\ \A k \in Syncs, e \in AgentEntry, old \in AgentSide \cup {NoSide} :
       AgentColumns(k, e, old) \in AgentSide
  /\ \A side \in AgentSide : side # NoSide
  /\ \A side \in ClientSide : side # NoSide
  /\ \A k \in Syncs, c \in ClientIds : [id |-> c, by |-> k] \in ClientSide
<1>1. \A k \in Syncs, e \in AgentEntry, old \in AgentSide \cup {NoSide} :
        AgentColumns(k, e, old) \in AgentSide
  BY DEF AgentColumns, AgentEntry, AgentSide
<1>2. DOMAIN NoSide = {"id"}
  BY DEF NoSide
<1>3. \A side \in AgentSide : side # NoSide
  <2>1. \A side \in AgentSide : DOMAIN side = {"id", "status", "by"}
    BY DEF AgentSide
  <2> QED
    BY <1>2, <2>1
<1>4. \A side \in ClientSide : side # NoSide
  <2>1. \A side \in ClientSide : DOMAIN side = {"id", "by"}
    BY DEF ClientSide
  <2> QED
    BY <1>2, <2>1
<1> QED
  BY <1>1, <1>3, <1>4 DEF ClientSide

-----------------------------------------------------------------------------
(* Every step keeps the types.                                             *)
LEMMA SyncTypesKept == SyncTypeOK /\ SyncNext => SyncTypeOK'
<1> SUFFICES ASSUME SyncTypeOK, SyncNext PROVE SyncTypeOK'
  OBVIOUS
<1>1. /\ syncAt \in [Syncs -> SyncStages \cup {"idle", "ok", "failed", "gone"}]
      /\ agents \in [Syncs -> Seq(AgentEntry)] /\ clients \in [Syncs -> Seq(ClientIds)]
      /\ next \in [Syncs -> Nat \ {0}]
      /\ wazuh \in [Hosts -> AgentSide \cup {NoSide}] /\ velo \in [Hosts -> ClientSide \cup {NoSide}]
      /\ status \in [AgentIds -> Statuses \cup {"removed"}] /\ present \in SUBSET ClientIds
      /\ changes \in 0..MaxChanges /\ syncFaults \in 0..MaxSyncFaults
      /\ earlier \in [Syncs -> SUBSET Syncs] /\ overlaps \in [Syncs -> SUBSET Syncs]
      /\ missed \in [Syncs -> SUBSET Hosts] /\ renamed \in SUBSET AgentIds
      /\ SyncTypeOK
  BY DEF SyncTypeOK
<1>0. MaxChanges \in Nat /\ MaxSyncFaults \in Nat
  BY BoundsAssumption
<1>2. ASSUME NEW a \in AgentIds, AgentChanges(a) PROVE SyncTypeOK'
  <2>1. changes' \in 0..MaxChanges
    BY <1>0, <1>1, <1>2 DEF AgentChanges, Change
  <2>2. status' \in [AgentIds -> Statuses \cup {"removed"}]
    BY <1>1, <1>2 DEF AgentChanges, Statuses
  <2>3. renamed' \in SUBSET AgentIds
    BY <1>1, <1>2 DEF AgentChanges
  <2>4. UNCHANGED <<syncAt, listings, tables, present, syncPast, syncFaults>>
    BY <1>2 DEF AgentChanges
  <2> QED
    BY <2>1, <2>2, <2>3, <2>4, <1>1 DEF SyncTypeOK, listings, tables, syncPast
<1>3. ASSUME NEW c \in ClientIds, ClientChanges(c) PROVE SyncTypeOK'
  <2>1. changes' \in 0..MaxChanges
    BY <1>0, <1>1, <1>3 DEF ClientChanges, Change
  <2>2. present' \in SUBSET ClientIds
    BY <1>1, <1>3 DEF ClientChanges
  <2>3. UNCHANGED <<syncAt, listings, tables, status, renamed, syncPast, syncFaults>>
    BY <1>3 DEF ClientChanges
  <2> QED
    BY <2>1, <2>2, <2>3, <1>1 DEF SyncTypeOK, listings, tables, syncPast
<1>4. ASSUME NEW k \in Syncs, ReadAgents(k) PROVE SyncTypeOK'
  <2>1. Listed \in Seq(AgentEntry)
    BY <1>1, ListedAre
  <2>2. agents' \in [Syncs -> Seq(AgentEntry)]
    BY <2>1, <1>1, <1>4 DEF ReadAgents
  <2>3. earlier' \in [Syncs -> SUBSET Syncs] /\ overlaps' \in [Syncs -> SUBSET Syncs]
    BY <1>1, <1>4 DEF ReadAgents, SyncsRunning
  <2>4. syncAt' \in [Syncs -> SyncStages \cup {"idle", "ok", "failed", "gone"}]
    BY <1>1, <1>4 DEF ReadAgents, SyncGoTo, SyncStages
  <2>5. UNCHANGED <<clients, next, tables, upstream, syncFaults>>
    BY <1>4 DEF ReadAgents
  <2> QED
    BY <2>2, <2>3, <2>4, <2>5, <1>1 DEF SyncTypeOK, tables, upstream
<1>5. ASSUME NEW k \in Syncs, ReadClients(k) PROVE SyncTypeOK'
  <2>1. Clients \in Seq(ClientIds) /\ Enrolled \in SUBSET (1..Len(Clients))
    BY InventoryAssumption DEF Enrolled
  <2>2. Chosen(Clients, Enrolled) \in Seq(ClientIds)
    BY <2>1, ChosenAre
  <2>3. clients' \in [Syncs -> Seq(ClientIds)]
    BY <2>2, <1>1, <1>5 DEF ReadClients
  <2>4. syncAt' \in [Syncs -> SyncStages \cup {"idle", "ok", "failed", "gone"}]
    BY <1>1, <1>5 DEF ReadClients, SyncGoTo, SyncStages
  <2>5. UNCHANGED <<agents, next, tables, upstream, syncPast, syncFaults>>
    BY <1>5 DEF ReadClients
  <2> QED
    BY <2>3, <2>4, <2>5, <1>1 DEF SyncTypeOK, tables, upstream, syncPast
<1>6. ASSUME NEW k \in Syncs, ReadAgentsFails(k) \/ ReadClientsFails(k) \/ SyncEnds(k)
      PROVE  SyncTypeOK'
  <2>1. syncAt' \in [Syncs -> SyncStages \cup {"idle", "ok", "failed", "gone"}]
    BY <1>1, <1>6 DEF ReadAgentsFails, ReadClientsFails, SyncEnds, SyncGoTo, SyncStages
  <2>2. UNCHANGED <<listings, tables, upstream, syncPast, syncFaults>>
    BY <1>6 DEF ReadAgentsFails, ReadClientsFails, SyncEnds
  <2> QED
    BY <2>1, <2>2, <1>1 DEF SyncTypeOK, listings, tables, upstream, syncPast
<1>7. ASSUME NEW k \in Syncs, UpsertAgent(k) PROVE SyncTypeOK'
  <2>1. PICK e \in AgentEntry : e = agents[k][next[k]]
    BY <1>1, <1>7 DEF UpsertAgent
  <2>2. e.host \in Hosts
    BY DEF AgentEntry
  <2>3. AgentColumns(k, e, wazuh[e.host]) \in AgentSide
    BY <2>2, <1>1, SidesAreSides
  <2>4. wazuh' = [wazuh EXCEPT ![e.host] = AgentColumns(k, e, wazuh[e.host])]
    BY <2>1, <1>7 DEF UpsertAgent
  <2>5. wazuh' \in [Hosts -> AgentSide \cup {NoSide}]
    BY <2>3, <2>4, <1>1
  <2>6. next' \in [Syncs -> Nat \ {0}]
    BY <1>1, <1>7 DEF UpsertAgent
  <2>7. UNCHANGED <<syncAt, agents, clients, velo, missed, upstream, syncPast, syncFaults>>
    BY <1>7 DEF UpsertAgent
  <2> QED
    BY <2>5, <2>6, <2>7, <1>1 DEF SyncTypeOK, upstream, syncPast
<1>8. ASSUME NEW k \in Syncs, UpsertAgentFails(k) PROVE SyncTypeOK'
  <2>1. PICK e \in AgentEntry : e = agents[k][next[k]]
    BY <1>1, <1>8 DEF UpsertAgentFails
  <2>2. e.host \in Hosts
    BY DEF AgentEntry
  <2>3. missed' \in [Syncs -> SUBSET Hosts]
    BY <2>1, <2>2, <1>1, <1>8 DEF UpsertAgentFails
  <2>4. next' \in [Syncs -> Nat \ {0}]
    BY <1>1, <1>8 DEF UpsertAgentFails, AfterFailure
  <2>5. syncFaults' \in 0..MaxSyncFaults
    BY <1>0, <1>1, <1>8 DEF UpsertAgentFails, SyncFault
  <2>6. UNCHANGED <<syncAt, agents, clients, wazuh, velo, upstream, syncPast>>
    BY <1>8 DEF UpsertAgentFails
  <2> QED
    BY <2>3, <2>4, <2>5, <2>6, <1>1 DEF SyncTypeOK, upstream, syncPast
<1>9. ASSUME NEW k \in Syncs, AgentsDone(k) PROVE SyncTypeOK'
  <2>1. next' \in [Syncs -> Nat \ {0}]
    BY <1>1, <1>9 DEF AgentsDone
  <2>2. syncAt' \in [Syncs -> SyncStages \cup {"idle", "ok", "failed", "gone"}]
    BY <1>1, <1>9 DEF AgentsDone, SyncGoTo, SyncStages
  <2>3. UNCHANGED <<agents, clients, tables, upstream, syncPast, syncFaults>>
    BY <1>9 DEF AgentsDone
  <2> QED
    BY <2>1, <2>2, <2>3, <1>1 DEF SyncTypeOK, tables, upstream, syncPast
<1>10. ASSUME NEW k \in Syncs, UpsertClient(k) PROVE SyncTypeOK'
  <2>1. PICK c \in ClientIds : c = clients[k][next[k]]
    BY <1>1, <1>10 DEF UpsertClient
  <2>2. HostOf[c] \in Hosts \cup {""}
    BY InventoryAssumption
  <2>3. [id |-> c, by |-> k] \in ClientSide
    BY SidesAreSides
  <2>4. velo' = IF Named(k) THEN [velo EXCEPT ![HostOf[c]] = [id |-> c, by |-> k]] ELSE velo
    BY <2>1, <1>10 DEF UpsertClient, ClientHost
  <2>5. velo' \in [Hosts -> ClientSide \cup {NoSide}]
    BY <2>1, <2>2, <2>3, <2>4, <1>1 DEF Named, ClientHost
  <2>6. next' \in [Syncs -> Nat \ {0}]
    BY <1>1, <1>10 DEF UpsertClient
  <2>7. UNCHANGED <<syncAt, agents, clients, wazuh, missed, upstream, syncPast, syncFaults>>
    BY <1>10 DEF UpsertClient
  <2> QED
    BY <2>5, <2>6, <2>7, <1>1 DEF SyncTypeOK, upstream, syncPast
<1>11. ASSUME NEW k \in Syncs, UpsertClientFails(k) PROVE SyncTypeOK'
  <2>1. PICK c \in ClientIds : c = clients[k][next[k]]
    BY <1>1, <1>11 DEF UpsertClientFails
  <2>2. HostOf[c] \in Hosts
    BY <2>1, <1>11, InventoryAssumption DEF UpsertClientFails, Named, ClientHost
  <2>3. missed' \in [Syncs -> SUBSET Hosts]
    BY <2>1, <2>2, <1>1, <1>11 DEF UpsertClientFails, ClientHost
  <2>4. next' \in [Syncs -> Nat \ {0}]
    BY <1>1, <1>11 DEF UpsertClientFails, AfterFailure
  <2>5. syncFaults' \in 0..MaxSyncFaults
    BY <1>0, <1>1, <1>11 DEF UpsertClientFails, SyncFault
  <2>6. UNCHANGED <<syncAt, agents, clients, wazuh, velo, upstream, syncPast>>
    BY <1>11 DEF UpsertClientFails
  <2> QED
    BY <2>3, <2>4, <2>5, <2>6, <1>1 DEF SyncTypeOK, upstream, syncPast
<1>12. ASSUME NEW syncs, SyncDrop(syncs) PROVE SyncTypeOK'
  <2>1. syncAt' \in [Syncs -> SyncStages \cup {"idle", "ok", "failed", "gone"}]
    BY <1>1, <1>12 DEF SyncDrop
  <2>2. UNCHANGED <<listings, tables, upstream, syncPast, syncFaults>>
    BY <1>12 DEF SyncDrop
  <2> QED
    BY <2>1, <2>2, <1>1 DEF SyncTypeOK, listings, tables, upstream, syncPast
<1> QED
  BY <1>2, <1>3, <1>4, <1>5, <1>6, <1>7, <1>8, <1>9, <1>10, <1>11, <1>12
     DEF SyncNext, Sync, SyncHangUp, SyncCrash

(* All steps but the reading of agents leave what is known of the syncs    *)
(* that have read.                                                         *)
LEMMA OnlyReadingBegins ==
  ASSUME SyncTypeOK, SyncNext, \A k \in Syncs : ~ReadAgents(k)
  PROVE  /\ agents' = agents /\ syncPast' = syncPast
         /\ \A k \in Syncs : HasRead(k)' <=> HasRead(k)
         /\ SyncsRunning' \subseteq SyncsRunning
<1>1. syncAt \in [Syncs -> SyncStages \cup {"idle", "ok", "failed", "gone"}]
  BY DEF SyncTypeOK
<1>2. CASE \E a \in AgentIds : AgentChanges(a)
  BY <1>2 DEF AgentChanges, listings, HasRead, SyncsRunning
<1>3. CASE \E c \in ClientIds : ClientChanges(c)
  BY <1>3 DEF ClientChanges, listings, HasRead, SyncsRunning
<1>4. ASSUME NEW k \in Syncs, ReadAgentsFails(k) \/ ReadClientsFails(k) \/ SyncEnds(k)
      PROVE  /\ agents' = agents /\ syncPast' = syncPast
             /\ \A j \in Syncs : HasRead(j)' <=> HasRead(j)
             /\ SyncsRunning' \subseteq SyncsRunning
  BY <1>1, <1>4 DEF ReadAgentsFails, ReadClientsFails, SyncEnds, SyncGoTo, listings, HasRead,
     SyncsRunning, SyncStages
<1>5. ASSUME NEW k \in Syncs, ReadClients(k) \/ AgentsDone(k)
      PROVE  /\ agents' = agents /\ syncPast' = syncPast
             /\ \A j \in Syncs : HasRead(j)' <=> HasRead(j)
             /\ SyncsRunning' \subseteq SyncsRunning
  BY <1>1, <1>5 DEF ReadClients, AgentsDone, SyncGoTo, HasRead, SyncsRunning, SyncStages
<1>6. ASSUME NEW k \in Syncs,
             UpsertAgent(k) \/ UpsertAgentFails(k) \/ UpsertClient(k) \/ UpsertClientFails(k)
      PROVE  /\ agents' = agents /\ syncPast' = syncPast
             /\ \A j \in Syncs : HasRead(j)' <=> HasRead(j)
             /\ SyncsRunning' \subseteq SyncsRunning
  BY <1>6 DEF UpsertAgent, UpsertAgentFails, UpsertClient, UpsertClientFails, HasRead, SyncsRunning
<1>7. ASSUME NEW syncs, syncs \subseteq SyncsRunning, SyncDrop(syncs)
      PROVE  /\ agents' = agents /\ syncPast' = syncPast
             /\ \A j \in Syncs : HasRead(j)' <=> HasRead(j)
             /\ SyncsRunning' \subseteq SyncsRunning
  BY <1>1, <1>7 DEF SyncDrop, listings, HasRead, SyncsRunning, SyncStages
<1>8. ASSUME NEW k \in Syncs, SyncHangUp(k) PROVE {k} \subseteq SyncsRunning /\ SyncDrop({k})
  BY <1>8 DEF SyncHangUp
<1>9. ASSUME SyncCrash PROVE SyncDrop(SyncsRunning)
  BY <1>9 DEF SyncCrash
<1> QED
  BY <1>2, <1>3, <1>4, <1>5, <1>6, <1>7, <1>8, <1>9 DEF SyncNext, Sync

(* A sync that reads has read after all that have.                         *)
LEMMA ReadingBegins ==
  ASSUME SyncTypeOK, NEW k \in Syncs, ReadAgents(k)
  PROVE  /\ \A j \in Syncs : HasRead(j)' <=> HasRead(j) \/ j = k
         /\ \A j \in Syncs : j \in SyncsRunning' <=> j \in SyncsRunning \/ j = k
         /\ ~HasRead(k)
         /\ \A j \in Syncs : HasRead(j) => Replaced(j, k)'
         /\ \A j \in SyncsRunning : Replaced(k, j)'
         /\ \A i, j \in Syncs : i # k /\ j # k /\ Replaced(i, j) => Replaced(i, j)'
<1>1. /\ syncAt \in [Syncs -> SyncStages \cup {"idle", "ok", "failed", "gone"}]
      /\ earlier \in [Syncs -> SUBSET Syncs] /\ overlaps \in [Syncs -> SUBSET Syncs]
  BY DEF SyncTypeOK
<1>2. /\ syncAt[k] = "idle" /\ syncAt' = [syncAt EXCEPT ![k] = "clients"]
      /\ earlier' = [earlier EXCEPT ![k] = {j \in Syncs : HasRead(j)}]
      /\ overlaps' = [j \in Syncs |-> IF j = k THEN SyncsRunning
                                    ELSE IF j \in SyncsRunning THEN overlaps[j] \cup {k} ELSE overlaps[j]]
  BY DEF ReadAgents, SyncGoTo, HasRead
<1>3. /\ \A j \in Syncs : HasRead(j)' <=> HasRead(j) \/ j = k
      /\ \A j \in Syncs : j \in SyncsRunning' <=> j \in SyncsRunning \/ j = k
      /\ ~HasRead(k)
  BY <1>1, <1>2 DEF HasRead, SyncsRunning, SyncStages
<1>4. earlier'[k] = {j \in Syncs : HasRead(j)} /\ overlaps'[k] = SyncsRunning
  BY <1>1, <1>2
<1>5. /\ \A j \in Syncs : HasRead(j) => Replaced(j, k)'
      /\ \A j \in SyncsRunning : Replaced(k, j)'
  BY <1>4 DEF Replaced
<1>6. ASSUME NEW i \in Syncs, NEW j \in Syncs, i # k, j # k, Replaced(i, j)
      PROVE  Replaced(i, j)'
  <2>1. earlier'[j] = earlier[j]
    BY <1>1, <1>2, <1>6
  <2>2. overlaps[i] \subseteq overlaps'[i]
    BY <1>1, <1>2, <1>6
  <2> QED
    BY <2>1, <2>2, <1>6 DEF Replaced
<1> QED
  BY <1>3, <1>5, <1>6

(* Syncs that run at the same time know of each other.                     *)
LEMMA MetKept == SyncTypeOK /\ Met /\ SyncNext => Met'
<1> SUFFICES ASSUME SyncTypeOK, Met, SyncNext PROVE Met'
  OBVIOUS
<1>1. CASE \E k \in Syncs : ReadAgents(k)
  <2>1. PICK k \in Syncs : ReadAgents(k)
    BY <1>1
  <2>2. ASSUME NEW i \in Syncs, NEW j \in SyncsRunning', HasRead(i)', j # i PROVE Replaced(i, j)'
    <3>1. j \in Syncs
      BY <2>1, <2>2, ReadingBegins DEF SyncsRunning
    <3>2. CASE j = k
      BY <2>1, <2>2, <3>2, ReadingBegins
    <3>3. CASE j # k /\ i = k
      BY <2>1, <2>2, <3>1, <3>3, ReadingBegins
    <3>4. CASE j # k /\ i # k
      <4>1. HasRead(i) /\ j \in SyncsRunning
        BY <2>1, <2>2, <3>1, <3>4, ReadingBegins
      <4>2. Replaced(i, j)
        BY <2>2, <4>1 DEF Met
      <4> QED
        BY <2>1, <3>1, <3>4, <4>2, ReadingBegins
    <3> QED
      BY <3>2, <3>3, <3>4
  <2> QED
    BY <2>2 DEF Met
<1>2. CASE \A k \in Syncs : ~ReadAgents(k)
  BY <1>2, OnlyReadingBegins DEF Met, Replaced, syncPast
<1> QED
  BY <1>1, <1>2

(* A sync starts with the first entry.                                     *)
LEMMA StartsKept == SyncTypeOK /\ Starts /\ SyncNext => Starts'
<1> SUFFICES ASSUME SyncTypeOK, Starts, SyncNext PROVE Starts'
  OBVIOUS
<1>1. /\ syncAt \in [Syncs -> SyncStages \cup {"idle", "ok", "failed", "gone"}]
      /\ next \in [Syncs -> Nat \ {0}]
      /\ \A k \in Syncs : syncAt[k] \in {"idle", "clients"} => next[k] = 1
  BY DEF SyncTypeOK, Starts
<1>2. CASE \E a \in AgentIds : AgentChanges(a)
  BY <1>1, <1>2 DEF AgentChanges, listings, Starts
<1>3. CASE \E c \in ClientIds : ClientChanges(c)
  BY <1>1, <1>3 DEF ClientChanges, listings, Starts
<1>4. ASSUME NEW k \in Syncs, ReadAgents(k) \/ ReadAgentsFails(k) \/ SyncEnds(k) PROVE Starts'
  BY <1>1, <1>4 DEF ReadAgents, ReadAgentsFails, SyncEnds, SyncGoTo, listings, Starts
<1>5. ASSUME NEW k \in Syncs, ReadClients(k) \/ ReadClientsFails(k) \/ AgentsDone(k) PROVE Starts'
  BY <1>1, <1>5 DEF ReadClients, ReadClientsFails, AgentsDone, SyncGoTo, listings, Starts
<1>6. ASSUME NEW k \in Syncs,
             UpsertAgent(k) \/ UpsertAgentFails(k) \/ UpsertClient(k) \/ UpsertClientFails(k)
      PROVE  Starts'
  <2>1. syncAt' = syncAt /\ syncAt[k] \in {"agents", "hosts"}
    BY <1>6 DEF UpsertAgent, UpsertAgentFails, UpsertClient, UpsertClientFails
  <2>2. \A j \in Syncs : j # k => next'[j] = next[j]
    BY <1>1, <1>6 DEF UpsertAgent, UpsertAgentFails, UpsertClient, UpsertClientFails
  <2> QED
    BY <1>1, <2>1, <2>2 DEF Starts
<1>7. ASSUME NEW syncs, SyncDrop(syncs) PROVE Starts'
  BY <1>1, <1>7 DEF SyncDrop, listings, Starts
<1> QED
  BY <1>2, <1>3, <1>4, <1>5, <1>6, <1>7 DEF SyncNext, Sync, SyncHangUp, SyncCrash

-----------------------------------------------------------------------------
(* A sync leaves what it left if no row changes and it comes past nothing  *)
(* more.                                                                   *)
LEMMA LeavesStay ==
  ASSUME NEW k \in Syncs, SyncTypeOK, Leaves(k), \A h \in Hosts : AgentRow(h) /\ ClientRow(h),
         UNCHANGED tables,
         \A j \in Syncs : HasRead(k) /\ HasRead(j) /\ Replaced(k, j) => Replaced(k, j)',
         \/ \A i \in Nat : ~AgentPassed(k, i)'
         \/ /\ agents'[k] = agents[k]
            /\ \A i \in 1..Len(agents[k]) : AgentPassed(k, i)' <=> AgentPassed(k, i),
         \/ \A i \in Nat : ~ClientPassed(k, i)'
         \/ /\ clients'[k] = clients[k]
            /\ \A i \in 1..Len(clients[k]) : ClientPassed(k, i)' <=> ClientPassed(k, i)
  PROVE  Leaves(k)'
<1>1. /\ agents \in [Syncs -> Seq(AgentEntry)] /\ clients \in [Syncs -> Seq(ClientIds)]
      /\ wazuh \in [Hosts -> AgentSide \cup {NoSide}] /\ velo \in [Hosts -> ClientSide \cup {NoSide}]
  BY DEF SyncTypeOK
<1>2. wazuh' = wazuh /\ velo' = velo /\ missed' = missed
  BY DEF tables
<1>3. ASSUME NEW i \in 1..Len(agents'[k]) PROVE LeavesAgent(k, i)'
  <2>1. CASE ~AgentPassed(k, i)'
    BY <2>1 DEF LeavesAgent
  <2>2. CASE AgentPassed(k, i)'
    <3>1. /\ agents'[k] = agents[k] /\ i \in 1..Len(agents[k])
          /\ \A n \in 1..Len(agents[k]) : AgentPassed(k, n)' <=> AgentPassed(k, n)
      BY <2>2
    <3>2. AgentPassed(k, i) /\ HasRead(k) /\ LeavesAgent(k, i)
      BY <2>2, <3>1 DEF AgentPassed, HasRead, Leaves
    <3>a. PICK e \in AgentEntry : e = agents[k][i]
      BY <1>1, <3>1
    <3>3. PICK h \in Hosts : h = agents[k][i].host
      BY <3>a DEF AgentEntry
    <3>4. \A n \in (i + 1)..Len(agents[k]) : AgentPassed(k, n) => AgentPassed(k, n)'
      BY <1>1, <3>1
    <3>5. wazuh[h] # NoSide => wazuh[h].by \in Syncs /\ HasRead(wazuh[h].by)
      BY <1>1 DEF AgentSide, AgentRow
    <3> QED
      BY <1>2, <3>1, <3>2, <3>3, <3>4, <3>5 DEF LeavesAgent
  <2> QED
    BY <2>1, <2>2
<1>4. ASSUME NEW i \in 1..Len(clients'[k]) PROVE LeavesClient(k, i)'
  <2>1. CASE ~ClientPassed(k, i)'
    BY <2>1 DEF LeavesClient
  <2>2. CASE ClientPassed(k, i)'
    <3>1. /\ clients'[k] = clients[k] /\ i \in 1..Len(clients[k])
          /\ \A n \in 1..Len(clients[k]) : ClientPassed(k, n)' <=> ClientPassed(k, n)
      BY <2>2
    <3>2. ClientPassed(k, i) /\ HasRead(k) /\ LeavesClient(k, i)
      BY <2>2, <3>1 DEF ClientPassed, HasRead, Leaves
    <3>d. clients[k] \in Seq(ClientIds)
      BY <1>1
    <3>b. Len(clients[k]) \in Nat
      BY <3>d
    <3>4. \A n \in (i + 1)..Len(clients[k]) : ClientPassed(k, n) => ClientPassed(k, n)'
      BY <3>b, <3>1
    <3>a. PICK c \in ClientIds : c = clients[k][i]
      BY <1>1, <3>1
    <3>3. PICK h \in Hosts \cup {""} : h = HostOf[clients[k][i]]
      BY <3>a, InventoryAssumption
    <3>c. h # "" => h \in Hosts /\ ClientRow(h)
      BY <3>3
    <3>5. h # "" /\ velo[h] # NoSide => velo[h].by \in Syncs /\ HasRead(velo[h].by)
      <4>1. h # "" /\ velo[h] # NoSide => velo[h] \in ClientSide
        BY <1>1, <3>c
      <4> QED
        BY <3>c, <4>1 DEF ClientSide, ClientRow
    <3> QED
      BY <1>2, <3>1, <3>2, <3>3, <3>4, <3>5 DEF LeavesClient
  <2> QED
    BY <2>1, <2>2
<1> QED
  BY <1>3, <1>4 DEF Leaves

(* It leaves a agent it left whose row is as it was.                       *)
LEMMA AgentIsLeft ==
  ASSUME NEW j \in Syncs, NEW i \in 1..Len(agents[j]), LeavesAgent(j, i),
         Len(agents[j]) \in Nat,
         agents' = agents, syncPast' = syncPast,
         agents[j][i].host \notin missed'[j] =>
           /\ agents[j][i].host \notin missed[j]
           /\ wazuh'[agents[j][i].host] = wazuh[agents[j][i].host]
           /\ AgentPassed(j, i)' => AgentPassed(j, i),
         \A n \in (i + 1)..Len(agents[j]) : AgentPassed(j, n) => AgentPassed(j, n)'
  PROVE  LeavesAgent(j, i)'
<1>1. PICK h : h = agents[j][i].host
  OBVIOUS
<1>2. SUFFICES ASSUME AgentPassed(j, i)', h \notin missed'[j]
      PROVE  /\ wazuh'[h] # NoSide
             /\ wazuh'[h].by # j => j \in earlier'[wazuh'[h].by] \/ wazuh'[h].by \in overlaps'[j]
             /\ wazuh'[h].by = j =>
                  \/ wazuh'[h].id = agents[j][i].id
                  \/ \E n \in (i + 1)..Len(agents[j]) : AgentPassed(j, n)' /\ agents[j][n].host = h
  BY <1>1 DEF LeavesAgent, Replaced
<1>3. wazuh'[h] = wazuh[h]
  BY <1>1, <1>2
<1>4. /\ wazuh[h] # NoSide
      /\ wazuh[h].by # j => Replaced(j, wazuh[h].by)
      /\ wazuh[h].by = j =>
           \/ wazuh[h].id = agents[j][i].id
           \/ \E n \in (i + 1)..Len(agents[j]) : AgentPassed(j, n) /\ agents[j][n].host = h
  BY <1>1, <1>2 DEF LeavesAgent
<1>5. earlier' = earlier /\ overlaps' = overlaps
  BY DEF syncPast
<1> QED
  BY <1>3, <1>4, <1>5 DEF Replaced

(* It leaves a client it left whose row is as it was.                       *)
LEMMA ClientIsLeft ==
  ASSUME NEW j \in Syncs, NEW i \in 1..Len(clients[j]), LeavesClient(j, i),
         Len(clients[j]) \in Nat,
         clients' = clients, syncPast' = syncPast,
         HostOf[clients[j][i]] \notin missed'[j] =>
           /\ HostOf[clients[j][i]] \notin missed[j]
           /\ HostOf[clients[j][i]] # "" => velo'[HostOf[clients[j][i]]] = velo[HostOf[clients[j][i]]]
           /\ ClientPassed(j, i)' => ClientPassed(j, i),
         \A n \in (i + 1)..Len(clients[j]) : ClientPassed(j, n) => ClientPassed(j, n)'
  PROVE  LeavesClient(j, i)'
<1>1. PICK h : h = HostOf[clients[j][i]]
  OBVIOUS
<1>2. SUFFICES ASSUME ClientPassed(j, i)', h \notin missed'[j], h # ""
      PROVE  /\ velo'[h] # NoSide
             /\ velo'[h].by # j => j \in earlier'[velo'[h].by] \/ velo'[h].by \in overlaps'[j]
             /\ velo'[h].by = j =>
                  \/ velo'[h].id = clients[j][i]
                  \/ \E n \in (i + 1)..Len(clients[j]) : ClientPassed(j, n)' /\ HostOf[clients[j][n]] = h
  BY <1>1 DEF LeavesClient, Replaced
<1>3. velo'[h] = velo[h]
  BY <1>1, <1>2
<1>4. /\ velo[h] # NoSide
      /\ velo[h].by # j => Replaced(j, velo[h].by)
      /\ velo[h].by = j =>
           \/ velo[h].id = clients[j][i]
           \/ \E n \in (i + 1)..Len(clients[j]) : ClientPassed(j, n) /\ HostOf[clients[j][n]] = h
  BY <1>1, <1>2 DEF LeavesClient
<1>5. earlier' = earlier /\ overlaps' = overlaps
  BY DEF syncPast
<1> QED
  BY <1>3, <1>4, <1>5 DEF Replaced

(* An entry stands for its host, and a client for one or none.             *)
LEMMA EntriesHaveHosts ==
  ASSUME SyncTypeOK, NEW j \in Syncs
  PROVE  /\ Len(agents[j]) \in Nat /\ Len(clients[j]) \in Nat
         /\ \A i \in 1..Len(agents[j]) : agents[j][i] \in AgentEntry /\ agents[j][i].host \in Hosts
         /\ \A i \in 1..Len(clients[j]) :
              /\ clients[j][i] \in ClientIds /\ HostOf[clients[j][i]] \in Hosts \cup {""}
<1>1. agents[j] \in Seq(AgentEntry) /\ clients[j] \in Seq(ClientIds)
  BY DEF SyncTypeOK
<1>2. \A i \in 1..Len(agents[j]) : agents[j][i] \in AgentEntry
  BY <1>1
<1>3. \A e \in AgentEntry : e.host \in Hosts
  BY DEF AgentEntry
<1>4. \A i \in 1..Len(clients[j]) : clients[j][i] \in ClientIds
  BY <1>1
<1>5. Len(agents[j]) \in Nat /\ Len(clients[j]) \in Nat
  BY <1>1
<1> QED
  BY <1>2, <1>3, <1>4, <1>5, InventoryAssumption

(* A row of an agent is written: the syncs that have read lose it to one   *)
(* that runs.                                                              *)
LEMMA AgentIsWritten ==
  ASSUME SyncTypeOK, Met, NEW k \in Syncs, UpsertAgent(k), NEW j \in Syncs, Leaves(j)
  PROVE  Leaves(j)'
<1>1. /\ next \in [Syncs -> Nat \ {0}]
      /\ wazuh \in [Hosts -> AgentSide \cup {NoSide}]
      /\ Len(agents[j]) \in Nat /\ Len(agents[k]) \in Nat /\ Len(clients[j]) \in Nat
  BY EntriesHaveHosts DEF SyncTypeOK
<1>2. PICK m \in Nat \ {0} : m = next[k]
  BY <1>1
<1>3. syncAt[k] = "agents" /\ m \in 1..Len(agents[k])
  BY <1>1, <1>2 DEF UpsertAgent
<1>4. PICK e \in AgentEntry : e = agents[k][m] /\ e.host \in Hosts
  BY <1>3, EntriesHaveHosts
<1>5. PICK side \in AgentSide : /\ side = AgentColumns(k, e, wazuh[e.host])
                                /\ side.id = e.id /\ side.by = k /\ side # NoSide
  <2>1. AgentColumns(k, e, wazuh[e.host]) \in AgentSide
    BY <1>1, <1>4, SidesAreSides
  <2> QED
    BY <2>1, SidesAreSides DEF AgentColumns
<1>6. wazuh' = [wazuh EXCEPT ![e.host] = side]
  BY <1>2, <1>4, <1>5 DEF UpsertAgent
<1>7. /\ next' = [next EXCEPT ![k] = m + 1]
      /\ UNCHANGED <<syncAt, agents, clients, velo, missed, syncPast>>
  BY <1>2 DEF UpsertAgent
<1>8. \A i \in Nat : /\ ClientPassed(j, i)' <=> ClientPassed(j, i)
                     /\ AgentPassed(j, i)' <=> AgentPassed(j, i) \/ (j = k /\ i = m)
  BY <1>1, <1>2, <1>3, <1>7 DEF ClientPassed, AgentPassed
<1>9. ASSUME NEW i \in 1..Len(clients[j]) PROVE LeavesClient(j, i)'
  <2>1. i \in Nat /\ \A n \in (i + 1)..Len(clients[j]) : n \in Nat
    BY <1>1
  <2>2. LeavesClient(j, i)
    BY DEF Leaves
  <2> QED
    BY <1>1, <1>7, <1>8, <2>1, <2>2, ClientIsLeft
<1>10. ASSUME NEW i \in 1..Len(agents[j]) PROVE LeavesAgent(j, i)'
  <2>1. i \in Nat /\ \A n \in (i + 1)..Len(agents[j]) : n \in Nat
    BY <1>1
  <2>2. LeavesAgent(j, i) /\ agents[j][i].host \in Hosts
    BY EntriesHaveHosts DEF Leaves
  <2>3. CASE agents[j][i].host # e.host
    <3>1. wazuh'[agents[j][i].host] = wazuh[agents[j][i].host]
      BY <1>1, <1>6, <2>2, <2>3
    <3>2. ~(j = k /\ i = m)
      BY <1>4, <2>3
    <3> QED
      BY <1>1, <1>7, <1>8, <2>1, <2>2, <3>1, <3>2, AgentIsLeft
  <2>4. CASE agents[j][i].host = e.host
    <3>1. wazuh'[e.host] = side
      BY <1>1, <1>4, <1>6
    <3>2. CASE j # k
      <4>1. AgentPassed(j, i)' => AgentPassed(j, i) /\ HasRead(j)
        BY <1>8, <2>1, <3>2 DEF AgentPassed, HasRead
      <4>2. AgentPassed(j, i)' => Replaced(j, k)
        BY <4>1, <3>2, <1>3 DEF Met, SyncsRunning, SyncStages
      <4>3. AgentPassed(j, i)' => j \in earlier'[k] \/ k \in overlaps'[j]
        BY <4>2, <1>7 DEF Replaced, syncPast
      <4> QED
        BY <1>5, <1>7, <2>4, <3>1, <3>2, <4>3 DEF LeavesAgent, Replaced
    <3>3. CASE j = k
      <4>1. i = m \/ (AgentPassed(j, i)' => i < m)
        BY <1>1, <1>2, <1>3, <1>7, <2>1, <3>3 DEF AgentPassed
      <4>2. CASE i = m
        BY <4>2, <1>4, <1>5, <1>7, <2>4, <3>1, <3>3 DEF LeavesAgent
      <4>3. CASE i < m
        <5>1. m \in (i + 1)..Len(agents[j])
          BY <4>3, <1>3, <2>1, <3>3
        <5>2. AgentPassed(j, m)' /\ agents'[j][m].host = e.host
          BY <1>4, <1>7, <1>8, <3>3
        <5> QED
          BY <1>5, <1>7, <2>4, <3>1, <3>3, <5>1, <5>2 DEF LeavesAgent
      <4>4. CASE ~AgentPassed(j, i)'
        BY <4>4 DEF LeavesAgent
      <4> QED
        BY <4>1, <4>2, <4>3, <4>4
    <3> QED
      BY <3>2, <3>3
  <2> QED
    BY <2>3, <2>4
<1> QED
  BY <1>7, <1>9, <1>10 DEF Leaves

(* An upsert of an agent fails: its host is among the missed.              *)
LEMMA AgentIsMissed ==
  ASSUME SyncTypeOK, NEW k \in Syncs, UpsertAgentFails(k), NEW j \in Syncs, Leaves(j)
  PROVE  Leaves(j)'
<1>1. /\ next \in [Syncs -> Nat \ {0}] /\ missed \in [Syncs -> SUBSET Hosts]
      /\ Len(agents[j]) \in Nat /\ Len(agents[k]) \in Nat /\ Len(clients[j]) \in Nat
  BY EntriesHaveHosts DEF SyncTypeOK
<1>2. PICK m \in Nat \ {0} : m = next[k]
  BY <1>1
<1>3. syncAt[k] = "agents" /\ m \in 1..Len(agents[k])
  BY <1>1, <1>2 DEF UpsertAgentFails
<1>7. /\ next' = [next EXCEPT ![k] = m + 1]
      /\ missed' = [missed EXCEPT ![k] = @ \cup {agents[k][m].host}]
      /\ UNCHANGED <<syncAt, agents, clients, wazuh, velo, syncPast>>
  BY <1>2 DEF UpsertAgentFails, AfterFailure
<1>8. \A i \in Nat : /\ ClientPassed(j, i)' <=> ClientPassed(j, i)
                     /\ AgentPassed(j, i)' <=> AgentPassed(j, i) \/ (j = k /\ i = m)
  BY <1>1, <1>2, <1>3, <1>7 DEF ClientPassed, AgentPassed
<1>6. missed[j] \subseteq missed'[j] /\ agents[k][m].host \in missed'[k]
  BY <1>1, <1>7
<1>9. ASSUME NEW i \in 1..Len(clients[j]) PROVE LeavesClient(j, i)'
  <2>1. i \in Nat /\ \A n \in (i + 1)..Len(clients[j]) : n \in Nat
    BY <1>1
  <2>2. LeavesClient(j, i)
    BY DEF Leaves
  <2> QED
    BY <1>1, <1>6, <1>7, <1>8, <2>1, <2>2, ClientIsLeft
<1>10. ASSUME NEW i \in 1..Len(agents[j]) PROVE LeavesAgent(j, i)'
  <2>1. i \in Nat /\ \A n \in (i + 1)..Len(agents[j]) : n \in Nat
    BY <1>1
  <2>2. LeavesAgent(j, i)
    BY DEF Leaves
  <2> QED
    BY <1>1, <1>6, <1>7, <1>8, <2>1, <2>2, AgentIsLeft
<1> QED
  BY <1>7, <1>9, <1>10 DEF Leaves

(* A row of a client is written.                                           *)
LEMMA ClientIsWritten ==
  ASSUME SyncTypeOK, Met, NEW k \in Syncs, UpsertClient(k), NEW j \in Syncs, Leaves(j)
  PROVE  Leaves(j)'
<1>1. /\ next \in [Syncs -> Nat \ {0}]
      /\ velo \in [Hosts -> ClientSide \cup {NoSide}]
      /\ Len(agents[j]) \in Nat /\ Len(clients[k]) \in Nat /\ Len(clients[j]) \in Nat
  BY EntriesHaveHosts DEF SyncTypeOK
<1>2. PICK m \in Nat \ {0} : m = next[k]
  BY <1>1
<1>3. syncAt[k] = "hosts" /\ m \in 1..Len(clients[k])
  BY <1>1, <1>2 DEF UpsertClient
<1>4. PICK c \in ClientIds : c = clients[k][m]
  BY <1>3, EntriesHaveHosts
<1>5. PICK side \in ClientSide : /\ side = [id |-> c, by |-> k]
                                 /\ side.id = c /\ side.by = k /\ side # NoSide
  BY SidesAreSides
<1>6. velo' = IF HostOf[c] # "" THEN [velo EXCEPT ![HostOf[c]] = side] ELSE velo
  BY <1>2, <1>4, <1>5 DEF UpsertClient, Named, ClientHost
<1>7. /\ next' = [next EXCEPT ![k] = m + 1]
      /\ UNCHANGED <<syncAt, agents, clients, wazuh, missed, syncPast>>
  BY <1>2 DEF UpsertClient
<1>8. \A i \in Nat : /\ AgentPassed(j, i)' <=> AgentPassed(j, i)
                     /\ ClientPassed(j, i)' <=> ClientPassed(j, i) \/ (j = k /\ i = m)
  BY <1>1, <1>2, <1>3, <1>7 DEF ClientPassed, AgentPassed
<1>9. ASSUME NEW i \in 1..Len(agents[j]) PROVE LeavesAgent(j, i)'
  <2>1. i \in Nat /\ \A n \in (i + 1)..Len(agents[j]) : n \in Nat
    BY <1>1
  <2>2. LeavesAgent(j, i)
    BY DEF Leaves
  <2> QED
    BY <1>1, <1>7, <1>8, <2>1, <2>2, AgentIsLeft
<1>10. ASSUME NEW i \in 1..Len(clients[j]) PROVE LeavesClient(j, i)'
  <2>1. i \in Nat /\ \A n \in (i + 1)..Len(clients[j]) : n \in Nat
    BY <1>1
  <2>2. LeavesClient(j, i) /\ HostOf[clients[j][i]] \in Hosts \cup {""}
    BY EntriesHaveHosts DEF Leaves
  <2>3. CASE HostOf[clients[j][i]] # HostOf[c]
    <3>1. HostOf[clients[j][i]] # "" => velo'[HostOf[clients[j][i]]] = velo[HostOf[clients[j][i]]]
      BY <1>1, <1>6, <2>2, <2>3
    <3>2. ~(j = k /\ i = m)
      BY <1>4, <2>3
    <3> QED
      BY <1>1, <1>7, <1>8, <2>1, <2>2, <3>1, <3>2, ClientIsLeft
  <2>5. CASE HostOf[clients[j][i]] = ""
    BY <2>5, <1>7 DEF LeavesClient
  <2>4. CASE HostOf[clients[j][i]] = HostOf[c] /\ HostOf[c] # ""
    <3>1. HostOf[c] \in Hosts /\ velo'[HostOf[c]] = side
      BY <1>1, <1>6, <2>2, <2>4
    <3>2. CASE j # k
      <4>1. ClientPassed(j, i)' => ClientPassed(j, i) /\ HasRead(j)
        BY <1>8, <2>1, <3>2 DEF ClientPassed, HasRead
      <4>2. ClientPassed(j, i)' => Replaced(j, k)
        BY <4>1, <3>2, <1>3 DEF Met, SyncsRunning, SyncStages
      <4>3. ClientPassed(j, i)' => j \in earlier'[k] \/ k \in overlaps'[j]
        BY <4>2, <1>7 DEF Replaced, syncPast
      <4> QED
        BY <1>5, <1>7, <2>4, <3>1, <3>2, <4>3 DEF LeavesClient, Replaced
    <3>3. CASE j = k
      <4>1. i = m \/ (ClientPassed(j, i)' => i < m)
        BY <1>1, <1>2, <1>3, <1>7, <2>1, <3>3 DEF ClientPassed
      <4>2. CASE i = m
        BY <4>2, <1>4, <1>5, <1>7, <2>4, <3>1, <3>3 DEF LeavesClient
      <4>3. CASE i < m
        <5>1. m \in (i + 1)..Len(clients[j])
          BY <4>3, <1>3, <2>1, <3>3
        <5>2. ClientPassed(j, m)' /\ HostOf[clients'[j][m]] = HostOf[c]
          BY <1>4, <1>7, <1>8, <3>3
        <5> QED
          BY <1>5, <1>7, <2>4, <3>1, <3>3, <5>1, <5>2 DEF LeavesClient
      <4>4. CASE ~ClientPassed(j, i)'
        BY <4>4 DEF LeavesClient
      <4> QED
        BY <4>1, <4>2, <4>3, <4>4
    <3> QED
      BY <3>2, <3>3
  <2> QED
    BY <2>3, <2>4, <2>5
<1> QED
  BY <1>7, <1>9, <1>10 DEF Leaves

(* An upsert of a client fails.                                            *)
LEMMA ClientIsMissed ==
  ASSUME SyncTypeOK, NEW k \in Syncs, UpsertClientFails(k), NEW j \in Syncs, Leaves(j)
  PROVE  Leaves(j)'
<1>1. /\ next \in [Syncs -> Nat \ {0}] /\ missed \in [Syncs -> SUBSET Hosts]
      /\ Len(agents[j]) \in Nat /\ Len(clients[k]) \in Nat /\ Len(clients[j]) \in Nat
  BY EntriesHaveHosts DEF SyncTypeOK
<1>2. PICK m \in Nat \ {0} : m = next[k]
  BY <1>1
<1>3. syncAt[k] = "hosts" /\ m \in 1..Len(clients[k])
  BY <1>1, <1>2 DEF UpsertClientFails
<1>7. /\ next' = [next EXCEPT ![k] = m + 1]
      /\ missed' = [missed EXCEPT ![k] = @ \cup {HostOf[clients[k][m]]}]
      /\ UNCHANGED <<syncAt, agents, clients, wazuh, velo, syncPast>>
  BY <1>2 DEF UpsertClientFails, AfterFailure, ClientHost
<1>8. \A i \in Nat : /\ AgentPassed(j, i)' <=> AgentPassed(j, i)
                     /\ ClientPassed(j, i)' <=> ClientPassed(j, i) \/ (j = k /\ i = m)
  BY <1>1, <1>2, <1>3, <1>7 DEF ClientPassed, AgentPassed
<1>6. missed[j] \subseteq missed'[j] /\ HostOf[clients[k][m]] \in missed'[k]
  BY <1>1, <1>7
<1>9. ASSUME NEW i \in 1..Len(agents[j]) PROVE LeavesAgent(j, i)'
  <2>1. i \in Nat /\ \A n \in (i + 1)..Len(agents[j]) : n \in Nat
    BY <1>1
  <2>2. LeavesAgent(j, i)
    BY DEF Leaves
  <2> QED
    BY <1>1, <1>6, <1>7, <1>8, <2>1, <2>2, AgentIsLeft
<1>10. ASSUME NEW i \in 1..Len(clients[j]) PROVE LeavesClient(j, i)'
  <2>1. i \in Nat /\ \A n \in (i + 1)..Len(clients[j]) : n \in Nat
    BY <1>1
  <2>2. LeavesClient(j, i)
    BY DEF Leaves
  <2> QED
    BY <1>1, <1>6, <1>7, <1>8, <2>1, <2>2, ClientIsLeft
<1> QED
  BY <1>7, <1>9, <1>10 DEF Leaves

(* Every step keeps what the syncs leave.                                  *)
LEMMA LeavesKept ==
  ASSUME SyncTypeOK, Met, Starts, \A h \in Hosts : AgentRow(h) /\ ClientRow(h),
         SyncNext, NEW j \in Syncs, Leaves(j)
  PROVE  Leaves(j)'
<1>0. Len(agents[j]) \in Nat /\ Len(clients[j]) \in Nat
  BY EntriesHaveHosts
<1>1. /\ syncAt \in [Syncs -> SyncStages \cup {"idle", "ok", "failed", "gone"}]
      /\ agents \in [Syncs -> Seq(AgentEntry)] /\ clients \in [Syncs -> Seq(ClientIds)]
      /\ next \in [Syncs -> Nat \ {0}]
      /\ \A i \in 1..Len(agents[j]) : i \in Nat
      /\ \A i \in 1..Len(clients[j]) : i \in Nat
      /\ Len(agents[j]) \in Nat /\ Len(clients[j]) \in Nat
  BY <1>0 DEF SyncTypeOK
<1>2. ASSUME (\E a \in AgentIds : AgentChanges(a)) \/ (\E c \in ClientIds : ClientChanges(c))
      PROVE  Leaves(j)'
  <2>1. UNCHANGED <<syncAt, listings, tables, syncPast>>
    BY <1>2 DEF AgentChanges, ClientChanges
  <2> QED
    BY <2>1, LeavesStay DEF AgentPassed, ClientPassed, listings, Replaced, syncPast
<1>3. ASSUME NEW k \in Syncs, ReadAgents(k) PROVE Leaves(j)'
  <2>1. /\ syncAt' = [syncAt EXCEPT ![k] = "clients"] /\ UNCHANGED <<clients, next, tables>>
        /\ agents' = [agents EXCEPT ![k] = Listed]
    BY <1>3 DEF ReadAgents, SyncGoTo
  <2>2. \A i \in Syncs : HasRead(j) /\ HasRead(i) /\ Replaced(j, i) => Replaced(j, i)'
    BY <1>3, ReadingBegins
  <2>3. CASE j = k
    BY <1>1, <2>1, <2>2, <2>3, LeavesStay DEF AgentPassed, ClientPassed
  <2>4. CASE j # k
    <3>1. agents'[j] = agents[j] /\ syncAt'[j] = syncAt[j]
      BY <1>1, <2>1, <2>4
    <3> QED
      BY <2>1, <2>2, <3>1, LeavesStay DEF AgentPassed, ClientPassed
  <2> QED
    BY <2>3, <2>4
<1>4. ASSUME NEW k \in Syncs, ReadClients(k) \/ ReadClientsFails(k) PROVE Leaves(j)'
  <2>1. /\ syncAt' = [syncAt EXCEPT ![k] = "agents"] /\ UNCHANGED <<agents, next, tables, syncPast>>
        /\ j # k => clients'[j] = clients[j]
        /\ next[k] = 1
    BY <1>1, <1>4 DEF ReadClients, ReadClientsFails, SyncGoTo, listings, Starts
  <2>2. syncAt[k] = "clients"
    BY <1>4 DEF ReadClients, ReadClientsFails
  <2>3. CASE j = k
    <3>1. \A i \in Nat : ~ClientPassed(j, i)'
      BY <1>1, <2>1, <2>3 DEF ClientPassed
    <3>2. \A i \in 1..Len(agents[j]) : AgentPassed(j, i)' <=> AgentPassed(j, i)
      BY <1>1, <2>1, <2>2, <2>3 DEF AgentPassed
    <3> QED
      BY <2>1, <3>1, <3>2, LeavesStay DEF Replaced, syncPast
  <2>4. CASE j # k
    <3>1. syncAt'[j] = syncAt[j]
      BY <1>1, <2>1, <2>4
    <3> QED
      BY <2>1, <2>4, <3>1, LeavesStay DEF AgentPassed, ClientPassed, Replaced, syncPast
  <2> QED
    BY <2>3, <2>4
<1>5. ASSUME NEW k \in Syncs, ReadAgentsFails(k) PROVE Leaves(j)'
  <2>1. /\ syncAt[k] = "idle" /\ syncAt' = [syncAt EXCEPT ![k] = "failed"]
        /\ UNCHANGED <<listings, tables, syncPast>>
    BY <1>5 DEF ReadAgentsFails, SyncGoTo
  <2>2. \A i : /\ AgentPassed(j, i)' <=> AgentPassed(j, i)
               /\ ClientPassed(j, i)' <=> ClientPassed(j, i)
    BY <1>1, <2>1 DEF AgentPassed, ClientPassed, listings
  <2> QED
    BY <2>1, <2>2, LeavesStay DEF listings, Replaced, syncPast
<1>6. ASSUME NEW k \in Syncs, SyncEnds(k) PROVE Leaves(j)'
  <2>1. /\ syncAt[k] = "hosts" /\ syncAt' = [syncAt EXCEPT ![k] = "ok"]
        /\ UNCHANGED <<listings, tables, syncPast>> /\ next[k] > Len(clients[k])
    BY <1>6 DEF SyncEnds, SyncGoTo
  <2>2. \A i \in Nat : AgentPassed(j, i)' <=> AgentPassed(j, i)
    BY <1>1, <2>1 DEF AgentPassed, listings
  <2>3. \A i \in 1..Len(clients[j]) : ClientPassed(j, i)' <=> ClientPassed(j, i)
    <3>1. CASE j # k
      BY <1>1, <2>1, <3>1 DEF ClientPassed, listings
    <3>2. CASE j = k
      <4>1. \A i \in 1..Len(clients[j]) : i < next[j]
        BY <1>1, <2>1, <3>2
      <4> QED
        BY <1>1, <2>1, <3>2, <4>1 DEF ClientPassed, listings
    <3> QED
      BY <3>1, <3>2
  <2> QED
    BY <1>1, <2>1, <2>2, <2>3, LeavesStay DEF listings, Replaced, syncPast
<1>7. ASSUME NEW k \in Syncs, AgentsDone(k) PROVE Leaves(j)'
  <2>1. /\ syncAt[k] = "agents" /\ syncAt' = [syncAt EXCEPT ![k] = "hosts"]
        /\ next' = [next EXCEPT ![k] = 1]
        /\ UNCHANGED <<agents, clients, tables, syncPast>> /\ next[k] > Len(agents[k])
    BY <1>7 DEF AgentsDone, SyncGoTo
  <2>2. CASE j # k
    <3>1. syncAt'[j] = syncAt[j] /\ next'[j] = next[j]
      BY <1>1, <2>1, <2>2
    <3> QED
      BY <2>1, <3>1, LeavesStay DEF AgentPassed, ClientPassed, Replaced, syncPast
  <2>3. CASE j = k
    <3>1. syncAt'[j] = "hosts" /\ next'[j] = 1
      BY <1>1, <2>1, <2>3
    <3>2. \A i \in 1..Len(agents[j]) : i < next[j]
      BY <1>1, <2>1, <2>3
    <3>3. \A i \in 1..Len(agents[j]) : AgentPassed(j, i)' <=> AgentPassed(j, i)
      BY <2>1, <2>3, <3>1, <3>2 DEF AgentPassed
    <3>4. \A i \in 1..Len(clients[j]) : ClientPassed(j, i)' <=> ClientPassed(j, i)
      BY <1>1, <2>1, <2>3, <3>1 DEF ClientPassed
    <3> QED
      BY <2>1, <3>3, <3>4, LeavesStay DEF Replaced, syncPast
  <2> QED
    BY <2>2, <2>3
<1>8. ASSUME NEW k \in Syncs, UpsertAgent(k) \/ UpsertClient(k) PROVE Leaves(j)'
  BY <1>8, AgentIsWritten, ClientIsWritten
<1>9. ASSUME NEW k \in Syncs, UpsertAgentFails(k) \/ UpsertClientFails(k) PROVE Leaves(j)'
  BY <1>9, AgentIsMissed, ClientIsMissed
<1>10. ASSUME NEW syncs, SyncDrop(syncs) PROVE Leaves(j)'
  <2>1. /\ syncAt' = [k \in Syncs |-> IF k \in syncs THEN "gone" ELSE syncAt[k]]
        /\ UNCHANGED <<listings, tables, syncPast>>
    BY <1>10 DEF SyncDrop
  <2>2. CASE j \in syncs
    <3>1. \A i \in Nat : ~AgentPassed(j, i)' /\ ~ClientPassed(j, i)'
      BY <2>1, <2>2 DEF AgentPassed, ClientPassed
    <3> QED
      BY <2>1, <3>1, LeavesStay DEF Replaced, syncPast
  <2>3. CASE j \notin syncs
    <3>1. syncAt'[j] = syncAt[j]
      BY <2>1, <2>3
    <3> QED
      BY <2>1, <3>1, LeavesStay DEF AgentPassed, ClientPassed, listings, Replaced, syncPast
  <2> QED
    BY <2>2, <2>3
<1> QED
  BY <1>2, <1>3, <1>4, <1>5, <1>6, <1>7, <1>8, <1>9, <1>10
     DEF SyncNext, Sync, SyncHangUp, SyncCrash

-----------------------------------------------------------------------------
(* Every step keeps the rows from what was read.                           *)
LEMMA RowsKept ==
  ASSUME SyncTypeOK, SyncNext, NEW h \in Hosts, AgentRow(h), ClientRow(h)
  PROVE  AgentRow(h)' /\ ClientRow(h)'
<1>1. /\ syncAt \in [Syncs -> SyncStages \cup {"idle", "ok", "failed", "gone"}]
      /\ agents \in [Syncs -> Seq(AgentEntry)] /\ clients \in [Syncs -> Seq(ClientIds)]
      /\ next \in [Syncs -> Nat \ {0}]
      /\ wazuh \in [Hosts -> AgentSide \cup {NoSide}] /\ velo \in [Hosts -> ClientSide \cup {NoSide}]
  BY DEF SyncTypeOK
<1>2. /\ wazuh[h] # NoSide => wazuh[h].by \in Syncs
      /\ velo[h] # NoSide => velo[h].by \in Syncs
  BY <1>1 DEF AgentSide, ClientSide
<1>3. ASSUME wazuh' = wazuh, velo' = velo, agents' = agents, clients' = clients,
             \A k \in Syncs : /\ HasRead(k) => HasRead(k)'
                              /\ HasRead(k) /\ syncAt[k] # "clients" => syncAt'[k] # "clients"
      PROVE  AgentRow(h)' /\ ClientRow(h)'
  BY <1>2, <1>3 DEF AgentRow, ClientRow, HasRead
<1>4. ASSUME (\E a \in AgentIds : AgentChanges(a)) \/ (\E c \in ClientIds : ClientChanges(c))
      PROVE  AgentRow(h)' /\ ClientRow(h)'
  BY <1>3, <1>4 DEF AgentChanges, ClientChanges, listings, tables, HasRead
<1>5. ASSUME NEW k \in Syncs, ReadAgents(k) PROVE AgentRow(h)' /\ ClientRow(h)'
  <2>1. /\ syncAt[k] = "idle" /\ syncAt' = [syncAt EXCEPT ![k] = "clients"]
        /\ UNCHANGED <<clients, next, tables>> /\ agents' = [agents EXCEPT ![k] = Listed]
    BY <1>5 DEF ReadAgents, SyncGoTo
  <2>2. \A j \in Syncs : HasRead(j) => agents'[j] = agents[j] /\ syncAt'[j] = syncAt[j]
    BY <1>1, <2>1 DEF HasRead
  <2> QED
    BY <1>2, <2>1, <2>2 DEF AgentRow, ClientRow, HasRead, tables
<1>6. ASSUME NEW k \in Syncs, ReadClients(k) PROVE AgentRow(h)' /\ ClientRow(h)'
  <2>1. /\ syncAt[k] = "clients" /\ syncAt' = [syncAt EXCEPT ![k] = "agents"]
        /\ UNCHANGED <<agents, tables>> /\ clients' = [clients EXCEPT ![k] = Chosen(Clients, Enrolled)]
    BY <1>6 DEF ReadClients, SyncGoTo
  <2>2. \A j \in Syncs : j # k => clients'[j] = clients[j] /\ syncAt'[j] = syncAt[j]
    BY <1>1, <2>1
  <2>3. syncAt'[k] = "agents"
    BY <1>1, <2>1
  <2> QED
    BY <1>2, <2>1, <2>2, <2>3 DEF AgentRow, ClientRow, HasRead, tables
<1>7. ASSUME NEW k \in Syncs,
             \/ ReadAgentsFails(k) \/ ReadClientsFails(k) \/ SyncEnds(k) \/ AgentsDone(k)
             \/ UpsertAgentFails(k) \/ UpsertClientFails(k)
      PROVE  AgentRow(h)' /\ ClientRow(h)'
  <2>1. CASE ReadAgentsFails(k) \/ ReadClientsFails(k) \/ SyncEnds(k)
    BY <2>1, <1>1, <1>3 DEF ReadAgentsFails, ReadClientsFails, SyncEnds, SyncGoTo, listings, tables,
       HasRead
  <2>2. CASE AgentsDone(k)
    BY <2>2, <1>1, <1>3 DEF AgentsDone, SyncGoTo, tables, HasRead
  <2>3. CASE UpsertAgentFails(k) \/ UpsertClientFails(k)
    BY <2>3, <1>3 DEF UpsertAgentFails, UpsertClientFails, HasRead
  <2> QED
    BY <2>1, <2>2, <2>3, <1>7
<1>8. ASSUME NEW k \in Syncs, UpsertAgent(k) PROVE AgentRow(h)' /\ ClientRow(h)'
  <2>1. PICK m \in 1..Len(agents[k]) : m = next[k]
    BY <1>1, <1>8 DEF UpsertAgent
  <2>2. PICK e \in AgentEntry : e = agents[k][m] /\ e.host \in Hosts
    BY <2>1, EntriesHaveHosts
  <2>3. e = [id |-> e.id, status |-> e.status, host |-> e.host]
    BY DEF AgentEntry
  <2>4. /\ wazuh' = [wazuh EXCEPT ![e.host] = AgentColumns(k, e, @)]
        /\ syncAt[k] = "agents" /\ UNCHANGED <<syncAt, agents, clients, velo>>
    BY <1>8, <2>1, <2>2 DEF UpsertAgent
  <2>5. ClientRow(h)'
    BY <2>4 DEF ClientRow, HasRead
  <2>6. CASE h = e.host
    <3>1. wazuh'[h] = [id |-> e.id, status |-> e.status, by |-> k]
      BY <1>1, <2>4, <2>6 DEF AgentColumns
    <3>2. HasRead(k)'
      BY <2>4 DEF HasRead
    <3>3. agents'[k][m] = [id |-> wazuh'[h].id, status |-> wazuh'[h].status, host |-> h]
      BY <2>2, <2>3, <2>4, <2>6, <3>1
    <3>4. wazuh'[h].by = k
      BY <3>1
    <3>5. AgentRow(h)'
      BY <2>1, <2>4, <3>2, <3>3, <3>4 DEF AgentRow, HasRead
    <3> QED
      BY <2>5, <3>5
  <2>7. CASE h # e.host
    <3>1. wazuh'[h] = wazuh[h]
      BY <1>1, <2>4, <2>7
    <3>2. AgentRow(h)'
      BY <2>4, <3>1 DEF AgentRow, HasRead
    <3> QED
      BY <2>5, <3>2
  <2> QED
    BY <2>6, <2>7
<1>9. ASSUME NEW k \in Syncs, UpsertClient(k) PROVE AgentRow(h)' /\ ClientRow(h)'
  <2>1. PICK m \in 1..Len(clients[k]) : m = next[k]
    BY <1>1, <1>9 DEF UpsertClient
  <2>2. PICK c \in ClientIds : c = clients[k][m]
    BY <2>1, EntriesHaveHosts
  <2>4. /\ velo' = IF HostOf[c] # "" THEN [velo EXCEPT ![HostOf[c]] = [id |-> c, by |-> k]] ELSE velo
        /\ syncAt[k] = "hosts" /\ UNCHANGED <<syncAt, agents, clients, wazuh>>
    BY <1>9, <2>1, <2>2 DEF UpsertClient, Named, ClientHost
  <2>5. AgentRow(h)'
    BY <2>4 DEF AgentRow, HasRead
  <2>6. CASE h = HostOf[c] /\ HostOf[c] # ""
    <3>1. velo'[h].by = k /\ velo'[h].id = c
      BY <1>1, <2>4, <2>6
    <3>2. ClientRow(h)'
      BY <2>1, <2>2, <2>4, <2>6, <3>1 DEF ClientRow, HasRead
    <3> QED
      BY <2>5, <3>2
  <2>7. CASE h # HostOf[c] \/ HostOf[c] = ""
    <3>1. velo'[h] = velo[h]
      BY <1>1, <2>4, <2>7
    <3>2. ClientRow(h)'
      BY <2>4, <3>1 DEF ClientRow, HasRead
    <3> QED
      BY <2>5, <3>2
  <2> QED
    BY <2>6, <2>7
<1>10. ASSUME NEW syncs, syncs \subseteq SyncsRunning, SyncDrop(syncs)
       PROVE  AgentRow(h)' /\ ClientRow(h)'
  BY <1>1, <1>3, <1>10 DEF SyncDrop, listings, tables, HasRead, SyncsRunning, SyncStages
<1>11. ASSUME NEW k \in Syncs, SyncHangUp(k) PROVE {k} \subseteq SyncsRunning /\ SyncDrop({k})
  BY <1>11 DEF SyncHangUp
<1>12. ASSUME SyncCrash PROVE SyncDrop(SyncsRunning)
  BY <1>12 DEF SyncCrash
<1> QED
  BY <1>4, <1>5, <1>6, <1>7, <1>8, <1>9, <1>10, <1>11, <1>12 DEF SyncNext, Sync

-----------------------------------------------------------------------------
(* What has been read stays so, whatever is changed at Wazuh.              *)
LEMMA ReadingsStay ==
  ASSUME SyncTypeOK, agents' = agents, renamed \subseteq renamed',
         \A a \in AgentIds :
           /\ status'[a] = "never_connected" => status[a] = "never_connected"
           /\ status[a] = "removed" => status'[a] = "removed"
           /\ \/ status[a] # "never_connected" \/ status'[a] \in {"never_connected", "removed"}
              \/ NameOf[a] = UnameOf[a] \/ a \in renamed',
         \A e \in Readings : Fits(e), \A d, e \in Readings : Agree(d, e)
  PROVE  (\A e \in Readings : Fits(e))' /\ (\A d, e \in Readings : Agree(d, e))'
<1>1. Readings' = Readings
  BY DEF Readings
<1>2. ASSUME NEW e \in Readings PROVE Fits(e)'
  <2>1. e.id \in AgentIds /\ Fits(e)
    BY DEF Readings, AgentEntry
  <2> QED
    BY <2>1 DEF Fits
<1>3. ASSUME NEW d \in Readings, NEW e \in Readings PROVE Agree(d, e)'
  <2>1. Agree(d, e)
    OBVIOUS
  <2> QED
    BY <2>1 DEF Agree
<1> QED
  BY <1>1, <1>2, <1>3

(* What a sync reads of an agent agrees with what was read of it before.   *)
LEMMA ReadingsJoin ==
  ASSUME SyncTypeOK, NEW k \in Syncs, ReadAgents(k),
         \A e \in Readings : Fits(e), \A d, e \in Readings : Agree(d, e)
  PROVE  (\A e \in Readings : Fits(e))' /\ (\A d, e \in Readings : Agree(d, e))'
<1>1. agents \in [Syncs -> Seq(AgentEntry)] /\ agents' = [agents EXCEPT ![k] = Listed]
      /\ status' = status /\ renamed' = renamed
  BY DEF SyncTypeOK, ReadAgents, upstream
<1>2. ASSUME NEW e \in Readings'
      PROVE  \/ e \in Readings
             \/ \E a \in AgentIds : status[a] # "removed" /\ e = Entry(a)
  <2>1. PICK j \in Syncs : \E i \in 1..Len(agents'[j]) : agents'[j][i] = e
    BY DEF Readings
  <2>2. PICK i \in 1..Len(agents'[j]) : agents'[j][i] = e
    BY <2>1
  <2>3. CASE j = k
    <3>1. agents'[j] = Listed
      BY <1>1, <2>3
    <3> QED
      BY <2>2, <3>1, ListedAre
  <2>4. CASE j # k
    <3>1. agents'[j] = agents[j]
      BY <1>1, <2>4
    <3>2. e \in AgentEntry
      BY <2>2, <3>1, EntriesHaveHosts
    <3> QED
      BY <2>2, <3>1, <3>2 DEF Readings
  <2> QED
    BY <2>3, <2>4
<1>3. ASSUME NEW a \in AgentIds, status[a] # "removed"
      PROVE  /\ Fits(Entry(a)) /\ Entry(a).id = a /\ Entry(a).status = status[a]
  BY <1>3 DEF Fits, Entry, HostIn
<1>4. ASSUME NEW e \in Readings' PROVE Fits(e)
  BY <1>2, <1>3
<1>5. ASSUME NEW d \in Readings', NEW e \in Readings' PROVE Agree(d, e)
  <2>1. SUFFICES ASSUME d.id = e.id, d.status = "never_connected", e.status # "never_connected",
                        ~(d \in Readings /\ e \in Readings)
                 PROVE  NameOf[d.id] = UnameOf[d.id] \/ d.id \in renamed
    BY DEF Agree
  <2>2. CASE d \notin Readings
    <3>1. PICK a \in AgentIds : status[a] # "removed" /\ d = Entry(a)
      BY <1>2, <2>2
    <3>2. status[d.id] = "never_connected"
      BY <1>3, <2>1, <3>1
    <3> QED
      BY <1>4, <2>1, <3>2 DEF Fits
  <2>3. CASE e \notin Readings
    <3>1. PICK a \in AgentIds : status[a] # "removed" /\ e = Entry(a)
      BY <1>2, <2>3
    <3>2. status[d.id] \notin {"never_connected", "removed"}
      BY <1>3, <2>1, <3>1
    <3> QED
      BY <1>4, <2>1, <3>2 DEF Fits
  <2> QED
    BY <2>1, <2>2, <2>3
<1>6. ASSUME NEW e PROVE Fits(e)' <=> Fits(e)
  BY <1>1 DEF Fits
<1>7. ASSUME NEW d, NEW e PROVE Agree(d, e)' <=> Agree(d, e)
  BY <1>1 DEF Agree
<1> QED
  BY <1>4, <1>5, <1>6, <1>7

(* Every step keeps what the readings of agents say.                       *)
LEMMA ReadingsKept ==
  ASSUME SyncTypeOK, SyncNext, \A e \in Readings : Fits(e), \A d, e \in Readings : Agree(d, e)
  PROVE  (\A e \in Readings : Fits(e))' /\ (\A d, e \in Readings : Agree(d, e))'
<1>1. status \in [AgentIds -> Statuses \cup {"removed"}]
  BY DEF SyncTypeOK
<1>2. ASSUME NEW k \in Syncs, ReadAgents(k)
      PROVE  (\A e \in Readings : Fits(e))' /\ (\A d, e \in Readings : Agree(d, e))'
  BY <1>2, ReadingsJoin
<1>3. CASE \E a \in AgentIds : AgentChanges(a)
  <2>1. PICK a \in AgentIds : AgentChanges(a)
    BY <1>3
  <2>2. \A b \in AgentIds : b # a => status'[b] = status[b]
    BY <1>1, <2>1 DEF AgentChanges
  <2>3. /\ status'[a] \in {"active", "disconnected", "removed"} /\ status[a] # "removed"
        /\ status[a] = "never_connected" => status'[a] \in {"active", "removed"}
    BY <1>1, <2>1 DEF AgentChanges
  <2>4. /\ renamed \subseteq renamed'
        /\ status[a] = "never_connected" /\ status'[a] = "active" /\ NameOf[a] # UnameOf[a] =>
             a \in renamed'
    BY <2>1 DEF AgentChanges
  <2>5. agents' = agents
    BY <2>1 DEF AgentChanges, listings
  <2>6. ASSUME NEW b \in AgentIds
        PROVE  /\ status'[b] = "never_connected" => status[b] = "never_connected"
               /\ status[b] = "removed" => status'[b] = "removed"
               /\ \/ status[b] # "never_connected" \/ status'[b] \in {"never_connected", "removed"}
                  \/ NameOf[b] = UnameOf[b] \/ b \in renamed'
    BY <2>2, <2>3, <2>4
  <2> QED
    BY <2>4, <2>5, <2>6, ReadingsStay
<1>4. CASE (\A a \in AgentIds : ~AgentChanges(a)) /\ \A k \in Syncs : ~ReadAgents(k)
  <2>1. agents' = agents
    BY <1>4, OnlyReadingBegins
  <2>2. status' = status /\ renamed' = renamed
    <3>1. ASSUME NEW c \in ClientIds, ClientChanges(c) PROVE status' = status /\ renamed' = renamed
      BY <3>1 DEF ClientChanges
    <3>2. ASSUME NEW syncs, SyncDrop(syncs) PROVE status' = status /\ renamed' = renamed
      BY <3>2 DEF SyncDrop, upstream
    <3>3. ASSUME NEW k \in Syncs,
                 \/ ReadAgentsFails(k) \/ ReadClients(k) \/ ReadClientsFails(k)
                 \/ UpsertAgent(k) \/ UpsertAgentFails(k) \/ AgentsDone(k)
                 \/ UpsertClient(k) \/ UpsertClientFails(k) \/ SyncEnds(k)
          PROVE  status' = status /\ renamed' = renamed
      BY <3>3 DEF ReadAgentsFails, ReadClients, ReadClientsFails, UpsertAgent, UpsertAgentFails,
         AgentsDone, UpsertClient, UpsertClientFails, SyncEnds, upstream
    <3> QED
      BY <1>4, <3>1, <3>2, <3>3 DEF SyncNext, Sync, SyncHangUp, SyncCrash
  <2> QED
    BY <2>1, <2>2, ReadingsStay
<1> QED
  BY <1>2, <1>3, <1>4

-----------------------------------------------------------------------------
(* The invariant holds at the start.                                       *)
LEMMA SyncInvInit == SyncInit => SyncInv
<1> SUFFICES ASSUME SyncInit PROVE SyncInv
  OBVIOUS
<1>1. SyncTypeOK
  BY BoundsAssumption DEF SyncInit, SyncTypeOK, Statuses
<1>2. Met /\ Starts
  BY DEF SyncInit, Met, Starts, SyncsRunning, SyncStages
<1>3. \A k \in Syncs : Leaves(k)
  <2>1. \A k \in Syncs : agents[k] = <<>> /\ clients[k] = <<>> /\ Len(agents[k]) = 0 /\ Len(clients[k]) = 0
    BY DEF SyncInit
  <2> QED
    BY <2>1 DEF Leaves
<1>4. \A h \in Hosts : AgentRow(h) /\ ClientRow(h)
  BY DEF SyncInit, AgentRow, ClientRow
<1>5. Readings = {}
  <2>1. \A k \in Syncs : Len(agents[k]) = 0
    BY DEF SyncInit
  <2> QED
    BY <2>1 DEF Readings
<1> QED
  BY <1>1, <1>2, <1>3, <1>4, <1>5 DEF SyncInv

(* Every step keeps it.                                                    *)
LEMMA SyncInvStep == SyncInv /\ [SyncNext]_syncVars => SyncInv'
<1> SUFFICES ASSUME SyncInv, [SyncNext]_syncVars PROVE SyncInv'
  OBVIOUS
<1>1. /\ SyncTypeOK /\ Met /\ Starts
      /\ \A k \in Syncs : Leaves(k)
      /\ \A h \in Hosts : AgentRow(h) /\ ClientRow(h)
      /\ \A e \in Readings : Fits(e)
      /\ \A d, e \in Readings : Agree(d, e)
  BY DEF SyncInv
<1>2. CASE SyncNext
  <2>1. SyncTypeOK' /\ Met' /\ Starts'
    BY <1>1, <1>2, SyncTypesKept, MetKept, StartsKept
  <2>2. \A k \in Syncs : Leaves(k)'
    BY <1>1, <1>2, LeavesKept
  <2>3. \A h \in Hosts : AgentRow(h)' /\ ClientRow(h)'
    BY <1>1, <1>2, RowsKept
  <2>4. (\A e \in Readings : Fits(e))' /\ (\A d, e \in Readings : Agree(d, e))'
    BY <1>1, <1>2, ReadingsKept
  <2> QED
    BY <2>1, <2>2, <2>3, <2>4 DEF SyncInv
<1>3. CASE UNCHANGED syncVars
  <2>1. /\ syncAt' = syncAt /\ agents' = agents /\ clients' = clients /\ next' = next
        /\ wazuh' = wazuh /\ velo' = velo /\ missed' = missed /\ status' = status
        /\ present' = present /\ changes' = changes /\ renamed' = renamed
        /\ earlier' = earlier /\ overlaps' = overlaps /\ syncFaults' = syncFaults
    BY <1>3 DEF syncVars, listings, tables, upstream, syncPast
  <2>2. SyncTypeOK' /\ Met' /\ Starts'
    BY <1>1, <2>1 DEF SyncTypeOK, Met, Starts, HasRead, SyncsRunning, Replaced
  <2>3. ASSUME NEW k \in Syncs PROVE Leaves(k)'
    BY <1>1, <2>1, LeavesStay DEF AgentPassed, ClientPassed, Replaced, tables
  <2>4. \A h \in Hosts : AgentRow(h)' /\ ClientRow(h)'
    BY <1>1, <2>1 DEF AgentRow, ClientRow, HasRead
  <2>5. Readings' = Readings
    BY <2>1 DEF Readings
  <2>6. (\A e \in Readings : Fits(e))' /\ (\A d, e \in Readings : Agree(d, e))'
    BY <1>1, <2>1, <2>5 DEF Fits, Agree
  <2> QED
    BY <2>2, <2>3, <2>4, <2>6 DEF SyncInv
<1> QED
  BY <1>2, <1>3

(* The syncs keep the invariant at all times.                              *)
THEOREM SyncInvariance == SyncSpec => []SyncInv
<1>1. SyncInit => SyncInv
  BY SyncInvInit
<1>2. SyncInv /\ [SyncNext]_syncVars => SyncInv'
  BY SyncInvStep
<1> QED
  BY <1>1, <1>2, PTL DEF SyncSpec

(* The variables of the syncs have their types at all times.               *)
THEOREM SyncTypeCorrect == SyncSpec => []SyncTypeOK
<1>1. SyncInv => SyncTypeOK
  BY DEF SyncInv
<1> QED
  BY <1>1, SyncInvariance, PTL

(* A sync that is answered has come past all it listed.                    *)
LEMMA AnsweredIsPassed == SyncInv => SyncSticks
<1> SUFFICES ASSUME SyncInv, NEW k \in Syncs, syncAt[k] = "ok"
             PROVE  /\ \A i \in 1..Len(agents[k]) :
                         LET h == agents[k][i].host IN
                         h \notin missed[k] =>
                           /\ wazuh[h] # NoSide
                           /\ wazuh[h].by # k => Replaced(k, wazuh[h].by)
                           /\ wazuh[h].by = k /\ IsLast(agents[k], i, EntryHost) =>
                                wazuh[h].id = agents[k][i].id
                    /\ \A i \in 1..Len(clients[k]) :
                         LET h == HostOf[clients[k][i]] IN
                         h # "" /\ h \notin missed[k] =>
                           /\ velo[h] # NoSide
                           /\ velo[h].by # k => Replaced(k, velo[h].by)
                           /\ velo[h].by = k /\ IsLast(clients[k], i, HostOfClient) =>
                                velo[h].id = clients[k][i]
  BY DEF SyncSticks
<1>1. /\ \A i \in 1..Len(agents[k]) : LeavesAgent(k, i)
      /\ \A i \in 1..Len(clients[k]) : LeavesClient(k, i)
  BY DEF SyncInv, Leaves
<1>2. \A i : AgentPassed(k, i) /\ ClientPassed(k, i)
  BY DEF AgentPassed, ClientPassed
<1> QED
  BY <1>1, <1>2 DEF LeavesAgent, LeavesClient, IsLast, EntryHost, HostOfClient

(* A sync that is answered leaves the last entry it read of every host it  *)
(* listed, but where an upsert failed, until a sync that read later or ran *)
(* overlaps it replaces it: for any lists, syncs, failures and changes of  *)
(* the upstreams.                                                          *)
THEOREM AnswersStick == SyncSpec => []SyncSticks
BY SyncInvariance, AnsweredIsPassed, PTL

(* Rows are readings, and those of one agent agree.                        *)
LEMMA RowsAgree == SyncInv => InventoryIsSound
<1> SUFFICES ASSUME SyncInv PROVE InventoryIsSound
  OBVIOUS
<1>1. /\ SyncTypeOK
      /\ \A h \in Hosts : AgentRow(h) /\ ClientRow(h)
      /\ \A e \in Readings : Fits(e)
      /\ \A d, e \in Readings : Agree(d, e)
  BY DEF SyncInv
<1>2. RowsAreReadings
  BY <1>1 DEF RowsAreReadings, AgentRow, ClientRow
<1>3. ASSUME NEW h \in Hosts, wazuh[h] # NoSide
      PROVE  \E e \in Readings : e.id = wazuh[h].id /\ e.host = h /\ e \in AgentEntry
  <2>1. PICK k \in Syncs : k = wazuh[h].by
    BY <1>1, <1>3 DEF SyncTypeOK, AgentSide
  <2>2. PICK i \in 1..Len(agents[k]) :
          agents[k][i] = [id |-> wazuh[h].id, status |-> wazuh[h].status, host |-> h]
    BY <1>1, <1>3, <2>1 DEF AgentRow
  <2>3. PICK e \in AgentEntry : e = agents[k][i]
    BY <1>1, <2>2, EntriesHaveHosts
  <2>4. e \in Readings
    BY <2>3 DEF Readings
  <2> QED
    BY <2>2, <2>3, <2>4
<1>4. ASSUME NEW g \in Hosts, NEW h \in Hosts, g # h, wazuh[g] # NoSide, wazuh[h] # NoSide,
             wazuh[g].id = wazuh[h].id
      PROVE  wazuh[g].id \in renamed
  <2>1. PICK d \in Readings : d.id = wazuh[g].id /\ d.host = g
    BY <1>3, <1>4
  <2>2. PICK e \in Readings : e.id = wazuh[g].id /\ e.host = h
    BY <1>3, <1>4
  <2>3. Fits(d) /\ Fits(e) /\ Agree(d, e) /\ Agree(e, d) /\ d.id = e.id /\ d.host # e.host
    BY <1>1, <1>4, <2>1, <2>2
  <2> QED
    BY <2>1, <2>3 DEF Fits, Agree
<1>5. OneRowPerAgent
  BY <1>4 DEF OneRowPerAgent
<1> QED
  BY <1>2, <1>5 DEF InventoryIsSound

(* The inventory tells of an agent what one sync read of it, and tells it  *)
(* on two rows only if its hostname changed.                               *)
THEOREM InventorySound == SyncSpec => []InventoryIsSound
BY SyncInvariance, RowsAgree, PTL

-----------------------------------------------------------------------------
(***************************************************************************)
(* The pages of health.                                                    *)
(***************************************************************************)

PageEntry == [id : Checked, status : Conditions]

Distinct(list) == \A i, j \in 1..Len(list) : list[i].id = list[j].id => i = j

Sequential == {"checking", "database", "hour", "day"}

(* What a page is made of on its way.                                      *)
UnderWay(k) ==
  /\ page[k] = "asked" => entries[k] = <<>>
  /\ page[k] \in {"asked", "probing"} => Distinct(entries[k])
  /\ page[k] \in {"asked", "probing"} => hour[k] = 0 /\ day[k] = 0
  /\ page[k] = "probing" => KindOf[k] = "probe"
  /\ page[k] \in Sequential =>
       /\ KindOf[k] = "monitor" /\ Len(entries[k]) <= Len(Registry)
       /\ \A i \in 1..Len(entries[k]) : entries[k][i].id = Registry[i]
  /\ page[k] \in {"database", "hour", "day"} => Len(entries[k]) = Len(Registry)
  /\ page[k] \in Pending => \A c \in Checked : condition[c] \in been[k][c]
  /\ page[k] = "day" /\ k \notin gaps => hour[k] <= recent + older

(* Every entry is a state its connector was in.                            *)
Witnessed(k) ==
  \A i \in 1..Len(entries[k]) : entries[k][i].status \in been[k][entries[k][i].id]

(* What a page tells.                                                      *)
Whole(k) ==
  /\ Asked(k) = Checked /\ Len(entries[k]) = Cardinality(Checked)
  /\ KindOf[k] = "probe" =>
       \A i, j \in 1..Len(entries[k]) : i < j => Rank[entries[k][i].id] < Rank[entries[k][j].id]

Told(k) ==
  page[k] = "told" =>
    /\ Whole(k)
    /\ overall[k] \in {"ok", Overall(k)}
    /\ k \notin gaps => hour[k] <= day[k]

PageInv(k) == UnderWay(k) /\ Witnessed(k) /\ Told(k)

PagesInv == HealthTypeOK /\ \A k \in Pages : PageInv(k)

-----------------------------------------------------------------------------
(***************************************************************************)
(* Sorting.                                                                *)
(***************************************************************************)

(* The registry is finite, and has as many connectors as places.           *)
LEMMA RegistryIsFinite ==
  /\ Len(Registry) \in Nat /\ IsFiniteSet(Checked)
  /\ Checked = {Registry[i] : i \in 1..Len(Registry)}
  /\ \A i \in 1..Len(Registry) : Registry[i] \in Checked
<1>1. Registry \in Seq(Checked) /\ Len(Registry) \in Nat
  BY RegistryAssumption
<1>2. Registry \in [1..Len(Registry) -> Checked]
  BY <1>1
<1>3. Registry \in Surjection(1..Len(Registry), Checked)
  BY <1>2 DEF Surjection, Checked
<1>4. IsFiniteSet(1..Len(Registry))
  BY <1>1, FS_Interval
<1> QED
  BY <1>1, <1>2, <1>3, <1>4, FS_Surjection DEF Checked

(* The ids sort, and no two alike.                                         *)
LEMMA RanksDiffer ==
  \A c, d \in Checked : Rank[c] \in Nat /\ (Rank[c] = Rank[d] => c = d)
BY RegistryAssumption

(* A list of as many distinct connectors as there are has all of them.     *)
LEMMA AllAreCounted ==
  ASSUME NEW list \in Seq(PageEntry), Distinct(list),
         {list[i].id : i \in 1..Len(list)} = Checked
  PROVE  Len(list) = Cardinality(Checked)
<1>1. PICK L \in Nat : L = Len(list)
  OBVIOUS
<1>2. PICK f : f = [i \in 1..L |-> list[i].id]
  OBVIOUS
<1>3. f \in [1..L -> Checked] /\ \A i \in 1..L : f[i] = list[i].id
  BY <1>1, <1>2 DEF PageEntry
<1>4. f \in Injection(1..L, Checked)
  BY <1>1, <1>3 DEF Injection, IsInjective, Distinct
<1>5. f \in Surjection(1..L, Checked)
  BY <1>1, <1>3 DEF Surjection
<1>6. IsFiniteSet(1..L) /\ Cardinality(1..L) = L
  BY FS_Interval
<1>7. IsFiniteSet(Checked)
  BY RegistryIsFinite
<1>8. Cardinality(1..L) = Cardinality(Checked)
  BY <1>4, <1>5, <1>7, FS_Injection
<1> QED
  BY <1>1, <1>6, <1>8

(* InOrder gives a list of the same entries, by their ranks.               *)
LEMMA SortKeeps ==
  ASSUME NEW list \in Seq(PageEntry), Distinct(list)
  PROVE  /\ InOrder(list) \in Seq(PageEntry) /\ Len(InOrder(list)) = Len(list)
         /\ \A n \in 1..Len(list) : \E i \in 1..Len(list) : InOrder(list)[n] = list[i]
         /\ \A i \in 1..Len(list) : \E n \in 1..Len(list) : InOrder(list)[n] = list[i]
         /\ \A m, n \in 1..Len(list) :
              m < n => Rank[InOrder(list)[m].id] < Rank[InOrder(list)[n].id]
<1>1. Len(list) \in Nat /\ \A i \in 1..Len(list) : list[i] \in PageEntry
  OBVIOUS
<1>2. \A i \in 1..Len(list) : list[i].id \in Checked
  BY <1>1 DEF PageEntry
<1>3. PICK r : r = [i \in 1..Len(list) |-> Rank[list[i].id]]
  OBVIOUS
<1>4. \A i \in 1..Len(list) : r[i] = Rank[list[i].id]
  BY <1>3
<1>5. r \in [1..Len(list) -> Nat] /\ \A i, j \in 1..Len(list) : r[i] = r[j] => i = j
  BY <1>2, <1>3, <1>4, RanksDiffer DEF Distinct
<1>6. PICK lower : lower = Lower(r, 1..Len(list))
  OBVIOUS
<1>0. IsFiniteSet(1..Len(list)) /\ Cardinality(1..Len(list)) = Len(list)
  <2>1. PICK L \in Nat : L = Len(list)
    BY <1>1
  <2>2. IsFiniteSet(1..L) /\ Cardinality(1..L) = L
    BY FS_Interval
  <2> QED
    BY <2>1, <2>2
<1>7. /\ \A n \in 1..Len(list) : \E i \in 1..Len(list) : Cardinality(lower[i]) = n - 1
      /\ \A i \in 1..Len(list) : /\ Cardinality(lower[i]) \in Nat
                                /\ Cardinality(lower[i]) + 1 \in 1..Len(list)
      /\ \A i, j \in 1..Len(list) : Cardinality(lower[i]) < Cardinality(lower[j]) => r[i] < r[j]
      /\ \A i, j \in 1..Len(list) : Cardinality(lower[i]) = Cardinality(lower[j]) => i = j
  <2>1. PICK P : P = 1..Len(list)
    OBVIOUS
  <2>2. /\ IsFiniteSet(P) /\ Cardinality(P) = Len(list) /\ r \in [P -> Nat] /\ lower = Lower(r, P)
        /\ \A i, j \in P : r[i] = r[j] => i = j
    BY <1>0, <1>5, <1>6, <2>1
  <2>3. /\ \A n \in 1..Cardinality(P) : \E i \in P : Cardinality(Lower(r, P)[i]) = n - 1
        /\ \A i \in P : /\ Cardinality(Lower(r, P)[i]) \in Nat
                        /\ Cardinality(Lower(r, P)[i]) + 1 \in 1..Cardinality(P)
        /\ \A i, j \in P : Cardinality(Lower(r, P)[i]) < Cardinality(Lower(r, P)[j]) => r[i] < r[j]
        /\ \A i, j \in P : Cardinality(Lower(r, P)[i]) = Cardinality(Lower(r, P)[j]) => i = j
    BY <2>2, Places
  <2>4. /\ \A n \in 1..Len(list) : \E i \in P : Cardinality(lower[i]) = n - 1
        /\ \A i \in P : Cardinality(lower[i]) \in Nat /\ Cardinality(lower[i]) + 1 \in 1..Len(list)
        /\ \A i, j \in P : Cardinality(lower[i]) < Cardinality(lower[j]) => r[i] < r[j]
        /\ \A i, j \in P : Cardinality(lower[i]) = Cardinality(lower[j]) => i = j
    BY <2>2, <2>3
  <2> QED
    BY <2>1, <2>4
<1>8. \A i \in 1..Len(list) :
        lower[i] = {j \in 1..Len(list) : Rank[list[j].id] < Rank[list[i].id]}
  BY <1>4, <1>6 DEF Lower
<1>9. PICK pick : pick = [n \in 1..Len(list) |->
             CHOOSE i \in 1..Len(list) :
               Cardinality({j \in 1..Len(list) : Rank[list[j].id] < Rank[list[i].id]}) = n - 1]
  OBVIOUS
<1>10. ASSUME NEW n \in 1..Len(list)
       PROVE  pick[n] \in 1..Len(list) /\ Cardinality(lower[pick[n]]) = n - 1
  <2>1. \E i \in 1..Len(list) :
          Cardinality({j \in 1..Len(list) : Rank[list[j].id] < Rank[list[i].id]}) = n - 1
    BY <1>7, <1>8
  <2>2. /\ pick[n] \in 1..Len(list)
        /\ Cardinality({j \in 1..Len(list) : Rank[list[j].id] < Rank[list[pick[n]].id]}) = n - 1
    BY <1>9, <2>1
  <2> QED
    BY <1>8, <2>2
<1>11. InOrder(list) = [n \in 1..Len(list) |-> list[pick[n]]]
  BY <1>9 DEF InOrder
<1>12. InOrder(list) \in Seq(PageEntry) /\ Len(InOrder(list)) = Len(list)
  BY <1>1, <1>10, <1>11
<1>13. \A n \in 1..Len(list) : InOrder(list)[n] = list[pick[n]]
  BY <1>11
<1>14. ASSUME NEW i \in 1..Len(list) PROVE \E n \in 1..Len(list) : InOrder(list)[n] = list[i]
  <2>1. PICK a \in Nat : a = Cardinality(lower[i]) /\ a + 1 \in 1..Len(list)
    BY <1>7
  <2>n. PICK n \in 1..Len(list) : n = a + 1
    BY <2>1
  <2>m. n - 1 = a
    BY <2>n
  <2>2. Cardinality(lower[pick[n]]) = Cardinality(lower[i])
    BY <1>10, <2>1, <2>m
  <2>3. pick[n] = i
    BY <1>7, <1>10, <2>2
  <2> QED
    BY <1>13, <2>3
<1>15. ASSUME NEW m \in 1..Len(list), NEW n \in 1..Len(list), m < n
       PROVE  Rank[InOrder(list)[m].id] < Rank[InOrder(list)[n].id]
  <2>1. m - 1 < n - 1
    BY <1>15
  <2>2. Cardinality(lower[pick[m]]) < Cardinality(lower[pick[n]])
    BY <1>10, <2>1
  <2>3. r[pick[m]] < r[pick[n]]
    BY <1>7, <1>10, <2>2
  <2> QED
    BY <1>4, <1>10, <1>13, <2>3
<1> QED
  BY <1>10, <1>12, <1>13, <1>14, <1>15

-----------------------------------------------------------------------------
(***************************************************************************)
(* The induction.                                                          *)
(***************************************************************************)

(* The invariant holds at the start.                                       *)
LEMMA PagesInit == HealthInit => PagesInv
<1> SUFFICES ASSUME HealthInit PROVE PagesInv
  OBVIOUS
<1>1. HealthTypeOK
  BY RegistryAssumption DEF HealthInit, HealthTypeOK, Pending
<1>2. ASSUME NEW k \in Pages PROVE PageInv(k)
  <2>1. /\ page[k] = "asked" /\ entries[k] = <<>> /\ Len(entries[k]) = 0
        /\ hour[k] = 0 /\ day[k] = 0
    BY DEF HealthInit
  <2>2. UnderWay(k)
    BY <2>1 DEF UnderWay, Distinct, Sequential, Pending
  <2>3. Witnessed(k)
    BY <2>1 DEF Witnessed
  <2>4. Told(k)
    BY <2>1 DEF Told
  <2> QED
    BY <2>2, <2>3, <2>4 DEF PageInv
<1> QED
  BY <1>1, <1>2 DEF PagesInv

(* A page nothing of which changes, but for what has been seen since and   *)
(* for alerts that come in and age, stays as it is.                        *)
LEMMA PageStays ==
  ASSUME PagesInv, HealthTypeOK', NEW k \in Pages,
         page'[k] = page[k], entries'[k] = entries[k], hour'[k] = hour[k],
         day'[k] = day[k], overall'[k] = overall[k],
         \A c \in Checked : been[k][c] \subseteq been'[k][c],
         page[k] \in Pending => \A c \in Checked : condition'[c] \in been'[k][c],
         recent' + older' >= recent + older,
         k \in gaps => k \in gaps'
  PROVE  PageInv(k)'
<1>1. PageInv(k) /\ HealthTypeOK
  BY DEF PagesInv
<1>2. entries[k] \in Seq(PageEntry)
  BY <1>1 DEF HealthTypeOK, PageEntry
<1>0. \A i \in 1..Len(entries[k]) : entries[k][i] \in PageEntry
  BY <1>2
<1>3. \A i \in 1..Len(entries[k]) : entries[k][i].id \in Checked
  BY <1>0 DEF PageEntry
<1>4. Witnessed(k)'
  BY <1>1, <1>3 DEF PageInv, Witnessed
<1>5. /\ recent \in Nat /\ older \in Nat /\ recent' \in Nat /\ older' \in Nat
      /\ hour[k] \in Nat
  BY <1>1 DEF HealthTypeOK
<1>6. UnderWay(k)'
  <2>1. UnderWay(k)
    BY <1>1 DEF PageInv
  <2>2. page'[k] = "day" /\ k \notin gaps' => hour'[k] <= recent' + older'
    <3>1. page[k] = "day" /\ k \notin gaps => hour[k] <= recent + older
      BY <2>1 DEF UnderWay
    <3>2. hour[k] <= recent + older => hour[k] <= recent' + older'
      BY <1>5
    <3> QED
      BY <3>1, <3>2
  <2>3. page'[k] \in {"asked", "probing"} => Distinct(entries'[k])
    BY <2>1 DEF UnderWay
  <2>4. page'[k] \in Pending => \A c \in Checked : condition'[c] \in been'[k][c]
    OBVIOUS
  <2>5. page'[k] \in Sequential =>
       /\ KindOf[k] = "monitor" /\ Len(entries'[k]) <= Len(Registry)
       /\ \A i \in 1..Len(entries'[k]) : entries'[k][i].id = Registry[i]
    BY <2>1 DEF UnderWay
  <2>6. /\ page'[k] = "asked" => entries'[k] = <<>>
        /\ page'[k] \in {"asked", "probing"} => hour'[k] = 0 /\ day'[k] = 0
        /\ page'[k] = "probing" => KindOf[k] = "probe"
        /\ page'[k] \in {"database", "hour", "day"} => Len(entries'[k]) = Len(Registry)
    BY <2>1 DEF UnderWay
  <2> QED
    BY <2>2, <2>3, <2>4, <2>5, <2>6 DEF UnderWay, Distinct
<1>7. Told(k)'
  BY <1>1 DEF PageInv, Told, Whole, Asked, Overall, Every, Some
<1> QED
  BY <1>4, <1>6, <1>7 DEF PageInv

(* A request asked for, and a page in which something was entered.         *)
LEMMA EntryIsAdded ==
  ASSUME PagesInv, HealthTypeOK', NEW k \in Pages, NEW c \in Checked, AddEntry(k, c),
         \/ page[k] = "probing" /\ c \notin Asked(k)
         \/ page[k] = "checking" /\ Len(entries[k]) < Len(Registry)
              /\ c = Registry[Len(entries[k]) + 1]
  PROVE  PageInv(k)'
<1>1. PageInv(k) /\ HealthTypeOK /\ Len(Registry) \in Nat
  BY RegistryIsFinite DEF PagesInv
<1>2. entries \in [Pages -> Seq(PageEntry)] /\ entries[k] \in Seq(PageEntry) /\ condition[c] \in Conditions
  BY <1>1 DEF HealthTypeOK, PageEntry
<1>a. [id |-> c, status |-> condition[c]] \in PageEntry
  BY <1>2 DEF PageEntry
<1>3. PICK e \in PageEntry : e = [id |-> c, status |-> condition[c]] /\ e.id = c /\ e.status = condition[c]
  BY <1>a
<1>4. PICK L \in Nat : L = Len(entries[k])
  BY <1>2
<1>5. entries'[k] = Append(entries[k], e)
  BY <1>2, <1>3 DEF AddEntry
<1>6. /\ Len(entries'[k]) = L + 1 /\ entries'[k][L + 1] = e
      /\ \A i \in 1..L : entries'[k][i] = entries[k][i]
  BY <1>2, <1>3, <1>4, <1>5
<1>7. \A i \in 1..(L + 1) : i \in 1..L \/ i = L + 1
  BY <1>4
<1>8. page' = page /\ been' = been /\ condition' = condition /\ hour' = hour /\ day' = day
  BY DEF AddEntry
<1>9. page[k] \in Pending /\ page[k] \in {"probing", "checking"}
  BY DEF Pending
<1>10. condition[c] \in been[k][c]
  BY <1>1, <1>9 DEF PageInv, UnderWay
<1>11. Witnessed(k)'
  <2>1. \A i \in 1..L : entries[k][i].status \in been[k][entries[k][i].id]
    BY <1>1, <1>4 DEF PageInv, Witnessed
  <2>2. \A i \in 1..(L + 1) : entries'[k][i].status \in been[k][entries'[k][i].id]
    BY <2>1, <1>3, <1>6, <1>7, <1>10
  <2> QED
    BY <2>2, <1>6, <1>8 DEF Witnessed
<1>12. Told(k)'
  BY <1>8, <1>9 DEF Told
<1>13. CASE page[k] = "probing" /\ c \notin Asked(k)
  <2>1. \A i \in 1..L : entries[k][i].id # c
    BY <1>4, <1>13 DEF Asked
  <2>2. \A i, j \in 1..L : entries[k][i].id = entries[k][j].id => i = j
    BY <1>1, <1>4, <1>13 DEF PageInv, UnderWay, Distinct
  <2>3. \A i, j \in 1..(L + 1) : entries'[k][i].id = entries'[k][j].id => i = j
    BY <2>1, <2>2, <1>3, <1>6, <1>7
  <2>4. UnderWay(k)
    BY <1>1 DEF PageInv
  <2>5. UnderWay(k)'
    BY <2>3, <2>4, <1>6, <1>8, <1>13 DEF UnderWay, Distinct, Sequential, Pending
  <2> QED
    BY <2>5, <1>11, <1>12 DEF PageInv
<1>14. CASE page[k] = "checking" /\ L < Len(Registry) /\ c = Registry[L + 1]
  <2>1. UnderWay(k)
    BY <1>1 DEF PageInv
  <2>2. KindOf[k] = "monitor" /\ \A i \in 1..L : entries[k][i].id = Registry[i]
    BY <2>1, <1>4, <1>14 DEF UnderWay, Sequential
  <2>3. \A i \in 1..(L + 1) : entries'[k][i].id = Registry[i]
    BY <2>2, <1>3, <1>6, <1>7, <1>14
  <2>4. L + 1 <= Len(Registry)
    BY <1>1, <1>4, <1>14
  <2>5. \A d \in Checked : condition'[d] \in been'[k][d]
    BY <2>1, <1>8, <1>9 DEF UnderWay
  <2>6. UnderWay(k)'
    BY <2>2, <2>3, <2>4, <2>5, <1>6, <1>8, <1>14 DEF UnderWay, Sequential
  <2> QED
    BY <2>6, <1>11, <1>12 DEF PageInv
<1> QED
  BY <1>4, <1>13, <1>14

(* The answer of a page all connectors are on is whole.                    *)
LEMMA ProbeIsWhole ==
  ASSUME PagesInv, HealthTypeOK', NEW k \in Pages, ProbeEnds(k)
  PROVE  PageInv(k)'
<1>1. PageInv(k) /\ HealthTypeOK
  BY DEF PagesInv
<1>2. page[k] = "probing" /\ Asked(k) = Checked
  BY DEF ProbeEnds
<1>3. entries \in [Pages -> Seq(PageEntry)] /\ page \in [Pages -> Pending \cup {"asked", "told"}]
      /\ overall \in [Pages -> {"none", "ok", "healthy", "degraded", "unhealthy"}]
  BY <1>1 DEF HealthTypeOK, PageEntry
<1>4. PICK list \in Seq(PageEntry) : list = entries[k]
  BY <1>3
<1>5. PICK sorted : sorted = InOrder(list)
  OBVIOUS
<1>6. entries'[k] = sorted /\ page'[k] = "told" /\ overall'[k] = "ok" /\ been' = been
      /\ gaps' = gaps /\ hour' = hour /\ day' = day
  BY <1>3, <1>4, <1>5 DEF ProbeEnds, Turn
<1>7. Distinct(list)
  BY <1>1, <1>2, <1>4 DEF PageInv, UnderWay
<1>8. /\ sorted \in Seq(PageEntry) /\ Len(sorted) = Len(list)
      /\ \A n \in 1..Len(list) : \E i \in 1..Len(list) : sorted[n] = list[i]
      /\ \A i \in 1..Len(list) : \E n \in 1..Len(list) : sorted[n] = list[i]
      /\ \A m, n \in 1..Len(list) : m < n => Rank[sorted[m].id] < Rank[sorted[n].id]
  BY <1>5, <1>7, SortKeeps
<1>9. {list[i].id : i \in 1..Len(list)} = Checked
  BY <1>2, <1>4 DEF Asked
<1>10. Len(list) = Cardinality(Checked)
  BY <1>7, <1>9, AllAreCounted
<1>11. {sorted[n].id : n \in 1..Len(list)} = Checked
  <2>1. \A n \in 1..Len(list) : \E i \in 1..Len(list) : sorted[n].id = list[i].id
    BY <1>8
  <2>2. \A i \in 1..Len(list) : \E n \in 1..Len(list) : sorted[n].id = list[i].id
    BY <1>8
  <2>3. \A c \in {list[i].id : i \in 1..Len(list)} : c \in {sorted[n].id : n \in 1..Len(list)}
    BY <2>2
  <2>4. \A c \in {sorted[n].id : n \in 1..Len(list)} : c \in {list[i].id : i \in 1..Len(list)}
    BY <2>1
  <2> QED
    BY <2>3, <2>4, <1>9
<1>12. Whole(k)'
  BY <1>6, <1>8, <1>10, <1>11 DEF Whole, Asked
<1>13. Witnessed(k)'
  <2>1. \A i \in 1..Len(list) : list[i].status \in been[k][list[i].id]
    BY <1>1, <1>4 DEF PageInv, Witnessed
  <2>2. \A n \in 1..Len(list) : sorted[n].status \in been[k][sorted[n].id]
    BY <2>1, <1>8
  <2> QED
    BY <2>2, <1>6, <1>8 DEF Witnessed
<1>14. UnderWay(k)'
  BY <1>6 DEF UnderWay, Sequential, Pending
<1>15. hour'[k] <= day'[k]
  BY <1>1, <1>2, <1>6 DEF PageInv, UnderWay
<1> QED
  BY <1>12, <1>13, <1>14, <1>15, <1>6 DEF PageInv, Told

(* Entering a state keeps the types.                                       *)
LEMMA EntryTyped ==
  ASSUME HealthTypeOK, NEW k \in Pages, NEW c \in Checked, AddEntry(k, c)
  PROVE  HealthTypeOK'
<1>1. condition[c] \in Conditions /\ entries \in [Pages -> Seq(PageEntry)]
  BY DEF HealthTypeOK, PageEntry
<1>2. [id |-> c, status |-> condition[c]] \in PageEntry
  BY <1>1 DEF PageEntry
<1>3. Append(entries[k], [id |-> c, status |-> condition[c]]) \in Seq(PageEntry)
  BY <1>1, <1>2
<1>4. entries' \in [Pages -> Seq(PageEntry)]
  BY <1>1, <1>3 DEF AddEntry
<1> QED
  BY <1>4 DEF HealthTypeOK, AddEntry, alertTable, PageEntry

(* Every step keeps the types.                                             *)
LEMMA PagesTypesKept ==
  ASSUME PagesInv, HealthNext
  PROVE  HealthTypeOK'
<1>1. HealthTypeOK
  BY DEF PagesInv
<1>2. /\ page \in [Pages -> Pending \cup {"asked", "told"}]
      /\ entries \in [Pages -> Seq(PageEntry)]
      /\ hour \in [Pages -> 0..MaxAlerts] /\ day \in [Pages -> 0..MaxAlerts]
      /\ overall \in [Pages -> {"none", "ok", "healthy", "degraded", "unhealthy"}]
      /\ condition \in [Checked -> Conditions]
      /\ weather \in 0..MaxWeather /\ misses \in 0..MaxMisses
      /\ recent \in Nat /\ older \in Nat /\ recent + older <= MaxAlerts
      /\ been \in [Pages -> [Checked -> SUBSET Conditions]] /\ gaps \in SUBSET Pages
      /\ MaxWeather \in Nat /\ MaxAlerts \in Nat /\ MaxMisses \in Nat
  BY <1>1, RegistryAssumption DEF HealthTypeOK, PageEntry
<1>3. ASSUME NEW c \in Checked, ConnectorChanges(c) PROVE HealthTypeOK'
  <2>1. PICK s \in Conditions \ {condition[c]} :
          /\ condition' = [condition EXCEPT ![c] = s]
          /\ been' = [k \in Pages |-> IF page[k] \in Pending
                                      THEN [been[k] EXCEPT ![c] = @ \cup {s}] ELSE been[k]]
    BY <1>3 DEF ConnectorChanges
  <2>2. condition' \in [Checked -> Conditions]
    BY <2>1, <1>2
  <2>3. \A k \in Pages : [been[k] EXCEPT ![c] = @ \cup {s}] \in [Checked -> SUBSET Conditions]
    BY <2>1, <1>2
  <2>4. been' \in [Pages -> [Checked -> SUBSET Conditions]]
    BY <2>1, <2>3, <1>2
  <2>5. weather' \in 0..MaxWeather
    BY <1>2, <1>3 DEF ConnectorChanges
  <2> QED
    BY <2>2, <2>4, <2>5, <1>1, <1>3 DEF HealthTypeOK, ConnectorChanges, answer, alertTable
<1>4. ASSUME AlertComes PROVE HealthTypeOK'
  <2>1. recent' \in Nat /\ older' \in Nat /\ recent' + older' <= MaxAlerts
    BY <1>2, <1>4 DEF AlertComes
  <2> QED
    BY <2>1, <1>1, <1>4 DEF HealthTypeOK, AlertComes, answer
<1>5. ASSUME AlertAges PROVE HealthTypeOK'
  <2>1. recent' \in Nat /\ older' \in Nat /\ recent' + older' <= MaxAlerts
    BY <1>2, <1>5 DEF AlertAges
  <2> QED
    BY <2>1, <1>1, <1>5 DEF HealthTypeOK, AlertAges, answer
<1>6. ASSUME NEW k \in Pages, Open(k) PROVE HealthTypeOK'
  <2>1. page' \in [Pages -> Pending \cup {"asked", "told"}]
    BY <1>2, <1>6 DEF Open, Turn, Pending
  <2>2. [c \in Checked |-> {condition[c]}] \in [Checked -> SUBSET Conditions]
    BY <1>2
  <2>3. been' \in [Pages -> [Checked -> SUBSET Conditions]]
    BY <2>2, <1>2, <1>6 DEF Open
  <2> QED
    BY <2>1, <2>3, <1>1, <1>6 DEF HealthTypeOK, Open, answer, alertTable
<1>7. ASSUME NEW k \in Pages, NEW c \in Checked, ProbeAnswers(k, c) PROVE HealthTypeOK'
  BY <1>1, <1>7, EntryTyped DEF ProbeAnswers
<1>8. ASSUME NEW k \in Pages, ProbeEnds(k) PROVE HealthTypeOK'
  <2>1. entries[k] \in Seq(PageEntry) /\ Distinct(entries[k])
    BY <1>2, <1>8 DEF PagesInv, PageInv, UnderWay, ProbeEnds
  <2>2. InOrder(entries[k]) \in Seq(PageEntry)
    BY <2>1, SortKeeps
  <2>3. entries' \in [Pages -> Seq(PageEntry)]
    BY <2>2, <1>2, <1>8 DEF ProbeEnds
  <2>4. /\ page' \in [Pages -> Pending \cup {"asked", "told"}]
        /\ overall' \in [Pages -> {"none", "ok", "healthy", "degraded", "unhealthy"}]
    BY <1>2, <1>8 DEF ProbeEnds, Turn
  <2> QED
    BY <2>3, <2>4, <1>1, <1>8 DEF HealthTypeOK, PageEntry, ProbeEnds, alertTable
<1>9. ASSUME NEW k \in Pages, CheckNext(k) PROVE HealthTypeOK'
  <2>1. entries[k] \in Seq(PageEntry)
    BY <1>2
  <2>2. Len(entries[k]) + 1 \in 1..Len(Registry)
    BY <2>1, <1>9, RegistryIsFinite DEF CheckNext
  <2>3. Registry[Len(entries[k]) + 1] \in Checked
    BY <2>2, RegistryIsFinite
  <2> QED
    BY <2>3, <1>1, <1>9, EntryTyped DEF CheckNext
<1>10. ASSUME NEW k \in Pages, ChecksDone(k) \/ CheckDatabase(k) PROVE HealthTypeOK'
  <2>1. page' \in [Pages -> Pending \cup {"asked", "told"}]
    BY <1>2, <1>10 DEF ChecksDone, CheckDatabase, Turn, Pending
  <2>2. UNCHANGED <<answer, condition, weather, alertTable, misses, been, gaps>>
    BY <1>10 DEF ChecksDone, CheckDatabase
  <2> QED
    BY <2>1, <2>2, <1>1 DEF HealthTypeOK, answer, alertTable
<1>11. ASSUME NEW k \in Pages, CountHour(k) PROVE HealthTypeOK'
  <2>1. recent \in 0..MaxAlerts /\ 0 \in 0..MaxAlerts
    BY <1>2
  <2>2. hour' \in [Pages -> 0..MaxAlerts]
    BY <2>1, <1>2, <1>11 DEF CountHour, Count, InHour
  <2>3. misses' \in 0..MaxMisses /\ gaps' \in SUBSET Pages
    BY <1>2, <1>11 DEF CountHour, Count
  <2>4. page' \in [Pages -> Pending \cup {"asked", "told"}]
    BY <1>2, <1>11 DEF CountHour, Turn, Pending
  <2> QED
    BY <2>2, <2>3, <2>4, <1>1, <1>11 DEF HealthTypeOK, CountHour, alertTable
<1>12. ASSUME NEW k \in Pages, CountDay(k) PROVE HealthTypeOK'
  <2>1. recent + older \in 0..MaxAlerts /\ 0 \in 0..MaxAlerts
    BY <1>2
  <2>2. day' \in [Pages -> 0..MaxAlerts]
    BY <2>1, <1>2, <1>12 DEF CountDay, Count, InDay
  <2>3. misses' \in 0..MaxMisses /\ gaps' \in SUBSET Pages
    BY <1>2, <1>12 DEF CountDay, Count
  <2>4. Overall(k) \in {"none", "ok", "healthy", "degraded", "unhealthy"}
    BY DEF Overall
  <2>5. /\ page' \in [Pages -> Pending \cup {"asked", "told"}]
        /\ overall' \in [Pages -> {"none", "ok", "healthy", "degraded", "unhealthy"}]
    BY <2>4, <1>2, <1>12 DEF CountDay, Turn
  <2> QED
    BY <2>2, <2>3, <2>5, <1>1, <1>12 DEF HealthTypeOK, CountDay, alertTable
<1> QED
  BY <1>3, <1>4, <1>5, <1>6, <1>7, <1>8, <1>9, <1>10, <1>11, <1>12 DEF HealthNext

(* A request that is taken up.                                             *)
LEMMA PageOpens ==
  ASSUME PagesInv, NEW k \in Pages, Open(k)
  PROVE  PageInv(k)'
<1>1. PageInv(k) /\ HealthTypeOK
  BY DEF PagesInv
<1>2. page \in [Pages -> Pending \cup {"asked", "told"}] /\ KindOf \in [Pages -> {"probe", "monitor"}]
      /\ been \in [Pages -> [Checked -> SUBSET Conditions]] /\ Len(Registry) \in Nat
  BY <1>1, RegistryAssumption DEF HealthTypeOK
<1>3. page[k] = "asked" /\ entries' = entries /\ hour' = hour /\ day' = day /\ condition' = condition
  BY DEF Open, answer
<1>4. \/ page'[k] = "probing" /\ KindOf[k] = "probe"
      \/ page'[k] = "checking" /\ KindOf[k] = "monitor"
  <2>1. page'[k] = IF KindOf[k] = "probe" THEN "probing" ELSE "checking"
    BY <1>2 DEF Open, Turn
  <2>2. KindOf[k] \in {"probe", "monitor"}
    BY <1>2
  <2> QED
    BY <2>1, <2>2
<1>5. been'[k] = [c \in Checked |-> {condition[c]}]
  BY <1>2 DEF Open
<1>6. entries'[k] = <<>> /\ Len(entries'[k]) = 0 /\ hour'[k] = 0 /\ day'[k] = 0
  BY <1>1, <1>3 DEF PageInv, UnderWay
<1>7. \A c \in Checked : condition'[c] \in been'[k][c]
  BY <1>3, <1>5
<1>8. UnderWay(k)'
  BY <1>2, <1>4, <1>6, <1>7 DEF UnderWay, Distinct, Sequential
<1>9. Witnessed(k)'
  BY <1>6 DEF Witnessed
<1>10. Told(k)'
  BY <1>4 DEF Told
<1> QED
  BY <1>8, <1>9, <1>10 DEF PageInv

(* A page whose checks are done, on to the counts.                         *)
LEMMA PageGoesOn ==
  ASSUME PagesInv, NEW k \in Pages, ChecksDone(k) \/ CheckDatabase(k)
  PROVE  PageInv(k)'
<1>1. PageInv(k) /\ page \in [Pages -> Pending \cup {"asked", "told"}]
  BY DEF PagesInv, HealthTypeOK
<1>2. UNCHANGED <<answer, condition, weather, alertTable, misses, been, gaps>>
  BY DEF ChecksDone, CheckDatabase
<1>3. \/ page[k] = "checking" /\ page'[k] = "database" /\ Len(entries[k]) = Len(Registry)
      \/ page[k] = "database" /\ page'[k] = "hour"
  BY <1>1 DEF ChecksDone, CheckDatabase, Turn
<1>4. UnderWay(k)'
  BY <1>1, <1>2, <1>3 DEF PageInv, UnderWay, Sequential, Pending, Distinct, answer
<1>5. Witnessed(k)'
  BY <1>1, <1>2 DEF PageInv, Witnessed, answer
<1>6. Told(k)'
  BY <1>3 DEF Told
<1> QED
  BY <1>4, <1>5, <1>6 DEF PageInv

(* The alerts of the last hour are some of those of the last day.          *)
LEMMA HourIsCounted ==
  ASSUME PagesInv, NEW k \in Pages, CountHour(k)
  PROVE  PageInv(k)'
<1>1. PageInv(k) /\ HealthTypeOK /\ page \in [Pages -> Pending \cup {"asked", "told"}]
      /\ hour \in [Pages -> 0..MaxAlerts] /\ recent \in Nat /\ older \in Nat
  BY DEF PagesInv, HealthTypeOK
<1>2. /\ page[k] = "hour" /\ page'[k] = "day" /\ entries' = entries /\ been' = been
      /\ condition' = condition /\ recent' = recent /\ older' = older
  BY <1>1 DEF CountHour, Turn, alertTable
<1>3. hour'[k] \in {recent, 0}
  BY <1>1 DEF CountHour, Count, InHour
<1>4. hour'[k] <= recent' + older'
  BY <1>1, <1>2, <1>3
<1>5. UnderWay(k)'
  BY <1>1, <1>2, <1>4 DEF PageInv, UnderWay, Sequential, Pending, Distinct
<1>6. Witnessed(k)'
  BY <1>1, <1>2 DEF PageInv, Witnessed
<1>7. Told(k)'
  BY <1>2 DEF Told
<1> QED
  BY <1>5, <1>6, <1>7 DEF PageInv

(* The registry has been gone through from its first to its last.          *)
LEMMA DayIsCounted ==
  ASSUME PagesInv, NEW k \in Pages, CountDay(k)
  PROVE  PageInv(k)'
<1>1. /\ PageInv(k) /\ HealthTypeOK /\ page \in [Pages -> Pending \cup {"asked", "told"}]
      /\ day \in [Pages -> 0..MaxAlerts] /\ recent \in Nat /\ older \in Nat
      /\ overall \in [Pages -> {"none", "ok", "healthy", "degraded", "unhealthy"}]
  BY DEF PagesInv, HealthTypeOK
<1>2. /\ page[k] = "day" /\ page'[k] = "told" /\ entries' = entries /\ been' = been
      /\ hour' = hour /\ overall'[k] = Overall(k)
  BY <1>1 DEF CountDay, Turn
<1>3. /\ KindOf[k] = "monitor" /\ Len(entries[k]) = Len(Registry)
      /\ \A i \in 1..Len(entries[k]) : entries[k][i].id = Registry[i]
      /\ k \notin gaps => hour[k] <= recent + older
  BY <1>1, <1>2 DEF PageInv, UnderWay, Sequential
<1>4. Whole(k)'
  <2>1. Asked(k)' = Checked
    BY <1>2, <1>3 DEF Asked, Checked
  <2>2. Len(entries'[k]) = Cardinality(Checked)
    BY <1>2, <1>3, RegistryAssumption
  <2> QED
    BY <2>1, <2>2, <1>3 DEF Whole
<1>5. Overall(k)' = Overall(k)
  BY <1>2 DEF Overall, Every, Some
<1>6. k \notin gaps' => hour'[k] <= day'[k]
  <2>1. k \notin gaps' => day'[k] = recent + older /\ k \notin gaps
    BY <1>1 DEF CountDay, Count, InDay
  <2> QED
    BY <2>1, <1>2, <1>3
<1>7. UnderWay(k)'
  BY <1>2 DEF UnderWay, Sequential, Pending
<1>8. Witnessed(k)'
  BY <1>1, <1>2 DEF PageInv, Witnessed
<1> QED
  BY <1>2, <1>4, <1>5, <1>6, <1>7, <1>8 DEF PageInv, Told

(* Every step keeps the invariant: it moves one page, or what is seen.     *)
LEMMA PagesStep == PagesInv /\ [HealthNext]_healthVars => PagesInv'
<1> SUFFICES ASSUME PagesInv, [HealthNext]_healthVars PROVE PagesInv'
  OBVIOUS
<1>1. HealthTypeOK /\ recent \in Nat /\ older \in Nat
      /\ page \in [Pages -> Pending \cup {"asked", "told"}] /\ entries \in [Pages -> Seq(PageEntry)]
      /\ hour \in [Pages -> 0..MaxAlerts] /\ day \in [Pages -> 0..MaxAlerts]
      /\ overall \in [Pages -> {"none", "ok", "healthy", "degraded", "unhealthy"}]
      /\ condition \in [Checked -> Conditions]
      /\ been \in [Pages -> [Checked -> SUBSET Conditions]]
      /\ \A j \in Pages : PageInv(j)
  BY DEF PagesInv, HealthTypeOK, PageEntry
<1>2. \A j \in Pages : page[j] \in Pending => \A c \in Checked : condition[c] \in been[j][c]
  BY <1>1 DEF PageInv, UnderWay
<1>3. CASE HealthNext
  <2>1. HealthTypeOK'
    BY <1>3, PagesTypesKept
  <2>2. ASSUME NEW c \in Checked, ConnectorChanges(c), NEW j \in Pages PROVE PageInv(j)'
    <3>1. PICK s \in Conditions :
            /\ condition' = [condition EXCEPT ![c] = s]
            /\ been' = [k \in Pages |-> IF page[k] \in Pending
                                        THEN [been[k] EXCEPT ![c] = @ \cup {s}] ELSE been[k]]
      BY <2>2 DEF ConnectorChanges
    <3>2. been'[j] = IF page[j] \in Pending THEN [been[j] EXCEPT ![c] = @ \cup {s}] ELSE been[j]
      BY <3>1
    <3>3. \A d \in Checked : been[j][d] \subseteq been'[j][d]
      BY <3>2, <1>1
    <3>4. page[j] \in Pending => \A d \in Checked : condition'[d] \in been'[j][d]
      BY <3>1, <3>2, <1>1, <1>2
    <3>5. UNCHANGED <<page, answer, alertTable, misses, gaps>>
      BY <2>2 DEF ConnectorChanges
    <3>6. recent' + older' >= recent + older
      BY <3>5, <1>1 DEF alertTable
    <3> QED
      BY <3>3, <3>4, <3>5, <3>6, <2>1, <1>1, PageStays DEF answer, alertTable
  <2>3. ASSUME AlertComes \/ AlertAges, NEW j \in Pages PROVE PageInv(j)'
    <3>1. recent' + older' >= recent + older
      BY <1>1, <2>3 DEF AlertComes, AlertAges
    <3>2. UNCHANGED <<page, answer, condition, been, gaps>>
      BY <2>3 DEF AlertComes, AlertAges
    <3> QED
      BY <3>1, <3>2, <2>1, <1>1, <1>2, PageStays DEF answer
  <2>4. ASSUME NEW k \in Pages, NEW j \in Pages, j # k,
               \/ Open(k) \/ ChecksDone(k) \/ CheckDatabase(k)
               \/ CountHour(k) \/ CountDay(k) \/ ProbeEnds(k)
               \/ \E c \in Checked : AddEntry(k, c)
        PROVE  PageInv(j)'
    <3>1. /\ page'[j] = page[j] /\ entries'[j] = entries[j] /\ hour'[j] = hour[j]
          /\ day'[j] = day[j] /\ overall'[j] = overall[j] /\ been'[j] = been[j]
          /\ condition' = condition /\ recent' = recent /\ older' = older
          /\ j \in gaps => j \in gaps'
      <4>1. CASE Open(k)
        BY <4>1, <2>4, <1>1 DEF Open, Turn, answer, alertTable
      <4>2. CASE ChecksDone(k) \/ CheckDatabase(k)
        BY <4>2, <2>4, <1>1 DEF ChecksDone, CheckDatabase, Turn, answer, alertTable
      <4>3. CASE CountHour(k)
        BY <4>3, <2>4, <1>1 DEF CountHour, Count, Turn, alertTable
      <4>4. CASE CountDay(k)
        BY <4>4, <2>4, <1>1 DEF CountDay, Count, Turn, alertTable
      <4>5. CASE ProbeEnds(k)
        BY <4>5, <2>4, <1>1 DEF ProbeEnds, Turn, alertTable
      <4>6. CASE \E c \in Checked : AddEntry(k, c)
        BY <4>6, <2>4, <1>1 DEF AddEntry, alertTable
      <4> QED
        BY <4>1, <4>2, <4>3, <4>4, <4>5, <4>6, <2>4
    <3>2. recent' + older' >= recent + older
      BY <3>1, <1>1
    <3> QED
      BY <3>1, <3>2, <2>1, <1>1, <1>2, PageStays
  <2>5. ASSUME NEW k \in Pages, NEW c \in Checked, ProbeAnswers(k, c) PROVE PageInv(k)'
    BY <2>5, <2>1, EntryIsAdded DEF ProbeAnswers
  <2>6. ASSUME NEW k \in Pages, CheckNext(k)
        PROVE  \E c \in Checked : AddEntry(k, c) /\ PageInv(k)'
    <3>1. entries[k] \in Seq(PageEntry)
      BY <1>1
    <3>2. Len(entries[k]) + 1 \in 1..Len(Registry)
      BY <3>1, <2>6, RegistryIsFinite DEF CheckNext
    <3>3. PICK c \in Checked : c = Registry[Len(entries[k]) + 1]
      BY <3>2, RegistryIsFinite
    <3>4. AddEntry(k, c) /\ page[k] = "checking" /\ Len(entries[k]) < Len(Registry)
      BY <3>3, <2>6 DEF CheckNext
    <3>5. PageInv(k)'
      BY <3>3, <3>4, <2>1, EntryIsAdded
    <3> QED
      BY <3>4, <3>5
  <2>7. ASSUME NEW k \in Pages,
               \/ Open(k) \/ (\E c \in Checked : ProbeAnswers(k, c)) \/ ProbeEnds(k)
               \/ CheckNext(k) \/ ChecksDone(k) \/ CheckDatabase(k) \/ CountHour(k) \/ CountDay(k)
        PROVE  \A j \in Pages : PageInv(j)'
    <3>1. PageInv(k)'
      BY <2>1, <2>5, <2>6, <2>7, PageOpens, ProbeIsWhole, PageGoesOn, HourIsCounted, DayIsCounted
    <3>2. \/ Open(k) \/ ChecksDone(k) \/ CheckDatabase(k)
          \/ CountHour(k) \/ CountDay(k) \/ ProbeEnds(k)
          \/ \E c \in Checked : AddEntry(k, c)
      BY <2>6, <2>7 DEF ProbeAnswers
    <3>3. \A j \in Pages : j # k => PageInv(j)'
      BY <3>2, <2>4
    <3> QED
      BY <3>1, <3>3
  <2>8. \A j \in Pages : PageInv(j)'
    BY <1>3, <2>2, <2>3, <2>7 DEF HealthNext
  <2> QED
    BY <2>1, <2>8 DEF PagesInv
<1>4. CASE UNCHANGED healthVars
  <2>1. HealthTypeOK'
    BY <1>1, <1>4 DEF HealthTypeOK, healthVars, answer, alertTable
  <2>2. ASSUME NEW j \in Pages PROVE PageInv(j)'
    <3>1. recent' + older' >= recent + older
      BY <1>1, <1>4 DEF healthVars, alertTable
    <3> QED
      BY <3>1, <2>1, <1>1, <1>2, <1>4, PageStays DEF healthVars, answer, alertTable
  <2> QED
    BY <2>1, <2>2 DEF PagesInv
<1> QED
  BY <1>3, <1>4

-----------------------------------------------------------------------------
(***************************************************************************)
(* The theorems.                                                           *)
(***************************************************************************)

(* The pages of health keep the invariant at all times.                    *)
THEOREM PagesInvariance == HealthSpec => []PagesInv
<1>1. HealthInit => PagesInv
  BY PagesInit
<1>2. PagesInv /\ [HealthNext]_healthVars => PagesInv'
  BY PagesStep
<1> QED
  BY <1>1, <1>2, PTL DEF HealthSpec

(* The variables of the pages of health have their types at all times.     *)
THEOREM PagesTypeCorrect == HealthSpec => []HealthTypeOK
<1>1. PagesInv => HealthTypeOK
  BY DEF PagesInv
<1> QED
  BY <1>1, PagesInvariance, PTL

(* What the invariant says of a page that is told.                         *)
LEMMA ToldIsSeen == PagesInv => HealthIsTold
<1> SUFFICES ASSUME PagesInv PROVE HealthIsTold
  OBVIOUS
<1>1. HealthIsWhole
  BY DEF PagesInv, PageInv, Told, Whole, Witnessed, HealthIsWhole
<1>2. HourWithinDay
  BY DEF PagesInv, PageInv, Told, HourWithinDay
<1>3. ASSUME NEW k \in Pages, page[k] = "told"
      PROVE  /\ overall[k] = "healthy" => \A c \in Checked : "healthy" \in been[k][c]
             /\ overall[k] \in {"unhealthy", "degraded"} =>
                  \E c \in Checked : been[k][c] # {"healthy"}
  <2>1. /\ Asked(k) = Checked /\ overall[k] \in {"ok", Overall(k)}
        /\ \A i \in 1..Len(entries[k]) : entries[k][i].status \in been[k][entries[k][i].id]
    BY <1>3 DEF PagesInv, PageInv, Told, Whole, Witnessed
  <2>2. entries[k] \in Seq(PageEntry)
    BY DEF PagesInv, HealthTypeOK, PageEntry
  <2>3. \A i \in 1..Len(entries[k]) : entries[k][i] \in PageEntry
    BY <2>2
  <2>4. \A i \in 1..Len(entries[k]) :
          entries[k][i].id \in Checked /\ entries[k][i].status \in Conditions
    BY <2>3 DEF PageEntry
  <2>5. ASSUME overall[k] = "healthy", NEW c \in Checked PROVE "healthy" \in been[k][c]
    <3>1. Every(k, "healthy")
      BY <2>1, <2>5 DEF Overall
    <3>2. PICK i \in 1..Len(entries[k]) : entries[k][i].id = c
      BY <2>1 DEF Asked
    <3> QED
      BY <2>1, <3>1, <3>2 DEF Every
  <2>6. ASSUME overall[k] \in {"unhealthy", "degraded"}
        PROVE  \E c \in Checked : been[k][c] # {"healthy"}
    <3>1. ~Every(k, "healthy")
      BY <2>1, <2>6 DEF Overall
    <3>2. PICK i \in 1..Len(entries[k]) : entries[k][i].status # "healthy"
      BY <3>1 DEF Every
    <3> QED
      BY <2>1, <2>4, <3>2
  <2> QED
    BY <2>5, <2>6
<1> QED
  BY <1>1, <1>2, <1>3 DEF HealthIsTold, OverallIsSeen

(* A page of health is whole, its overall state is one that was seen, and  *)
(* its counts of alerts agree, however the checks end and whatever changes *)
(* meanwhile.                                                              *)
THEOREM Tells == HealthSpec => []HealthIsTold
BY PagesInvariance, ToldIsSeen, PTL
-----------------------------------------------------------------------------
(***************************************************************************)
(* The five services in one process.                                       *)
(***************************************************************************)

(* A step of the process is a step of each service or leaves it alone.     *)
LEMMA EachMovesAlone ==
  ASSUME [ServicesNext]_servicesVars
  PROVE  /\ [Next]_vars /\ [SyncNext]_syncVars /\ [AutoNext]_autoVars
         /\ [SessionNext]_sessionVars /\ [HealthNext]_healthVars
BY DEF ServicesNext, servicesVars, IntelMoves, SyncMoves, AutoMoves, SessionMoves, HealthMoves

(* What is proved of a service by itself holds of it in the process.       *)
THEOREM Composition ==
  ServicesSpec => Spec /\ SyncSpec /\ AutoSpec /\ SessionSpec /\ HealthSpec
<1>1. ServicesInit => Init /\ SyncInit /\ AutoInit /\ SessionInit /\ HealthInit
  BY DEF ServicesInit
<1> QED
  BY <1>1, EachMovesAlone, PTL
  DEF ServicesSpec, Spec, SyncSpec, AutoSpec, SessionSpec, HealthSpec

(* Every service is always in a state of its type, whatever the others do. *)
THEOREM ServicesTypeCorrect == ServicesSpec => []ServicesTypeOK
<1>1. TypeOK /\ SyncTypeOK /\ AutoTypeOK /\ SessionTypeOK /\ HealthTypeOK => ServicesTypeOK
  BY DEF ServicesTypeOK
<1> QED
  BY <1>1, Composition, IntelTypeCorrect, SyncTypeCorrect, AutoTypeCorrect, SessionTypeCorrect,
     PagesTypeCorrect, PTL

(* What each service promises, it keeps beside the others: of lookups,     *)
(* batches and triage, of the inventory, of updates and deliveries, of     *)
(* sessions and of the pages of health.                                    *)
THEOREM ServicesKeep ==
  ServicesSpec => [](/\ ResultsAreSound /\ FetchedIsKept /\ BatchIsComplete /\ TriageIsSound
                     /\ SyncSticks /\ InventoryIsSound
                     /\ UpdatesStick /\ LogTellsDeliveries /\ SwitchedOffIsQuiet
                     /\ GrantsAreEarned /\ LoggedOutStays /\ LoginsAreAudited
                     /\ HealthIsTold)
BY Composition, Results, Kept, Batches, Triage, AnswersStick, InventorySound, Sticks, LogTells,
   Quiet, Earned, StaysLoggedOut, Audited, Tells, PTL
=============================================================================
