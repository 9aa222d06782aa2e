------------------------------- MODULE Agents -------------------------------
(***************************************************************************)
(* The inventory of agents: sync_agents_handler (routes/agents.rs) reads   *)
(* the agents of Wazuh (connectors/wazuh.rs), then the clients of          *)
(* Velociraptor, and upserts a row of unified_agents per hostname.         *)
(*                                                                         *)
(*    idle -> clients -> agents ... -> hosts ... -> ok                     *)
(*    (failed: 502 or 503 is answered; gone: client or process lost)       *)
(*                                                                         *)
(* Every upsert commits on its own and both upstreams change at any time.  *)
(* Of the columns those a sync can confuse are kept: which agent the       *)
(* wazuh_ columns are about, its status, and which client the velo_        *)
(* columns are about.                                                      *)
(***************************************************************************)
EXTENDS Integers, Sequences, FiniteSets

CONSTANTS
  Hosts,       \* hostnames
  Agents,      \* Wazuh agents, in the order in which Wazuh lists them
  Clients,     \* Velociraptor clients, in the order of its list
  NameOf,      \* NameOf[a]: the name agent a was registered under
  UnameOf,     \* UnameOf[a]: the hostname it reports once it has connected
  HostOf,      \* HostOf[c]: the hostname of client c, or ""
  Syncs,       \* calls of the handler
  MaxChanges,  \* bound: changes of the upstreams
  MaxSyncFaults  \* bound: upserts that fail

AgentIds  == {Agents[i] : i \in 1..Len(Agents)}
ClientIds == {Clients[i] : i \in 1..Len(Clients)}
Statuses  == {"never_connected", "active", "disconnected"}

ASSUME InventoryAssumption ==
  /\ Agents \in Seq(AgentIds) /\ Clients \in Seq(ClientIds)
  /\ NameOf \in [AgentIds -> Hosts] /\ UnameOf \in [AgentIds -> Hosts]
  /\ HostOf \in [ClientIds -> Hosts \cup {""}]
  /\ "" \notin Hosts

ASSUME BoundsAssumption == MaxChanges \in Nat /\ MaxSyncFaults \in Nat

VARIABLES
  syncAt,     \* syncAt[k]: where sync k is
  agents,     \* agents[k]: what Wazuh listed to it
  clients,    \* clients[k]: what Velociraptor listed to it
  next,       \* next[k]: the entry it comes to
  wazuh,      \* wazuh[h]: the wazuh_ columns of row h, and the sync they are from
  velo,       \* velo[h]: the velo_ columns of row h, and the sync they are from
  status,     \* status[a] of an agent, at Wazuh
  present,    \* the clients Velociraptor has
  changes,    \* changes of the upstreams that may still come
  syncFaults, \* upserts that may still fail
  earlier,    \* history: earlier[k]: syncs that had read Wazuh before k did
  overlaps,   \* history: overlaps[k]: syncs that ran at a time when k did
  missed,     \* history: missed[k]: hosts an upsert of k failed for
  renamed     \* history: agents whose hostname changed

listings == <<agents, clients, next>>
tables   == <<wazuh, velo, missed>>
upstream == <<status, present, changes, renamed>>
syncPast == <<earlier, overlaps>>
syncVars == <<syncAt, listings, tables, upstream, syncPast, syncFaults>>

SyncStages == {"clients", "agents", "hosts"}
NoSide     == [id |-> "null"]

AgentEntry == [id : AgentIds, status : Statuses, host : Hosts]
AgentSide  == [id : AgentIds, status : Statuses, by : Syncs]
ClientSide == [id : ClientIds, by : Syncs]

SyncTypeOK ==
  /\ syncAt \in [Syncs -> SyncStages \cup {"idle", "ok", "failed", "gone"}]
  /\ agents \in [Syncs -> Seq(AgentEntry)]
  /\ clients \in [Syncs -> Seq(ClientIds)]
  /\ next \in [Syncs -> Nat \ {0}]
  /\ wazuh \in [Hosts -> AgentSide \cup {NoSide}]
  /\ velo \in [Hosts -> ClientSide \cup {NoSide}]
  /\ status \in [AgentIds -> Statuses \cup {"removed"}]
  /\ present \in SUBSET ClientIds
  /\ changes \in 0..MaxChanges
  /\ syncFaults \in 0..MaxSyncFaults
  /\ earlier \in [Syncs -> SUBSET Syncs]
  /\ overlaps \in [Syncs -> SUBSET Syncs]
  /\ missed \in [Syncs -> SUBSET Hosts]
  /\ renamed \in SUBSET AgentIds

SyncInit ==
  /\ syncAt = [k \in Syncs |-> "idle"]
  /\ agents = [k \in Syncs |-> <<>>]
  /\ clients = [k \in Syncs |-> <<>>]
  /\ next = [k \in Syncs |-> 1]
  /\ wazuh = [h \in Hosts |-> NoSide]
  /\ velo = [h \in Hosts |-> NoSide]
  /\ status \in [AgentIds -> Statuses]
  /\ present = ClientIds
  /\ changes = MaxChanges /\ syncFaults = MaxSyncFaults
  /\ earlier = [k \in Syncs |-> {}]
  /\ overlaps = [k \in Syncs |-> {}]
  /\ missed = [k \in Syncs |-> {}]
  /\ renamed = {}

SyncGoTo(k, place) == syncAt' = [syncAt EXCEPT ![k] = place]

SyncsRunning == {k \in Syncs : syncAt[k] \in SyncStages}

-----------------------------------------------------------------------------
(***************************************************************************)
(* The upstreams.                                                          *)
(***************************************************************************)

Change == changes > 0 /\ changes' = changes - 1

(* An agent connects for the first time and reports its hostname, comes    *)
(* and goes, or is removed for good.                                       *)
AgentChanges(a) ==
  /\ Change
  /\ \/ status[a] \in {"never_connected", "disconnected"} /\ status' = [status EXCEPT ![a] = "active"]
     \/ status[a] = "active" /\ status' = [status EXCEPT ![a] = "disconnected"]
     \/ status[a] # "removed" /\ status' = [status EXCEPT ![a] = "removed"]
  /\ renamed' = IF status[a] = "never_connected" /\ status'[a] = "active" /\ NameOf[a] # UnameOf[a]
                THEN renamed \cup {a} ELSE renamed
  /\ UNCHANGED <<syncAt, listings, tables, present, syncPast, syncFaults>>

ClientChanges(c) ==
  /\ Change
  /\ present' = IF c \in present THEN present \ {c} ELSE present \cup {c}
  /\ UNCHANGED <<syncAt, listings, tables, status, renamed, syncPast, syncFaults>>

-----------------------------------------------------------------------------
(***************************************************************************)
(* Reading.                                                                *)
(***************************************************************************)

(* The hostname a sync takes an agent to be: the one in os.uname, which    *)
(* Wazuh knows after the first connection, else the registered name.       *)
HostUnlessAway(a) ==      \* mutant: the uname of an agent that is away is not used
  IF status[a] = "active" THEN UnameOf[a] ELSE NameOf[a]
HostIn(a) ==
  IF status[a] = "never_connected" THEN NameOf[a] ELSE UnameOf[a]

(* The elements of list at these places, in order.                         *)
Chosen(list, places) ==
  [n \in 1..Cardinality(places) |->
     list[CHOOSE i \in places : Cardinality({j \in places : j < i}) = n - 1]]

Entry(a) == [id |-> a, status |-> status[a], host |-> HostIn(a)]

Registered == {i \in 1..Len(Agents) : status[Agents[i]] # "removed"}
Enrolled   == {i \in 1..Len(Clients) : Clients[i] \in present}

Listed ==
  [n \in 1..Cardinality(Registered) |-> Entry(Chosen(Agents, Registered)[n])]

(* list_agents: token, agents, summary.  An error of any ends the sync, as *)
(* does a Wazuh that is not registered.                                    *)
ReadAgents(k) ==
  /\ syncAt[k] = "idle"
  /\ agents' = [agents EXCEPT ![k] = Listed]
  /\ earlier' = [earlier EXCEPT ![k] = {j \in Syncs : syncAt[j] \notin {"idle", "failed"}}]
  /\ overlaps' = [j \in Syncs |-> IF j = k THEN SyncsRunning
                                ELSE IF j \in SyncsRunning THEN overlaps[j] \cup {k} ELSE overlaps[j]]
  /\ SyncGoTo(k, "clients")
  /\ UNCHANGED <<clients, next, tables, upstream, syncFaults>>

ReadAgentsFails(k) ==
  /\ syncAt[k] = "idle"
  /\ SyncGoTo(k, "failed")
  /\ UNCHANGED <<listings, tables, upstream, syncPast, syncFaults>>

(* list_clients: an error counts as an empty list.                         *)
ReadClients(k) ==
  /\ syncAt[k] = "clients"
  /\ clients' = [clients EXCEPT ![k] = Chosen(Clients, Enrolled)]
  /\ SyncGoTo(k, "agents")
  /\ UNCHANGED <<agents, next, tables, upstream, syncPast, syncFaults>>

ReadClientsFails(k) ==
  /\ syncAt[k] = "clients"
  /\ SyncGoTo(k, "agents")
  /\ UNCHANGED <<listings, tables, upstream, syncPast, syncFaults>>

-----------------------------------------------------------------------------
(***************************************************************************)
(* Writing: two passes, one upsert per entry; an error is a warning.       *)
(***************************************************************************)

SyncFault ==
  /\ syncFaults > 0
  /\ syncFaults' = syncFaults - 1

(* ON CONFLICT (hostname): every wazuh_ column takes the new value.        *)
AgentColumns(k, e, old) == [id |-> e.id, status |-> e.status, by |-> k]

UpsertAgent(k) ==
  /\ syncAt[k] = "agents" /\ next[k] <= Len(agents[k])
  /\ LET e == agents[k][next[k]] IN
       wazuh' = [wazuh EXCEPT ![e.host] = AgentColumns(k, e, @)]
  /\ next' = [next EXCEPT ![k] = @ + 1]
  /\ UNCHANGED <<syncAt, agents, clients, velo, missed, upstream, syncPast, syncFaults>>

AfterFailureStop(k, list) == Len(list) + 1     \* mutant: the pass ends
AfterFailure(k, list) == next[k] + 1

UpsertAgentFails(k) ==
  /\ syncAt[k] = "agents" /\ next[k] <= Len(agents[k])
  /\ SyncFault
  /\ missed' = [missed EXCEPT ![k] = @ \cup {agents[k][next[k]].host}]
  /\ next' = [next EXCEPT ![k] = AfterFailure(k, agents[k])]
  /\ UNCHANGED <<syncAt, agents, clients, wazuh, velo, upstream, syncPast>>

AgentsDone(k) ==
  /\ syncAt[k] = "agents" /\ next[k] > Len(agents[k])
  /\ next' = [next EXCEPT ![k] = 1]
  /\ SyncGoTo(k, "hosts")
  /\ UNCHANGED <<agents, clients, tables, upstream, syncPast, syncFaults>>

ClientHost(k) == HostOf[clients[k][next[k]]]

(* A client without a hostname is passed over.                             *)
Named(k) == ClientHost(k) # ""

UpsertClient(k) ==
  /\ syncAt[k] = "hosts" /\ next[k] <= Len(clients[k])
  /\ velo' = IF Named(k) THEN [velo EXCEPT ![ClientHost(k)] = [id |-> clients[k][next[k]], by |-> k]]
             ELSE velo
  /\ next' = [next EXCEPT ![k] = @ + 1]
  /\ UNCHANGED <<syncAt, agents, clients, wazuh, missed, upstream, syncPast, syncFaults>>

UpsertClientFails(k) ==
  /\ syncAt[k] = "hosts" /\ next[k] <= Len(clients[k]) /\ Named(k)
  /\ SyncFault
  /\ missed' = [missed EXCEPT ![k] = @ \cup {ClientHost(k)}]
  /\ next' = [next EXCEPT ![k] = AfterFailure(k, clients[k])]
  /\ UNCHANGED <<syncAt, agents, clients, wazuh, velo, upstream, syncPast>>

(* Success is answered whatever failed on the way.                         *)
SyncEnds(k) ==
  /\ syncAt[k] = "hosts" /\ next[k] > Len(clients[k])
  /\ SyncGoTo(k, "ok")
  /\ UNCHANGED <<listings, tables, upstream, syncPast, syncFaults>>

-----------------------------------------------------------------------------
SyncDrop(syncs) ==
  /\ syncAt' = [k \in Syncs |-> IF k \in syncs THEN "gone" ELSE syncAt[k]]
  /\ UNCHANGED <<listings, tables, upstream, syncPast, syncFaults>>

SyncHangUp(k) == k \in SyncsRunning /\ SyncDrop({k})
SyncCrash     == SyncsRunning # {} /\ SyncDrop(SyncsRunning)

Sync(k) ==
  \/ ReadAgents(k) \/ ReadAgentsFails(k) \/ ReadClients(k) \/ ReadClientsFails(k)
  \/ UpsertAgent(k) \/ UpsertAgentFails(k) \/ AgentsDone(k)
  \/ UpsertClient(k) \/ UpsertClientFails(k) \/ SyncEnds(k)
  \/ SyncHangUp(k)

SyncNext ==
  \/ \E a \in AgentIds : AgentChanges(a)
  \/ \E c \in ClientIds : ClientChanges(c)
  \/ \E k \in Syncs : Sync(k)
  \/ SyncCrash

SyncSpec == SyncInit /\ [][SyncNext]_syncVars

-----------------------------------------------------------------------------
(***************************************************************************)
(* What may be relied on.                                                  *)
(***************************************************************************)

IsLast(list, i, host(_)) == \A n \in (i + 1)..Len(list) : host(list[n]) # host(list[i])

EntryHost(e) == e.host
HostOfClient(c) == HostOf[c]

(* The columns of a row belong together: what the wazuh_ columns say, one  *)
(* sync read of one agent with that hostname, whatever syncs interleave,   *)
(* fail or break off; and so for the velo_ columns.                        *)
RowsAreReadings ==
  \A h \in Hosts :
    /\ wazuh[h] # NoSide =>
         LET k == wazuh[h].by IN
         \E i \in 1..Len(agents[k]) :
           agents[k][i] = [id |-> wazuh[h].id, status |-> wazuh[h].status, host |-> h]
    /\ velo[h] # NoSide =>
         LET k == velo[h].by IN
         \E i \in 1..Len(clients[k]) : clients[k][i] = velo[h].id /\ HostOf[velo[h].id] = h

(* A sync that is answered leaves on every host it listed, but those an    *)
(* upsert failed for, the last entry it read: only a sync that read later  *)
(* replaces it, or one that ran overlaps it and may have read earlier.       *)
Replaced(k, j) == k \in earlier[j] \/ j \in overlaps[k]

SyncSticks ==
  \A k \in Syncs : syncAt[k] = "ok" =>
    /\ \A i \in 1..Len(agents[k]) :
         LET h == agents[k][i].host IN
         h \notin missed[k] =>
           /\ wazuh[h] # NoSide
           /\ wazuh[h].by # k => Replaced(k, wazuh[h].by)
           /\ wazuh[h].by = k /\ IsLast(agents[k], i, EntryHost) =>
                wazuh[h].id = agents[k][i].id
    /\ \A i \in 1..Len(clients[k]) :
         LET h == HostOf[clients[k][i]] IN
         h # "" /\ h \notin missed[k] =>
           /\ velo[h] # NoSide
           /\ velo[h].by # k => Replaced(k, velo[h].by)
           /\ velo[h].by = k /\ IsLast(clients[k], i, HostOfClient) =>
                velo[h].id = clients[k][i]

(* An agent fills one row (unified_agents, a row per host): it is found in *)
(* two only if its hostname changed when it first connected.               *)
OneRowPerAgent ==
  \A g, h \in Hosts :
    g # h /\ wazuh[g] # NoSide /\ wazuh[h] # NoSide /\ wazuh[g].id = wazuh[h].id =>
      wazuh[g].id \in renamed

(* The inventory tells of every agent what some sync read of it, and tells *)
(* it once.                                                                *)
InventoryIsSound == RowsAreReadings /\ OneRowPerAgent
=============================================================================
