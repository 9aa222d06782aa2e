----------------------------- MODULE MCServices -----------------------------
(***************************************************************************)
(* Instances of the five services, which have no variable in common: each  *)
(* in turn is followed while the others rest, so that a run shows of each  *)
(* what its own specification allows.                                      *)
(***************************************************************************)
EXTENDS Services, TLC

VARIABLE followed

-----------------------------------------------------------------------------
(* Threat intelligence: one CVE in two spellings and two URLs that differ  *)
(* in case.  Requests for one of them meet, and so do two alerts.          *)
CONSTANTS First, Second

MCRequests == {First, Second}
MCInputs   == {" ", "cve-1", "CVE-1", "http://x/a", "http://x/A", "HTTP://X/A"}
MCTypeOf   == [w \in MCInputs |-> IF w \in {"cve-1", "CVE-1"} THEN "cve"
                                  ELSE IF w = " " THEN "domain" ELSE "url"]
MCTrimmed  == [w \in MCInputs |-> w]
MCUpper    == [w \in MCInputs |->
                 IF w = "cve-1" THEN "CVE-1"
                 ELSE IF w \in {"http://x/a", "http://x/A"} THEN "HTTP://X/A" ELSE w]
MCKeys     == [type : {"cve"}, value : {"CVE-1"}]
              \cup [type : {"url"}, value : {"http://x/a", "http://x/A", "HTTP://X/A"}]
MCTTL      == [x \in MCKeys |-> 1]

(* The CVE becomes exploited.  A URL is called malicious by three engines  *)
(* of seventy, which is diluted, then by twenty; the others are not found. *)
Detections(found, malicious, clean) ==
  [found |-> found, malicious |-> malicious, suspicious |-> 0, clean |-> clean]
MCReports ==
  [x \in MCKeys |->
     IF x.type = "cve" THEN <<100, 550>>
     ELSE IF x.value = "http://x/a" THEN <<Detections(TRUE, 3, 67), Detections(TRUE, 20, 50)>>
     ELSE <<Detections(FALSE, 0, 0)>>]

Ask(what, list)       == [op |-> what, iocs |-> list, level |-> 0, named |-> FALSE]
AlertOf(level, named) == [op |-> "alert", iocs |-> <<>>, level |-> level, named |-> named]
Both(v, w)            == [k \in MCRequests |-> IF k = First THEN v ELSE w]
MCWorkloads ==
  {Both(Ask("lookup", <<" ">>), Ask("batch", <<"cve-1", " ", "CVE-1">>)),
   Both(Ask("triage", <<"cve-1">>), Ask("epss", <<"CVE-1">>)),
   Both(Ask("triage", <<"http://x/a">>), Ask("batch", <<" ", "http://x/a">>)),
   Both(Ask("lookup", <<"http://x/a">>), Ask("lookup", <<"http://x/A">>)),
   Both(AlertOf(13, TRUE), AlertOf(16, TRUE)),
   Both(AlertOf(14, FALSE), AlertOf(16, FALSE))}

-----------------------------------------------------------------------------
(* Two Wazuh agents, one of which is registered under a name that is not   *)
(* its hostname; the other was enrolled on the same host.  Two clients,    *)
(* one without a hostname.                                                 *)
MCHosts    == {"web", "web-1"}
MCAgents   == <<"001", "002">>
MCNameOf   == [a \in {"001", "002"} |-> IF a = "001" THEN "web-1" ELSE "web"]
MCUnameOf  == [a \in {"001", "002"} |-> "web"]
MCClients  == <<"C.1", "C.2">>
MCHostOf   == [c \in {"C.1", "C.2"} |-> IF c = "C.1" THEN "web" ELSE ""]
MCSymmetry == Permutations(Syncs)

-----------------------------------------------------------------------------
(* Three jobs that meet at a row; the webhook may have no target.          *)
CONSTANTS j1, j2, j3

MCJobs            == {j1, j2, j3}
Request(what, row, switch, value) ==
  [op |-> what, row |-> row, enabled |-> switch, field |-> value]
On(what, row)     == Request(what, row, Keep, Keep)
Set(what, row, v) == Request(what, row, Keep, v)
Off(what, row)    == Request(what, row, "off", Keep)
Three(a, b, c)    == [k \in MCJobs |-> IF k = j1 THEN a ELSE IF k = j2 THEN b ELSE c]
MCTasks ==
  {Three(On("send", "hook"), Off("patchChannel", "hook"), Set("patchChannel", "hook", "b")),
   Three(On("send", "hook"), On("dropChannel", "hook"), On("addRule", "hook")),
   Three(On("send", "hook"), On("addRule", "hook"), On("dropRule", "hook")),
   Three(On("send", "hook"), On("stats", "hook"), On("send", "mail")),
   Three(On("send", "sms"), On("send", "new"), Set("addChannel", "new", "b")),
   Three(Off("patchRule", "rule"), Set("patchRule", "rule", "b"), Set("patchRule", "gone", "b")),
   Three(Set("addSchedule", "plan", "bad"), Set("addSchedule", "plan", "a"),
         Request("patchSchedule", "plan", "off", "bad")),
   Three(Set("addSchedule", "plan", "a"), On("dropSchedule", "plan"), Off("patchSchedule", "plan")),
   Three(Set("addDevice", "wall", "a"), On("dropDevice", "wall"), Off("patchDevice", "wall"))}
MCChannels == {"hook", "mail", "sms", "new"}
MCSenderOf == [c \in MCChannels |-> IF c = "mail" THEN "email"
                                    ELSE IF c = "sms" THEN "sms" ELSE "webhook"]
MCSeeded   == {"hook", "mail", "sms", "rule"}
MCSeeds    == {[r \in MCSeeded |-> IF r = "hook" THEN target ELSE "a"] : target \in {"", "a"}}

-----------------------------------------------------------------------------
(* A login and what comes after it, of the one user that is seeded.        *)
CONSTANTS v1, v2, v3

MCVisits == {v1, v2, v3}
Visit(what, pass, rs) == [act |-> what, user |-> "root", right |-> pass, needs |-> rs]
After(b, c) == [k \in MCVisits |->
                  IF k = v1 THEN Visit("login", TRUE, {}) ELSE IF k = v2 THEN b ELSE c]
MCPlans ==
  {After(Visit("refresh", TRUE, {}), Visit("call", TRUE, {"admin", "mcp-read"})),
   After(Visit("logout", TRUE, {}), Visit("refresh", TRUE, {})),
   After(Visit("login", FALSE, {}), Visit("call", TRUE, {"admin"}))}

-----------------------------------------------------------------------------
(* A request of each kind and two connectors, sorted otherwise than they   *)
(* are registered.                                                         *)
CONSTANTS p1, p2

MCPages    == {p1, p2}
MCKindOf   == [k \in MCPages |-> IF k = p1 THEN "probe" ELSE "monitor"]
MCRegistry == <<"wazuh", "shuffle">>
MCRank     == [c \in {"wazuh", "shuffle"} |-> IF c = "wazuh" THEN 2 ELSE 1]

-----------------------------------------------------------------------------
MCInit ==
  /\ followed \in {"intel", "agents", "automation", "session", "health"}
  /\ ServicesInit
  /\ followed # "intel" =>
       work = (CHOOSE w \in Workloads : TRUE) /\ keyed = (CHOOSE b \in Keyed : TRUE)
  /\ status["002"] = "active" /\ (followed # "agents" => status["001"] = "active")
  /\ followed # "automation" =>
       task = (CHOOSE t \in Tasks : TRUE) /\ \A c \in Seeded : table[c].field = "a"
  /\ followed # "session" => plan = (CHOOSE p \in Plans : TRUE)
  /\ followed # "health" => \A c \in Checked : condition[c] = "healthy"

(* The steps of the services, one of which is followed.                    *)
MCNext ==
  /\ UNCHANGED followed
  /\ \/ followed = "intel" /\ IntelMoves
     \/ followed = "agents" /\ SyncMoves
     \/ followed = "automation" /\ AutoMoves
     \/ followed = "session" /\ SessionMoves
     \/ followed = "health" /\ HealthMoves

MCSpec == MCInit /\ [][MCNext]_<<followed, servicesVars>>
=============================================================================
