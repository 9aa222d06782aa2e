CONSTANTS
  First = First
  Second = Second
  Requests <- MCRequests
  Workloads <- MCWorkloads
  Inputs <- MCInputs
  Blank = " "
  TypeOf <- MCTypeOf
  Trimmed <- MCTrimmed
  Upper <- MCUpper
  Keys <- MCKeys
  Reports <- MCReports
  Keyed = {TRUE, FALSE}
  TTL <- MCTTL
  Timeout = 1
  MaxTime = 3
  MaxFaults = 1
  k1 = k1
  k2 = k2
  Syncs = {k1, k2}
  Hosts <- MCHosts
  Agents <- MCAgents
  Clients <- MCClients
  NameOf <- MCNameOf
  UnameOf <- MCUnameOf
  HostOf <- MCHostOf
  MaxChanges = 1
  MaxSyncFaults = 1
  j1 = j1
  j2 = j2
  j3 = j3
  Jobs <- MCJobs
  Tasks <- MCTasks
  Channels <- MCChannels
  DetectionRules = {"rule", "gone"}
  Schedules = {"plan"}
  Devices = {"wall"}
  Seeded <- MCSeeded
  Seeds <- MCSeeds
  SenderOf <- MCSenderOf
  Values = {"", "a", "b", "bad"}
  Bad = {"bad"}
  MaxLapses = 1
  v1 = v1
  v2 = v2
  v3 = v3
  Visits <- MCVisits
  Plans <- MCPlans
  Users = {"root"}
  Admin = "root"
  Roles = {"admin", "mcp-read"}
  Lifetime = 1
  Leeway = 1
  LastTick = 3
  MaxOutages = 1
  MaxEdits = 1
  p1 = p1
  p2 = p2
  Pages <- MCPages
  KindOf <- MCKindOf
  Registry <- MCRegistry
  Rank <- MCRank
  MaxWeather = 1
  MaxAlerts = 2
  MaxMisses = 1
SPECIFICATION MCSpec
INVARIANTS ServicesTypeOK ResultsAreSound FetchedIsKept BatchIsComplete TriageIsSound SyncSticks InventoryIsSound UpdatesStick LogTellsDeliveries SwitchedOffIsQuiet GrantsAreEarned LoggedOutStays LoginsAreAudited HealthIsTold
SYMMETRY MCSymmetry
CHECK_DEADLOCK FALSE
