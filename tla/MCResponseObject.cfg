CONSTANTS
  CaseIsolate = {i1}
  CaseUnisolate = {}
  TemplateIsolate = {}
  CaseWazuh = {}
  TemplateWazuh = {}
  CaseShuffle = {}
  CaseRefused = {}
  TemplateLocal = {}
  TemplateGeneric = {}
  i1 = i1
  TheHost = TheHost
  Requests <- MCRequests
  Hosts <- MCHosts
  Entry <- MCEntry
  Via <- MCVia
  Host <- MCHost
  Wants <- MCWants
  ShuffleOn = FALSE
  FlowIdShape = "object"
  Polls = 2
  MaxFaults = 0
SPECIFICATION Spec
INVARIANTS FailureMeansNotScheduled
CHECK_DEADLOCK FALSE
