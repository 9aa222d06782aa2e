CONSTANTS
  CaseIsolate = {i1}
  CaseUnisolate = {}
  TemplateIsolate = {t1}
  CaseWazuh = {w1}
  TemplateWazuh = {w2}
  CaseShuffle = {s1}
  CaseRefused = {x1}
  TemplateLocal = {l1}
  TemplateGeneric = {}
  i1 = i1
  s1 = s1
  w1 = w1
  w2 = w2
  t1 = t1
  x1 = x1
  l1 = l1
  TheHost = TheHost
  Requests <- MCRequests
  Hosts <- MCHosts
  Entry <- MCEntry
  Via <- MCVia
  Host <- MCHost
  Wants <- MCWants
  ShuffleOn = TRUE
  FlowIdShape = "string"
  Polls = 3
  MaxFaults = 1
SPECIFICATION FairSpec
PROPERTIES EventuallyAnswered ImplementsLedger
CONSTRAINT MCPairs
CHECK_DEADLOCK FALSE
