CONSTANTS
  CaseIsolate = {i1}
  CaseUnisolate = {u1}
  TemplateIsolate = {t1}
  CaseWazuh = {w1}
  TemplateWazuh = {w2}
  CaseShuffle = {s1}
  CaseRefused = {}
  TemplateLocal = {}
  TemplateGeneric = {}
  i1 = i1
  s1 = s1
  w1 = w1
  w2 = w2
  t1 = t1
  u1 = u1
  TheHost = TheHost
  Requests <- MCRequests
  Hosts <- MCHosts
  Entry <- MCEntry
  Via <- MCVia
  Host <- MCHost
  Wants <- MCWants
  ShuffleOn = TRUE
  FlowIdShape = "string"
  Polls = 1
  MaxFaults = 1
SPECIFICATION Spec
INVARIANTS TypeOK SuccessIsReal FailureEndsIt EndpointAsReported
CONSTRAINT MCApart
CHECK_DEADLOCK FALSE
