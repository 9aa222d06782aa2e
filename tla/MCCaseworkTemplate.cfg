CONSTANTS
  CreateCalls = {}
  UpdateCalls = {}
  AttachCalls = {}
  DetachCalls = {}
  EarlyCalls = {}
  FullCalls = {f1}
  PartCalls = {p1}
  ProgressCalls = {}
  f1 = f1
  p1 = p1
  t1 = t1
  t2 = t2
  OldCase = OldCase
  NewCase = NewCase
  TheAlert = TheAlert
  Cases <- MCCases
  Alerts <- MCAlerts
  Types <- MCTypes
  Templates <- MCTemplates
  TaskCount <- MCTaskCount
  ObsTypes <- MCObsTypes
  Calls <- MCCalls
  Op <- MCOp
  On <- MCOn
  Alert <- MCAlert
  Template <- MCTemplate
  CaseOf <- MCCaseOf
  Opened <- MCOpened
  TaskIds = {t1, t2}
  Values = {"x"}
  MaxFaults = 0
SPECIFICATION Spec
INVARIANTS TemplateApplies
CHECK_DEADLOCK FALSE
