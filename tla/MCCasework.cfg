CONSTANTS
  CreateCalls = {c1}
  UpdateCalls = {u1}
  AttachCalls = {a1, a2}
  DetachCalls = {d1}
  EarlyCalls = {p2}
  FullCalls = {f1}
  PartCalls = {p1}
  ProgressCalls = {g1}
  c1 = c1
  u1 = u1
  a1 = a1
  a2 = a2
  d1 = d1
  p2 = p2
  f1 = f1
  p1 = p1
  g1 = g1
  t1 = t1
  t2 = t2
  OldCase = OldCase
  NewCase = NewCase
  TheAlert = TheAlert
  Cases <- MCCases
  Alerts <- MCAlerts
  Types <- MCTypes
  Templates <- MCTemplates
  TaskCount <- MCTaskCount
  ObsTypes <- MCObsTypes
  Calls <- MCCalls
  Op <- MCOp
  On <- MCOn
  Alert <- MCAlert
  Template <- MCTemplate
  CaseOf <- MCCaseOf
  Opened <- MCOpened
  TaskIds = {t1, t2}
  Values = {""}
  MaxFaults = 1
SPECIFICATION Spec
INVARIANTS TypeOK AppliedWhole AppliedOnce ProgressBounded AuditTellsLinks
CONSTRAINT MCApart
SYMMETRY MCSymmetry
CHECK_DEADLOCK FALSE
