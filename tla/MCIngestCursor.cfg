CONSTANTS
  g1 = g1
  g2 = g2
  w1 = w1
  w2 = w2
  w3 = w3
  WOk = {w1, w2, w3}
  WRejected = {}
  WUnmappable = {}
  VOk = {}
  VRejected = {}
  VNoId = {}
  VNoTime = {}
  GOk = {g1, g2}
  Docs <- MCDocs
  Source <- MCSource
  Form <- MCForm
  Connectors = {"wazuh", "graylog"}
  Window = 1
  Cap = 2
  Second = 2
  MaxTime = 3
  MaxLag = 1
  MaxSkew = 0
  MaxCopies = 2
  MaxFaults = 2
SPECIFICATION Spec
INVARIANTS TypeOK NoSilentGap
PROPERTIES TriageSticks WatermarkNeverRetreats ImplementsFeed
CONSTRAINT MCApart
SYMMETRY Symmetry
CHECK_DEADLOCK FALSE
