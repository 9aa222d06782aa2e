CONSTANTS
  v1 = v1
  w1 = w1
  w2 = w2
  WOk = {w1}
  WRejected = {w2}
  WUnmappable = {}
  VOk = {}
  VRejected = {}
  VNoId = {}
  VNoTime = {v1}
  GOk = {}
  Docs <- MCDocs
  Source <- MCSource
  Form <- MCForm
  Connectors = {"wazuh", "velociraptor", "shuffle"}
  Window = 1
  Cap = 2
  Second = 1
  MaxTime = 2
  MaxLag = 0
  MaxSkew = 0
  MaxCopies = 1
  MaxFaults = 1
SPECIFICATION FairSpec
PROPERTIES EventuallyIngested StallIsObservable WatermarkNeverRetreats
CONSTRAINT MCApart
CHECK_DEADLOCK FALSE
