CONSTANTS
  g1 = g1
  WOk = {}
  WRejected = {}
  WUnmappable = {}
  VOk = {}
  VRejected = {}
  VNoId = {}
  VNoTime = {}
  GOk = {g1}
  Docs <- MCDocs
  Source <- MCSource
  Form <- MCForm
  Connectors = {"wazuh", "graylog"}
  Window = 1
  Cap = 2
  Second = 1
  MaxTime = 2
  MaxLag = 0
  MaxSkew = 0
  MaxCopies = 2
  MaxFaults = 0
SPECIFICATION Spec
INVARIANTS OneRowPerEvent
CHECK_DEADLOCK FALSE
