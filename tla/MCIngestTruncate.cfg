CONSTANTS
  g1 = g1
  g2 = g2
  WOk = {}
  WRejected = {}
  WUnmappable = {}
  VOk = {}
  VRejected = {}
  VNoId = {}
  VNoTime = {}
  GOk = {g1, g2}
  Docs <- MCDocs
  Source <- MCSource
  Form <- MCForm
  Connectors = {"wazuh", "graylog"}
  Window = 2
  Cap = 2
  Second = 3
  MaxTime = 8
  MaxLag = 0
  MaxSkew = 0
  MaxCopies = 1
  MaxFaults = 0
SPECIFICATION Spec
PROPERTIES FetchIsComplete
CHECK_DEADLOCK FALSE
