---------------------------- MODULE MCResponse ------------------------------
(***************************************************************************)
(* Instances of Response.  A request is a model value whose constant says  *)
(* what it is: CaseIsolate stands for the requests of the case handler to  *)
(* isolate the host, and so on.                                            *)
(***************************************************************************)
EXTENDS Response, FiniteSets

CONSTANTS
  CaseIsolate, CaseUnisolate,            \* Velociraptor, routes/cases.rs
  TemplateIsolate,                       \* Velociraptor, services/actions.rs
  CaseWazuh, TemplateWazuh, CaseShuffle, CaseRefused,
  TemplateLocal, TemplateGeneric,
  TheHost

Templates == TemplateIsolate \cup TemplateWazuh \cup TemplateLocal \cup TemplateGeneric
Flows     == CaseIsolate \cup CaseUnisolate \cup TemplateIsolate

MCRequests == Flows \cup CaseWazuh \cup TemplateWazuh \cup CaseShuffle \cup CaseRefused
                    \cup TemplateLocal \cup TemplateGeneric
MCEntry == [r \in MCRequests |-> IF r \in Templates THEN "template" ELSE "case"]
MCVia ==
  [r \in MCRequests |->
     CASE r \in Flows -> "velociraptor"
       [] r \in CaseWazuh \cup TemplateWazuh -> "wazuh"
       [] r \in CaseShuffle -> "shuffle"
       [] r \in CaseRefused -> "unsupported"
       [] r \in TemplateLocal -> "local"
       [] OTHER -> "generic"]
MCHosts == {TheHost}
MCHost  == [r \in MCRequests |-> TheHost]
MCWants == [r \in MCRequests |-> IF r \in CaseUnisolate THEN "open" ELSE "isolated"]

(* Velociraptor's requests for the host, or two of the other connectors'   *)
(* with failing statements: the two kinds do not meet.                     *)
MCApart ==
  LET begun == {r \in MCRequests : pc[r] # "new"} IN
  \/ begun \subseteq Flows /\ faults = MaxFaults
  \/ begun \cap Flows = {} /\ Cardinality(begun) <= 2

(* Any two requests, with failing statements.  No request has to begin, so *)
(* that leaving out a third takes no behaviour from the ends of the two.   *)
MCPairs == Cardinality({r \in MCRequests : pc[r] # "new"}) <= 2
=============================================================================
