------------------------------ MODULE MCIngest ------------------------------
(***************************************************************************)
(* Instances of Ingest for TLC: the cfg files say which documents exist,   *)
(* by connector and by form.                                               *)
(***************************************************************************)
EXTENDS Ingest, TLC

CONSTANTS
  WOk, WRejected, WUnmappable,    \* documents of Wazuh
  VOk, VRejected, VNoId, VNoTime, \* of Velociraptor
  GOk                             \* of Graylog

MCDocs ==
  UNION {WOk, WRejected, WUnmappable, VOk, VRejected, VNoId, VNoTime, GOk}

MCSource == [d \in MCDocs |->
  CASE d \in GOk                             -> "graylog"
    [] d \in UNION {VOk, VRejected, VNoId, VNoTime} -> "velociraptor"
    [] OTHER                                 -> "wazuh" ]

MCForm == [d \in MCDocs |->
  CASE d \in WRejected \cup VRejected -> "rejected"
    [] d \in WUnmappable -> "unmappable"
    [] d \in VNoId       -> "noid"
    [] d \in VNoTime     -> "notime"
    [] OTHER             -> "ok" ]

(* Documents of one source and form are interchangeable.                   *)
Symmetry == UNION {Permutations(S) : S \in {WOk, VOk, GOk}}

(* The documents that are fetched by relative range or stamped with the    *)
(* present come in behaviours of their own, with one failure at most: they *)
(* have no row in common with those of Wazuh.                              *)
MCApart ==
  LET others == VNoTime \cup GOk IN
  \/ visible \cap others = {} /\ "graylog" \notin seeded \cup registered
  \/ visible \subseteq others /\ faults + 1 >= MaxFaults
=============================================================================
