---------------------------- MODULE MCCasework ------------------------------
(***************************************************************************)
(* Instances of Casework; a call is a model value whose constant says what *)
(* it does.  Templates and progress are of a case that is there from the   *)
(* start, the audited changes of one that may never be.  Full is a         *)
(* template with two observables, Part one that shares the second, as the  *)
(* seeded templates of migrations/0011 share hash_sha256 and ip.           *)
(***************************************************************************)
EXTENDS Casework, TLC

CONSTANTS OldCase, NewCase, TheAlert, CreateCalls, UpdateCalls, AttachCalls,
          DetachCalls, EarlyCalls,    \* EarlyCalls: Part, applied to NewCase
          FullCalls, PartCalls, ProgressCalls

OldCalls == FullCalls \cup PartCalls \cup ProgressCalls
NewCalls == CreateCalls \cup UpdateCalls \cup AttachCalls \cup DetachCalls \cup EarlyCalls

MCCases  == {OldCase, NewCase}
MCAlerts == {TheAlert}
MCCalls  == OldCalls \cup NewCalls
MCOp ==
  [k \in MCCalls |->
     CASE k \in CreateCalls -> "create"
       [] k \in UpdateCalls -> "update"
       [] k \in AttachCalls -> "attach"
       [] k \in DetachCalls -> "detach"
       [] k \in ProgressCalls -> "progress"
       [] OTHER -> "apply"]
MCOn        == [k \in MCCalls |-> IF k \in OldCalls THEN OldCase ELSE NewCase]
MCAlert     == [k \in MCCalls |-> TheAlert]
MCTemplate  == [k \in MCCalls |-> IF k \in FullCalls THEN "full" ELSE "part"]
MCTemplates == {"full", "part"}
MCTypes     == {"domain", "hash"}
MCTaskCount == [p \in MCTemplates |-> 1]
MCObsTypes  == [p \in MCTemplates |->
                  IF p = "full" THEN <<"domain", "hash">> ELSE <<"hash">>]
MCOpened    == {OldCase}
MCCaseOf    == [t \in TaskIds |-> OldCase]
MCSymmetry  == Permutations(TaskIds) \cup Permutations(AttachCalls)

(* A behaviour is about the templates of the one case, its progress, or    *)
(* four calls for the other: no statement touches both cases, and to       *)
(* get_case_progress a template's task is one more task.                   *)
MCApart ==
  LET begun == {k \in MCCalls : pc[k] # "idle"}
      rows  == {key[1] : key \in observables \cup deleted} IN
  \/ begun \subseteq FullCalls \cup PartCalls /\ rows \subseteq {OldCase}
  \/ begun \subseteq ProgressCalls /\ rows = {}
  \/ /\ begun \subseteq NewCalls /\ Cardinality(begun) <= 4
     /\ rows \subseteq {NewCase} /\ used = {}
=============================================================================
