----------------------------- MODULE AlertFeed ------------------------------
(***************************************************************************)
(* What the ingest scheduler promises a reader of the alerts table about   *)
(* the events of one source, without queries, batches, timestamps or       *)
(* failures: a position moves over the events the source has published,    *)
(* and it moves over an event only after the event was delivered.  An      *)
(* event may be delivered many times and in any order.                     *)
(***************************************************************************)
CONSTANT Events

VARIABLES
  published,   \* events the source has made searchable
  delivered,   \* events stored in the alerts table
  excused,     \* events nothing is promised of
  passed       \* events the position has moved over

feed == <<published, delivered, excused, passed>>

Init ==
  /\ published = {}
  /\ delivered = {}
  /\ excused = {}
  /\ passed = {}

(* The source publishes e.  One that comes after its time is excused, and  *)
(* may find that the position is past it.                                  *)
Publish(e) ==
  /\ e \notin published
  /\ published' = published \cup {e}
  /\ excused' \in {excused, excused \cup {e}}
  /\ passed' \in {passed, passed \cup {e}}
  /\ e \in passed' => e \in excused'
  /\ UNCHANGED delivered

Deliver(e) ==
  /\ e \in published
  /\ delivered' = delivered \cup {e}
  /\ UNCHANGED <<published, excused, passed>>

Excuse(E) ==
  /\ E \subseteq published
  /\ excused' = excused \cup E
  /\ UNCHANGED <<published, delivered, passed>>

Advance(E) ==
  /\ E \subseteq published \cap (delivered \cup excused)
  /\ passed' = passed \cup E
  /\ UNCHANGED <<published, delivered, excused>>

Next ==
  \/ \E e \in Events : Publish(e) \/ Deliver(e)
  \/ \E E \in SUBSET Events : Excuse(E) \/ Advance(E)

Spec == Init /\ [][Next]_feed
=============================================================================
