------------------------------- MODULE Ledger -------------------------------
(***************************************************************************)
(* What the records of response actions promise a reader, without          *)
(* handlers, calls, polls or failures.  An action is open until it has     *)
(* happened, has broken off partly done, or is certain never to happen;    *)
(* none of these changes any more.  Of each action one thing is told at    *)
(* most, for good: that it happened, only after it did; that it failed,    *)
(* only when it never will or broke off, which a reader cannot tell apart; *)
(* or that its outcome is unknown, at any time.  What became of an action  *)
(* may stay open, and nothing may be told of it.                           *)
(***************************************************************************)
CONSTANT Actions

VARIABLES
  fate,   \* fate[a]: what became of action a
  told    \* told[a]: what the records tell of it

ledger == <<fate, told>>

Fates  == {"open", "happened", "partly", "never"}
Tales  == {"success", "failure", "unknown"}

Init ==
  /\ fate = [a \in Actions |-> "open"]
  /\ told = [a \in Actions |-> "nothing"]

(* Some settle; the loss of a process may settle many at once.             *)
Settle ==
  /\ UNCHANGED told
  /\ fate' \in [Actions -> Fates]
  /\ \A a \in Actions : fate[a] # "open" => fate'[a] = fate[a]

Tell(a) ==
  /\ UNCHANGED fate
  /\ told[a] = "nothing"
  /\ \E t \in Tales :
       /\ t = "success" => fate[a] = "happened"
       /\ t = "failure" => fate[a] \in {"never", "partly"}
       /\ told' = [told EXCEPT ![a] = t]

Next == Settle \/ \E a \in Actions : Tell(a)

Spec == Init /\ [][Next]_ledger
=============================================================================
