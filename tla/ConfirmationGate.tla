-------------------------- MODULE ConfirmationGate --------------------------
(***************************************************************************)
(* What README.md promises of irreversible actions, without turns, locks,  *)
(* slots or a router: a scenario executes only through a gate that an      *)
(* earlier step (the preview and its question) opened, at most once per    *)
(* opening, and the execution shuts it again.                              *)
(***************************************************************************)
CONSTANTS Scenario, Turn

VARIABLES
  open,      \* scenarios whose confirmation question is open
  executed   \* per scenario: the turns that executed it

Init == open = {} /\ executed = [s \in Scenario |-> {}]

\* A preview asks its question; questions of deleted scenarios are forgotten.
Ask(s) ==
  /\ \E kept \in SUBSET open : open' = kept \cup {s}
  /\ UNCHANGED executed

\* A question is answered no, loses a slot or is forgotten.
Shut ==
  /\ open' \in SUBSET open
  /\ UNCHANGED executed

\* A yes executes once and shuts the gate.
Execute(s, t) ==
  /\ s \in open
  /\ t \notin executed[s]
  /\ open' \in SUBSET (open \ {s})
  /\ executed' = [executed EXCEPT ![s] = @ \cup {t}]

Next ==
  \/ \E s \in Scenario : Ask(s)
  \/ Shut
  \/ \E s \in Scenario, t \in Turn : Execute(s, t)

Spec == Init /\ [][Next]_<<open, executed>>
=============================================================================
