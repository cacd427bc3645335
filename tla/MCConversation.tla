--------------------------- MODULE MCConversation ---------------------------
(***************************************************************************)
(* Small catalogs and router decisions for checking Conversation.          *)
(***************************************************************************)
EXTENDS Conversation, TLC

CONSTANTS a, b, p1, p2, p3, p4, p5, x, r1, r2, bad, v1, v2, act

\* Two valid values; bad does not validate.
Normal == [r \in Raw |-> CASE r = r1 -> v1 [] r = r2 -> v2 [] OTHER -> None]

Def(executable, required, confirm, actions) ==
  [executable |-> executable, declared |-> {x}, required |-> required,
   confirm |-> confirm, actions |-> actions]

Full ==
  [scenario |-> (a :> Def(TRUE, {x}, TRUE, {act, Transfer})) @@
                (b :> Def(TRUE, {}, FALSE, {Transfer})),
   normal |-> x :> Normal, irreversible |-> {act}, enabled |-> TRUE]
\* The administrator made a's slot optional, or deleted b.
Relaxed == [Full EXCEPT !.scenario[a].required = {}]
WithoutB == [Full EXCEPT !.scenario = a :> Full.scenario[a]]
WorkflowCatalogs == {Full, Relaxed, WithoutB}

Extract(s, r) == [NoParameters EXCEPT ![s] = [y \in Slot |-> r]]
WorkflowParams == {NoParameters} \cup {Extract(a, r) : r \in Raw}
WorkflowTopics == {<<>>, <<b>>}

\* One scenario without slots: only the lock, the history and playback matter.
Plain ==
  [scenario |-> a :> Def(FALSE, {}, FALSE, {}),
   normal |-> x :> Normal, irreversible |-> {}, enabled |-> FALSE]
\* As many plain topics as there are scenarios, and a router that lists five.
FiveTopics == {<<>>, <<b, p1, p2, p3, p4>>}
TopicCatalogs ==
  {[Plain EXCEPT !.scenario = [s \in Scenario |-> Plain.scenario[a]]]}
\* An administrator deletes b and brings it back.
EditedTopics ==
  TopicCatalogs \cup
  {[Plain EXCEPT !.scenario = [s \in Scenario \ {b} |-> Plain.scenario[a]]]}
PlainCatalogs == {Plain}
NoParams == {NoParameters}
NoTopics == {<<>>}

TurnSymmetry == Permutations(Turn)
=============================================================================
