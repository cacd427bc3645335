---------------------------- MODULE CatalogStore ----------------------------
(***************************************************************************)
(* Scenarios and grounding facts in PostgreSQL (app/db/repository.py)      *)
(* under the requests of administrators (app/api/routes.py) and the        *)
(* bootstrap of several API workers.                                       *)
(*                                                                         *)
(* A request is one transaction at READ COMMITTED (an upsert reads in one  *)
(* before): what it wrote is seen when it commits; a statement sees what   *)
(* was committed before it, waits for the rows another one has written,    *)
(* and fails if its key was taken meanwhile.                               *)
(*                                                                         *)
(* Abstracted: what scenarios and facts say, and validation. A deadlock,   *)
(* which the server ends, is a rollback like any other.                    *)
(***************************************************************************)
EXTENDS Naturals, FiniteSets

CONSTANTS
  ScenarioId,
  Demo,                \* the scenarios of load_demo_catalog
  MaxStoreRequests     \* bound: bootstraps and requests

ASSUME CatalogAssumption ==
  /\ Demo \in (SUBSET ScenarioId) \ {{}}
  /\ MaxStoreRequests \in Nat

VARIABLES
  rows,        \* the committed ScenarioRecords
  held,        \* the transaction that has written a row, or its key
  advisory,    \* who has the advisory lock
  edit         \* the requests

catalogStore == <<rows, held, advisory, edit>>

\* Requests are numbered as they arrive.
EditId == 1..MaxStoreRequests
NoEdit == 0
FreshEdit == [at |-> "new", kind |-> "none", removes |-> {}, adds |-> {}, disturbed |-> FALSE]
-----------------------------------------------------------------------------
CatalogInit ==
  /\ rows = {}
  /\ held = [s \in ScenarioId |-> NoEdit]
  /\ advisory = NoEdit
  /\ edit = [r \in EditId |-> FreshEdit]

Next1(r) == edit[r].at = "new" /\ \A q \in 1..r-1 : edit[q].at # "new"
Goes(r, from, to) == edit[r].at = from /\ edit' = [edit EXCEPT ![r].at = to]
EndedEdit == [FreshEdit EXCEPT !.at = "done"]
Open(r) == edit[r].at \notin {"new", "done", "failed"}

\* The end of a transaction.
Unheld(r) == [s \in ScenarioId |-> IF held[s] = r THEN NoEdit ELSE held[s]]
Releases(r) ==
  /\ held' = Unheld(r)
  /\ advisory' = IF advisory = r THEN NoEdit ELSE advisory

\* A statement that writes these rows waits for whoever has written them.
Free(r, ids) == \A s \in ids : held[s] \in {NoEdit, r}
Holds(r, ids) == held' = [s \in ScenarioId |-> IF s \in ids THEN r ELSE held[s]]

Starts(r, kind, at, removes, adds) ==
  edit' = [edit EXCEPT ![r] = [FreshEdit EXCEPT !.at = at, !.kind = kind,
                                                !.removes = removes, !.adds = adds]]
-----------------------------------------------------------------------------
\* seed_demo_catalog

LocksNothing(r) == UNCHANGED advisory
LocksAdvisory(r) == advisory = NoEdit /\ advisory' = r

SeedDemoCatalog(r) ==
  /\ Next1(r)
  /\ LocksAdvisory(r)
  /\ Starts(r, "seed", "counting", {}, Demo)
  /\ UNCHANGED <<rows, held>>

CountScenarios(r) ==
  /\ edit[r].kind = "seed"
  /\ IF rows = {}
     THEN Goes(r, "counting", "inserting") /\ UNCHANGED advisory
     ELSE /\ edit[r].at = "counting" /\ edit' = [edit EXCEPT ![r] = EndedEdit]
          /\ advisory' = IF advisory = r THEN NoEdit ELSE advisory
  /\ UNCHANGED <<rows, held>>

\* replace_catalog: its DELETE removes the rows it sees, once those who wrote them ended.
ReplaceCatalog(r) ==
  /\ Next1(r)
  /\ \E adds \in (SUBSET ScenarioId) \ {{}} : Starts(r, "import", "deleting", rows, adds)
  /\ UNCHANGED <<rows, held, advisory>>

DeleteAll(r) ==
  /\ Free(r, edit[r].removes)
  /\ Goes(r, "deleting", "inserting")
  /\ Holds(r, edit[r].removes)
  /\ UNCHANGED <<rows, advisory>>

\* The INSERTs of both; a key that is taken fails them.
InsertAll(r) ==
  LET new == edit[r].adds
  IN /\ Free(r, new)
     /\ IF new \cap rows \subseteq edit[r].removes
        THEN /\ Goes(r, "inserting", "written")
             /\ Holds(r, new) /\ UNCHANGED advisory
        ELSE /\ Goes(r, "inserting", "failed")
             /\ Releases(r)
     /\ UNCHANGED rows

\* upsert_scenario reads the catalog, which must not be empty, validates what it would
\* be, and merges in a transaction of its own.
UpsertScenario(r) ==
  /\ Next1(r)
  /\ rows # {}
  /\ \E s \in ScenarioId : Starts(r, "upsert", "validated", {}, {s})
  /\ UNCHANGED <<rows, held, advisory>>

Merge(r) ==
  /\ Free(r, edit[r].adds)
  /\ Goes(r, "validated", "written")
  /\ Holds(r, edit[r].adds)
  /\ UNCHANGED <<rows, advisory>>

\* delete_scenario counts, gets and deletes.
DeleteScenario(r) ==
  /\ Next1(r)
  /\ Cardinality(rows) > 1
  /\ \E s \in ScenarioId : Starts(r, "delete", "counted", {s}, {})
  /\ UNCHANGED <<rows, held, advisory>>

DeleteRow(r) ==
  LET s == edit[r].removes
  IN /\ edit[r].at = "counted" /\ Free(r, s)
     /\ IF s \subseteq rows
        THEN Goes(r, "counted", "written") /\ Holds(r, s)
        ELSE edit' = [edit EXCEPT ![r] = EndedEdit] /\ UNCHANGED held
     /\ UNCHANGED <<rows, advisory>>

\* A commit disturbs the transactions that are open, unless it is a bootstrap's; a DELETE
\* that waits skips the rows it removed.
CommitEdit(r) ==
  LET removed(q) == IF edit[q].at = "deleting" THEN edit[r].removes ELSE {}
  IN /\ edit[r].at = "written"
     /\ rows' = (rows \ edit[r].removes) \cup edit[r].adds
     /\ edit' = [q \in EditId |->
                   IF q = r THEN EndedEdit
                   ELSE [edit[q] EXCEPT
                           !.disturbed = @ \/ (Open(q) /\ edit[r].kind # "seed"),
                           !.removes = @ \ removed(q)]]
     /\ Releases(r)

\* The connection is lost, the server ends a deadlock, or the worker stops.
RollBackEdit(r) ==
  /\ Open(r)
  /\ edit' = [edit EXCEPT ![r] = EndedEdit]
  /\ Releases(r)
  /\ UNCHANGED rows
-----------------------------------------------------------------------------
CatalogNext ==
  \E r \in EditId :
    \/ SeedDemoCatalog(r) \/ CountScenarios(r)
    \/ ReplaceCatalog(r) \/ DeleteAll(r) \/ InsertAll(r)
    \/ UpsertScenario(r) \/ Merge(r)
    \/ DeleteScenario(r) \/ DeleteRow(r)
    \/ CommitEdit(r) \/ RollBackEdit(r)

CatalogSpec == CatalogInit /\ [][CatalogNext]_catalogStore
-----------------------------------------------------------------------------
\* Correctness.

CatalogTypeOK ==
  /\ rows \subseteq ScenarioId
  /\ held \in [ScenarioId -> EditId \cup {NoEdit}]
  /\ advisory \in EditId \cup {NoEdit}
  /\ edit \in [EditId ->
                 [at : {"new", "counting", "deleting", "inserting", "validated", "counted",
                        "written", "done", "failed"},
                  kind : {"none", "seed", "import", "upsert", "delete"},
                  removes : SUBSET ScenarioId, adds : SUBSET ScenarioId,
                  disturbed : BOOLEAN]]

\* "Serialize bootstrapping across API workers" (repository.py:91): workers that start
\* together do not fail on each other's scenarios; only an administrator's edit inside a
\* bootstrap can make it fail.
BootstrapSucceeds ==
  \A r \in EditId : edit[r].kind = "seed" /\ edit[r].at = "failed" => edit[r].disturbed
=============================================================================
