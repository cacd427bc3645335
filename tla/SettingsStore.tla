---------------------------- MODULE SettingsStore ----------------------------
(***************************************************************************)
(* Prompts and settings in PostgreSQL (app/db/repository.py): every worker *)
(* that starts inserts the defaults that are missing and renews prompts    *)
(* nobody has touched (seed_defaults), while administrators edit them      *)
(* (update_settings, behind PATCH /admin/settings of a worker that serves).*)
(*                                                                         *)
(* A request is one transaction at READ COMMITTED. seed_defaults reads a   *)
(* key and, before it reads the next, flushes what it made of it.          *)
(*                                                                         *)
(* Abstracted: the values, of which "legacy" is a prompt with the hash of  *)
(* an earlier default, and their validation. An edit writes its keys at    *)
(* once; the deadlock it could meet otherwise is a rollback like any other.*)
(***************************************************************************)
EXTENDS Naturals

CONSTANTS
  Settings,            \* the number of keys, in the order of seed_defaults
  MaxSettingRequests   \* bound: bootstraps and edits

ASSUME SettingsAssumption == Settings \in Nat \ {0} /\ MaxSettingRequests \in Nat

VARIABLES
  setting,     \* the committed SettingRecords
  writer,      \* the transaction that has written a row, or its key
  change,      \* the requests
  edited,      \* history variable: the keys an administrator has edited
  raced        \* history variable: those edited between a bootstrap's read and its commit

settingsStore == <<setting, writer, change, edited, raced>>

SettingKey == 1..Settings
ChangeId == 1..MaxSettingRequests
NoWriter == 0
FreshChange == [at |-> "new", key |-> 1, writes |-> {}, reads |-> {}]
-----------------------------------------------------------------------------
\* A new database, or one that an earlier release has left.
SettingsInit ==
  /\ setting \in {[k \in SettingKey |-> "missing"], [k \in SettingKey |-> "legacy"]}
  /\ writer = [k \in SettingKey |-> NoWriter]
  /\ change = [r \in ChangeId |-> FreshChange]
  /\ edited = {} /\ raced = {}

Comes(r) == change[r].at = "new" /\ \A q \in 1..r-1 : change[q].at # "new"
OverWith(r, at) == [change EXCEPT ![r] = [FreshChange EXCEPT !.at = at]]
Unwritten(r) == [k \in SettingKey |-> IF writer[k] = r THEN NoWriter ELSE writer[k]]
-----------------------------------------------------------------------------
\* seed_defaults, in the constructor of RouterDatabase

SeedDefaults(r) ==
  /\ Comes(r)
  /\ change' = [change EXCEPT ![r].at = "reads"]
  /\ UNCHANGED <<setting, writer, edited, raced>>

\* The request, done with its key.
NextKey(c) == [c EXCEPT !.at = IF c.key = Settings THEN "written" ELSE "reads",
                        !.key = IF c.key = Settings THEN 1 ELSE c.key + 1]

\* What is missing is inserted, what is an old default renewed, and the rest stays.
RenewsAll(value) == IF value = "missing" THEN "inserts" ELSE "renews"
Seeds(value) ==
  CASE value = "missing" -> "inserts"
    [] value = "legacy"  -> "renews"
    [] OTHER             -> "keeps"

ReadSetting(r) ==
  LET c == change[r]
      seeds == Seeds(setting[c.key])
  IN /\ c.at = "reads"
     /\ change' = [change EXCEPT ![r] = IF seeds = "keeps" THEN NextKey(c)
                                        ELSE [c EXCEPT !.at = seeds, !.reads = @ \cup {c.key}]]
     /\ UNCHANGED <<setting, writer, edited, raced>>

\* The INSERT or UPDATE waits for whoever has written the row; a key that is taken
\* fails the INSERT, and the constructor.
WriteSetting(r) ==
  LET c == change[r]
  IN /\ c.at \in {"inserts", "renews"} /\ writer[c.key] = NoWriter
     /\ IF c.at = "inserts" /\ setting[c.key] # "missing"
        THEN change' = OverWith(r, "failed") /\ writer' = Unwritten(r)
        ELSE /\ change' = [change EXCEPT ![r] = NextKey([c EXCEPT !.writes = @ \cup {c.key}])]
             /\ writer' = [writer EXCEPT ![c.key] = r]
     /\ UNCHANGED <<setting, edited, raced>>

\* update_settings, of a worker whose bootstrap has succeeded; it merges every value.
UpdateSettings(r) ==
  /\ Comes(r)
  /\ \A k \in SettingKey : setting[k] # "missing"
  /\ \E keys \in (SUBSET SettingKey) \ {{}} :
       /\ \A k \in keys : writer[k] = NoWriter
       /\ writer' = [k \in SettingKey |-> IF k \in keys THEN r ELSE writer[k]]
       /\ change' = [change EXCEPT ![r].at = "edited", ![r].writes = keys]
  /\ UNCHANGED <<setting, edited, raced>>

\* The commit of either.
CommitSettings(r) ==
  LET c == change[r]
      edits == IF c.at = "edited" THEN c.writes ELSE {}
  IN /\ c.at \in {"written", "edited"}
     /\ setting' = [k \in SettingKey |-> IF k \notin c.writes THEN setting[k]
                                         ELSE IF c.at = "edited" THEN "edited" ELSE "default"]
     /\ change' = OverWith(r, "done") /\ writer' = Unwritten(r)
     /\ edited' = edited \cup edits
     /\ raced' = raced \cup {k \in edits : \E q \in ChangeId \ {r} : k \in change[q].reads}

RollBackSettings(r) ==
  /\ change[r].at \in {"reads", "inserts", "renews", "written", "edited"}
  /\ change' = OverWith(r, "done") /\ writer' = Unwritten(r)
  /\ UNCHANGED <<setting, edited, raced>>
-----------------------------------------------------------------------------
SettingsNext ==
  \E r \in ChangeId :
    \/ SeedDefaults(r) \/ ReadSetting(r) \/ WriteSetting(r)
    \/ UpdateSettings(r) \/ CommitSettings(r) \/ RollBackSettings(r)

SettingsSpec == SettingsInit /\ [][SettingsNext]_settingsStore
-----------------------------------------------------------------------------
\* Correctness.

SettingsTypeOK ==
  /\ setting \in [SettingKey -> {"missing", "legacy", "default", "edited"}]
  /\ writer \in [SettingKey -> ChangeId \cup {NoWriter}]
  /\ change \in [ChangeId ->
                   [at : {"new", "reads", "inserts", "renews", "written", "edited", "done",
                          "failed"},
                    key : SettingKey, writes : SUBSET SettingKey, reads : SUBSET SettingKey]]
  /\ edited \subseteq SettingKey /\ raced \subseteq edited

\* "existing DB edits always take precedence" (repository.py:46), but for one: an edit that
\* is committed between a bootstrap's read of an old default and its commit is lost. No
\* other edit is, and a setting that was there never goes.
EditsTakePrecedence ==
  \A k \in edited : setting[k] = "edited" \/ (setting[k] = "default" /\ k \in raced)
=============================================================================
