------------------------------ MODULE JsonFaces ------------------------------
(***************************************************************************)
(* The gallery of face templates kept in memory and written to a JSON file *)
(* after every change (faceid/store.py, JSONFileFaceStore), by one process *)
(* that may stop at any time and load the file again.                      *)
(*                                                                         *)
(* A request changes the memory in the event loop without giving it up;    *)
(* its _flush is a worker thread, that shares the dictionary and the lists *)
(* of embeddings with the loop.                                            *)
(*                                                                         *)
(* Abstracted: an enrollment is its one embedding, named by the request;   *)
(* metadata, images and dates.                                             *)
(***************************************************************************)
EXTENDS Naturals, FiniteSetsExt

CONSTANTS
  MaxSaves,     \* bound: requests
  Enrollee      \* subject ids

ASSUME JsonFacesAssumption == MaxSaves \in Nat

VARIABLES
  templateOf,   \* _data: the template object of each subject, named by who made it
  embeddings,   \* the embeddings of each template object
  file,         \* the embeddings of each subject in the file
  save,         \* the requests
  crossed,      \* history variable: two requests flushed at the same time
  saved,        \* history variable: embeddings whose enrollment was answered
  erased        \* history variable: embeddings whose deletion was answered

jsonFaces == <<templateOf, embeddings, file, save, crossed, saved, erased>>

Save == 1..MaxSaves
NoTemplate == 0
InMemory == {s \in Enrollee : templateOf[s] # NoTemplate}
Entries == {<<s, templateOf[s]>> : s \in InMemory}
NoEmbeddings == [s \in Enrollee |-> {}]

FreshSave == [at |-> "new", seen |-> {}, payload |-> {}, out |-> NoEmbeddings, removed |-> {}]
Writing(r) == save[r].at \in {"changed", "iterating", "dumping"}
-----------------------------------------------------------------------------
JsonFacesInit ==
  /\ templateOf = [s \in Enrollee |-> NoTemplate]
  /\ embeddings = [r \in Save |-> {}]
  /\ file = NoEmbeddings
  /\ save = [r \in Save |-> FreshSave]
  /\ crossed = FALSE
  /\ saved = {}
  /\ erased = {}

SaveEnds(r) == [save EXCEPT ![r] = [FreshSave EXCEPT !.at = "done"]]
SaveArrives(r) == save[r].at = "new" /\ \A q \in 1..r-1 : save[q].at # "new"
Races(r) == crossed' = (crossed \/ \E q \in Save \ {r} : Writing(q))

\* upsert: into the template there is, or a new one.
UpsertFace(r, s) ==
  LET t == IF s \in InMemory THEN templateOf[s] ELSE r
  IN /\ SaveArrives(r)
     /\ templateOf' = [templateOf EXCEPT ![s] = t]
     /\ embeddings' = [embeddings EXCEPT ![t] = @ \cup {r}]
     /\ save' = [save EXCEPT ![r].at = "changed"]
     /\ Races(r)
     /\ UNCHANGED <<file, saved, erased>>

\* delete: a subject that is not there is not written.
RemoveFace(r, s) ==
  /\ SaveArrives(r)
  /\ IF s \in InMemory
     THEN LET gone == embeddings[templateOf[s]]
          IN /\ templateOf' = [templateOf EXCEPT ![s] = NoTemplate]
             /\ save' = [save EXCEPT ![r].at = "changed", ![r].removed = gone]
             /\ saved' = saved \ gone
             /\ Races(r)
     ELSE save' = SaveEnds(r) /\ UNCHANGED <<templateOf, saved, crossed>>
  /\ UNCHANGED <<embeddings, file, erased>>

\* _flush iterates over the dictionary, into a temporary file beside the other one.
WritesInPlace == file' = NoEmbeddings
TempFile == UNCHANGED file

Iterate(r) ==
  /\ save[r].at = "changed"
  /\ save' = [save EXCEPT ![r].at = "iterating", ![r].seen = Entries]
  /\ TempFile
  /\ UNCHANGED <<templateOf, embeddings, crossed, saved, erased>>

\* A dictionary whose size changed meanwhile raises; one that lost an entry for another
\* may raise, or yield either.
Payloads(r) ==
  IF Entries = save[r].seen THEN {Entries}
  ELSE IF Cardinality(Entries) = Cardinality(save[r].seen)
       THEN SUBSET (Entries \cup save[r].seen)
       ELSE {}

Iterated(r) ==
  /\ save[r].at = "iterating"
  /\ \E payload \in Payloads(r) :
       save' = [save EXCEPT ![r].at = "dumping", ![r].payload = payload, ![r].seen = {}]
  /\ UNCHANGED <<templateOf, embeddings, file, crossed, saved, erased>>

\* The payload holds the lists themselves, and json.dump writes what they hold by then.
Dump(r, entry) ==
  /\ save[r].at = "dumping" /\ entry \in save[r].payload
  /\ save' = [save EXCEPT ![r].payload = @ \ {entry},
                          ![r].out[entry[1]] = embeddings[entry[2]]]
  /\ UNCHANGED <<templateOf, embeddings, file, crossed, saved, erased>>

Replace(r) ==
  /\ save[r].at = "dumping" /\ save[r].payload = {}
  /\ file' = save[r].out
  /\ save' = SaveEnds(r)
  /\ IF save[r].removed = {}
     THEN saved' = saved \cup {r} /\ UNCHANGED erased
     ELSE erased' = erased \cup save[r].removed /\ UNCHANGED saved
  /\ UNCHANGED <<templateOf, embeddings, crossed>>

\* It raises, and so does the request; the memory is as it was changed.
FlushFails(r) ==
  /\ save[r].at \in {"iterating", "dumping"}
  /\ save' = SaveEnds(r)
  /\ UNCHANGED <<templateOf, embeddings, file, crossed, saved, erased>>

\* The process stops with its requests and threads, and another loads the file.
RestartStore ==
  /\ templateOf' = [s \in Enrollee |-> IF file[s] = {} THEN NoTemplate ELSE Min(file[s])]
  /\ embeddings' = [r \in Save |-> UNION {file[s] : s \in {e \in Enrollee : r \in file[e]}}]
  /\ save' = [r \in Save |-> IF Writing(r) THEN SaveEnds(r)[r] ELSE save[r]]
  /\ UNCHANGED <<file, crossed, saved, erased>>
-----------------------------------------------------------------------------
JsonFacesNext ==
  \/ \E r \in Save :
       \/ \E s \in Enrollee : UpsertFace(r, s) \/ RemoveFace(r, s)
       \/ Iterate(r) \/ Iterated(r) \/ Replace(r) \/ FlushFails(r)
       \/ \E entry \in save[r].payload : Dump(r, entry)
  \/ RestartStore

JsonFacesSpec == JsonFacesInit /\ [][JsonFacesNext]_jsonFaces
-----------------------------------------------------------------------------
\* Correctness.

JsonFacesTypeOK ==
  /\ templateOf \in [Enrollee -> Save \cup {NoTemplate}]
  /\ embeddings \in [Save -> SUBSET Save]
  /\ file \in [Enrollee -> SUBSET Save]
  /\ save \in [Save -> [at : {"new", "changed", "iterating", "dumping", "done"},
                        seen : SUBSET (Enrollee \X Save),
                        payload : SUBSET (Enrollee \X Save),
                        out : [Enrollee -> SUBSET Save], removed : SUBSET Save]]
  /\ crossed \in BOOLEAN
  /\ saved \subseteq Save
  /\ erased \subseteq Save

\* "persisted to a JSON file after every write" (store.py:117): unless two requests write
\* at the same time, whatever fails and whenever the process stops, the file has every
\* enrollment that was answered, and nothing of a deletion that was.
FileKeepsAnswers ==
  LET written == UNION {file[s] : s \in Enrollee}
  IN ~crossed => saved \subseteq written /\ erased \cap written = {}
=============================================================================
