------------------------------ MODULE FaceStore ------------------------------
(***************************************************************************)
(* The gallery of face templates in PostgreSQL (faceid/sql.py) under the   *)
(* requests of several workers (faceid/service.py, faceid/router.py), and  *)
(* the matrix that one of the workers caches.                              *)
(*                                                                         *)
(* A request that writes is one transaction at READ COMMITTED: what it     *)
(* wrote is seen when it commits, a statement sees what was committed      *)
(* before it, and waits for a row another transaction has locked.          *)
(*                                                                         *)
(* Abstracted: images, vectors and similarity (an enrollment stands for    *)
(* its one sample), and the detection and quality checks before.           *)
(***************************************************************************)
EXTENDS Naturals, FiniteSetsExt

CONSTANTS
  MaxFaceRequests,     \* bound: requests, of whatever kind
  Subject

ASSUME FaceAssumption == MaxFaceRequests \in Nat /\ Subject # {}

VARIABLES
  gallery,     \* the committed tables: subjects with their reference images, and embeddings
  locked,      \* the transaction that has locked a subject's row, or its key
  sequence,    \* the last embedding id
  cache,       \* _cache of one worker
  face,        \* the requests
  deleted      \* history variable: embeddings whose deletion was committed

faces == <<gallery, locked, sequence, cache, face, deleted>>

\* Requests are numbered as they arrive.
FaceRequest == 1..MaxFaceRequests
NoRequest == 0
FaceId == 0..MaxFaceRequests
Embedding == [id : FaceId, subject : Subject, sample : FaceRequest]
Of(s) == {e \in gallery.rows : e.subject = s}

\* (rows, max id)
FaceStamp == <<Cardinality(gallery.rows), Max({0} \cup {e.id : e \in gallery.rows})>>

FreshRequest == [at |-> "new", subject |-> CHOOSE s \in Subject : TRUE, exists |-> FALSE,
                 refs |-> {}, id |-> 0, stamp |-> <<0, 0>>, rows |-> {},
                 before |-> {}]
-----------------------------------------------------------------------------
FaceInit ==
  /\ gallery = [subjects |-> {}, refs |-> [s \in Subject |-> {}], rows |-> {}]
  /\ locked = [s \in Subject |-> NoRequest]
  /\ sequence = 0
  /\ cache = [known |-> FALSE, stamp |-> <<0, 0>>, rows |-> {}]
  /\ face = [r \in FaceRequest |-> FreshRequest]
  /\ deleted = {}

At(r, pc) == face[r].at = pc
Arrives(r) == At(r, "new") /\ \A q \in 1..r-1 : ~At(q, "new")
Answered(r) == [face EXCEPT ![r] = [FreshRequest EXCEPT !.at = "done"]]
Rolled(r) == [s \in Subject |-> IF locked[s] = r THEN NoRequest ELSE locked[s]]

-----------------------------------------------------------------------------
\* upsert. SELECT ... FOR UPDATE locks the subject if there is one.

LookUnlocked(r, s) == UNCHANGED locked
Look(r, s) ==
  IF s \in gallery.subjects
  THEN locked[s] = NoRequest /\ locked' = [locked EXCEPT ![s] = r]
  ELSE UNCHANGED locked

Enroll(r) ==
  /\ Arrives(r)
  /\ \E s \in Subject :
       /\ Look(r, s)
       /\ face' = [face EXCEPT ![r].at = "looked", ![r].subject = s,
                               ![r].exists = (s \in gallery.subjects),
                               ![r].refs = gallery.refs[s] \cup {r}]
  /\ UNCHANGED <<gallery, sequence, cache, deleted>>

\* INSERT or UPDATE of the subject waits for whoever has its key, and fails if the row
\* came or went in between; INSERT of the embedding draws its id.
WriteSample(r) ==
  LET s == face[r].subject
  IN /\ At(r, "looked")
     /\ locked[s] \in {NoRequest, r}
     /\ IF face[r].exists = (s \in gallery.subjects)
        THEN /\ locked' = [locked EXCEPT ![s] = r]
             /\ sequence' = sequence + 1
             /\ face' = [face EXCEPT ![r].at = "written", ![r].id = sequence']
        ELSE /\ face' = Answered(r)
             /\ UNCHANGED <<locked, sequence>>
     /\ UNCHANGED <<gallery, cache, deleted>>

CommitSample(r) ==
  LET s == face[r].subject
  IN /\ At(r, "written")
     /\ gallery' = [subjects |-> gallery.subjects \cup {s},
                    refs |-> [gallery.refs EXCEPT ![s] = face[r].refs],
                    rows |-> gallery.rows
                               \cup {[id |-> face[r].id, subject |-> s, sample |-> r]}]
     /\ locked' = Rolled(r)
     /\ face' = Answered(r)
     /\ UNCHANGED <<sequence, cache, deleted>>

\* The client disconnects, the connection is lost or the worker stops: rolled back.
RollBack(r) ==
  /\ face[r].at \in {"looked", "written", "deleting"}
  /\ locked' = Rolled(r)
  /\ face' = Answered(r)
  /\ UNCHANGED <<gallery, sequence, cache, deleted>>

\* delete: of what its two statements remove, the second leaves nothing to the first: it
\* waits for the subject, and cascades.
DeleteFace(r) ==
  /\ Arrives(r)
  /\ \E s \in Subject :
       /\ locked[s] = NoRequest
       /\ locked' = IF s \in gallery.subjects THEN [locked EXCEPT ![s] = r] ELSE locked
       /\ face' = [face EXCEPT ![r].at = "deleting", ![r].subject = s,
                               ![r].exists = (s \in gallery.subjects)]
  /\ UNCHANGED <<gallery, sequence, cache, deleted>>

CommitDelete(r) ==
  LET s == face[r].subject
  IN /\ At(r, "deleting")
     /\ IF face[r].exists
        THEN /\ gallery' = [subjects |-> gallery.subjects \ {s},
                            refs |-> [gallery.refs EXCEPT ![s] = {}],
                            rows |-> gallery.rows \ Of(s)]
             /\ deleted' = deleted \cup Of(s)
        ELSE UNCHANGED <<gallery, deleted>>
     /\ locked' = Rolled(r)
     /\ face' = Answered(r)
     /\ UNCHANGED <<sequence, cache>>

-----------------------------------------------------------------------------
\* identify: matrix reads the stamp, and the rows if the stamp is not the cached one.

StampByLastId == <<0, FaceStamp[2]>>
ReadStamp == FaceStamp

Identify(r) ==
  LET stamp == ReadStamp
      hit   == cache.known /\ cache.stamp = stamp
  IN /\ Arrives(r)
     /\ face' = [face EXCEPT ![r].at = IF hit THEN "identified" ELSE "stamped",
                             ![r].stamp = IF hit THEN <<0, 0>> ELSE stamp,
                             ![r].rows = IF hit THEN cache.rows ELSE {},
                             ![r].before = gallery.rows]
     /\ UNCHANGED <<gallery, locked, sequence, cache, deleted>>

ReadRows(r) ==
  /\ At(r, "stamped")
  /\ face' = [face EXCEPT ![r].at = "read", ![r].rows = gallery.rows]
  /\ UNCHANGED <<gallery, locked, sequence, cache, deleted>>

\* The transaction has ended, and the stamp is that of before the rows were read.
KeepMatrix(r) ==
  /\ At(r, "read")
  /\ cache' = [known |-> TRUE, stamp |-> face[r].stamp, rows |-> face[r].rows]
  /\ face' = [face EXCEPT ![r].at = "identified", ![r].stamp = <<0, 0>>]
  /\ UNCHANGED <<gallery, locked, sequence, deleted>>
-----------------------------------------------------------------------------
FaceNext ==
  \E r \in FaceRequest :
    \/ Enroll(r) \/ WriteSample(r) \/ CommitSample(r)
    \/ DeleteFace(r) \/ CommitDelete(r) \/ RollBack(r)
    \/ Identify(r) \/ ReadRows(r) \/ KeepMatrix(r)

FaceSpec == FaceInit /\ [][FaceNext]_faces
-----------------------------------------------------------------------------
\* Correctness.

FaceTypeOK ==
  /\ gallery \in [subjects : SUBSET Subject, refs : [Subject -> SUBSET FaceRequest],
                  rows : SUBSET Embedding]
  /\ locked \in [Subject -> FaceRequest \cup {NoRequest}]
  /\ sequence \in FaceId
  /\ cache \in [known : BOOLEAN, stamp : FaceId \X FaceId, rows : SUBSET Embedding]
  /\ face \in [FaceRequest ->
                 [at : {"new", "looked", "written", "deleting", "stamped", "read",
                        "identified", "done"},
                  subject : Subject, exists : BOOLEAN, refs : SUBSET FaceRequest, id : FaceId,
                  stamp : FaceId \X FaceId, rows : SUBSET Embedding,
                  before : SUBSET Embedding]]
  /\ deleted \subseteq Embedding

\* A subject's reference images are those of its embeddings.
EnrollmentsAddUp ==
  \A s \in Subject :
    /\ {e.sample : e \in Of(s)} = gallery.refs[s]
    /\ (s \in gallery.subjects) = (Of(s) # {})

\* "Insert the subject, or append samples to the existing one" (sql.py:271): whatever is
\* enrolled, deleted or rolled back at once, no sample is lost or left behind; and, while
\* nothing is deleted, the cached matrix lacks no face that was enrolled before the
\* identification began, in whatever order ids are drawn and committed.
NoFaceIsLost ==
  /\ EnrollmentsAddUp
  /\ \A r \in FaceRequest :
       At(r, "identified") /\ deleted = {} => face[r].before \subseteq face[r].rows
=============================================================================
