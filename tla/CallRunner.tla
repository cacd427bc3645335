----------------------------- MODULE CallRunner -----------------------------
(***************************************************************************)
(* One call in LiveSessionRunner (telephony/runner.py): the task that owns *)
(* the session (_run), the task that reads its sideband                    *)
(* (LiveSessionCoordinator.run, telephony/delegation.py) and the           *)
(* delegations, under stop, request_close and aclose. Delegations replace  *)
(* each other, as app/phone/service.py configures it.                      *)
(*                                                                         *)
(* A cancellation is delivered at the await where its task waits. Who      *)
(* waits in DelegationExecutor.cancel for a delegation swallows it with    *)
(* that delegation's own.                                                  *)
(*                                                                         *)
(* The provider is external. Abstracted: transcripts, usage, texts, the    *)
(* runner's lock, which is never held across an await, and the context.    *)
(***************************************************************************)
EXTENDS Naturals, FiniteSets

CONSTANT MaxRequests     \* bound: delegations of the call

ASSUME RunnerAssumption == MaxRequests \in Nat

VARIABLES
  owner,       \* _run, and its _RunningSession
  sideband,    \* coordinator.run
  coordinator, \* the fields of LiveSessionCoordinator, and of the executor
  request,     \* the delegations' tasks
  caller,      \* stop, request_close by a hangup, and aclose
  leg          \* history variable: the SIP leg: up, or hung up by us, or the hangup was cut

callRunner == <<owner, sideband, coordinator, request, caller, leg>>

Request == 1..MaxRequests
NoRequestYet == 0
Closer == {"hangup", "aclose"}
Ended(d) == request[d] = "ended"
-----------------------------------------------------------------------------
RunnerInit ==
  /\ owner = [at |-> "none", cancelled |-> FALSE, result |-> "none", on |-> NoRequestYet,
              remembered |-> FALSE]
  /\ sideband = [at |-> "none", cancelled |-> FALSE, result |-> "none", on |-> NoRequestYet,
                 next |-> NoRequestYet]
  /\ coordinator = [attached |-> FALSE, requested |-> FALSE, closed |-> FALSE, tasks |-> {}]
  /\ request = [d \in Request |-> "new"]
  /\ caller = [stop |-> "idle", hangup |-> "idle", aclose |-> "idle",
               on |-> [c \in Closer |-> NoRequestYet]]
  /\ leg = "up"

Owner(at) == owner.at = at
RunAt(at) == sideband.at = at

\* cancel_all: there is one delegation at most. It is forgotten, cancelled, and waited for.
DelegationsCancelled ==
  request' = [d \in Request |-> IF d \in coordinator.tasks THEN "cancelled" ELSE request[d]]
One(S) == CHOOSE d \in S : TRUE

-----------------------------------------------------------------------------
\* _run

StartSession ==
  /\ Owner("none") /\ caller.aclose = "idle"
  /\ owner' = [owner EXCEPT !.at = "context"]
  /\ UNCHANGED <<sideband, coordinator, request, caller, leg>>

\* An exception, but no cancellation, is the result sideband_error.
Fails(from) ==
  /\ Owner(from) /\ ~owner.cancelled
  /\ owner' = [owner EXCEPT !.at = "hangup", !.result = "unconfirmed"]
  /\ UNCHANGED <<sideband, request, caller, leg>>

LoadContext ==
  /\ Owner("context") /\ ~owner.cancelled
  /\ owner' = [owner EXCEPT !.at = "attaching"]
  /\ UNCHANGED <<sideband, coordinator, request, caller, leg>>

SetUpFails ==
  /\ \E from \in {"context", "attaching"} : Fails(from)
  /\ UNCHANGED coordinator

\* The coordinator can be asked from now on; a remembered request is made first.
Supervises == sideband' = [sideband EXCEPT !.at = "reading"]
Attach ==
  /\ Owner("attaching") /\ ~owner.cancelled
  /\ coordinator' = [coordinator EXCEPT !.attached = TRUE, !.requested = owner.remembered]
  /\ IF owner.remembered
     THEN owner' = [owner EXCEPT !.at = "closingFirst"] /\ UNCHANGED sideband
     ELSE owner' = [owner EXCEPT !.at = "supervising"] /\ Supervises
  /\ UNCHANGED <<request, caller, leg>>

FirstCloseSent ==
  /\ Owner("closingFirst") /\ ~owner.cancelled
  /\ owner' = [owner EXCEPT !.at = "supervising"]
  /\ Supervises
  /\ UNCHANGED <<coordinator, request, caller, leg>>

FirstCloseFails ==
  /\ Fails("closingFirst")
  /\ coordinator' = [coordinator EXCEPT !.requested = FALSE]

\* max_call_seconds: request_close, unless that has been done.
DeadlinePasses ==
  /\ Owner("supervising") /\ ~owner.cancelled /\ ~RunAt("done")
  /\ IF coordinator.requested \/ coordinator.closed
     THEN owner' = [owner EXCEPT !.at = "grace"] /\ UNCHANGED <<coordinator, request>>
     ELSE /\ coordinator' = [coordinator EXCEPT !.requested = TRUE, !.tasks = {}]
          /\ DelegationsCancelled
          /\ owner' = IF coordinator.tasks = {} THEN [owner EXCEPT !.at = "asking"]
                      ELSE [owner EXCEPT !.at = "cancelling", !.on = One(coordinator.tasks)]
  /\ UNCHANGED <<sideband, caller, leg>>

OwnerResumes ==
  /\ Owner("cancelling") /\ Ended(owner.on)
  /\ owner' = [owner EXCEPT !.at = "asking", !.on = NoRequestYet, !.cancelled = FALSE]
  /\ UNCHANGED <<sideband, coordinator, request, caller, leg>>

CloseSent ==
  /\ Owner("asking") /\ ~owner.cancelled
  /\ owner' = [owner EXCEPT !.at = "grace"]
  /\ UNCHANGED <<sideband, coordinator, request, caller, leg>>

\* The finally of _run_until_deadline: the coordinator is cancelled, and waited for.
StopsRun(result) ==
  /\ owner' = [owner EXCEPT !.at = "stopping", !.cancelled = FALSE, !.result = result]
  /\ sideband' = [sideband EXCEPT !.cancelled = ~RunAt("done")]

CloseFails ==
  /\ Owner("asking") /\ ~owner.cancelled
  /\ StopsRun("unconfirmed")
  /\ coordinator' = [coordinator EXCEPT !.requested = FALSE]
  /\ UNCHANGED <<request, caller, leg>>

GracePasses ==
  /\ Owner("grace") /\ ~owner.cancelled /\ ~RunAt("done")
  /\ StopsRun("unconfirmed")
  /\ UNCHANGED <<coordinator, request, caller, leg>>

RunEnded ==
  /\ owner.at \in {"supervising", "grace"} /\ ~owner.cancelled /\ RunAt("done")
  /\ LET confirmed == sideband.result = "confirmed"
     IN owner' = [owner EXCEPT !.result = sideband.result,
                               !.at = IF confirmed THEN "finalizing" ELSE "hangup"]
  /\ UNCHANGED <<sideband, coordinator, request, caller, leg>>

RunStopped ==
  /\ Owner("stopping") /\ ~owner.cancelled /\ RunAt("done")
  /\ owner' = [owner EXCEPT !.at = "hangup"]
  /\ UNCHANGED <<sideband, coordinator, request, caller, leg>>

\* _force_hangup; its own failure changes nothing. A cancelled session is not finalized.
HangUp ==
  /\ Owner("hangup") /\ ~owner.cancelled
  /\ leg' = "down"
  /\ owner' = [owner EXCEPT !.at = IF @ = "hangup" /\ owner.result = "cancelled" THEN "done"
                                   ELSE "finalizing"]
  /\ UNCHANGED <<sideband, coordinator, request, caller>>

Finalize ==
  /\ Owner("finalizing") /\ ~owner.cancelled
  /\ owner' = [owner EXCEPT !.at = "done"]
  /\ UNCHANGED <<sideband, coordinator, request, caller, leg>>

\* A cancellation of the owner is delivered, except where a delegation is awaited.
CancelBeforeRunning ==
  /\ owner.cancelled /\ owner.at \in {"context", "attaching", "closingFirst"}
  /\ owner' = [owner EXCEPT !.at = "hangup", !.cancelled = FALSE, !.result = "cancelled"]
  /\ coordinator' = [coordinator EXCEPT !.requested = @ /\ ~Owner("closingFirst")]
  /\ UNCHANGED <<sideband, request, caller, leg>>

CancelWhileRunning ==
  /\ owner.cancelled /\ owner.at \in {"supervising", "asking", "grace", "stopping"}
  /\ StopsRun("cancelled")
  /\ coordinator' = [coordinator EXCEPT !.requested = @ /\ ~Owner("asking")]
  /\ UNCHANGED <<request, caller, leg>>

CancelWhileEnding ==
  /\ owner.cancelled /\ owner.at \in {"hangup", "finalizing"}
  /\ owner' = [owner EXCEPT !.at = "done", !.cancelled = FALSE]
  /\ leg' = IF Owner("hangup") THEN "cut" ELSE leg
  /\ UNCHANGED <<sideband, coordinator, request, caller>>

-----------------------------------------------------------------------------
\* coordinator.run and process.

Reads == RunAt("reading") /\ ~sideband.cancelled

\* A delegation of a call that is being closed is ignored. The one before is superseded.
ReadDelegation(d) ==
  /\ Reads
  /\ request[d] = "new" /\ \A e \in 1..d-1 : request[e] # "new"
  /\ CASE coordinator.requested ->
            request' = [request EXCEPT ![d] = "ended"] /\ UNCHANGED <<sideband, coordinator>>
       [] ~coordinator.requested /\ coordinator.tasks = {} ->
            /\ request' = [request EXCEPT ![d] = "running"]
            /\ coordinator' = [coordinator EXCEPT !.tasks = {d}]
            /\ UNCHANGED sideband
       [] OTHER ->
            /\ coordinator' = [coordinator EXCEPT !.tasks = {}]
            /\ DelegationsCancelled
            /\ sideband' = [sideband EXCEPT !.at = "superseding", !.next = d,
                                            !.on = One(coordinator.tasks)]
  /\ UNCHANGED <<owner, caller, leg>>

\* How run ends; cancel_all, in process or in its finally.
LeavesDelegations(result) ==
  /\ UNCHANGED request
  /\ sideband' = [sideband EXCEPT !.at = "done", !.cancelled = FALSE, !.result = result]
EndsWith(result) ==
  IF coordinator.tasks = {}
  THEN /\ sideband' = [sideband EXCEPT !.at = "done", !.cancelled = FALSE, !.result = result]
       /\ UNCHANGED request
  ELSE /\ sideband' = [sideband EXCEPT !.at = "draining", !.on = One(coordinator.tasks),
                               !.cancelled = FALSE, !.result = result]
       /\ DelegationsCancelled

ReadClosed ==
  /\ Reads
  /\ EndsWith("confirmed")
  /\ coordinator' = [coordinator EXCEPT !.closed = TRUE, !.tasks = {}]
  /\ UNCHANGED <<owner, caller, leg>>

\* The stream ends or fails, or an event is invalid.
ReadFails ==
  /\ Reads
  /\ EndsWith("unconfirmed")
  /\ coordinator' = [coordinator EXCEPT !.tasks = {}]
  /\ UNCHANGED <<owner, caller, leg>>

RunCancelled ==
  /\ RunAt("reading") /\ sideband.cancelled
  /\ EndsWith("cancelled")
  /\ coordinator' = [coordinator EXCEPT !.tasks = {}]
  /\ UNCHANGED <<owner, caller, leg>>

\* The delegation it waited for has ended: the next one starts, whatever was asked for or
\* cancelled meanwhile.
RunResumes ==
  /\ sideband.at \in {"superseding", "draining"} /\ Ended(sideband.on)
  /\ IF RunAt("superseding")
     THEN /\ request' = [request EXCEPT ![sideband.next] = "running"]
          /\ coordinator' = [coordinator EXCEPT !.tasks = {sideband.next}]
          /\ sideband' = [sideband EXCEPT !.at = "reading", !.cancelled = FALSE,
                                          !.on = NoRequestYet, !.next = NoRequestYet]
     ELSE /\ sideband' = [sideband EXCEPT !.at = "done", !.on = NoRequestYet, !.cancelled = FALSE]
          /\ UNCHANGED <<request, coordinator>>
  /\ UNCHANGED <<owner, caller, leg>>

\* _execute returns, or ends behind a cancellation.
DelegationEnds(d) ==
  /\ request[d] \in {"running", "cancelled"}
  /\ request' = [request EXCEPT ![d] = "ended"]
  /\ coordinator' = [coordinator EXCEPT !.tasks = @ \ {d}]
  /\ UNCHANGED <<owner, sideband, caller, leg>>

-----------------------------------------------------------------------------
\* The callers.

Working == owner.at \notin {"none", "done"}

StopCalled ==
  /\ caller.stop = "idle" /\ Working
  /\ caller' = [caller EXCEPT !.stop = "waiting"]
  /\ owner' = [owner EXCEPT !.cancelled = TRUE]
  /\ UNCHANGED <<sideband, coordinator, request, leg>>

\* request_close: remembered, refused, or made as soon as the delegation has ended.
After(c) == IF c = "hangup" THEN "returned" ELSE "draining"
RequestClose(c) ==
  /\ caller[c] = "idle"
  /\ IF ~Working \/ coordinator.requested \/ coordinator.closed
     THEN /\ caller' = [caller EXCEPT ![c] = After(c)]
          /\ UNCHANGED <<owner, coordinator, request>>
     ELSE IF ~coordinator.attached
     THEN /\ owner' = [owner EXCEPT !.remembered = TRUE]
          /\ caller' = [caller EXCEPT ![c] = After(c)]
          /\ UNCHANGED <<coordinator, request>>
     ELSE /\ coordinator' = [coordinator EXCEPT !.requested = TRUE, !.tasks = {}]
          /\ DelegationsCancelled
          /\ caller' = [caller EXCEPT ![c] = "sending",
                                      !.on[c] = IF coordinator.tasks = {} THEN NoRequestYet
                                                ELSE One(coordinator.tasks)]
          /\ UNCHANGED owner
  /\ UNCHANGED <<sideband, leg>>

\* The close was sent, or that failed and may be asked for again.
SendClose(c) ==
  /\ caller[c] = "sending"
  /\ caller.on[c] # NoRequestYet => Ended(caller.on[c])
  /\ \E sent \in BOOLEAN : coordinator' = [coordinator EXCEPT !.requested = sent]
  /\ caller' = [caller EXCEPT ![c] = After(c), !.on[c] = NoRequestYet]
  /\ UNCHANGED <<owner, sideband, request, leg>>

\* aclose cancels what misses drain_timeout.
DrainTimesOut ==
  /\ caller.aclose = "draining" /\ Working
  /\ caller' = [caller EXCEPT !.aclose = "waiting"]
  /\ owner' = [owner EXCEPT !.cancelled = TRUE]
  /\ UNCHANGED <<sideband, coordinator, request, leg>>

CallerReturns ==
  /\ ~Working
  /\ \/ caller.stop = "waiting" /\ caller' = [caller EXCEPT !.stop = "returned"]
     \/ caller.aclose \in {"draining", "waiting"}
          /\ caller' = [caller EXCEPT !.aclose = "returned"]
  /\ UNCHANGED <<owner, sideband, coordinator, request, leg>>
-----------------------------------------------------------------------------
OwnerSteps ==
  \/ LoadContext \/ SetUpFails \/ Attach \/ FirstCloseSent \/ FirstCloseFails
  \/ DeadlinePasses \/ OwnerResumes \/ CloseSent \/ CloseFails \/ GracePasses
  \/ RunEnded \/ RunStopped \/ HangUp \/ Finalize
  \/ CancelBeforeRunning \/ CancelWhileRunning \/ CancelWhileEnding
CoordinatorSteps == RunCancelled \/ RunResumes
ProviderSteps == ReadClosed \/ ReadFails \/ \E d \in Request : ReadDelegation(d)
CallerSteps == (\E c \in Closer : SendClose(c)) \/ DrainTimesOut \/ CallerReturns

RunnerNext ==
  \/ StartSession \/ StopCalled \/ \E c \in Closer : RequestClose(c)
  \/ OwnerSteps \/ CoordinatorSteps \/ ProviderSteps \/ CallerSteps
  \/ \E d \in Request : DelegationEnds(d)

RunnerSpec == RunnerInit /\ [][RunnerNext]_callRunner

\* Every task that can run does; connecting and sending have timeouts, a delegation has
\* a time budget. The provider owes nothing.
RunnerFairness ==
  /\ WF_callRunner(OwnerSteps) /\ WF_callRunner(CoordinatorSteps) /\ WF_callRunner(CallerSteps)
  /\ \A d \in Request : WF_callRunner(DelegationEnds(d))

RunnerFairSpec == RunnerSpec /\ RunnerFairness
-----------------------------------------------------------------------------
\* Correctness.

RunnerTypeOK ==
  /\ owner \in [at : {"none", "context", "attaching", "closingFirst", "supervising",
                      "cancelling", "asking", "grace", "stopping", "hangup", "finalizing",
                      "done"},
                cancelled : BOOLEAN, result : {"none", "confirmed", "unconfirmed", "cancelled"},
                on : {NoRequestYet} \cup Request, remembered : BOOLEAN]
  /\ sideband \in [at : {"none", "reading", "superseding", "draining", "done"},
                   cancelled : BOOLEAN,
                   result : {"none", "confirmed", "unconfirmed", "cancelled"},
                   on : {NoRequestYet} \cup Request, next : {NoRequestYet} \cup Request]
  /\ coordinator \in [attached : BOOLEAN, requested : BOOLEAN, closed : BOOLEAN,
                      tasks : SUBSET Request]
  /\ Cardinality(coordinator.tasks) <= 1
  /\ request \in [Request -> {"new", "running", "cancelled", "ended"}]
  /\ caller \in [stop : {"idle", "waiting", "returned"}, hangup : {"idle", "sending", "returned"},
                 aclose : {"idle", "sending", "draining", "waiting", "returned"},
                 on : [Closer -> {NoRequestYet} \cup Request]]
  /\ leg \in {"up", "down", "cut"}

\* "Drop the SIP leg itself; closing the sideband does not end the call" (runner.py:211):
\* a session that ends without the provider's confirmation has hung up, however setup, the
\* deadline, stop and a shutdown meet, unless a second cancellation cut the hangup itself;
\* and every delegation has ended by then, or is ending.
SessionEndsClean ==
  Owner("done") =>
    /\ leg # "up" \/ owner.result = "confirmed"
    /\ \A d \in Request : request[d] # "running"

\* "Cancel local work immediately after a carrier terminal event or forced hangup"
\* (runner.py:59): a caller of stop gets on.
StopEnds == (caller.stop = "waiting") ~> (caller.stop = "returned")
=============================================================================
