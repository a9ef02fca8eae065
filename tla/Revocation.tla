------------------------------ MODULE Revocation ------------------------------
(***************************************************************************)
(* The end of a rotation: Coordinator.execute of the stages APPROVAL,      *)
(* REVOKE and COMPLETE, over the approval repository (module Approvals),   *)
(* the broker, the verification reports, the old generation and the        *)
(* incident of the run.                                                    *)
(*                                                                         *)
(* REVOKE is a row of external and durable steps: the old credential is    *)
(* revoked at its provider, the replacement and the rejection of the old   *)
(* one are verified, its secret version is disabled, its generation marked *)
(* and the incident contained. An execution can die between any two of     *)
(* them, run beside another one of the same request, or outlive its stage. *)
(*                                                                         *)
(* The credential is managed through the provider's API or in a browser.   *)
(* A browser has the playbook's REVOKE step instead of a tool of the       *)
(* broker, and none at all for an imported generation whose id at the      *)
(* provider is unknown; and none of its probes asks the provider.          *)
(***************************************************************************)
EXTENDS Naturals, FiniteSets

CONSTANTS
    Calls,         \* concurrent executions
    MaxFence,      \* bound: fencing tokens of the run
    MaxRevision,   \* bound: revisions of the run
    MaxRequests,   \* bound: approvals requested
    MaxMishaps     \* bound: crashes, failing tools and failing verifications

ASSUME BoundsAssumption ==
    /\ MaxFence \in Nat \ {0} /\ MaxRevision \in Nat \ {0}
    /\ MaxRequests \in Nat /\ MaxMishaps \in Nat

VARIABLES
    controls,    \* what is fixed at the start, see Controls
    run,         \* the part of the run document the stages read
    approvals,   \* the approval repository
    reports,     \* id of a report of REVOKE -> its status
    evidence,    \* the latest passed report of the replacement
    attempts,    \* action -> the broker's attempt of it
    old,         \* the old credential at its provider, its secret, its generation
    incident,    \* the status of the incident of the run
    results,     \* revision -> status of the stored stage result
    calls,       \* execution of a request -> its position
    mishaps      \* bounded by MaxMishaps

vars == <<controls, run, approvals, reports, evidence, attempts, old, incident, results,
          calls, mishaps>>

-----------------------------------------------------------------------------
Fence == 1..MaxFence
Revision == 1..MaxRevision

\* Who revokes and what is known of the old generation: its id at the provider
\* ("listed"), and whether the playbook has a REVOKE step that the worker's model
\* operates, whose end the coordinator takes for the proof ("proves").
Controls == [approval : BOOLEAN, managed : {"api", "browser"}, listed : BOOLEAN,
             proves : BOOLEAN]

\* provider_revoke, or the REVOKE step of the playbook, and secret_store_disable_old.
Step == {"provider", "disable"}
Action == Step \X Fence

\* The report of OBSERVE is 0, a replacement report of REVOKE its revision.
Evidence == 0..MaxRevision
Report == {"replacement", "rejection"} \X Revision

Store == INSTANCE Approvals

Stage == {"approval", "revoke", "complete", "done"}
NextStage == [approval |-> "revoke", revoke |-> "complete", complete |-> "done"]

\* "over": cancelled, failed or compensated.
RunDocument == [stage : Stage, status : {"running", "paused", "over"}, fence : Fence,
                revision : Revision]

Phase == {"idle", "approval", "provider", "provider_call", "provider_begin",
          "provider_reclaim", "replacement", "rejection", "disable", "disable_call",
          "disable_begin", "disable_reclaim", "generation", "incident", "complete", "resolve",
          "result"}
Call == [phase : Phase, revision : Revision, fence : Fence,
         outcome : {"none", "succeeded", "paused", "failed"}]
Idle == [phase |-> "idle", revision |-> 1, fence |-> 1, outcome |-> "none"]

Goto(c, phase) == calls' = [calls EXCEPT ![c].phase = phase]
Finish(c, outcome) ==
    calls' = [calls EXCEPT ![c].phase = "result", ![c].outcome = outcome]
Mishap == mishaps < MaxMishaps /\ mishaps' = mishaps + 1

At(c, phase) == calls[c].phase = phase
Id(c, step) == <<step, calls[c].fence>>

-----------------------------------------------------------------------------
(***************************************************************************)
(* _approval_for_step: the approval an action needs now. The action is     *)
(* made again from the run, with the evidence of this moment, and must be  *)
(* the stored one; no earlier fence will do.                               *)
(***************************************************************************)

\* Mutant of Granted: an approval serves whatever was reported since it was given.
Granted_whenever(a) ==
    /\ Store!Stored(a)
    /\ approvals[a].decision = "approved" /\ approvals[a].consumed
    /\ ~approvals[a].expired

Granted(a) ==
    /\ Store!Stored(a)
    /\ approvals[a].evidence = evidence
    /\ approvals[a].decision = "approved" /\ approvals[a].consumed
    /\ ~approvals[a].expired

\* Nothing requested yet, not decided, cancelled or not consumed.
Awaited(a) ==
    \/ ~Store!Stored(a)
    \/ /\ approvals[a].evidence = evidence
       /\ approvals[a].decision # "rejected"
       /\ approvals[a].decision # "approved" \/ ~approvals[a].consumed

\* Controls that require approval of the revocation protect both tools.
Protected(step) == controls.approval

-----------------------------------------------------------------------------
(***************************************************************************)
(* execute: a request whose result is stored is answered with it.          *)
(***************************************************************************)

Begin(c) ==
    /\ calls[c] = Idle
    /\ run.status = "running" /\ run.stage # "done"
    /\ results[run.revision] = "none"
    /\ calls' = [calls EXCEPT ![c] =
          [phase |-> IF run.stage = "revoke" THEN "provider" ELSE run.stage,
           revision |-> run.revision, fence |-> run.fence, outcome |-> "none"]]
    /\ UNCHANGED <<controls, run, approvals, reports, evidence, attempts, old, incident,
                   results, mishaps>>

\* The result is written once; an execution that comes second conflicts.
Record(c) ==
    /\ At(c, "result")
    /\ results' = [results EXCEPT ![calls[c].revision] =
                      IF @ = "none" THEN calls[c].outcome ELSE @]
    /\ calls' = [calls EXCEPT ![c] = Idle]
    /\ UNCHANGED <<controls, run, approvals, reports, evidence, attempts, old, incident, mishaps>>

\* The coordinator dies; what the execution wrote stays.
Crash(c) ==
    /\ calls[c] # Idle
    /\ Mishap
    /\ calls' = [calls EXCEPT ![c] = Idle]
    /\ UNCHANGED <<controls, run, approvals, reports, evidence, attempts, old, incident,
                   results>>

\* _approval: the protected steps that REVOKE will take, the provider's first. The
\* first that waits pauses the run. A tool of the provider needs the id of the old
\* credential, and a step of a playbook names no connection: both raise.
ApprovalStage(c) ==
    LET open == {s \in Step : ~Granted(Id(c, s))}
        first == IF "provider" \in open THEN "provider" ELSE "disable"
        outcome == IF ~controls.approval THEN "succeeded"
                   ELSE IF controls.managed = "browser" \/ ~controls.listed THEN "failed"
                   ELSE IF open = {} THEN "succeeded"
                   ELSE IF Awaited(Id(c, first)) THEN "paused" ELSE "failed"
    IN
    /\ At(c, "approval")
    /\ Finish(c, outcome)
    /\ UNCHANGED <<controls, run, approvals, reports, evidence, attempts, old, incident,
                   results, mishaps>>

-----------------------------------------------------------------------------
(***************************************************************************)
(* The two protected steps. The coordinator looks for the approval and     *)
(* calls the broker, or the worker of the browser. The broker reads the    *)
(* attempt, the run and the approval for itself, and only then begins, or  *)
(* takes over, the attempt that the request id of run, step and fence      *)
(* names: all of it may have changed between reading and beginning.        *)
(***************************************************************************)

Calling == [provider |-> "provider_call", disable |-> "disable_call"]
Beginning == [provider |-> "provider_begin", disable |-> "disable_begin"]
Reclaiming == [provider |-> "provider_reclaim", disable |-> "disable_reclaim"]
After == [provider |-> "replacement", disable |-> "generation"]

\* What _revoke finds before a step: nothing to revoke in a browser, no id to hand
\* to the provider's tool, no step that proved the revocation.
NotApplicable(step) ==
    step = "provider" /\ controls.managed = "browser" /\ ~controls.listed
Unnamed(step) == step = "provider" /\ controls.managed = "api" /\ ~controls.listed
Unproved(step) ==
    step = "disable" /\ controls.managed = "browser" /\ controls.listed /\ ~controls.proves

Check(c, step) ==
    /\ At(c, step)
    /\ \/ NotApplicable(step) /\ Goto(c, After[step])
       \/ (Unnamed(step) \/ Unproved(step)) /\ Finish(c, "failed")
       \/ /\ ~NotApplicable(step) /\ ~Unnamed(step) /\ ~Unproved(step)
          /\ IF ~Protected(step) \/ Granted(Id(c, step)) THEN Goto(c, Calling[step])
             ELSE Finish(c, IF Awaited(Id(c, step)) THEN "paused" ELSE "failed")
    /\ UNCHANGED <<controls, run, approvals, reports, evidence, attempts, old, incident,
                   results, mishaps>>

ByWorker(step) == step = "provider" /\ controls.managed = "browser"

\* The broker: the run is in REVOKE and works under this fence, and the approval the
\* capability names was consumed; a capability without one is not asked for it.
BrokerAdmits(c, step) ==
    /\ run.status = "running" /\ run.fence = calls[c].fence /\ run.stage = "revoke"
    /\ Protected(step) => /\ approvals[Id(c, step)].decision = "approved"
                          /\ approvals[Id(c, step)].consumed

\* The worker compares the stage with the run's, and the fence with its session's.
Admitted(c, step) ==
    IF ByWorker(step) THEN run.stage = "revoke" ELSE BrokerAdmits(c, step)

\* The worker keeps no attempt: repeated, it uses the control again.
Attempt(c, step) == IF ByWorker(step) THEN "none" ELSE attempts[Id(c, step)]

\* Repeated, the request is answered from its attempt: one that failed fails again,
\* one that died is in the way until its lease has run out. A mishap is a lease of
\* the run or a capability that has run out, or a session that another execution has
\* taken over.
Authorise(c, step) ==
    /\ At(c, Calling[step])
    /\ \/ /\ Admitted(c, step)
          /\ \/ Attempt(c, step) = "none" /\ Goto(c, Beginning[step])
             \/ Attempt(c, step) = "running" /\ Goto(c, Reclaiming[step])
             \/ Attempt(c, step) = "succeeded" /\ Goto(c, After[step])
          /\ UNCHANGED mishaps
       \/ /\ ~Admitted(c, step) \/ Attempt(c, step) \in {"running", "failed"}
          /\ Finish(c, "failed") /\ UNCHANGED mishaps
       \/ Mishap /\ Finish(c, "failed")
    /\ UNCHANGED <<controls, run, approvals, reports, evidence, attempts, old, incident,
                   results>>

\* What the step does to the old credential. A provider may accept the revocation
\* and go on admitting the credential, for a while or, when a control of its console
\* was used, for good. The worker's model may find the step completed at once.
Applied(step) ==
    IF step = "disable" THEN {[old EXCEPT !.secret = "disabled"]}
    ELSE IF old.provider = "revoked" THEN {old}
    ELSE {[old EXCEPT !.provider = state] : state \in {"revoking", "revoked"}}
         \cup (IF ByWorker(step) THEN {old} ELSE {})

Settle ==
    /\ old.provider = "revoking"
    /\ old' = [old EXCEPT !.provider = "revoked"]
    /\ UNCHANGED <<controls, run, approvals, reports, evidence, attempts, incident, results,
                   calls, mishaps>>

Attempted(c, step, outcome) ==
    attempts' = IF ByWorker(step) THEN attempts
                ELSE [attempts EXCEPT ![Id(c, step)] = outcome]

Perform(c, step) ==
    \/ /\ Attempted(c, step, "succeeded")
       /\ old' \in Applied(step)
       /\ Goto(c, After[step]) /\ UNCHANGED mishaps
    \/ /\ Mishap
       /\ \E outcome \in {"failed", "running"} : Attempted(c, step, outcome)
       /\ old' \in {old} \cup Applied(step)
       /\ Finish(c, "failed")

\* The attempt of another execution of the request, begun, ended or taken over
\* meanwhile.
Conflict(c) == Finish(c, "failed") /\ UNCHANGED <<attempts, old, mishaps>>

\* An attempt taken over is reconciled, which may find the step done, or made again.
Invoke(c, step) ==
    /\ \/ At(c, Beginning[step]) /\ Attempt(c, step) = "none" /\ Perform(c, step)
       \/ At(c, Beginning[step]) /\ Attempt(c, step) # "none" /\ Conflict(c)
       \/ At(c, Reclaiming[step]) /\ Attempt(c, step) = "running" /\ Perform(c, step)
       \/ At(c, Reclaiming[step]) /\ Conflict(c)
    /\ UNCHANGED <<controls, run, approvals, reports, evidence, incident, results>>

-----------------------------------------------------------------------------
(***************************************************************************)
(* The other steps of _revoke.                                             *)
(***************************************************************************)

\* A report's id is made of the run's revision: a second execution at this
\* revision meets the report of the first, which differs, and fails.
Verify(c, suffix, passes, next) ==
    LET id == <<suffix, calls[c].revision>> IN
    /\ At(c, suffix)
    /\ \/ /\ reports[id] # "none"
          /\ Finish(c, "failed") /\ UNCHANGED <<reports, mishaps>>
       \/ /\ reports[id] = "none" /\ passes
          /\ reports' = [reports EXCEPT ![id] = "passed"]
          /\ Goto(c, next) /\ UNCHANGED mishaps
       \/ /\ reports[id] = "none"
          /\ IF passes THEN Mishap ELSE UNCHANGED mishaps
          /\ reports' = [reports EXCEPT ![id] = "failed"]
          /\ Finish(c, "failed")

\* The replacement must still work; its report is the latest evidence from now on.
VerifyReplacement(c) ==
    /\ Verify(c, "replacement", TRUE, "rejection")
    /\ evidence' = IF calls'[c].phase = "rejection" THEN calls[c].revision ELSE evidence
    /\ UNCHANGED <<controls, run, approvals, attempts, old, incident, results>>

\* Mutant of Rejecting: the probe does not ask that the old one is refused.
Rejecting_positive == old.secret = "enabled"

\* The probes of REVOKE: the old secret version is still enabled and, unless a
\* browser manages it, the provider refuses the credential in it.
Rejecting ==
    /\ old.secret = "enabled"
    /\ controls.managed = "api" => old.provider = "revoked"

VerifyRejection(c) ==
    /\ Verify(c, "rejection", Rejecting, "disable")
    /\ UNCHANGED <<controls, run, approvals, evidence, attempts, old, incident, results>>

\* GenerationService.revoke, idempotent.
RevokeGeneration(c) ==
    /\ At(c, "generation")
    /\ old' = [old EXCEPT !.generation = "revoked"]
    /\ Goto(c, "incident")
    /\ UNCHANGED <<controls, run, approvals, reports, evidence, attempts, incident, results, mishaps>>

\* advance_run, which leaves a resolved incident as it is. The checks of the
\* reports come after it, so an execution may still fail with the incident contained.
ContainIncident(c) ==
    /\ At(c, "incident")
    /\ incident' = IF incident = "rotating" THEN "contained" ELSE incident
    /\ \/ Finish(c, "succeeded") /\ UNCHANGED mishaps
       \/ Mishap /\ Finish(c, "failed")
    /\ UNCHANGED <<controls, run, approvals, reports, evidence, attempts, old, results>>

\* _complete up to the incident: the old generation is revoked and a report of its
\* rejection passed, and audit chain, browser and replacement are in order, or a
\* mishap.
CompleteStage(c) ==
    LET complete == /\ old.generation = "revoked"
                    /\ \E r \in Revision : reports[<<"rejection", r>>] = "passed"
    IN
    /\ At(c, "complete")
    /\ \/ complete /\ Goto(c, "resolve") /\ UNCHANGED mishaps
       \/ ~complete /\ Finish(c, "failed") /\ UNCHANGED mishaps
       \/ Mishap /\ Finish(c, "failed")
    /\ UNCHANGED <<controls, run, approvals, reports, evidence, attempts, old, incident,
                   results>>

ResolveIncident(c) ==
    /\ At(c, "resolve")
    /\ incident' = "resolved"
    /\ Finish(c, "succeeded")
    /\ UNCHANGED <<controls, run, approvals, reports, evidence, attempts, old, results, mishaps>>

-----------------------------------------------------------------------------
(***************************************************************************)
(* The run, as the workflow and operators move it.                         *)
(***************************************************************************)

Move(changed) ==
    /\ run.status # "over" /\ run.revision < MaxRevision
    /\ run' = [changed EXCEPT !.revision = @ + 1]
    /\ UNCHANGED <<controls, approvals, reports, evidence, attempts, old, incident, results,
                   calls, mishaps>>

CompleteRun ==
    /\ run.status = "running" /\ run.stage # "done" /\ results[run.revision] = "succeeded"
    /\ Move([run EXCEPT !.stage = NextStage[@]])

\* A paused result pauses the run; so may an operator, and a failed stage that
\* may be repeated is paused as well.
PauseRun == run.status = "running" /\ run.stage # "done" /\ Move([run EXCEPT !.status = "paused"])

ResumeRun ==
    /\ run.status = "paused" /\ run.fence < MaxFence
    /\ Move([run EXCEPT !.status = "running", !.fence = @ + 1])

EndRun ==
    /\ run.stage # "done" /\ run.status # "over"
    /\ run' = [run EXCEPT !.status = "over"]
    /\ UNCHANGED <<controls, approvals, reports, evidence, attempts, old, incident, results,
                   calls, mishaps>>

-----------------------------------------------------------------------------
(***************************************************************************)
(* People. A request names any action of this or the next fence: the route *)
(* takes the action from the body of the call.                             *)
(***************************************************************************)

People ==
    /\ controls.approval
    /\ \E a \in Action :
          \/ /\ a[2] \in {run.fence, run.fence + 1}
             /\ Cardinality({b \in Action : Store!Stored(b)}) < MaxRequests
             /\ Store!Request(a, evidence)
          \/ \E d \in {"approved", "rejected", "cancelled"} : Store!Decide(a, d)
          \/ Store!Consume(a, approvals[a].evidence)
          \/ Store!Expire(a)
    /\ UNCHANGED <<controls, run, reports, evidence, attempts, old, incident, results, calls, mishaps>>

-----------------------------------------------------------------------------
Init ==
    /\ controls \in {k \in Controls : k.managed = "browser" \/ k.proves}
    /\ run = [stage |-> "approval", status |-> "running", fence |-> 1, revision |-> 1]
    /\ approvals = [a \in Action |-> [Store!Requested(0) EXCEPT !.decision = "none"]]
    /\ reports = [r \in Report |-> "none"]
    /\ evidence = 0
    /\ attempts = [a \in Action |-> "none"]
    /\ old = [provider |-> "valid", secret |-> "enabled", generation |-> "superseded"]
    /\ incident = "rotating"
    /\ results = [r \in Revision |-> "none"]
    /\ calls = [c \in Calls |-> Idle]
    /\ mishaps = 0

Execute(c) ==
    \/ Begin(c) \/ ApprovalStage(c)
    \/ \E s \in Step : Check(c, s) \/ Authorise(c, s) \/ Invoke(c, s)
    \/ VerifyReplacement(c) \/ VerifyRejection(c) \/ RevokeGeneration(c)
    \/ ContainIncident(c) \/ CompleteStage(c) \/ ResolveIncident(c) \/ Record(c)

Next ==
    \/ \E c \in Calls : Execute(c) \/ Crash(c)
    \/ CompleteRun \/ PauseRun \/ ResumeRun \/ EndRun
    \/ People \/ Settle

Spec == Init /\ [][Next]_vars

-----------------------------------------------------------------------------
\* Every variable keeps its type, and no execution is past a tool of the broker
\* whose attempt did not succeed.
TypeOK ==
    /\ controls \in Controls
    /\ run \in RunDocument
    /\ approvals \in [Action -> Store!Approval]
    /\ reports \in [Report -> {"none", "passed", "failed"}]
    /\ evidence \in Evidence
    /\ attempts \in [Action -> {"none", "running", "succeeded", "failed"}]
    /\ old \in [provider : {"valid", "revoking", "revoked"},
                secret : {"enabled", "disabled"},
                generation : {"superseded", "revoked"}]
    /\ incident \in {"rotating", "contained", "resolved"}
    /\ results \in [Revision -> {"none", "succeeded", "paused", "failed"}]
    /\ calls \in [Calls -> Call]
    /\ \A c \in Calls :
          /\ calls[c].phase \in {"replacement", "rejection", "disable", "disable_call"}
                => attempts[Id(c, "provider")] = "succeeded" \/ controls.managed = "browser"
          /\ calls[c].phase \in {"generation", "incident"}
                => attempts[Id(c, "disable")] = "succeeded"
    /\ mishaps \in 0..MaxMishaps

\* As much as _revoke may know of the provider: an API was seen to refuse the old
\* credential. Of what was done in a browser it knows nothing.
Withdrawn == controls.managed = "api" => old.provider = "revoked"

\* An incident is contained or resolved, and its run gone past REVOKE, only when
\* the old credential is withdrawn, its generation revoked and its secret version
\* disabled, whatever crashed on the way. And the secret version is disabled only
\* after one execution has seen both that the replacement works and that the old
\* credential is rejected, as far as its probes go (service.py:1084-1128).
RevocationInOrder ==
    /\ incident # "rotating" \/ run.stage \in {"complete", "done"} =>
          Withdrawn /\ old.generation = "revoked" /\ old.secret = "disabled"
    /\ old.secret = "disabled" =>
          /\ Withdrawn
          /\ \E r \in Revision : /\ reports[<<"replacement", r>>] = "passed"
                                 /\ reports[<<"rejection", r>>] = "passed"

\* Where controls ask for approval, the provider was asked to revoke, and the secret
\* version disabled, on an approval of that action whose capability was consumed;
\* and who approved the disabling had been shown a report that REVOKE itself had
\* saved, not the one that the stage APPROVAL was passed with. Executions look for
\* the approval, the broker reads it again and begins in steps of their own, while
\* approvals are decided and expire, reports are saved and the run moves.
ApprovedAsReported ==
    controls.approval =>
        /\ old.provider # "valid" =>
              \E f \in Fence : LET a == approvals[<<"provider", f>>] IN
                  a.decision = "approved" /\ a.consumed
        /\ old.secret = "disabled" =>
              \E f \in Fence : LET a == approvals[<<"disable", f>>] IN
                  /\ a.decision = "approved" /\ a.consumed
                  /\ a.evidence # 0 /\ reports[<<"replacement", a.evidence>>] = "passed"

=============================================================================
