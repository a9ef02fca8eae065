------------------------------ MODULE RotationRuns ------------------------------
(***************************************************************************)
(* The durable rotation runs of Uumi: the state machine of                 *)
(* server/core/state/machine.py, applied inside the Firestore transactions *)
(* of server/core/storage/firestore.py, with the per-credential lock, the  *)
(* trigger deduplication, the outbox entry every transaction writes, the   *)
(* passing of time that makes leases expire, and the reaper of             *)
(* server/core/workflow/steps.py.                                          *)
(*                                                                         *)
(* A command may carry any revision, fencing token and owner its sender    *)
(* could ever have learnt: commands are delayed, reordered and resent, and *)
(* senders hold stale copies of the run. A rejected command and an         *)
(* idempotent replay write nothing, so they are not steps.                 *)
(***************************************************************************)
EXTENDS Naturals, FiniteSets

CONSTANTS
    Runs,           \* run identifiers; their order is the order list_runs scans them in
    Credentials,
    SourceEvents,   \* (source, event_id) of a trigger
    Workers,        \* authenticated principals that send commands
    Reaper,         \* the principal the scheduled reap job runs as
    LeaseTerm,      \* longest lease, in clock ticks
    MaxRevision,    \* bound: no command but an interruption is taken beyond it
    NoWorker, NoCredential, NoEvent

NoRun == 0

ASSUME RunsAssumption == Runs \subseteq Nat \ {NoRun}
ASSUME ReaperAssumption == Reaper \in Workers
ASSUME AbsentAssumption ==
    NoWorker \notin Workers /\ NoCredential \notin Credentials /\ NoEvent \notin SourceEvents
ASSUME LeaseTermAssumption == LeaseTerm \in Nat \ {0}
ASSUME MaxRevisionAssumption == MaxRevision \in Nat

VARIABLES
    runs,       \* the run documents
    locks,      \* credential -> run that owns it
    dedupe,     \* source event -> run it created
    outbox,     \* run -> revisions for which a step and an outbox event were written
    sweep       \* the candidates the reaper has read and not yet handled

vars == <<runs, locks, dedupe, outbox, sweep>>

-----------------------------------------------------------------------------
(* Contracts *)

\* contracts.state.Stage: a stage is its position in STAGES.
Stage == 1..12
TRIGGER == 1
PREFLIGHT == 2
PLAN == 3
CREATE == 4
DEPLOY == 6
OBSERVE == 9
COMPLETE == 12
NoStage == 0

RunStatus == {"pending", "running", "paused", "recovering", "cleanup-required",
              "failed", "cancelled", "compensated", "completed"}

\* Statuses whose write deletes the credential lock.
Releasing == {"cancelled", "completed", "compensated", "failed"}

\* contracts.run.Failure, reduced to what a decision reads.
Failure == {"retryable", "fatal"}
NoFailure == "none"

\* contracts.recovery.RecoveryMode: retry re-enters the stage, every other mode compensates.
RecoveryMode == {"retry", "rollback"}
NoMode == "none"

Binding == {"browser_playbook_version", "current_generation_id", "plan_id", "plan_hash",
            "target_generation_id", "deployments"}

\* contracts.run.Lease; ttl is expires_at minus the clock, floored at zero.
Lease == [owner : Workers, fencing_token : Nat, ttl : Nat]
NoLease == [owner |-> NoWorker, fencing_token |-> 0, ttl |-> 0]

Run == [status : RunStatus \cup {"absent"},
        credential : Credentials \cup {NoCredential},
        event : SourceEvents \cup {NoEvent},
        stage : Stage,
        lease : Lease \cup {NoLease},
        fencing_token : Nat,
        bound : SUBSET Binding,
        failure : Failure \cup {NoFailure},
        recovery_stage : Stage \cup {NoStage},
        recovery_mode : RecoveryMode \cup {NoMode},
        recovery_failure : Failure \cup {NoFailure},
        revision : Nat]

\* A run document that does not exist, and the defaults of RotationRun.
AbsentRun ==
    [status |-> "absent", credential |-> NoCredential, event |-> NoEvent, stage |-> TRIGGER,
     lease |-> NoLease, fencing_token |-> 0, bound |-> {}, failure |-> NoFailure,
     recovery_stage |-> NoStage, recovery_mode |-> NoMode, recovery_failure |-> NoFailure,
     revision |-> 0]

\* RotationRun.validate_terminal_state: a record that fails it is never written.
Valid(run) ==
    /\ run.status = "completed" => run.stage = COMPLETE
    /\ run.lease # NoLease => run.lease.fencing_token = run.fencing_token
    /\ (run.status \in {"failed", "cleanup-required"}) <=> (run.failure # NoFailure)
    /\ (run.status \in {"recovering", "compensated"}) <=> (run.recovery_stage # NoStage)
    /\ run.status = "compensated" => run.recovery_mode # NoMode

-----------------------------------------------------------------------------
(* RotationMachine: what each command requires and what it makes of a run *)

Expired(lease) == lease.ttl = 0

\* The commands of the lease holder.
control(run, token) ==
    /\ run.lease # NoLease
    /\ run.lease.fencing_token = token
    /\ ~Expired(run.lease)

\* Interruptions: anyone may interrupt a worker whose lease ran out.
interrupt_control(run, token) ==
    /\ run.lease # NoLease
    /\ Expired(run.lease) \/ run.lease.fencing_token = token

\* Taking over: not while another worker's lease is live.
takeover(run, owner) ==
    run.lease = NoLease \/ Expired(run.lease) \/ run.lease.owner = owner

\* Mutant of grant: the lease is handed over under the old token.
grant_same_fence(run, owner, ttl) ==
    [run EXCEPT !.lease = [owner |-> owner, fencing_token |-> run.fencing_token, ttl |-> ttl]]

\* A lease under a new fencing token.
grant(run, owner, ttl) ==
    [run EXCEPT !.lease = [owner |-> owner, fencing_token |-> run.fencing_token + 1, ttl |-> ttl],
                !.fencing_token = run.fencing_token + 1]

start(run, owner, ttl) == [grant(run, owner, ttl) EXCEPT !.status = "running"]

renew(run, ttl) == [run EXCEPT !.lease.ttl = ttl]

\* RotationMachine._bindings
RequiredBindings(stage) ==
    CASE stage = PREFLIGHT -> {"current_generation_id"}
      [] stage = PLAN -> {"plan_id", "plan_hash"}
      [] stage = CREATE -> {"target_generation_id"}
      [] stage = DEPLOY -> {"deployments"}
      [] OTHER -> {}

AllowedBindings(stage) ==
    IF stage = PREFLIGHT THEN {"browser_playbook_version", "current_generation_id"}
    ELSE RequiredBindings(stage)

bindings_allowed(run, names) ==
    RequiredBindings(run.stage) \subseteq names /\ names \subseteq AllowedBindings(run.stage)

\* Mutant of complete: the last stage is not recognised.
complete_past_the_end(run, names) == [run EXCEPT !.stage = @ + 1, !.bound = @ \cup names]

complete(run, names) ==
    IF run.stage = COMPLETE
    THEN [run EXCEPT !.status = "completed", !.lease = NoLease, !.bound = @ \cup names]
    ELSE [run EXCEPT !.stage = @ + 1, !.bound = @ \cup names]

pause(run) == [run EXCEPT !.status = "paused"]

resume(run, owner, ttl) == [grant(run, owner, ttl) EXCEPT !.status = "running"]

cleanup(run, failure) == [run EXCEPT !.status = "cleanup-required", !.failure = failure]

unbind_recovery(run) ==
    [run EXCEPT !.recovery_stage = NoStage, !.recovery_mode = NoMode,
                !.recovery_failure = NoFailure]

fail(run, failure) ==
    LET base == IF run.status = "recovering" THEN unbind_recovery(run) ELSE run
    IN [base EXCEPT !.status = "failed", !.failure = failure, !.lease = NoLease]

cancel(run) ==
    [unbind_recovery(run) EXCEPT !.status = "cancelled", !.lease = NoLease,
                                 !.fencing_token = @ + 1, !.failure = NoFailure]

recover(run, owner, ttl) ==
    [grant(run, owner, ttl) EXCEPT !.status = "recovering", !.failure = NoFailure,
                                   !.recovery_stage = run.stage,
                                   !.recovery_failure = run.failure]

complete_recovery(run, mode) ==
    IF mode = "retry"
    THEN [unbind_recovery(run) EXCEPT !.status = "running"]
    ELSE [run EXCEPT !.status = "compensated", !.lease = NoLease, !.recovery_mode = mode]

-----------------------------------------------------------------------------
(* FirestoreRunRepository *)

Exists(r) == runs[r].status # "absent"

HoldsLock(r) == \E c \in Credentials : runs[r].credential = c /\ locks[c] = r

\* What mutate requires before it writes; revision is the command's expected_revision.
Accepts(r, op, revision, permitted, updated) ==
    /\ Exists(r)
    /\ runs[r].revision = revision
    /\ HoldsLock(r) \/ (op = "cancel" /\ runs[r].status = "failed")
    /\ permitted
    /\ Valid(updated)

\* Mutant of Write: the lock is deleted without asking who holds it.
Write_frees_any_lock(r, updated) ==
    /\ runs' = [runs EXCEPT ![r] = [updated EXCEPT !.revision = @ + 1]]
    /\ outbox' = [outbox EXCEPT ![r] = @ \cup {runs[r].revision + 1}]
    /\ locks' = IF updated.status \in Releasing
                THEN [locks EXCEPT ![runs[r].credential] = NoRun]
                ELSE locks
    /\ UNCHANGED dedupe

\* What mutate writes in one transaction: the run, its step and outbox event, the lock.
Write(r, updated) ==
    /\ runs' = [runs EXCEPT ![r] = [updated EXCEPT !.revision = @ + 1]]
    /\ outbox' = [outbox EXCEPT ![r] = @ \cup {runs[r].revision + 1}]
    /\ locks' = IF HoldsLock(r) /\ updated.status \in Releasing
                THEN [locks EXCEPT ![runs[r].credential] = NoRun]
                ELSE locks
    /\ UNCHANGED dedupe

Mutate(r, op, revision, permitted, updated) ==
    Accepts(r, op, revision, permitted, updated) /\ Write(r, updated)

\* Mutant of Create: the trigger is not looked up.
Create_without_dedupe(r, credential, e) ==
    /\ locks[credential] = NoRun
    /\ ~Exists(r)
    /\ runs' = [runs EXCEPT ![r] = [AbsentRun EXCEPT !.status = "pending",
                                                     !.credential = credential, !.event = e]]
    /\ outbox' = [outbox EXCEPT ![r] = {0}]
    /\ locks' = [locks EXCEPT ![credential] = r]
    /\ dedupe' = [dedupe EXCEPT ![e] = r]
    /\ UNCHANGED sweep

\* FirestoreRunRepository.create for a trigger that was not seen before. The run
\* identifier is fresh on every delivery of the trigger, so only the dedupe
\* document keeps a redelivered trigger from opening a second run.
Create(r, credential, e) ==
    /\ dedupe[e] = NoRun
    /\ locks[credential] = NoRun
    /\ ~Exists(r)
    /\ runs' = [runs EXCEPT ![r] = [AbsentRun EXCEPT !.status = "pending",
                                                     !.credential = credential, !.event = e]]
    /\ outbox' = [outbox EXCEPT ![r] = {0}]
    /\ locks' = [locks EXCEPT ![credential] = r]
    /\ dedupe' = [dedupe EXCEPT ![e] = r]
    /\ UNCHANGED sweep

-----------------------------------------------------------------------------
(* Commands. Each is one HTTP call of the run API and one transaction.     *)

\* Bound on the number of ordinary commands a run takes. Interruptions
\* (cleanup, fail, cancel, recover, a compensating recovery) are exempt, so a
\* run at the bound can still be brought to an end.
InBudget(r) == runs[r].revision < MaxRevision

\* The revisions and fencing tokens a sender may know of a run.
Revisions(r) == 0..runs[r].revision
Tokens(r) == 1..runs[r].fencing_token

\* The lease lengths a command may still ask for when it arrives; a request
\* whose expires_at has passed on the way is rejected.
Terms == 1..LeaseTerm

Start(r, w, revision, ttl) ==
    /\ InBudget(r)
    /\ Mutate(r, "start", revision, runs[r].status = "pending", start(runs[r], w, ttl))
    /\ UNCHANGED sweep

Renew(r, w, revision, token, ttl) ==
    /\ InBudget(r)
    /\ Mutate(r, "renew", revision,
              control(runs[r], token) /\ runs[r].lease.owner = w,
              renew(runs[r], ttl))
    /\ UNCHANGED sweep

\* The proof is for stage. One that misses a required check of the run's control
\* version (GatePolicy) is rejected like any other unacceptable command.
Complete(r, revision, token, stage, names) ==
    /\ InBudget(r)
    /\ Mutate(r, "complete-stage", revision,
              /\ control(runs[r], token)
              /\ runs[r].status = "running"
              /\ stage = runs[r].stage
              /\ bindings_allowed(runs[r], names),
              complete(runs[r], names))
    /\ UNCHANGED sweep

Pause(r, revision, token) ==
    /\ InBudget(r)
    /\ Mutate(r, "pause", revision,
              control(runs[r], token) /\ runs[r].status \in {"running", "recovering"},
              pause(runs[r]))
    /\ UNCHANGED sweep

\* The API takes it only from a run whose browser session, if it waits for one, is
\* ready; otherwise it is rejected like any other unacceptable command.
Resume(r, w, revision, ttl) ==
    /\ InBudget(r)
    /\ Mutate(r, "resume", revision,
              runs[r].status = "paused" /\ takeover(runs[r], w),
              resume(runs[r], w, ttl))
    /\ UNCHANGED sweep

CleanupPermitted(r, token) ==
    /\ interrupt_control(runs[r], token)
    /\ runs[r].status \in {"running", "recovering", "paused"}

Cleanup(r, revision, token, failure) ==
    /\ Mutate(r, "cleanup", revision, CleanupPermitted(r, token), cleanup(runs[r], failure))
    /\ UNCHANGED sweep

FailPermitted(r, token) ==
    /\ runs[r].status \notin {"completed", "failed", "compensated"}
    /\ interrupt_control(runs[r], token)

Fail(r, revision, token, failure) ==
    /\ Mutate(r, "fail", revision, FailPermitted(r, token), fail(runs[r], failure))
    /\ UNCHANGED sweep

Cancel(r, revision) ==
    /\ Mutate(r, "cancel", revision,
              runs[r].status \notin {"cancelled", "completed", "compensated"},
              cancel(runs[r]))
    /\ UNCHANGED sweep

RecoverPermitted(r, w) ==
    /\ runs[r].status \in {"failed", "cleanup-required"}
    /\ takeover(runs[r], w)

Recover(r, w, revision, ttl) ==
    /\ Mutate(r, "recover", revision, RecoverPermitted(r, w), recover(runs[r], w, ttl))
    /\ UNCHANGED sweep

CompleteRecovery(r, revision, token, mode) ==
    /\ mode = "retry" => InBudget(r)
    /\ Mutate(r, "complete-recovery", revision,
              /\ control(runs[r], token)
              /\ runs[r].status = "recovering"
              /\ runs[r].recovery_stage = runs[r].stage
              /\ mode = "retry" => runs[r].recovery_failure = "retryable",
              complete_recovery(runs[r], mode))
    /\ UNCHANGED sweep

-----------------------------------------------------------------------------
(* RunWorkflow.reap_expired. It reads every run once, then handles the      *)
(* candidates one transaction at a time, each from the copy it read; the    *)
(* first command that is rejected raises and ends the pass.                 *)

RecoveryStages == DEPLOY..OBSERVE

\* Mutant of Candidate: work under way counts as stranded.
Candidate_ignoring_expiry(r) ==
    runs[r].status \in {"cleanup-required", "running", "recovering"}

\* Mutant of Candidate: an abandoned recovery is overlooked.
Candidate_without_recovery(r) ==
    \/ runs[r].status = "cleanup-required"
    \/ runs[r].status = "running" /\ Expired(runs[r].lease)

Candidate(r) ==
    \/ runs[r].status = "cleanup-required"
    \/ /\ runs[r].status \in {"running", "recovering"}
       /\ runs[r].lease # NoLease
       /\ Expired(runs[r].lease)

Snapshot(r, run) ==
    [run |-> r, status |-> run.status, stage |-> run.stage, planned |-> "plan_id" \in run.bound,
     revision |-> run.revision, fencing_token |-> run.fencing_token]

\* A pass begins. The one before it has ended, or died with its instance or at
\* the job's deadline, and what it had left to do is forgotten.
ReapScan ==
    /\ sweep' = {Snapshot(r, runs[r]) : r \in {q \in Runs : Candidate(q)}}
    /\ UNCHANGED <<runs, locks, dedupe, outbox>>

\* The candidate the pass has come to.
First(c) == c \in sweep /\ \A d \in sweep : c.run <= d.run

Handled(c) == sweep' = sweep \ {c}

\* _restart_recovery; the job's deadline is far below the lease it asks for.
ReapRecover(c, ttl) ==
    /\ First(c)
    /\ c.status = "cleanup-required"
    /\ Mutate(c.run, "recover", c.revision, RecoverPermitted(c.run, Reaper),
              recover(runs[c.run], Reaper, ttl))
    /\ Handled(c)

ReapFailRecovery(c) ==
    /\ First(c)
    /\ c.status = "recovering"
    /\ Mutate(c.run, "fail", c.revision, FailPermitted(c.run, c.fencing_token),
              fail(runs[c.run], "fatal"))
    /\ Handled(c)

Recoverable(c) == c.stage \in RecoveryStages /\ c.planned

\* The cleanup is followed by _restart_recovery of the run it returned.
ReapCleanup(c) ==
    /\ First(c)
    /\ c.status = "running"
    /\ Recoverable(c)
    /\ Mutate(c.run, "cleanup", c.revision, CleanupPermitted(c.run, c.fencing_token),
              cleanup(runs[c.run], "retryable"))
    /\ sweep' = (sweep \ {c}) \cup {Snapshot(c.run, runs'[c.run])}

ReapFail(c) ==
    /\ First(c)
    /\ c.status = "running"
    /\ ~Recoverable(c)
    /\ Mutate(c.run, "fail", c.revision, FailPermitted(c.run, c.fencing_token),
              fail(runs[c.run], "retryable"))
    /\ Handled(c)

ReapRejected(c) ==
    LET r == c.run IN
    CASE c.status = "cleanup-required" ->
            ~Accepts(r, "recover", c.revision, RecoverPermitted(r, Reaper),
                     recover(runs[r], Reaper, LeaseTerm))
      [] c.status = "running" /\ Recoverable(c) ->
            ~Accepts(r, "cleanup", c.revision, CleanupPermitted(r, c.fencing_token),
                     cleanup(runs[r], "retryable"))
      [] OTHER ->
            ~Accepts(r, "fail", c.revision, FailPermitted(r, c.fencing_token),
                     fail(runs[r], "fatal"))

ReapAbort(c) ==
    /\ First(c)
    /\ ReapRejected(c)
    /\ sweep' = {}
    /\ UNCHANGED <<runs, locks, dedupe, outbox>>

ReapStep ==
    \E c \in sweep :
        \/ \E ttl \in Terms : ReapRecover(c, ttl)
        \/ ReapFailRecovery(c)
        \/ ReapCleanup(c)
        \/ ReapFail(c)
        \/ ReapAbort(c)

-----------------------------------------------------------------------------
\* Time passes for every live lease.
Tick ==
    /\ \E r \in Runs : runs[r].lease.ttl > 0
    /\ runs' = [r \in Runs |-> [runs[r] EXCEPT !.lease.ttl = IF @ > 0 THEN @ - 1 ELSE 0]]
    /\ UNCHANGED <<locks, dedupe, outbox, sweep>>

Init ==
    /\ runs = [r \in Runs |-> AbsentRun]
    /\ locks = [c \in Credentials |-> NoRun]
    /\ dedupe = [e \in SourceEvents |-> NoRun]
    /\ outbox = [r \in Runs |-> {}]
    /\ sweep = {}

\* A command sent by worker w about run r, from the revision it believes in. One
\* from another revision is rejected whatever else it carries (Accepts), so the
\* rest is chosen after that check.
Command(r, w, revision) ==
    /\ runs[r].revision = revision
    /\ \/ \E ttl \in Terms :
            \/ Start(r, w, revision, ttl)
            \/ Resume(r, w, revision, ttl)
            \/ Recover(r, w, revision, ttl)
            \/ \E token \in Tokens(r) : Renew(r, w, revision, token, ttl)
       \/ \E token \in Tokens(r) :
            \/ \E stage \in Stage : \E names \in SUBSET AllowedBindings(stage) :
                    Complete(r, revision, token, stage, names)
            \/ Pause(r, revision, token)
            \/ \E failure \in Failure :
                    Cleanup(r, revision, token, failure) \/ Fail(r, revision, token, failure)
            \/ \E mode \in RecoveryMode : CompleteRecovery(r, revision, token, mode)
       \/ Cancel(r, revision)

Next ==
    \/ \E r \in Runs, c \in Credentials, e \in SourceEvents : Create(r, c, e)
    \/ \E r \in Runs, w \in Workers : \E revision \in Revisions(r) : Command(r, w, revision)
    \/ ReapScan
    \/ ReapStep
    \/ Tick

Spec == Init /\ [][Next]_vars

\* Clocks advance, and Cloud Scheduler calls the reaper every minute with
\* retries. No command of a worker or an operator is ever guaranteed.
Fairness == WF_vars(Tick) /\ WF_vars(ReapScan) /\ WF_vars(ReapStep)

FairSpec == Spec /\ Fairness

-----------------------------------------------------------------------------
(* Properties *)

SweepCandidate ==
    [run : Runs, status : RunStatus, stage : Stage, planned : BOOLEAN,
     revision : Nat, fencing_token : Nat]

\* Every document has its contract's type (contracts/run.py).
TypeOK ==
    /\ runs \in [Runs -> Run]
    /\ locks \in [Credentials -> Runs \cup {NoRun}]
    /\ dedupe \in [SourceEvents -> Runs \cup {NoRun}]
    /\ outbox \in [Runs -> SUBSET Nat]
    /\ sweep \subseteq SweepCandidate

Active(run) == run.status \in RunStatus \ Releasing

\* The lock of a credential (firestore.py create and mutate) names exactly the
\* one run of that credential that is not over: two rotations never work on a
\* credential at once, a run that is over never keeps the credential, and
\* cancelling a failed run never frees the lock its successor holds.
CredentialExclusive ==
    \A r \in Runs, c \in Credentials :
        locks[c] = r <=> (runs[r].credential = c /\ Active(runs[r]))

\* A trigger delivered again, under a fresh run id and possibly after its run
\* ended, never opens a second run (the dedupe document of firestore.py create).
OneRunPerTrigger ==
    \A r, q \in Runs : Exists(r) /\ Exists(q) /\ runs[r].event = runs[q].event => r = q

\* A run that is under way always carries the lease it was last granted, so
\* that _interrupt_control can always end it once that lease runs out; a run
\* that waits to start or is over carries none, so no old holder controls it.
LeaseWhileUnderWay ==
    \A r \in Runs :
        IF runs[r].status \in {"running", "paused", "recovering", "cleanup-required"}
        THEN /\ runs[r].lease \in Lease
             /\ runs[r].lease.fencing_token = runs[r].fencing_token
             /\ runs[r].fencing_token > 0
        ELSE runs[r].lease = NoLease

\* A recovery stays bound to the stage whose work was interrupted, and only an
\* interruption with recorded failure details ever gets there (machine.py recover).
RecoveryBound ==
    \A r \in Runs :
        runs[r].status \in {"recovering", "compensated"} =>
            /\ runs[r].recovery_stage = runs[r].stage
            /\ runs[r].recovery_failure # NoFailure

\* No stage is entered before everything earlier stages must bind is bound
\* (machine.py _bindings): a run in deploy has its plan and target generation.
BindingsBeforeUse ==
    \A r \in Runs : \A s \in Stage :
        s < runs[r].stage => RequiredBindings(s) \subseteq runs[r].bound

\* The outbox holds one event for every revision of a run and for no other:
\* the delivery cursor of core/storage/outbox.py moves one revision at a time
\* and would wait for ever at a gap.
OutboxGapless ==
    \A r \in Runs : outbox[r] = IF Exists(r) THEN 0..runs[r].revision ELSE {}

\* A fencing token never goes back and never passes to another owner: work
\* queued under an earlier holder is recognisable by its token (README,
\* "fencing tokens reject stale workers").
FenceNeverShared ==
    [][\A r \in Runs :
        /\ runs'[r].fencing_token >= runs[r].fencing_token
        /\ (/\ runs[r].lease # NoLease
            /\ runs'[r].lease # NoLease
            /\ runs'[r].lease.owner # runs[r].lease.owner) =>
                runs'[r].fencing_token > runs[r].fencing_token
        /\ (runs[r].lease = NoLease /\ runs'[r].lease # NoLease) =>
                runs'[r].fencing_token > runs[r].fencing_token]_vars

\* What is over stays over: a completed, compensated or cancelled run never
\* changes again and a failed one can only be abandoned (machine.py).
OverStaysOver ==
    [][\A r \in Runs :
        /\ runs[r].status \in {"completed", "compensated", "cancelled"} => runs'[r] = runs[r]
        /\ runs[r].status = "failed" =>
                runs'[r] = runs[r] \/ runs'[r].status = "cancelled"]_vars

\* A run moves through its stages one at a time and never back, whatever
\* pauses, interruptions and recoveries come between, and only while its
\* worker's lease is live (machine.py complete).
StageByStage ==
    [][\A r \in Runs :
        runs'[r].stage # runs[r].stage =>
            /\ runs'[r].stage = runs[r].stage + 1
            /\ runs[r].status = "running"
            /\ runs[r].lease.ttl > 0]_vars

\* A worker that keeps its lease alive is not interrupted by the reaper, even
\* though the reaper presents the run's own fencing token (steps.py reap_expired).
ReaperSparesLiveWork ==
    [][\A c \in sweep :
        (sweep' # sweep /\ runs' # runs /\ runs[c.run].status \in {"running", "recovering"}) =>
            runs[c.run].lease.ttl = 0 \/ runs'[c.run] = runs[c.run]]_vars

Stranded(r) ==
    \/ runs[r].status = "cleanup-required"
    \/ runs[r].status \in {"running", "recovering"} /\ runs[r].lease.ttl = 0

\* Interrupted work is always picked up: a run whose lease ran out, or that
\* waits for cleanup, does not stay so (steps.py reap_expired).
StrandedIsReaped == \A r \in Runs : Stranded(r) ~> ~Stranded(r)

\* machine.py recover admits failed runs ("only interrupted work can recover")
\* and server/tests/unit/state/test.py recovers one.
FailedRunCanRecover ==
    \A r \in Runs : \A w \in Workers :
        runs[r].status = "failed" =>
            Accepts(r, "recover", runs[r].revision, RecoverPermitted(r, w),
                    recover(runs[r], w, LeaseTerm))

=============================================================================
