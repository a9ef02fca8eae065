--------------------------- MODULE RotationRunsProofs ---------------------------
(***************************************************************************)
(* Proofs about RotationRuns for any sets of runs, credentials, triggers    *)
(* and workers and any bounds.                                              *)
(*                                                                         *)
(* Every command ends in one transaction that replaces one run by its       *)
(* successor. A first group of lemmas shows, command by command, what the   *)
(* state machine makes of a sound run; NextSteps then reduces every step of *)
(* the specification to a creation, such a write, a clock tick or a step of *)
(* the reaper alone, and the invariants are proved once for each of these.  *)
(***************************************************************************)
EXTENDS RotationRuns, TLAPS

USE RunsAssumption, ReaperAssumption, AbsentAssumption, LeaseTermAssumption,
    MaxRevisionAssumption

UnderWay == {"running", "paused", "recovering", "cleanup-required"}

LeaseSound(run) ==
    IF run.status \in UnderWay
    THEN /\ run.lease \in Lease
         /\ run.lease.fencing_token = run.fencing_token
         /\ run.fencing_token > 0
    ELSE run.lease = NoLease

RecoverySound(run) ==
    run.status \in {"recovering", "compensated"} =>
        run.recovery_stage = run.stage /\ run.recovery_failure # NoFailure

FailureSound(run) ==
    run.status \in {"failed", "cleanup-required"} => run.failure # NoFailure

BindingsSound(run) ==
    \A s \in Stage : s < run.stage => RequiredBindings(s) \subseteq run.bound

\* The part of the inductive invariant that speaks of one existing run.
RunSound(run) ==
    /\ run.status \in RunStatus
    /\ run.credential \in Credentials
    /\ run.event \in SourceEvents
    /\ LeaseSound(run)
    /\ RecoverySound(run)
    /\ FailureSound(run)
    /\ BindingsSound(run)

\* What a command keeps of a run.
Succession(run, updated) ==
    /\ updated \in Run
    /\ updated.credential = run.credential
    /\ updated.event = run.event
    /\ updated.revision = run.revision

FenceStep(run, updated) ==
    /\ updated.fencing_token >= run.fencing_token
    /\ updated.lease # NoLease =>
        \/ updated.fencing_token > run.fencing_token
        \/ run.lease # NoLease /\ updated.lease.owner = run.lease.owner

StageStep(run, updated) ==
    updated.stage # run.stage =>
        updated.stage = run.stage + 1 /\ run.status = "running" /\ run.lease.ttl > 0

\* What a permitted command makes of a sound run.
Progress(run, updated) ==
    /\ Succession(run, updated)
    /\ RunSound(updated)
    /\ FenceStep(run, updated)
    /\ StageStep(run, updated)

-----------------------------------------------------------------------------
(* What the state machine makes of a run *)

LEMMA GrantFacts ==
    ASSUME NEW run \in Run, NEW w \in Workers, NEW ttl \in Nat
    PROVE  LET g == grant(run, w, ttl) IN
           /\ g \in Run
           /\ g.lease \in Lease
           /\ g.lease.fencing_token = g.fencing_token
           /\ g.fencing_token = run.fencing_token + 1
           /\ g.status = run.status /\ g.credential = run.credential /\ g.event = run.event
           /\ g.stage = run.stage /\ g.bound = run.bound /\ g.failure = run.failure
           /\ g.recovery_stage = run.recovery_stage /\ g.recovery_mode = run.recovery_mode
           /\ g.recovery_failure = run.recovery_failure /\ g.revision = run.revision
<1> DEFINE l == [owner |-> w, fencing_token |-> run.fencing_token + 1, ttl |-> ttl]
           g == [run EXCEPT !.lease = l, !.fencing_token = run.fencing_token + 1]
<1>1. run.fencing_token + 1 \in Nat
  BY DEF Run
<1>2. l \in Lease /\ l.fencing_token = run.fencing_token + 1
  BY <1>1 DEF Lease
<1> HIDE DEF l
<1>3. g \in Run /\ g.lease = l /\ g.fencing_token = run.fencing_token + 1
  BY <1>1, <1>2 DEF Run
<1>4. /\ g.status = run.status /\ g.credential = run.credential /\ g.event = run.event
      /\ g.stage = run.stage /\ g.bound = run.bound /\ g.failure = run.failure
      /\ g.recovery_stage = run.recovery_stage /\ g.recovery_mode = run.recovery_mode
      /\ g.recovery_failure = run.recovery_failure /\ g.revision = run.revision
  BY DEF Run
<1>5. grant(run, w, ttl) = g
  BY DEF grant, l
<1> HIDE DEF g
<1> QED
  BY <1>2, <1>3, <1>4, <1>5

LEMMA StartProgress ==
    ASSUME NEW run \in Run, NEW w \in Workers, NEW ttl \in Nat, RunSound(run)
    PROVE  Progress(run, start(run, w, ttl))
<1> DEFINE g == grant(run, w, ttl)
           u == [g EXCEPT !.status = "running"]
<1>1. g \in Run
  BY GrantFacts
<1>2. /\ g.lease \in Lease /\ g.lease.fencing_token = g.fencing_token
      /\ g.fencing_token = run.fencing_token + 1
      /\ g.credential = run.credential /\ g.event = run.event
      /\ g.stage = run.stage /\ g.bound = run.bound /\ g.revision = run.revision
  BY GrantFacts
<1> HIDE DEF g
<1>3. /\ u \in Run /\ u.status = "running" /\ u.lease = g.lease
      /\ u.fencing_token = g.fencing_token
      /\ u.credential = g.credential /\ u.event = g.event /\ u.stage = g.stage
      /\ u.bound = g.bound /\ u.revision = g.revision
  BY <1>1 DEF Run, RunStatus
<1> HIDE DEF u
<1>4. run.fencing_token \in Nat
  BY DEF Run
<1>5. RunSound(u)
  BY <1>2, <1>3, <1>4 DEF RunSound, LeaseSound, RecoverySound, FailureSound, BindingsSound,
     UnderWay, RunStatus
<1>6. Progress(run, u)
  BY <1>2, <1>3, <1>4, <1>5 DEF Progress, Succession, FenceStep, StageStep
<1> QED
  BY <1>6 DEF start, u, g

LEMMA ResumeProgress ==
    ASSUME NEW run \in Run, NEW w \in Workers, NEW ttl \in Nat, RunSound(run)
    PROVE  Progress(run, resume(run, w, ttl))
  BY StartProgress DEF start, resume

\* The part of recover that does not concern the lease.
bind_recovery(run, stage, failure) ==
    [run EXCEPT !.status = "recovering", !.failure = NoFailure,
                !.recovery_stage = stage, !.recovery_failure = failure]

LEMMA BindRecoveryFacts ==
    ASSUME NEW g \in Run, NEW s \in Stage, NEW f \in Failure \cup {NoFailure}
    PROVE  LET u == bind_recovery(g, s, f) IN
           /\ u \in Run /\ u.status = "recovering" /\ u.lease = g.lease
           /\ u.fencing_token = g.fencing_token
           /\ u.credential = g.credential /\ u.event = g.event /\ u.stage = g.stage
           /\ u.bound = g.bound /\ u.revision = g.revision
           /\ u.recovery_stage = s /\ u.recovery_failure = f
<1> DEFINE v == [g EXCEPT !.status = "recovering", !.failure = NoFailure]
           u == bind_recovery(g, s, f)
<1>1. v \in Run
  BY DEF Run, RunStatus
<1>2. [v EXCEPT !.recovery_stage = s, !.recovery_failure = f] \in Run
  BY <1>1 DEF Run
<1>3. u = [v EXCEPT !.recovery_stage = s, !.recovery_failure = f]
  BY DEF Run, bind_recovery
<1>4. /\ u.status = "recovering" /\ u.lease = g.lease
      /\ u.fencing_token = g.fencing_token
      /\ u.credential = g.credential /\ u.event = g.event /\ u.stage = g.stage
      /\ u.bound = g.bound /\ u.revision = g.revision
      /\ u.recovery_stage = s /\ u.recovery_failure = f
  BY DEF Run, bind_recovery
<1> QED
  BY <1>2, <1>3, <1>4

LEMMA RecoverProgress ==
    ASSUME NEW run \in Run, NEW w \in Workers, NEW ttl \in Nat, RunSound(run),
           run.status \in {"failed", "cleanup-required"}
    PROVE  Progress(run, recover(run, w, ttl))
<1> DEFINE g == grant(run, w, ttl)
           u == bind_recovery(g, run.stage, run.failure)
<1>1. g \in Run
  BY GrantFacts
<1>2. /\ g.lease \in Lease /\ g.lease.fencing_token = g.fencing_token
      /\ g.fencing_token = run.fencing_token + 1
      /\ g.credential = run.credential /\ g.event = run.event
      /\ g.stage = run.stage /\ g.bound = run.bound /\ g.revision = run.revision
  BY GrantFacts
<1>3. /\ run.stage \in Stage /\ run.failure \in Failure \cup {NoFailure}
      /\ run.failure # NoFailure /\ run.fencing_token \in Nat
  BY DEF Run, RunSound, FailureSound
<1>4. recover(run, w, ttl) = u
  BY DEF recover, bind_recovery
<1> HIDE DEF g
<1>5. /\ u \in Run /\ u.status = "recovering" /\ u.lease = g.lease
      /\ u.fencing_token = g.fencing_token
      /\ u.credential = g.credential /\ u.event = g.event /\ u.stage = g.stage
      /\ u.bound = g.bound /\ u.revision = g.revision
      /\ u.recovery_stage = run.stage /\ u.recovery_failure = run.failure
  BY <1>1, <1>3, BindRecoveryFacts
<1> HIDE DEF u
<1>6. RunSound(u)
  BY <1>2, <1>3, <1>5 DEF RunSound, LeaseSound, RecoverySound, FailureSound, BindingsSound,
     UnderWay, RunStatus
<1> QED
  BY <1>2, <1>3, <1>4, <1>5, <1>6 DEF Progress, Succession, FenceStep, StageStep

LEMMA RenewProgress ==
    ASSUME NEW run \in Run, NEW ttl \in Nat, RunSound(run), run.lease # NoLease
    PROVE  Progress(run, renew(run, ttl))
<1> DEFINE l == [run.lease EXCEPT !.ttl = ttl]
           u == [run EXCEPT !.lease = l]
<1>1. run.status \in UnderWay /\ run.lease \in Lease
  BY DEF RunSound, LeaseSound
<1>2. l \in Lease /\ l.owner = run.lease.owner /\ l.fencing_token = run.lease.fencing_token
  BY <1>1 DEF Lease
<1> HIDE DEF l
<1>3. /\ u \in Run /\ u.lease = l /\ u.status = run.status
      /\ u.fencing_token = run.fencing_token
      /\ u.credential = run.credential /\ u.event = run.event /\ u.stage = run.stage
      /\ u.bound = run.bound /\ u.revision = run.revision /\ u.failure = run.failure
      /\ u.recovery_stage = run.recovery_stage /\ u.recovery_failure = run.recovery_failure
  BY <1>2 DEF Run
<1>4. renew(run, ttl) = u
  BY DEF renew, u, l
<1> HIDE DEF u
<1>5. run.fencing_token \in Nat
  BY DEF Run
<1>6. RunSound(u)
  BY <1>1, <1>2, <1>3 DEF RunSound, LeaseSound, RecoverySound, FailureSound, BindingsSound
<1> QED
  BY <1>2, <1>3, <1>4, <1>5, <1>6 DEF Progress, Succession, FenceStep, StageStep

LEMMA CompleteProgress ==
    ASSUME NEW run \in Run, NEW names \in SUBSET Binding, RunSound(run),
           run.status = "running", run.lease # NoLease, ~Expired(run.lease),
           bindings_allowed(run, names)
    PROVE  Progress(run, complete(run, names))
<1>0. run.fencing_token \in Nat /\ run.stage \in Stage /\ run.lease.ttl > 0
  <2>1. run.lease \in Lease
    BY DEF Run
  <2> QED
    BY <2>1 DEF Run, Lease, Expired
<1>1. CASE run.stage = COMPLETE
  <2> DEFINE u == [run EXCEPT !.status = "completed", !.lease = NoLease, !.bound = @ \cup names]
  <2>1. /\ u \in Run /\ u.lease = NoLease /\ u.status = "completed"
        /\ u.fencing_token = run.fencing_token
        /\ u.credential = run.credential /\ u.event = run.event /\ u.stage = run.stage
        /\ u.bound = run.bound \cup names /\ u.revision = run.revision
    BY DEF Run, RunStatus
  <2>2. complete(run, names) = u
    BY <1>1 DEF complete
  <2> HIDE DEF u
  <2>3. RunSound(u)
    BY <2>1 DEF RunSound, LeaseSound, RecoverySound, FailureSound, BindingsSound,
       UnderWay, RunStatus
  <2> QED
    BY <1>0, <2>1, <2>2, <2>3 DEF Progress, Succession, FenceStep, StageStep
<1>2. CASE run.stage # COMPLETE
  <2> DEFINE u == [run EXCEPT !.stage = @ + 1, !.bound = @ \cup names]
  <2>1. run.stage + 1 \in Stage
    BY <1>0, <1>2 DEF Stage, COMPLETE
  <2>2. /\ u \in Run /\ u.lease = run.lease /\ u.status = run.status
        /\ u.fencing_token = run.fencing_token
        /\ u.credential = run.credential /\ u.event = run.event /\ u.stage = run.stage + 1
        /\ u.bound = run.bound \cup names /\ u.revision = run.revision
    BY <2>1 DEF Run
  <2>3. complete(run, names) = u
    BY <1>2 DEF complete
  <2> HIDE DEF u
  <2>4. BindingsSound(u)
    <3> SUFFICES ASSUME NEW s \in Stage, s < u.stage
                 PROVE  RequiredBindings(s) \subseteq u.bound
      BY DEF BindingsSound
    <3>1. CASE s = run.stage
      BY <3>1, <2>2 DEF bindings_allowed
    <3>2. CASE s < run.stage
      BY <3>2, <2>2 DEF RunSound, BindingsSound
    <3> QED
      BY <1>0, <2>2, <3>1, <3>2 DEF Stage
  <2>5. RunSound(u)
    BY <2>2, <2>4 DEF RunSound, LeaseSound, RecoverySound, FailureSound, UnderWay
  <2> QED
    BY <1>0, <2>2, <2>3, <2>5 DEF Progress, Succession, FenceStep, StageStep
<1> QED
  BY <1>1, <1>2

LEMMA PauseProgress ==
    ASSUME NEW run \in Run, RunSound(run), run.lease # NoLease
    PROVE  Progress(run, pause(run))
<1> DEFINE u == [run EXCEPT !.status = "paused"]
<1>1. /\ u \in Run /\ u.lease = run.lease /\ u.status = "paused"
      /\ u.fencing_token = run.fencing_token
      /\ u.credential = run.credential /\ u.event = run.event /\ u.stage = run.stage
      /\ u.bound = run.bound /\ u.revision = run.revision
  BY DEF Run, RunStatus
<1>2. pause(run) = u
  BY DEF pause
<1> HIDE DEF u
<1>3. RunSound(u)
  BY <1>1 DEF RunSound, LeaseSound, RecoverySound, FailureSound, BindingsSound,
     UnderWay, RunStatus
<1>4. run.fencing_token \in Nat
  BY DEF Run
<1> QED
  BY <1>1, <1>2, <1>3, <1>4 DEF Progress, Succession, FenceStep, StageStep

LEMMA CleanupProgress ==
    ASSUME NEW run \in Run, NEW failure \in Failure, RunSound(run), run.lease # NoLease
    PROVE  Progress(run, cleanup(run, failure))
<1> DEFINE u == [run EXCEPT !.status = "cleanup-required", !.failure = failure]
<1>1. /\ u \in Run /\ u.lease = run.lease /\ u.status = "cleanup-required"
      /\ u.failure = failure /\ u.fencing_token = run.fencing_token
      /\ u.credential = run.credential /\ u.event = run.event /\ u.stage = run.stage
      /\ u.bound = run.bound /\ u.revision = run.revision
  BY DEF Run, RunStatus
<1>2. cleanup(run, failure) = u
  BY DEF cleanup
<1> HIDE DEF u
<1>3. RunSound(u)
  BY <1>1 DEF RunSound, LeaseSound, RecoverySound, FailureSound, BindingsSound,
     UnderWay, RunStatus, Failure, NoFailure
<1>4. run.fencing_token \in Nat
  BY DEF Run
<1> QED
  BY <1>1, <1>2, <1>3, <1>4 DEF Progress, Succession, FenceStep, StageStep

LEMMA UnbindFacts ==
    ASSUME NEW run \in Run
    PROVE  LET b == unbind_recovery(run) IN
           /\ b \in Run
           /\ b.lease = run.lease /\ b.fencing_token = run.fencing_token
           /\ b.credential = run.credential /\ b.event = run.event /\ b.stage = run.stage
           /\ b.bound = run.bound /\ b.revision = run.revision
  BY DEF unbind_recovery, Run

\* A run that gives up its lease: what fail and cancel have in common.
LEMMA ReleaseProgress ==
    ASSUME NEW run \in Run, RunSound(run), NEW b \in Run,
           /\ b.credential = run.credential /\ b.event = run.event /\ b.stage = run.stage
           /\ b.bound = run.bound /\ b.revision = run.revision,
           b.lease = NoLease, b.fencing_token >= run.fencing_token,
           \/ b.status = "failed" /\ b.failure # NoFailure
           \/ b.status = "cancelled"
    PROVE  Progress(run, b)
<1>1. RunSound(b)
  BY DEF RunSound, LeaseSound, RecoverySound, FailureSound, BindingsSound,
     UnderWay, RunStatus
<1> QED
  BY <1>1 DEF Progress, Succession, FenceStep, StageStep

\* Ending a document, with or without a new token, changes four of its fields.
Ended(b, status, token, failure) ==
    [b EXCEPT !.status = status, !.lease = NoLease,
              !.fencing_token = token, !.failure = failure]

LEMMA EndedFacts ==
    ASSUME NEW b \in Run, NEW status \in RunStatus, NEW token \in Nat,
           NEW failure \in Failure \cup {NoFailure}
    PROVE  LET u == Ended(b, status, token, failure)
           IN /\ u \in Run /\ u.lease = NoLease /\ u.status = status
              /\ u.failure = failure /\ u.fencing_token = token
              /\ u.credential = b.credential /\ u.event = b.event /\ u.stage = b.stage
              /\ u.bound = b.bound /\ u.revision = b.revision
<1> DEFINE u == Ended(b, status, token, failure)
<1>1. u \in Run
  BY DEF Ended, Run
<1>2. u.lease = NoLease /\ u.status = status /\ u.failure = failure /\ u.fencing_token = token
  BY DEF Ended, Run
<1>3. /\ u.credential = b.credential /\ u.event = b.event /\ u.stage = b.stage
      /\ u.bound = b.bound /\ u.revision = b.revision
  BY DEF Ended, Run
<1> QED
  BY <1>1, <1>2, <1>3

LEMMA FailProgress ==
    ASSUME NEW run \in Run, NEW failure \in Failure, RunSound(run)
    PROVE  Progress(run, fail(run, failure))
<1> DEFINE b == IF run.status = "recovering" THEN unbind_recovery(run) ELSE run
           u == Ended(b, "failed", b.fencing_token, failure)
<1>1. /\ b \in Run /\ b.fencing_token = run.fencing_token
      /\ b.credential = run.credential /\ b.event = run.event /\ b.stage = run.stage
      /\ b.bound = run.bound /\ b.revision = run.revision
  BY UnbindFacts
<1>2. fail(run, failure) = [b EXCEPT !.status = "failed", !.failure = failure, !.lease = NoLease]
  BY DEF fail
<1> HIDE DEF b
<1>3. b.fencing_token \in Nat /\ run.fencing_token \in Nat
  BY <1>1 DEF Run
<1>4. fail(run, failure) = u
  BY <1>1, <1>2 DEF Ended, Run
<1>5. "failed" \in RunStatus /\ failure \in Failure \cup {NoFailure}
  BY DEF RunStatus
<1>6. /\ u \in Run /\ u.lease = NoLease /\ u.status = "failed" /\ u.failure = failure
      /\ u.fencing_token = b.fencing_token
      /\ u.credential = b.credential /\ u.event = b.event /\ u.stage = b.stage
      /\ u.bound = b.bound /\ u.revision = b.revision
  BY <1>1, <1>3, <1>5, EndedFacts
<1> HIDE DEF u
<1>7. failure # NoFailure
  BY DEF Failure, NoFailure
<1>8. Progress(run, u)
  BY <1>1, <1>3, <1>6, <1>7, ReleaseProgress
<1> QED
  BY <1>4, <1>8

LEMMA CancelProgress ==
    ASSUME NEW run \in Run, RunSound(run)
    PROVE  Progress(run, cancel(run)) /\ cancel(run).status = "cancelled"
<1> DEFINE b == unbind_recovery(run)
           u == Ended(b, "cancelled", b.fencing_token + 1, NoFailure)
<1>1. /\ b \in Run /\ b.fencing_token = run.fencing_token
      /\ b.credential = run.credential /\ b.event = run.event /\ b.stage = run.stage
      /\ b.bound = run.bound /\ b.revision = run.revision
  BY UnbindFacts
<1>2. cancel(run) = u
  BY DEF cancel, Ended
<1> HIDE DEF b
<1>3. b.fencing_token + 1 \in Nat /\ run.fencing_token \in Nat
  BY <1>1 DEF Run
<1>4. "cancelled" \in RunStatus
  BY DEF RunStatus
<1>5. /\ u \in Run /\ u.lease = NoLease /\ u.status = "cancelled"
      /\ u.fencing_token = b.fencing_token + 1
      /\ u.credential = b.credential /\ u.event = b.event /\ u.stage = b.stage
      /\ u.bound = b.bound /\ u.revision = b.revision
  BY <1>1, <1>3, <1>4, EndedFacts
<1> HIDE DEF u
<1>6. Progress(run, u)
  BY <1>1, <1>3, <1>5, ReleaseProgress
<1> QED
  BY <1>2, <1>5, <1>6

LEMMA CompleteRecoveryProgress ==
    ASSUME NEW run \in Run, NEW mode \in RecoveryMode, RunSound(run),
           run.status = "recovering"
    PROVE  Progress(run, complete_recovery(run, mode))
<1>0. run.fencing_token \in Nat
  BY DEF Run
<1>1. CASE mode = "retry"
  <2> DEFINE b == unbind_recovery(run)
             u == [b EXCEPT !.status = "running"]
  <2>1. /\ b \in Run /\ b.lease = run.lease /\ b.fencing_token = run.fencing_token
        /\ b.credential = run.credential /\ b.event = run.event /\ b.stage = run.stage
        /\ b.bound = run.bound /\ b.revision = run.revision
    BY UnbindFacts
  <2>2. complete_recovery(run, mode) = u
    BY <1>1 DEF complete_recovery
  <2> HIDE DEF b
  <2>3. /\ u \in Run /\ u.lease = b.lease /\ u.status = "running"
        /\ u.fencing_token = b.fencing_token
        /\ u.credential = b.credential /\ u.event = b.event /\ u.stage = b.stage
        /\ u.bound = b.bound /\ u.revision = b.revision
    BY <2>1 DEF Run, RunStatus
  <2> HIDE DEF u
  <2>4. RunSound(u)
    BY <2>1, <2>3 DEF RunSound, LeaseSound, RecoverySound, FailureSound, BindingsSound,
       UnderWay, RunStatus
  <2> QED
    BY <1>0, <2>1, <2>2, <2>3, <2>4 DEF Progress, Succession, FenceStep, StageStep
<1>2. CASE mode # "retry"
  <2> DEFINE u == [run EXCEPT !.status = "compensated", !.lease = NoLease,
                              !.recovery_mode = mode]
  <2>1. /\ u \in Run /\ u.lease = NoLease /\ u.status = "compensated"
        /\ u.fencing_token = run.fencing_token
        /\ u.credential = run.credential /\ u.event = run.event /\ u.stage = run.stage
        /\ u.bound = run.bound /\ u.revision = run.revision
        /\ u.recovery_stage = run.recovery_stage /\ u.recovery_failure = run.recovery_failure
    BY DEF Run, RunStatus
  <2>2. complete_recovery(run, mode) = u
    BY <1>2 DEF complete_recovery
  <2> HIDE DEF u
  <2>3. RunSound(u)
    BY <2>1 DEF RunSound, LeaseSound, RecoverySound, FailureSound, BindingsSound,
       UnderWay, RunStatus
  <2> QED
    BY <1>0, <2>1, <2>2, <2>3 DEF Progress, Succession, FenceStep, StageStep
<1> QED
  BY <1>1, <1>2

-----------------------------------------------------------------------------
(* Every step is a creation, the write of a sound successor, a tick, or a   *)
(* step of the reaper that writes no document.                              *)

Sound == \A r \in Runs : IF Exists(r) THEN RunSound(runs[r]) ELSE runs[r] = AbsentRun

TriggerBound ==
    \A r \in Runs, e \in SourceEvents :
        dedupe[e] = r <=> (Exists(r) /\ runs[r].event = e)

\* The inductive invariant.
IInv ==
    /\ TypeOK
    /\ Sound
    /\ CredentialExclusive
    /\ TriggerBound
    /\ OutboxGapless

Committed(r, updated) ==
    /\ Exists(r)
    /\ HoldsLock(r) \/ (runs[r].status = "failed" /\ updated.status = "cancelled")
    /\ Progress(runs[r], updated)
    /\ Write(r, updated)

LEMMA MutateCommits ==
    ASSUME IInv, NEW r \in Runs, NEW op, op # "cancel", NEW revision, NEW permitted, NEW updated,
           Mutate(r, op, revision, permitted, updated),
           (Exists(r) /\ runs[r] \in Run /\ RunSound(runs[r]) /\ permitted) =>
                Progress(runs[r], updated)
    PROVE  Committed(r, updated)
  BY DEF Mutate, Accepts, Committed, IInv, TypeOK, Sound

LEMMA CommandCommits ==
    ASSUME IInv, NEW r \in Runs, NEW w \in Workers, NEW revision \in Revisions(r),
           Command(r, w, revision)
    PROVE  (\E u : Committed(r, u)) /\ UNCHANGED sweep
<1>0. runs[r] \in Run /\ Terms \subseteq Nat
  BY DEF IInv, TypeOK, Terms
<1>1. ASSUME NEW ttl \in Terms, Start(r, w, revision, ttl)
      PROVE  (\E u : Committed(r, u)) /\ UNCHANGED sweep
  <2>1. Committed(r, start(runs[r], w, ttl))
    BY <1>0, <1>1, StartProgress, MutateCommits DEF Start
  <2> QED
    BY <1>1, <2>1 DEF Start
<1>2. ASSUME NEW ttl \in Terms, Resume(r, w, revision, ttl)
      PROVE  (\E u : Committed(r, u)) /\ UNCHANGED sweep
  <2>1. Committed(r, resume(runs[r], w, ttl))
    BY <1>0, <1>2, ResumeProgress, MutateCommits DEF Resume
  <2> QED
    BY <1>2, <2>1 DEF Resume
<1>3. ASSUME NEW ttl \in Terms, Recover(r, w, revision, ttl)
      PROVE  (\E u : Committed(r, u)) /\ UNCHANGED sweep
  <2>1. Committed(r, recover(runs[r], w, ttl))
    BY <1>0, <1>3, RecoverProgress, MutateCommits DEF Recover, RecoverPermitted
  <2> QED
    BY <1>3, <2>1 DEF Recover
<1>4. ASSUME NEW ttl \in Terms, NEW token \in Tokens(r), Renew(r, w, revision, token, ttl)
      PROVE  (\E u : Committed(r, u)) /\ UNCHANGED sweep
  <2>1. Committed(r, renew(runs[r], ttl))
    BY <1>0, <1>4, RenewProgress, MutateCommits DEF Renew, control
  <2> QED
    BY <1>4, <2>1 DEF Renew
<1>5. ASSUME NEW token \in Tokens(r), NEW stage \in Stage,
             NEW names \in SUBSET AllowedBindings(stage),
             Complete(r, revision, token, stage, names)
      PROVE  (\E u : Committed(r, u)) /\ UNCHANGED sweep
  <2>1. names \in SUBSET Binding
    BY DEF AllowedBindings, RequiredBindings, Binding
  <2>2. Committed(r, complete(runs[r], names))
    BY <1>0, <1>5, <2>1, CompleteProgress, MutateCommits DEF Complete, control
  <2> QED
    BY <1>5, <2>2 DEF Complete
<1>6. ASSUME NEW token \in Tokens(r), Pause(r, revision, token)
      PROVE  (\E u : Committed(r, u)) /\ UNCHANGED sweep
  <2>1. Committed(r, pause(runs[r]))
    BY <1>0, <1>6, PauseProgress, MutateCommits DEF Pause, control
  <2> QED
    BY <1>6, <2>1 DEF Pause
<1>7. ASSUME NEW token \in Tokens(r), NEW failure \in Failure, Cleanup(r, revision, token, failure)
      PROVE  (\E u : Committed(r, u)) /\ UNCHANGED sweep
  <2>1. Committed(r, cleanup(runs[r], failure))
    BY <1>0, <1>7, CleanupProgress, MutateCommits
       DEF Cleanup, CleanupPermitted, interrupt_control
  <2> QED
    BY <1>7, <2>1 DEF Cleanup
<1>8. ASSUME NEW token \in Tokens(r), NEW failure \in Failure, Fail(r, revision, token, failure)
      PROVE  (\E u : Committed(r, u)) /\ UNCHANGED sweep
  <2>1. Committed(r, fail(runs[r], failure))
    BY <1>0, <1>8, FailProgress, MutateCommits DEF Fail
  <2> QED
    BY <1>8, <2>1 DEF Fail
<1>9. ASSUME NEW token \in Tokens(r), NEW mode \in RecoveryMode,
             CompleteRecovery(r, revision, token, mode)
      PROVE  (\E u : Committed(r, u)) /\ UNCHANGED sweep
  <2>1. Committed(r, complete_recovery(runs[r], mode))
    BY <1>0, <1>9, CompleteRecoveryProgress, MutateCommits DEF CompleteRecovery
  <2> QED
    BY <1>9, <2>1 DEF CompleteRecovery
<1>10. ASSUME Cancel(r, revision)
       PROVE  (\E u : Committed(r, u)) /\ UNCHANGED sweep
  <2>1. Exists(r) /\ RunSound(runs[r])
    BY <1>10 DEF Cancel, Mutate, Accepts, IInv, Sound
  <2>2. Committed(r, cancel(runs[r]))
    BY <1>0, <1>10, <2>1, CancelProgress DEF Cancel, Mutate, Accepts, Committed
  <2> QED
    BY <1>10, <2>2 DEF Cancel
<1> QED
  BY <1>1, <1>2, <1>3, <1>4, <1>5, <1>6, <1>7, <1>8, <1>9, <1>10 DEF Command

LEMMA ReapCommits ==
    ASSUME IInv, NEW c \in sweep,
           \/ \E ttl \in Terms : ReapRecover(c, ttl)
           \/ ReapFailRecovery(c)
           \/ ReapCleanup(c)
           \/ ReapFail(c)
    PROVE  \E u : Committed(c.run, u)
<1>0. c.run \in Runs /\ runs[c.run] \in Run /\ Terms \subseteq Nat
  <2>1. c \in SweepCandidate
    BY DEF IInv, TypeOK
  <2>2. c.run \in Runs
    BY <2>1 DEF SweepCandidate
  <2>3. runs[c.run] \in Run
    BY <2>2 DEF IInv, TypeOK
  <2>4. Terms \subseteq Nat
    BY DEF Terms
  <2> QED
    BY <2>2, <2>3, <2>4
<1>1. ASSUME NEW ttl \in Terms, ReapRecover(c, ttl)
      PROVE  Committed(c.run, recover(runs[c.run], Reaper, ttl))
  BY <1>0, <1>1, RecoverProgress, MutateCommits DEF ReapRecover, RecoverPermitted
<1>2. ASSUME ReapFailRecovery(c)
      PROVE  Committed(c.run, fail(runs[c.run], "fatal"))
  BY <1>0, <1>2, FailProgress, MutateCommits DEF ReapFailRecovery, Failure
<1>3. ASSUME ReapCleanup(c)
      PROVE  Committed(c.run, cleanup(runs[c.run], "retryable"))
  BY <1>0, <1>3, CleanupProgress, MutateCommits
     DEF ReapCleanup, CleanupPermitted, interrupt_control, Failure
<1>4. ASSUME ReapFail(c)
      PROVE  Committed(c.run, fail(runs[c.run], "retryable"))
  BY <1>0, <1>4, FailProgress, MutateCommits DEF ReapFail, Failure
<1> QED
  BY <1>1, <1>2, <1>3, <1>4

LEMMA NextSteps ==
    ASSUME IInv, Next
    PROVE  \/ \E r \in Runs, k \in Credentials, e \in SourceEvents : Create(r, k, e)
           \/ \E r \in Runs : \E u : Committed(r, u)
           \/ Tick
           \/ UNCHANGED <<runs, locks, dedupe, outbox>>
<1>1. CASE \E r \in Runs, w \in Workers : \E revision \in Revisions(r) : Command(r, w, revision)
  BY <1>1, CommandCommits
<1>2. CASE ReapStep
  <2>1. PICK c \in sweep : \/ \E ttl \in Terms : ReapRecover(c, ttl)
                          \/ ReapFailRecovery(c)
                          \/ ReapCleanup(c)
                          \/ ReapFail(c)
                          \/ ReapAbort(c)
    BY <1>2 DEF ReapStep
  <2>2. CASE ReapAbort(c)
    BY <2>2 DEF ReapAbort
  <2>3. c.run \in Runs
    <3>1. c \in SweepCandidate
      BY DEF IInv, TypeOK
    <3> QED
      BY <3>1 DEF SweepCandidate
  <2> QED
    BY <2>1, <2>2, <2>3, ReapCommits
<1>3. CASE ReapScan
  BY <1>3 DEF ReapScan
<1> QED
  BY <1>1, <1>2, <1>3 DEF Next

-----------------------------------------------------------------------------
(* The invariant, one kind of step at a time *)

LEMMA AbsentRunType == AbsentRun \in Run /\ AbsentRun.status = "absent"
                       /\ AbsentRun.credential = NoCredential /\ AbsentRun.event = NoEvent
                       /\ AbsentRun.revision = 0
  BY DEF AbsentRun, Run, RunStatus, Stage, TRIGGER, NoStage, NoMode, NoFailure

LEMMA InitInvariant == Init => IInv
<1> SUFFICES ASSUME Init PROVE IInv
  OBVIOUS
<1>1. \A r \in Runs : runs[r] = AbsentRun /\ ~Exists(r)
  BY AbsentRunType DEF Init, Exists
<1>2. TypeOK
  BY AbsentRunType DEF Init, TypeOK
<1>3. Sound
  BY <1>1 DEF Sound
<1>4. CredentialExclusive
  BY <1>1, AbsentRunType DEF Init, CredentialExclusive, Active, RunStatus, NoRun
<1>5. TriggerBound
  BY <1>1 DEF Init, TriggerBound, NoRun
<1>6. OutboxGapless
  BY <1>1 DEF Init, OutboxGapless
<1> QED
  BY <1>2, <1>3, <1>4, <1>5, <1>6 DEF IInv

\* The run document FirestoreRunRepository.create writes.
new_run(k, e) ==
    [AbsentRun EXCEPT !.status = "pending", !.credential = k, !.event = e]

LEMMA NewRunFacts ==
    ASSUME NEW k \in Credentials, NEW e \in SourceEvents
    PROVE  /\ new_run(k, e) \in Run /\ new_run(k, e).status = "pending"
           /\ new_run(k, e).credential = k /\ new_run(k, e).event = e
           /\ new_run(k, e).revision = 0 /\ RunSound(new_run(k, e))
<1> DEFINE n == new_run(k, e)
           a == AbsentRun
<1>0. /\ a \in Run /\ a.revision = 0 /\ a.lease = NoLease /\ a.stage = 1
      /\ a.fencing_token = 0
  BY AbsentRunType DEF AbsentRun, TRIGGER
<1> HIDE DEF a
<1>1. n = [a EXCEPT !.status = "pending", !.credential = k, !.event = e]
  BY DEF new_run, a
<1> HIDE DEF n
<1>2. n \in Run
  BY <1>0, <1>1 DEF Run, RunStatus
<1>3. /\ n.status = "pending" /\ n.credential = k /\ n.event = e /\ n.revision = 0
      /\ n.lease = NoLease /\ n.stage = 1
  BY <1>0, <1>1 DEF Run
<1>4. BindingsSound(n)
  BY <1>3 DEF BindingsSound, Stage
<1>5. LeaseSound(n) /\ RecoverySound(n) /\ FailureSound(n) /\ n.status \in RunStatus
  BY <1>3 DEF LeaseSound, RecoverySound, FailureSound, UnderWay, RunStatus
<1>6. RunSound(n)
  BY <1>2, <1>3, <1>4, <1>5 DEF RunSound
<1> QED
  BY <1>2, <1>3, <1>6 DEF n

LEMMA CreateInvariant ==
    ASSUME IInv, NEW r \in Runs, NEW k \in Credentials, NEW e \in SourceEvents,
           Create(r, k, e)
    PROVE  IInv'
<1> DEFINE n == new_run(k, e)
<1>1. /\ n \in Run /\ n.status = "pending" /\ n.credential = k /\ n.event = e
      /\ n.revision = 0 /\ RunSound(n)
  BY NewRunFacts
<1>2. /\ runs' = [runs EXCEPT ![r] = n]
      /\ outbox' = [outbox EXCEPT ![r] = {0}]
      /\ locks' = [locks EXCEPT ![k] = r]
      /\ dedupe' = [dedupe EXCEPT ![e] = r]
      /\ sweep' = sweep
      /\ dedupe[e] = NoRun /\ locks[k] = NoRun /\ ~Exists(r)
  BY DEF Create, new_run
<1> HIDE DEF n
<1>3. TypeOK'
  BY <1>1, <1>2 DEF IInv, TypeOK
<1>4. /\ runs'[r] = n
      /\ \A q \in Runs \ {r} : runs'[q] = runs[q]
  BY <1>2 DEF IInv, TypeOK
<1>5. Sound'
  BY <1>1, <1>4 DEF IInv, Sound, Exists
<1>6. CredentialExclusive'
  <2> SUFFICES ASSUME NEW q \in Runs, NEW c \in Credentials
               PROVE  locks'[c] = q <=> (runs'[q].credential = c /\ Active(runs'[q]))
    BY DEF CredentialExclusive
  <2>1. /\ locks[c] = q <=> (runs[q].credential = c /\ Active(runs[q]))
        /\ locks[k] = q <=> (runs[q].credential = k /\ Active(runs[q]))
        /\ locks[c] = r <=> (runs[r].credential = c /\ Active(runs[r]))
    BY DEF IInv, CredentialExclusive
  <2>2. locks'[k] = r /\ \A d \in Credentials \ {k} : locks'[d] = locks[d]
    BY <1>2 DEF IInv, TypeOK
  <2>3. ~Active(runs[r]) /\ Active(n)
    BY <1>1, <1>2 DEF Active, Exists, RunStatus, Releasing
  <2>4. CASE q = r
    BY <1>1, <1>4, <2>1, <2>2, <2>3, <2>4
  <2>5. CASE q # r
    BY <1>2, <1>4, <2>1, <2>2, <2>5 DEF NoRun
  <2> QED
    BY <2>4, <2>5
<1>7. TriggerBound'
  <2> SUFFICES ASSUME NEW q \in Runs, NEW d \in SourceEvents
               PROVE  dedupe'[d] = q <=> (Exists(q)' /\ runs'[q].event = d)
    BY DEF TriggerBound
  <2>1. /\ dedupe[d] = q <=> (Exists(q) /\ runs[q].event = d)
        /\ dedupe[e] = q <=> (Exists(q) /\ runs[q].event = e)
        /\ dedupe[d] = r <=> (Exists(r) /\ runs[r].event = d)
    BY DEF IInv, TriggerBound
  <2>2. dedupe'[e] = r /\ \A x \in SourceEvents \ {e} : dedupe'[x] = dedupe[x]
    BY <1>2 DEF IInv, TypeOK
  <2>3. CASE q = r
    BY <1>1, <1>2, <1>4, <2>1, <2>2, <2>3 DEF Exists
  <2>4. CASE q # r
    BY <1>2, <1>4, <2>1, <2>2, <2>4 DEF NoRun, Exists
  <2> QED
    BY <2>3, <2>4
<1>8. OutboxGapless'
  <2>1. outbox'[r] = {0} /\ \A q \in Runs \ {r} : outbox'[q] = outbox[q]
    BY <1>2 DEF IInv, TypeOK
  <2>2. 0..0 = {0}
    OBVIOUS
  <2>3. n.status # "absent" /\ outbox'[r] = 0..n.revision
    BY <1>1, <2>1, <2>2
  <2> QED
    BY <1>4, <2>1, <2>3 DEF IInv, OutboxGapless, Exists
<1> QED
  BY <1>3, <1>5, <1>6, <1>7, <1>8 DEF IInv

LEMMA CommitEffects ==
    ASSUME IInv, NEW r \in Runs, NEW updated, Committed(r, updated)
    PROVE  /\ runs'[r] \in Run
           /\ runs' = [runs EXCEPT ![r] = runs'[r]]
           /\ \A q \in Runs \ {r} : runs'[q] = runs[q]
           /\ RunSound(runs'[r])
           /\ runs[r] \in Run /\ RunSound(runs[r])
           /\ runs'[r].revision = runs[r].revision + 1
           /\ runs'[r].credential = runs[r].credential
           /\ runs'[r].event = runs[r].event
           /\ runs'[r].status = updated.status
           /\ runs'[r].stage = updated.stage
           /\ runs'[r].lease = updated.lease
           /\ runs'[r].fencing_token = updated.fencing_token
<1> DEFINE n == [updated EXCEPT !.revision = @ + 1]
<1>1. Exists(r) /\ Progress(runs[r], updated) /\ runs' = [runs EXCEPT ![r] = n]
  BY DEF Committed, Write
<1>2. runs[r] \in Run /\ RunSound(runs[r])
  BY <1>1 DEF IInv, TypeOK, Sound
<1>3. /\ updated \in Run /\ updated.credential = runs[r].credential
      /\ updated.event = runs[r].event /\ updated.revision = runs[r].revision
      /\ RunSound(updated)
  BY <1>1 DEF Progress, Succession
<1>4. n \in Run
  BY <1>3 DEF Run
<1>5. /\ n.revision = runs[r].revision + 1 /\ n.status = updated.status
      /\ n.credential = runs[r].credential /\ n.event = runs[r].event
      /\ n.stage = updated.stage /\ n.lease = updated.lease /\ n.bound = updated.bound
      /\ n.fencing_token = updated.fencing_token /\ n.failure = updated.failure
      /\ n.recovery_stage = updated.recovery_stage
      /\ n.recovery_failure = updated.recovery_failure
  BY <1>3 DEF Run
<1> HIDE DEF n
<1>6. RunSound(n)
  BY <1>3, <1>5 DEF RunSound, LeaseSound, RecoverySound, FailureSound, BindingsSound
<1>7. /\ runs'[r] = n
      /\ \A q \in Runs \ {r} : runs'[q] = runs[q]
  BY <1>1 DEF IInv, TypeOK
<1> QED
  BY <1>1, <1>2, <1>4, <1>5, <1>6, <1>7

LEMMA CommitInvariant ==
    ASSUME IInv, NEW r \in Runs, NEW updated, Committed(r, updated),
           sweep' \subseteq SweepCandidate
    PROVE  IInv'
<1> DEFINE n == runs'[r]
<1>1. /\ Exists(r)
      /\ HoldsLock(r) \/ (runs[r].status = "failed" /\ updated.status = "cancelled")
      /\ outbox' = [outbox EXCEPT ![r] = @ \cup {runs[r].revision + 1}]
      /\ locks' = IF HoldsLock(r) /\ updated.status \in Releasing
                  THEN [locks EXCEPT ![runs[r].credential] = NoRun] ELSE locks
      /\ dedupe' = dedupe
  BY DEF Committed, Write
<1>2. runs' = [runs EXCEPT ![r] = n]
  BY CommitEffects
<1>3. n \in Run /\ runs[r] \in Run
  BY CommitEffects
<1>4. /\ runs[r].revision \in Nat /\ runs[r].credential \in Credentials
      /\ runs[r].status \in RunStatus
  <2>1. RunSound(runs[r])
    BY CommitEffects
  <2> QED
    BY <1>3, <2>1 DEF Run, RunSound
<1>6. /\ n.revision = runs[r].revision + 1 /\ n.status = updated.status
      /\ n.credential = runs[r].credential /\ n.event = runs[r].event
  BY CommitEffects
<1>7. RunSound(n)
  BY CommitEffects
<1>9. /\ runs'[r] = n
      /\ \A q \in Runs \ {r} : runs'[q] = runs[q]
  BY CommitEffects
<1> HIDE DEF n
<1>8. n.status # "absent"
  BY <1>7 DEF RunSound, RunStatus
<1>10. TypeOK'
  <2>1. runs' \in [Runs -> Run]
    BY <1>2, <1>3 DEF IInv, TypeOK
  <2>2. outbox' \in [Runs -> SUBSET Nat]
    <3>1. outbox[r] \cup {runs[r].revision + 1} \in SUBSET Nat
      BY <1>4 DEF IInv, TypeOK
    <3> QED
      BY <1>1, <3>1 DEF IInv, TypeOK
  <2>3. locks' \in [Credentials -> Runs \cup {NoRun}]
    BY <1>1 DEF IInv, TypeOK
  <2> QED
    BY <1>1, <2>1, <2>2, <2>3 DEF IInv, TypeOK
<1>11. Sound'
  BY <1>7, <1>8, <1>9 DEF IInv, Sound, Exists
<1>12. CredentialExclusive'
  <2> SUFFICES ASSUME NEW q \in Runs, NEW c \in Credentials
               PROVE  locks'[c] = q <=> (runs'[q].credential = c /\ Active(runs'[q]))
    BY DEF CredentialExclusive
  <2> DEFINE k == runs[r].credential
  <2>1. /\ locks[c] = q <=> (runs[q].credential = c /\ Active(runs[q]))
        /\ locks[k] = q <=> (runs[q].credential = k /\ Active(runs[q]))
        /\ locks[c] = r <=> (k = c /\ Active(runs[r]))
        /\ locks[k] = r <=> Active(runs[r])
    BY <1>4 DEF IInv, CredentialExclusive
  <2>2. HoldsLock(r) <=> locks[k] = r
    BY <1>4 DEF HoldsLock
  <2>3. n.status \in RunStatus /\ (Active(n) <=> updated.status \notin Releasing)
    BY <1>6, <1>7 DEF RunSound, Active
  <2>4. ~HoldsLock(r) => ~Active(runs[r]) /\ ~Active(n)
    BY <1>1, <2>1, <2>2, <2>3 DEF Releasing
  <2>5. CASE HoldsLock(r) /\ updated.status \in Releasing
    <3>1. locks'[k] = NoRun /\ \A d \in Credentials \ {k} : locks'[d] = locks[d]
      BY <1>1, <1>4, <2>5 DEF IInv, TypeOK
    <3>2. CASE q = r
      BY <1>6, <1>9, <2>1, <2>2, <2>3, <2>5, <3>1, <3>2 DEF NoRun
    <3>3. CASE q # r
      BY <1>9, <2>1, <2>2, <2>5, <3>1, <3>3 DEF NoRun
    <3> QED
      BY <3>2, <3>3
  <2>6. CASE ~(HoldsLock(r) /\ updated.status \in Releasing)
    <3>1. locks' = locks
      BY <1>1, <2>6
    <3>2. Active(n) <=> Active(runs[r])
      BY <2>1, <2>2, <2>3, <2>4, <2>6
    <3> QED
      BY <1>6, <1>9, <2>1, <3>1, <3>2
  <2> QED
    BY <2>5, <2>6
<1>13. TriggerBound'
  <2> SUFFICES ASSUME NEW q \in Runs, NEW d \in SourceEvents
               PROVE  dedupe'[d] = q <=> (Exists(q)' /\ runs'[q].event = d)
    BY DEF TriggerBound
  <2>1. dedupe[d] = q <=> (Exists(q) /\ runs[q].event = d)
    BY DEF IInv, TriggerBound
  <2> QED
    BY <1>1, <1>6, <1>8, <1>9, <2>1 DEF Exists
<1>14. OutboxGapless'
  <2>1. outbox[r] = 0..runs[r].revision
    BY <1>1 DEF IInv, OutboxGapless
  <2>2. outbox'[r] = outbox[r] \cup {n.revision}
    BY <1>1, <1>6 DEF IInv, TypeOK
  <2>3. outbox'[r] = 0..n.revision
    BY <1>4, <1>6, <2>1, <2>2
  <2>4. \A q \in Runs \ {r} : outbox'[q] = outbox[q]
    BY <1>1 DEF IInv, TypeOK
  <2> QED
    BY <1>8, <1>9, <2>3, <2>4 DEF IInv, OutboxGapless, Exists
<1> QED
  BY <1>10, <1>11, <1>12, <1>13, <1>14 DEF IInv

\* A run after one tick of the clock.
aged(run) == [run EXCEPT !.lease.ttl = IF @ > 0 THEN @ - 1 ELSE 0]

LEMMA AgedFacts ==
    ASSUME NEW run \in Run
    PROVE  /\ aged(run) \in Run
           /\ aged(run).status = run.status /\ aged(run).credential = run.credential
           /\ aged(run).event = run.event /\ aged(run).stage = run.stage
           /\ aged(run).fencing_token = run.fencing_token /\ aged(run).bound = run.bound
           /\ aged(run).failure = run.failure /\ aged(run).revision = run.revision
           /\ aged(run).recovery_stage = run.recovery_stage
           /\ aged(run).recovery_failure = run.recovery_failure
           /\ run.lease = NoLease => aged(run) = run
           /\ run.lease # NoLease =>
                /\ run.lease \in Lease /\ aged(run).lease \in Lease
                /\ aged(run).lease.owner = run.lease.owner
                /\ aged(run).lease.fencing_token = run.lease.fencing_token
<1> DEFINE l == [run.lease EXCEPT !.ttl = IF @ > 0 THEN @ - 1 ELSE 0]
           n == [run EXCEPT !.lease = l]
<1>1. aged(run) = n
  BY DEF aged
<1>2. run.lease \in Lease \cup {NoLease}
  BY DEF Run
<1>3. run.lease = NoLease => l = NoLease
  BY DEF NoLease
<1>4. run.lease \in Lease => /\ l \in Lease /\ l.owner = run.lease.owner
                             /\ l.fencing_token = run.lease.fencing_token
  BY DEF Lease
<1> HIDE DEF l
<1>5. n \in Run /\ n.lease = l
  BY <1>2, <1>3, <1>4 DEF Run
<1>6. /\ n.status = run.status /\ n.credential = run.credential
      /\ n.event = run.event /\ n.stage = run.stage
      /\ n.fencing_token = run.fencing_token /\ n.bound = run.bound
      /\ n.failure = run.failure /\ n.revision = run.revision
      /\ n.recovery_stage = run.recovery_stage
      /\ n.recovery_failure = run.recovery_failure
  BY DEF Run
<1>7. l = run.lease => n = run
  BY DEF Run
<1> HIDE DEF n
<1> QED
  BY <1>1, <1>2, <1>3, <1>4, <1>5, <1>6, <1>7

LEMMA TickInvariant ==
    ASSUME IInv, Tick
    PROVE  IInv'
<1>1. /\ runs' = [r \in Runs |-> aged(runs[r])]
      /\ locks' = locks /\ dedupe' = dedupe /\ outbox' = outbox /\ sweep' = sweep
  BY DEF Tick, aged
<1>2. \A r \in Runs : runs[r] \in Run /\ runs'[r] = aged(runs[r])
  BY <1>1 DEF IInv, TypeOK
<1>3. \A r \in Runs : /\ runs'[r] \in Run /\ runs'[r].status = runs[r].status
                     /\ runs'[r].credential = runs[r].credential
                     /\ runs'[r].event = runs[r].event
                     /\ runs'[r].revision = runs[r].revision
  BY <1>2, AgedFacts
<1>4. TypeOK'
  BY <1>1, <1>3 DEF IInv, TypeOK
<1>5. Sound'
  <2> SUFFICES ASSUME NEW r \in Runs
               PROVE  IF Exists(r)' THEN RunSound(runs'[r]) ELSE runs'[r] = AbsentRun
    BY DEF Sound
  <2>1. Exists(r)' <=> Exists(r)
    BY <1>3 DEF Exists
  <2>2. CASE ~Exists(r)
    <3>1. runs[r] = AbsentRun
      BY <2>2 DEF IInv, Sound
    <3>2. runs[r].lease = NoLease
      BY <3>1 DEF AbsentRun
    <3> QED
      BY <1>2, <2>1, <2>2, <3>1, <3>2, AgedFacts
  <2>3. CASE Exists(r)
    <3> DEFINE a == aged(runs[r])
    <3>1. runs[r] \in Run /\ RunSound(runs[r])
      BY <1>2, <2>3 DEF IInv, Sound
    <3>2. /\ a.status = runs[r].status /\ a.credential = runs[r].credential
          /\ a.event = runs[r].event /\ a.stage = runs[r].stage
          /\ a.fencing_token = runs[r].fencing_token /\ a.bound = runs[r].bound
          /\ a.failure = runs[r].failure
          /\ a.recovery_stage = runs[r].recovery_stage
          /\ a.recovery_failure = runs[r].recovery_failure
      BY <3>1, AgedFacts
    <3>3. LeaseSound(a)
      <4>1. CASE runs[r].lease = NoLease
        BY <3>1, <4>1, AgedFacts DEF RunSound
      <4>2. CASE runs[r].lease # NoLease
        <5>1. /\ a.lease \in Lease
              /\ a.lease.fencing_token = runs[r].lease.fencing_token
          BY <3>1, <4>2, AgedFacts
        <5> HIDE DEF a
        <5> QED
          BY <3>1, <3>2, <4>2, <5>1 DEF RunSound, LeaseSound
      <4> QED
        BY <4>1, <4>2
    <3> HIDE DEF a
    <3>4. RunSound(a)
      BY <3>1, <3>2, <3>3 DEF RunSound, RecoverySound, FailureSound, BindingsSound
    <3> QED
      BY <1>2, <2>1, <2>3, <3>4 DEF a
  <2> QED
    BY <2>2, <2>3
<1>6. CredentialExclusive'
  BY <1>1, <1>3 DEF IInv, CredentialExclusive, Active
<1>7. TriggerBound'
  BY <1>1, <1>3 DEF IInv, TriggerBound, Exists
<1>8. OutboxGapless'
  BY <1>1, <1>3 DEF IInv, OutboxGapless, Exists
<1> QED
  BY <1>4, <1>5, <1>6, <1>7, <1>8 DEF IInv

-----------------------------------------------------------------------------
(* The reaper's snapshots *)

LEMMA SnapshotType ==
    ASSUME NEW r \in Runs, NEW run \in Run, run.status \in RunStatus
    PROVE  Snapshot(r, run) \in SweepCandidate
  BY DEF Snapshot, SweepCandidate, Run

\* A step of the reaper about c commits one run and forgets c; only ReapCleanup
\* keeps the run in hand, as the cleanup left it.
LEMMA ReapSweep ==
    ASSUME NEW c \in sweep,
           \/ \E ttl \in Terms : ReapRecover(c, ttl)
           \/ ReapFailRecovery(c)
           \/ ReapCleanup(c)
           \/ ReapFail(c)
    PROVE  /\ runs[c.run].revision = c.revision
           /\ \/ sweep' = sweep \ {c}
              \/ /\ sweep' = (sweep \ {c}) \cup {Snapshot(c.run, runs'[c.run])}
                 /\ ReapCleanup(c)
  BY DEF ReapRecover, ReapFailRecovery, ReapCleanup, ReapFail, Handled, Mutate, Accepts

LEMMA SweepType ==
    ASSUME IInv, Next
    PROVE  sweep' \subseteq SweepCandidate
<1>0. sweep \subseteq SweepCandidate
  BY DEF IInv, TypeOK
<1>1. ASSUME NEW r \in Runs, NEW k \in Credentials, NEW e \in SourceEvents, Create(r, k, e)
      PROVE  sweep' = sweep
  BY <1>1 DEF Create
<1>2. ASSUME NEW r \in Runs, NEW w \in Workers, NEW revision \in Revisions(r),
             Command(r, w, revision)
      PROVE  sweep' = sweep
  BY <1>2, CommandCommits
<1>3. CASE ReapScan
  <2> SUFFICES ASSUME NEW r \in Runs, Candidate(r)
               PROVE  Snapshot(r, runs[r]) \in SweepCandidate
    BY <1>3 DEF ReapScan
  <2>1. runs[r] \in Run /\ runs[r].status \in RunStatus
    BY DEF IInv, TypeOK, Candidate, RunStatus
  <2> QED
    BY <2>1, SnapshotType
<1>4. CASE ReapStep
  <2>1. PICK c \in sweep : \/ \E ttl \in Terms : ReapRecover(c, ttl)
                          \/ ReapFailRecovery(c)
                          \/ ReapCleanup(c)
                          \/ ReapFail(c)
                          \/ ReapAbort(c)
    BY <1>4 DEF ReapStep
  <2>2. CASE ReapAbort(c)
    BY <2>2 DEF ReapAbort
  <2>3. CASE ~ReapAbort(c)
    <3>1. c.run \in Runs
      BY <1>0 DEF SweepCandidate
    <3>2. PICK u : Committed(c.run, u)
      BY <2>1, <2>3, ReapCommits
    <3>3. runs'[c.run] \in Run /\ RunSound(runs'[c.run])
      BY <3>1, <3>2, CommitEffects
    <3>4. Snapshot(c.run, runs'[c.run]) \in SweepCandidate
      BY <3>1, <3>3, SnapshotType DEF RunSound
    <3> QED
      BY <1>0, <2>1, <2>3, <3>4, ReapSweep
  <2> QED
    BY <2>2, <2>3
<1>5. CASE Tick
  BY <1>0, <1>5 DEF Tick
<1> QED
  BY <1>0, <1>1, <1>2, <1>3, <1>4, <1>5 DEF Next

LEMMA NextInvariant == IInv /\ [Next]_vars => IInv'
<1> SUFFICES ASSUME IInv, [Next]_vars PROVE IInv'
  OBVIOUS
<1>1. CASE UNCHANGED vars
  BY <1>1 DEF vars, IInv, TypeOK, Sound, CredentialExclusive, TriggerBound, OutboxGapless, Exists
<1>2. CASE Next
  <2>1. sweep' \subseteq SweepCandidate
    BY <1>2, SweepType
  <2>2. CASE \E r \in Runs, k \in Credentials, e \in SourceEvents : Create(r, k, e)
    BY <2>2, CreateInvariant
  <2>3. CASE \E r \in Runs : \E u : Committed(r, u)
    BY <2>1, <2>3, CommitInvariant
  <2>4. CASE Tick
    BY <2>4, TickInvariant
  <2>5. CASE UNCHANGED <<runs, locks, dedupe, outbox>>
    BY <2>1, <2>5 DEF IInv, TypeOK, Sound, CredentialExclusive, TriggerBound, OutboxGapless, Exists
  <2> QED
    BY <1>2, <2>2, <2>3, <2>4, <2>5, NextSteps
<1> QED
  BY <1>1, <1>2

LEMMA Invariance == Spec => []IInv
<1>1. Init => IInv
  BY InitInvariant
<1>2. IInv /\ [Next]_vars => IInv'
  BY NextInvariant
<1> QED
  BY <1>1, <1>2, PTL DEF Spec

-----------------------------------------------------------------------------
(* The invariants *)

\* Whatever commands arrive, in whatever order and however stale, every run,
\* lock and dedupe document of core/storage/firestore.py keeps its contract.
THEOREM TypeCorrect == Spec => []TypeOK
<1>1. IInv => TypeOK
  BY DEF IInv
<1> QED
  BY <1>1, Invariance, PTL

\* For any number of runs and workers, a credential's lock names exactly the one
\* run of that credential that is not over (firestore.py create and mutate).
THEOREM CredentialIsExclusive == Spec => []CredentialExclusive
<1>1. IInv => CredentialExclusive
  BY DEF IInv
<1> QED
  BY <1>1, Invariance, PTL

\* A trigger opens at most one run, however often and however late it is
\* delivered again (the dedupe document of firestore.py create).
THEOREM TriggerOpensOneRun == Spec => []OneRunPerTrigger
<1>1. IInv => OneRunPerTrigger
  <2> SUFFICES ASSUME IInv, NEW r \in Runs, NEW q \in Runs, Exists(r), Exists(q),
                      runs[r].event = runs[q].event
               PROVE  r = q
    BY DEF OneRunPerTrigger
  <2>1. runs[r].event \in SourceEvents
    BY DEF IInv, Sound, RunSound
  <2>2. dedupe[runs[r].event] = r /\ dedupe[runs[r].event] = q
    BY <2>1 DEF IInv, TriggerBound
  <2> QED
    BY <2>2
<1> QED
  BY <1>1, Invariance, PTL

\* A run under way carries the lease it was last granted, every other run none
\* (machine.py, every transition).
THEOREM LeaseAccompaniesWork == Spec => []LeaseWhileUnderWay
<1>1. IInv => LeaseWhileUnderWay
  <2> SUFFICES ASSUME IInv, NEW r \in Runs PROVE LeaseSound(runs[r])
    BY DEF LeaseWhileUnderWay, LeaseSound, UnderWay
  <2>1. CASE Exists(r)
    BY <2>1 DEF IInv, Sound, RunSound
  <2>2. CASE ~Exists(r)
    BY <2>2 DEF IInv, Sound, LeaseSound, UnderWay, AbsentRun
  <2> QED
    BY <2>1, <2>2
<1> QED
  BY <1>1, Invariance, PTL

\* A recovery is of the stage that was interrupted and knows the failure
\* (machine.py recover, complete_recovery).
THEOREM RecoveryIsBound == Spec => []RecoveryBound
<1>1. IInv => RecoveryBound
  <2> SUFFICES ASSUME IInv, NEW r \in Runs, runs[r].status \in {"recovering", "compensated"}
               PROVE  RecoverySound(runs[r])
    BY DEF RecoveryBound, RecoverySound
  <2> QED
    BY DEF IInv, Sound, RunSound, Exists
<1> QED
  BY <1>1, Invariance, PTL

\* No stage is entered before the earlier ones bound what they must
\* (machine.py _bindings).
THEOREM BindingsPrecedeUse == Spec => []BindingsBeforeUse
<1>1. IInv => BindingsBeforeUse
  <2> SUFFICES ASSUME IInv, NEW r \in Runs PROVE BindingsSound(runs[r])
    BY DEF BindingsBeforeUse, BindingsSound
  <2>1. CASE Exists(r)
    BY <2>1 DEF IInv, Sound, RunSound
  <2>2. CASE ~Exists(r)
    <3>1. runs[r].stage = 1
      BY <2>2 DEF IInv, Sound, AbsentRun, TRIGGER
    <3> QED
      BY <3>1 DEF BindingsSound, Stage
  <2> QED
    BY <2>1, <2>2
<1> QED
  BY <1>1, Invariance, PTL

\* The outbox holds one event for every revision of a run and no other
\* (firestore.py create and mutate).
THEOREM OutboxHasNoGap == Spec => []OutboxGapless
<1>1. IInv => OutboxGapless
  BY DEF IInv
<1> QED
  BY <1>1, Invariance, PTL

-----------------------------------------------------------------------------
(* What a step may never do *)

\* The action of FenceNeverShared, OverStaysOver and StageByStage for one run.
FenceKept(r) ==
    /\ runs'[r].fencing_token >= runs[r].fencing_token
    /\ (/\ runs[r].lease # NoLease
        /\ runs'[r].lease # NoLease
        /\ runs'[r].lease.owner # runs[r].lease.owner) =>
            runs'[r].fencing_token > runs[r].fencing_token
    /\ (runs[r].lease = NoLease /\ runs'[r].lease # NoLease) =>
            runs'[r].fencing_token > runs[r].fencing_token

OverKept(r) ==
    /\ runs[r].status \in {"completed", "compensated", "cancelled"} => runs'[r] = runs[r]
    /\ runs[r].status = "failed" =>
            runs'[r] = runs[r] \/ runs'[r].status = "cancelled"

StageKept(r) ==
    runs'[r].stage # runs[r].stage =>
        /\ runs'[r].stage = runs[r].stage + 1
        /\ runs[r].status = "running"
        /\ runs[r].lease.ttl > 0

LEMMA StutterKeeps ==
    ASSUME IInv, NEW r \in Runs, runs'[r] = runs[r]
    PROVE  FenceKept(r) /\ OverKept(r) /\ StageKept(r)
<1>1. runs[r].fencing_token \in Nat
  BY DEF IInv, TypeOK, Run
<1> QED
  BY <1>1 DEF FenceKept, OverKept, StageKept

LEMMA CommitKeeps ==
    ASSUME IInv, NEW r \in Runs, NEW u, Committed(r, u)
    PROVE  FenceKept(r) /\ OverKept(r) /\ StageKept(r)
<1>1. /\ FenceStep(runs[r], u) /\ StageStep(runs[r], u)
      /\ HoldsLock(r) \/ (runs[r].status = "failed" /\ u.status = "cancelled")
  BY DEF Committed, Progress
<1>2. /\ runs'[r].status = u.status /\ runs'[r].stage = u.stage
      /\ runs'[r].lease = u.lease /\ runs'[r].fencing_token = u.fencing_token
  BY CommitEffects
<1>3. FenceKept(r)
  BY <1>1, <1>2 DEF FenceKept, FenceStep
<1>4. StageKept(r)
  BY <1>1, <1>2 DEF StageKept, StageStep
<1>5. OverKept(r)
  <2>1. CASE HoldsLock(r)
    <3>1. Active(runs[r])
      BY <2>1 DEF HoldsLock, IInv, CredentialExclusive
    <3> QED
      BY <3>1 DEF Active, OverKept, Releasing
  <2>2. CASE runs[r].status = "failed" /\ u.status = "cancelled"
    BY <1>2, <2>2 DEF OverKept
  <2> QED
    BY <1>1, <2>1, <2>2
<1> QED
  BY <1>3, <1>4, <1>5

LEMMA CreateKeeps ==
    ASSUME IInv, NEW r \in Runs, NEW k \in Credentials, NEW e \in SourceEvents, Create(r, k, e)
    PROVE  FenceKept(r) /\ OverKept(r) /\ StageKept(r)
<1> DEFINE a == AbsentRun
<1>1. /\ a \in Run /\ a.status = "absent" /\ a.lease = NoLease
  BY AbsentRunType DEF AbsentRun
<1>2. runs[r] = a /\ runs'[r] = [a EXCEPT !.status = "pending", !.credential = k, !.event = e]
  BY DEF Create, IInv, TypeOK, Sound
<1> HIDE DEF a
<1>3. /\ runs'[r].lease = NoLease /\ runs'[r].fencing_token = runs[r].fencing_token
      /\ runs'[r].stage = runs[r].stage /\ runs[r].fencing_token \in Nat
  BY <1>1, <1>2 DEF Run
<1>4. runs[r].status = "absent"
  BY <1>1, <1>2
<1> QED
  BY <1>3, <1>4 DEF FenceKept, OverKept, StageKept

LEMMA TickKeeps ==
    ASSUME IInv, NEW r \in Runs, Tick
    PROVE  FenceKept(r) /\ OverKept(r) /\ StageKept(r)
<1>1. runs[r] \in Run /\ runs'[r] = aged(runs[r])
  BY DEF Tick, aged, IInv, TypeOK
<1>2. CASE runs[r].lease = NoLease
  BY <1>1, <1>2, AgedFacts, StutterKeeps
<1>3. CASE runs[r].lease # NoLease
  <2>1. /\ runs'[r].lease.owner = runs[r].lease.owner
        /\ runs'[r].fencing_token = runs[r].fencing_token
        /\ runs'[r].stage = runs[r].stage
    BY <1>1, <1>3, AgedFacts
  <2>2. runs[r].fencing_token \in Nat
    BY <1>1 DEF Run
  <2>3. runs[r].status \in UnderWay
    <3>1. CASE Exists(r)
      BY <1>3, <3>1 DEF IInv, Sound, RunSound, LeaseSound
    <3>2. CASE ~Exists(r)
      BY <1>3, <3>2 DEF IInv, Sound, AbsentRun
    <3> QED
      BY <3>1, <3>2
  <2> QED
    BY <1>3, <2>1, <2>2, <2>3 DEF FenceKept, OverKept, StageKept, UnderWay
<1> QED
  BY <1>2, <1>3

LEMMA StepKeeps ==
    ASSUME IInv, [Next]_vars, NEW r \in Runs
    PROVE  FenceKept(r) /\ OverKept(r) /\ StageKept(r)
<1>1. CASE UNCHANGED vars
  BY <1>1, StutterKeeps DEF vars
<1>2. CASE Next
  <2>1. ASSUME NEW q \in Runs, NEW k \in Credentials, NEW e \in SourceEvents, Create(q, k, e)
        PROVE  FenceKept(r) /\ OverKept(r) /\ StageKept(r)
    <3>1. q # r => runs'[r] = runs[r]
      BY <2>1 DEF Create, IInv, TypeOK
    <3> QED
      BY <2>1, <3>1, CreateKeeps, StutterKeeps
  <2>2. ASSUME NEW q \in Runs, NEW u, Committed(q, u)
        PROVE  FenceKept(r) /\ OverKept(r) /\ StageKept(r)
    <3>1. q # r => runs'[r] = runs[r]
      BY <2>2, CommitEffects
    <3> QED
      BY <2>2, <3>1, CommitKeeps, StutterKeeps
  <2>3. CASE Tick
    BY <2>3, TickKeeps
  <2>4. CASE UNCHANGED <<runs, locks, dedupe, outbox>>
    BY <2>4, StutterKeeps
  <2> QED
    BY <1>2, <2>1, <2>2, <2>3, <2>4, NextSteps
<1> QED
  BY <1>1, <1>2

\* A fencing token never goes back and never passes to another owner: a grant
\* (machine.py start, resume, recover) always moves to a higher token.
THEOREM FenceIsNeverShared == Spec => FenceNeverShared
<1>1. IInv /\ [Next]_vars => [\A r \in Runs : FenceKept(r)]_vars
  BY StepKeeps
<1>2. Spec => [][\A r \in Runs : FenceKept(r)]_vars
  BY <1>1, Invariance, PTL DEF Spec
<1> QED
  BY <1>2 DEF FenceNeverShared, FenceKept

\* A run that is over never changes again, except that a failed one can be
\* cancelled: no command of the run API reopens it (firestore.py mutate asks for
\* the credential lock, which a run that is over no longer holds).
THEOREM WhatIsOverStaysOver == Spec => OverStaysOver
<1>1. IInv /\ [Next]_vars => [\A r \in Runs : OverKept(r)]_vars
  BY StepKeeps
<1>2. Spec => [][\A r \in Runs : OverKept(r)]_vars
  BY <1>1, Invariance, PTL DEF Spec
<1> QED
  BY <1>2 DEF OverStaysOver, OverKept

\* A run moves one stage at a time, never back, and only under a live lease
\* (machine.py complete).
THEOREM StagesFollowOneAnother == Spec => StageByStage
<1>1. IInv /\ [Next]_vars => [\A r \in Runs : StageKept(r)]_vars
  BY StepKeeps
<1>2. Spec => [][\A r \in Runs : StageKept(r)]_vars
  BY <1>1, Invariance, PTL DEF Spec
<1> QED
  BY <1>2 DEF StageByStage, StageKept

-----------------------------------------------------------------------------
(* The reaper acts on copies it read earlier. What makes that safe is that a *)
(* copy is either out of date, and its command is then rejected, or still    *)
(* describes a stranded run: time alone never brings an expired lease back.  *)

SweepFresh ==
    \A c \in sweep :
        /\ c.revision <= runs[c.run].revision
        /\ c.revision = runs[c.run].revision => Candidate(c.run)

LEMMA SweepFacts ==
    ASSUME IInv, NEW c \in sweep
    PROVE  c.run \in Runs /\ c.revision \in Nat /\ runs[c.run] \in Run
           /\ runs[c.run].revision \in Nat
<1>1. c.run \in Runs /\ c.revision \in Nat
  BY DEF IInv, TypeOK, SweepCandidate
<1>2. runs[c.run] \in Run
  BY <1>1 DEF IInv, TypeOK
<1> QED
  BY <1>1, <1>2 DEF Run

\* A commit leaves the copies of its run behind and the others untouched.
LEMMA CommitKeepsFresh ==
    ASSUME IInv, SweepFresh, NEW r \in Runs, NEW u, Committed(r, u), NEW c \in sweep
    PROVE  /\ c.revision <= runs'[c.run].revision
           /\ c.revision = runs'[c.run].revision => Candidate(c.run)'
<1>1. c.run \in Runs /\ c.revision \in Nat /\ runs[c.run].revision \in Nat
  BY SweepFacts
<1>2. /\ c.revision <= runs[c.run].revision
      /\ c.revision = runs[c.run].revision => Candidate(c.run)
  BY DEF SweepFresh
<1>3. CASE c.run = r
  <2>1. runs'[r].revision = runs[r].revision + 1
    BY CommitEffects
  <2> QED
    BY <1>1, <1>2, <1>3, <2>1
<1>4. CASE c.run # r
  <2>1. runs'[c.run] = runs[c.run]
    BY <1>1, <1>4, CommitEffects
  <2> QED
    BY <1>2, <2>1 DEF Candidate
<1> QED
  BY <1>3, <1>4

LEMMA SnapshotFields ==
    ASSUME NEW r, NEW run
    PROVE  Snapshot(r, run).run = r /\ Snapshot(r, run).revision = run.revision
  BY DEF Snapshot

LEMMA TickKeepsCandidate ==
    ASSUME IInv, Tick, NEW r \in Runs
    PROVE  runs'[r].revision = runs[r].revision /\ (Candidate(r) => Candidate(r)')
<1>1. runs[r] \in Run /\ runs'[r] = aged(runs[r])
  BY DEF Tick, aged, IInv, TypeOK
<1>2. runs'[r].revision = runs[r].revision /\ runs'[r].status = runs[r].status
  BY <1>1, AgedFacts
<1>3. ASSUME runs[r].lease # NoLease, Expired(runs[r].lease)
      PROVE  runs'[r].lease = runs[r].lease
  <2>1. runs[r].lease \in Lease /\ runs[r].lease.ttl = 0
    BY <1>1, <1>3, AgedFacts DEF Expired
  <2>2. runs'[r].lease = [runs[r].lease EXCEPT !.ttl = IF @ > 0 THEN @ - 1 ELSE 0]
    BY <1>1 DEF aged, Run
  <2> QED
    BY <2>1, <2>2 DEF Lease
<1>4. Candidate(r) => Candidate(r)'
  BY <1>2, <1>3 DEF Candidate, Expired
<1> QED
  BY <1>2, <1>4

LEMMA FreshNext ==
    ASSUME IInv, SweepFresh, [Next]_vars
    PROVE  SweepFresh'
<1>1. CASE UNCHANGED vars
  BY <1>1 DEF vars, SweepFresh, Candidate
<1>2. ASSUME NEW r \in Runs, NEW k \in Credentials, NEW e \in SourceEvents, Create(r, k, e)
      PROVE  SweepFresh'
  <2> SUFFICES ASSUME NEW c \in sweep
               PROVE  /\ c.revision <= runs'[c.run].revision
                      /\ c.revision = runs'[c.run].revision => Candidate(c.run)'
    BY <1>2 DEF SweepFresh, Create
  <2>1. c.run # r
    <3> SUFFICES ASSUME c.run = r PROVE FALSE
      OBVIOUS
    <3>1. runs[r] = AbsentRun /\ runs[r].revision = 0 /\ runs[r].status = "absent"
      BY <1>2, AbsentRunType DEF Create, IInv, Sound
    <3>2. c.revision = runs[c.run].revision
      BY <3>1, SweepFacts DEF SweepFresh
    <3> QED
      BY <3>1, <3>2 DEF SweepFresh, Candidate
  <2>2. runs'[c.run] = runs[c.run]
    BY <1>2, <2>1, SweepFacts DEF Create, IInv, TypeOK
  <2> QED
    BY <2>2 DEF SweepFresh, Candidate
<1>3. ASSUME NEW r \in Runs, NEW w \in Workers, NEW revision \in Revisions(r),
             Command(r, w, revision)
      PROVE  SweepFresh'
  <2>1. PICK u : Committed(r, u) /\ sweep' = sweep
    BY <1>3, CommandCommits
  <2> QED
    BY <2>1, CommitKeepsFresh DEF SweepFresh
<1>4. CASE ReapScan
  <2> SUFFICES ASSUME NEW r \in Runs, Candidate(r)
               PROVE  LET c == Snapshot(r, runs[r]) IN
                      /\ c.revision <= runs'[c.run].revision
                      /\ c.revision = runs'[c.run].revision => Candidate(c.run)'
    BY <1>4 DEF ReapScan, SweepFresh
  <2>1. runs' = runs /\ runs[r].revision \in Nat
    BY <1>4 DEF ReapScan, IInv, TypeOK, Run
  <2> QED
    BY <2>1, SnapshotFields DEF Candidate
<1>5. CASE ReapStep
  <2>1. PICK c \in sweep : \/ \E ttl \in Terms : ReapRecover(c, ttl)
                          \/ ReapFailRecovery(c)
                          \/ ReapCleanup(c)
                          \/ ReapFail(c)
                          \/ ReapAbort(c)
    BY <1>5 DEF ReapStep
  <2>2. CASE ReapAbort(c)
    BY <2>2 DEF ReapAbort, SweepFresh
  <2>3. CASE ~ReapAbort(c)
    <3>1. c.run \in Runs
      BY SweepFacts
    <3>2. PICK u : Committed(c.run, u)
      BY <2>1, <2>3, ReapCommits
    <3> SUFFICES ASSUME NEW d \in sweep'
                 PROVE  /\ d.revision <= runs'[d.run].revision
                        /\ d.revision = runs'[d.run].revision => Candidate(d.run)'
      BY DEF SweepFresh
    <3>3. CASE d \in sweep
      BY <3>1, <3>2, <3>3, CommitKeepsFresh
    <3>4. CASE sweep' = sweep \ {c}
      BY <3>3, <3>4
    <3>5. CASE /\ sweep' = (sweep \ {c}) \cup {Snapshot(c.run, runs'[c.run])}
               /\ ReapCleanup(c)
      <4>1. Candidate(c.run)'
        <5>1. runs' = [runs EXCEPT ![c.run] =
                        [cleanup(runs[c.run], "retryable") EXCEPT !.revision = @ + 1]]
          BY <3>5 DEF ReapCleanup, Mutate, Write
        <5>2. runs[c.run] \in Run
          BY SweepFacts
        <5>3. runs'[c.run].status = "cleanup-required"
          BY <3>1, <5>1, <5>2 DEF cleanup, Run, IInv, TypeOK
        <5> QED
          BY <5>3 DEF Candidate
      <4>2. runs'[c.run].revision \in Nat
        <5>1. runs'[c.run] \in Run
          BY <3>1, <3>2, CommitEffects
        <5> QED
          BY <5>1 DEF Run
      <4>3. CASE d = Snapshot(c.run, runs'[c.run])
        <5>1. d.run = c.run /\ d.revision = runs'[c.run].revision
          BY <4>3, SnapshotFields
        <5> QED
          BY <4>1, <4>2, <5>1
      <4> QED
        BY <3>3, <3>5, <4>3
    <3> QED
      BY <2>1, <2>3, <3>4, <3>5, ReapSweep
  <2> QED
    BY <2>2, <2>3
<1>6. CASE Tick
  <2>1. sweep' = sweep
    BY <1>6 DEF Tick
  <2> SUFFICES ASSUME NEW c \in sweep
               PROVE  /\ c.revision <= runs'[c.run].revision
                      /\ c.revision = runs'[c.run].revision => Candidate(c.run)'
    BY <2>1 DEF SweepFresh
  <2> QED
    BY <1>6, SweepFacts, TickKeepsCandidate DEF SweepFresh
<1> QED
  BY <1>1, <1>2, <1>3, <1>4, <1>5, <1>6 DEF Next

LEMMA ReapSparesLive ==
    ASSUME IInv, SweepFresh, [Next]_vars, NEW c \in sweep, sweep' # sweep, runs' # runs,
           runs[c.run].status \in {"running", "recovering"}
    PROVE  runs[c.run].lease.ttl = 0 \/ runs'[c.run] = runs[c.run]
<1>1. ReapStep
  <2>1. ASSUME NEW r \in Runs, NEW k \in Credentials, NEW e \in SourceEvents, Create(r, k, e)
        PROVE  FALSE
    BY <2>1 DEF Create
  <2>2. ASSUME NEW r \in Runs, NEW w \in Workers, NEW revision \in Revisions(r),
               Command(r, w, revision)
        PROVE  FALSE
    BY <2>2, CommandCommits
  <2> QED
    BY <2>1, <2>2 DEF Next, vars, ReapScan, Tick
<1>2. PICK d \in sweep : \/ \E ttl \in Terms : ReapRecover(d, ttl)
                        \/ ReapFailRecovery(d)
                        \/ ReapCleanup(d)
                        \/ ReapFail(d)
  <2>1. ASSUME NEW d \in sweep, ReapAbort(d)
        PROVE  FALSE
    BY <2>1 DEF ReapAbort
  <2> QED
    BY <1>1, <2>1 DEF ReapStep
<1>3. c.run \in Runs /\ d.run \in Runs
  BY SweepFacts
<1>4. CASE c.run # d.run
  <2>1. PICK u : Committed(d.run, u)
    BY <1>2, ReapCommits
  <2> QED
    BY <1>3, <1>4, <2>1, CommitEffects
<1>5. CASE c.run = d.run
  <2>1. Candidate(d.run)
    BY <1>2, ReapSweep DEF SweepFresh
  <2> QED
    BY <1>5, <2>1 DEF Candidate, Expired
<1> QED
  BY <1>4, <1>5

\* The reaper never interrupts a worker whose lease is live, although it acts
\* on copies read earlier and presents the run's own token (steps.py
\* reap_expired): the copies stay fresh or are refused.
THEOREM ReaperSparesTheLiving == Spec => ReaperSparesLiveWork
<1> DEFINE Spares ==
        \A c \in sweep :
            (sweep' # sweep /\ runs' # runs /\ runs[c.run].status \in {"running", "recovering"}) =>
                runs[c.run].lease.ttl = 0 \/ runs'[c.run] = runs[c.run]
<1>1. Init => SweepFresh
  BY DEF Init, SweepFresh
<1>2. IInv /\ SweepFresh /\ [Next]_vars => SweepFresh'
  BY FreshNext
<1>3. IInv /\ SweepFresh /\ [Next]_vars => [Spares]_vars
  BY ReapSparesLive
<1>4. Spec => [][Spares]_vars
  <2> HIDE DEF Spares
  <2> QED
    BY <1>1, <1>2, <1>3, Invariance, PTL DEF Spec
<1> QED
  BY <1>4 DEF ReaperSparesLiveWork

=============================================================================
