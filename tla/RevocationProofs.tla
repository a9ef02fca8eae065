-------------------------- MODULE RevocationProofs --------------------------
(***************************************************************************)
(* Proofs about Revocation for every number of executions, fences,         *)
(* revisions, approval requests and mishaps: an execution may die between  *)
(* any two steps, run beside another one of its request, or go on after    *)
(* its run has moved.                                                      *)
(***************************************************************************)
EXTENDS Revocation, TLAPS

-----------------------------------------------------------------------------
(***************************************************************************)
(* The inductive invariant: how far an execution has come says what was    *)
(* done to the old credential, and a stored result says it for the run     *)
(* that is still at the result's revision.                                 *)
(***************************************************************************)

\* The old credential is of no more use.
Revoked == Withdrawn /\ old.generation = "revoked" /\ old.secret = "disabled"

\* One execution has seen the replacement work and the old credential rejected.
Rejected ==
    \E r \in Revision : /\ reports[<<"replacement", r>>] = "passed"
                        /\ reports[<<"rejection", r>>] = "passed"

\* An approval that the broker finds, the disabling's with a report of REVOKE.
Allowed(step, f) ==
    LET a == approvals[<<step, f>>] IN
    /\ a.decision = "approved" /\ a.consumed
    /\ step = "disable" => a.evidence # 0 /\ reports[<<"replacement", a.evidence>>] = "passed"

RunSound ==
    /\ \A r \in Revision : results[r] # "none" => r <= run.revision
    /\ results[run.revision] = "succeeded" /\ run.stage = "revoke" => Revoked

AttemptSound(f) == attempts[<<"disable", f>>] = "succeeded" => old.secret = "disabled"

EvidenceSound == evidence # 0 => reports[<<"replacement", evidence>>] = "passed"

\* The positions between the coordinator's look at an approval and the tool.
AskingProvider == {"provider_call", "provider_begin", "provider_reclaim"}
AskingSecretStore == {"disable_call", "disable_begin", "disable_reclaim"}

CallSound(c) ==
    LET phase == calls[c].phase
        current == calls[c].revision = run.revision
    IN
    /\ calls[c].revision <= run.revision
    /\ controls.approval =>
          /\ phase \in AskingProvider => Allowed("provider", calls[c].fence)
          /\ phase \in AskingSecretStore => Allowed("disable", calls[c].fence)
    /\ phase \in {"rejection", "disable"} \cup AskingSecretStore => evidence # 0
    /\ phase = "rejection" => reports[<<"replacement", calls[c].revision>>] = "passed"
    /\ phase \in {"disable", "generation", "incident"} \cup AskingSecretStore
         => Withdrawn /\ Rejected
    /\ phase \in {"generation", "incident"} => old.secret = "disabled"
    /\ phase = "incident" => old.generation = "revoked"
    /\ phase \in {"complete", "resolve"} => run.stage \in {"complete", "done"}
    /\ phase = "approval" /\ current => run.stage = "approval"
    /\ phase = "result" /\ calls[c].outcome = "succeeded" /\ current /\ run.stage = "revoke"
         => Revoked

IInv ==
    /\ TypeOK /\ ApprovedAsReported /\ RevocationInOrder /\ RunSound /\ EvidenceSound
    /\ \A f \in Fence : AttemptSound(f)
    /\ \A c \in Calls : CallSound(c)

-----------------------------------------------------------------------------
(***************************************************************************)
(* What a step writes.                                                     *)
(***************************************************************************)

\* Nothing that was done to the old credential, and nothing recorded, is undone.
Forward ==
    /\ UNCHANGED controls
    /\ old.provider = "revoked" => old'.provider = "revoked"
    /\ old.provider # "valid" => old'.provider # "valid"
    /\ old.generation = "revoked" => old'.generation = "revoked"
    /\ old.secret = "disabled" => old'.secret = "disabled"
    /\ \A x \in Report : reports[x] = "passed" => reports'[x] = "passed"
    /\ evidence # 0 => evidence' # 0
    /\ \A a \in Action : attempts[a] = "succeeded" => attempts'[a] = "succeeded"
    /\ \A a \in Action : approvals[a].decision = "approved" /\ approvals[a].consumed =>
          /\ approvals'[a].decision = "approved" /\ approvals'[a].consumed
          /\ approvals'[a].evidence = approvals[a].evidence

LEMMA RevokedStays ==
    ASSUME TypeOK, Forward
    PROVE  /\ Withdrawn => Withdrawn'
           /\ Revoked => Revoked'
           /\ Rejected => Rejected'
           /\ \A step \in Step, f \in Fence : Allowed(step, f) => Allowed(step, f)'
  <1>1. (Withdrawn => Withdrawn') /\ (Revoked => Revoked')
    BY DEF Forward, Revoked, Withdrawn, TypeOK
  <1>2. Rejected => Rejected'
    <2>1. \A r \in Revision : <<"replacement", r>> \in Report /\ <<"rejection", r>> \in Report
      BY DEF Report
    <2> QED BY <2>1 DEF Forward, Rejected
  <1>3. ASSUME NEW step \in Step, NEW f \in Fence, Allowed(step, f)
        PROVE  Allowed(step, f)'
    <2>1. PICK a \in Action : a = <<step, f>>
      BY DEF Action
    <2>2. approvals[a] \in Store!Approval
      BY DEF TypeOK
    <2>3. PICK e : e = approvals[a].evidence
      OBVIOUS
    <2>4. e \in Evidence
      BY <2>2, <2>3 DEF Store!Approval
    <2>5. e # 0 => <<"replacement", e>> \in Report
      BY <2>4, BoundsAssumption DEF Report, Evidence, Revision
    <2>6. /\ approvals'[a].decision = "approved" /\ approvals'[a].consumed
          /\ approvals'[a].evidence = e
      BY <1>3, <2>1, <2>3 DEF Allowed, Forward
    <2>7. step = "disable" => e # 0 /\ reports'[<<"replacement", e>>] = "passed"
      BY <1>3, <2>1, <2>3, <2>5 DEF Allowed, Forward
    <2> QED BY <2>1, <2>6, <2>7 DEF Allowed
  <1> QED BY <1>1, <1>2, <1>3

\* What an approved revocation comes to, in terms of the approvals.
LEMMA ApprovedMeans ==
    ApprovedAsReported <=>
        (controls.approval =>
            /\ old.provider # "valid" => \E f \in Fence : Allowed("provider", f)
            /\ old.secret = "disabled" => \E f \in Fence : Allowed("disable", f))
  BY DEF ApprovedAsReported, Allowed

\* The positions an execution goes to.
LEMMA Positions ==
    ASSUME calls \in [Calls -> Call], NEW c \in Calls
    PROVE  /\ \A phase \in Phase : Goto(c, phase) =>
                 /\ calls' \in [Calls -> Call] /\ \A d \in Calls \ {c} : calls'[d] = calls[d]
                 /\ calls'[c].phase = phase /\ calls'[c].outcome = calls[c].outcome
                 /\ calls'[c].revision = calls[c].revision /\ calls'[c].fence = calls[c].fence
           /\ \A o \in {"succeeded", "paused", "failed"} : Finish(c, o) =>
                 /\ calls' \in [Calls -> Call] /\ \A d \in Calls \ {c} : calls'[d] = calls[d]
                 /\ calls'[c].phase = "result" /\ calls'[c].outcome = o
                 /\ calls'[c].revision = calls[c].revision /\ calls'[c].fence = calls[c].fence
           /\ calls' = [calls EXCEPT ![c] = Idle] =>
                 /\ calls' \in [Calls -> Call] /\ \A d \in Calls \ {c} : calls'[d] = calls[d]
                 /\ calls'[c] = Idle
  <1>1. ASSUME NEW phase \in Phase, Goto(c, phase)
        PROVE  /\ calls' \in [Calls -> Call] /\ \A d \in Calls \ {c} : calls'[d] = calls[d]
               /\ calls'[c].phase = phase /\ calls'[c].outcome = calls[c].outcome
               /\ calls'[c].revision = calls[c].revision /\ calls'[c].fence = calls[c].fence
    <2> DEFINE u == [calls[c] EXCEPT !.phase = phase]
    <2>1. /\ u \in Call /\ u.phase = phase /\ u.outcome = calls[c].outcome
          /\ u.revision = calls[c].revision /\ u.fence = calls[c].fence
      BY DEF Call
    <2>2. calls' = [calls EXCEPT ![c] = u]
      BY <1>1 DEF Goto
    <2> HIDE DEF u
    <2> QED BY <2>1, <2>2
  <1>2. ASSUME NEW o \in {"succeeded", "paused", "failed"}, Finish(c, o)
        PROVE  /\ calls' \in [Calls -> Call] /\ \A d \in Calls \ {c} : calls'[d] = calls[d]
               /\ calls'[c].phase = "result" /\ calls'[c].outcome = o
               /\ calls'[c].revision = calls[c].revision /\ calls'[c].fence = calls[c].fence
    <2> DEFINE u == [calls[c] EXCEPT !.phase = "result", !.outcome = o]
    <2>1. /\ u \in Call /\ u.phase = "result" /\ u.outcome = o
          /\ u.revision = calls[c].revision /\ u.fence = calls[c].fence
      BY DEF Call, Phase
    <2>2. calls' = [calls EXCEPT ![c] = u]
      BY <1>2 DEF Finish
    <2> HIDE DEF u
    <2> QED BY <2>1, <2>2
  <1>3. Idle \in Call
    BY BoundsAssumption DEF Idle, Call, Phase, Fence, Revision
  <1> QED BY <1>1, <1>2, <1>3

\* What the broker or the worker may have done to the old credential.
LEMMA AppliedMoves ==
    ASSUME TypeOK, NEW step \in Step, NEW o \in Applied(step)
    PROVE  /\ o \in [provider : {"valid", "revoking", "revoked"},
                     secret : {"enabled", "disabled"}, generation : {"superseded", "revoked"}]
           /\ o.generation = old.generation
           /\ old.provider = "revoked" => o.provider = "revoked"
           /\ old.provider # "valid" => o.provider # "valid"
           /\ old.secret = "disabled" => o.secret = "disabled"
           /\ step = "disable" => o.secret = "disabled" /\ o.provider = old.provider
           /\ step = "provider" => o.secret = old.secret
  BY DEF TypeOK, Applied, Step

-----------------------------------------------------------------------------
(***************************************************************************)
(* A step of an execution: what it leaves of the rest, and its own part.   *)
(***************************************************************************)
Typed ==
    /\ controls \in Controls
    /\ run \in RunDocument
    /\ approvals \in [Action -> Store!Approval]
    /\ reports \in [Report -> {"none", "passed", "failed"}]
    /\ evidence \in Evidence
    /\ attempts \in [Action -> {"none", "running", "succeeded", "failed"}]
    /\ old \in [provider : {"valid", "revoking", "revoked"},
                secret : {"enabled", "disabled"},
                generation : {"superseded", "revoked"}]
    /\ incident \in {"rotating", "contained", "resolved"}
    /\ results \in [Revision -> {"none", "succeeded", "paused", "failed"}]
    /\ mishaps \in 0..MaxMishaps

PastTools(c) ==
    /\ calls[c].phase \in {"replacement", "rejection", "disable", "disable_call"}
          => attempts[Id(c, "provider")] = "succeeded" \/ controls.managed = "browser"
    /\ calls[c].phase \in {"generation", "incident"}
          => attempts[Id(c, "disable")] = "succeeded"

World ==
    /\ UNCHANGED <<controls, run>> /\ Forward /\ Typed'
    /\ ApprovedAsReported' /\ RevocationInOrder' /\ RunSound' /\ EvidenceSound'
    /\ \A f \in Fence : AttemptSound(f)'

Mine(c) ==
    /\ calls' \in [Calls -> Call] /\ \A d \in Calls \ {c} : calls'[d] = calls[d]
    /\ CallSound(c)' /\ PastTools(c)'

LEMMA Now ==
    ASSUME IInv, NEW c \in Calls
    PROVE  /\ Typed /\ calls \in [Calls -> Call] /\ calls[c] \in Call
           /\ PastTools(c) /\ CallSound(c) /\ RunSound
           /\ run.revision \in Nat /\ calls[c].revision \in Revision /\ Revision \subseteq Nat
           /\ calls[c].fence \in Fence
  BY DEF IInv, TypeOK, Typed, PastTools, RunDocument, Revision, Call

\* A step that leaves the old credential, the run and its incident.
LEMMA SafetyStays ==
    ASSUME IInv, Forward, UNCHANGED <<old, incident>>,
           run'.stage \in {"complete", "done"} => run.stage \in {"complete", "done"} \/ Revoked
    PROVE  RevocationInOrder' /\ ApprovedAsReported'
  <1>1. TypeOK /\ RevocationInOrder /\ controls' = controls /\ ApprovedAsReported
    BY DEF IInv, Forward
  <1>2. /\ Withdrawn => Withdrawn'
        /\ Rejected => Rejected'
        /\ \A step \in Step, f \in Fence : Allowed(step, f) => Allowed(step, f)'
    BY <1>1, RevokedStays
  <1>3. RevocationInOrder'
    BY <1>1, <1>2 DEF RevocationInOrder, Revoked, Rejected
  <1>4. ApprovedAsReported'
    <2>1. "provider" \in Step /\ "disable" \in Step
      BY DEF Step
    <2>2. controls.approval =>
            /\ old.provider # "valid" => \E f \in Fence : Allowed("provider", f)
            /\ old.secret = "disabled" => \E f \in Fence : Allowed("disable", f)
      BY <1>1, ApprovedMeans
    <2>3. controls'.approval =>
            /\ old'.provider # "valid" => \E f \in Fence : Allowed("provider", f)'
            /\ old'.secret = "disabled" => \E f \in Fence : Allowed("disable", f)'
      BY <1>1, <1>2, <2>1, <2>2
    <2> QED BY <2>3 DEF ApprovedAsReported, Allowed
  <1> QED BY <1>3, <1>4

\* A step that changes an execution and the count of mishaps alone.
LEMMA Quiet ==
    ASSUME IInv, mishaps' \in 0..MaxMishaps,
           UNCHANGED <<controls, run, approvals, reports, evidence, attempts, old, incident,
                       results>>
    PROVE  World
  <1>1. Forward /\ Typed'
    BY DEF IInv, TypeOK, Typed, Forward
  <1>2. RunSound' /\ EvidenceSound' /\ \A f \in Fence : AttemptSound(f)'
    BY DEF IInv, RunSound, Revoked, Withdrawn, EvidenceSound, AttemptSound
  <1> QED BY <1>1, <1>2, SafetyStays DEF World

\* An execution that ends its work without success.
LEMMA Failing ==
    ASSUME IInv, World, NEW c \in Calls, NEW o \in {"paused", "failed"}, Finish(c, o)
    PROVE  Mine(c)
  <1>1. /\ calls' \in [Calls -> Call] /\ \A d \in Calls \ {c} : calls'[d] = calls[d]
        /\ calls'[c].phase = "result" /\ calls'[c].outcome = o
        /\ calls'[c].revision = calls[c].revision
    BY Now, Positions
  <1> QED BY <1>1, Now DEF Mine, World, CallSound, AskingProvider, AskingSecretStore, PastTools

LEMMA Idling ==
    ASSUME IInv, World, NEW c \in Calls, calls' = [calls EXCEPT ![c] = Idle]
    PROVE  Mine(c)
  <1>1. /\ calls' \in [Calls -> Call] /\ \A d \in Calls \ {c} : calls'[d] = calls[d]
        /\ calls'[c] = Idle
    BY Now, Positions
  <1>2. 1 <= run'.revision
    BY Now DEF World, RunDocument, Revision, Typed
  <1> QED BY <1>1, <1>2, Now
      DEF Mine, World, CallSound, AskingProvider, AskingSecretStore, PastTools, Idle

LEMMA MishapTyped ==
    ASSUME IInv, Mishap
    PROVE  mishaps' \in 0..MaxMishaps
  BY BoundsAssumption DEF Mishap, IInv, TypeOK

LEMMA BeginStays ==
    ASSUME IInv, NEW c \in Calls, Begin(c)
    PROVE  World /\ Mine(c)
  <1>1. World
    BY Quiet DEF Begin, IInv, TypeOK
  <1> DEFINE u == [phase |-> IF run.stage = "revoke" THEN "provider" ELSE run.stage,
                   revision |-> run.revision, fence |-> run.fence, outcome |-> "none"]
  <1>2. calls' = [calls EXCEPT ![c] = u] /\ run.stage # "done"
    BY DEF Begin
  <1>3. /\ u \in Call /\ u.revision = run.revision /\ u.outcome = "none"
        /\ u.phase \in {"approval", "provider", "complete"}
        /\ u.phase = "approval" => run.stage = "approval"
        /\ u.phase = "complete" => run.stage = "complete"
    BY <1>2, Now DEF Call, Phase, Typed, RunDocument, Stage
  <1> HIDE DEF u
  <1>4. /\ calls' \in [Calls -> Call] /\ \A d \in Calls \ {c} : calls'[d] = calls[d]
        /\ calls'[c] = u
    BY <1>2, <1>3, Now
  <1>5. UNCHANGED run
    BY DEF Begin
  <1>6. /\ calls'[c].phase \in {"approval", "provider", "complete"}
        /\ calls'[c].revision <= run'.revision
        /\ calls'[c].phase = "approval" => run'.stage = "approval"
        /\ calls'[c].phase = "complete" => run'.stage = "complete"
    BY <1>3, <1>4, <1>5, Now
  <1>7. CallSound(c)'
    BY <1>6 DEF CallSound, AskingProvider, AskingSecretStore
  <1>8. PastTools(c)'
    BY <1>6 DEF PastTools
  <1> QED BY <1>1, <1>4, <1>7, <1>8 DEF Mine

LEMMA RecordStays ==
    ASSUME IInv, NEW c \in Calls, Record(c)
    PROVE  World /\ Mine(c)
  <1>1. /\ At(c, "result") /\ UNCHANGED <<controls, run, approvals, reports, evidence,
                                           attempts, old, incident, mishaps>>
        /\ calls' = [calls EXCEPT ![c] = Idle]
    BY DEF Record
  <1> DEFINE v == calls[c].revision
             o == calls[c].outcome
  <1>2. results' = [results EXCEPT ![v] = IF results[v] = "none" THEN o ELSE results[v]]
    BY DEF Record
  <1>3. /\ v \in Revision /\ v <= run.revision
        /\ results \in [Revision -> {"none", "succeeded", "paused", "failed"}]
        /\ o \in {"none", "succeeded", "paused", "failed"}
        /\ o = "succeeded" /\ v = run.revision /\ run.stage = "revoke" => Revoked
    BY <1>1, Now DEF CallSound, AskingProvider, AskingSecretStore, At, Call, Typed
  <1> HIDE DEF v, o
  <1>4. /\ results' \in [Revision -> {"none", "succeeded", "paused", "failed"}]
        /\ \A r \in Revision : results'[r] = results[r] \/ (r = v /\ results'[r] = o)
    BY <1>2, <1>3
  <1>5. Forward /\ Typed'
    BY <1>1, <1>4, Now DEF Forward, Typed
  <1>6. /\ RevocationInOrder' /\ ApprovedAsReported'
        /\ EvidenceSound' /\ \A f \in Fence : AttemptSound(f)'
    BY <1>1, <1>5, SafetyStays DEF IInv, EvidenceSound, AttemptSound
  <1>7. run.revision \in Revision
    BY Now DEF Typed, RunDocument
  <1>8. RunSound'
    BY <1>1, <1>3, <1>4, <1>7, Now DEF RunSound, Revoked, Withdrawn
  <1>9. World
    BY <1>1, <1>5, <1>6, <1>8 DEF World
  <1> QED BY <1>1, <1>9, Idling

LEMMA CrashStays ==
    ASSUME IInv, NEW c \in Calls, Crash(c)
    PROVE  World /\ Mine(c)
  <1>1. World
    BY MishapTyped, Quiet DEF Crash
  <1> QED BY <1>1, Idling DEF Crash

LEMMA ApprovalStageStays ==
    ASSUME IInv, NEW c \in Calls, ApprovalStage(c)
    PROVE  World /\ Mine(c)
  <1>1. World
    BY Quiet DEF ApprovalStage, IInv, TypeOK
  <1>2. At(c, "approval") /\ UNCHANGED run
        /\ \E o \in {"succeeded", "paused", "failed"} : Finish(c, o)
    BY DEF ApprovalStage
  <1>3. /\ calls' \in [Calls -> Call] /\ \A d \in Calls \ {c} : calls'[d] = calls[d]
        /\ calls'[c].phase = "result" /\ calls'[c].revision = calls[c].revision
    BY <1>2, Now, Positions
  <1>4. calls[c].revision = run.revision => run.stage = "approval"
    BY <1>2, Now DEF CallSound, AskingProvider, AskingSecretStore, At
  <1> QED BY <1>1, <1>2, <1>3, <1>4, Now
      DEF Mine, CallSound, AskingProvider, AskingSecretStore, PastTools

\* An approval that is looked for and found is one that the broker finds.
LEMMA GrantedAllowed ==
    ASSUME IInv, NEW c \in Calls, NEW step \in Step, calls[c].phase = step, Granted(Id(c, step))
    PROVE  Allowed(step, calls[c].fence)
  <1>1. step = "disable" => evidence # 0
    BY Now DEF CallSound, AskingProvider, AskingSecretStore
  <1>2. /\ approvals[Id(c, step)].decision = "approved" /\ approvals[Id(c, step)].consumed
        /\ approvals[Id(c, step)].evidence = evidence
    BY DEF Granted
  <1> QED BY <1>1, <1>2 DEF IInv, EvidenceSound, Allowed, Id

LEMMA CheckStays ==
    ASSUME IInv, NEW c \in Calls, NEW step \in Step, Check(c, step)
    PROVE  World /\ Mine(c)
  <1>1. World
    BY Quiet DEF Check, IInv, TypeOK
  <1>2. /\ calls[c].phase = step
        /\ UNCHANGED <<controls, run, approvals, reports, evidence, attempts, old>>
    BY DEF Check, At
  <1>3. CASE \E o \in {"paused", "failed"} : Finish(c, o)
    BY <1>1, <1>3, Failing
  <1>4. CASE NotApplicable(step) /\ Goto(c, After[step])
    <2>1. Goto(c, "replacement") /\ controls.managed = "browser" /\ Withdrawn
      BY <1>4 DEF NotApplicable, After, Withdrawn
    <2>2. /\ calls' \in [Calls -> Call] /\ \A d \in Calls \ {c} : calls'[d] = calls[d]
          /\ calls'[c].phase = "replacement" /\ calls'[c].revision = calls[c].revision
      BY <2>1, Now, Positions DEF Phase
    <2>3. CallSound(c)'
      BY <1>2, <2>1, <2>2, Now DEF CallSound, AskingProvider, AskingSecretStore, Withdrawn
    <2> QED BY <1>1, <1>2, <2>1, <2>2, <2>3 DEF Mine, PastTools
  <1>5. CASE Goto(c, Calling[step]) /\ (controls.approval => Granted(Id(c, step)))
    <2>1. PICK phase \in {"provider_call", "disable_call"} :
             /\ Goto(c, phase)
             /\ phase = "provider_call" <=> step = "provider"
             /\ phase = "disable_call" <=> step = "disable"
      BY <1>5 DEF Calling, Step
    <2>2. /\ calls' \in [Calls -> Call] /\ \A d \in Calls \ {c} : calls'[d] = calls[d]
          /\ calls'[c].phase = phase /\ calls'[c].revision = calls[c].revision
          /\ calls'[c].fence = calls[c].fence
      BY <2>1, Now, Positions DEF Phase
    <2>3. controls.approval => Allowed(step, calls[c].fence)
      BY <1>2, <1>5, GrantedAllowed
    <2>4. controls'.approval => Allowed(step, calls[c].fence)'
      BY <1>2, <2>2, <2>3 DEF Allowed
    <2>5. CallSound(c)'
      <3>1. CASE phase = "provider_call"
        BY <1>2, <2>1, <2>2, <2>4, <3>1, Now DEF CallSound, AskingProvider, AskingSecretStore
      <3>2. CASE phase = "disable_call"
        <4>1. evidence' # 0 /\ Withdrawn' /\ Rejected'
          BY <1>2, <2>1, <3>2, Now
          DEF CallSound, AskingProvider, AskingSecretStore, Withdrawn, Rejected
        <4> QED BY <1>2, <2>1, <2>2, <2>4, <3>2, <4>1, Now
            DEF CallSound, AskingProvider, AskingSecretStore
      <3> QED BY <2>1, <3>1, <3>2
    <2>6. PastTools(c)'
      BY <1>2, <2>1, <2>2, Now DEF PastTools, Id
    <2> QED BY <2>2, <2>5, <2>6, <1>1 DEF Mine
  <1> QED BY <1>3, <1>4, <1>5 DEF Check, Protected

\* The broker answers from an attempt, or lets an execution begin; so does the worker.
LEMMA AuthoriseStays ==
    ASSUME IInv, NEW c \in Calls, NEW step \in Step, Authorise(c, step)
    PROVE  World /\ Mine(c)
  <1>1. World
    BY Quiet, MishapTyped DEF Authorise, IInv, TypeOK
  <1>2. /\ calls[c].phase = Calling[step]
        /\ UNCHANGED <<controls, run, approvals, reports, evidence, attempts, old>>
    BY DEF Authorise, At
  <1>3. CASE Finish(c, "failed")
    BY <1>1, <1>3, Failing
  <1>4. CASE Goto(c, Beginning[step]) \/ Goto(c, Reclaiming[step])
    <2>1. PICK phase \in {"provider_begin", "provider_reclaim",
                         "disable_begin", "disable_reclaim"} :
             /\ Goto(c, phase)
             /\ phase \in {"provider_begin", "provider_reclaim"}
                   => calls[c].phase = "provider_call"
             /\ phase \in {"disable_begin", "disable_reclaim"} => calls[c].phase = "disable_call"
      BY <1>2, <1>4 DEF Calling, Beginning, Reclaiming, Step
    <2>2. /\ calls' \in [Calls -> Call] /\ \A d \in Calls \ {c} : calls'[d] = calls[d]
          /\ calls'[c].phase = phase /\ calls'[c].revision = calls[c].revision
          /\ calls'[c].fence = calls[c].fence
      BY <2>1, Now, Positions DEF Phase
    <2>3. CallSound(c)'
      <3>1. CASE phase \in {"provider_begin", "provider_reclaim"}
        BY <1>2, <2>1, <2>2, <3>1, Now DEF CallSound, AskingProvider, AskingSecretStore, Allowed
      <3>2. CASE phase \in {"disable_begin", "disable_reclaim"}
        BY <1>2, <2>1, <2>2, <3>2, Now
        DEF CallSound, AskingProvider, AskingSecretStore, Allowed, Withdrawn, Rejected
      <3> QED BY <2>1, <3>1, <3>2
    <2> QED BY <1>1, <2>1, <2>2, <2>3 DEF Mine, PastTools
  <1>5. CASE Attempt(c, step) = "succeeded" /\ Goto(c, After[step])
    <2>1. ~ByWorker(step) /\ attempts[Id(c, step)] = "succeeded"
      BY <1>5 DEF Attempt
    <2>2. CASE step = "provider"
      <3>1. Goto(c, "replacement") /\ controls.managed # "browser"
        BY <1>5, <2>1, <2>2 DEF After, ByWorker
      <3>2. /\ calls' \in [Calls -> Call] /\ \A d \in Calls \ {c} : calls'[d] = calls[d]
            /\ calls'[c].phase = "replacement" /\ calls'[c].revision = calls[c].revision
            /\ calls'[c].fence = calls[c].fence
        BY <3>1, Now, Positions DEF Phase
      <3>3. CallSound(c)' /\ PastTools(c)'
        BY <1>2, <2>1, <2>2, <3>1, <3>2, Now
        DEF CallSound, AskingProvider, AskingSecretStore, PastTools, Id
      <3> QED BY <1>1, <3>2, <3>3 DEF Mine
    <2>3. CASE step = "disable"
      <3>1. Goto(c, "generation") /\ calls[c].phase = "disable_call"
        BY <1>2, <1>5, <2>3 DEF After, Calling
      <3>2. /\ calls' \in [Calls -> Call] /\ \A d \in Calls \ {c} : calls'[d] = calls[d]
            /\ calls'[c].phase = "generation" /\ calls'[c].revision = calls[c].revision
            /\ calls'[c].fence = calls[c].fence
        BY <3>1, Now, Positions DEF Phase
      <3>3. old.secret = "disabled"
        BY <2>1, <2>3, Now DEF IInv, AttemptSound, Id
      <3>4. Withdrawn' /\ Rejected'
        BY <1>2, <3>1, Now DEF CallSound, AskingProvider, AskingSecretStore, Withdrawn, Rejected
      <3>5. CallSound(c)' /\ PastTools(c)'
        BY <1>2, <2>1, <2>3, <3>2, <3>3, <3>4, Now
        DEF CallSound, AskingProvider, AskingSecretStore, PastTools, Id
      <3> QED BY <1>1, <3>2, <3>5 DEF Mine
    <2> QED BY <2>2, <2>3 DEF Step
  <1> QED BY <1>3, <1>4, <1>5 DEF Authorise

\* What a begun step leaves in the attempts and of the old credential.
LEMMA Performed ==
    ASSUME IInv, NEW c \in Calls, NEW step \in Step, Invoke(c, step)
    PROVE  /\ attempts' \in [Action -> {"none", "running", "succeeded", "failed"}]
           /\ mishaps' \in 0..MaxMishaps
           /\ \A a \in Action : attempts[a] = "succeeded" => attempts'[a] = "succeeded"
           /\ \A f \in Fence : attempts'[<<"disable", f>>] = "succeeded" =>
                 \/ attempts[<<"disable", f>>] = "succeeded"
                 \/ step = "disable" /\ old' \in Applied(step)
           /\ \/ UNCHANGED old /\ Finish(c, "failed")
              \/ old' \in Applied(step) /\ Finish(c, "failed")
              \/ /\ old' \in Applied(step) /\ Goto(c, After[step])
                 /\ ~ByWorker(step) => attempts'[Id(c, step)] = "succeeded"
  <1>0. /\ attempts \in [Action -> {"none", "running", "succeeded", "failed"}]
        /\ mishaps \in 0..MaxMishaps
    BY DEF IInv, TypeOK
  <1>i. PICK i : i = Id(c, step)
    OBVIOUS
  <1>a. i \in Action /\ i[1] = step
    BY <1>i, Now DEF Id, Action
  <1>1. CASE Conflict(c)
    BY <1>0, <1>1 DEF Conflict
  <1>2. CASE Attempt(c, step) \in {"none", "running"} /\ Perform(c, step)
    <2>1. PICK o : /\ Attempted(c, step, o) /\ o \in {"running", "succeeded", "failed"}
                   /\ \/ /\ o = "succeeded" /\ old' \in Applied(step)
                         /\ Goto(c, After[step]) /\ mishaps' = mishaps
                      \/ /\ o # "succeeded" /\ Mishap /\ Finish(c, "failed")
                         /\ old' \in {old} \cup Applied(step)
      BY <1>2 DEF Perform
    <2>2. mishaps' \in 0..MaxMishaps
      BY <1>0, <2>1, MishapTyped
    <2>3. CASE ByWorker(step)
      <3>1. attempts' = attempts
        BY <2>1, <2>3 DEF Attempted
      <3> QED BY <1>0, <2>1, <2>2, <2>3, <3>1
    <2>4. CASE ~ByWorker(step)
      <3>1. attempts' = [attempts EXCEPT ![i] = o] /\ attempts[i] \in {"none", "running"}
        BY <1>2, <1>i, <2>1, <2>4 DEF Attempted, Attempt
      <3>2. /\ attempts' \in [Action -> {"none", "running", "succeeded", "failed"}]
            /\ \A a \in Action : attempts'[a] = IF a = i THEN o ELSE attempts[a]
        BY <1>0, <1>a, <2>1, <3>1
      <3>3. ASSUME NEW f \in Fence, attempts'[<<"disable", f>>] = "succeeded",
                   attempts[<<"disable", f>>] # "succeeded"
            PROVE  step = "disable" /\ old' \in Applied(step)
        <4>1. <<"disable", f>> \in Action
          BY DEF Action, Step
        <4>2. <<"disable", f>> = i /\ o = "succeeded"
          BY <3>2, <3>3, <4>1
        <4> QED BY <1>a, <2>1, <4>2
      <3>4. \A a \in Action : attempts[a] = "succeeded" => attempts'[a] = "succeeded"
        BY <3>1, <3>2
      <3>5. attempts'[i] = o
        BY <1>a, <3>2
      <3> QED BY <1>i, <2>1, <2>2, <3>2, <3>3, <3>4, <3>5
    <2> QED BY <2>3, <2>4
  <1> QED BY <1>1, <1>2 DEF Invoke

LEMMA InvokeStays ==
    ASSUME IInv, NEW c \in Calls, NEW step \in Step, Invoke(c, step)
    PROVE  World /\ Mine(c)
  <1>1. /\ attempts' \in [Action -> {"none", "running", "succeeded", "failed"}]
        /\ mishaps' \in 0..MaxMishaps
        /\ \A a \in Action : attempts[a] = "succeeded" => attempts'[a] = "succeeded"
        /\ \A f \in Fence : attempts'[<<"disable", f>>] = "succeeded" =>
                 \/ attempts[<<"disable", f>>] = "succeeded"
                 \/ step = "disable" /\ old' \in Applied(step)
        /\ UNCHANGED old \/ old' \in Applied(step)
        /\ \/ Finish(c, "failed")
           \/ /\ old' \in Applied(step) /\ Goto(c, After[step])
              /\ ~ByWorker(step) => attempts'[Id(c, step)] = "succeeded"
    BY Performed
  <1>2. /\ calls[c].phase \in {Beginning[step], Reclaiming[step]}
        /\ UNCHANGED <<controls, run, approvals, reports, evidence, incident, results>>
    BY DEF Invoke, At
  <1>3. /\ old' \in [provider : {"valid", "revoking", "revoked"},
                     secret : {"enabled", "disabled"}, generation : {"superseded", "revoked"}]
        /\ old'.generation = old.generation
        /\ old.provider = "revoked" => old'.provider = "revoked"
        /\ old.provider # "valid" => old'.provider # "valid"
        /\ old.secret = "disabled" => old'.secret = "disabled"
        /\ old'.secret = "disabled" => old.secret = "disabled" \/ step = "disable"
        /\ old'.provider # "valid" => old.provider # "valid" \/ step = "provider"
        /\ old' \in Applied(step) /\ step = "disable" => old'.secret = "disabled"
    <2>1. CASE UNCHANGED old /\ old' \notin Applied(step)
      BY <2>1, Now DEF Typed
    <2>2. CASE old' \in Applied(step)
      <3>1. TypeOK
        BY DEF IInv
      <3>2. /\ old' \in [provider : {"valid", "revoking", "revoked"},
                     secret : {"enabled", "disabled"}, generation : {"superseded", "revoked"}]
            /\ old'.generation = old.generation
            /\ old.provider = "revoked" => old'.provider = "revoked"
            /\ old.provider # "valid" => old'.provider # "valid"
            /\ old.secret = "disabled" => old'.secret = "disabled"
            /\ step = "disable" => old'.secret = "disabled" /\ old'.provider = old.provider
            /\ step = "provider" => old'.secret = old.secret
        BY <2>2, <3>1, AppliedMoves
      <3>3. step = "disable" \/ step = "provider"
        BY DEF Step
      <3> QED BY <3>2, <3>3
    <2> QED BY <1>1, <2>1, <2>2
  <1>4. Forward /\ Typed'
    BY <1>1, <1>2, <1>3, Now DEF Forward, Typed
  <1>5. /\ Withdrawn => Withdrawn'
        /\ Revoked => Revoked'
        /\ Rejected => Rejected'
        /\ \A s \in Step, f \in Fence : Allowed(s, f) => Allowed(s, f)'
    BY <1>4, RevokedStays DEF IInv
  <1>b. \/ step = "provider" /\ calls[c].phase \in {"provider_begin", "provider_reclaim"}
        \/ step = "disable" /\ calls[c].phase \in {"disable_begin", "disable_reclaim"}
    BY <1>2 DEF Beginning, Reclaiming, Step
  <1>6. step = "disable" => Withdrawn /\ Rejected
    BY <1>b, Now DEF CallSound, AskingProvider, AskingSecretStore
  <1>7. controls.approval => Allowed(step, calls[c].fence)
    BY <1>b, Now DEF CallSound, AskingProvider, AskingSecretStore
  <1>8. RevocationInOrder'
    <2>1. incident' # "rotating" \/ run'.stage \in {"complete", "done"} => Revoked'
      BY <1>2, <1>5 DEF IInv, RevocationInOrder, Revoked
    <2>2. old.secret = "disabled" => Withdrawn /\ Rejected
      BY DEF IInv, RevocationInOrder, Rejected
    <2>3. old'.secret = "disabled" => Withdrawn' /\ Rejected'
      BY <1>3, <1>5, <1>6, <2>2
    <2> QED BY <2>1, <2>3 DEF RevocationInOrder, Revoked, Rejected
  <1>9. ApprovedAsReported'
    <2>1. controls.approval =>
            /\ old.provider # "valid" => \E f \in Fence : Allowed("provider", f)
            /\ old.secret = "disabled" => \E f \in Fence : Allowed("disable", f)
      BY ApprovedMeans DEF IInv
    <2>2. PICK f \in Fence : f = calls[c].fence
      BY Now
    <2>3. controls.approval => Allowed(step, f)
      BY <1>7, <2>2
    <2>4. controls'.approval =>
            /\ old'.provider # "valid" => \E g \in Fence : Allowed("provider", g)'
            /\ old'.secret = "disabled" => \E g \in Fence : Allowed("disable", g)'
      BY <1>2, <1>3, <1>5, <2>1, <2>3 DEF Step
    <2> QED BY <2>4 DEF ApprovedAsReported, Allowed
  <1>10. /\ RunSound' /\ EvidenceSound' /\ \A f \in Fence : AttemptSound(f)'
    <2>1. RunSound' /\ EvidenceSound'
      BY <1>2, <1>5, Now DEF IInv, RunSound, EvidenceSound
    <2>2. \A f \in Fence : AttemptSound(f)'
      BY <1>1, <1>3 DEF IInv, AttemptSound
    <2> QED BY <2>1, <2>2
  <1>11. World
    BY <1>2, <1>4, <1>8, <1>9, <1>10 DEF World
  <1>12. CASE Finish(c, "failed")
    BY <1>11, <1>12, Failing
  <1>13. CASE /\ old' \in Applied(step) /\ Goto(c, After[step])
              /\ ~ByWorker(step) => attempts'[Id(c, step)] = "succeeded"
    <2>1. CASE step = "provider"
      <3>1. Goto(c, "replacement")
        BY <1>13, <2>1 DEF After
      <3>2. /\ calls' \in [Calls -> Call] /\ \A d \in Calls \ {c} : calls'[d] = calls[d]
            /\ calls'[c].phase = "replacement" /\ calls'[c].revision = calls[c].revision
            /\ calls'[c].fence = calls[c].fence
        BY <3>1, Now, Positions DEF Phase
      <3>3. PastTools(c)'
        BY <1>2, <1>13, <2>1, <3>2 DEF PastTools, ByWorker, Id
      <3>4. CallSound(c)'
        BY <1>2, <3>1, <3>2, Now DEF CallSound, AskingProvider, AskingSecretStore, Withdrawn
      <3> QED BY <1>11, <3>2, <3>3, <3>4 DEF Mine
    <2>2. CASE step = "disable"
      <3>1. Goto(c, "generation") /\ old'.secret = "disabled"
        BY <1>3, <1>13, <2>2 DEF After
      <3>2. /\ calls' \in [Calls -> Call] /\ \A d \in Calls \ {c} : calls'[d] = calls[d]
            /\ calls'[c].phase = "generation" /\ calls'[c].revision = calls[c].revision
            /\ calls'[c].fence = calls[c].fence
        BY <3>1, Now, Positions DEF Phase
      <3>3. PastTools(c)'
        BY <1>13, <2>2, <3>2 DEF PastTools, ByWorker, Id
      <3>4. Withdrawn' /\ Rejected'
        BY <1>5, <1>6, <2>2
      <3>5. CallSound(c)'
        BY <1>2, <3>1, <3>2, <3>4, Now DEF CallSound, AskingProvider, AskingSecretStore
      <3> QED BY <1>11, <3>2, <3>3, <3>5 DEF Mine
    <2> QED BY <2>1, <2>2 DEF Step
  <1> QED BY <1>1, <1>12, <1>13

\* The two verifications of REVOKE.
LEMMA VerifyStays ==
    ASSUME IInv, NEW c \in Calls, NEW suffix \in {"replacement", "rejection"},
           NEW next \in {"rejection", "disable"}, NEW passes \in BOOLEAN,
           Verify(c, suffix, passes, next),
           UNCHANGED <<controls, run, approvals, attempts, old, incident, results>>
    PROVE  LET id == <<suffix, calls[c].revision>> IN
           /\ id \in Report /\ calls[c].phase = suffix
           /\ reports' \in [Report -> {"none", "passed", "failed"}]
           /\ mishaps' \in 0..MaxMishaps
           /\ \A x \in Report : reports[x] = "passed" => reports'[x] = "passed"
           /\ \/ Finish(c, "failed")
              \/ passes /\ Goto(c, next) /\ reports'[id] = "passed"
  <1>0. reports \in [Report -> {"none", "passed", "failed"}] /\ mishaps \in 0..MaxMishaps
    BY DEF IInv, TypeOK
  <1>i. PICK id : id = <<suffix, calls[c].revision>>
    OBVIOUS
  <1>1. id \in Report /\ calls[c].phase = suffix
    BY <1>i, Now DEF Report, Verify, At
  <1>2. \/ /\ reports' = reports /\ mishaps' = mishaps /\ Finish(c, "failed")
        \/ /\ reports[id] = "none" /\ passes /\ reports' = [reports EXCEPT ![id] = "passed"]
           /\ Goto(c, next) /\ mishaps' = mishaps
        \/ /\ reports[id] = "none" /\ reports' = [reports EXCEPT ![id] = "failed"]
           /\ Finish(c, "failed") /\ (Mishap \/ mishaps' = mishaps)
    BY <1>i DEF Verify
  <1>3. mishaps' \in 0..MaxMishaps
    BY <1>0, <1>2, MishapTyped
  <1>4. /\ reports' \in [Report -> {"none", "passed", "failed"}]
        /\ \A x \in Report : reports[x] = "passed" => reports'[x] = "passed"
        /\ \/ Finish(c, "failed")
           \/ passes /\ Goto(c, next) /\ reports'[id] = "passed"
    BY <1>0, <1>1, <1>2
  <1> QED BY <1>i, <1>1, <1>3, <1>4

\* What a report leaves of the rest.
LEMMA ReportStays ==
    ASSUME IInv, UNCHANGED <<controls, run, approvals, attempts, old, incident, results>>,
           reports' \in [Report -> {"none", "passed", "failed"}], evidence' \in Evidence,
           mishaps' \in 0..MaxMishaps,
           \A x \in Report : reports[x] = "passed" => reports'[x] = "passed",
           evidence' = evidence \/ (evidence' # 0 /\ reports'[<<"replacement", evidence'>>] = "passed")
    PROVE  World
  <1>1. Forward /\ Typed'
    BY DEF IInv, TypeOK, Typed, Forward
  <1>2. RunSound' /\ \A f \in Fence : AttemptSound(f)'
    BY DEF IInv, RunSound, Revoked, Withdrawn, AttemptSound
  <1>3. EvidenceSound'
    <2>1. CASE evidence' = evidence
      <3>1. evidence # 0 => <<"replacement", evidence>> \in Report
        BY BoundsAssumption DEF Report, Revision, IInv, TypeOK, Evidence
      <3> QED BY <2>1, <3>1 DEF IInv, EvidenceSound
    <2>2. CASE evidence' # 0 /\ reports'[<<"replacement", evidence'>>] = "passed"
      BY <2>2 DEF EvidenceSound
    <2> QED BY <2>1, <2>2
  <1> QED BY <1>1, <1>2, <1>3, SafetyStays DEF World

LEMMA VerifyReplacementStays ==
    ASSUME IInv, NEW c \in Calls, VerifyReplacement(c)
    PROVE  World /\ Mine(c)
  <1>0. /\ UNCHANGED <<controls, run, approvals, attempts, old, incident, results>>
        /\ Verify(c, "replacement", TRUE, "rejection")
        /\ evidence' = IF calls'[c].phase = "rejection" THEN calls[c].revision ELSE evidence
    BY DEF VerifyReplacement
  <1>r. PICK r \in Revision : r = calls[c].revision
    BY Now
  <1>1. /\ calls[c].phase = "replacement"
        /\ reports' \in [Report -> {"none", "passed", "failed"}]
        /\ mishaps' \in 0..MaxMishaps
        /\ \A x \in Report : reports[x] = "passed" => reports'[x] = "passed"
        /\ \/ Finish(c, "failed")
           \/ Goto(c, "rejection") /\ reports'[<<"replacement", r>>] = "passed"
    <2>1. TRUE \in BOOLEAN
      OBVIOUS
    <2> QED BY <1>0, <1>r, <2>1, VerifyStays
  <1>2. r # 0 /\ r \in Evidence /\ evidence \in Evidence
    BY BoundsAssumption, Now DEF Typed, Evidence, Revision
  <1>3. CASE Finish(c, "failed")
    <2>1. calls'[c].phase = "result"
      BY <1>3, Now, Positions
    <2>2. World
      BY <1>0, <1>1, <1>2, <2>1, ReportStays
    <2> QED BY <1>3, <2>2, Failing
  <1>4. CASE Goto(c, "rejection") /\ reports'[<<"replacement", r>>] = "passed"
    <2>1. /\ calls' \in [Calls -> Call] /\ \A d \in Calls \ {c} : calls'[d] = calls[d]
          /\ calls'[c].phase = "rejection" /\ calls'[c].revision = r
          /\ calls'[c].fence = calls[c].fence
      BY <1>4, <1>r, Now, Positions DEF Phase
    <2>2. evidence' = r
      BY <1>0, <1>r, <2>1
    <2>3. World
      BY <1>0, <1>1, <1>2, <1>4, <2>2, ReportStays
    <2>4. CallSound(c)'
      BY <1>0, <1>1, <1>2, <1>4, <1>r, <2>1, <2>2, Now
      DEF CallSound, AskingProvider, AskingSecretStore, Withdrawn
    <2>5. PastTools(c)'
      BY <1>0, <1>1, <2>1, Now DEF PastTools, Id
    <2> QED BY <2>1, <2>3, <2>4, <2>5 DEF Mine
  <1> QED BY <1>1, <1>3, <1>4

LEMMA VerifyRejectionStays ==
    ASSUME IInv, NEW c \in Calls, VerifyRejection(c)
    PROVE  World /\ Mine(c)
  <1>0. /\ UNCHANGED <<controls, run, approvals, evidence, attempts, old, incident, results>>
        /\ Verify(c, "rejection", Rejecting, "disable")
    BY DEF VerifyRejection
  <1>r. PICK r \in Revision : r = calls[c].revision
    BY Now
  <1>1. /\ calls[c].phase = "rejection"
        /\ reports' \in [Report -> {"none", "passed", "failed"}]
        /\ mishaps' \in 0..MaxMishaps
        /\ \A x \in Report : reports[x] = "passed" => reports'[x] = "passed"
        /\ \/ Finish(c, "failed")
           \/ Rejecting /\ Goto(c, "disable") /\ reports'[<<"rejection", r>>] = "passed"
    <2>1. PICK passes \in BOOLEAN : passes <=> Rejecting
      OBVIOUS
    <2>2. Verify(c, "rejection", passes, "disable")
      BY <1>0, <2>1 DEF Verify
    <2> QED BY <1>0, <1>r, <2>1, <2>2, VerifyStays
  <1>2. World
    BY <1>0, <1>1, Now, ReportStays DEF Typed
  <1>3. CASE Finish(c, "failed")
    BY <1>2, <1>3, Failing
  <1>4. CASE Rejecting /\ Goto(c, "disable") /\ reports'[<<"rejection", r>>] = "passed"
    <2>1. /\ calls' \in [Calls -> Call] /\ \A d \in Calls \ {c} : calls'[d] = calls[d]
          /\ calls'[c].phase = "disable" /\ calls'[c].revision = r
          /\ calls'[c].fence = calls[c].fence
      BY <1>4, <1>r, Now, Positions DEF Phase
    <2>2. controls.managed = "api" \/ controls.managed = "browser"
      BY Now DEF Typed, Controls
    <2>3. Withdrawn
      BY <1>1, <1>4, <2>2, Now
      DEF Rejecting, Withdrawn, CallSound, AskingProvider, AskingSecretStore
    <2>4. reports[<<"replacement", r>>] = "passed" /\ <<"replacement", r>> \in Report
      BY <1>1, <1>r, Now DEF CallSound, AskingProvider, AskingSecretStore, Report
    <2>5. Rejected'
      BY <1>1, <1>4, <2>4 DEF Rejected
    <2>6. CallSound(c)'
      BY <1>0, <1>1, <1>r, <2>1, <2>3, <2>5, Now
      DEF CallSound, AskingProvider, AskingSecretStore, Withdrawn
    <2>7. PastTools(c)'
      BY <1>0, <1>1, <2>1, Now DEF PastTools, Id
    <2> QED BY <1>2, <2>1, <2>6, <2>7 DEF Mine
  <1> QED BY <1>1, <1>3, <1>4

LEMMA RevokeGenerationStays ==
    ASSUME IInv, NEW c \in Calls, RevokeGeneration(c)
    PROVE  World /\ Mine(c)
  <1> DEFINE u == [old EXCEPT !.generation = "revoked"]
  <1>1. /\ At(c, "generation") /\ Goto(c, "incident") /\ old' = u
        /\ UNCHANGED <<controls, run, approvals, reports, evidence, attempts, incident,
                       results, mishaps>>
    BY DEF RevokeGeneration
  <1>2. /\ u \in [provider : {"valid", "revoking", "revoked"},
                  secret : {"enabled", "disabled"}, generation : {"superseded", "revoked"}]
        /\ u.generation = "revoked" /\ u.provider = old.provider /\ u.secret = old.secret
    BY Now DEF Typed
  <1> HIDE DEF u
  <1>3. Forward /\ Typed'
    BY <1>1, <1>2, Now DEF Forward, Typed
  <1>4. ApprovedAsReported' /\ EvidenceSound' /\ \A f \in Fence : AttemptSound(f)'
    BY <1>1, <1>2 DEF IInv, ApprovedAsReported, EvidenceSound, AttemptSound
  <1>5. RevocationInOrder' /\ RunSound'
    BY <1>1, <1>2, Now DEF IInv, RevocationInOrder, RunSound, Revoked, Withdrawn
  <1>6. World
    BY <1>1, <1>3, <1>4, <1>5 DEF World
  <1>7. /\ calls' \in [Calls -> Call] /\ \A d \in Calls \ {c} : calls'[d] = calls[d]
        /\ calls'[c].phase = "incident" /\ calls'[c].revision = calls[c].revision
        /\ calls'[c].fence = calls[c].fence
    BY <1>1, Now, Positions DEF Phase
  <1>8. PastTools(c)' /\ CallSound(c)'
    BY <1>1, <1>2, <1>7, Now
    DEF At, PastTools, CallSound, AskingProvider, AskingSecretStore, Id, Rejected, Withdrawn
  <1> QED BY <1>6, <1>7, <1>8 DEF Mine

LEMMA IncidentStays ==
    ASSUME IInv, NEW c \in Calls, ContainIncident(c) \/ ResolveIncident(c)
    PROVE  World /\ Mine(c)
  <1>1. /\ incident' \in {incident, "contained", "resolved"}
        /\ Finish(c, "succeeded") \/ Finish(c, "failed")
        /\ UNCHANGED <<controls, run, approvals, reports, evidence, attempts, old, results>>
        /\ mishaps' = mishaps \/ Mishap
        /\ calls[c].phase \in {"incident", "resolve"}
    BY DEF ContainIncident, ResolveIncident, At
  <1>2. Revoked
    <2>1. CASE calls[c].phase = "incident"
      BY <2>1, Now DEF CallSound, AskingProvider, AskingSecretStore, Revoked
    <2>2. CASE calls[c].phase = "resolve"
      BY <2>2, Now
      DEF CallSound, AskingProvider, AskingSecretStore, IInv, RevocationInOrder, Revoked
    <2> QED BY <1>1, <2>1, <2>2
  <1>3. mishaps' \in 0..MaxMishaps
    BY <1>1, MishapTyped, Now DEF Typed
  <1>4. Forward /\ Typed'
    BY <1>1, <1>3, Now DEF Forward, Typed
  <1>5. ApprovedAsReported' /\ EvidenceSound' /\ \A f \in Fence : AttemptSound(f)'
    BY <1>1 DEF IInv, ApprovedAsReported, EvidenceSound, AttemptSound
  <1>6. RevocationInOrder' /\ RunSound'
    BY <1>1, <1>2, Now DEF IInv, RevocationInOrder, RunSound, Revoked, Withdrawn
  <1>7. World
    BY <1>1, <1>4, <1>5, <1>6 DEF World
  <1>8. /\ calls' \in [Calls -> Call] /\ \A d \in Calls \ {c} : calls'[d] = calls[d]
        /\ calls'[c].phase = "result" /\ calls'[c].revision = calls[c].revision
    BY <1>1, Now, Positions
  <1>9. PastTools(c)' /\ CallSound(c)'
    BY <1>1, <1>2, <1>8, Now
    DEF PastTools, CallSound, AskingProvider, AskingSecretStore, Revoked, Withdrawn
  <1> QED BY <1>7, <1>8, <1>9 DEF Mine

LEMMA CompleteStageStays ==
    ASSUME IInv, NEW c \in Calls, CompleteStage(c)
    PROVE  World /\ Mine(c)
  <1>1. World
    BY MishapTyped, Quiet DEF CompleteStage, IInv, TypeOK
  <1>2. CASE Finish(c, "failed")
    BY <1>1, <1>2, Failing
  <1>3. CASE Goto(c, "resolve")
    <2>1. /\ calls' \in [Calls -> Call] /\ \A d \in Calls \ {c} : calls'[d] = calls[d]
          /\ calls'[c].phase = "resolve" /\ calls'[c].revision = calls[c].revision
      BY <1>3, Now, Positions DEF Phase
    <2>2. calls[c].phase = "complete" /\ UNCHANGED run
      BY DEF CompleteStage, At
    <2> QED BY <1>1, <2>1, <2>2, Now
        DEF Mine, CallSound, AskingProvider, AskingSecretStore, PastTools
  <1> QED BY <1>1, <1>2, <1>3 DEF CompleteStage

LEMMA ExecutionStays ==
    ASSUME IInv, NEW c \in Calls, Execute(c) \/ Crash(c)
    PROVE  World /\ Mine(c)
  BY BeginStays, RecordStays, CrashStays, ApprovalStageStays, CheckStays, AuthoriseStays,
     InvokeStays, VerifyReplacementStays, VerifyRejectionStays, RevokeGenerationStays,
     IncidentStays, CompleteStageStays
  DEF Execute

-----------------------------------------------------------------------------
(***************************************************************************)
(* The other steps, and the executions that a step leaves alone.           *)
(***************************************************************************)

\* The run stays at its stage or is completed with the result of its revision.
RunMoves ==
    \/ run' = run
    \/ run'.revision = run.revision /\ run'.stage = run.stage
    \/ /\ run'.revision = run.revision + 1
       /\ \/ run'.stage = run.stage
          \/ /\ results[run.revision] = "succeeded" /\ run.stage # "done"
             /\ run'.stage = NextStage[run.stage]

\* What was said of an execution stays true when its run and the rest move on.
LEMMA OthersStay ==
    ASSUME IInv, Forward, RunMoves, run' \in RunDocument, NEW c \in Calls, calls'[c] = calls[c]
    PROVE  CallSound(c)' /\ PastTools(c)'
  <1>a. PICK v \in Nat : v = calls[c].revision
    BY Now
  <1>b. PICK w \in Nat : w = run.revision
    BY Now
  <1>c. v <= w
    BY <1>a, <1>b, Now DEF CallSound, AskingProvider, AskingSecretStore
  <1>d. \/ run'.revision = w /\ run'.stage = run.stage
        \/ run'.revision = w + 1
    BY <1>b DEF RunMoves
  <1>1. calls[c].revision <= run'.revision
    BY <1>a, <1>c, <1>d
  <1>2. calls[c].revision = run'.revision
          => calls[c].revision = run.revision /\ run'.stage = run.stage
    BY <1>a, <1>b, <1>c, <1>d
  <1>3. run.stage \in {"complete", "done"} => run'.stage \in {"complete", "done"}
    BY DEF RunMoves, NextStage
  <1>4. /\ Withdrawn => Withdrawn'
        /\ Revoked => Revoked'
        /\ Rejected => Rejected'
        /\ \A step \in Step, f \in Fence : Allowed(step, f) => Allowed(step, f)'
    BY RevokedStays DEF IInv
  <1>5. CallSound(c) /\ PastTools(c) /\ controls' = controls
    BY Now DEF Forward
  <1>6. CallSound(c)'
    <2>1. PICK f \in Fence : f = calls[c].fence
      BY Now
    <2>2. /\ Allowed("provider", f) => Allowed("provider", f)'
          /\ Allowed("disable", f) => Allowed("disable", f)'
      BY <1>4 DEF Step
    <2>3. <<"replacement", calls[c].revision>> \in Report
      BY Now DEF Report
    <2>4. /\ calls[c].phase \in AskingProvider /\ controls.approval => Allowed("provider", f)'
          /\ calls[c].phase \in AskingSecretStore /\ controls.approval => Allowed("disable", f)'
      BY <1>5, <2>1, <2>2 DEF CallSound, AskingProvider, AskingSecretStore
    <2>5. calls[c].phase = "rejection" => reports'[<<"replacement", calls[c].revision>>] = "passed"
      BY <1>5, <2>3 DEF CallSound, AskingProvider, AskingSecretStore, Forward
    <2>6. calls'[c].fence = f
      BY <2>1
    <2> QED BY <1>1, <1>2, <1>3, <1>4, <1>5, <2>4, <2>5, <2>6
        DEF CallSound, AskingProvider, AskingSecretStore, Forward
  <1>7. PastTools(c)'
    <2>1. PICK f \in Fence : f = calls[c].fence
      BY Now
    <2>2. <<"provider", f>> \in Action /\ <<"disable", f>> \in Action
      BY DEF Action, Step
    <2> QED BY <1>5, <2>1, <2>2 DEF PastTools, Forward, Id
  <1> QED BY <1>6, <1>7

\* A step of the run: completed, paused, resumed or ended.
LEMMA RunStays ==
    ASSUME IInv, CompleteRun \/ PauseRun \/ ResumeRun \/ EndRun
    PROVE  IInv'
  <1>0. /\ UNCHANGED <<controls, approvals, reports, evidence, attempts, old, incident, results,
                       calls, mishaps>>
        /\ run \in RunDocument /\ run.revision \in Nat /\ MaxRevision \in Nat
        /\ RunSound /\ Revision \subseteq Nat
    BY BoundsAssumption DEF CompleteRun, PauseRun, ResumeRun, EndRun, Move, IInv, TypeOK,
       RunDocument, Revision
  <1>1. run' \in RunDocument /\ RunMoves
    <2>1. ASSUME NEW w \in RunDocument, w.revision = run.revision, run.revision < MaxRevision,
                 run' = [w EXCEPT !.revision = w.revision + 1]
          PROVE  /\ run' \in RunDocument /\ run'.stage = w.stage
                 /\ run'.revision = run.revision + 1
      <3>1. run.revision + 1 \in Revision
        BY <1>0, <2>1 DEF Revision, RunDocument
      <3> QED BY <2>1, <3>1 DEF RunDocument
    <2>2. CASE CompleteRun
      <3> DEFINE w == [run EXCEPT !.stage = NextStage[run.stage]]
      <3>1. /\ results[run.revision] = "succeeded" /\ run.stage # "done"
            /\ run.revision < MaxRevision /\ run' = [w EXCEPT !.revision = w.revision + 1]
        BY <2>2 DEF CompleteRun, Move
      <3>2. /\ w \in RunDocument /\ w.revision = run.revision
            /\ w.stage = NextStage[run.stage]
        BY <1>0, <3>1 DEF RunDocument, NextStage, Stage
      <3> HIDE DEF w
      <3> QED BY <2>1, <3>1, <3>2 DEF RunMoves
    <2>3. CASE PauseRun
      <3> DEFINE w == [run EXCEPT !.status = "paused"]
      <3>1. run.revision < MaxRevision /\ run' = [w EXCEPT !.revision = w.revision + 1]
        BY <2>3 DEF PauseRun, Move
      <3>2. w \in RunDocument /\ w.revision = run.revision /\ w.stage = run.stage
        BY <1>0 DEF RunDocument
      <3> HIDE DEF w
      <3> QED BY <2>1, <3>1, <3>2 DEF RunMoves
    <2>4. CASE ResumeRun
      <3> DEFINE w == [run EXCEPT !.status = "running", !.fence = run.fence + 1]
      <3>1. /\ run.fence < MaxFence /\ run.revision < MaxRevision
            /\ run' = [w EXCEPT !.revision = w.revision + 1]
        BY <2>4 DEF ResumeRun, Move
      <3>2. run.fence + 1 \in Fence
        BY <1>0, <3>1, BoundsAssumption DEF RunDocument, Fence
      <3>3. w \in RunDocument /\ w.revision = run.revision /\ w.stage = run.stage
        BY <1>0, <3>2 DEF RunDocument
      <3> HIDE DEF w
      <3> QED BY <2>1, <3>1, <3>3 DEF RunMoves
    <2>5. CASE EndRun
      <3>1. run' = [run EXCEPT !.status = "over"]
        BY <2>5 DEF EndRun
      <3> QED BY <1>0, <3>1 DEF RunMoves, RunDocument
    <2> QED BY <2>2, <2>3, <2>4, <2>5
  <1>2. Forward
    BY <1>0 DEF Forward
  <1>3. \A c \in Calls : CallSound(c)' /\ PastTools(c)'
    BY <1>0, <1>1, <1>2, OthersStay
  <1>4. ApprovedAsReported' /\ EvidenceSound' /\ (\A f \in Fence : AttemptSound(f)')
    BY <1>0 DEF IInv, ApprovedAsReported, EvidenceSound, AttemptSound
  <1>5. Revoked => Revoked'
    BY <1>2, RevokedStays DEF IInv
  <1>6. RevocationInOrder'
    <2>1. run'.stage \in {"complete", "done"}
            => \/ run.stage \in {"complete", "done"}
               \/ run.stage = "revoke" /\ results[run.revision] = "succeeded"
      BY <1>0, <1>1 DEF RunMoves, NextStage, RunDocument, Stage
    <2>2. run'.stage \in {"complete", "done"} => Revoked
      BY <1>0, <2>1 DEF RunSound, IInv, RevocationInOrder, Revoked
    <2> QED BY <1>0, <2>2 DEF IInv, RevocationInOrder, Revoked, Withdrawn
  <1>7. RunSound'
    <2>1. \A r \in Revision : results'[r] # "none" => r <= run'.revision
      BY <1>0, <1>1 DEF RunMoves, RunSound
    <2>2. run'.revision \in Revision
      BY <1>1 DEF RunDocument
    <2>3. results'[run'.revision] = "succeeded" =>
             run'.revision = run.revision /\ run'.stage = run.stage
      BY <1>0, <1>1, <2>2 DEF RunMoves, RunSound
    <2> QED BY <1>0, <1>5, <2>1, <2>3 DEF RunSound
  <1>8. TypeOK'
    BY <1>0, <1>1, <1>3 DEF IInv, TypeOK, PastTools
  <1> QED BY <1>3, <1>4, <1>6, <1>7, <1>8 DEF IInv

\* An approval is requested, decided, consumed or expires.
LEMMA PeopleStay ==
    ASSUME IInv, People
    PROVE  IInv'
  <1>0. /\ UNCHANGED <<controls, run, reports, evidence, attempts, old, incident, results, calls,
                       mishaps>>
        /\ approvals \in [Action -> Store!Approval] /\ evidence \in Evidence
    BY DEF People, IInv, TypeOK
  <1>1. /\ approvals' \in [Action -> Store!Approval]
        /\ \A b \in Action : approvals[b].decision = "approved" /\ approvals[b].consumed =>
              /\ approvals'[b].decision = "approved" /\ approvals'[b].consumed
              /\ approvals'[b].evidence = approvals[b].evidence
    <2>1. PICK a \in Action :
             \/ Store!Request(a, evidence)
             \/ \E d \in {"approved", "rejected", "cancelled"} : Store!Decide(a, d)
             \/ Store!Consume(a, approvals[a].evidence)
             \/ Store!Expire(a)
      BY DEF People
    <2>2. approvals[a] \in Store!Approval
      BY <1>0
    <2>3. PICK u \in Store!Approval :
             /\ approvals' = [approvals EXCEPT ![a] = u]
             /\ approvals[a].decision = "approved" /\ approvals[a].consumed =>
                   u.decision = "approved" /\ u.consumed /\ u.evidence = approvals[a].evidence
      <3> DEFINE w == approvals[a]
      <3>1. CASE Store!Request(a, evidence)
        <4>1. Store!Requested(evidence) \in Store!Approval
          BY <1>0 DEF Store!Requested, Store!Approval, Store!Decision
        <4> QED BY <3>1, <4>1 DEF Store!Request, Store!Stored
      <3>2. ASSUME NEW d \in {"approved", "rejected", "cancelled"}, Store!Decide(a, d)
            PROVE  approvals' = [approvals EXCEPT ![a] = [w EXCEPT !.decision = d]]
                   /\ [w EXCEPT !.decision = d] \in Store!Approval /\ w.decision = "pending"
        BY <2>2, <3>2 DEF Store!Decide, Store!Approval, Store!Decision
      <3>3. CASE Store!Consume(a, w.evidence)
        <4>1. PICK u \in Store!Approval : u = [w EXCEPT !.consumed = TRUE]
          BY <2>2 DEF Store!Approval
        <4>2. approvals' = [approvals EXCEPT ![a] = u] /\ ~w.consumed
          BY <3>3, <4>1 DEF Store!Consume
        <4> QED BY <4>2
      <3>4. CASE Store!Expire(a)
        <4>1. PICK u \in Store!Approval : u = [w EXCEPT !.expired = TRUE]
          BY <2>2 DEF Store!Approval
        <4>2. u.decision = w.decision /\ u.consumed = w.consumed /\ u.evidence = w.evidence
          BY <2>2, <4>1 DEF Store!Approval
        <4>3. approvals' = [approvals EXCEPT ![a] = u]
          BY <3>4, <4>1 DEF Store!Expire
        <4> QED BY <4>2, <4>3
      <3> QED BY <2>1, <3>1, <3>2, <3>3, <3>4
    <2>4. approvals' \in [Action -> Store!Approval]
      BY <1>0, <2>3
    <2>5. ASSUME NEW b \in Action, approvals[b].decision = "approved", approvals[b].consumed
          PROVE  /\ approvals'[b].decision = "approved" /\ approvals'[b].consumed
                 /\ approvals'[b].evidence = approvals[b].evidence
      <3>1. approvals'[b] = IF b = a THEN u ELSE approvals[b]
        BY <1>0, <2>3
      <3> QED BY <2>3, <2>5, <3>1
    <2> QED BY <2>4, <2>5
  <1>2. Forward
    BY <1>0, <1>1 DEF Forward
  <1>3. \A c \in Calls : CallSound(c)' /\ PastTools(c)'
    BY <1>0, <1>2, OthersStay DEF RunMoves, IInv, TypeOK
  <1>4. TypeOK'
    BY <1>0, <1>1, <1>3 DEF IInv, TypeOK, PastTools
  <1>5. RevocationInOrder' /\ ApprovedAsReported'
    BY <1>0, <1>2, SafetyStays
  <1>6. RunSound' /\ EvidenceSound' /\ \A f \in Fence : AttemptSound(f)'
    BY <1>0 DEF IInv, RunSound, Revoked, Withdrawn, EvidenceSound, AttemptSound
  <1> QED BY <1>3, <1>4, <1>5, <1>6 DEF IInv

\* The provider comes to refuse the credential whose revocation it accepted.
LEMMA SettleStays ==
    ASSUME IInv, Settle
    PROVE  IInv'
  <1> DEFINE u == [old EXCEPT !.provider = "revoked"]
  <1>0. /\ UNCHANGED <<controls, run, approvals, reports, evidence, attempts, incident, results,
                       calls, mishaps>>
        /\ old' = u /\ old.provider = "revoking"
    BY DEF Settle
  <1>1. /\ u \in [provider : {"valid", "revoking", "revoked"},
                  secret : {"enabled", "disabled"}, generation : {"superseded", "revoked"}]
        /\ u.provider = "revoked" /\ u.generation = old.generation /\ u.secret = old.secret
    BY DEF IInv, TypeOK
  <1> HIDE DEF u
  <1>2. Forward
    BY <1>0, <1>1 DEF Forward
  <1>3. \A c \in Calls : CallSound(c)' /\ PastTools(c)'
    BY <1>0, <1>2, OthersStay DEF RunMoves, IInv, TypeOK
  <1>4. TypeOK'
    BY <1>0, <1>1, <1>3 DEF IInv, TypeOK, PastTools
  <1>5. ApprovedAsReported' /\ EvidenceSound' /\ \A f \in Fence : AttemptSound(f)'
    BY <1>0, <1>1 DEF IInv, ApprovedAsReported, EvidenceSound, AttemptSound
  <1>6. RevocationInOrder' /\ RunSound'
    BY <1>0, <1>1 DEF IInv, RevocationInOrder, RunSound, Revoked, Withdrawn
  <1> QED BY <1>3, <1>4, <1>5, <1>6 DEF IInv

LEMMA Initially ==
    ASSUME Init
    PROVE  IInv
  <1>1. 1 \in Revision /\ 1 \in Fence /\ 0 \in Evidence /\ 0 \in 0..MaxMishaps
    BY BoundsAssumption DEF Revision, Fence, Evidence
  <1>2. run \in RunDocument /\ run.revision = 1 /\ run.stage = "approval"
    BY <1>1 DEF Init, RunDocument, Stage
  <1>3. Idle \in Call /\ Idle.phase = "idle" /\ Idle.revision = 1
    BY <1>1 DEF Idle, Call, Phase
  <1>4. calls \in [Calls -> Call] /\ \A c \in Calls : calls[c] = Idle
    BY <1>3 DEF Init
  <1>5. approvals \in [Action -> Store!Approval]
    <2>1. [Store!Requested(0) EXCEPT !.decision = "none"] \in Store!Approval
      BY <1>1 DEF Store!Requested, Store!Approval, Store!Decision
    <2> QED BY <2>1 DEF Init
  <1>6. /\ results \in [Revision -> {"none", "succeeded", "paused", "failed"}]
        /\ \A r \in Revision : results[r] = "none"
        /\ attempts \in [Action -> {"none", "running", "succeeded", "failed"}]
        /\ \A f \in Fence : attempts[<<"disable", f>>] = "none"
    BY DEF Init, Action, Step
  <1>7. /\ old \in [provider : {"valid", "revoking", "revoked"},
                    secret : {"enabled", "disabled"}, generation : {"superseded", "revoked"}]
        /\ old.secret = "enabled" /\ old.provider = "valid" /\ incident = "rotating"
        /\ reports \in [Report -> {"none", "passed", "failed"}]
        /\ controls \in Controls
        /\ evidence \in Evidence /\ evidence = 0 /\ mishaps \in 0..MaxMishaps
    BY <1>1 DEF Init
  <1>8. TypeOK
    BY <1>2, <1>3, <1>4, <1>5, <1>6, <1>7 DEF TypeOK
  <1> QED BY <1>1, <1>2, <1>3, <1>4, <1>6, <1>7, <1>8
      DEF IInv, ApprovedAsReported, RevocationInOrder, RunSound, EvidenceSound, AttemptSound,
          CallSound, AskingProvider, AskingSecretStore

\* The invariant holds wherever executions die, and however late they go on
\* (service.py execute, _revoke, _complete).
THEOREM Invariance == Spec => []IInv
  <1>1. ASSUME IInv, NEW c \in Calls, Execute(c) \/ Crash(c) PROVE IInv'
    <2>1. World /\ Mine(c)
      BY <1>1, ExecutionStays
    <2>2. ASSUME NEW d \in Calls PROVE CallSound(d)' /\ PastTools(d)'
      <3>1. CASE d = c
        BY <2>1, <3>1 DEF Mine
      <3>2. CASE d # c
        <4>1. calls'[d] = calls[d] /\ Forward /\ RunMoves /\ run' \in RunDocument
          BY <2>1, <3>2 DEF Mine, World, RunMoves, Typed
        <4> QED BY <1>1, <4>1, OthersStay
      <3> QED BY <3>1, <3>2
    <2>3. TypeOK'
      BY <2>1, <2>2 DEF World, Mine, Typed, TypeOK, PastTools
    <2> QED BY <2>1, <2>2, <2>3 DEF World, IInv
  <1>2. ASSUME IInv, UNCHANGED vars PROVE IInv'
    <2>1. TypeOK' /\ ApprovedAsReported' /\ RevocationInOrder'
      BY <1>2 DEF vars, IInv, TypeOK, Id, ApprovedAsReported, RevocationInOrder, Withdrawn
    <2>2. RunSound' /\ EvidenceSound' /\ (\A f \in Fence : AttemptSound(f)')
      BY <1>2 DEF vars, IInv, RunSound, EvidenceSound, Revoked, Withdrawn, AttemptSound
    <2>3. \A c \in Calls : CallSound(c)'
      BY <1>2
      DEF vars, IInv, CallSound, AskingProvider, AskingSecretStore, Revoked, Rejected, Withdrawn, Allowed
    <2> QED BY <2>1, <2>2, <2>3 DEF IInv
  <1>3. ASSUME IInv, [Next]_vars PROVE IInv'
    BY <1>1, <1>2, <1>3, RunStays, PeopleStay, SettleStays DEF Next
  <1> QED BY <1>3, Initially, PTL DEF Spec

\* Every document keeps its type, and no execution is past a tool whose attempt
\* did not succeed (service.py _execute_operation).
THEOREM TypeCorrect == Spec => []TypeOK
  <1>1. IInv => TypeOK
    BY DEF IInv
  <1> QED BY <1>1, Invariance, PTL

\* The provider is asked, and the secret version disabled, only on consumed approvals
\* of the actions, the disabling's given on a report of REVOKE (service.py
\* _approval_for_step, broker service.py _validate_approval).
THEOREM ActionsAreApproved == Spec => []ApprovedAsReported
  <1>1. IInv => ApprovedAsReported
    BY DEF IInv
  <1> QED BY <1>1, Invariance, PTL

\* A contained incident and a run past REVOKE mean that the old credential is of
\* no more use, as far as an API or a browser lets REVOKE know, and the secret version
\* is disabled only after one execution saw both reports pass (service.py _revoke).
THEOREM RevokedInOrder == Spec => []RevocationInOrder
  <1>1. IInv => RevocationInOrder
    BY DEF IInv
  <1> QED BY <1>1, Invariance, PTL
=============================================================================
