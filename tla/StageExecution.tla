---------------------------- MODULE StageExecution ----------------------------
(***************************************************************************)
(* Coordinator.execute of server/coordinator/service.py for the stages     *)
(* that move a credential to a new generation, CREATE to ROLLOUT, over the *)
(* generation repository (module Generations), the audit log and the       *)
(* stored stage results.                                                   *)
(*                                                                         *)
(* The rotation workflow sends the request of a stage and revision, sends  *)
(* it again when the answer fails to come, and may give up while an        *)
(* execution is still at work. execute checks revision and fence once, at  *)
(* its start, so an execution may go on after its run has moved on, failed *)
(* or made room for another run of the credential.                         *)
(***************************************************************************)
EXTENDS Naturals, FiniteSets

CONSTANTS
    Calls,         \* concurrent executions
    Run,           \* runs of one credential, one after the other
    First,         \* the imported generation
    Service,       \* the consumers of the credential
    None,
    MaxRevision,   \* bound: revisions of a run at which a stage is executed
    MaxToken,      \* bound: fencing tokens of a run
    MaxMishaps     \* bound: failing steps and ended instances

ASSUME BoundsAssumption ==
    MaxRevision \in Nat \ {0} /\ MaxToken \in Nat \ {0} /\ MaxMishaps \in Nat

VARIABLES
    active, generations, bindings, reports,   \* the generation repository
    live,       \* the run that holds the credential, or None
    runs,       \* run -> the part of its document the coordinator reads
    results,    \* stage execution -> status of its stored result
    audit,      \* stage execution -> status its audit record names
    calls,      \* execution of a request -> its position in execute
    mishaps     \* bounded by MaxMishaps

store == <<active, generations, bindings, reports>>
vars == <<active, generations, bindings, reports, live, runs, results, audit, calls,
          mishaps>>

-----------------------------------------------------------------------------
Token == 1..MaxToken
Revision == 1..MaxRevision

\* _execution_id: a run has one stage at a revision.
Execution == Run \X Revision

\* A generation's id is made of the run and of the provider's identifier, which
\* the broker answers once per fencing token.
Generation == {First} \cup (Run \X Token)

\* Absence is no run, no generation and no report.
ASSUME AbsentAssumption == None \notin Run \cup Generation \cup Execution

\* A report's id is made of the run, its stage and its revision.
Store == INSTANCE Generations WITH Report <- Execution

Stage == {"create", "store", "deploy", "verify", "rollout", "observe"}

NextStage == [create |-> "store", store |-> "deploy", deploy |-> "verify",
              verify |-> "rollout", rollout |-> "observe"]

\* "over": the run failed, was cancelled or compensated.
RunDocument == [stage : Stage \cup {"pending", "over"}, revision : Revision,
                token : Token, predecessor : Generation,
                target : Generation \cup {None}]

Status == {"none", "succeeded", "failed"}

\* request is the execution asked for; run is the document as it was read.
Call == [phase : {"idle", "handler", "verified", "audit", "result"},
         request : Execution \cup {None}, run : RunDocument \cup {None}, outcome : Status]

Idle == [phase |-> "idle", request |-> None, run |-> None, outcome |-> "none"]

Goto(c, phase) == calls' = [calls EXCEPT ![c].phase = phase]
Leave(c) == calls' = [calls EXCEPT ![c] = Idle]
Finish(c, outcome) ==
    calls' = [calls EXCEPT ![c].phase = "audit", ![c].outcome = outcome]
Mishap == mishaps < MaxMishaps /\ mishaps' = mishaps + 1

At(c, phase, stage) == calls[c].phase = phase /\ calls[c].run.stage = stage

-----------------------------------------------------------------------------
(***************************************************************************)
(* The run, as its repository and the workflow move it.                    *)
(***************************************************************************)

\* A run of the credential is created and passes the stages before CREATE;
\* preflight binds the generation that is active then.
Open(r) ==
    /\ live = None
    /\ runs[r].stage = "pending"
    /\ live' = r
    /\ runs' = [runs EXCEPT ![r].stage = "create", ![r].predecessor = active]
    /\ UNCHANGED <<active, generations, bindings, reports, results, audit, calls, mishaps>>

\* The generation that the CREATE stage of a run document records.
Created(r, run) == <<r, run.token>>

\* The workflow completes the stage with the bindings of its stored result.
Complete(r) ==
    LET run == runs[r] IN
    /\ live = r
    /\ run.stage \in DOMAIN NextStage /\ run.revision < MaxRevision
    /\ results[<<r, run.revision>>] = "succeeded"
    /\ runs' = [runs EXCEPT ![r].stage = NextStage[run.stage],
                            ![r].revision = @ + 1,
                            ![r].target = IF run.stage = "create" THEN Created(r, run)
                                                                  ELSE @]
    /\ UNCHANGED <<active, generations, bindings, reports, live, results, audit, calls,
                   mishaps>>

\* The stage is taken up again under a new lease: paused and resumed.
Resume(r) ==
    /\ live = r
    /\ runs[r].revision < MaxRevision /\ runs[r].token < MaxToken
    /\ runs' = [runs EXCEPT ![r].revision = @ + 1, ![r].token = @ + 1]
    /\ UNCHANGED <<active, generations, bindings, reports, live, results, audit, calls,
                   mishaps>>

\* The run ends without success: the stage failed, the workflow ran out of
\* retries, or an operator cancelled it.
End(r) ==
    /\ live = r
    /\ live' = None
    /\ runs' = [runs EXCEPT ![r].stage = "over"]
    /\ UNCHANGED <<active, generations, bindings, reports, results, audit, calls, mishaps>>

-----------------------------------------------------------------------------
(***************************************************************************)
(* One execution. A request whose result is stored already is answered     *)
(* with it and changes nothing.                                            *)
(***************************************************************************)

Begin(c) ==
    /\ calls[c].phase = "idle"
    /\ live # None
    /\ LET request == <<live, runs[live].revision>> IN
       /\ runs[live].stage \in DOMAIN NextStage
       /\ results[request] = "none"
       /\ calls' = [calls EXCEPT ![c] = [phase |-> "handler", request |-> request,
                                         run |-> runs[live], outcome |-> "none"]]
    /\ UNCHANGED <<active, generations, bindings, reports, live, runs, results, audit,
                   mishaps>>

\* _create: the generation is recorded. Repeated under the same token it meets
\* its own record, which has another created_at, and raises.
CreateStage(c) ==
    LET run == calls[c].run
        g == Created(calls[c].request[1], run)
    IN
    /\ At(c, "handler", "create")
    /\ IF Store!Exists(g)
       THEN Finish(c, "failed") /\ UNCHANGED store
       ELSE Store!Create(g, run.predecessor) /\ Finish(c, "succeeded")
    /\ UNCHANGED <<live, runs, results, audit, mishaps>>

\* Mutant of StoreStage: a conflict of the bindings does not fail the stage.
StoreStage_best_effort(c) ==
    LET g == calls[c].run.target IN
    /\ At(c, "handler", "store")
    /\ IF \A s \in Service : Store!MayStage(bindings[s], g)
       THEN Store!StageBindings(g, Service)
       ELSE UNCHANGED store
    /\ Finish(c, "succeeded")
    /\ UNCHANGED <<live, runs, results, audit, mishaps>>

\* _store: every binding of the credential is staged, or none.
StoreStage(c) ==
    LET g == calls[c].run.target IN
    /\ At(c, "handler", "store")
    /\ IF \A s \in Service : Store!MayStage(bindings[s], g)
       THEN Store!StageBindings(g, Service) /\ Finish(c, "succeeded")
       ELSE Finish(c, "failed") /\ UNCHANGED store
    /\ UNCHANGED <<live, runs, results, audit, mishaps>>

\* _deploy changes the runtime only.
DeployStage(c) ==
    /\ At(c, "handler", "deploy")
    /\ Finish(c, "succeeded")
    /\ UNCHANGED <<active, generations, bindings, reports, live, runs, results, audit,
                   mishaps>>

\* _run_verification in VERIFY and at the last milestone of ROLLOUT: the report
\* is stored under its id; another one there differs in its times and raises.
\* A failed report fails the stage.
RunVerification(c, status) ==
    LET id == calls[c].request IN
    /\ calls[c].phase = "handler" /\ calls[c].run.stage \in {"verify", "rollout"}
    /\ IF reports[id].status = "absent"
       THEN /\ Store!SaveReport(id, calls[c].run.target, status)
            /\ IF status = "passed" THEN Goto(c, "verified") ELSE Finish(c, "failed")
       ELSE Finish(c, "failed") /\ UNCHANGED store
    /\ UNCHANGED <<live, runs, results, audit, mishaps>>

\* Mutant of VerifyStage: the bindings are not marked.
VerifyStage_unmarked(c) ==
    /\ At(c, "verified", "verify")
    /\ Finish(c, "succeeded")
    /\ UNCHANGED <<active, generations, bindings, reports, live, runs, results, audit,
                   mishaps>>

\* _verify: the report is marked on every binding.
VerifyStage(c) ==
    LET g == calls[c].run.target IN
    /\ At(c, "verified", "verify")
    /\ IF \A s \in Service : bindings[s].target = g
       THEN Store!VerifyBindings(g, calls[c].request, Service) /\ Finish(c, "succeeded")
       ELSE Finish(c, "failed") /\ UNCHANGED store
    /\ UNCHANGED <<live, runs, results, audit, mishaps>>

\* What _rollout asks of promote: the last report it made itself.
Promotable(c) ==
    Store!MayPromote(calls[c].run.target, calls[c].run.predecessor, calls[c].request,
                     Service)

\* _rollout after the last milestone was verified.
RolloutStage(c) ==
    LET run == calls[c].run IN
    /\ At(c, "verified", "rollout")
    /\ IF Promotable(c)
       THEN /\ Store!Promote(run.target, run.predecessor, calls[c].request, Service)
            /\ Finish(c, "succeeded")
       ELSE Finish(c, "failed") /\ UNCHANGED store
    /\ UNCHANGED <<live, runs, results, audit, mishaps>>

\* A tool, a probe, an agent or a gate fails: execute turns it into a result.
HandlerFails(c) ==
    /\ calls[c].phase \in {"handler", "verified"}
    /\ Finish(c, "failed")
    /\ Mishap
    /\ UNCHANGED <<active, generations, bindings, reports, live, runs, results, audit>>

\* Mutant of AppendAudit: a record that is there already is taken for this one.
AppendAudit_first_wins(c) ==
    LET request == calls[c].request IN
    /\ calls[c].phase = "audit"
    /\ audit' = [audit EXCEPT ![request] = IF @ = "none" THEN calls[c].outcome ELSE @]
    /\ Goto(c, "result")
    /\ UNCHANGED <<active, generations, bindings, reports, live, runs, results, mishaps>>

\* The audit record of the execution has one id. Appended again it must be the
\* same, which two records of one status may or may not be; else this raises.
AppendAudit(c) ==
    LET request == calls[c].request
        outcome == calls[c].outcome
    IN
    /\ calls[c].phase = "audit"
    /\ \/ /\ audit[request] \in {"none", outcome}
          /\ audit' = [audit EXCEPT ![request] = outcome]
          /\ Goto(c, "result")
       \/ audit[request] # "none" /\ Leave(c) /\ UNCHANGED audit
    /\ UNCHANGED <<active, generations, bindings, reports, live, runs, results, mishaps>>

\* FirestoreCatalog.create of the result, which raises when there is one.
CreateResult(c) ==
    LET request == calls[c].request IN
    /\ calls[c].phase = "result"
    /\ results' = [results EXCEPT ![request] = IF @ = "none" THEN calls[c].outcome ELSE @]
    /\ Leave(c)
    /\ UNCHANGED <<active, generations, bindings, reports, live, runs, audit, mishaps>>

\* The instance of an execution ends, or it raises outside execute's handler.
Crash(c) ==
    /\ calls[c].phase # "idle"
    /\ Leave(c)
    /\ Mishap
    /\ UNCHANGED <<active, generations, bindings, reports, live, runs, results, audit>>

-----------------------------------------------------------------------------
Init ==
    /\ Store!Init
    /\ live = None
    /\ runs = [r \in Run |-> [stage |-> "pending", revision |-> 1, token |-> 1,
                              predecessor |-> First, target |-> None]]
    /\ results = [x \in Execution |-> "none"]
    /\ audit = [x \in Execution |-> "none"]
    /\ calls = [c \in Calls |-> Idle]
    /\ mishaps = 0

Next ==
    \/ \E r \in Run : Open(r) \/ Complete(r) \/ Resume(r) \/ End(r)
    \/ \E c \in Calls :
          \/ Begin(c)
          \/ CreateStage(c) \/ StoreStage(c) \/ DeployStage(c)
          \/ VerifyStage(c) \/ RolloutStage(c)
          \/ HandlerFails(c) \/ AppendAudit(c) \/ CreateResult(c) \/ Crash(c)
    \/ \E c \in Calls, status \in {"passed", "failed"} : RunVerification(c, status)

Spec == Init /\ [][Next]_vars

-----------------------------------------------------------------------------
(* Properties *)

\* The generation repository, the run documents, the stored results and the
\* executions keep their types (contracts run.py, service.py execute).
TypeOK ==
    /\ Store!TypeOK
    /\ live \in Run \cup {None}
    /\ runs \in [Run -> RunDocument]
    /\ results \in [Execution -> Status]
    /\ audit \in [Execution -> Status]
    /\ calls \in [Calls -> Call]
    /\ mishaps \in Nat

\* A stored result and the audit record of its execution say the same, however
\* many executions of one request ran side by side and wherever they died
\* (service.py execute, which writes the record first).
ResultAudited ==
    \A x \in Execution : results[x] # "none" => audit[x] = results[x]

\* While a run is past STORE, every consumer is being moved to its generation,
\* which still waits to be activated: no late execution of an earlier stage or
\* of an earlier run takes a binding away (service.py _store, stage_bindings).
TargetHeld ==
    live # None /\ runs[live].stage \in {"deploy", "verify", "rollout"} =>
        /\ generations[runs[live].target].state = "creating"
        /\ generations[runs[live].target].predecessor = active
        /\ \A s \in Service : bindings[s].target = runs[live].target

\* A run reaches ROLLOUT only with a passed report of its own generation on
\* every consumer's binding, and keeps one, whatever else is reported (service.py
\* _verify, verify_bindings).
VerifiedBeforeRollout ==
    live # None /\ runs[live].stage = "rollout" =>
        \A s \in Service :
            /\ bindings[s].report # None
            /\ Store!Passed(bindings[s].report, runs[live].target)

\* The refusal of promote says "consumer binding has not verified the target".
\* It refuses a verified rollout only where some binding really has not.
RefusedOnlyUnverified ==
    \A c \in Calls : At(c, "verified", "rollout") =>
        LET run == calls[c].run IN
        (/\ Store!Succeeds(run.target, run.predecessor)
         /\ \A s \in Service :
               /\ bindings[s].current = run.predecessor
               /\ bindings[s].target = run.target
               /\ bindings[s].report # None
               /\ Store!Passed(bindings[s].report, run.target))
        => Promotable(c)
=============================================================================
