------------------------ MODULE StageExecutionProofs ------------------------
(***************************************************************************)
(* Proofs about StageExecution for every number of executions, runs,       *)
(* consumers, revisions and fencing tokens, with executions that outlive   *)
(* the revision, the run and the run's hold of the credential.             *)
(***************************************************************************)
EXTENDS StageExecution, TLAPS

-----------------------------------------------------------------------------
(***************************************************************************)
(* The inductive invariant. A run keeps one stage at a revision, so every  *)
(* execution of one request read the same document; a binding that has a   *)
(* target keeps it, because the only step that would clear it, the         *)
(* promotion of a rollout, asks for a report that no binding can carry.    *)
(***************************************************************************)

\* What a succeeded execution of a stage has left behind.
Done(r, run) ==
    /\ run.stage = "create" => generations[Created(r, run)].state = "creating"
    /\ run.stage = "store" => \A s \in Service : bindings[s].target = run.target
    /\ run.stage = "verify" => \A s \in Service : bindings[s].report # None

\* Documents of runs after CREATE name a generation that waits to be activated.
TargetMade(run) ==
    /\ run.predecessor = First
    /\ run.stage \in {"store", "deploy", "verify", "rollout", "observe"}
         => run.target \in Generation /\ generations[run.target].state = "creating"

\* The generations: nothing was ever activated but the imported one.
GenerationSound(g) ==
    /\ g # First => generations[g].state \in {"absent", "creating"}
    /\ generations[g].state = "creating" => generations[g].predecessor = First

BindingSound(s) ==
    LET rep == bindings[s].report IN
    rep # None =>
        /\ rep \in Execution
        /\ bindings[s].target # None
        /\ Store!Passed(rep, bindings[s].target)
        /\ runs[rep[1]].stage # "pending" /\ rep[2] <= runs[rep[1]].revision
        /\ rep[2] = runs[rep[1]].revision => runs[rep[1]].stage \in {"verify", "over"}

RunSound(r) ==
    /\ TargetMade(runs[r])
    /\ runs[r].stage \in {"deploy", "verify", "rollout", "observe"}
         => \A s \in Service : bindings[s].target = runs[r].target
    /\ runs[r].stage \in {"rollout", "observe"}
         => \A s \in Service : bindings[s].report # None
    /\ \A v \in Revision : results[<<r, v>>] # "none"
         => runs[r].stage # "pending" /\ v <= runs[r].revision
    /\ results[<<r, runs[r].revision>>] = "succeeded" => Done(r, runs[r])

\* What holds of the request x of an execution and the document it read.
Remembered(x, run) ==
    /\ x \in Execution /\ run \in RunDocument
    /\ run.revision = x[2] /\ run.stage \in DOMAIN NextStage
    /\ runs[x[1]].stage # "pending" /\ x[2] <= runs[x[1]].revision
    /\ x[2] = runs[x[1]].revision /\ runs[x[1]].stage # "over" => run = runs[x[1]]
    /\ TargetMade(run)
    /\ \A s \in Service : bindings[s].report = x => run.stage = "verify"

CallSound(c) ==
    LET x == calls[c].request
        run == calls[c].run
    IN
    calls[c].phase # "idle" =>
        /\ Remembered(x, run)
        /\ calls[c].phase = "verified" => Store!Passed(x, run.target)
        /\ calls[c].phase \in {"audit", "result"} => calls[c].outcome \in {"succeeded", "failed"}
        /\ calls[c].outcome = "succeeded" => Done(x[1], run)
        /\ calls[c].phase = "result" => audit[x] = calls[c].outcome

OneDocument ==
    \A c, d \in Calls :
        calls[c].phase # "idle" /\ calls[d].phase # "idle" /\ calls[c].request = calls[d].request
          => calls[c].run = calls[d].run

LiveSound == live # None => runs[live].stage \notin {"pending", "over"}

ActiveImported == active = First /\ generations[First].state = "active"

IInv ==
    /\ TypeOK /\ ActiveImported /\ LiveSound /\ OneDocument /\ ResultAudited
    /\ \A g \in Generation : GenerationSound(g)
    /\ \A s \in Service : BindingSound(s)
    /\ \A r \in Run : RunSound(r)
    /\ \A c \in Calls : CallSound(c)

-----------------------------------------------------------------------------
(***************************************************************************)
(* What a step does to the generation repository.                          *)
(***************************************************************************)

\* The documents of an execution at work, typed.
LEMMA CallTyped ==
    ASSUME IInv, NEW c \in Calls, calls[c].phase # "idle"
    PROVE  /\ calls[c].request \in Execution /\ calls[c].run \in RunDocument
           /\ calls[c].request[1] \in Run /\ calls[c].request[2] \in Revision
           /\ calls[c].request = <<calls[c].request[1], calls[c].request[2]>>
           /\ Created(calls[c].request[1], calls[c].run) \in Generation
           /\ calls[c].run.predecessor = First
           /\ calls[c].run.stage \in {"store", "deploy", "verify", "rollout", "observe"}
                => /\ calls[c].run.target \in Generation
                   /\ generations[calls[c].run.target].state = "creating"
  <1>1. CallSound(c)
    BY DEF IInv
  <1>2. /\ calls[c].request \in Execution /\ calls[c].run \in RunDocument
        /\ TargetMade(calls[c].run)
    BY <1>1 DEF CallSound, Remembered
  <1>3. calls[c].run.token \in Token
    BY <1>2 DEF RunDocument
  <1> QED BY <1>2, <1>3 DEF Execution, Created, Generation, TargetMade

\* promote asks for the report the rollout made itself; the bindings carry the
\* one that was made in VERIFY.
LEMMA NotPromotable ==
    ASSUME IInv, NEW c \in Calls, At(c, "verified", "rollout")
    PROVE  ~Promotable(c)
  <1>1. calls[c].phase # "idle" /\ calls[c].run.stage = "rollout"
    BY DEF At
  <1>2. \A s \in Service : bindings[s].report # calls[c].request
    BY <1>1 DEF IInv, CallSound, Remembered
  <1> QED BY <1>2 DEF Promotable, Store!MayPromote, Store!Verified

\* A step leaves the repository alone or is one of four of its operations.
LEMMA RepositoryMoves ==
    ASSUME IInv, Next
    PROVE  \/ UNCHANGED store
           \/ \E c \in Calls :
                 \/ /\ CreateStage(c)
                    /\ Store!Create(Created(calls[c].request[1], calls[c].run), First)
                 \/ /\ StoreStage(c)
                    /\ Store!StageBindings(calls[c].run.target, Service)
                 \/ /\ VerifyStage(c)
                    /\ Store!VerifyBindings(calls[c].run.target, calls[c].request, Service)
                 \/ \E status \in {"passed", "failed"} :
                       /\ RunVerification(c, status)
                       /\ Store!SaveReport(calls[c].request, calls[c].run.target, status)
  <1>1. ASSUME NEW r \in Run, Open(r) \/ Complete(r) \/ Resume(r) \/ End(r)
        PROVE  UNCHANGED store
    BY <1>1 DEF Open, Complete, Resume, End, store
  <1>2. ASSUME NEW c \in Calls,
               \/ Begin(c) \/ DeployStage(c) \/ HandlerFails(c) \/ AppendAudit(c)
               \/ CreateResult(c) \/ Crash(c)
        PROVE  UNCHANGED store
    BY <1>2 DEF Begin, DeployStage, HandlerFails, AppendAudit, CreateResult, Crash, store
  <1>3. ASSUME NEW c \in Calls, CreateStage(c)
        PROVE  \/ UNCHANGED store
               \/ Store!Create(Created(calls[c].request[1], calls[c].run), First)
    <2>1. calls[c].run.predecessor = First
      BY <1>3, CallTyped DEF CreateStage, At
    <2> QED BY <1>3, <2>1 DEF CreateStage
  <1>4. ASSUME NEW c \in Calls, RolloutStage(c) PROVE UNCHANGED store
    BY <1>4, NotPromotable DEF RolloutStage
  <1>5. ASSUME NEW c \in Calls, StoreStage(c)
        PROVE  UNCHANGED store \/ Store!StageBindings(calls[c].run.target, Service)
    BY <1>5 DEF StoreStage
  <1>6. ASSUME NEW c \in Calls, VerifyStage(c)
        PROVE  \/ UNCHANGED store
               \/ Store!VerifyBindings(calls[c].run.target, calls[c].request, Service)
    BY <1>6 DEF VerifyStage
  <1>7. ASSUME NEW c \in Calls, NEW status \in {"passed", "failed"}, RunVerification(c, status)
        PROVE  \/ UNCHANGED store
               \/ Store!SaveReport(calls[c].request, calls[c].run.target, status)
    BY <1>7 DEF RunVerification
  <1> QED BY <1>1, <1>2, <1>3, <1>4, <1>5, <1>6, <1>7 DEF Next

\* What is recorded stays: generations that wait, targets, reports.
Grows ==
    /\ \A g \in Generation : generations[g].state = "creating" => generations'[g].state = "creating"
    /\ \A s \in Service :
          /\ bindings[s].target # None => bindings'[s].target = bindings[s].target
          /\ bindings[s].report # None => bindings'[s].report # None
    /\ \A x \in Execution : reports[x].status # "absent" => reports'[x] = reports[x]

LEMMA RepositoryStep ==
    ASSUME IInv, Next
    PROVE  /\ Store!TypeOK' /\ ActiveImported' /\ Grows
           /\ \A g \in Generation : GenerationSound(g)'
  <1>0. /\ active \in Generation /\ First \in Generation
        /\ generations \in [Generation -> Store!GenerationDocument]
        /\ bindings \in [Service -> Store!Binding]
        /\ reports \in [Execution -> Store!VerificationReport]
    BY DEF IInv, TypeOK, Store!TypeOK, Generation
  <1>1. CASE UNCHANGED store
    BY <1>1 DEF store, IInv, TypeOK, Store!TypeOK, ActiveImported, Grows, GenerationSound
  <1>2. ASSUME NEW c \in Calls, CreateStage(c),
               Store!Create(Created(calls[c].request[1], calls[c].run), First)
        PROVE  /\ Store!TypeOK' /\ ActiveImported' /\ Grows
               /\ \A g \in Generation : GenerationSound(g)'
    <2> DEFINE h == Created(calls[c].request[1], calls[c].run)
               doc == [state |-> "creating", predecessor |-> First, successor |-> None]
    <2>1. h \in Generation
      BY <1>2, CallTyped DEF CreateStage, At
    <2>2. /\ generations[h].state = "absent"
          /\ generations' = [generations EXCEPT ![h] = doc]
          /\ UNCHANGED <<active, bindings, reports>>
      BY <1>2 DEF Store!Create, Store!Exists
    <2>3. doc \in Store!GenerationDocument
      BY <1>0 DEF Store!GenerationDocument, Store!GenerationState
    <2> HIDE DEF h
    <2>4. h # First
      BY <2>2 DEF IInv, ActiveImported
    <2>5. \A g \in Generation : generations'[g] = IF g = h THEN doc ELSE generations[g]
      BY <1>0, <2>1, <2>2
    <2>6. Store!TypeOK'
      BY <1>0, <2>1, <2>2, <2>3 DEF Store!TypeOK
    <2>7. ActiveImported' /\ \A g \in Generation : GenerationSound(g)'
      BY <1>0, <2>2, <2>4, <2>5 DEF IInv, ActiveImported, GenerationSound
    <2>8. Grows
      BY <2>2, <2>5 DEF Grows
    <2> QED BY <2>6, <2>7, <2>8
  <1>3. ASSUME NEW c \in Calls, StoreStage(c),
               Store!StageBindings(calls[c].run.target, Service)
        PROVE  /\ Store!TypeOK' /\ ActiveImported' /\ Grows
               /\ \A g \in Generation : GenerationSound(g)'
    <2> DEFINE h == calls[c].run.target
    <2>1. h \in Generation
      BY <1>3, CallTyped DEF StoreStage, At
    <2> HIDE DEF h
    <2>2. /\ \A s \in Service : bindings[s].target \in {None, h}
          /\ bindings' = [s \in Service |-> [bindings[s] EXCEPT !.target = h, !.secret = h]]
          /\ UNCHANGED <<active, generations, reports>>
      BY <1>3 DEF Store!StageBindings, Store!MayStage, Store!Staged, h
    <2>3. ASSUME NEW s \in Service
          PROVE  /\ bindings'[s] \in Store!Binding
                 /\ bindings'[s].target = h /\ bindings'[s].report = bindings[s].report
      <3>1. bindings[s] \in Store!Binding
        BY <1>0
      <3>2. bindings'[s] = [bindings[s] EXCEPT !.target = h, !.secret = h]
        BY <2>2
      <3> QED BY <2>1, <3>1, <3>2 DEF Store!Binding
    <2>4. Store!TypeOK'
      BY <1>0, <2>2, <2>3 DEF Store!TypeOK
    <2>5. ActiveImported' /\ \A g \in Generation : GenerationSound(g)'
      BY <2>2 DEF IInv, ActiveImported, GenerationSound
    <2>6. Grows
      BY <2>2, <2>3 DEF Grows
    <2> QED BY <2>4, <2>5, <2>6
  <1>4. ASSUME NEW c \in Calls, VerifyStage(c),
               Store!VerifyBindings(calls[c].run.target, calls[c].request, Service)
        PROVE  /\ Store!TypeOK' /\ ActiveImported' /\ Grows
               /\ \A g \in Generation : GenerationSound(g)'
    <2> DEFINE x == calls[c].request
    <2>1. x \in Execution /\ x # None
      BY <1>4, CallTyped, AbsentAssumption DEF VerifyStage, At
    <2> HIDE DEF x
    <2>2. /\ bindings' = [s \in Service |-> [bindings[s] EXCEPT !.report = x]]
          /\ UNCHANGED <<active, generations, reports>>
      BY <1>4 DEF Store!VerifyBindings, x
    <2>3. ASSUME NEW s \in Service
          PROVE  /\ bindings'[s] \in Store!Binding
                 /\ bindings'[s].target = bindings[s].target /\ bindings'[s].report = x
      <3>1. bindings[s] \in Store!Binding
        BY <1>0
      <3>2. bindings'[s] = [bindings[s] EXCEPT !.report = x]
        BY <2>2
      <3> QED BY <2>1, <3>1, <3>2 DEF Store!Binding
    <2>4. Store!TypeOK'
      BY <1>0, <2>2, <2>3 DEF Store!TypeOK
    <2>5. ActiveImported' /\ \A g \in Generation : GenerationSound(g)'
      BY <2>2 DEF IInv, ActiveImported, GenerationSound
    <2>6. Grows
      BY <2>1, <2>2, <2>3 DEF Grows
    <2> QED BY <2>4, <2>5, <2>6
  <1>5. ASSUME NEW c \in Calls, NEW status \in {"passed", "failed"}, RunVerification(c, status),
               Store!SaveReport(calls[c].request, calls[c].run.target, status)
        PROVE  /\ Store!TypeOK' /\ ActiveImported' /\ Grows
               /\ \A g \in Generation : GenerationSound(g)'
    <2> DEFINE x == calls[c].request
               doc == [status |-> status, generation |-> calls[c].run.target]
    <2>1. x \in Execution /\ calls[c].run.target \in Generation
      BY <1>5, CallTyped DEF RunVerification
    <2>2. doc \in Store!VerificationReport
      BY <2>1 DEF Store!VerificationReport
    <2>3. /\ reports[x].status = "absent"
          /\ reports' = [reports EXCEPT ![x] = doc]
          /\ UNCHANGED <<active, generations, bindings>>
      BY <1>5 DEF Store!SaveReport
    <2> HIDE DEF x, doc
    <2>4. Store!TypeOK'
      BY <1>0, <2>1, <2>2, <2>3 DEF Store!TypeOK
    <2>5. ActiveImported' /\ \A g \in Generation : GenerationSound(g)'
      BY <2>3 DEF IInv, ActiveImported, GenerationSound
    <2>6. Grows
      BY <1>0, <2>3 DEF Grows
    <2> QED BY <2>4, <2>5, <2>6
  <1> QED BY <1>1, <1>2, <1>3, <1>4, <1>5, RepositoryMoves

\* What was recorded for a document stays recorded.
LEMMA DoneStays ==
    ASSUME Grows, NEW r \in Run, NEW run \in RunDocument, TargetMade(run)
    PROVE  TargetMade(run)' /\ (Done(r, run) => Done(r, run)')
  <1>1. Created(r, run) \in Generation
    BY DEF Created, RunDocument, Generation
  <1>2. run.stage = "store" => run.target \in Generation /\ run.target # None
    BY AbsentAssumption DEF TargetMade
  <1>3. TargetMade(run)'
    BY DEF TargetMade, Grows
  <1>4. ASSUME Done(r, run) PROVE Done(r, run)'
    <2>1. run.stage = "create" => generations'[Created(r, run)].state = "creating"
      BY <1>1, <1>4 DEF Done, Grows
    <2>2. run.stage = "store" => \A s \in Service : bindings'[s].target = run.target
      BY <1>2, <1>4 DEF Done, Grows
    <2>3. run.stage = "verify" => \A s \in Service : bindings'[s].report # None
      BY <1>4 DEF Done, Grows
    <2> QED BY <2>1, <2>2, <2>3 DEF Done, Created
  <1> QED BY <1>3, <1>4

-----------------------------------------------------------------------------
(***************************************************************************)
(* What a step does to a run. It leaves the document alone, opens a run    *)
(* that was pending, ends it, or moves it to the next revision.            *)
(***************************************************************************)
RunMoves(r) ==
    \/ runs'[r] = runs[r]
    \/ /\ Open(r)
       /\ runs[r].stage = "pending" /\ runs'[r].stage = "create"
       /\ runs'[r].revision = runs[r].revision
       /\ runs'[r].predecessor = First
    \/ /\ Complete(r) \/ Resume(r)
       /\ runs[r].stage \notin {"pending", "over"}
       /\ runs'[r].stage \notin {"pending", "over"}
       /\ runs'[r].revision = runs[r].revision + 1
       /\ runs'[r].predecessor = runs[r].predecessor
    \/ /\ End(r)
       /\ runs[r].stage # "pending" /\ runs'[r].stage = "over"
       /\ runs'[r].revision = runs[r].revision
       /\ runs'[r].predecessor = runs[r].predecessor

\* The document of a run that one of its own steps moves.
LEMMA RunWritten ==
    ASSUME IInv, NEW r \in Run, Open(r) \/ Complete(r) \/ Resume(r) \/ End(r)
    PROVE  /\ RunMoves(r) /\ runs' \in [Run -> RunDocument]
           /\ live' \in Run \cup {None} /\ LiveSound'
           /\ \A o \in Run \ {r} : runs'[o] = runs[o]
           /\ UNCHANGED <<active, generations, bindings, reports, results, audit, calls>>
  <1>0. /\ runs \in [Run -> RunDocument] /\ runs[r] \in RunDocument
        /\ active = First /\ First \in Generation
    BY DEF IInv, TypeOK, ActiveImported, Generation
  <1>n. r # None
    BY AbsentAssumption
  <1>1. CASE Open(r)
    <2> DEFINE u == [runs[r] EXCEPT !.stage = "create", !.predecessor = active]
    <2>1. runs[r].stage = "pending" /\ runs' = [runs EXCEPT ![r] = u]
          /\ live' = r /\ UNCHANGED <<active, generations, bindings, reports, results, audit, calls>>
      BY <1>1 DEF Open
    <2>2. /\ u \in RunDocument /\ u.stage = "create" /\ u.revision = runs[r].revision
          /\ u.predecessor = First
      BY <1>0 DEF RunDocument, Stage
    <2> HIDE DEF u
    <2> QED BY <1>0, <1>1, <1>n, <2>1, <2>2 DEF RunMoves, LiveSound
  <1>2. CASE Complete(r)
    <2> DEFINE target == IF runs[r].stage = "create" THEN Created(r, runs[r])
                                                     ELSE runs[r].target
               u == [runs[r] EXCEPT !.stage = NextStage[runs[r].stage],
                                    !.revision = runs[r].revision + 1, !.target = target]
    <2>1. /\ runs[r].stage \in DOMAIN NextStage /\ runs[r].revision < MaxRevision
          /\ runs' = [runs EXCEPT ![r] = u] /\ live = r
          /\ UNCHANGED <<live, active, generations, bindings, reports, results, audit, calls>>
      BY <1>2 DEF Complete
    <2>2. target \in Generation \cup {None}
      BY <1>0 DEF Created, RunDocument, Generation
    <2>3. NextStage[runs[r].stage] \in Stage \ {"create"}
      BY <2>1 DEF NextStage, Stage
    <2>4. runs[r].revision + 1 \in Revision
      BY <1>0, <2>1, BoundsAssumption DEF RunDocument, Revision
    <2> HIDE DEF target
    <2>5. /\ u \in RunDocument /\ u.stage = NextStage[runs[r].stage]
          /\ u.revision = runs[r].revision + 1 /\ u.predecessor = runs[r].predecessor
      BY <1>0, <2>2, <2>3, <2>4 DEF RunDocument
    <2>6. runs[r].stage \notin {"pending", "over"} /\ u.stage \notin {"pending", "over"}
      BY <2>1, <2>3, <2>5 DEF NextStage, Stage
    <2> HIDE DEF u
    <2> QED BY <1>0, <1>2, <1>n, <2>1, <2>5, <2>6 DEF RunMoves, LiveSound
  <1>3. CASE Resume(r)
    <2> DEFINE u == [runs[r] EXCEPT !.revision = runs[r].revision + 1,
                                    !.token = runs[r].token + 1]
    <2>1. /\ runs[r].revision < MaxRevision /\ runs[r].token < MaxToken
          /\ runs' = [runs EXCEPT ![r] = u] /\ live = r
          /\ UNCHANGED <<live, active, generations, bindings, reports, results, audit, calls>>
      BY <1>3 DEF Resume
    <2>2. runs[r].revision + 1 \in Revision /\ runs[r].token + 1 \in Token
      BY <1>0, <2>1, BoundsAssumption DEF RunDocument, Revision, Token
    <2>3. /\ u \in RunDocument /\ u.stage = runs[r].stage
          /\ u.revision = runs[r].revision + 1 /\ u.predecessor = runs[r].predecessor
      BY <1>0, <2>2 DEF RunDocument
    <2>4. runs[r].stage \notin {"pending", "over"}
      BY <1>n, <2>1 DEF IInv, LiveSound
    <2> HIDE DEF u
    <2> QED BY <1>0, <1>3, <1>n, <2>1, <2>3, <2>4 DEF RunMoves, LiveSound
  <1>4. CASE End(r)
    <2> DEFINE u == [runs[r] EXCEPT !.stage = "over"]
    <2>1. /\ runs' = [runs EXCEPT ![r] = u] /\ live = r /\ live' = None
          /\ UNCHANGED <<active, generations, bindings, reports, results, audit, calls>>
      BY <1>4 DEF End
    <2>2. /\ u \in RunDocument /\ u.stage = "over"
          /\ u.revision = runs[r].revision /\ u.predecessor = runs[r].predecessor
      BY <1>0 DEF RunDocument
    <2>3. runs[r].stage # "pending"
      BY <1>n, <2>1 DEF IInv, LiveSound
    <2> HIDE DEF u
    <2> QED BY <1>0, <1>4, <1>n, <2>1, <2>2, <2>3 DEF RunMoves, LiveSound
  <1> QED BY <1>1, <1>2, <1>3, <1>4

\* The steps of one execution.
CallStep(c) ==
    \/ Begin(c)
    \/ CreateStage(c) \/ StoreStage(c) \/ DeployStage(c)
    \/ VerifyStage(c) \/ RolloutStage(c)
    \/ HandlerFails(c) \/ AppendAudit(c) \/ CreateResult(c) \/ Crash(c)
    \/ \E status \in {"passed", "failed"} : RunVerification(c, status)

LEMMA WhoSteps ==
    ASSUME Next
    PROVE  \/ \E r \in Run : Open(r) \/ Complete(r) \/ Resume(r) \/ End(r)
           \/ \E c \in Calls : CallStep(c)
  BY DEF Next, CallStep

\* A step of an execution moves no run and no other execution, and writes the
\* audit record and the result of its own request alone.
LEMMA CallStepFrame ==
    ASSUME IInv, NEW c \in Calls, CallStep(c)
    PROVE  /\ UNCHANGED <<runs, live>>
           /\ \A d \in Calls \ {c} : calls'[d] = calls[d]
           /\ AppendAudit(c) \/ UNCHANGED audit
           /\ CreateResult(c) \/ UNCHANGED results
  <1>0. calls \in [Calls -> Call]
    BY DEF IInv, TypeOK
  <1>1. CASE Begin(c) \/ CreateStage(c) \/ StoreStage(c) \/ DeployStage(c) \/ VerifyStage(c)
    BY <1>0, <1>1 DEF Begin, CreateStage, StoreStage, DeployStage, VerifyStage, Finish
  <1>2. CASE RolloutStage(c) \/ HandlerFails(c) \/ AppendAudit(c) \/ CreateResult(c) \/ Crash(c)
    BY <1>0, <1>2 DEF RolloutStage, HandlerFails, AppendAudit, CreateResult, Crash, Finish, Goto,
                      Leave
  <1>3. ASSUME NEW status \in {"passed", "failed"}, RunVerification(c, status)
        PROVE  /\ UNCHANGED <<runs, live>>
               /\ \A d \in Calls \ {c} : calls'[d] = calls[d]
               /\ AppendAudit(c) \/ UNCHANGED audit
               /\ CreateResult(c) \/ UNCHANGED results
    BY <1>0, <1>3 DEF RunVerification, Finish, Goto
  <1> QED BY <1>1, <1>2, <1>3 DEF CallStep

LEMMA AnyRunMoves ==
    ASSUME IInv, Next, NEW r \in Run
    PROVE  RunMoves(r)
  BY RunWritten, CallStepFrame, WhoSteps DEF RunMoves

-----------------------------------------------------------------------------
(***************************************************************************)
(* What a step writes.                                                     *)
(***************************************************************************)

\* Only verify_bindings puts a report on a binding, and only on the target it
\* was made about.
LEMMA ReportsOn ==
    ASSUME IInv, Next, NEW s \in Service
    PROVE  \/ bindings'[s].report = bindings[s].report
           \/ \E c \in Calls :
                 /\ VerifyStage(c) /\ bindings'[s].report = calls[c].request
                 /\ bindings[s].target = calls[c].run.target
  <1>0. bindings \in [Service -> Store!Binding] /\ bindings[s] \in Store!Binding
    BY DEF IInv, TypeOK, Store!TypeOK
  <1>1. CASE UNCHANGED store
    BY <1>1 DEF store
  <1>2. ASSUME NEW c \in Calls, CreateStage(c),
               Store!Create(Created(calls[c].request[1], calls[c].run), First)
        PROVE  bindings'[s].report = bindings[s].report
    BY <1>2 DEF Store!Create
  <1>3. ASSUME NEW c \in Calls, StoreStage(c),
               Store!StageBindings(calls[c].run.target, Service)
        PROVE  bindings'[s].report = bindings[s].report
    <2> DEFINE h == calls[c].run.target
    <2>1. bindings'[s] = [bindings[s] EXCEPT !.target = h, !.secret = h]
      BY <1>3 DEF Store!StageBindings, Store!Staged
    <2> HIDE DEF h
    <2> QED BY <1>0, <2>1 DEF Store!Binding
  <1>4. ASSUME NEW c \in Calls, VerifyStage(c),
               Store!VerifyBindings(calls[c].run.target, calls[c].request, Service)
        PROVE  /\ bindings'[s].report = calls[c].request
               /\ bindings[s].target = calls[c].run.target
    <2> DEFINE x == calls[c].request
    <2>1. /\ bindings'[s] = [bindings[s] EXCEPT !.report = x]
          /\ bindings[s].target = calls[c].run.target
      BY <1>4 DEF Store!VerifyBindings
    <2> HIDE DEF x
    <2>2. bindings'[s].report = x
      BY <1>0, <2>1 DEF Store!Binding
    <2> QED BY <2>1, <2>2 DEF x
  <1>5. ASSUME NEW c \in Calls, NEW status \in {"passed", "failed"}, RunVerification(c, status),
               Store!SaveReport(calls[c].request, calls[c].run.target, status)
        PROVE  bindings'[s].report = bindings[s].report
    BY <1>5 DEF Store!SaveReport
  <1> QED BY <1>1, <1>2, <1>3, <1>4, <1>5, RepositoryMoves

\* An audit record is never overwritten; one appears with the outcome of the
\* execution that appends it.
LEMMA AuditMoves ==
    ASSUME IInv, Next
    PROVE  /\ audit' \in [Execution -> Status]
           /\ \A x \in Execution : audit[x] # "none" => audit'[x] = audit[x]
  <1>0. audit \in [Execution -> Status]
    BY DEF IInv, TypeOK
  <1>1. ASSUME NEW c \in Calls, AppendAudit(c)
        PROVE  /\ audit' \in [Execution -> Status]
               /\ \A x \in Execution : audit[x] # "none" => audit'[x] = audit[x]
    <2> DEFINE x == calls[c].request
               outcome == calls[c].outcome
    <2>1. x \in Execution /\ calls \in [Calls -> Call]
      BY <1>1, CallTyped DEF AppendAudit, IInv, TypeOK
    <2>2. outcome \in Status
      BY <2>1 DEF Call
    <2>3. \/ audit[x] \in {"none", outcome} /\ audit' = [audit EXCEPT ![x] = outcome]
          \/ UNCHANGED audit
      BY <1>1 DEF AppendAudit
    <2> HIDE DEF x, outcome
    <2> QED BY <1>0, <2>1, <2>2, <2>3
  <1>2. CASE UNCHANGED audit
    BY <1>0, <1>2
  <1>3. ASSUME NEW r \in Run, Open(r) \/ Complete(r) \/ Resume(r) \/ End(r)
        PROVE  UNCHANGED audit
    BY <1>3, RunWritten
  <1>4. ASSUME NEW c \in Calls, CallStep(c)
        PROVE  AppendAudit(c) \/ UNCHANGED audit
    BY <1>4, CallStepFrame
  <1> QED BY <1>1, <1>2, <1>3, <1>4, WhoSteps

\* A result is written once, by an execution that has written its audit record.
LEMMA ResultMoves ==
    ASSUME IInv, Next
    PROVE  /\ results' \in [Execution -> Status]
           /\ \A x \in Execution :
                 \/ results'[x] = results[x]
                 \/ /\ results[x] = "none"
                    /\ \E c \in Calls : /\ CreateResult(c) /\ x = calls[c].request
                                        /\ results'[x] = calls[c].outcome
  <1>0. results \in [Execution -> Status]
    BY DEF IInv, TypeOK
  <1>1. ASSUME NEW c \in Calls, CreateResult(c)
        PROVE  /\ results' \in [Execution -> Status]
               /\ \A y \in Execution :
                     \/ results'[y] = results[y]
                     \/ /\ results[y] = "none" /\ y = calls[c].request
                        /\ results'[y] = calls[c].outcome
    <2> DEFINE x == calls[c].request
               outcome == calls[c].outcome
    <2>1. x \in Execution /\ calls \in [Calls -> Call]
      BY <1>1, CallTyped DEF CreateResult, IInv, TypeOK
    <2>2. outcome \in Status
      BY <2>1 DEF Call
    <2>3. results' = [results EXCEPT ![x] = IF results[x] = "none" THEN outcome ELSE results[x]]
      BY <1>1 DEF CreateResult
    <2> HIDE DEF x, outcome
    <2>4. /\ results' \in [Execution -> Status]
          /\ \A y \in Execution :
                     \/ results'[y] = results[y]
                     \/ /\ results[y] = "none" /\ y = x /\ results'[y] = outcome
      BY <1>0, <2>1, <2>2, <2>3
    <2> QED BY <2>4 DEF x, outcome
  <1>2. ASSUME NEW r \in Run, Open(r) \/ Complete(r) \/ Resume(r) \/ End(r)
        PROVE  UNCHANGED results
    BY <1>2, RunWritten
  <1>3. ASSUME NEW c \in Calls, CallStep(c)
        PROVE  CreateResult(c) \/ UNCHANGED results
    BY <1>3, CallStepFrame
  <1> QED BY <1>0, <1>1, <1>2, <1>3, WhoSteps

LEMMA AuditedStays ==
    ASSUME IInv, Next
    PROVE  ResultAudited'
  <1>1. ASSUME NEW x \in Execution, results'[x] # "none" PROVE audit'[x] = results'[x]
    <2>1. CASE results'[x] = results[x]
      BY <1>1, <2>1, AuditMoves DEF IInv, ResultAudited
    <2>2. ASSUME NEW c \in Calls, CreateResult(c), x = calls[c].request,
                 results'[x] = calls[c].outcome
          PROVE  audit'[x] = results'[x]
      <3>1. audit[x] = calls[c].outcome
        BY <2>2 DEF IInv, CallSound, CreateResult
      <3> QED BY <1>1, <2>2, <3>1, AuditMoves
    <2> QED BY <2>1, <2>2, ResultMoves
  <1> QED BY <1>1 DEF ResultAudited

-----------------------------------------------------------------------------
(***************************************************************************)
(* What a step of an execution makes of its own position.                  *)
(***************************************************************************)
LEMMA Positions ==
    ASSUME calls \in [Calls -> Call], NEW c \in Calls
    PROVE  /\ \A o \in Status : Finish(c, o) =>
                 /\ calls' \in [Calls -> Call]
                 /\ calls'[c].phase = "audit" /\ calls'[c].outcome = o
                 /\ calls'[c].request = calls[c].request /\ calls'[c].run = calls[c].run
           /\ \A phase \in {"verified", "result"} : Goto(c, phase) =>
                 /\ calls' \in [Calls -> Call]
                 /\ calls'[c].phase = phase /\ calls'[c].outcome = calls[c].outcome
                 /\ calls'[c].request = calls[c].request /\ calls'[c].run = calls[c].run
           /\ Leave(c) => calls' \in [Calls -> Call] /\ calls'[c].phase = "idle"
  <1>1. ASSUME NEW o \in Status, Finish(c, o)
        PROVE  /\ calls' \in [Calls -> Call]
               /\ calls'[c].phase = "audit" /\ calls'[c].outcome = o
               /\ calls'[c].request = calls[c].request /\ calls'[c].run = calls[c].run
    <2> DEFINE u == [calls[c] EXCEPT !.phase = "audit", !.outcome = o]
    <2>1. /\ u \in Call /\ u.phase = "audit" /\ u.outcome = o
          /\ u.request = calls[c].request /\ u.run = calls[c].run
      BY <1>1 DEF Call
    <2>2. calls' = [calls EXCEPT ![c] = u]
      BY <1>1 DEF Finish
    <2> HIDE DEF u
    <2> QED BY <2>1, <2>2
  <1>2. ASSUME NEW phase \in {"verified", "result"}, Goto(c, phase)
        PROVE  /\ calls' \in [Calls -> Call]
               /\ calls'[c].phase = phase /\ calls'[c].outcome = calls[c].outcome
               /\ calls'[c].request = calls[c].request /\ calls'[c].run = calls[c].run
    <2> DEFINE u == [calls[c] EXCEPT !.phase = phase]
    <2>1. /\ u \in Call /\ u.phase = phase /\ u.outcome = calls[c].outcome
          /\ u.request = calls[c].request /\ u.run = calls[c].run
      BY <1>2 DEF Call
    <2>2. calls' = [calls EXCEPT ![c] = u]
      BY <1>2 DEF Goto
    <2> HIDE DEF u
    <2> QED BY <2>1, <2>2
  <1>3. ASSUME Leave(c) PROVE calls' \in [Calls -> Call] /\ calls'[c].phase = "idle"
    <2>1. Idle \in Call /\ Idle.phase = "idle"
      BY DEF Idle, Call, Status
    <2> QED BY <1>3, <2>1 DEF Leave
  <1> QED BY <1>1, <1>2, <1>3

Begun(c) ==
    /\ live # None /\ runs[live].stage \in DOMAIN NextStage
    /\ calls'[c] = [phase |-> "handler", request |-> <<live, runs[live].revision>>,
                    run |-> runs[live], outcome |-> "none"]
    /\ UNCHANGED store

\* The execution of request x, which read the document run, goes on.
WentOn(c, x, run) ==
    /\ calls[c].phase # "idle" /\ calls'[c].request = x /\ calls'[c].run = run
    /\ \/ /\ calls'[c].phase = "verified" /\ calls'[c].outcome = calls[c].outcome
          /\ Store!Passed(x, run.target)'
       \/ calls'[c].phase = "audit" /\ calls'[c].outcome = "failed"
       \/ calls'[c].phase = "audit" /\ calls'[c].outcome = "succeeded" /\ Done(x[1], run)'
       \/ /\ calls[c].phase = "audit" /\ calls'[c].phase = "result"
          /\ calls'[c].outcome = calls[c].outcome /\ audit'[x] = calls[c].outcome

LEMMA Acted ==
    ASSUME IInv, NEW c \in Calls, CallStep(c),
           NEW x, NEW run, x = calls[c].request, run = calls[c].run
    PROVE  /\ calls' \in [Calls -> Call]
           /\ calls'[c].phase = "idle" \/ Begun(c) \/ WentOn(c, x, run)
  <1>0. /\ calls \in [Calls -> Call] /\ runs \in [Run -> RunDocument]
        /\ generations \in [Generation -> Store!GenerationDocument]
        /\ bindings \in [Service -> Store!Binding]
        /\ reports \in [Execution -> Store!VerificationReport]
        /\ audit \in [Execution -> Status]
    BY DEF IInv, TypeOK, Store!TypeOK
  <1> DEFINE Goal == /\ calls' \in [Calls -> Call]
                     /\ calls'[c].phase = "idle" \/ Begun(c) \/ WentOn(c, x, run)
  <1>s. {"failed", "succeeded"} \subseteq Status
    BY DEF Status
  <1>f. ASSUME Finish(c, "failed"), calls[c].phase # "idle" PROVE Goal
    BY <1>0, <1>s, <1>f, Positions DEF WentOn
  <1>d. ASSUME Finish(c, "succeeded"), calls[c].phase # "idle", Done(x[1], run)' PROVE Goal
    BY <1>0, <1>s, <1>d, Positions DEF WentOn
  <1>l. ASSUME Leave(c) PROVE Goal
    BY <1>0, <1>l, Positions
  <1>1. CASE Begin(c)
    <2> DEFINE u == [phase |-> "handler", request |-> <<live, runs[live].revision>>,
                     run |-> runs[live], outcome |-> "none"]
    <2>1. /\ live # None /\ runs[live].stage \in DOMAIN NextStage
          /\ calls' = [calls EXCEPT ![c] = u] /\ UNCHANGED store
      BY <1>1 DEF Begin, store
    <2>2. live \in Run /\ runs[live] \in RunDocument
      BY <2>1, <1>0 DEF IInv, TypeOK
    <2>3. u \in Call
      BY <2>2 DEF Call, Execution, Status, RunDocument
    <2> HIDE DEF u
    <2>4. calls' \in [Calls -> Call] /\ calls'[c] = u
      BY <1>0, <2>1, <2>3
    <2> QED BY <2>1, <2>4 DEF Begun, u
  <1>2. CASE CreateStage(c)
    <2>1. calls[c].phase = "handler" /\ run.stage = "create"
      BY <1>2 DEF CreateStage, At
    <2>2. Created(x[1], run) \in Generation
      BY <2>1, CallTyped
    <2>3. \/ Finish(c, "failed")
          \/ Store!Create(Created(x[1], run), run.predecessor) /\ Finish(c, "succeeded")
      BY <1>2 DEF CreateStage
    <2>4. ASSUME Store!Create(Created(x[1], run), run.predecessor) PROVE Done(x[1], run)'
      <3>1. generations' = [generations EXCEPT ![Created(x[1], run)] =
               [state |-> "creating", predecessor |-> run.predecessor, successor |-> None]]
        BY <2>4 DEF Store!Create
      <3>2. generations'[Created(x[1], run)].state = "creating"
        BY <1>0, <2>2, <3>1
      <3> QED BY <2>1, <3>2 DEF Done, Created
    <2> QED BY <2>1, <2>3, <2>4, <1>f, <1>d
  <1>3. CASE StoreStage(c)
    <2>1. calls[c].phase = "handler" /\ run.stage = "store"
      BY <1>3 DEF StoreStage, At
    <2>2. \/ Finish(c, "failed")
          \/ Store!StageBindings(run.target, Service) /\ Finish(c, "succeeded")
      BY <1>3 DEF StoreStage
    <2>3. ASSUME Store!StageBindings(run.target, Service) PROVE Done(x[1], run)'
      <3>1. ASSUME NEW s \in Service PROVE bindings'[s].target = run.target
        <4> DEFINE h == run.target
        <4>1. bindings'[s] = [bindings[s] EXCEPT !.target = h, !.secret = h]
          BY <2>3 DEF Store!StageBindings, Store!Staged
        <4>2. bindings[s] \in Store!Binding
          BY <1>0
        <4> HIDE DEF h
        <4>3. bindings'[s].target = h
          BY <4>1, <4>2 DEF Store!Binding
        <4> QED BY <4>3 DEF h
      <3> QED BY <2>1, <3>1 DEF Done
    <2> QED BY <2>1, <2>2, <2>3, <1>f, <1>d
  <1>4. CASE DeployStage(c)
    <2>1. calls[c].phase = "handler" /\ run.stage = "deploy" /\ Finish(c, "succeeded")
      BY <1>4 DEF DeployStage, At
    <2> QED BY <2>1, <1>d DEF Done
  <1>5. CASE VerifyStage(c)
    <2>1. calls[c].phase = "verified" /\ run.stage = "verify"
      BY <1>5 DEF VerifyStage, At
    <2>2. x \in Execution /\ x # None
      BY <2>1, CallTyped, AbsentAssumption
    <2>3. \/ Finish(c, "failed")
          \/ Store!VerifyBindings(run.target, x, Service) /\ Finish(c, "succeeded")
      BY <1>5 DEF VerifyStage
    <2>4. ASSUME Store!VerifyBindings(run.target, x, Service) PROVE Done(x[1], run)'
      <3>1. ASSUME NEW s \in Service PROVE bindings'[s].report # None
        <4>1. bindings'[s] = [bindings[s] EXCEPT !.report = x]
          BY <2>4 DEF Store!VerifyBindings
        <4>2. bindings[s] \in Store!Binding
          BY <1>0
        <4> QED BY <2>2, <4>1, <4>2 DEF Store!Binding
      <3> QED BY <2>1, <3>1 DEF Done
    <2> QED BY <2>1, <2>3, <2>4, <1>f, <1>d
  <1>6. CASE RolloutStage(c)
    <2>1. calls[c].phase = "verified" /\ Finish(c, "failed")
      BY <1>6, NotPromotable DEF RolloutStage, At
    <2> QED BY <2>1, <1>f
  <1>7. CASE HandlerFails(c)
    BY <1>7, <1>f DEF HandlerFails
  <1>8. CASE AppendAudit(c)
    <2>1. calls[c].phase = "audit" /\ x \in Execution
      BY <1>8, CallTyped DEF AppendAudit
    <2>2. CASE Leave(c)
      BY <2>2, <1>l
    <2>3. CASE audit' = [audit EXCEPT ![x] = calls[c].outcome] /\ Goto(c, "result")
      <3>1. audit'[x] = calls[c].outcome
        BY <1>0, <2>1, <2>3
      <3> QED BY <1>0, <2>1, <2>3, <3>1, Positions DEF WentOn
    <2> QED BY <1>8, <2>2, <2>3 DEF AppendAudit
  <1>9. CASE CreateResult(c) \/ Crash(c)
    BY <1>9, <1>l DEF CreateResult, Crash
  <1>10. ASSUME NEW status \in {"passed", "failed"}, RunVerification(c, status) PROVE Goal
    <2>1. calls[c].phase = "handler" /\ x \in Execution
      BY <1>10, CallTyped DEF RunVerification
    <2>2. \/ Finish(c, "failed")
          \/ Store!SaveReport(x, run.target, "passed") /\ Goto(c, "verified")
      BY <1>10 DEF RunVerification
    <2>3. ASSUME Store!SaveReport(x, run.target, "passed")
          PROVE  Store!Passed(x, run.target)'
      <3>1. reports' = [reports EXCEPT ![x] = [status |-> "passed", generation |-> run.target]]
        BY <2>3 DEF Store!SaveReport
      <3>2. reports'[x] = [status |-> "passed", generation |-> run.target]
        BY <1>0, <2>1, <3>1
      <3> QED BY <3>2 DEF Store!Passed
    <2>4. CASE Store!SaveReport(x, run.target, "passed") /\ Goto(c, "verified")
      BY <1>0, <2>1, <2>3, <2>4, Positions DEF WentOn
    <2> QED BY <2>1, <2>2, <2>4, <1>f
  <1> QED BY <1>1, <1>2, <1>3, <1>4, <1>5, <1>6, <1>7, <1>8, <1>9, <1>10 DEF CallStep

-----------------------------------------------------------------------------
(***************************************************************************)
(* The parts of the invariant, step by step.                               *)
(***************************************************************************)

\* A run that has begun a stage at a revision never has another one there.
LEMMA RevisionKeepsStage ==
    ASSUME IInv, Next, NEW r \in Run, NEW v \in Revision,
           runs[r].stage # "pending", v <= runs[r].revision
    PROVE  /\ runs'[r].stage # "pending" /\ v <= runs'[r].revision
           /\ v = runs'[r].revision =>
                 /\ v = runs[r].revision
                 /\ runs'[r] = runs[r] \/ runs'[r].stage = "over"
  <1>1. runs[r].revision \in Nat /\ v \in Nat
    BY DEF IInv, TypeOK, RunDocument, Revision
  <1> QED BY <1>1, AnyRunMoves DEF RunMoves

LEMMA RememberedStays ==
    ASSUME IInv, Next, NEW c \in Calls, calls[c].phase # "idle",
           NEW x, NEW run, x = calls[c].request, run = calls[c].run
    PROVE  /\ Remembered(x, run)'
           /\ Done(x[1], run) => Done(x[1], run)'
           /\ Store!Passed(x, run.target) => Store!Passed(x, run.target)'
  <1>1. Remembered(x, run)
    BY DEF IInv, CallSound
  <1>2. x \in Execution /\ run \in RunDocument /\ x[1] \in Run /\ x[2] \in Revision
    BY <1>1 DEF Remembered, Execution
  <1>3. Grows
    BY RepositoryStep
  <1>4. TargetMade(run)' /\ (Done(x[1], run) => Done(x[1], run)')
    BY <1>1, <1>2, <1>3, DoneStays DEF Remembered
  <1>5. Store!Passed(x, run.target) => Store!Passed(x, run.target)'
    BY <1>2, <1>3 DEF Grows, Store!Passed
  <1>6. /\ runs'[x[1]].stage # "pending" /\ x[2] <= runs'[x[1]].revision
        /\ x[2] = runs'[x[1]].revision /\ runs'[x[1]].stage # "over" => run = runs'[x[1]]
    BY <1>1, <1>2, RevisionKeepsStage DEF Remembered
  <1>7. ASSUME NEW s \in Service, bindings'[s].report = x PROVE run.stage = "verify"
    <2>1. CASE bindings'[s].report = bindings[s].report
      BY <1>1, <1>7, <2>1 DEF Remembered
    <2>2. ASSUME NEW d \in Calls, VerifyStage(d), calls[d].request = x
          PROVE  run.stage = "verify"
      <3>1. calls[d].phase # "idle" /\ calls[d].run.stage = "verify"
        BY <2>2 DEF VerifyStage, At
      <3> QED BY <2>2, <3>1 DEF IInv, OneDocument
    <2> QED BY <1>7, <2>1, <2>2, ReportsOn
  <1>8. Remembered(x, run)'
    BY <1>1, <1>2, <1>4, <1>6, <1>7 DEF Remembered
  <1> QED BY <1>4, <1>5, <1>8

\* An execution that another one, or a run, steps aside of.
LEMMA OthersStay ==
    ASSUME IInv, Next, NEW c \in Calls, calls'[c] = calls[c]
    PROVE  CallSound(c)'
  <1> SUFFICES ASSUME calls[c].phase # "idle" PROVE CallSound(c)'
    BY DEF CallSound
  <1> DEFINE x == calls[c].request
             run == calls[c].run
  <1>1. PICK y, rn : y = x /\ rn = run
    OBVIOUS
  <1>2. /\ Remembered(y, rn)'
        /\ Done(y[1], rn) => Done(y[1], rn)'
        /\ Store!Passed(y, rn.target) => Store!Passed(y, rn.target)'
    BY <1>1, RememberedStays
  <1>3. calls[c].phase = "result" => audit'[y] = calls[c].outcome
    <2>1. CallSound(c) /\ y \in Execution
      BY <1>1, CallTyped DEF IInv
    <2> QED BY <1>1, <2>1, AuditMoves DEF CallSound
  <1>4. CallSound(c)
    BY DEF IInv
  <1>5. calls'[c].request = y /\ calls'[c].run = rn
    BY <1>1
  <1>6. Remembered(calls[c].request, calls[c].run)'
    BY <1>2, <1>5 DEF Remembered, TargetMade
  <1>7. (Done(calls[c].request[1], calls[c].run))' <=> Done(y[1], rn)'
    BY <1>5 DEF Done, Created
  <1>8. Store!Passed(calls[c].request, calls[c].run.target)' <=> Store!Passed(y, rn.target)'
    BY <1>5 DEF Store!Passed
  <1> QED BY <1>1, <1>2, <1>3, <1>4, <1>6, <1>7, <1>8 DEF CallSound

\* The execution that takes the step.
LEMMA ActorStays ==
    ASSUME IInv, Next, NEW c \in Calls, CallStep(c)
    PROVE  CallSound(c)'
  <1> DEFINE x == calls[c].request
             run == calls[c].run
  <1>1. PICK y, rn : y = x /\ rn = run
    OBVIOUS
  <1>2. calls'[c].phase = "idle" \/ Begun(c) \/ WentOn(c, y, rn)
    BY <1>1, Acted
  <1>3. UNCHANGED <<runs, live>>
    BY CallStepFrame
  <1>4. CASE Begun(c)
    <2>1. PICK l : l = live
      OBVIOUS
    <2>2. /\ l \in Run /\ runs[l] \in RunDocument /\ runs[l].stage # "over"
          /\ runs[l].stage # "pending" /\ runs[l].stage \in DOMAIN NextStage
      BY <1>4, <2>1 DEF Begun, IInv, TypeOK, LiveSound
    <2>3. /\ calls'[c].phase = "handler" /\ calls'[c].outcome = "none"
          /\ calls'[c].request = <<l, runs[l].revision>> /\ calls'[c].run = runs[l]
      BY <1>4, <2>1 DEF Begun
    <2>4. <<l, runs[l].revision>> \in Execution /\ runs[l].revision <= runs[l].revision
      BY <2>2 DEF Execution, RunDocument, Revision
    <2>5. UNCHANGED <<generations, bindings>>
      BY <1>4 DEF Begun, store
    <2>6. ASSUME NEW s \in Service, bindings[s].report = <<l, runs[l].revision>>
          PROVE  runs[l].stage = "verify"
      <3>1. BindingSound(s) /\ bindings[s].report # None
        BY <2>4, <2>6, AbsentAssumption DEF IInv
      <3> QED BY <2>2, <2>6, <3>1 DEF BindingSound
    <2>7. TargetMade(runs[l])
      BY <2>2 DEF IInv, RunSound
    <2>8. Remembered(calls[c].request, calls[c].run)'
      BY <1>3, <2>2, <2>3, <2>4, <2>5, <2>6, <2>7 DEF Remembered, TargetMade
    <2> QED BY <2>3, <2>8 DEF CallSound
  <1>5. CASE WentOn(c, y, rn)
    <2>1. calls[c].phase # "idle" /\ calls'[c].request = y /\ calls'[c].run = rn
      BY <1>5 DEF WentOn
    <2>2. /\ Remembered(y, rn)'
          /\ Done(y[1], rn) => Done(y[1], rn)'
      BY <1>1, <2>1, RememberedStays
    <2>3. Remembered(calls[c].request, calls[c].run)'
      BY <2>1, <2>2 DEF Remembered, TargetMade
    <2>4. (Done(calls[c].request[1], calls[c].run))' <=> Done(y[1], rn)'
      BY <2>1 DEF Done, Created
    <2>5. Store!Passed(calls[c].request, calls[c].run.target)' <=> Store!Passed(y, rn.target)'
      BY <2>1 DEF Store!Passed
    <2>6. CallSound(c)
      BY DEF IInv
    <2> QED BY <1>1, <1>5, <2>1, <2>2, <2>3, <2>4, <2>5, <2>6 DEF WentOn, CallSound
  <1>6. CASE calls'[c].phase = "idle"
    BY <1>6 DEF CallSound
  <1> QED BY <1>2, <1>4, <1>5, <1>6

\* Who steps, seen from one execution.
LEMMA CallMoves ==
    ASSUME IInv, Next
    PROVE  /\ calls' \in [Calls -> Call]
           /\ \A d \in Calls : calls'[d] = calls[d] \/ CallStep(d)
  <1>1. ASSUME NEW c \in Calls, CallStep(c)
        PROVE  /\ calls' \in [Calls -> Call]
               /\ \A d \in Calls : calls'[d] = calls[d] \/ CallStep(d)
    <2>1. PICK x, run : x = calls[c].request /\ run = calls[c].run
      OBVIOUS
    <2> QED BY <1>1, <2>1, Acted, CallStepFrame
  <1>2. ASSUME NEW r \in Run, Open(r) \/ Complete(r) \/ Resume(r) \/ End(r)
        PROVE  UNCHANGED calls
    BY <1>2, RunWritten
  <1>3. calls \in [Calls -> Call]
    BY DEF IInv, TypeOK
  <1> QED BY <1>1, <1>2, <1>3, WhoSteps

LEMMA CallsStay ==
    ASSUME IInv, Next, NEW c \in Calls
    PROVE  CallSound(c)'
  BY CallMoves, ActorStays, OthersStay

\* Two executions of one request read the same document.
LEMMA OneDocumentStays ==
    ASSUME IInv, Next
    PROVE  OneDocument'
  <1> DEFINE Old(d) == /\ calls[d].phase # "idle" /\ calls'[d].request = calls[d].request
                       /\ calls'[d].run = calls[d].run
             New(d) == /\ live \in Run /\ runs[live].stage # "over"
                       /\ calls'[d].request = <<live, runs[live].revision>>
                       /\ calls'[d].run = runs[live]
  <1>1. ASSUME NEW d \in Calls, calls'[d].phase # "idle"
        PROVE  Old(d) \/ New(d)
    <2>1. CASE calls'[d] = calls[d]
      BY <1>1, <2>1
    <2>2. CASE CallStep(d)
      <3>1. PICK x, run : x = calls[d].request /\ run = calls[d].run
        OBVIOUS
      <3>2. Begun(d) \/ WentOn(d, x, run)
        BY <1>1, <2>2, <3>1, Acted
      <3>3. CASE Begun(d)
        BY <3>3 DEF Begun, IInv, TypeOK, LiveSound
      <3>4. CASE WentOn(d, x, run)
        BY <3>1, <3>4 DEF WentOn
      <3> QED BY <3>2, <3>3, <3>4
    <2> QED BY <2>1, <2>2, CallMoves
  <1>2. ASSUME NEW c \in Calls, NEW d \in Calls, Old(c), New(d),
               calls'[c].request = calls'[d].request
        PROVE  calls'[c].run = calls'[d].run
    <2>1. /\ Remembered(calls[c].request, calls[c].run)
          /\ calls[c].request = <<live, runs[live].revision>> /\ live \in Run
          /\ runs[live].stage # "over"
      BY <1>2 DEF IInv, CallSound
    <2>2. calls[c].request[1] = live /\ calls[c].request[2] = runs[live].revision
      BY <2>1
    <2>3. calls[c].run = runs[live]
      BY <2>1, <2>2 DEF Remembered
    <2> QED BY <1>2, <2>3
  <1>3. ASSUME NEW c \in Calls, NEW d \in Calls,
               calls'[c].phase # "idle", calls'[d].phase # "idle",
               calls'[c].request = calls'[d].request
        PROVE  calls'[c].run = calls'[d].run
    <2>1. CASE Old(c) /\ Old(d)
      BY <1>3, <2>1 DEF IInv, OneDocument
    <2>2. CASE New(c) /\ New(d)
      BY <2>2
    <2> HIDE DEF Old, New
    <2> QED BY <1>1, <1>2, <1>3, <2>1, <2>2
  <1> QED BY <1>3 DEF OneDocument

\* A binding keeps its target and the report that was made about it.
LEMMA BindingsStay ==
    ASSUME IInv, Next, NEW s \in Service
    PROVE  BindingSound(s)'
  <1> SUFFICES ASSUME bindings'[s].report # None
               PROVE  BindingSound(s)'
    BY DEF BindingSound
  <1>0. Grows
    BY RepositoryStep
  <1>1. PICK rep : rep = bindings'[s].report
    OBVIOUS
  <1>2. CASE bindings'[s].report = bindings[s].report
    <2>1. /\ rep \in Execution /\ bindings[s].target # None
          /\ Store!Passed(rep, bindings[s].target)
          /\ runs[rep[1]].stage # "pending" /\ rep[2] <= runs[rep[1]].revision
          /\ rep[2] = runs[rep[1]].revision => runs[rep[1]].stage \in {"verify", "over"}
      BY <1>1, <1>2 DEF IInv, BindingSound
    <2>2. rep[1] \in Run /\ rep[2] \in Revision
      BY <2>1 DEF Execution
    <2>3. bindings'[s].target = bindings[s].target /\ reports'[rep] = reports[rep]
      BY <1>0, <2>1 DEF Grows, Store!Passed
    <2>4. /\ runs'[rep[1]].stage # "pending" /\ rep[2] <= runs'[rep[1]].revision
          /\ rep[2] = runs'[rep[1]].revision => runs'[rep[1]].stage \in {"verify", "over"}
      BY <2>1, <2>2, RevisionKeepsStage
    <2> QED BY <1>1, <2>1, <2>3, <2>4 DEF BindingSound, Store!Passed
  <1>3. ASSUME NEW c \in Calls, VerifyStage(c), bindings'[s].report = calls[c].request,
               bindings[s].target = calls[c].run.target
        PROVE  BindingSound(s)'
    <2>1. PICK run : run = calls[c].run
      OBVIOUS
    <2>2. calls[c].phase = "verified" /\ run.stage = "verify"
      BY <1>3, <2>1 DEF VerifyStage, At
    <2>3. Remembered(rep, run)' /\ Store!Passed(rep, run.target)'
      <3>1. Store!Passed(rep, run.target)
        BY <1>1, <1>3, <2>1, <2>2 DEF IInv, CallSound
      <3> QED BY <1>1, <1>3, <2>1, <2>2, <3>1, RememberedStays
    <2>4. run.target \in Generation /\ run.target # None
      BY <2>1, <2>2, CallTyped, AbsentAssumption
    <2>5. bindings'[s].target = run.target
      BY <1>0, <1>3, <2>1, <2>4 DEF Grows
    <2>6. /\ rep \in Execution
          /\ runs'[rep[1]].stage # "pending" /\ rep[2] <= runs'[rep[1]].revision
          /\ rep[2] = runs'[rep[1]].revision => runs'[rep[1]].stage \in {"verify", "over"}
      BY <2>2, <2>3 DEF Remembered
    <2> QED BY <1>1, <2>3, <2>4, <2>5, <2>6 DEF BindingSound, Store!Passed
  <1> QED BY <1>2, <1>3, ReportsOn

\* A run that its own step moves. Completing a stage takes over what its stored
\* result says was done.
LEMMA MovedRunStays ==
    ASSUME IInv, NEW r \in Run, Open(r) \/ Complete(r) \/ Resume(r) \/ End(r)
    PROVE  RunSound(r)'
  <1>0. /\ runs \in [Run -> RunDocument] /\ runs[r] \in RunDocument /\ RunSound(r)
        /\ UNCHANGED <<generations, bindings, results>>
    BY RunWritten DEF IInv, TypeOK
  <1>n. runs[r].revision \in Nat /\ Revision \subseteq Nat
    BY <1>0 DEF RunDocument, Revision
  <1>s. /\ runs'[r] \in RunDocument /\ runs'[r].predecessor = First /\ RunMoves(r)
    BY <1>0, RunWritten DEF RunSound, TargetMade, RunMoves
  <1>1. CASE Open(r)
    <2>1. runs'[r].stage = "create" /\ runs[r].stage = "pending"
          /\ runs'[r].revision = runs[r].revision
      <3>1. runs'[r] = [runs[r] EXCEPT !.stage = "create", !.predecessor = active]
        BY <1>0, <1>1 DEF Open
      <3> QED BY <1>0, <1>1, <3>1 DEF Open, RunDocument
    <2>2. \A v \in Revision : results'[<<r, v>>] = "none"
      BY <1>0, <2>1 DEF RunSound
    <2>3. runs'[r].revision \in Revision
      BY <1>s DEF RunDocument
    <2> QED BY <1>s, <2>1, <2>2, <2>3 DEF RunSound, TargetMade
  <1>2. CASE End(r)
    <2>1. /\ runs'[r].stage = "over" /\ runs'[r].revision = runs[r].revision
      <3>1. runs'[r] = [runs[r] EXCEPT !.stage = "over"]
        BY <1>0, <1>2 DEF End
      <3> QED BY <1>0, <3>1 DEF RunDocument
    <2>2. \A v \in Revision : results'[<<r, v>>] # "none" => v <= runs'[r].revision
      BY <1>0, <2>1 DEF RunSound
    <2> QED BY <1>s, <2>1, <2>2 DEF RunSound, TargetMade, Done
  <1>3. ASSUME runs'[r].revision = runs[r].revision + 1,
               runs'[r].stage \notin {"pending", "over"}
        PROVE  /\ \A v \in Revision : results'[<<r, v>>] # "none"
                     => runs'[r].stage # "pending" /\ v <= runs'[r].revision
               /\ results'[<<r, runs'[r].revision>>] # "succeeded"
    <2>1. runs'[r].revision \in Revision /\ ~(runs'[r].revision <= runs[r].revision)
      BY <1>n, <1>s, <1>3 DEF RunDocument
    <2>2. \A v \in Revision : results[<<r, v>>] # "none" => v <= runs[r].revision
      BY <1>0 DEF RunSound
    <2> QED BY <1>0, <1>n, <1>3, <2>1, <2>2
  <1>4. CASE Complete(r)
    <2> DEFINE target == IF runs[r].stage = "create" THEN Created(r, runs[r])
                                                     ELSE runs[r].target
               u == [runs[r] EXCEPT !.stage = NextStage[runs[r].stage],
                                    !.revision = runs[r].revision + 1, !.target = target]
    <2>1. /\ runs[r].stage \in DOMAIN NextStage
          /\ runs'[r] = u /\ results[<<r, runs[r].revision>>] = "succeeded"
      BY <1>0, <1>4 DEF Complete
    <2> HIDE DEF target
    <2>2. /\ runs'[r].stage = NextStage[runs[r].stage] /\ runs'[r].target = target
          /\ runs'[r].revision = runs[r].revision + 1
      BY <1>0, <2>1 DEF RunDocument
    <2> HIDE DEF u
    <2>3. Done(r, runs[r]) /\ TargetMade(runs[r])
      BY <1>0, <2>1 DEF RunSound
    <2>4. Created(r, runs[r]) \in Generation
      BY <1>0 DEF Created, RunDocument, Generation
    <2>5. target \in Generation /\ generations[target].state = "creating"
      BY <2>1, <2>3, <2>4 DEF Done, TargetMade, NextStage, target
    <2>6. runs'[r].stage \in {"deploy", "verify", "rollout", "observe"}
            => \A s \in Service : bindings[s].target = runs'[r].target
      <3>1. CASE runs[r].stage = "create"
        BY <2>2, <3>1 DEF NextStage
      <3>2. CASE runs[r].stage # "create"
        <4>1. runs'[r].target = runs[r].target
          BY <2>2, <3>2 DEF target
        <4>2. \A s \in Service : bindings[s].target = runs[r].target
          BY <1>0, <2>1, <2>3, <3>2 DEF NextStage, Done, RunSound
        <4> QED BY <4>1, <4>2
      <3> QED BY <3>1, <3>2
    <2>7. runs'[r].stage \in {"rollout", "observe"} => \A s \in Service : bindings[s].report # None
      BY <1>0, <2>1, <2>2, <2>3 DEF NextStage, Done, RunSound
    <2>8. runs'[r].stage \notin {"pending", "over"}
      BY <2>1, <2>2 DEF NextStage
    <2>9. TargetMade(runs[r])'
      BY <1>0, <1>s, <2>2, <2>5 DEF TargetMade
    <2> QED BY <1>0, <1>3, <2>2, <2>6, <2>7, <2>8, <2>9 DEF RunSound
  <1>5. CASE Resume(r)
    <2> DEFINE u == [runs[r] EXCEPT !.revision = runs[r].revision + 1,
                                    !.token = runs[r].token + 1]
    <2>1. runs'[r] = u /\ live = r
      BY <1>0, <1>5 DEF Resume
    <2>2. /\ runs'[r].stage = runs[r].stage /\ runs'[r].target = runs[r].target
          /\ runs'[r].revision = runs[r].revision + 1
      BY <1>0, <2>1 DEF RunDocument
    <2> HIDE DEF u
    <2>3. runs[r].stage \notin {"pending", "over"}
      BY <2>1, AbsentAssumption DEF IInv, LiveSound
    <2>4. TargetMade(runs[r])'
      BY <1>0, <1>s, <2>2 DEF TargetMade, RunSound
    <2> QED BY <1>0, <1>3, <2>2, <2>3, <2>4 DEF RunSound
  <1> QED BY <1>1, <1>2, <1>4, <1>5

\* A run that the step leaves alone.
LEMMA QuietRunStays ==
    ASSUME IInv, Next, NEW r \in Run, runs'[r] = runs[r]
    PROVE  RunSound(r)'
  <1>0. runs[r] \in RunDocument /\ RunSound(r) /\ Grows
    BY RepositoryStep DEF IInv, TypeOK
  <1>1. PICK run : run = runs[r]
    OBVIOUS
  <1>2. run \in RunDocument /\ TargetMade(run)
    BY <1>0, <1>1 DEF RunSound
  <1>3. /\ TargetMade(run)'
        /\ Done(r, run) => Done(r, run)'
    BY <1>0, <1>2, DoneStays
  <1>4. run.revision \in Revision
    BY <1>2 DEF RunDocument
  <1>5. ASSUME NEW v \in Revision, results'[<<r, v>>] # results[<<r, v>>]
        PROVE  /\ run.stage # "pending" /\ v <= run.revision
               /\ v = run.revision /\ results'[<<r, v>>] = "succeeded" => Done(r, run)
    <2>1. <<r, v>> \in Execution
      BY DEF Execution
    <2>2. PICK c \in Calls : /\ CreateResult(c) /\ <<r, v>> = calls[c].request
                             /\ results'[<<r, v>>] = calls[c].outcome
      BY <1>5, <2>1, ResultMoves
    <2>3. CallSound(c) /\ calls[c].phase = "result"
      BY <2>2 DEF IInv, CreateResult
    <2>4. /\ Remembered(<<r, v>>, calls[c].run)
          /\ calls[c].outcome = "succeeded" => Done(r, calls[c].run)
      BY <2>2, <2>3 DEF CallSound
    <2>5. /\ run.stage # "pending" /\ v <= run.revision
          /\ v = run.revision /\ run.stage # "over" => run = calls[c].run
      BY <1>1, <2>4 DEF Remembered
    <2>6. run.stage = "over" => Done(r, run)
      BY DEF Done
    <2> QED BY <2>2, <2>4, <2>5, <2>6
  <1>6. \A v \in Revision : results'[<<r, v>>] # "none"
          => run.stage # "pending" /\ v <= run.revision
    BY <1>0, <1>1, <1>5 DEF RunSound
  <1>7. results'[<<r, run.revision>>] = "succeeded" => Done(r, run)'
    BY <1>0, <1>1, <1>3, <1>4, <1>5 DEF RunSound
  <1>8. ASSUME run.stage \in {"deploy", "verify", "rollout", "observe"}, NEW s \in Service
        PROVE  bindings'[s].target = run.target
    <2>1. bindings[s].target = run.target /\ run.target # None
      BY <1>0, <1>1, <1>2, <1>8, AbsentAssumption DEF RunSound, TargetMade
    <2> QED BY <1>0, <2>1 DEF Grows
  <1>9. ASSUME run.stage \in {"rollout", "observe"}, NEW s \in Service
        PROVE  bindings'[s].report # None
    BY <1>0, <1>1, <1>9 DEF RunSound, Grows
  <1>10. TargetMade(runs[r])' /\ (Done(r, runs[r]))' = Done(r, run)'
    BY <1>1, <1>3 DEF TargetMade, Done, Created
  <1> QED BY <1>1, <1>6, <1>7, <1>8, <1>9, <1>10 DEF RunSound

-----------------------------------------------------------------------------
(***************************************************************************)
(* The invariant and what follows from it.                                 *)
(***************************************************************************)
LEMMA Initially ==
    ASSUME Init
    PROVE  IInv
  <1>0. /\ First \in Generation /\ 1 \in Revision /\ 1 \in Token
        /\ None \notin Generation
    BY BoundsAssumption, AbsentAssumption DEF Generation, Revision, Token
  <1>1. Store!TypeOK /\ ActiveImported /\ \A g \in Generation : GenerationSound(g)
    BY <1>0 DEF Init, Store!Init, Store!TypeOK, Store!GenerationDocument,
                Store!GenerationState, Store!Binding, Store!VerificationReport, ActiveImported,
                GenerationSound
  <1>2. \A s \in Service : BindingSound(s)
    BY DEF Init, Store!Init, BindingSound
  <1>3. /\ runs \in [Run -> RunDocument]
        /\ \A r \in Run : runs[r].stage = "pending" /\ runs[r].predecessor = First
    BY <1>0 DEF Init, RunDocument
  <1>4. /\ results \in [Execution -> Status] /\ audit \in [Execution -> Status]
        /\ \A x \in Execution : results[x] = "none"
        /\ mishaps \in Nat /\ live \in Run \cup {None} /\ live = None
    BY DEF Init, Status
  <1>5. calls \in [Calls -> Call] /\ \A c \in Calls : calls[c].phase = "idle"
    BY DEF Init, Idle, Call, Status
  <1>6. ASSUME NEW r \in Run PROVE RunSound(r)
    <2>1. \A v \in Revision : results[<<r, v>>] = "none"
      BY <1>4 DEF Execution
    <2>2. runs[r].revision \in Revision
      BY <1>3 DEF RunDocument
    <2> QED BY <1>3, <2>1, <2>2 DEF RunSound, TargetMade
  <1>7. TypeOK
    BY <1>1, <1>3, <1>4, <1>5 DEF TypeOK
  <1> QED BY <1>1, <1>2, <1>4, <1>5, <1>6, <1>7
      DEF IInv, LiveSound, OneDocument, ResultAudited, CallSound

LEMMA TypesStay ==
    ASSUME IInv, Next
    PROVE  TypeOK' /\ LiveSound'
  <1>1. runs' \in [Run -> RunDocument] /\ live' \in Run \cup {None} /\ LiveSound'
    <2>1. /\ runs \in [Run -> RunDocument] /\ live \in Run \cup {None} /\ LiveSound
      BY DEF IInv, TypeOK
    <2>2. ASSUME NEW c \in Calls, CallStep(c)
          PROVE  runs' \in [Run -> RunDocument] /\ live' \in Run \cup {None} /\ LiveSound'
      BY <2>1, <2>2, CallStepFrame DEF LiveSound
    <2>3. ASSUME NEW r \in Run, Open(r) \/ Complete(r) \/ Resume(r) \/ End(r)
          PROVE  runs' \in [Run -> RunDocument] /\ live' \in Run \cup {None} /\ LiveSound'
      BY <2>3, RunWritten
    <2> QED BY <2>2, <2>3, WhoSteps
  <1>2. mishaps' \in Nat
    <2>0. mishaps \in Nat
      BY DEF IInv, TypeOK
    <2>1. ASSUME NEW r \in Run, Open(r) \/ Complete(r) \/ Resume(r) \/ End(r)
          PROVE  mishaps' \in Nat
      BY <2>0, <2>1 DEF Open, Complete, Resume, End
    <2>2. ASSUME NEW c \in Calls, CallStep(c)
          PROVE  mishaps' \in Nat
      BY <2>0, <2>2 DEF CallStep, Begin, CreateStage, StoreStage, DeployStage, VerifyStage,
                        RolloutStage, HandlerFails, AppendAudit, CreateResult, Crash,
                        RunVerification, Mishap
    <2> QED BY <2>1, <2>2, WhoSteps
  <1> QED BY <1>1, <1>2, RepositoryStep, ResultMoves, AuditMoves, CallMoves DEF TypeOK

LEMMA RunsStay ==
    ASSUME IInv, Next, NEW r \in Run
    PROVE  RunSound(r)'
  BY MovedRunStays, QuietRunStays, AnyRunMoves DEF RunMoves

\* The invariant holds however many executions of a stage run at once, late or
\* again (service.py execute).
THEOREM Invariance == Spec => []IInv
  <1>1. ASSUME IInv, [Next]_vars PROVE IInv'
    <2>1. CASE Next
      BY <1>1, <2>1, TypesStay, RepositoryStep, OneDocumentStays, AuditedStays, BindingsStay,
         RunsStay, CallsStay DEF IInv
    <2>2. CASE UNCHANGED vars
      <3>1. IInv
        BY <1>1
      <3> QED BY <2>2, <3>1 DEF vars, IInv, TypeOK, Store!TypeOK, ActiveImported, LiveSound,
                 OneDocument, ResultAudited, GenerationSound, BindingSound, RunSound, CallSound,
                 Remembered, TargetMade, Done, Created, Store!Passed
    <2> QED BY <1>1, <2>1, <2>2
  <1> QED BY <1>1, Initially, PTL DEF Spec

\* Every document keeps its type (contracts run.py, service.py execute).
THEOREM TypeCorrect == Spec => []TypeOK
  <1>1. IInv => TypeOK
    BY DEF IInv
  <1> QED BY <1>1, Invariance, PTL

\* A stored result says what the audit record of its execution says (service.py
\* execute, which writes the record first).
THEOREM ResultsAreAudited == Spec => []ResultAudited
  <1>1. IInv => ResultAudited
    BY DEF IInv
  <1> QED BY <1>1, Invariance, PTL

\* Every consumer stays bound to the generation of the run that is past STORE,
\* and that generation waits to be activated (service.py _store, stage_bindings).
THEOREM TargetIsHeld == Spec => []TargetHeld
  <1>1. ASSUME IInv, live # None, runs[live].stage \in {"deploy", "verify", "rollout"}
        PROVE  /\ generations[runs[live].target].state = "creating"
               /\ generations[runs[live].target].predecessor = active
               /\ \A s \in Service : bindings[s].target = runs[live].target
    <2>1. live \in Run /\ active = First
      BY <1>1 DEF IInv, TypeOK, ActiveImported
    <2>2. RunSound(live) /\ runs[live].target \in Generation
      BY <1>1, <2>1 DEF IInv, RunSound, TargetMade
    <2>3. generations[runs[live].target].state = "creating"
      BY <1>1, <2>2 DEF RunSound, TargetMade
    <2>4. generations[runs[live].target].predecessor = First
      BY <1>1, <2>2, <2>3 DEF IInv, GenerationSound
    <2> QED BY <1>1, <2>1, <2>2, <2>3, <2>4 DEF RunSound
  <1>2. IInv => TargetHeld
    BY <1>1 DEF TargetHeld
  <1> QED BY <1>2, Invariance, PTL

\* Every consumer's binding carries a passed report of the run's own generation
\* from ROLLOUT on (service.py _verify, verify_bindings).
THEOREM RolloutIsVerified == Spec => []VerifiedBeforeRollout
  <1>1. ASSUME IInv, live # None, runs[live].stage = "rollout", NEW s \in Service
        PROVE  /\ bindings[s].report # None
               /\ Store!Passed(bindings[s].report, runs[live].target)
    <2>1. live \in Run
      BY <1>1 DEF IInv, TypeOK
    <2>2. RunSound(live) /\ BindingSound(s)
      BY <1>1, <2>1 DEF IInv
    <2>3. bindings[s].report # None /\ bindings[s].target = runs[live].target
      BY <1>1, <2>2 DEF RunSound
    <2> QED BY <2>2, <2>3 DEF BindingSound
  <1>2. IInv => VerifiedBeforeRollout
    BY <1>1 DEF VerifiedBeforeRollout
  <1> QED BY <1>2, Invariance, PTL

\* No run of the stages ever activates a generation: the rollout asks promote for
\* the report it has just made, the bindings carry the one of VERIFY (service.py
\* _rollout, FirestoreGenerationRepository.promote).
THEOREM NothingPromoted == Spec => [](active = First)
  <1>1. IInv => active = First
    BY DEF IInv, ActiveImported
  <1> QED BY <1>1, Invariance, PTL

\* The coordinator's stages keep to the transactions of the generation repository
\* (FirestoreGenerationRepository), whose theorems therefore hold of them.
THEOREM ImplementsRepository == Spec => Store!Spec
  <1>1. Init => Store!Init
    BY DEF Init
  <1>2. ASSUME IInv, [Next]_vars PROVE [Store!Next]_(Store!vars)
    <2>1. CASE UNCHANGED vars
      BY <2>1 DEF vars, Store!vars
    <2>2. CASE Next /\ UNCHANGED store
      BY <2>2 DEF store, Store!vars
    <2>3. ASSUME NEW c \in Calls, CreateStage(c),
                 Store!Create(Created(calls[c].request[1], calls[c].run), First)
          PROVE  Store!Next
      <3>1. /\ Created(calls[c].request[1], calls[c].run) \in Generation
            /\ First \in Generation
        BY <1>2, <2>3, CallTyped DEF CreateStage, At, Generation
      <3> QED BY <2>3, <3>1 DEF Store!Next
    <2>4. ASSUME NEW c \in Calls, StoreStage(c),
                 Store!StageBindings(calls[c].run.target, Service)
          PROVE  Store!Next
      <3>1. calls[c].run.target \in Generation
        BY <1>2, <2>4, CallTyped DEF StoreStage, At
      <3> QED BY <2>4, <3>1 DEF Store!Next
    <2>5. ASSUME NEW c \in Calls, VerifyStage(c),
                 Store!VerifyBindings(calls[c].run.target, calls[c].request, Service)
          PROVE  Store!Next
      <3>1. calls[c].run.target \in Generation /\ calls[c].request \in Execution
        BY <1>2, <2>5, CallTyped DEF VerifyStage, At
      <3> QED BY <2>5, <3>1 DEF Store!Next
    <2>6. ASSUME NEW c \in Calls, NEW status \in {"passed", "failed"},
                 RunVerification(c, status),
                 Store!SaveReport(calls[c].request, calls[c].run.target, status)
          PROVE  Store!Next
      <3>1. calls[c].run.target \in Generation /\ calls[c].request \in Execution
        BY <1>2, <2>6, CallTyped DEF RunVerification
      <3> QED BY <2>6, <3>1 DEF Store!Next
    <2> QED BY <1>2, <2>1, <2>2, <2>3, <2>4, <2>5, <2>6, RepositoryMoves
  <1> QED BY <1>1, <1>2, Invariance, PTL DEF Spec, Store!Spec
=============================================================================
