----------------------------- MODULE Generations -----------------------------
(***************************************************************************)
(* The generations of one managed credential:                              *)
(* FirestoreGenerationRepository of server/core/storage/generation.py as   *)
(* GenerationService calls it, with the verification reports of            *)
(* server/verifier. Each operation is one transaction over the credential, *)
(* two generations, a report and the bindings of the credential's          *)
(* consumers.                                                              *)
(*                                                                         *)
(* The operations take no revision and no fencing token, so a call of any  *)
(* run may come at any time, late or again, with whatever generation,      *)
(* report and bindings its sender holds. The module promises what the      *)
(* transactions guarantee for every such sender; StageExecution and        *)
(* Revocation restrict the senders to the coordinator's stages. Calls that *)
(* raise, or that only return what is stored, are not steps.               *)
(***************************************************************************)
EXTENDS FiniteSets

CONSTANTS
    Generation,   \* identifiers of credential generations
    First,        \* the generation the credential was imported with
    Service,      \* the consumers: credential.consumer_ids, one binding each
    Report,       \* identifiers of verification reports
    None          \* no generation, no report

ASSUME IdentifiersAssumption ==
    First \in Generation /\ None \notin Generation /\ None \notin Report

VARIABLES
    active,        \* credential.active_generation_id
    generations,   \* generation -> document
    bindings,      \* consumer -> its ConsumerBinding
    reports        \* report -> document

vars == <<active, generations, bindings, reports>>

-----------------------------------------------------------------------------
\* UNKNOWN exists in the contract and is never written.
GenerationState == {"absent", "creating", "active", "superseded", "revoked", "orphaned"}

GenerationDocument == [state : GenerationState, predecessor : Generation \cup {None},
                       successor : Generation \cup {None}]

\* secret is the generation whose secret version secret_reference names.
Binding == [current : Generation, target : Generation \cup {None},
            secret : Generation, report : Report \cup {None}]

VerificationReport == [status : {"absent", "passed", "failed"},
                       generation : Generation \cup {None}]

Exists(g) == generations[g].state # "absent"

\* The report exists, passed, and is about generation g.
Passed(rep, g) == reports[rep].status = "passed" /\ reports[rep].generation = g

\* A generation a run may have been bound to at preflight: it was active once.
Bound(g) == generations[g].state \in {"active", "superseded", "revoked"}

-----------------------------------------------------------------------------
\* GenerationService.create: a new document, in state CREATING.
Create(g, predecessor) ==
    /\ ~Exists(g)
    /\ Bound(predecessor)
    /\ generations' = [generations EXCEPT
           ![g] = [state |-> "creating", predecessor |-> predecessor, successor |-> None]]
    /\ UNCHANGED <<active, bindings, reports>>

\* save_report of the verifier: a report is written once, about a generation of a run.
SaveReport(rep, g, status) ==
    /\ reports[rep].status = "absent"
    /\ Exists(g)
    /\ reports' = [reports EXCEPT ![rep] = [status |-> status, generation |-> g]]
    /\ UNCHANGED <<active, generations, bindings>>

Staged(binding, g) == [binding EXCEPT !.target = g, !.secret = g]

MayStage(binding, g) == binding.target \in {None, g}

\* FirestoreGenerationRepository.stage_bindings
StageBindings(g, services) ==
    /\ Exists(g)
    /\ services # {}
    /\ \A s \in services : MayStage(bindings[s], g)
    /\ bindings' = [s \in Service |-> IF s \in services THEN Staged(bindings[s], g)
                                                        ELSE bindings[s]]
    /\ UNCHANGED <<active, generations, reports>>

\* FirestoreGenerationRepository.verify_bindings
VerifyBindings(g, rep, services) ==
    /\ services # {}
    /\ Passed(rep, g)
    /\ \A s \in services : bindings[s].target = g
    /\ bindings' = [s \in Service |-> IF s \in services
                                      THEN [bindings[s] EXCEPT !.report = rep]
                                      ELSE bindings[s]]
    /\ UNCHANGED <<active, generations, reports>>

\* What promote requires of the generations and the credential.
Succeeds(g, predecessor) ==
    /\ active = predecessor
    /\ generations[g].state = "creating"
    /\ generations[predecessor].state = "active"

\* What promote requires of a consumer's binding.
Verified(binding, g, predecessor, rep) ==
    /\ binding.current = predecessor
    /\ binding.target = g
    /\ binding.report = rep

\* Mutant of MayPromote: consumers that were not named are not asked for.
MayPromote_some(g, predecessor, rep, services) ==
    /\ services # {}
    /\ Succeeds(g, predecessor)
    /\ Passed(rep, g)
    /\ \A s \in services : Verified(bindings[s], g, predecessor, rep)

\* Mutant of MayPromote: the report of the bindings is not compared.
MayPromote_unverified(g, predecessor, rep, services) ==
    /\ services # {}
    /\ services = Service
    /\ Succeeds(g, predecessor)
    /\ Passed(rep, g)
    /\ \A s \in services : Verified(bindings[s], g, predecessor, bindings[s].report)

MayPromote(g, predecessor, rep, services) ==
    /\ services # {}
    /\ services = Service
    /\ Succeeds(g, predecessor)
    /\ Passed(rep, g)
    /\ \A s \in services : Verified(bindings[s], g, predecessor, rep)

\* Mutant of Lineage: the target keeps the predecessor it was created with.
Lineage_as_created(g, predecessor) ==
    [generations EXCEPT ![g] = [@ EXCEPT !.state = "active"],
                        ![predecessor] = [@ EXCEPT !.state = "superseded",
                                                   !.successor = g]]

\* The generations after a promotion.
Lineage(g, predecessor) ==
    [generations EXCEPT ![g] = [@ EXCEPT !.state = "active",
                                         !.predecessor = predecessor],
                        ![predecessor] = [@ EXCEPT !.state = "superseded",
                                                   !.successor = g]]

\* Mutant of Moved: the target is cleared before it becomes the current one.
Moved_cleared_first(binding, g) == [binding EXCEPT !.target = None, !.current = None]

\* A consumer's binding after a promotion.
Moved(binding, g) == [binding EXCEPT !.current = g, !.target = None]

\* FirestoreGenerationRepository.promote: the credential, both generations and
\* every binding move together.
Promote(g, predecessor, rep, services) ==
    /\ MayPromote(g, predecessor, rep, services)
    /\ active' = g
    /\ generations' = Lineage(g, predecessor)
    /\ bindings' = [s \in Service |-> IF s \in services THEN Moved(bindings[s], g)
                                                        ELSE bindings[s]]
    /\ UNCHANGED reports

\* FirestoreGenerationRepository.revoke
Revoke(g, rep) ==
    /\ generations[g].state = "superseded"
    /\ Passed(rep, g)
    /\ generations' = [generations EXCEPT ![g].state = "revoked"]
    /\ UNCHANGED <<active, bindings, reports>>

\* FirestoreGenerationRepository.orphan
Orphan(g) ==
    /\ generations[g].state = "creating"
    /\ generations' = [generations EXCEPT ![g].state = "orphaned"]
    /\ UNCHANGED <<active, bindings, reports>>

-----------------------------------------------------------------------------
\* The credential as import_credential stores it.
Init ==
    /\ active = First
    /\ generations = [g \in Generation |->
           [state |-> IF g = First THEN "active" ELSE "absent",
            predecessor |-> None, successor |-> None]]
    /\ bindings = [s \in Service |->
           [current |-> First, target |-> None, secret |-> First, report |-> None]]
    /\ reports = [rep \in Report |-> [status |-> "absent", generation |-> None]]

Next ==
    \/ \E g, predecessor \in Generation : Create(g, predecessor)
    \/ \E rep \in Report, g \in Generation, status \in {"passed", "failed"} :
          SaveReport(rep, g, status)
    \/ \E g \in Generation, services \in SUBSET Service : StageBindings(g, services)
    \/ \E g \in Generation, rep \in Report, services \in SUBSET Service :
          VerifyBindings(g, rep, services)
    \/ \E g, predecessor \in Generation, rep \in Report, services \in SUBSET Service :
          Promote(g, predecessor, rep, services)
    \/ \E g \in Generation, rep \in Report : Revoke(g, rep)
    \/ \E g \in Generation : Orphan(g)

Spec == Init /\ [][Next]_vars

-----------------------------------------------------------------------------
TypeOK ==
    /\ active \in Generation
    /\ generations \in [Generation -> GenerationDocument]
    /\ bindings \in [Service -> Binding]
    /\ reports \in [Report -> VerificationReport]

\* The credential, the generation documents and the consumers agree: exactly
\* the generation the credential points to is active, and every consumer's
\* binding says it runs on that one. A promotion leaves nobody behind.
OneActive ==
    /\ \A g \in Generation : generations[g].state = "active" <=> g = active
    /\ \A s \in Service : bindings[s].current = active

\* Unless another one is being prepared for it, a consumer runs on a generation
\* that passed a verification of that very generation which its binding names,
\* or on the imported one.
ConsumersVerified ==
    \A s \in Service : bindings[s].target = None /\ bindings[s].current # First =>
        bindings[s].report # None /\ Passed(bindings[s].report, bindings[s].current)

\* The secret version a binding refers to is the one of the generation it is
\* being moved to, or else of the one it runs on: no sequence of stagings,
\* late ones included, makes it refer to a third.
SecretFollows ==
    \A s \in Service :
        bindings[s].secret = IF bindings[s].target = None THEN bindings[s].current
                                                          ELSE bindings[s].target

\* A retired generation names the successor that names it as predecessor, and
\* one that was activated the retired predecessor that names it as successor.
Linked(g) ==
    /\ generations[g].state \in {"superseded", "revoked"} =>
          /\ generations[g].successor # None
          /\ Bound(generations[g].successor)
          /\ generations[generations[g].successor].predecessor = g
    /\ Bound(g) /\ g # First =>
          /\ generations[g].predecessor # None
          /\ generations[generations[g].predecessor].successor = g
          /\ generations[generations[g].predecessor].state \in {"superseded", "revoked"}

\* The generations that were ever active form one chain from the imported one,
\* whatever predecessor they were created with.
Succession == \A g \in Generation : Linked(g)

\* What was retired or given up is never put in use again.
RetiredForGood ==
    [][\A g \in Generation : generations[g].state \in {"superseded", "revoked", "orphaned"} =>
           generations'[g].state \in {generations[g].state, "revoked"}]_vars
=============================================================================
