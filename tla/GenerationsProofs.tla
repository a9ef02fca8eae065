--------------------------- MODULE GenerationsProofs ---------------------------
(***************************************************************************)
(* The safety properties of Generations, for all sets of generations,      *)
(* consumers and reports. Their conjunction is inductive: what a promotion *)
(* does to the lineage rests on exactly one generation being active, and   *)
(* that rests on the type of the documents.                                *)
(***************************************************************************)
EXTENDS Generations, TLAPS

IInv == TypeOK /\ OneActive /\ ConsumersVerified /\ SecretFollows /\ Succession

-----------------------------------------------------------------------------
\* The imported credential satisfies the invariant.
LEMMA InitSound == Init => IInv
  <1> SUFFICES ASSUME Init PROVE IInv
    OBVIOUS
  <1> USE IdentifiersAssumption DEF Init
  <1>1. TypeOK
    BY DEF TypeOK, GenerationDocument, GenerationState, Binding, VerificationReport
  <1>2. OneActive
    BY DEF OneActive
  <1>3. ConsumersVerified
    BY DEF ConsumersVerified
  <1>4. SecretFollows
    BY DEF SecretFollows
  <1>5. Succession
    BY DEF Succession, Linked, Bound
  <1> QED
    BY <1>1, <1>2, <1>3, <1>4, <1>5 DEF IInv

-----------------------------------------------------------------------------
\* A new generation is nobody's successor and nobody's predecessor.
LEMMA CreateSound ==
    ASSUME IInv, NEW g \in Generation, NEW p \in Generation, Create(g, p)
    PROVE  IInv'
  <1> USE IdentifiersAssumption DEF IInv, Create
  <1>1. generations[g].state = "absent"
    BY DEF Exists
  <1>2. TypeOK'
    BY DEF TypeOK, GenerationDocument, GenerationState
  <1>3. \A h \in Generation : h # g => generations'[h] = generations[h]
    BY DEF TypeOK
  <1>4. generations'[g].state = "creating"
    BY DEF TypeOK
  <1>5. OneActive'
    BY <1>1, <1>3, <1>4 DEF OneActive
  <1>6. ConsumersVerified' /\ SecretFollows'
    BY DEF ConsumersVerified, SecretFollows, Passed
  <1>7. Succession'
    <2> SUFFICES ASSUME NEW h \in Generation,
                        generations'[h].state \in {"active", "superseded", "revoked"}
                 PROVE  Linked(h)'
      BY DEF Succession, Linked, Bound
    <2>1. h # g
      BY <1>4
    <2>2. generations'[h] = generations[h] /\ Linked(h)
      BY <1>3, <2>1 DEF Succession
    <2> QED
      BY <1>1, <1>3, <2>2 DEF Linked, Bound, TypeOK, GenerationDocument
  <1> QED
    BY <1>2, <1>5, <1>6, <1>7

\* A new report leaves every passed one as it is.
LEMMA SaveReportSound ==
    ASSUME IInv, NEW rep \in Report, NEW g \in Generation,
           NEW status \in {"passed", "failed"}, SaveReport(rep, g, status)
    PROVE  IInv'
  <1> USE IdentifiersAssumption DEF IInv, SaveReport
  <1>1. TypeOK'
    BY DEF TypeOK, VerificationReport
  <1>2. OneActive' /\ SecretFollows' /\ Succession'
    BY DEF OneActive, SecretFollows, Succession, Linked, Bound
  <1>3. ConsumersVerified'
    <2>1. \A q \in Report, h \in Generation : Passed(q, h) => Passed(q, h)'
      BY DEF Passed, TypeOK
    <2> QED
      BY <2>1 DEF ConsumersVerified, TypeOK, Binding
  <1> QED
    BY <1>1, <1>2, <1>3

\* Staging changes target and secret of the same bindings together.
LEMMA StageBindingsSound ==
    ASSUME IInv, NEW g \in Generation, NEW services \in SUBSET Service,
           StageBindings(g, services)
    PROVE  IInv'
  <1> USE IdentifiersAssumption DEF IInv, StageBindings
  <1>1. \A s \in Service :
           /\ bindings'[s] \in Binding
           /\ bindings'[s].current = bindings[s].current
           /\ bindings'[s].report = bindings[s].report
           /\ \/ bindings'[s].target = g /\ bindings'[s].secret = g
              \/ bindings'[s] = bindings[s]
    BY DEF Staged, TypeOK, Binding
  <1>2. TypeOK'
    BY <1>1 DEF TypeOK
  <1>3. OneActive' /\ Succession'
    BY <1>1 DEF OneActive, Succession, Linked, Bound
  <1>4. ConsumersVerified'
    BY <1>1 DEF ConsumersVerified, Passed
  <1>5. SecretFollows'
    BY <1>1 DEF SecretFollows
  <1> QED
    BY <1>2, <1>3, <1>4, <1>5

\* Only bindings that target the generation are verified.
LEMMA VerifyBindingsSound ==
    ASSUME IInv, NEW g \in Generation, NEW rep \in Report,
           NEW services \in SUBSET Service, VerifyBindings(g, rep, services)
    PROVE  IInv'
  <1> USE IdentifiersAssumption DEF IInv, VerifyBindings
  <1>1. \A s \in Service :
           /\ bindings'[s] \in Binding
           /\ bindings'[s].current = bindings[s].current
           /\ bindings'[s].target = bindings[s].target
           /\ bindings'[s].secret = bindings[s].secret
           /\ bindings[s].target = None => bindings'[s] = bindings[s]
    BY DEF TypeOK, Binding
  <1>2. TypeOK'
    BY <1>1 DEF TypeOK
  <1>3. OneActive' /\ Succession'
    BY <1>1 DEF OneActive, Succession, Linked, Bound
  <1>4. ConsumersVerified'
    BY <1>1 DEF ConsumersVerified, Passed
  <1>5. SecretFollows'
    BY <1>1 DEF SecretFollows
  <1> QED
    BY <1>2, <1>3, <1>4, <1>5

\* A promotion moves the credential, the lineage and every binding.
LEMMA PromoteSound ==
    ASSUME IInv, NEW g \in Generation, NEW p \in Generation, NEW rep \in Report,
           NEW services \in SUBSET Service, Promote(g, p, rep, services)
    PROVE  IInv'
  <1> USE IdentifiersAssumption DEF IInv
  <1>1. /\ active = p /\ active' = g /\ g # p
        /\ generations[g].state = "creating" /\ generations[p].state = "active"
        /\ services = Service /\ Passed(rep, g)
        /\ generations' = Lineage(g, p) /\ reports' = reports
    BY DEF Promote, MayPromote, Succeeds
  <1>2. /\ generations[g] \in GenerationDocument
        /\ generations[p] \in GenerationDocument
    BY DEF TypeOK
  <1>3. /\ generations'[g] = [generations[g] EXCEPT !.state = "active", !.predecessor = p]
        /\ generations'[p] = [generations[p] EXCEPT !.state = "superseded",
                                                    !.successor = g]
        /\ \A h \in Generation \ {g, p} : generations'[h] = generations[h]
    BY <1>1 DEF Lineage, TypeOK
  <1>4. /\ generations'[g] \in GenerationDocument
        /\ generations'[p] \in GenerationDocument
        /\ generations'[g].state = "active" /\ generations'[g].predecessor = p
        /\ generations'[p].state = "superseded" /\ generations'[p].successor = g
        /\ generations'[p].predecessor = generations[p].predecessor
    BY <1>2, <1>3 DEF GenerationDocument, GenerationState
  <1>5. \A s \in Service :
           /\ bindings'[s] \in Binding
           /\ bindings'[s].current = g /\ bindings'[s].target = None
           /\ bindings'[s].secret = g /\ bindings'[s].report = rep
    <2> SUFFICES ASSUME NEW s \in Service
                 PROVE  /\ bindings'[s] \in Binding
                        /\ bindings'[s].current = g /\ bindings'[s].target = None
                        /\ bindings'[s].secret = g /\ bindings'[s].report = rep
      OBVIOUS
    <2>1. bindings[s] \in Binding /\ bindings'[s] = Moved(bindings[s], g)
      BY <1>1 DEF Promote, TypeOK
    <2>2. bindings[s].target = g /\ bindings[s].report = rep
      BY <1>1 DEF Promote, MayPromote, Verified
    <2>3. bindings[s].secret = g
      BY <2>2 DEF SecretFollows
    <2> QED BY <2>1, <2>2, <2>3 DEF Moved, Binding
  <1>6. TypeOK'
    <2>1. generations' \in [Generation -> GenerationDocument]
      <3>1. generations' = [h \in Generation |-> generations'[h]]
        BY <1>1 DEF Lineage, TypeOK
      <3>2. \A h \in Generation : generations'[h] \in GenerationDocument
        BY <1>3, <1>4 DEF TypeOK
      <3> QED
        BY <3>1, <3>2
    <2>2. bindings' \in [Service -> Binding]
      BY <1>5 DEF Promote
    <2> QED
      BY <1>1, <2>1, <2>2 DEF TypeOK
  <1>7. OneActive'
    <2>1. ASSUME NEW h \in Generation
          PROVE  generations'[h].state = "active" <=> h = g
      <3>1. h \notin {g, p} => generations'[h] = generations[h]
        BY <1>3
      <3>2. h \notin {g, p} => generations[h].state # "active"
        BY <1>1 DEF OneActive
      <3> QED
        BY <1>1, <1>4, <3>1, <3>2
    <2> QED
      BY <1>1, <1>5, <2>1 DEF OneActive
  <1>8. ConsumersVerified'
    BY <1>1, <1>5 DEF ConsumersVerified, Passed
  <1>9. SecretFollows'
    BY <1>5 DEF SecretFollows
  <1>10. Succession'
    <2>1. ASSUME NEW h \in Generation \ {g, p},
                 generations[h].state \in {"superseded", "revoked"}
          PROVE  /\ generations'[h].successor # None
                 /\ generations'[generations[h].successor].state
                        \in {"active", "superseded", "revoked"}
                 /\ generations'[generations'[h].successor].predecessor = h
      <3>1. /\ generations'[h] = generations[h] /\ generations[h].successor # None
            /\ Bound(generations[h].successor)
            /\ generations[generations[h].successor].predecessor = h
        BY <1>3, <2>1 DEF Succession, Linked
      <3>2. generations[h].successor \in Generation \ {g}
        BY <1>1, <3>1 DEF Bound, TypeOK, GenerationDocument
      <3>3. generations'[generations[h].successor].state
                \in {"active", "superseded", "revoked"}
        BY <1>3, <1>4, <3>1, <3>2 DEF Bound
      <3>4. generations'[generations[h].successor].predecessor = h
        BY <1>3, <1>4, <3>1, <3>2
      <3> QED
        BY <3>1, <3>3, <3>4
    <2>2. ASSUME NEW h \in Generation \ {g}, Bound(h), h # First
          PROVE  /\ generations'[h].predecessor # None
                 /\ generations'[generations'[h].predecessor].successor = h
                 /\ generations'[generations'[h].predecessor].state
                        \in {"superseded", "revoked"}
      <3>1. /\ generations'[h].predecessor = generations[h].predecessor
            /\ generations[h].predecessor # None
            /\ generations[generations[h].predecessor].successor = h
            /\ generations[generations[h].predecessor].state \in {"superseded", "revoked"}
        BY <1>3, <1>4, <2>2 DEF Succession, Linked
      <3>2. generations[h].predecessor \in Generation \ {g, p}
        BY <1>1, <3>1 DEF TypeOK, GenerationDocument
      <3> QED
        BY <1>3, <3>1, <3>2
    <2>3. Bound(g)' /\ Bound(p)
      BY <1>1, <1>4 DEF Bound
    <2>4. ASSUME NEW h \in Generation \ {g, p}
          PROVE  Linked(h)'
      <3>1. generations'[h] = generations[h] /\ (Bound(h)' <=> Bound(h))
        BY <1>3 DEF Bound
      <3> QED
        BY <2>1, <2>2, <3>1 DEF Linked, Bound
    <2>5. Linked(g)'
      BY <1>1, <1>4 DEF Linked
    <2>6. Linked(p)'
      BY <1>1, <1>4, <2>2, <2>3 DEF Linked
    <2> QED
      BY <2>4, <2>5, <2>6 DEF Succession
  <1> QED
    BY <1>6, <1>7, <1>8, <1>9, <1>10

\* Revoking or orphaning changes one state that is not active.
LEMMA RetireSound ==
    ASSUME IInv, NEW g \in Generation, NEW state \in {"revoked", "orphaned"},
           generations[g].state = IF state = "revoked" THEN "superseded" ELSE "creating",
           generations' = [generations EXCEPT ![g].state = state],
           UNCHANGED <<active, bindings, reports>>
    PROVE  IInv'
  <1> USE IdentifiersAssumption DEF IInv
  <1>1. TypeOK'
    BY DEF TypeOK, GenerationDocument, GenerationState
  <1>2. /\ generations'[g] = [generations[g] EXCEPT !.state = state]
        /\ \A h \in Generation \ {g} : generations'[h] = generations[h]
    BY DEF TypeOK
  <1>3. /\ generations'[g].state = state
        /\ generations'[g].predecessor = generations[g].predecessor
        /\ generations'[g].successor = generations[g].successor
    BY <1>2 DEF TypeOK, GenerationDocument
  <1>4. OneActive'
    BY <1>2, <1>3 DEF OneActive
  <1>5. ConsumersVerified' /\ SecretFollows'
    BY DEF ConsumersVerified, SecretFollows, Passed
  <1>6. /\ \A h \in Generation : Bound(h) <=> Bound(h)'
        /\ \A h \in Generation : generations[h].state \in {"superseded", "revoked"}
                            <=> generations'[h].state \in {"superseded", "revoked"}
        /\ \A h \in Generation : generations'[h].predecessor = generations[h].predecessor
        /\ \A h \in Generation : generations'[h].successor = generations[h].successor
    BY <1>2, <1>3 DEF Bound
  <1>7. \A h \in Generation : /\ generations[h].predecessor \in Generation \cup {None}
                              /\ generations[h].successor \in Generation \cup {None}
    BY DEF TypeOK, GenerationDocument
  <1>8. Succession'
    BY <1>6, <1>7 DEF Succession, Linked
  <1> QED
    BY <1>1, <1>4, <1>5, <1>8

\* Every step keeps the invariant.
LEMMA NextSound == IInv /\ [Next]_vars => IInv'
  <1> SUFFICES ASSUME IInv, [Next]_vars PROVE IInv'
    OBVIOUS
  <1>1. ASSUME NEW g \in Generation, NEW p \in Generation, Create(g, p)
        PROVE  IInv'
    BY <1>1, CreateSound
  <1>2. ASSUME NEW rep \in Report, NEW g \in Generation,
               NEW status \in {"passed", "failed"}, SaveReport(rep, g, status)
        PROVE  IInv'
    BY <1>2, SaveReportSound
  <1>3. ASSUME NEW g \in Generation, NEW services \in SUBSET Service,
               StageBindings(g, services)
        PROVE  IInv'
    BY <1>3, StageBindingsSound
  <1>4. ASSUME NEW g \in Generation, NEW rep \in Report,
               NEW services \in SUBSET Service, VerifyBindings(g, rep, services)
        PROVE  IInv'
    BY <1>4, VerifyBindingsSound
  <1>5. ASSUME NEW g \in Generation, NEW p \in Generation, NEW rep \in Report,
               NEW services \in SUBSET Service, Promote(g, p, rep, services)
        PROVE  IInv'
    BY <1>5, PromoteSound
  <1>6. ASSUME NEW g \in Generation, NEW rep \in Report, Revoke(g, rep)
        PROVE  IInv'
    BY <1>6, RetireSound DEF Revoke
  <1>7. ASSUME NEW g \in Generation, Orphan(g)
        PROVE  IInv'
    BY <1>7, RetireSound DEF Orphan
  <1>8. ASSUME UNCHANGED vars
        PROVE  IInv'
    BY <1>8 DEF vars, IInv, TypeOK, OneActive, ConsumersVerified, SecretFollows,
                Succession, Linked, Passed, Bound
  <1> QED
    BY <1>1, <1>2, <1>3, <1>4, <1>5, <1>6, <1>7, <1>8 DEF Next

\* The invariant holds in every reachable state.
LEMMA Invariant == Spec => []IInv
  <1> QED
    BY InitSound, NextSound, PTL DEF Spec

-----------------------------------------------------------------------------
\* Credential, generations, bindings and reports keep the types of their
\* contracts under every call of the repository.
THEOREM TypeCorrect == Spec => []TypeOK
  <1>1. IInv => TypeOK
    BY DEF IInv
  <1> QED
    BY <1>1, Invariant, PTL

\* promote: exactly the generation the credential names is active, and every
\* consumer is on it.
THEOREM OneIsActive == Spec => []OneActive
  <1>1. IInv => OneActive
    BY DEF IInv
  <1> QED
    BY <1>1, Invariant, PTL

\* verify_bindings and promote: a settled consumer runs on a generation whose
\* verification it names.
THEOREM ConsumersAreVerified == Spec => []ConsumersVerified
  <1>1. IInv => ConsumersVerified
    BY DEF IInv
  <1> QED
    BY <1>1, Invariant, PTL

\* stage_bindings and promote: the secret of a binding belongs to its target or
\* to the generation it runs on.
THEOREM SecretIsFollowed == Spec => []SecretFollows
  <1>1. IInv => SecretFollows
    BY DEF IInv
  <1> QED
    BY <1>1, Invariant, PTL

\* promote: the generations that were active form one chain.
THEOREM SuccessionIsAChain == Spec => []Succession
  <1>1. IInv => Succession
    BY DEF IInv
  <1> QED
    BY <1>1, Invariant, PTL

-----------------------------------------------------------------------------
\* create, promote, revoke and orphan: a retired or orphaned generation is never
\* created, promoted or superseded again.
THEOREM RetiredStaysRetired == Spec => RetiredForGood
  <1>1. IInv /\ [Next]_vars =>
            [\A g \in Generation :
                generations[g].state \in {"superseded", "revoked", "orphaned"} =>
                    generations'[g].state \in {generations[g].state, "revoked"}]_vars
    <2> SUFFICES ASSUME IInv, Next, NEW g \in Generation,
                        generations[g].state \in {"superseded", "revoked", "orphaned"}
                 PROVE  generations'[g].state \in {generations[g].state, "revoked"}
      OBVIOUS
    <2> USE DEF IInv, TypeOK
    <2>1. ASSUME NEW h \in Generation, NEW p \in Generation, Create(h, p)
          PROVE  generations'[g] = generations[g]
      BY <2>1 DEF Create, Exists
    <2>2. ASSUME NEW h \in Generation, NEW p \in Generation, NEW rep \in Report,
                 NEW services \in SUBSET Service, Promote(h, p, rep, services)
          PROVE  generations'[g] = generations[g]
      <3>1. h # g /\ p # g
        BY <2>2 DEF Promote, MayPromote, Succeeds
      <3> QED
        BY <2>2, <3>1 DEF Promote, Lineage
    <2>3. ASSUME NEW h \in Generation, NEW rep \in Report, Revoke(h, rep)
          PROVE  generations'[g].state \in {generations[g].state, "revoked"}
      BY <2>3 DEF Revoke, GenerationDocument
    <2>4. ASSUME NEW h \in Generation, Orphan(h)
          PROVE  generations'[g] = generations[g]
      BY <2>4 DEF Orphan
    <2>5. ASSUME UNCHANGED generations
          PROVE  generations'[g] = generations[g]
      BY <2>5
    <2> QED
      BY <2>1, <2>2, <2>3, <2>4, <2>5 DEF Next, SaveReport, StageBindings, VerifyBindings
  <1> QED
    BY <1>1, Invariant, PTL DEF Spec, RetiredForGood
=============================================================================
