----------------------------- MODULE BrokerProofs -----------------------------
(***************************************************************************)
(* Proofs about Broker for every number of calls, tokens, keys and leases, *)
(* with leases that may end while a call is still at work.                 *)
(***************************************************************************)
EXTENDS Broker, FiniteSetTheorems, TLAPS

-----------------------------------------------------------------------------
(***************************************************************************)
(* Types. Most steps write one call; its record stays well typed because   *)
(* each field is given a value of its type.                                *)
(***************************************************************************)

\* A call record, an attempt and a credential written field by field.
LEMMA TypesOfParts ==
    /\ NoAttempt \in Attempt
    /\ Idle \in Call
    /\ NoMessage \in Message
  BY DEF NoAttempt, Attempt, Idle, Call, NoMessage, Message, Phase, Result

LEMMA ReclaimedCall ==
    ASSUME NEW k \in Call, NEW previous \in Attempt, NEW lease \in Nat
    PROVE  [k EXCEPT !.phase = "reconcile", !.lease = lease, !.before = previous.before,
                     !.versions = previous.versions, !.previous = NoAttempt] \in Call
  <1>1. previous.before \in SUBSET Key /\ previous.versions \in SUBSET Key
    BY DEF Attempt
  <1> DEFINE before == previous.before
             versions == previous.versions
  <1> HIDE DEF before, versions
  <1>2. [k EXCEPT !.phase = "reconcile", !.lease = lease, !.before = before,
                  !.versions = versions, !.previous = NoAttempt] \in Call
    BY <1>1, TypesOfParts DEF Call, Phase, before, versions
  <1> QED BY <1>2 DEF before, versions

LEMMA LeasedAttempt ==
    ASSUME NEW a \in Attempt, NEW lease \in Nat
    PROVE  [a EXCEPT !.lease = lease, !.expired = FALSE] \in Attempt
  BY DEF Attempt

LEMMA AttemptFields ==
    ASSUME NEW a \in Attempt, NEW result \in Result
    PROVE  /\ [a EXCEPT !.checkpoint = result] \in Attempt
           /\ [a EXCEPT !.expired = TRUE] \in Attempt
           /\ Finished(a, result) \in Attempt
  BY DEF Attempt, Finished, Result, None

\* The phase a call is in tells what it holds: outside idle the token of its
\* request, and after reading a terminal attempt the result that is stored.
CallSound(c) ==
    /\ calls[c].phase # "idle" => calls[c].token \in Token
    /\ calls[c].phase = "received" /\ calls[c].previous.status \in {"succeeded", "failed"}
         => /\ attempts[calls[c].token].status = calls[c].previous.status
            /\ attempts[calls[c].token].result = calls[c].previous.result

\* What every step preserves.
IInv == TypeOK /\ (\A c \in Calls : CallSound(c)) /\ OneAnswer

-----------------------------------------------------------------------------
(***************************************************************************)
(* What the parts of a step write.                                         *)
(***************************************************************************)

\* A call moves on to another phase.
LEMMA GotoTypes ==
    ASSUME TypeOK, NEW c \in Calls, NEW phase \in Phase, Goto(c, phase)
    PROVE  calls' \in [Calls -> Call]
  <1>1. [calls[c] EXCEPT !.phase = phase] \in Call
    BY DEF TypeOK, Call
  <1> QED BY <1>1 DEF TypeOK, Goto

\* A call leaves.
LEMMA LeaveTypes ==
    ASSUME TypeOK, NEW c \in Calls, Leave(c)
    PROVE  calls' \in [Calls -> Call]
  BY TypesOfParts DEF TypeOK, Leave

\* A call takes up a key, a set of keys or nothing with its next phase.
LEMMA TakeTypes ==
    ASSUME TypeOK, NEW c \in Calls, NEW phase \in Phase, NEW key \in Result,
           NEW found \in SUBSET Key,
           \/ calls' = [calls EXCEPT ![c].phase = phase, ![c].key = key]
           \/ calls' = [calls EXCEPT ![c].phase = phase, ![c].before = found]
           \/ calls' = [calls EXCEPT ![c].phase = phase, ![c].versions = found]
    PROVE  calls' \in [Calls -> Call]
  <1> DEFINE k == [calls[c] EXCEPT !.phase = phase, !.key = key]
             b == [calls[c] EXCEPT !.phase = phase, !.before = found]
             v == [calls[c] EXCEPT !.phase = phase, !.versions = found]
  <1>1. k \in Call /\ b \in Call /\ v \in Call
    <2>1. calls[c] \in Call
      BY DEF TypeOK
    <2>2. k \in Call
      BY <2>1 DEF Call
    <2>3. b \in Call
      BY <2>1 DEF Call
    <2>4. v \in Call
      BY <2>1 DEF Call
    <2> QED BY <2>2, <2>3, <2>4
  <1>2. \/ calls' = [calls EXCEPT ![c] = k]
        \/ calls' = [calls EXCEPT ![c] = b]
        \/ calls' = [calls EXCEPT ![c] = v]
    BY DEF k, b, v
  <1> HIDE DEF k, b, v
  <1> QED BY <1>1, <1>2 DEF TypeOK

\* A candidate is picked, or there is none, or too many.
LEMMA PickTypes ==
    ASSUME TypeOK, NEW c \in Calls, NEW found \in SUBSET Key,
           NEW cleanup \in Phase, NEW next \in Phase, Pick(c, found, cleanup, next)
    PROVE  calls' \in [Calls -> Call]
  <1>1. CASE Leave(c)
    BY <1>1, LeaveTypes
  <1>2. CASE Goto(c, next)
    BY <1>2, GotoTypes
  <1>3. CASE /\ Cardinality(found) = 1
             /\ calls' = [calls EXCEPT ![c].phase = cleanup,
                                       ![c].key = CHOOSE k \in found : TRUE]
    <2> DEFINE k == CHOOSE k \in found : TRUE
    <2>1. found # {}
      BY <1>3, FS_EmptySet
    <2>2. k \in Result
      BY <2>1 DEF Result
    <2>3. calls' = [calls EXCEPT ![c].phase = cleanup, ![c].key = k]
      BY <1>3
    <2> HIDE DEF k
    <2> QED BY <2>2, <2>3, TakeTypes
  <1> QED BY <1>1, <1>2, <1>3 DEF Pick

\* A credential or its version changes its state.
LEMMA KeyTypes ==
    ASSUME TypeOK, NEW k \in Result,
           \/ Revoke(k)
           \/ keys' = [keys EXCEPT ![k].version = "enabled"]
           \/ keys' = [keys EXCEPT ![k].version = "disabled"]
           \/ UNCHANGED keys
    PROVE  keys' \in [Key -> Credential]
  BY DEF TypeOK, Credential, Revoke

\* A message is sent or taken off the wire.
LEMMA WireTypes ==
    ASSUME TypeOK, NEW c \in Calls, NEW m \in Message, wire' = [wire EXCEPT ![c] = m]
    PROVE  wire' \in [Calls -> Message]
  BY DEF TypeOK

\* An attempt is written.
LEMMA PutTypes ==
    ASSUME TypeOK, NEW t \in Token, NEW a \in Attempt, Put(t, a)
    PROVE  attempts' \in [Token -> Attempt]
  BY DEF TypeOK, Put

LEMMA MishapTypes ==
    ASSUME TypeOK, Mishap
    PROVE  mishaps' \in Nat
  BY DEF TypeOK, Mishap

-----------------------------------------------------------------------------
\* Types after each step.
LEMMA TypeStep ==
    ASSUME IInv, Next
    PROVE  TypeOK'
  <1> USE DEF IInv
  <1>t. TypeOK
    OBVIOUS
  <1>1. ASSUME NEW c \in Calls, NEW t \in Token, Receive(c, t) PROVE TypeOK'
    <2> DEFINE k == [Idle EXCEPT !.phase = "received", !.token = t, !.previous = attempts[t]]
    <2>1. k \in Call
      BY TypesOfParts DEF TypeOK, Call, Idle, Phase
    <2>2. calls' = [calls EXCEPT ![c] = k]
      BY <1>1 DEF Receive
    <2> HIDE DEF k
    <2> QED BY <1>1, <2>1, <2>2 DEF Receive, TypeOK
  <1>2. ASSUME NEW c \in Calls, ReturnStored(c) PROVE TypeOK'
    <2>1. calls' \in [Calls -> Call]
      BY <1>2, LeaveTypes DEF ReturnStored
    <2>2. calls[c].previous.result \in Result /\ calls[c].token \in Token
      BY <1>2 DEF ReturnStored, TypeOK, Call, Attempt, CallSound
    <2> QED BY <1>2, <2>1, <2>2 DEF ReturnStored, TypeOK
  <1>3. ASSUME NEW c \in Calls, Reject(c) PROVE TypeOK'
    BY <1>3, LeaveTypes DEF Reject, TypeOK
  <1>4. ASSUME NEW c \in Calls, Proceed(c) PROVE TypeOK'
    <2>1. calls[c].previous.checkpoint \in Result
      BY DEF TypeOK, Call, Attempt
    <2>2. "prepare" \in Phase /\ "finish" \in Phase /\ "reclaim" \in Phase
      BY DEF Phase
    <2>3. calls' \in [Calls -> Call]
      BY <1>4, <2>1, <2>2, GotoTypes, TakeTypes DEF Proceed
    <2> QED BY <1>4, <2>3 DEF Proceed, TypeOK
  <1>5. ASSUME NEW c \in Calls, Prepare(c) \/ PrepareSink(c) \/ ListBefore(c) PROVE TypeOK'
    <2>1. "prepare_sink" \in Phase /\ "begin" \in Phase /\ "send" \in Phase
      BY DEF Phase
    <2>2. Listed \in SUBSET Key /\ Versions \in SUBSET Key /\ None \in Result
      BY DEF Listed, Versions, Result
    <2>3. calls' \in [Calls -> Call]
      BY <1>5, <2>1, <2>2, TakeTypes DEF Prepare, PrepareSink, ListBefore
    <2> QED BY <1>5, <2>3 DEF Prepare, PrepareSink, ListBefore, TypeOK
  <1>6. ASSUME NEW c \in Calls, Begin(c) PROVE TypeOK'
    <2> DEFINE t == calls[c].token
               a == [NoAttempt EXCEPT !.status = "running", !.lease = 1,
                                      !.before = calls[c].before,
                                      !.versions = calls[c].versions]
               k == [calls[c] EXCEPT !.phase = "create", !.lease = 1]
    <2>1. t \in Token
      BY <1>6 DEF Begin, CallSound
    <2>2. a \in Attempt
      BY DEF TypeOK, Call, Attempt, NoAttempt, Result
    <2>3. k \in Call
      <3>1. calls[c] \in Call
        BY DEF TypeOK
      <3>2. "create" \in Phase /\ 1 \in Nat
        BY DEF Phase
      <3> QED BY <3>1, <3>2 DEF Call
    <2>4. CASE attempts[t].status = "none"
      <3>1. Put(t, a) /\ calls' = [calls EXCEPT ![c] = k]
        BY <1>6, <2>4 DEF Begin
      <3> HIDE DEF a, k
      <3>2. attempts' \in [Token -> Attempt]
        BY <2>1, <2>2, <3>1, PutTypes
      <3>3. calls' \in [Calls -> Call]
        BY <2>3, <3>1 DEF TypeOK
      <3> QED BY <1>6, <3>2, <3>3 DEF Begin, TypeOK
    <2>5. CASE attempts[t].status # "none"
      BY <1>6, <2>5, LeaveTypes DEF Begin, TypeOK
    <2> QED BY <2>4, <2>5
  <1>7. ASSUME NEW c \in Calls, Reclaim(c) PROVE TypeOK'
    <2> DEFINE t == calls[c].token
               previous == calls[c].previous
               lease == attempts[t].lease + 1
               a == [attempts[t] EXCEPT !.lease = lease, !.expired = FALSE]
               k == [calls[c] EXCEPT !.phase = "reconcile", !.lease = lease,
                                     !.before = previous.before,
                                     !.versions = previous.versions,
                                     !.previous = NoAttempt]
    <2>1. t \in Token
      BY <1>7 DEF Reclaim, CallSound
    <2>2. lease \in Nat
      BY <2>1 DEF TypeOK, Attempt
    <2>3. a \in Attempt
      <3>1. attempts[t] \in Attempt
        BY <2>1 DEF TypeOK
      <3> HIDE DEF lease
      <3> QED BY <2>2, <3>1, LeasedAttempt
    <2>4. k \in Call
      <3>1. calls[c] \in Call
        BY DEF TypeOK
      <3>2. previous \in Attempt
        BY <3>1 DEF Call
      <3> HIDE DEF previous, lease
      <3>3. [calls[c] EXCEPT !.phase = "reconcile", !.lease = lease,
                             !.before = previous.before, !.versions = previous.versions,
                             !.previous = NoAttempt] \in Call
        BY <2>2, <3>1, <3>2, ReclaimedCall
      <3> QED BY <3>3 DEF k
    <2>5. CASE Reclaimable(t, previous.lease)
      <3>1. Put(t, a) /\ calls' = [calls EXCEPT ![c] = k]
        BY <1>7, <2>5 DEF Reclaim
      <3> HIDE DEF a, k
      <3>2. attempts' \in [Token -> Attempt]
        BY <2>1, <2>3, <3>1, PutTypes
      <3>3. calls' \in [Calls -> Call]
        BY <2>4, <3>1 DEF TypeOK
      <3> QED BY <1>7, <3>2, <3>3 DEF Reclaim, TypeOK
    <2>6. CASE ~Reclaimable(t, previous.lease)
      BY <1>7, <2>6, LeaveTypes DEF Reclaim, TypeOK
    <2> QED BY <2>5, <2>6
  <1>8. ASSUME NEW c \in Calls, Reconcile(c) PROVE TypeOK'
    <2>1. /\ (Listed \ calls[c].before) \in SUBSET Key
          /\ "cleanup" \in Phase /\ "reconcile_sink" \in Phase
      BY DEF Listed, Phase
    <2>2. calls' \in [Calls -> Call]
      BY <1>8, <2>1, PickTypes DEF Reconcile
    <2> QED BY <1>8, <2>2 DEF Reconcile, TypeOK
  <1>9. ASSUME NEW c \in Calls, ReconcileSink(c) PROVE TypeOK'
    <2>1. /\ (Enabled \ calls[c].versions) \in SUBSET Key
          /\ "cleanup_sink" \in Phase /\ "create" \in Phase
      BY DEF Enabled, Phase
    <2>2. calls' \in [Calls -> Call]
      BY <1>9, <2>1, PickTypes DEF ReconcileSink
    <2> QED BY <1>9, <2>2 DEF ReconcileSink, TypeOK
  <1>10. ASSUME NEW c \in Calls, Cleanup(c) \/ CleanupSink(c) PROVE TypeOK'
    <2>1. "reconcile_sink" \in Phase /\ "create" \in Phase /\ None \in Result
      BY DEF Phase, Result
    <2>2. calls[c].key \in Result
      BY DEF TypeOK, Call
    <2>3. keys' \in [Key -> Credential]
      BY <1>10, <2>2, KeyTypes DEF Cleanup, CleanupSink
    <2>4. calls' \in [Calls -> Call]
      <3>1. CASE Cleanup(c)
        BY <3>1, <2>1, TakeTypes DEF Cleanup
      <3>2. CASE CleanupSink(c)
        BY <3>2, <2>1, TakeTypes DEF CleanupSink
      <3> QED BY <1>10, <3>1, <3>2
    <2>5. UNCHANGED <<fence, attempts, wire, answers, mishaps, overran>>
      <3>1. CASE Cleanup(c)
        BY <3>1 DEF Cleanup
      <3>2. CASE CleanupSink(c)
        BY <3>2 DEF CleanupSink
      <3> QED BY <1>10, <3>1, <3>2
    <2> QED BY <2>3, <2>4, <2>5 DEF TypeOK
  <1>11. ASSUME NEW c \in Calls, Send(c) \/ StoreSecret(c) PROVE TypeOK'
    <2>1. "creating" \in Phase /\ "storing" \in Phase
      BY DEF Phase
    <2>2. /\ [op |-> "create", token |-> calls[c].token, key |-> None] \in Message
          /\ [op |-> "add", token |-> calls[c].token, key |-> calls[c].key] \in Message
      BY DEF TypeOK, Call, Message, Result
    <2>3. calls' \in [Calls -> Call]
      BY <1>11, <2>1, GotoTypes DEF Send, StoreSecret
    <2>4. wire' \in [Calls -> Message]
      BY <1>11, <2>2, WireTypes DEF Send, StoreSecret
    <2>5. UNCHANGED <<fence, attempts, keys, answers, mishaps, overran>>
      <3>1. CASE Send(c)
        BY <3>1 DEF Send
      <3>2. CASE StoreSecret(c)
        BY <3>2 DEF StoreSecret
      <3> QED BY <1>11, <3>1, <3>2
    <2> QED BY <2>3, <2>4, <2>5 DEF TypeOK
  <1>12. ASSUME NEW c \in Calls, ProviderCreates(c) PROVE TypeOK'
    <2>1. PICK k \in Key :
             /\ keys' = [keys EXCEPT ![k] = [status |-> "active", version |-> "none",
                                             token |-> wire[c].token]]
             /\ calls' = IF calls[c].phase = "creating"
                         THEN [calls EXCEPT ![c].phase = "store", ![c].key = k]
                         ELSE calls
      BY <1>12 DEF ProviderCreates
    <2>2. [status |-> "active", version |-> "none", token |-> wire[c].token] \in Credential
      BY DEF TypeOK, Message, Credential
    <2>3. keys' \in [Key -> Credential]
      BY <2>1, <2>2 DEF TypeOK
    <2>4. "store" \in Phase /\ k \in Result
      BY DEF Phase, Result
    <2>5. calls' \in [Calls -> Call]
      BY <2>1, <2>4, TakeTypes DEF TypeOK
    <2>6. wire' \in [Calls -> Message]
      BY <1>12, TypesOfParts, WireTypes DEF ProviderCreates
    <2> QED BY <1>12, <2>3, <2>5, <2>6 DEF ProviderCreates, TypeOK
  <1>13. ASSUME NEW c \in Calls, ProviderRefuses(c) \/ SinkRefuses(c) PROVE TypeOK'
    <2>1. "failing" \in Phase /\ "compensate" \in Phase
      BY DEF Phase
    <2>2. calls' \in [Calls -> Call]
      BY <1>13, <2>1, GotoTypes DEF ProviderRefuses, SinkRefuses, TypeOK
    <2>3. mishaps' \in Nat
      BY <1>13, MishapTypes DEF ProviderRefuses, SinkRefuses, TypeOK
    <2>4. wire' \in [Calls -> Message]
      BY <1>13, TypesOfParts, WireTypes DEF ProviderRefuses, SinkRefuses
    <2> QED BY <1>13, <2>2, <2>3, <2>4 DEF ProviderRefuses, SinkRefuses, TypeOK
  <1>14. ASSUME NEW c \in Calls, NoAnswer(c) \/ SinkUnavailable(c) \/ AddFails(c)
         PROVE  TypeOK'
    <2>1. "timedout" \in Phase /\ "failing" \in Phase /\ "undo" \in Phase /\ "compensate" \in Phase
      BY DEF Phase
    <2>2. calls' \in [Calls -> Call]
      BY <1>14, <2>1, GotoTypes DEF NoAnswer, SinkUnavailable, AddFails
    <2>3. mishaps' \in Nat
      BY <1>14, MishapTypes DEF NoAnswer, SinkUnavailable, AddFails
    <2> QED BY <1>14, <2>2, <2>3 DEF NoAnswer, SinkUnavailable, AddFails, TypeOK
  <1>15. ASSUME NEW c \in Calls, ReconcileAmbiguous(c) PROVE TypeOK'
    <2> DEFINE found == Listed \ calls[c].before
               k == CHOOSE x \in found : TRUE
    <2>1. CASE Cardinality(found) = 1
      <3>1. found # {}
        BY <2>1, FS_EmptySet
      <3>2. k \in Result /\ "orphan" \in Phase
        BY <3>1 DEF Result, Listed, Phase
      <3>3. calls' = [calls EXCEPT ![c].phase = "orphan", ![c].key = k]
        BY <1>15, <2>1 DEF ReconcileAmbiguous
      <3> HIDE DEF k
      <3>4. calls' \in [Calls -> Call]
        BY <3>2, <3>3, TakeTypes
      <3> QED BY <1>15, <3>4 DEF ReconcileAmbiguous, TypeOK
    <2>2. CASE Cardinality(found) # 1
      <3>1. calls' \in [Calls -> Call]
        BY <1>15, <2>2, LeaveTypes DEF ReconcileAmbiguous
      <3> QED BY <1>15, <3>1 DEF ReconcileAmbiguous, TypeOK
    <2> QED BY <2>1, <2>2
  <1>16. ASSUME NEW c \in Calls, RevokeOrphan(c) PROVE TypeOK'
    <2>1. calls[c].key \in Result
      BY DEF TypeOK, Call
    <2>2. keys' \in [Key -> Credential]
      BY <1>16, <2>1, KeyTypes DEF RevokeOrphan
    <2>3. calls' \in [Calls -> Call]
      BY <1>16, LeaveTypes DEF RevokeOrphan
    <2> QED BY <1>16, <2>2, <2>3 DEF RevokeOrphan, TypeOK
  <1>17. ASSUME NEW c \in Calls, ConnectorFails(c) PROVE TypeOK'
    <2>1. calls[c].key \in Result /\ None \in Result /\ "failing" \in Phase
      BY DEF TypeOK, Call, Phase, Result
    <2>2. keys' \in [Key -> Credential]
      BY <1>17, <2>1, KeyTypes DEF ConnectorFails
    <2>3. calls' \in [Calls -> Call]
      BY <1>17, <2>1, TakeTypes DEF ConnectorFails
    <2>4. mishaps' \in Nat
      BY <1>17, MishapTypes DEF ConnectorFails
    <2> QED BY <1>17, <2>2, <2>3, <2>4 DEF ConnectorFails, TypeOK
  <1>18. ASSUME NEW c \in Calls, SinkAdds(c) PROVE TypeOK'
    <2>1. wire[c].key \in Result /\ "checkpoint" \in Phase
      BY DEF TypeOK, Message, Phase
    <2>2. keys' \in [Key -> Credential]
      BY <1>18, <2>1, KeyTypes DEF SinkAdds
    <2>3. calls' \in [Calls -> Call]
      BY <1>18, <2>1, GotoTypes DEF SinkAdds, TypeOK
    <2>4. wire' \in [Calls -> Message]
      BY <1>18, TypesOfParts, WireTypes DEF SinkAdds
    <2> QED BY <1>18, <2>2, <2>3, <2>4 DEF SinkAdds, TypeOK
  <1>19. ASSUME NEW c \in Calls, Compensate(c) PROVE TypeOK'
    <2>1. calls[c].key \in Result /\ None \in Result /\ "failing" \in Phase
      BY DEF TypeOK, Call, Phase, Result
    <2>2. keys' \in [Key -> Credential]
      BY <1>19, <2>1, KeyTypes DEF Compensate
    <2>3. calls' \in [Calls -> Call]
      BY <1>19, <2>1, TakeTypes, LeaveTypes DEF Compensate
    <2>4. mishaps' \in Nat
      BY <1>19, MishapTypes DEF Compensate, TypeOK
    <2> QED BY <1>19, <2>2, <2>3, <2>4 DEF Compensate, TypeOK
  <1>20. ASSUME NEW c \in Calls, Checkpoint(c) \/ CheckpointFails(c) PROVE TypeOK'
    <2> DEFINE t == calls[c].token
               k == calls[c].key
               a == [attempts[t] EXCEPT !.checkpoint = k]
    <2>1. k \in Result /\ None \in Result /\ "failing" \in Phase /\ "finish" \in Phase
      BY DEF TypeOK, Call, Phase, Result
    <2>2. t \in Token
      BY <1>20 DEF Checkpoint, CheckpointFails, CallSound
    <2>3. a \in Attempt
      <3>1. attempts[t] \in Attempt
        BY <2>2 DEF TypeOK
      <3> QED BY <2>1, <3>1, AttemptFields
    <2>4. Put(t, a) \/ UNCHANGED attempts
      BY <1>20 DEF Checkpoint, CheckpointFails
    <2>5. calls' \in [Calls -> Call]
      BY <1>20, <2>1, GotoTypes, TakeTypes DEF Checkpoint, CheckpointFails
    <2>6. mishaps' \in Nat
      BY <1>20, MishapTypes DEF Checkpoint, CheckpointFails, TypeOK
    <2> HIDE DEF a
    <2>7. attempts' \in [Token -> Attempt]
      BY <2>2, <2>3, <2>4, PutTypes DEF TypeOK
    <2> QED BY <1>20, <2>5, <2>6, <2>7 DEF Checkpoint, CheckpointFails, TypeOK
  <1>21. ASSUME NEW c \in Calls, Finish(c) PROVE TypeOK'
    <2> DEFINE t == calls[c].token
               k == calls[c].key
    <2>1. k \in Result
      BY DEF TypeOK, Call
    <2>2. t \in Token
      BY <1>21 DEF Finish, CallSound
    <2>3. Finished(attempts[t], k) \in Attempt
      BY <2>1, <2>2, AttemptFields DEF TypeOK
    <2>4. attempts' \in [Token -> Attempt]
      BY <1>21, <2>2, <2>3, PutTypes DEF Finish, TypeOK
    <2>5. calls' \in [Calls -> Call]
      BY <1>21, LeaveTypes DEF Finish
    <2>6. answers' \in [Token -> SUBSET Result]
      BY <1>21, <2>1, <2>2 DEF Finish, TypeOK
    <2> QED BY <1>21, <2>4, <2>5, <2>6 DEF Finish, TypeOK
  <1>22. ASSUME NEW c \in Calls, Abandon(c) PROVE TypeOK'
    BY <1>22, LeaveTypes, MishapTypes DEF Abandon, TypeOK
  <1>23. ASSUME NEW t \in Token, Expire(t) PROVE TypeOK'
    <2> DEFINE a == [attempts[t] EXCEPT !.expired = TRUE]
    <2>1. a \in Attempt
      BY DEF TypeOK, Attempt
    <2>2. Put(t, a)
      BY <1>23 DEF Expire
    <2> HIDE DEF a
    <2>3. attempts' \in [Token -> Attempt]
      BY <2>1, <2>2, PutTypes
    <2>4. mishaps' \in Nat
      BY <1>23, MishapTypes DEF Expire, TypeOK
    <2> QED BY <1>23, <2>3, <2>4 DEF Expire, TypeOK
  <1>24. CASE NextFence
    BY <1>24, BoundsAssumption DEF NextFence, TypeOK, Token
  <1> QED
    BY <1>1, <1>2, <1>3, <1>4, <1>5, <1>6, <1>7, <1>8, <1>9, <1>10, <1>11, <1>12, <1>13,
       <1>14, <1>15, <1>16, <1>17, <1>18, <1>19, <1>20, <1>21, <1>22, <1>23, <1>24 DEF Next

-----------------------------------------------------------------------------
(***************************************************************************)
(* Results. A terminal attempt is never written again, so what a call has  *)
(* read of one, and what was answered from one, stays what is stored.      *)
(***************************************************************************)
Terminal(t) == attempts[t].status \in {"succeeded", "failed"}

LEMMA TerminalStays ==
    ASSUME IInv, Next, NEW t \in Token, Terminal(t)
    PROVE  attempts'[t] = attempts[t]
  <1> USE DEF IInv, Terminal
  <1>0. attempts \in [Token -> Attempt]
    BY DEF TypeOK
  <1>1. ASSUME NEW c \in Calls, Begin(c) PROVE attempts'[t] = attempts[t]
    BY <1>0, <1>1 DEF Begin, Put
  <1>2. ASSUME NEW c \in Calls, Reclaim(c) PROVE attempts'[t] = attempts[t]
    BY <1>0, <1>2 DEF Reclaim, Reclaimable, Put
  <1>3. ASSUME NEW c \in Calls, Checkpoint(c) \/ CheckpointFails(c)
        PROVE  attempts'[t] = attempts[t]
    BY <1>0, <1>3 DEF Checkpoint, CheckpointFails, Put
  <1>4. ASSUME NEW c \in Calls, Finish(c) PROVE attempts'[t] = attempts[t]
    BY <1>0, <1>4 DEF Finish, Put
  <1>5. ASSUME NEW u \in Token, Expire(u) PROVE attempts'[t] = attempts[t]
    BY <1>0, <1>5 DEF Expire, Put
  <1>6. CASE UNCHANGED attempts
    BY <1>6
  <1> QED
    BY <1>1, <1>2, <1>3, <1>4, <1>5, <1>6
       DEF Next, Receive, ReturnStored, Reject, Proceed, Prepare, PrepareSink, Reconcile,
           Cleanup, ReconcileSink, CleanupSink, ListBefore, Send, ProviderCreates,
           ProviderRefuses, NoAnswer, ReconcileAmbiguous, RevokeOrphan, ConnectorFails,
           StoreSecret, SinkUnavailable, SinkAdds, SinkRefuses, AddFails, Compensate,
           Abandon, NextFence

\* What a step does to one call: it stays, leaves, receives a request, or goes
\* on with the same token to a phase after reading, and with the same lease
\* unless it begins or reclaims an attempt.
LEMMA CallMoves ==
    ASSUME IInv, Next, NEW c \in Calls
    PROVE  \/ calls'[c] = calls[c]
           \/ calls'[c] = Idle
           \/ \E t \in Token :
                 calls'[c] = [Idle EXCEPT !.phase = "received", !.token = t,
                                          !.previous = attempts[t]]
           \/ /\ calls[c].phase # "idle"
              /\ calls'[c].token = calls[c].token
              /\ calls'[c].phase # "received"
              /\ calls'[c].lease = calls[c].lease \/ Begin(c) \/ Reclaim(c)
  <1>0. calls \in [Calls -> Call] /\ Idle \in Call
    BY TypesOfParts DEF IInv, TypeOK
  <1>1. ASSUME NEW d \in Calls, NEW t \in Token, Receive(d, t)
        PROVE  \/ calls'[c] = calls[c]
               \/ calls'[c] = [Idle EXCEPT !.phase = "received", !.token = t,
                                           !.previous = attempts[t]]
    BY <1>0, <1>1 DEF Receive
  <1> DEFINE Moves == \/ calls'[c] = calls[c]
                      \/ calls'[c] = Idle
                      \/ /\ calls[c].phase # "idle"
                         /\ calls'[c].token = calls[c].token
                         /\ calls'[c].phase # "received"
                         /\ calls'[c].lease = calls[c].lease \/ Begin(c) \/ Reclaim(c)
  <1>2. ASSUME NEW d \in Calls, NEW phase \in Phase \ {"received"}, Goto(d, phase),
               calls[d].phase # "idle"
        PROVE  Moves
    BY <1>0, <1>2 DEF Goto, Call
  <1>3. ASSUME NEW d \in Calls, Leave(d) PROVE Moves
    BY <1>0, <1>3 DEF Leave
  <1>4. ASSUME NEW d \in Calls, NEW phase \in Phase \ {"received"}, calls[d].phase # "idle",
               NEW x,
               \/ calls' = [calls EXCEPT ![d].phase = phase, ![d].key = x]
               \/ calls' = [calls EXCEPT ![d].phase = phase, ![d].before = x]
               \/ calls' = [calls EXCEPT ![d].phase = phase, ![d].versions = x]
        PROVE  Moves
    BY <1>0, <1>4 DEF Call
  <1>5. ASSUME NEW d \in Calls, Begin(d) \/ Reclaim(d) PROVE Moves
    <2>1. c = d \/ calls'[c] = calls[c]
      BY <1>0, <1>5 DEF Begin, Reclaim, Leave
    <2>2. \/ calls'[d] = Idle
          \/ /\ calls'[d].token = calls[d].token /\ calls'[d].phase \in {"create", "reconcile"}
             /\ calls[d].phase # "idle"
      BY <1>0, <1>5 DEF Begin, Reclaim, Leave, Call
    <2> QED BY <1>5, <2>1, <2>2
  <1>6. \A p \in {"prepare", "prepare_sink", "begin", "reclaim", "cleanup", "reconcile_sink",
                  "cleanup_sink", "create", "send", "creating", "timedout", "orphan",
                  "store", "storing", "compensate", "undo", "checkpoint", "finish",
                  "failing"} : p \in Phase \ {"received"}
    BY DEF Phase
  <1> HIDE DEF Moves
  <1>7. ASSUME NEW d \in Calls, UNCHANGED calls PROVE Moves
    BY <1>7 DEF Moves
  <1>8. ASSUME NEW d \in Calls, ReturnStored(d) \/ Reject(d) \/ Abandon(d) \/ RevokeOrphan(d)
                                  \/ Finish(d)
        PROVE  Moves
    BY <1>3, <1>8 DEF ReturnStored, Reject, Abandon, RevokeOrphan, Finish
  <1>9. ASSUME NEW d \in Calls, Proceed(d) PROVE Moves
    BY <1>2, <1>4, <1>6, <1>9 DEF Proceed
  <1>10. ASSUME NEW d \in Calls,
                \/ Prepare(d) \/ PrepareSink(d) \/ ListBefore(d)
                \/ Cleanup(d) \/ CleanupSink(d) \/ ConnectorFails(d)
         PROVE  Moves
    BY <1>4, <1>6, <1>10 DEF Prepare, PrepareSink, ListBefore, Cleanup, CleanupSink, ConnectorFails
  <1>11. ASSUME NEW d \in Calls, NEW found, NEW cleanup \in Phase \ {"received"},
                NEW next \in Phase \ {"received"}, calls[d].phase # "idle",
                Pick(d, found, cleanup, next)
         PROVE  Moves
    BY <1>2, <1>3, <1>4, <1>11 DEF Pick
  <1>12. ASSUME NEW d \in Calls, Reconcile(d) PROVE Moves
    BY <1>6, <1>11, <1>12 DEF Reconcile
  <1>13. ASSUME NEW d \in Calls, ReconcileSink(d) PROVE Moves
    BY <1>6, <1>11, <1>13 DEF ReconcileSink
  <1>14. ASSUME NEW d \in Calls, Send(d) \/ StoreSecret(d) \/ NoAnswer(d) \/ SinkUnavailable(d)
                                   \/ AddFails(d)
         PROVE  Moves
    BY <1>2, <1>6, <1>14 DEF Send, StoreSecret, NoAnswer, SinkUnavailable, AddFails
  <1>15. ASSUME NEW d \in Calls, ProviderRefuses(d) \/ SinkRefuses(d) \/ SinkAdds(d)
         PROVE  Moves
    BY <1>2, <1>6, <1>7, <1>15 DEF ProviderRefuses, SinkRefuses, SinkAdds
  <1>16. ASSUME NEW d \in Calls, ProviderCreates(d) PROVE Moves
    BY <1>4, <1>6, <1>7, <1>16 DEF ProviderCreates
  <1>17. ASSUME NEW d \in Calls, ReconcileAmbiguous(d) \/ Compensate(d) PROVE Moves
    BY <1>3, <1>4, <1>6, <1>17 DEF ReconcileAmbiguous, Compensate
  <1>18. ASSUME NEW d \in Calls, Checkpoint(d) \/ CheckpointFails(d) PROVE Moves
    BY <1>2, <1>4, <1>6, <1>18 DEF Checkpoint, CheckpointFails
  <1>19. ASSUME (\E t \in Token : Expire(t)) \/ NextFence PROVE Moves
    BY <1>19 DEF Expire, NextFence, Moves
  <1>20. Moves \/ \E d \in Calls, t \in Token : Receive(d, t)
    BY <1>5, <1>8, <1>9, <1>10, <1>12, <1>13, <1>14, <1>15, <1>16, <1>17, <1>18, <1>19 DEF Next
  <1> QED BY <1>1, <1>20 DEF Moves

\* A call that has read a terminal attempt holds the result that is stored.
LEMMA CallSoundStep ==
    ASSUME IInv, Next, NEW c \in Calls
    PROVE  CallSound(c)'
  <1> USE DEF IInv
  <1>1. CASE calls'[c] = calls[c]
    <2>1. CASE calls[c].phase = "received" /\ calls[c].previous.status \in {"succeeded", "failed"}
      <3>1. calls[c].token \in Token /\ Terminal(calls[c].token)
        BY <2>1 DEF CallSound, Terminal
      <3> QED BY <1>1, <3>1, TerminalStays DEF CallSound
    <2>2. CASE ~(calls[c].phase = "received" /\ calls[c].previous.status \in {"succeeded", "failed"})
      BY <1>1, <2>2 DEF CallSound
    <2> QED BY <2>1, <2>2
  <1>2. CASE calls'[c] = Idle
    BY <1>2 DEF CallSound, Idle
  <1>3. ASSUME NEW t \in Token,
               calls'[c] = [Idle EXCEPT !.phase = "received", !.token = t,
                                        !.previous = attempts[t]]
        PROVE  CallSound(c)'
    <2>1. /\ calls'[c].phase = "received" /\ calls'[c].token = t
          /\ calls'[c].previous = attempts[t]
      BY <1>3 DEF Idle
    <2>2. Terminal(t) => attempts'[t] = attempts[t]
      BY TerminalStays
    <2> QED BY <2>1, <2>2 DEF CallSound, Terminal
  <1>4. CASE calls[c].phase # "idle" /\ calls'[c].token = calls[c].token
               /\ calls'[c].phase # "received"
    BY <1>4 DEF CallSound
  <1> QED BY <1>1, <1>2, <1>3, <1>4, CallMoves

\* Every answer is the stored result of its request.
LEMMA OneAnswerStep ==
    ASSUME IInv, Next
    PROVE  OneAnswer'
  <1> USE DEF IInv
  <1>0. answers \in [Token -> SUBSET Result] /\ attempts \in [Token -> Attempt]
    BY DEF TypeOK
  <1>1. SUFFICES ASSUME NEW t \in Token, NEW result \in answers'[t]
                 PROVE  Terminal(t)' /\ attempts'[t].result = result
    BY DEF OneAnswer, Terminal
  <1>2. CASE result \in answers[t]
    <2>1. Terminal(t) /\ attempts[t].result = result
      BY <1>2 DEF OneAnswer, Terminal
    <2> QED BY <2>1, TerminalStays DEF Terminal
  <1>3. CASE result \notin answers[t]
    <2>1. ASSUME NEW c \in Calls, ReturnStored(c) PROVE Terminal(t)' /\ attempts'[t].result = result
      <3>1. t = calls[c].token /\ result = calls[c].previous.result
        BY <1>0, <1>3, <2>1 DEF ReturnStored
      <3>2. Terminal(t) /\ attempts[t].result = result
        BY <2>1, <3>1 DEF ReturnStored, CallSound, Terminal
      <3> QED BY <2>1, <3>2 DEF ReturnStored, Terminal
    <2>2. ASSUME NEW c \in Calls, Finish(c) PROVE Terminal(t)' /\ attempts'[t].result = result
      <3>1. t = calls[c].token /\ result = calls[c].key
            /\ Accepted(attempts[t], result)
        BY <1>0, <1>3, <2>2 DEF Finish
      <3>2. CASE attempts[t].status = "running"
        <4>1. attempts'[t] = Finished(attempts[t], result)
          BY <1>0, <2>2, <3>1, <3>2 DEF Finish, Put
        <4>2. attempts[t] \in Attempt
          BY <1>0
        <4>3. /\ attempts'[t].status = IF result = None THEN "failed" ELSE "succeeded"
              /\ attempts'[t].result = result
          BY <4>1, <4>2 DEF Finished, Attempt
        <4> QED BY <4>3 DEF Terminal
      <3>3. CASE attempts[t].status # "running"
        <4>1. attempts' = attempts
          BY <2>2, <3>1, <3>3 DEF Finish
        <4>2. attempts[t] \in Attempt
          BY <1>0
        <4> QED BY <3>1, <3>3, <4>1, <4>2 DEF Terminal, Accepted, Attempt
      <3> QED BY <3>2, <3>3
    <2>3. ASSUME NEW c \in Calls,
                 \/ Reject(c) \/ Proceed(c) \/ Prepare(c) \/ PrepareSink(c) \/ Begin(c)
                 \/ Reclaim(c) \/ Reconcile(c) \/ Cleanup(c) \/ ReconcileSink(c) \/ CleanupSink(c)
          PROVE  answers' = answers
      BY <2>3 DEF Reject, Proceed, Prepare, PrepareSink, Begin, Reclaim, Reconcile, Cleanup,
                  ReconcileSink, CleanupSink
    <2>4. ASSUME NEW c \in Calls,
                 \/ ListBefore(c) \/ Send(c) \/ ProviderCreates(c) \/ ProviderRefuses(c)
                 \/ NoAnswer(c) \/ ReconcileAmbiguous(c) \/ RevokeOrphan(c) \/ ConnectorFails(c)
          PROVE  answers' = answers
      BY <2>4 DEF ListBefore, Send, ProviderCreates, ProviderRefuses, NoAnswer,
                  ReconcileAmbiguous, RevokeOrphan, ConnectorFails
    <2>5. ASSUME NEW c \in Calls,
                 \/ StoreSecret(c) \/ SinkUnavailable(c) \/ SinkAdds(c) \/ SinkRefuses(c)
                 \/ AddFails(c) \/ Compensate(c) \/ Checkpoint(c) \/ CheckpointFails(c)
                 \/ Abandon(c)
          PROVE  answers' = answers
      BY <2>5 DEF StoreSecret, SinkUnavailable, SinkAdds, SinkRefuses, AddFails, Compensate,
                  Checkpoint, CheckpointFails, Abandon
    <2>6. ASSUME NEW u \in Token, (\E c \in Calls : Receive(c, u)) \/ Expire(u) \/ NextFence
          PROVE  answers' = answers
      BY <2>6 DEF Receive, Expire, NextFence
    <2>7. 1 \in Token
      BY BoundsAssumption DEF Token
    <2> QED
      BY <1>3, <2>1, <2>2, <2>3, <2>4, <2>5, <2>6, <2>7 DEF Next
  <1> QED BY <1>2, <1>3

-----------------------------------------------------------------------------
\* The inductive invariant.
LEMMA Invariance == Spec => []IInv
  <1>1. Init => IInv
    <2> SUFFICES ASSUME Init PROVE IInv
      OBVIOUS
    <2>1. [status |-> "none", version |-> "none", token |-> None] \in Credential
      BY DEF Credential
    <2>2. TypeOK
      <3>1. fence \in Token /\ mishaps \in Nat
        BY BoundsAssumption DEF Init, Token
      <3>4. overran \in BOOLEAN
        BY DEF Init
      <3>2. /\ attempts \in [Token -> Attempt]
            /\ calls \in [Calls -> Call]
            /\ wire \in [Calls -> Message]
        BY TypesOfParts DEF Init
      <3>3. keys \in [Key -> Credential] /\ answers \in [Token -> SUBSET Result]
        BY <2>1 DEF Init
      <3> QED BY <3>1, <3>2, <3>3, <3>4 DEF TypeOK
    <2>3. (\A c \in Calls : CallSound(c)) /\ OneAnswer
      BY DEF Init, CallSound, Idle, OneAnswer
    <2> QED BY <2>2, <2>3 DEF IInv
  <1>2. IInv /\ [Next]_vars => IInv'
    <2> SUFFICES ASSUME IInv, [Next]_vars PROVE IInv'
      OBVIOUS
    <2>1. CASE Next
      BY <2>1, TypeStep, CallSoundStep, OneAnswerStep DEF IInv
    <2>2. CASE UNCHANGED vars
      BY <2>2 DEF vars, IInv, TypeOK, CallSound, OneAnswer
    <2> QED BY <2>1, <2>2
  <1> QED BY <1>1, <1>2, PTL DEF Spec

\* Attempts, calls, messages and credentials keep their types, with every error,
\* lost answer and expired lease the broker meets.
THEOREM TypeCorrect == Spec => []TypeOK
  <1>1. IInv => TypeOK
    BY DEF IInv
  <1> QED BY <1>1, Invariance, PTL

\* Repeating a request, from any number of calls, never yields two answers.
THEOREM AnswersAgree == Spec => []OneAnswer
  <1>1. IInv => OneAnswer
    BY DEF IInv
  <1> QED BY <1>1, Invariance, PTL

\* A finished attempt is never written again, by no call however late.
THEOREM ResultIsForGood == Spec => ResultForGood
  <1>1. IInv /\ [Next]_vars
          => [\A t \in Token : attempts[t].status \in {"succeeded", "failed"}
                                 => attempts'[t] = attempts[t]]_vars
    <2> SUFFICES ASSUME IInv, Next, NEW t \in Token,
                        attempts[t].status \in {"succeeded", "failed"}
                 PROVE  attempts'[t] = attempts[t]
      OBVIOUS
    <2> QED BY TerminalStays DEF Terminal
  <1> QED BY <1>1, Invariance, PTL DEF Spec, ResultForGood

-----------------------------------------------------------------------------
(***************************************************************************)
(* Work on a request. What the calls have read and hold, and, as long as   *)
(* no lease or fencing token ended under one of them, what that excludes:  *)
(* the one call with a lease is the only one that may take a credential or *)
(* a version away, and what it takes away was never reported.              *)
(***************************************************************************)

\* The credential that the attempt of a request reports, or is about to.
Reported(t) ==
    IF attempts[t].status = "succeeded" THEN attempts[t].result ELSE attempts[t].checkpoint

ReportedIn(found) == \A u \in Token : Reported(u) # None => Reported(u) \in found

OthersReportedIn(t, found) ==
    \A u \in Token \ {t} : Reported(u) # None => Reported(u) \in found

Unreported(key) == \A u \in Token : Reported(u) # key

\* From b to a the same attempt was written any number of times.
LaterThan(b, a) ==
    /\ b.lease <= a.lease
    /\ b.status # "none"
         => a.status # "none" /\ a.before = b.before /\ a.versions = b.versions
    /\ b.status = "running" /\ b.checkpoint # None /\ a.status = "running"
         => a.checkpoint = b.checkpoint

\* One step writes it: a terminal attempt stays, an expired lease stays expired.
WrittenOnce(b, a) ==
    /\ LaterThan(b, a)
    /\ b.status \in {"succeeded", "failed"} => a = b
    /\ a.status = "none" => a = b
    /\ b.expired /\ a.lease = b.lease => a.expired

\* The phases with a lease, with no credential in hand, with one that is given up
\* unless it is stored.
Leased == Working \ {"finish"}

Empty == {"idle", "received", "prepare", "prepare_sink", "begin", "reclaim", "reconcile",
          "reconcile_sink", "create", "send", "creating", "timedout", "failing"}

Taking == {"cleanup", "cleanup_sink", "orphan", "store", "storing", "compensate", "undo"}

\* What a call knows of its request, whatever has ended meanwhile.
Knows(c) ==
    LET k == calls[c]
        a == attempts[k.token]
    IN
    /\ k.phase \notin Working => k.lease = 0
    /\ k.phase \in Leased => k.lease # 0
    /\ k.phase # "idle" => k.token <= fence
    /\ k.phase \in {"received", "reclaim"} => LaterThan(k.previous, a)
    /\ k.phase = "reclaim" => k.previous.status = "running"
    /\ k.phase = "reclaim" /\ k.previous.lease = a.lease => a.expired
    /\ k.phase \in Working => a.status # "none"
    /\ k.phase \in Empty => k.key = None
    /\ k.phase \in Taking \cup {"checkpoint", "finish"} => k.key # None
    /\ k.phase = "finish" /\ a.status = "running" => a.checkpoint = k.key
    /\ k.phase = "storing" => wire[c].op = "add" /\ wire[c].key = k.key

Untouched(t) ==
    /\ attempts[t].status = "none" => attempts[t] = NoAttempt
    /\ t > fence => attempts[t].status = "none"

\* What a call holds while no lease or fencing token ended under a call.
HoldsLease(c) ==
    LET k == calls[c] IN
    /\ k.phase \notin {"idle", "received"} => k.token = fence
    /\ k.lease # 0 => k.lease = attempts[k.token].lease /\ ~attempts[k.token].expired

SparesReported(c) ==
    LET k == calls[c] IN
    /\ k.phase \in {"prepare_sink", "begin"} => OthersReportedIn(k.token, k.before)
    /\ k.phase = "begin" => OthersReportedIn(k.token, k.versions)
    /\ k.phase \in {"reconcile", "send", "creating", "timedout"} => ReportedIn(k.before)
    /\ k.phase \in {"reconcile", "cleanup", "reconcile_sink"} => ReportedIn(k.versions)
    /\ k.phase \in Taking => Unreported(k.key)

HasUsable(c) ==
    LET k == calls[c] IN
    /\ k.phase \in {"store", "storing", "checkpoint"} => keys[k.key].status = "active"
    /\ k.phase = "checkpoint" => keys[k.key].version = "enabled"

OneLease == \A c, d \in Calls : calls[c].lease # 0 /\ calls[d].lease # 0 => c = d

BeginSawReported ==
    attempts[fence].status = "running" /\ attempts[fence].checkpoint = None
      => ReportedIn(attempts[fence].before) /\ ReportedIn(attempts[fence].versions)

ReportedUsable ==
    \A t \in Token : Reported(t) # None
        => keys[Reported(t)].status = "active" /\ keys[Reported(t)].version = "enabled"

InTime ==
    /\ \A c \in Calls : HoldsLease(c) /\ SparesReported(c) /\ HasUsable(c)
    /\ OneLease /\ BeginSawReported /\ ReportedUsable

KInv == (\A c \in Calls : Knows(c)) /\ (\A t \in Token : Untouched(t))

\* What every step preserves beside IInv.
WInv == KInv /\ (~overran => InTime)

-----------------------------------------------------------------------------
\* Who writes attempts.
LEMMA WhoWritesAttempts ==
    ASSUME Next
    PROVE  \/ UNCHANGED attempts
           \/ \E c \in Calls : Begin(c) \/ Reclaim(c) \/ Checkpoint(c) \/ CheckpointFails(c)
                                 \/ Finish(c)
           \/ \E t \in Token : Expire(t)
  <1>1. ASSUME NEW c \in Calls,
               \/ ReturnStored(c) \/ Reject(c) \/ Proceed(c) \/ Prepare(c) \/ PrepareSink(c)
               \/ Reconcile(c) \/ Cleanup(c) \/ ReconcileSink(c) \/ CleanupSink(c)
               \/ ListBefore(c) \/ Send(c) \/ ProviderCreates(c) \/ ProviderRefuses(c)
        PROVE  UNCHANGED attempts
    BY <1>1 DEF ReturnStored, Reject, Proceed, Prepare, PrepareSink, Reconcile, Cleanup,
                ReconcileSink, CleanupSink, ListBefore, Send, ProviderCreates, ProviderRefuses
  <1>2. ASSUME NEW c \in Calls,
               \/ NoAnswer(c) \/ ReconcileAmbiguous(c) \/ RevokeOrphan(c) \/ ConnectorFails(c)
               \/ StoreSecret(c) \/ SinkUnavailable(c) \/ SinkAdds(c) \/ SinkRefuses(c)
               \/ AddFails(c) \/ Compensate(c) \/ Abandon(c)
        PROVE  UNCHANGED attempts
    BY <1>2 DEF NoAnswer, ReconcileAmbiguous, RevokeOrphan, ConnectorFails, StoreSecret,
                SinkUnavailable, SinkAdds, SinkRefuses, AddFails, Compensate, Abandon
  <1>3. ASSUME NEW c \in Calls, NEW t \in Token, Receive(c, t) PROVE UNCHANGED attempts
    BY <1>3 DEF Receive
  <1>4. NextFence => UNCHANGED attempts
    BY DEF NextFence
  <1> QED BY <1>1, <1>2, <1>3, <1>4 DEF Next

\* One write of an attempt.
LEMMA AttemptWritten ==
    ASSUME IInv, KInv, Next, NEW t \in Token
    PROVE  WrittenOnce(attempts[t], attempts'[t])
  <1> DEFINE a == attempts[t]
  <1>0. attempts \in [Token -> Attempt] /\ a \in Attempt
    BY DEF IInv, TypeOK
  <1>1. ASSUME attempts'[t] = a PROVE WrittenOnce(a, attempts'[t])
    BY <1>0, <1>1 DEF WrittenOnce, LaterThan, Attempt
  <1>2. ASSUME NEW c \in Calls, Begin(c), attempts'[t] # a PROVE WrittenOnce(a, attempts'[t])
    <2>1. a.status = "none" /\ a = NoAttempt
      BY <1>0, <1>2 DEF Begin, Put, KInv, Untouched
    <2>2. a.lease = 0 /\ a.status = "none" /\ a.expired = FALSE
      BY <2>1 DEF NoAttempt
    <2>3. attempts'[t] = [NoAttempt EXCEPT !.status = "running", !.lease = 1,
                                           !.before = calls[c].before,
                                           !.versions = calls[c].versions]
      BY <1>0, <1>2 DEF Begin, Put
    <2>4. attempts'[t].lease = 1
      BY <2>3 DEF NoAttempt
    <2>5. attempts'[t].status = "running"
      BY <2>3 DEF NoAttempt
    <2> QED BY <2>2, <2>4, <2>5 DEF WrittenOnce, LaterThan
  <1>3. ASSUME NEW c \in Calls, Reclaim(c), attempts'[t] # a PROVE WrittenOnce(a, attempts'[t])
    <2>1. /\ a.status = "running"
          /\ attempts'[t] = [a EXCEPT !.lease = a.lease + 1, !.expired = FALSE]
      BY <1>0, <1>3 DEF Reclaim, Reclaimable, Put
    <2>2. /\ attempts'[t].lease = a.lease + 1 /\ attempts'[t].status = "running"
          /\ attempts'[t].before = a.before /\ attempts'[t].versions = a.versions
          /\ attempts'[t].checkpoint = a.checkpoint
      BY <1>0, <2>1 DEF Attempt
    <2>3. a.lease \in Nat
      BY <1>0 DEF Attempt
    <2> QED BY <2>1, <2>2, <2>3 DEF WrittenOnce, LaterThan
  <1>4. ASSUME NEW c \in Calls, Checkpoint(c) \/ CheckpointFails(c), attempts'[t] # a
        PROVE  WrittenOnce(a, attempts'[t])
    <2>1. /\ a.status = "running" /\ a.checkpoint \in {None, calls[c].key}
          /\ attempts'[t] = [a EXCEPT !.checkpoint = calls[c].key]
      BY <1>0, <1>4 DEF Checkpoint, CheckpointFails, Put
    <2>2. /\ attempts'[t].lease = a.lease /\ attempts'[t].status = "running"
          /\ attempts'[t].before = a.before /\ attempts'[t].versions = a.versions
          /\ attempts'[t].checkpoint = calls[c].key /\ attempts'[t].expired = a.expired
      BY <1>0, <2>1 DEF Attempt
    <2>3. a.lease \in Nat
      BY <1>0 DEF Attempt
    <2> QED BY <2>1, <2>2, <2>3 DEF WrittenOnce, LaterThan
  <1>5. ASSUME NEW c \in Calls, Finish(c), attempts'[t] # a PROVE WrittenOnce(a, attempts'[t])
    <2>1. a.status = "running" /\ attempts'[t] = Finished(a, calls[c].key)
      BY <1>0, <1>5 DEF Finish, Put
    <2>2. /\ attempts'[t].lease = a.lease /\ attempts'[t].status \in {"succeeded", "failed"}
          /\ attempts'[t].before = a.before /\ attempts'[t].versions = a.versions
          /\ attempts'[t].expired = a.expired
      BY <1>0, <2>1 DEF Attempt, Finished
    <2>3. a.lease \in Nat
      BY <1>0 DEF Attempt
    <2> QED BY <2>1, <2>2, <2>3 DEF WrittenOnce, LaterThan
  <1>6. ASSUME NEW u \in Token, Expire(u), attempts'[t] # a PROVE WrittenOnce(a, attempts'[t])
    <2>1. a.status = "running" /\ attempts'[t] = [a EXCEPT !.expired = TRUE]
      BY <1>0, <1>6 DEF Expire, Put
    <2>2. /\ attempts'[t].lease = a.lease /\ attempts'[t].status = "running"
          /\ attempts'[t].before = a.before /\ attempts'[t].versions = a.versions
          /\ attempts'[t].checkpoint = a.checkpoint /\ attempts'[t].expired = TRUE
      BY <1>0, <2>1 DEF Attempt
    <2>3. a.lease \in Nat
      BY <1>0 DEF Attempt
    <2> QED BY <2>1, <2>2, <2>3 DEF WrittenOnce, LaterThan
  <1> HIDE DEF a
  <1> QED BY <1>1, <1>2, <1>3, <1>4, <1>5, <1>6, WhoWritesAttempts DEF a

\* What was read of an attempt stays an earlier state of it.
LEMMA LaterStill ==
    ASSUME NEW p, NEW a \in Attempt, NEW b \in Attempt, p.lease \in Nat,
           LaterThan(p, a), WrittenOnce(a, b)
    PROVE  LaterThan(p, b)
  <1>1. p.lease <= b.lease
    BY DEF LaterThan, WrittenOnce, Attempt
  <1>2. p.status # "none" => b.status # "none" /\ b.before = p.before /\ b.versions = p.versions
    BY DEF LaterThan, WrittenOnce
  <1>3. p.status = "running" /\ p.checkpoint # None /\ b.status = "running"
          => b.checkpoint = p.checkpoint
    BY DEF LaterThan, WrittenOnce, Attempt
  <1> QED BY <1>1, <1>2, <1>3 DEF LaterThan

\* What one call does.
Step(c) ==
    \/ \E t \in Token : Receive(c, t)
    \/ ReturnStored(c) \/ Reject(c) \/ Proceed(c)
    \/ Prepare(c) \/ PrepareSink(c) \/ Begin(c) \/ Reclaim(c)
    \/ Reconcile(c) \/ Cleanup(c) \/ ReconcileSink(c) \/ CleanupSink(c)
    \/ ListBefore(c) \/ Send(c) \/ ProviderCreates(c) \/ ProviderRefuses(c)
    \/ NoAnswer(c) \/ ReconcileAmbiguous(c) \/ RevokeOrphan(c) \/ ConnectorFails(c)
    \/ StoreSecret(c) \/ SinkUnavailable(c) \/ SinkAdds(c) \/ SinkRefuses(c)
    \/ AddFails(c) \/ Compensate(c)
    \/ Checkpoint(c) \/ CheckpointFails(c) \/ Finish(c) \/ Abandon(c)

\* A step of one call touches no other call and no other message.
LEMMA OthersStay ==
    ASSUME IInv, NEW c \in Calls, Step(c), NEW d \in Calls, d # c
    PROVE  calls'[d] = calls[d] /\ wire'[d] = wire[d]
  <1>0. calls \in [Calls -> Call] /\ wire \in [Calls -> Message]
    BY DEF IInv, TypeOK
  <1>1. CASE \/ \E t \in Token : Receive(c, t)
             \/ ReturnStored(c) \/ Reject(c) \/ Proceed(c)
             \/ Prepare(c) \/ PrepareSink(c) \/ Begin(c) \/ Reclaim(c)
    BY <1>0, <1>1 DEF Receive, ReturnStored, Reject, Proceed, Prepare, PrepareSink, Begin,
                      Reclaim, Goto, Leave
  <1>2. CASE \/ Reconcile(c) \/ Cleanup(c) \/ ReconcileSink(c) \/ CleanupSink(c)
             \/ ListBefore(c) \/ Send(c)
    BY <1>0, <1>2 DEF Reconcile, Cleanup, ReconcileSink, CleanupSink, ListBefore, Send, Pick,
                      Goto, Leave
  <1>3. CASE \/ ProviderCreates(c) \/ ProviderRefuses(c) \/ SinkAdds(c) \/ SinkRefuses(c)
    BY <1>0, <1>3 DEF ProviderCreates, ProviderRefuses, SinkAdds, SinkRefuses, Goto
  <1>4. CASE \/ NoAnswer(c) \/ ReconcileAmbiguous(c) \/ RevokeOrphan(c) \/ ConnectorFails(c)
             \/ StoreSecret(c) \/ SinkUnavailable(c)
    BY <1>0, <1>4 DEF NoAnswer, ReconcileAmbiguous, RevokeOrphan, ConnectorFails, StoreSecret,
                      SinkUnavailable, Goto, Leave
  <1>5. CASE \/ AddFails(c) \/ Compensate(c)
             \/ Checkpoint(c) \/ CheckpointFails(c) \/ Finish(c) \/ Abandon(c)
    BY <1>0, <1>5 DEF AddFails, Compensate, Checkpoint, CheckpointFails, Finish, Abandon, Goto,
                      Leave
  <1> QED BY <1>1, <1>2, <1>3, <1>4, <1>5 DEF Step

\* Every step is one call's, a lease that ends, or the next fencing token.
LEMMA WhoSteps ==
    ASSUME Next
    PROVE  (\E c \in Calls : Step(c)) \/ (\E t \in Token : Expire(t)) \/ NextFence
  BY DEF Next, Step

\* What a call knows stays true as long as it does not act.
LEMMA KnowsStays ==
    ASSUME IInv, IInv', KInv, Next, NEW c \in Calls,
           calls'[c] = calls[c], wire'[c] = wire[c] \/ calls[c].phase # "storing",
           fence <= fence'
    PROVE  Knows(c)'
  <1> DEFINE k == calls[c]
             a == attempts[k.token]
             b == attempts'[k.token]
  <1>1. CASE k.phase = "idle"
    BY <1>1 DEF KInv, Knows, Working, Leased, Empty, Taking
  <1>2. CASE k.phase # "idle"
    <2>1. k.token \in Token /\ k \in Call
      BY <1>2 DEF IInv, TypeOK, CallSound
    <2>2. a \in Attempt /\ b \in Attempt /\ WrittenOnce(a, b)
      BY <2>1, AttemptWritten DEF IInv, TypeOK
    <2>3. k.previous.lease \in Nat
      BY <2>1 DEF Call, Attempt
    <2>4. Knows(c)
      BY DEF KInv
    <2>5. k.phase \in {"received", "reclaim"} => LaterThan(k.previous, b)
      BY <2>2, <2>3, <2>4, LaterStill DEF Knows
    <2>6. k.phase = "reclaim" /\ k.previous.lease = b.lease => b.expired
      BY <2>2, <2>3, <2>4 DEF Knows, LaterThan, WrittenOnce, Attempt
    <2>7. k.phase \in Working => b.status # "none"
      BY <2>2, <2>4 DEF Knows, LaterThan, WrittenOnce
    <2>8. k.phase = "finish" /\ b.status = "running" => b.checkpoint = k.key
      <3>1. CASE k.phase = "finish" /\ b.status = "running"
        <4>1. a.status \in {"running", "succeeded", "failed"}
          BY <2>2, <2>4, <3>1 DEF Knows, Working, Phase, Attempt
        <4>2. a.status = "running"
          BY <2>2, <3>1, <4>1 DEF WrittenOnce
        <4>3. a.checkpoint = k.key /\ k.key # None
          BY <2>4, <3>1, <4>2 DEF Knows
        <4> QED BY <2>2, <3>1, <4>2, <4>3 DEF WrittenOnce, LaterThan
      <3> QED BY <3>1
    <2>9. k.token <= fence'
      BY <1>2, <2>1, <2>4 DEF Knows, IInv, TypeOK, Token
    <2> QED BY <2>4, <2>5, <2>6, <2>7, <2>8, <2>9 DEF Knows
  <1> QED BY <1>1, <1>2

\* The sets of phases, by name.
LEMMA PhaseSets ==
    /\ Leased = {"reconcile", "cleanup", "reconcile_sink", "cleanup_sink", "create", "send",
                 "creating", "timedout", "orphan", "store", "storing", "compensate", "undo",
                 "checkpoint", "failing"}
    /\ Working = Leased \cup {"finish"}
  BY DEF Leased, Working, Phase

LEMMA KnowsIdle ==
    ASSUME NEW c \in Calls, calls'[c] = Idle
    PROVE  Knows(c)'
  BY DEF Knows, Idle, Leased, Working, Empty, Taking

\* What a call keeps when it goes on without reading or writing an attempt.
GoesOn(c, phase, key) ==
    /\ calls'[c].phase = phase /\ calls'[c].key = key
    /\ calls'[c].token = calls[c].token /\ calls'[c].lease = calls[c].lease
    /\ calls'[c].previous = calls[c].previous
    /\ UNCHANGED <<attempts, fence>>

LEMMA GotoGoesOn ==
    ASSUME IInv, NEW c \in Calls, NEW phase, Goto(c, phase), UNCHANGED <<attempts, fence>>
    PROVE  /\ GoesOn(c, phase, calls[c].key)
           /\ calls'[c].before = calls[c].before /\ calls'[c].versions = calls[c].versions
  <1>1. calls \in [Calls -> Call] /\ calls[c] \in Call
    BY DEF IInv, TypeOK
  <1>2. calls'[c] = [calls[c] EXCEPT !.phase = phase]
    BY <1>1 DEF Goto
  <1> QED BY <1>1, <1>2 DEF GoesOn, Call

LEMMA TakeGoesOn ==
    ASSUME IInv, NEW c \in Calls, NEW phase, NEW key,
           calls' = [calls EXCEPT ![c].phase = phase, ![c].key = key],
           UNCHANGED <<attempts, fence>>
    PROVE  /\ GoesOn(c, phase, key)
           /\ calls'[c].before = calls[c].before /\ calls'[c].versions = calls[c].versions
  <1>1. calls \in [Calls -> Call] /\ calls[c] \in Call
    BY DEF IInv, TypeOK
  <1>2. calls'[c] = [calls[c] EXCEPT !.phase = phase, !.key = key]
    BY <1>1
  <1> QED BY <1>1, <1>2 DEF GoesOn, Call

LEMMA ListGoesOn ==
    ASSUME IInv, NEW c \in Calls, NEW phase, NEW found,
           calls' = [calls EXCEPT ![c].phase = phase, ![c].before = found],
           UNCHANGED <<attempts, fence>>
    PROVE  /\ GoesOn(c, phase, calls[c].key)
           /\ calls'[c].before = found /\ calls'[c].versions = calls[c].versions
  <1>1. calls \in [Calls -> Call] /\ calls[c] \in Call
    BY DEF IInv, TypeOK
  <1>2. calls'[c] = [calls[c] EXCEPT !.phase = phase, !.before = found]
    BY <1>1
  <1> QED BY <1>1, <1>2 DEF GoesOn, Call

LEMMA ListSinkGoesOn ==
    ASSUME IInv, NEW c \in Calls, NEW phase, NEW found,
           calls' = [calls EXCEPT ![c].phase = phase, ![c].versions = found],
           UNCHANGED <<attempts, fence>>
    PROVE  /\ GoesOn(c, phase, calls[c].key)
           /\ calls'[c].before = calls[c].before /\ calls'[c].versions = found
  <1>1. calls \in [Calls -> Call] /\ calls[c] \in Call
    BY DEF IInv, TypeOK
  <1>2. calls'[c] = [calls[c] EXCEPT !.phase = phase, !.versions = found]
    BY <1>1
  <1> QED BY <1>1, <1>2 DEF GoesOn, Call

\* A call with a lease goes on to another phase under it.
LEMMA LeasedGoesOn ==
    ASSUME NEW c \in Calls, Knows(c), calls[c].phase \in Leased,
           NEW phase, NEW key, GoesOn(c, phase, key),
           \/ phase \in Empty \cap Leased /\ key = None
           \/ phase \in (Taking \ {"storing"}) \cup {"checkpoint"} /\ key # None
           \/ phase = "storing" /\ key # None /\ wire'[c].op = "add" /\ wire'[c].key = key
    PROVE  Knows(c)'
  <1>1. phase \in Leased /\ phase \in Working /\ phase \notin {"idle", "received", "reclaim", "finish"}
    BY PhaseSets DEF Empty, Taking
  <1>2. /\ calls[c].lease # 0 /\ calls[c].token <= fence
        /\ attempts[calls[c].token].status # "none"
    BY PhaseSets DEF Knows
  <1>3. phase \in Empty => key = None
    BY DEF Empty, Taking
  <1>4. phase \in Taking \cup {"checkpoint", "finish"} => key # None
    BY DEF Empty, Taking
  <1>5. phase = "storing" => wire'[c].op = "add" /\ wire'[c].key = key
    BY DEF Empty, Taking
  <1>6. /\ calls'[c].phase = phase /\ calls'[c].key = key
        /\ calls'[c].token = calls[c].token /\ calls'[c].lease = calls[c].lease
        /\ fence' = fence /\ attempts' = attempts
    BY DEF GoesOn
  <1> QED BY <1>1, <1>2, <1>3, <1>4, <1>5, <1>6 DEF Knows

\* What one call knows after its own step.
LEMMA KnowsStep ==
    ASSUME IInv, IInv', KInv, Next, NEW c \in Calls, Step(c)
    PROVE  Knows(c)'
  <1> DEFINE k == calls[c]
             t == k.token
  <1>0. /\ calls \in [Calls -> Call] /\ k \in Call /\ k.key \in Result
        /\ wire \in [Calls -> Message] /\ attempts \in [Token -> Attempt]
    BY DEF IInv, TypeOK, Call
  <1>k. Knows(c)
    BY DEF KInv
  <1>t. k.phase # "idle" => t \in Token /\ attempts[t] \in Attempt
    BY <1>0 DEF IInv, CallSound
  <1>i. Leave(c) => Knows(c)'
    BY <1>0, KnowsIdle DEF Leave
  <1>c. \A p \in {"create", "reconcile_sink", "failing", "send", "creating", "timedout", "reconcile"} :
           p \in Empty \cap Leased
    BY PhaseSets DEF Empty
  <1>e. \A p \in {"cleanup", "cleanup_sink", "orphan", "store", "compensate", "undo"} :
           p \in Taking \ {"storing"}
    BY DEF Taking
  <1>f. k.phase \in Empty => k.key = None
    BY <1>k DEF Knows
  <1>g. k.phase \in Taking \cup {"checkpoint"} => k.key # None
    BY <1>k DEF Knows
  <1>h. k.phase \in Taking \cup {"checkpoint"} => k.phase \in Leased
    BY PhaseSets DEF Taking
  <1>1. ASSUME NEW u \in Token, Receive(c, u) PROVE Knows(c)'
    <2>1. /\ calls'[c].phase = "received" /\ calls'[c].token = u
          /\ calls'[c].previous = attempts[u] /\ calls'[c].lease = 0 /\ calls'[c].key = None
      BY <1>0, <1>1 DEF Receive, Idle
    <2>2. u <= fence /\ UNCHANGED <<attempts, fence>>
      BY <1>1 DEF Receive
    <2>3. LaterThan(attempts[u], attempts[u])
      BY <1>0 DEF LaterThan, Attempt
    <2> QED BY <2>1, <2>2, <2>3, PhaseSets DEF Knows, Empty, Taking
  <1>2. CASE ReturnStored(c) \/ Reject(c) \/ RevokeOrphan(c) \/ Finish(c) \/ Abandon(c)
    BY <1>2, <1>i DEF ReturnStored, Reject, RevokeOrphan, Finish, Abandon
  <1>3. CASE Proceed(c)
    <2>1. /\ k.phase = "received" /\ UNCHANGED <<attempts, fence>>
          /\ k.lease = 0 /\ t <= fence /\ LaterThan(k.previous, attempts[t]) /\ k.key = None
      BY <1>3, <1>k, <1>f, PhaseSets DEF Proceed, Knows, Empty
    <2>2. CASE Goto(c, "prepare")
      <3>1. GoesOn(c, "prepare", k.key)
        BY <2>1, <2>2, GotoGoesOn
      <3> QED BY <2>1, <3>1, PhaseSets DEF Knows, GoesOn, Empty, Taking
    <2>3. CASE /\ k.previous.status = "running" /\ k.previous.checkpoint # None
               /\ calls' = [calls EXCEPT ![c].phase = "finish", ![c].key = k.previous.checkpoint]
      <3>1. GoesOn(c, "finish", k.previous.checkpoint)
        BY <2>1, <2>3, TakeGoesOn
      <3>2. /\ attempts[t].status # "none"
            /\ attempts[t].status = "running" => attempts[t].checkpoint = k.previous.checkpoint
        BY <2>1, <2>3 DEF LaterThan
      <3> QED BY <2>1, <2>3, <3>1, <3>2, PhaseSets DEF Knows, GoesOn, Empty, Taking
    <2>4. CASE /\ k.previous.status = "running"
               /\ LeaseOver(t, k.previous.lease) /\ Goto(c, "reclaim")
      <3>1. GoesOn(c, "reclaim", k.key)
        BY <2>1, <2>4, GotoGoesOn
      <3> QED BY <2>1, <2>4, <3>1, PhaseSets DEF Knows, GoesOn, Empty, Taking, LeaseOver
    <2> QED BY <1>3, <2>2, <2>3, <2>4 DEF Proceed
  <1>4. CASE Prepare(c) \/ PrepareSink(c)
    <2>1. /\ k.phase \in {"prepare", "prepare_sink"} /\ UNCHANGED <<attempts, fence>>
      BY <1>4 DEF Prepare, PrepareSink
    <2>2. PICK phase \in {"prepare_sink", "begin"} : GoesOn(c, phase, k.key)
      BY <1>4, <2>1, ListGoesOn, ListSinkGoesOn DEF Prepare, PrepareSink
    <2>3. k.lease = 0 /\ t <= fence /\ k.key = None
      BY <1>k, <1>f, <2>1, PhaseSets DEF Knows, Empty
    <2> QED BY <2>1, <2>2, <2>3, PhaseSets DEF Knows, GoesOn, Empty, Taking
  <1>5. CASE Begin(c)
    <2>1. CASE Leave(c)
      BY <2>1, <1>i
    <2>2. CASE attempts[t].status = "none"
      <3>1. /\ calls'[c].phase = "create" /\ calls'[c].lease = 1
            /\ calls'[c].token = t /\ calls'[c].key = k.key /\ fence' = fence
            /\ t <= fence
        BY <1>0, <1>5, <1>k, <2>2 DEF Begin, Call, Knows
      <3>2. k.key = None
        BY <1>5, <1>f DEF Begin, Empty
      <3>3. attempts'[t].status = "running"
        <4>1. attempts'[t] = [NoAttempt EXCEPT !.status = "running", !.lease = 1,
                                               !.before = k.before, !.versions = k.versions]
          BY <1>0, <1>5, <1>t, <2>2 DEF Begin, Put
        <4> QED BY <4>1 DEF NoAttempt
      <3> QED BY <3>1, <3>2, <3>3, PhaseSets DEF Knows, Empty, Taking
    <2> QED BY <1>5, <2>1, <2>2 DEF Begin
  <1>6. CASE Reclaim(c)
    <2>1. CASE Leave(c)
      BY <2>1, <1>i
    <2>2. CASE Reclaimable(t, k.previous.lease)
      <3>1. k.key = None /\ t <= fence /\ t \in Token /\ fence' = fence
        BY <1>6, <1>f, <1>k, <1>t DEF Reclaim, Empty, Knows
      <3>2. /\ calls'[c].phase = "reconcile" /\ calls'[c].lease = attempts[t].lease + 1
            /\ calls'[c].token = t /\ calls'[c].key = k.key
        BY <1>0, <1>6, <2>2 DEF Reclaim, Call
      <3>3. attempts'[t].status = "running"
        <4>1. attempts'[t] = [attempts[t] EXCEPT !.lease = attempts[t].lease + 1,
                                                 !.expired = FALSE]
          BY <1>0, <1>6, <2>2, <3>1 DEF Reclaim, Put
        <4> QED BY <3>1, <4>1, <1>0, <2>2 DEF Attempt, Reclaimable
      <3>4. attempts[t].lease + 1 # 0
        BY <1>0, <3>1 DEF Attempt
      <3> QED BY <3>1, <3>2, <3>3, <3>4, PhaseSets DEF Knows, Empty, Taking
    <2> QED BY <1>6, <2>1, <2>2 DEF Reclaim
  <1>p. ASSUME NEW found \in SUBSET Key, NEW cleanup \in Taking \ {"storing"},
               NEW next \in Empty \cap Leased, Pick(c, found, cleanup, next),
               k.phase \in Empty \cap Leased, UNCHANGED <<attempts, fence>>
        PROVE  Knows(c)'
    <2>1. CASE Leave(c)
      BY <2>1, <1>i
    <2>2. CASE Goto(c, next)
      BY <1>p, <2>2, <1>k, <1>f, GotoGoesOn, LeasedGoesOn
    <2>3. CASE /\ Cardinality(found) = 1
               /\ calls' = [calls EXCEPT ![c].phase = cleanup,
                                         ![c].key = CHOOSE x \in found : TRUE]
      <3> DEFINE x == CHOOSE x \in found : TRUE
      <3>1. x \in Key /\ x # None
        BY <2>3, FS_EmptySet DEF Key, None
      <3> HIDE DEF x
      <3>2. GoesOn(c, cleanup, x)
        BY <1>p, <2>3, TakeGoesOn DEF x
      <3> QED BY <1>p, <1>k, <3>1, <3>2, LeasedGoesOn
    <2> QED BY <1>p, <2>1, <2>2, <2>3 DEF Pick
  <1>7. CASE Reconcile(c)
    BY <1>7, <1>p, <1>c, <1>e DEF Reconcile, Listed
  <1>8. CASE ReconcileSink(c)
    BY <1>8, <1>p, <1>c, <1>e DEF ReconcileSink, Enabled
  <1>9. CASE Cleanup(c)
    <2>1. GoesOn(c, "reconcile_sink", None) /\ k.phase \in Leased
      BY <1>9, TakeGoesOn, PhaseSets DEF Cleanup
    <2> QED BY <2>1, <1>c, <1>k, LeasedGoesOn
  <1>10. CASE CleanupSink(c)
    <2>1. GoesOn(c, "create", None) /\ k.phase \in Leased
      BY <1>10, TakeGoesOn, PhaseSets DEF CleanupSink
    <2> QED BY <2>1, <1>c, <1>k, LeasedGoesOn
  <1>11. CASE ListBefore(c)
    <2>1. GoesOn(c, "send", k.key) /\ k.phase \in Empty \cap Leased
      BY <1>11, <1>c, ListGoesOn DEF ListBefore
    <2> QED BY <2>1, <1>c, <1>f, <1>k, LeasedGoesOn
  <1>12. CASE Send(c)
    <2>1. GoesOn(c, "creating", k.key) /\ k.phase \in Empty \cap Leased
      BY <1>12, <1>c, GotoGoesOn DEF Send
    <2> QED BY <2>1, <1>c, <1>f, <1>k, LeasedGoesOn
  <1>w. ASSUME calls'[c] = k, k.phase # "storing", fence' = fence PROVE Knows(c)'
    BY <1>w, KnowsStays DEF IInv, TypeOK, Token
  <1>13. CASE ProviderCreates(c)
    <2>1. CASE k.phase = "creating"
      <3>1. PICK x \in Key : calls' = [calls EXCEPT ![c].phase = "store", ![c].key = x]
        BY <1>13, <2>1 DEF ProviderCreates
      <3>2. GoesOn(c, "store", x) /\ x # None
        <4>1. x # None
          BY DEF Key, None
        <4>2. UNCHANGED <<attempts, fence>>
          BY <1>13 DEF ProviderCreates
        <4> QED BY <3>1, <4>1, <4>2, TakeGoesOn
      <3> QED BY <2>1, <3>2, <1>e, <1>k, LeasedGoesOn, PhaseSets
    <2>2. CASE k.phase # "creating"
      <3>1. calls' = calls /\ fence' = fence /\ wire[c].op = "create"
        BY <1>13, <2>2 DEF ProviderCreates
      <3>2. k.phase # "storing"
        BY <3>1, <1>k DEF Knows
      <3> QED BY <3>1, <3>2, <1>w
    <2> QED BY <2>1, <2>2
  <1>14. CASE ProviderRefuses(c)
    <2>1. CASE k.phase = "creating"
      <3>1. GoesOn(c, "failing", k.key) /\ k.phase \in Empty \cap Leased
        BY <1>14, <2>1, <1>c, GotoGoesOn DEF ProviderRefuses
      <3> QED BY <3>1, <1>c, <1>f, <1>k, LeasedGoesOn
    <2>2. CASE k.phase # "creating"
      <3>1. calls' = calls /\ fence' = fence /\ wire[c].op = "create"
        BY <1>14, <2>2 DEF ProviderRefuses
      <3>2. k.phase # "storing"
        BY <3>1, <1>k DEF Knows
      <3> QED BY <3>1, <3>2, <1>w
    <2> QED BY <2>1, <2>2
  <1>15. CASE NoAnswer(c)
    <2>1. PICK phase \in {"timedout", "failing"} : GoesOn(c, phase, k.key)
      BY <1>15, GotoGoesOn DEF NoAnswer
    <2>2. k.phase \in Empty \cap Leased
      BY <1>15, <1>c DEF NoAnswer
    <2> QED BY <2>1, <2>2, <1>c, <1>f, <1>k, LeasedGoesOn
  <1>16. CASE ReconcileAmbiguous(c)
    <2>1. CASE Leave(c)
      BY <2>1, <1>i
    <2>2. CASE ~Leave(c)
      <3> DEFINE found == Listed \ k.before
                 x == CHOOSE x \in found : TRUE
      <3>1. /\ Cardinality(found) = 1 /\ k.phase = "timedout"
            /\ calls' = [calls EXCEPT ![c].phase = "orphan", ![c].key = x]
            /\ UNCHANGED <<attempts, fence>>
        BY <1>16, <2>2 DEF ReconcileAmbiguous
      <3>2. x \in Key /\ x # None
        BY <3>1, FS_EmptySet DEF Listed, Key, None
      <3> HIDE DEF x
      <3>3. GoesOn(c, "orphan", x)
        BY <3>1, TakeGoesOn
      <3> QED BY <3>1, <3>2, <3>3, <1>e, <1>k, LeasedGoesOn, PhaseSets
    <2> QED BY <2>1, <2>2
  <1>17. CASE ConnectorFails(c)
    <2>1. GoesOn(c, "failing", None) /\ k.phase \in Leased
      BY <1>17, TakeGoesOn, PhaseSets DEF ConnectorFails
    <2> QED BY <2>1, <1>c, <1>k, LeasedGoesOn
  <1>18. CASE StoreSecret(c)
    <2>1. GoesOn(c, "storing", k.key) /\ k.phase = "store"
      BY <1>18, GotoGoesOn DEF StoreSecret
    <2>2. wire'[c] = [op |-> "add", token |-> t, key |-> k.key]
      BY <1>0, <1>18 DEF StoreSecret
    <2> QED BY <2>1, <2>2, <1>e, <1>g, <1>k, LeasedGoesOn, PhaseSets
  <1>19. CASE SinkUnavailable(c)
    <2>1. GoesOn(c, "undo", k.key) /\ k.phase = "store"
      BY <1>19, GotoGoesOn DEF SinkUnavailable
    <2> QED BY <2>1, <1>e, <1>g, <1>k, LeasedGoesOn, PhaseSets
  <1>20. CASE SinkAdds(c) \/ SinkRefuses(c) \/ AddFails(c)
    <2>1. CASE k.phase = "storing"
      <3>1. PICK phase \in {"checkpoint", "compensate"} : GoesOn(c, phase, k.key)
        BY <1>20, <2>1, GotoGoesOn DEF SinkAdds, SinkRefuses, AddFails
      <3>2. k.key # None /\ k.phase \in Leased
        BY <2>1, <1>g, PhaseSets DEF Taking
      <3> QED BY <3>1, <3>2, <1>e, <1>k, LeasedGoesOn
    <2>2. CASE k.phase # "storing"
      <3>1. calls' = calls /\ fence' = fence
        BY <1>20, <2>2 DEF SinkAdds, SinkRefuses, AddFails
      <3> QED BY <3>1, <2>2, <1>w
    <2> QED BY <2>1, <2>2
  <1>21. CASE Compensate(c)
    <2>1. CASE Leave(c)
      BY <2>1, <1>i
    <2>2. CASE ~Leave(c)
      <3>1. GoesOn(c, "failing", None) /\ k.phase \in Leased
        BY <1>21, <2>2, TakeGoesOn, PhaseSets DEF Compensate
      <3> QED BY <3>1, <1>c, <1>k, LeasedGoesOn
    <2> QED BY <2>1, <2>2
  <1>22. CASE Checkpoint(c) \/ CheckpointFails(c)
    <2>1. /\ k.phase = "checkpoint" /\ k.key # None /\ k.lease # 0 /\ t \in Token
          /\ t <= fence /\ fence' = fence
      BY <1>22, <1>k, <1>g, <1>t, PhaseSets DEF Checkpoint, CheckpointFails, Knows
    <2>2. attempts'[t].status # "none" /\ attempts[t].status # "none"
      BY <2>1, <1>k, PhaseSets, AttemptWritten DEF Knows, WrittenOnce, LaterThan
    <2>3. calls'[c].token = t /\ calls'[c].lease = k.lease
      BY <1>0, <1>22 DEF Checkpoint, CheckpointFails, Goto, Call
    <2>4. CASE calls'[c].phase = "failing" /\ calls'[c].key = None
      BY <2>1, <2>2, <2>3, <2>4, PhaseSets DEF Knows, Empty, Taking
    <2>5. CASE Checkpoint(c) /\ Goto(c, "finish")
      <3>1. calls'[c].phase = "finish" /\ calls'[c].key = k.key
        BY <1>0, <2>5 DEF Goto, Call
      <3>2. attempts'[t].status = "running" => attempts'[t].checkpoint = k.key
        <4>1. CASE Put(t, [attempts[t] EXCEPT !.checkpoint = k.key])
          BY <1>0, <1>t, <2>1, <4>1 DEF Put, Attempt
        <4>2. CASE UNCHANGED attempts /\ attempts[t].status # "running"
          BY <4>2
        <4>3. CASE calls' = [calls EXCEPT ![c].phase = "failing", ![c].key = None]
          BY <1>0, <3>1, <4>3 DEF Call
        <4> QED BY <2>5, <4>1, <4>2, <4>3 DEF Checkpoint
      <3> QED BY <2>1, <2>2, <2>3, <3>1, <3>2, PhaseSets DEF Knows, Empty, Taking
    <2>6. CASE calls' = [calls EXCEPT ![c].phase = "failing", ![c].key = None]
      <3>1. calls'[c] = [k EXCEPT !.phase = "failing", !.key = None]
        BY <1>0, <2>6
      <3>2. calls'[c].phase = "failing" /\ calls'[c].key = None
        BY <1>0, <3>1 DEF Call
      <3> QED BY <2>4, <3>2
    <2> QED BY <1>22, <2>5, <2>6 DEF Checkpoint, CheckpointFails
  <1> HIDE DEF k, t
  <1> QED
    BY <1>1, <1>2, <1>3, <1>4, <1>5, <1>6, <1>7, <1>8, <1>9, <1>10, <1>11, <1>12, <1>13, <1>14,
       <1>15, <1>16, <1>17, <1>18, <1>19, <1>20, <1>21, <1>22 DEF Step

\* The fencing token moves with NextFence alone, and overran is set only there
\* and when a lease ends.
LEMMA WhoMovesFence ==
    ASSUME Next
    PROVE  \/ UNCHANGED <<fence, overran>>
           \/ (\E t \in Token : Expire(t)) /\ UNCHANGED fence
           \/ NextFence
  <1>1. ASSUME NEW c \in Calls, NEW t \in Token, Receive(c, t)
        PROVE  UNCHANGED <<fence, overran>>
    BY <1>1 DEF Receive
  <1>2. ASSUME NEW c \in Calls,
               \/ ReturnStored(c) \/ Reject(c) \/ Proceed(c) \/ Prepare(c) \/ PrepareSink(c)
               \/ Begin(c) \/ Reclaim(c) \/ Reconcile(c) \/ Cleanup(c) \/ ReconcileSink(c)
        PROVE  UNCHANGED <<fence, overran>>
    BY <1>2 DEF ReturnStored, Reject, Proceed, Prepare, PrepareSink, Begin, Reclaim, Reconcile,
                Cleanup, ReconcileSink
  <1>3. ASSUME NEW c \in Calls,
               \/ CleanupSink(c) \/ ListBefore(c) \/ Send(c) \/ ProviderCreates(c)
               \/ ProviderRefuses(c) \/ NoAnswer(c) \/ ReconcileAmbiguous(c) \/ RevokeOrphan(c)
               \/ ConnectorFails(c) \/ StoreSecret(c)
        PROVE  UNCHANGED <<fence, overran>>
    BY <1>3 DEF CleanupSink, ListBefore, Send, ProviderCreates, ProviderRefuses, NoAnswer,
                ReconcileAmbiguous, RevokeOrphan, ConnectorFails, StoreSecret
  <1>4. ASSUME NEW c \in Calls,
               \/ SinkUnavailable(c) \/ SinkAdds(c) \/ SinkRefuses(c) \/ AddFails(c)
               \/ Compensate(c) \/ Checkpoint(c) \/ CheckpointFails(c) \/ Finish(c)
               \/ Abandon(c)
        PROVE  UNCHANGED <<fence, overran>>
    BY <1>4 DEF SinkUnavailable, SinkAdds, SinkRefuses, AddFails, Compensate, Checkpoint,
                CheckpointFails, Finish, Abandon
  <1>5. ASSUME NEW t \in Token, Expire(t) PROVE UNCHANGED fence
    BY <1>5 DEF Expire
  <1> QED BY <1>1, <1>2, <1>3, <1>4, <1>5 DEF Next

\* Requests are begun in the order of their tokens.
LEMMA UntouchedStep ==
    ASSUME IInv, IInv', KInv, Next, NEW t \in Token
    PROVE  Untouched(t)'
  <1>1. Untouched(t) /\ WrittenOnce(attempts[t], attempts'[t])
    BY AttemptWritten DEF KInv
  <1>2. attempts'[t].status = "none" => attempts'[t] = NoAttempt
    BY <1>1 DEF Untouched, WrittenOnce
  <1>3. fence <= fence'
    BY WhoMovesFence DEF IInv, TypeOK, Token, NextFence
  <1>4. ASSUME t > fence' PROVE attempts'[t].status = "none"
    <2>1. t > fence /\ attempts[t].status = "none"
      BY <1>1, <1>3, <1>4 DEF IInv, TypeOK, Token, Untouched
    <2>0. attempts \in [Token -> Attempt]
      BY DEF IInv, TypeOK
    <2>2. ASSUME NEW c \in Calls, Begin(c) PROVE attempts'[t] = attempts[t]
      <3>1. calls[c].token # t
        BY <2>1, <2>2, BoundsAssumption
           DEF Begin, KInv, Knows, IInv, TypeOK, CallSound, Token
      <3> QED BY <2>0, <2>2, <3>1 DEF Begin, Put
    <2>3. ASSUME NEW c \in Calls, Reclaim(c) \/ Checkpoint(c) \/ CheckpointFails(c) \/ Finish(c)
          PROVE  attempts'[t] = attempts[t]
      BY <2>0, <2>1, <2>3 DEF Reclaim, Reclaimable, Checkpoint, CheckpointFails, Finish, Put
    <2>4. ASSUME NEW u \in Token, Expire(u) PROVE attempts'[t] = attempts[t]
      BY <2>0, <2>1, <2>4 DEF Expire, Put
    <2> QED BY <2>1, <2>2, <2>3, <2>4, WhoWritesAttempts
  <1> QED BY <1>2, <1>4 DEF Untouched

LEMMA KInvStep ==
    ASSUME IInv, IInv', KInv, Next
    PROVE  KInv'
  <1>1. ASSUME NEW c \in Calls PROVE Knows(c)'
    <2>1. CASE Step(c)
      BY <2>1, KnowsStep
    <2>2. ASSUME NEW d \in Calls, Step(d), d # c PROVE Knows(c)'
      <3>1. calls'[c] = calls[c] /\ wire'[c] = wire[c]
        BY <2>2, OthersStay
      <3>2. fence <= fence'
        BY WhoMovesFence DEF IInv, TypeOK, Token, NextFence
      <3> QED BY <3>1, <3>2, KnowsStays
    <2>3. CASE (\E t \in Token : Expire(t)) \/ NextFence
      <3>1. UNCHANGED <<calls, wire>>
        BY <2>3 DEF Expire, NextFence
      <3>2. fence <= fence'
        BY WhoMovesFence DEF IInv, TypeOK, Token, NextFence
      <3> QED BY <3>1, <3>2, KnowsStays
    <2> QED BY <2>1, <2>2, <2>3, WhoSteps
  <1> QED BY <1>1, UntouchedStep DEF KInv

-----------------------------------------------------------------------------
(***************************************************************************)
(* Leases. While none ended under a call at work, the call with a lease    *)
(* has the present one and there is no second.                             *)
(***************************************************************************)

LEMMA LeaseFacts ==
    ASSUME IInv, KInv, InTime, NEW c \in Calls, calls[c].lease # 0
    PROVE  /\ calls[c].token = fence /\ fence \in Token
           /\ attempts[fence].status # "none"
           /\ attempts[fence].lease = calls[c].lease
           /\ ~attempts[fence].expired
           /\ Works(c, fence)
           /\ calls[c].phase \in Working
  <1>1. calls[c].phase \in Working
    BY DEF KInv, Knows, IInv, TypeOK, Call
  <1>2. calls[c].phase \notin {"idle", "received"}
    BY <1>1, PhaseSets
  <1>3. HoldsLease(c) /\ Knows(c) /\ fence \in Token
    BY DEF InTime, KInv, IInv, TypeOK
  <1> QED BY <1>1, <1>2, <1>3 DEF HoldsLease, Knows, Works

\* A lease is given only when there is none.
LEMMA NewLease ==
    ASSUME IInv, KInv, InTime, NEW c \in Calls, Begin(c) \/ Reclaim(c), calls'[c].lease # 0,
           NEW d \in Calls
    PROVE  calls[d].lease = 0
  <1>0. calls \in [Calls -> Call]
    BY DEF IInv, TypeOK
  <1>1. calls[c].phase \in {"begin", "reclaim"} /\ calls[c].token = fence
    BY DEF Begin, Reclaim, InTime, HoldsLease
  <1>2. \/ attempts[fence].status = "none"
        \/ Reclaim(c) /\ Reclaimable(fence, calls[c].previous.lease)
    BY <1>0, <1>1 DEF Begin, Reclaim, Leave, Idle
  <1>3. Reclaim(c) /\ Reclaimable(fence, calls[c].previous.lease) => attempts[fence].expired
    BY <1>1 DEF Reclaim, Reclaimable, KInv, Knows
  <1> QED BY <1>2, <1>3, LeaseFacts

\* How the lease of an attempt changes.
LEMMA LeaseWritten ==
    ASSUME IInv, Next, NEW t \in Token
    PROVE  \/ attempts'[t].lease = attempts[t].lease
                /\ attempts'[t].expired = attempts[t].expired
           \/ \E c \in Calls :
                 /\ Begin(c) \/ Reclaim(c)
                 /\ calls[c].token = t
                 /\ calls'[c].lease # 0
                 /\ attempts'[t].lease = calls'[c].lease /\ ~attempts'[t].expired
           \/ Expire(t)
  <1>0. attempts \in [Token -> Attempt] /\ attempts[t] \in Attempt /\ calls \in [Calls -> Call]
    BY DEF IInv, TypeOK
  <1>1. ASSUME NEW c \in Calls, Begin(c), attempts'[t] # attempts[t]
        PROVE  /\ calls[c].token = t /\ calls'[c].lease # 0
               /\ attempts'[t].lease = calls'[c].lease /\ ~attempts'[t].expired
    <2>1. /\ calls[c].token = t
          /\ attempts'[t] = [NoAttempt EXCEPT !.status = "running", !.lease = 1,
                                              !.before = calls[c].before,
                                              !.versions = calls[c].versions]
          /\ calls' = [calls EXCEPT ![c].phase = "create", ![c].lease = 1]
      BY <1>0, <1>1 DEF Begin, Put
    <2>2. attempts'[t].lease = 1 /\ ~attempts'[t].expired
      BY <2>1 DEF NoAttempt
    <2>3. calls'[c].lease = 1
      BY <1>0, <2>1 DEF Call
    <2> QED BY <2>1, <2>2, <2>3
  <1>2. ASSUME NEW c \in Calls, Reclaim(c), attempts'[t] # attempts[t]
        PROVE  /\ calls[c].token = t /\ calls'[c].lease # 0
               /\ attempts'[t].lease = calls'[c].lease /\ ~attempts'[t].expired
    <2>0. Put(calls[c].token, [attempts[calls[c].token] EXCEPT
                                 !.lease = attempts[calls[c].token].lease + 1, !.expired = FALSE])
      BY <1>2 DEF Reclaim
    <2>1. /\ calls[c].token = t
          /\ attempts'[t] = [attempts[t] EXCEPT !.lease = attempts[t].lease + 1,
                                                !.expired = FALSE]
      BY <1>0, <1>2, <2>0 DEF Put
    <2>2. calls'[c].lease = attempts[t].lease + 1
      BY <1>0, <1>2, <2>1 DEF Reclaim, Call
    <2>3. attempts'[t].lease = attempts[t].lease + 1 /\ ~attempts'[t].expired
      BY <1>0, <2>1 DEF Attempt
    <2>4. attempts[t].lease + 1 # 0
      BY <1>0 DEF Attempt
    <2> QED BY <2>1, <2>2, <2>3, <2>4
  <1>3. ASSUME NEW c \in Calls, Checkpoint(c) \/ CheckpointFails(c)
        PROVE  attempts'[t].lease = attempts[t].lease
                 /\ attempts'[t].expired = attempts[t].expired
    <2>1. \/ attempts'[t] = attempts[t]
          \/ attempts'[t] = [attempts[t] EXCEPT !.checkpoint = calls[c].key]
      BY <1>0, <1>3 DEF Checkpoint, CheckpointFails, Put
    <2> QED BY <1>0, <2>1 DEF Attempt
  <1>4. ASSUME NEW c \in Calls, Finish(c)
        PROVE  attempts'[t].lease = attempts[t].lease
                 /\ attempts'[t].expired = attempts[t].expired
    <2>1. attempts'[t] = attempts[t] \/ attempts'[t] = Finished(attempts[t], calls[c].key)
      BY <1>0, <1>4 DEF Finish, Put
    <2> QED BY <1>0, <2>1 DEF Attempt, Finished
  <1>5. ASSUME NEW u \in Token, Expire(u), u # t PROVE attempts'[t] = attempts[t]
    BY <1>0, <1>5 DEF Expire, Put
  <1> QED BY <1>1, <1>2, <1>3, <1>4, <1>5, WhoWritesAttempts

\* The lease of a call changes only when it begins or reclaims, or starts anew.
LEMMA LeaseMoves ==
    ASSUME IInv, Next, NEW c \in Calls
    PROVE  \/ calls'[c] = calls[c]
           \/ calls'[c].lease = 0 /\ calls'[c].phase \in {"idle", "received"}
           \/ /\ calls[c].phase # "idle"
              /\ calls'[c].token = calls[c].token
              /\ calls'[c].phase # "received"
              /\ calls'[c].lease = calls[c].lease \/ Begin(c) \/ Reclaim(c)
  <1>1. Idle.lease = 0 /\ Idle.phase = "idle"
    BY DEF Idle
  <1>2. ASSUME NEW t \in Token,
               calls'[c] = [Idle EXCEPT !.phase = "received", !.token = t,
                                        !.previous = attempts[t]]
        PROVE  calls'[c].lease = 0 /\ calls'[c].phase = "received"
    BY <1>2 DEF Idle
  <1> QED BY <1>1, <1>2, CallMoves

\* No lease ends under a call and no call outlives a fencing token.
LEMMA StillInTime ==
    ASSUME Next, ~overran', overran \in BOOLEAN
    PROVE  /\ ~overran
           /\ \A t \in Token : Expire(t) => Holders(t) = {}
           /\ NextFence => \A c \in Calls : calls[c].phase = "idle"
  <1>1. \A t \in Token : Expire(t) => ~overran /\ Holders(t) = {}
    BY DEF Expire
  <1>2. NextFence => ~overran /\ \A c \in Calls : calls[c].phase = "idle"
    BY DEF NextFence
  <1> QED BY <1>1, <1>2, WhoMovesFence

LEMMA HoldsLeaseStep ==
    ASSUME IInv, KInv, InTime, Next, ~overran', NEW c \in Calls
    PROVE  HoldsLease(c)'
  <1>0. calls \in [Calls -> Call] /\ overran \in BOOLEAN
    BY DEF IInv, TypeOK
  <1>m. \/ calls'[c] = calls[c]
        \/ calls'[c].lease = 0 /\ calls'[c].phase \in {"idle", "received"}
        \/ /\ calls[c].phase # "idle"
           /\ calls'[c].token = calls[c].token
           /\ calls'[c].phase # "received"
           /\ calls'[c].lease = calls[c].lease \/ Begin(c) \/ Reclaim(c)
    BY LeaseMoves
  <1>1. ASSUME calls'[c].phase \notin {"idle", "received"}
        PROVE  calls'[c].token = fence'
    <2>1. calls'[c].token = calls[c].token /\ calls[c].phase # "idle"
      BY <1>1, <1>m
    <2>2. fence' = fence
      BY <1>0, <2>1, StillInTime, WhoMovesFence
    <2>3. CASE calls[c].phase # "received"
      BY <2>1, <2>2, <2>3 DEF InTime, HoldsLease
    <2>4. CASE calls[c].phase = "received"
      <3>1. Step(c)
        BY <1>1, <2>4, WhoSteps, OthersStay DEF Expire, NextFence
      <3>2. \/ ReturnStored(c) \/ Reject(c) \/ Proceed(c) \/ Abandon(c)
            \/ ProviderCreates(c) \/ ProviderRefuses(c) \/ SinkAdds(c) \/ SinkRefuses(c)
        <4>1. ~(\E t \in Token : Receive(c, t)) /\ ~Prepare(c) /\ ~PrepareSink(c) /\ ~Begin(c)
              /\ ~Reclaim(c) /\ ~Reconcile(c) /\ ~Cleanup(c) /\ ~ReconcileSink(c)
              /\ ~CleanupSink(c) /\ ~ListBefore(c) /\ ~Send(c)
          BY <2>4 DEF Receive, Prepare, PrepareSink, Begin, Reclaim, Reconcile, Cleanup,
                      ReconcileSink, CleanupSink, ListBefore, Send
        <4>2. ~NoAnswer(c) /\ ~ReconcileAmbiguous(c) /\ ~RevokeOrphan(c) /\ ~ConnectorFails(c)
              /\ ~StoreSecret(c) /\ ~SinkUnavailable(c) /\ ~AddFails(c) /\ ~Compensate(c)
              /\ ~Checkpoint(c) /\ ~CheckpointFails(c) /\ ~Finish(c)
          BY <2>4 DEF NoAnswer, ReconcileAmbiguous, RevokeOrphan, ConnectorFails, StoreSecret,
                      SinkUnavailable, AddFails, Compensate, Checkpoint, CheckpointFails, Finish
        <4> QED BY <3>1, <4>1, <4>2 DEF Step
      <3>3. CASE ReturnStored(c) \/ Reject(c) \/ Abandon(c)
        BY <1>0, <1>1, <3>3 DEF ReturnStored, Reject, Abandon, Leave, Idle
      <3>4. CASE ProviderCreates(c) \/ ProviderRefuses(c) \/ SinkAdds(c) \/ SinkRefuses(c)
        BY <1>1, <2>4, <3>4 DEF ProviderCreates, ProviderRefuses, SinkAdds, SinkRefuses
      <3>5. CASE Proceed(c)
        BY <2>1, <2>2, <3>5 DEF Proceed, HoldsFence
      <3> QED BY <3>2, <3>3, <3>4, <3>5
    <2> QED BY <2>3, <2>4
  <1>2. ASSUME calls'[c].lease # 0
        PROVE  LET a == attempts'[calls'[c].token]
               IN  calls'[c].lease = a.lease /\ ~a.expired
    <2>1. CASE calls'[c].lease = calls[c].lease /\ calls'[c].token = calls[c].token
      <3>1. /\ calls[c].token = fence /\ fence \in Token
            /\ attempts[fence].lease = calls[c].lease /\ ~attempts[fence].expired
            /\ Works(c, fence)
        BY <1>2, <2>1, LeaseFacts
      <3>2. ~Expire(fence)
        BY <1>0, <3>1, StillInTime DEF Holders
      <3>3. ASSUME NEW d \in Calls, Begin(d) \/ Reclaim(d) PROVE calls'[d].lease = 0
        BY <1>2, <2>1, <3>3, NewLease
      <3> QED BY <2>1, <3>1, <3>2, <3>3, LeaseWritten
    <2>2. CASE (Begin(c) \/ Reclaim(c)) /\ calls'[c].token = calls[c].token
      <3>1. calls[c].token \in Token /\ attempts \in [Token -> Attempt]
        BY <2>2 DEF IInv, TypeOK, CallSound, Begin, Reclaim
      <3>2. CASE Begin(c)
        <4>1. /\ calls'[c].lease = 1
              /\ attempts'[calls[c].token]
                   = [NoAttempt EXCEPT !.status = "running", !.lease = 1,
                                       !.before = calls[c].before,
                                       !.versions = calls[c].versions]
          BY <1>0, <1>2, <3>1, <3>2 DEF Begin, Put, Leave, Idle, Call
        <4>2. attempts'[calls[c].token].lease = 1 /\ ~attempts'[calls[c].token].expired
          BY <4>1 DEF NoAttempt
        <4> QED BY <2>2, <4>1, <4>2
      <3>3. CASE Reclaim(c)
        <4> DEFINE a == attempts[calls[c].token]
        <4>1. /\ calls'[c].lease = a.lease + 1
              /\ attempts'[calls[c].token] = [a EXCEPT !.lease = a.lease + 1, !.expired = FALSE]
          BY <1>0, <1>2, <3>1, <3>3 DEF Reclaim, Put, Leave, Idle, Call
        <4>2. a \in Attempt
          BY <3>1
        <4>3. /\ attempts'[calls[c].token].lease = a.lease + 1
              /\ ~attempts'[calls[c].token].expired
          BY <4>1, <4>2 DEF Attempt
        <4> QED BY <2>2, <4>1, <4>3
      <3> QED BY <2>2, <3>2, <3>3
    <2> QED BY <1>2, <1>m, <2>1, <2>2
  <1> QED BY <1>1, <1>2 DEF HoldsLease

LEMMA OneLeaseStep ==
    ASSUME IInv, KInv, InTime, Next
    PROVE  OneLease'
  <1>1. SUFFICES ASSUME NEW c \in Calls, NEW d \in Calls, calls'[c].lease # 0,
                        calls'[d].lease # 0, c # d
                 PROVE  FALSE
    BY DEF OneLease
  <1>2. ASSUME NEW x \in Calls, calls'[x].lease # 0
        PROVE  calls[x].lease # 0 \/ Begin(x) \/ Reclaim(x)
    BY <1>2, LeaseMoves
  <1>3. ASSUME NEW x \in Calls, NEW y \in Calls, x # y, calls'[x].lease # 0,
               calls'[y].lease # 0, Begin(x) \/ Reclaim(x)
        PROVE  FALSE
    <2>1. calls[y].lease = 0 /\ calls[x].lease = 0
      BY <1>3, NewLease
    <2>2. calls'[y] = calls[y]
      BY <1>3, OthersStay DEF Step
    <2> QED BY <1>3, <2>1, <2>2
  <1>4. calls[c].lease # 0 /\ calls[d].lease # 0 => c = d
    BY DEF InTime, OneLease
  <1> QED BY <1>1, <1>2, <1>3, <1>4

-----------------------------------------------------------------------------
(***************************************************************************)
(* Reported credentials. Only the call at its checkpoint reports one, and  *)
(* it is the call with the lease.                                          *)
(***************************************************************************)

LEMMA ReportedTyped ==
    ASSUME IInv, NEW t \in Token
    PROVE  Reported(t) \in Result
  BY DEF IInv, TypeOK, Attempt, Reported

LEMMA ReportedMoves ==
    ASSUME IInv, KInv, Next, NEW t \in Token
    PROVE  \/ Reported(t)' = Reported(t)
           \/ Reported(t)' = None
           \/ \E c \in Calls :
                 /\ Checkpoint(c) \/ CheckpointFails(c)
                 /\ calls[c].phase = "checkpoint" /\ calls[c].token = t
                 /\ Reported(t)' = calls[c].key
  <1> DEFINE a == attempts[t]
             b == attempts'[t]
  <1>0. attempts \in [Token -> Attempt] /\ a \in Attempt
    BY DEF IInv, TypeOK
  <1>1. CASE b = a
    BY <1>1 DEF Reported
  <1>2. ASSUME NEW c \in Calls, Begin(c), b # a PROVE Reported(t)' = None
    <2>1. b = [NoAttempt EXCEPT !.status = "running", !.lease = 1, !.before = calls[c].before,
                                !.versions = calls[c].versions]
      BY <1>0, <1>2 DEF Begin, Put
    <2>2. b.status = "running" /\ b.checkpoint = None
      BY <2>1 DEF NoAttempt
    <2> QED BY <2>2 DEF Reported
  <1>3. ASSUME NEW c \in Calls, Reclaim(c), b # a PROVE Reported(t)' = Reported(t)
    <2>1. a.status = "running" /\ b = [a EXCEPT !.lease = a.lease + 1, !.expired = FALSE]
      BY <1>0, <1>3 DEF Reclaim, Reclaimable, Put
    <2>2. b.status = "running" /\ b.checkpoint = a.checkpoint
      BY <1>0, <2>1 DEF Attempt
    <2> QED BY <2>1, <2>2 DEF Reported
  <1>4. ASSUME NEW c \in Calls, Checkpoint(c) \/ CheckpointFails(c), b # a
        PROVE  /\ calls[c].phase = "checkpoint" /\ calls[c].token = t
               /\ Reported(t)' = calls[c].key
    <2>1. /\ calls[c].phase = "checkpoint" /\ calls[c].token = t
          /\ a.status = "running" /\ b = [a EXCEPT !.checkpoint = calls[c].key]
      BY <1>0, <1>4 DEF Checkpoint, CheckpointFails, Put
    <2>2. b.status = "running" /\ b.checkpoint = calls[c].key
      BY <1>0, <2>1 DEF Attempt
    <2> QED BY <2>1, <2>2 DEF Reported
  <1>5. ASSUME NEW c \in Calls, Finish(c), b # a
        PROVE  Reported(t)' = Reported(t) \/ Reported(t)' = None
    <2>1. /\ calls[c].phase \in {"finish", "failing"} /\ calls[c].token = t
          /\ a.status = "running" /\ b = Finished(a, calls[c].key)
      BY <1>0, <1>5 DEF Finish, Put
    <2>2. /\ b.status = IF calls[c].key = None THEN "failed" ELSE "succeeded"
          /\ b.result = calls[c].key /\ b.checkpoint = None
      BY <1>0, <2>1 DEF Attempt, Finished
    <2>3. calls[c].phase = "finish" => a.checkpoint = calls[c].key
      BY <2>1 DEF KInv, Knows
    <2>4. calls[c].phase = "failing" => calls[c].key = None
      BY DEF KInv, Knows, Empty
    <2> QED BY <2>1, <2>2, <2>3, <2>4 DEF Reported
  <1>6. ASSUME NEW u \in Token, Expire(u), b # a PROVE Reported(t)' = Reported(t)
    <2>1. a.status = "running" /\ b = [a EXCEPT !.expired = TRUE]
      BY <1>0, <1>6 DEF Expire, Put
    <2>2. b.status = "running" /\ b.checkpoint = a.checkpoint
      BY <1>0, <2>1 DEF Attempt
    <2> QED BY <2>1, <2>2 DEF Reported
  <1> HIDE DEF a, b
  <1> QED BY <1>1, <1>2, <1>3, <1>4, <1>5, <1>6, WhoWritesAttempts DEF a, b

\* A call that revokes its credential or disables its version.
Takes(c, x) == calls[c].phase \in Taking \ {"store", "storing"} /\ calls[c].key = x

\* A credential that no call takes away stays as it is.
LEMMA KeyStays ==
    ASSUME IInv, KInv, Next, NEW x \in Key, keys[x].status = "active",
           \A c \in Calls : ~Takes(c, x)
    PROVE  /\ keys'[x].status = "active"
           /\ keys[x].version = "enabled" => keys'[x].version = "enabled"
  <1>0. keys \in [Key -> Credential] /\ keys[x] \in Credential
    BY DEF IInv, TypeOK
  <1> DEFINE Stays == /\ keys'[x].status = "active"
                      /\ keys[x].version = "enabled" => keys'[x].version = "enabled"
  <1>1. ASSUME UNCHANGED keys PROVE Stays
    BY <1>1
  <1>2. ASSUME NEW y \in Result, Revoke(y), y # x PROVE Stays
    BY <1>0, <1>2 DEF Revoke
  <1>3. ASSUME NEW c \in Calls,
               Cleanup(c) \/ RevokeOrphan(c) \/ ConnectorFails(c) \/ Compensate(c)
        PROVE  Stays
    <2>1. calls[c].key \in Result
      BY DEF IInv, TypeOK, Call
    <2>2. \/ UNCHANGED keys
          \/ /\ Revoke(calls[c].key)
             /\ calls[c].phase \in {"cleanup", "orphan", "compensate", "undo"}
      BY <1>3 DEF Cleanup, RevokeOrphan, ConnectorFails, Compensate
    <2>3. calls[c].phase \in {"cleanup", "orphan", "compensate", "undo"} => calls[c].key # x
      BY DEF Takes, Taking
    <2> QED BY <1>1, <1>2, <2>1, <2>2, <2>3
  <1>4. ASSUME NEW c \in Calls, CleanupSink(c) PROVE Stays
    <2>1. calls[c].key # x
      BY <1>4 DEF CleanupSink, Takes, Taking
    <2> QED BY <1>0, <1>4, <2>1 DEF CleanupSink
  <1>5. ASSUME NEW c \in Calls, ProviderCreates(c) PROVE Stays
    <2>1. PICK y \in Key : /\ keys[y].status = "none"
                           /\ keys' = [keys EXCEPT ![y] = [status |-> "active", version |-> "none",
                                                           token |-> wire[c].token]]
      BY <1>5 DEF ProviderCreates
    <2> QED BY <1>0, <2>1
  <1>6. ASSUME NEW c \in Calls, SinkAdds(c) PROVE Stays
    <2>1. keys' = [keys EXCEPT ![wire[c].key].version = "enabled"]
      BY <1>6 DEF SinkAdds
    <2> QED BY <1>0, <2>1 DEF Credential
  <1>7. ASSUME NEW c \in Calls,
               \/ ReturnStored(c) \/ Reject(c) \/ Proceed(c) \/ Prepare(c) \/ PrepareSink(c)
               \/ Begin(c) \/ Reclaim(c) \/ Reconcile(c) \/ ReconcileSink(c)
               \/ ListBefore(c) \/ Send(c) \/ ProviderRefuses(c)
        PROVE  UNCHANGED keys
    BY <1>7 DEF ReturnStored, Reject, Proceed, Prepare, PrepareSink, Begin, Reclaim, Reconcile,
                ReconcileSink, ListBefore, Send, ProviderRefuses
  <1>8. ASSUME NEW c \in Calls,
               \/ NoAnswer(c) \/ ReconcileAmbiguous(c) \/ StoreSecret(c) \/ SinkUnavailable(c)
               \/ SinkRefuses(c) \/ AddFails(c) \/ Checkpoint(c) \/ CheckpointFails(c)
               \/ Finish(c) \/ Abandon(c)
        PROVE  UNCHANGED keys
    BY <1>8 DEF NoAnswer, ReconcileAmbiguous, StoreSecret, SinkUnavailable, SinkRefuses,
                AddFails, Checkpoint, CheckpointFails, Finish, Abandon
  <1>9. ASSUME NEW t \in Token, Expire(t) \/ NextFence \/ \E c \in Calls : Receive(c, t)
        PROVE  UNCHANGED keys
    BY <1>9 DEF Expire, NextFence, Receive
  <1>10. 1 \in Token
    BY BoundsAssumption DEF Token
  <1> HIDE DEF Stays
  <1>11. Stays
    BY <1>1, <1>3, <1>4, <1>5, <1>6, <1>7, <1>8, <1>9, <1>10 DEF Next
  <1> QED BY <1>11 DEF Stays

\* A checkpoint is not written next to another call with a lease.
LEMMA NoCheckpointBeside ==
    ASSUME IInv, KInv, InTime, NEW c \in Calls, NEW d \in Calls,
           calls[c].lease # 0, calls[d].phase = "checkpoint"
    PROVE  c = d
  BY PhaseSets DEF KInv, Knows, InTime, OneLease

LEMMA ReportedUsableStep ==
    ASSUME IInv, KInv, InTime, Next
    PROVE  ReportedUsable'
  <1>1. SUFFICES ASSUME NEW t \in Token, Reported(t)' # None
                 PROVE  /\ keys'[Reported(t)'].status = "active"
                        /\ keys'[Reported(t)'].version = "enabled"
    BY DEF ReportedUsable
  <1>2. CASE Reported(t)' = Reported(t)
    <2> DEFINE x == Reported(t)
    <2>1. x \in Key
      BY <1>1, <1>2, ReportedTyped DEF Result
    <2>2. keys[x].status = "active" /\ keys[x].version = "enabled"
      BY <1>1, <1>2 DEF InTime, ReportedUsable
    <2>3. \A c \in Calls : ~Takes(c, x)
      BY DEF InTime, SparesReported, Unreported, Takes
    <2> HIDE DEF x
    <2>4. keys'[x].status = "active" /\ keys'[x].version = "enabled"
      BY <2>1, <2>2, <2>3, KeyStays
    <2> QED BY <1>2, <2>4 DEF x
  <1>3. ASSUME NEW c \in Calls, Checkpoint(c) \/ CheckpointFails(c),
               Reported(t)' = calls[c].key, calls[c].phase = "checkpoint"
        PROVE  /\ keys'[Reported(t)'].status = "active"
               /\ keys'[Reported(t)'].version = "enabled"
    <2>1. keys' = keys
      BY <1>3 DEF Checkpoint, CheckpointFails
    <2>2. keys[calls[c].key].status = "active" /\ keys[calls[c].key].version = "enabled"
      BY <1>3 DEF InTime, HasUsable
    <2> QED BY <1>3, <2>1, <2>2
  <1> QED BY <1>1, <1>2, <1>3, ReportedMoves

\* Beside the call with the lease nothing new is reported.
LEMMA NothingReported ==
    ASSUME IInv, KInv, InTime, Next, NEW c \in Calls,
           calls[c].lease # 0, calls[c].phase # "checkpoint", NEW t \in Token
    PROVE  Reported(t)' = Reported(t) \/ Reported(t)' = None
  BY ReportedMoves, NoCheckpointBeside

\* What a call spares and holds stays so while it does not act.
LEMMA SparesStays ==
    ASSUME IInv, KInv, InTime, Next, NEW c \in Calls, calls'[c] = calls[c]
    PROVE  SparesReported(c)' /\ HasUsable(c)'
  <1> DEFINE k == calls[c]
  <1>0. SparesReported(c) /\ HasUsable(c) /\ Knows(c) /\ k \in Call /\ HoldsLease(c)
    BY DEF InTime, KInv, IInv, TypeOK
  <1>1. k.phase \in Leased => k.lease # 0
    BY <1>0 DEF Knows
  <1>2. ASSUME k.phase \in {"prepare_sink", "begin"}, NEW found, OthersReportedIn(k.token, found)
        PROVE  OthersReportedIn(k.token, found)'
    <2>1. k.token = fence
      BY <1>0, <1>2 DEF HoldsLease
    <2>2. SUFFICES ASSUME NEW u \in Token \ {k.token}, Reported(u)' # None
                   PROVE  Reported(u)' \in found
      BY <1>2 DEF OthersReportedIn
    <2>3. \A d \in Calls : calls[d].phase = "checkpoint" => calls[d].token = fence
      BY DEF InTime, HoldsLease
    <2>4. Reported(u)' = Reported(u)
      BY <2>1, <2>2, <2>3, ReportedMoves
    <2> QED BY <1>2, <2>2, <2>4 DEF OthersReportedIn
  <1>3. ASSUME k.phase \in Leased \ {"checkpoint"}, NEW found, ReportedIn(found)
        PROVE  ReportedIn(found)'
    BY <1>1, <1>3, NothingReported DEF ReportedIn
  <1>4. ASSUME k.phase \in Taking PROVE Unreported(k.key)'
    <2>1. k.phase \in Leased \ {"checkpoint"} /\ k.key # None
      BY <1>0, <1>4, PhaseSets DEF Taking, Knows
    <2>2. Unreported(k.key)
      BY <1>0, <1>4 DEF SparesReported
    <2>3. ASSUME NEW u \in Token PROVE Reported(u)' # k.key
      BY <1>1, <2>1, <2>2, NothingReported DEF Unreported
    <2> QED BY <2>3, calls'[c] = calls[c] DEF Unreported
  <1>5. SparesReported(c)'
    <2>1. {"reconcile", "cleanup", "reconcile_sink", "send", "creating", "timedout"}
            \subseteq Leased \ {"checkpoint"}
      BY PhaseSets
    <2>2. k.phase \in {"prepare_sink", "begin"} => OthersReportedIn(k.token, k.before)'
      BY <1>0, <1>2 DEF SparesReported
    <2>3. k.phase = "begin" => OthersReportedIn(k.token, k.versions)'
      BY <1>0, <1>2 DEF SparesReported
    <2>4. k.phase \in {"reconcile", "send", "creating", "timedout"} => ReportedIn(k.before)'
      BY <1>0, <1>3, <2>1 DEF SparesReported
    <2>5. k.phase \in {"reconcile", "cleanup", "reconcile_sink"} => ReportedIn(k.versions)'
      BY <1>0, <1>3, <2>1 DEF SparesReported
    <2> QED BY <1>4, <2>2, <2>3, <2>4, <2>5 DEF SparesReported
  <1>6. HasUsable(c)'
    <2>1. SUFFICES ASSUME k.phase \in {"store", "storing", "checkpoint"}
                   PROVE  HasUsable(c)'
      BY DEF HasUsable
    <2>2. k.key \in Key /\ k.lease # 0
      BY <1>0, <1>1, <2>1, PhaseSets DEF Knows, Call, Result, Taking
    <2>3. ASSUME NEW d \in Calls, Takes(d, k.key) PROVE FALSE
      <3>1. calls[d].phase \in Leased \ {"store", "storing", "checkpoint"}
        BY <2>3, PhaseSets DEF Takes, Taking
      <3>2. calls[d].lease # 0
        BY <3>1 DEF KInv, Knows
      <3>3. d = c
        BY <2>2, <3>2 DEF InTime, OneLease
      <3> QED BY <2>1, <3>1, <3>3
    <2>4. keys[k.key].status = "active"
      BY <1>0, <2>1 DEF HasUsable
    <2>5. /\ keys'[k.key].status = "active"
          /\ keys[k.key].version = "enabled" => keys'[k.key].version = "enabled"
      BY <2>2, <2>3, <2>4, KeyStays
    <2> QED BY <1>0, <2>5 DEF HasUsable
  <1> QED BY <1>5, <1>6

\* The phases in which a call has nothing to spare and no credential to keep.
LEMMA SparesNothing ==
    ASSUME NEW c \in Calls,
           calls'[c].phase \in {"idle", "received", "prepare", "reclaim", "create", "failing",
                                "finish"}
    PROVE  SparesReported(c)' /\ HasUsable(c)'
  BY DEF SparesReported, HasUsable, Taking

\* As long as nothing is reported, what a call must spare is what it must spare now.
LEMMA SparesNow ==
    ASSUME NEW c \in Calls, \A u \in Token : Reported(u)' = Reported(u),
           NEW k, calls'[c] = k,
           k.phase \in {"prepare_sink", "begin"} => OthersReportedIn(k.token, k.before),
           k.phase = "begin" => OthersReportedIn(k.token, k.versions),
           k.phase \in {"reconcile", "send", "creating", "timedout"} => ReportedIn(k.before),
           k.phase \in {"reconcile", "cleanup", "reconcile_sink"} => ReportedIn(k.versions),
           k.phase \in Taking => Unreported(k.key)
    PROVE  SparesReported(c)'
  <1>1. \A found : ReportedIn(found) => ReportedIn(found)'
    BY DEF ReportedIn
  <1>2. \A t, found : OthersReportedIn(t, found) => OthersReportedIn(t, found)'
    BY DEF OthersReportedIn
  <1>3. \A key : Unreported(key) => Unreported(key)'
    BY DEF Unreported
  <1> QED BY <1>1, <1>2, <1>3 DEF SparesReported

\* A call gives up only what it has listed anew, and that was never reported.
LEMMA SparesStep ==
    ASSUME IInv, KInv, InTime, Next, ~overran', NEW c \in Calls, Step(c)
    PROVE  SparesReported(c)' /\ HasUsable(c)'
  <1> DEFINE k == calls[c]
             t == k.token
             Spares == SparesReported(c)' /\ HasUsable(c)'
  <1>0. /\ calls \in [Calls -> Call] /\ k \in Call
        /\ wire \in [Calls -> Message] /\ attempts \in [Token -> Attempt]
        /\ keys \in [Key -> Credential]
    BY DEF IInv, TypeOK
  <1>k. Knows(c) /\ SparesReported(c) /\ HasUsable(c) /\ HoldsLease(c)
    BY DEF KInv, InTime
  <1>i. Leave(c) => Spares
    BY <1>0, SparesNothing DEF Leave, Idle
  <1>r. UNCHANGED attempts => \A u \in Token : Reported(u)' = Reported(u)
    BY DEF Reported
  <1>a. ReportedIn(Listed) /\ ReportedIn(Versions)
    <2>1. SUFFICES ASSUME NEW u \in Token, Reported(u) # None
                   PROVE  Reported(u) \in Listed /\ Reported(u) \in Versions
      BY DEF ReportedIn
    <2>2. Reported(u) \in Key
      BY <2>1, ReportedTyped DEF Result
    <2>3. keys[Reported(u)].status = "active" /\ keys[Reported(u)].version = "enabled"
      BY <2>1 DEF InTime, ReportedUsable
    <2> QED BY <2>2, <2>3 DEF Listed, Versions
  <1>1. ASSUME NEW u \in Token, Receive(c, u) PROVE Spares
    <2>1. calls'[c].phase = "received"
      BY <1>0, <1>1 DEF Receive, Idle
    <2> QED BY <2>1, SparesNothing
  <1>2. CASE ReturnStored(c) \/ Reject(c) \/ RevokeOrphan(c) \/ Finish(c) \/ Abandon(c)
    BY <1>2, <1>i DEF ReturnStored, Reject, RevokeOrphan, Finish, Abandon
  <1>s. ASSUME NEW phase \in {"prepare", "reclaim", "create", "failing", "finish"},
               \/ Goto(c, phase)
               \/ \E x : calls' = [calls EXCEPT ![c].phase = phase, ![c].key = x]
        PROVE  Spares
    <2>1. calls'[c].phase = phase
      BY <1>0, <1>s DEF Goto, Call
    <2> QED BY <2>1, SparesNothing
  <1>3. CASE \/ Proceed(c) \/ CleanupSink(c) \/ ConnectorFails(c)
             \/ Checkpoint(c) \/ CheckpointFails(c)
    BY <1>3, <1>s DEF Proceed, CleanupSink, ConnectorFails, Checkpoint, CheckpointFails
  <1>n. ASSUME NEW phase \in {"prepare_sink", "begin", "reconcile", "cleanup", "reconcile_sink",
                              "cleanup_sink", "send", "creating", "timedout", "orphan",
                              "compensate", "undo"},
               calls'[c].phase = phase
        PROVE  HasUsable(c)'
    BY <1>n DEF HasUsable
  <1>4. CASE Prepare(c)
    <2>1. UNCHANGED <<attempts, fence>>
            /\ calls' = [calls EXCEPT ![c].phase = "prepare_sink", ![c].before = Listed]
      BY <1>4 DEF Prepare
    <2>2. GoesOn(c, "prepare_sink", k.key) /\ calls'[c].before = Listed
      BY <2>1, ListGoesOn
    <2>3. OthersReportedIn(t, Listed)
      BY <1>a DEF ReportedIn, OthersReportedIn
    <2>4. SparesReported(c)'
      BY <1>r, <2>1, <2>2, <2>3, SparesNow DEF GoesOn, Taking
    <2> QED BY <1>n, <2>2, <2>4 DEF GoesOn
  <1>5. CASE PrepareSink(c)
    <2>1. UNCHANGED <<attempts, fence>> /\ k.phase = "prepare_sink"
            /\ calls' = [calls EXCEPT ![c].phase = "begin", ![c].versions = Versions]
      BY <1>5 DEF PrepareSink
    <2>2. GoesOn(c, "begin", k.key) /\ calls'[c].before = k.before /\ calls'[c].versions = Versions
      BY <2>1, ListSinkGoesOn
    <2>3. OthersReportedIn(t, k.before) /\ OthersReportedIn(t, Versions)
      BY <1>a, <1>k, <2>1 DEF SparesReported, ReportedIn, OthersReportedIn
    <2>4. SparesReported(c)'
      BY <1>r, <2>1, <2>2, <2>3, SparesNow DEF GoesOn, Taking
    <2> QED BY <1>n, <2>2, <2>4 DEF GoesOn
  <1>6. CASE Begin(c)
    <2>1. CASE Leave(c)
      BY <2>1, <1>i
    <2>2. CASE calls' = [calls EXCEPT ![c].phase = "create", ![c].lease = 1]
      <3>1. calls'[c].phase = "create"
        BY <1>0, <2>2 DEF Call
      <3> QED BY <3>1, SparesNothing
    <2> QED BY <1>6, <2>1, <2>2 DEF Begin
  <1>7. CASE Reclaim(c)
    <2>1. CASE Leave(c)
      BY <2>1, <1>i
    <2>2. CASE Reclaimable(t, k.previous.lease)
      <3>1. k.phase = "reclaim" /\ t = fence /\ t \in Token
        BY <1>7, <1>k DEF Reclaim, HoldsLease, IInv, TypeOK
      <3>2. /\ calls'[c].phase = "reconcile"
            /\ calls'[c].before = k.previous.before /\ calls'[c].versions = k.previous.versions
        BY <1>0, <1>7, <2>2 DEF Reclaim, Call
      <3>3. /\ attempts[t].before = k.previous.before
            /\ attempts[t].versions = k.previous.versions
        BY <1>k, <3>1 DEF Knows, LaterThan
      <3>4. ReportedIn(attempts[t].before) /\ ReportedIn(attempts[t].versions)
        BY <2>2, <3>1 DEF InTime, BeginSawReported, Reclaimable
      <3>5. ASSUME NEW u \in Token PROVE Reported(u)' = Reported(u)
        <4>1. CASE u # t
          BY <1>0, <1>7, <2>2, <3>1, <4>1 DEF Reclaim, Put, Reported
        <4>2. CASE u = t
          <5>1. attempts'[t] = [attempts[t] EXCEPT !.lease = attempts[t].lease + 1,
                                                   !.expired = FALSE]
            BY <1>0, <1>7, <2>2, <3>1 DEF Reclaim, Put
          <5>2. /\ attempts'[t].status = attempts[t].status
                /\ attempts'[t].checkpoint = attempts[t].checkpoint
                /\ attempts'[t].result = attempts[t].result
            BY <1>0, <3>1, <5>1 DEF Attempt
          <5> QED BY <4>2, <5>2 DEF Reported
        <4> QED BY <4>1, <4>2
      <3>6. SparesReported(c)'
        BY <3>2, <3>3, <3>4, <3>5, SparesNow DEF Taking
      <3> QED BY <1>n, <3>2, <3>6
    <2> QED BY <1>7, <2>1, <2>2 DEF Reclaim
  <1>g. ASSUME NEW phase, NEW key, GoesOn(c, phase, key),
               calls'[c].before = k.before /\ calls'[c].versions = k.versions,
               phase \in {"reconcile_sink", "cleanup"} => k.phase \in {"reconcile", "cleanup"},
               phase \in {"creating", "timedout"} => k.phase \in {"send", "creating"},
               phase \in Taking => Unreported(key),
               phase \notin {"prepare_sink", "begin", "reconcile", "send"}
        PROVE  SparesReported(c)'
    <2>1. /\ k.phase \in {"reconcile", "cleanup"} => ReportedIn(k.versions)
          /\ k.phase \in {"send", "creating"} => ReportedIn(k.before)
      BY <1>k DEF SparesReported
    <2> QED BY <1>g, <1>r, <2>1, SparesNow DEF GoesOn
  <1>p. ASSUME NEW found \in SUBSET Key, NEW cleanup \in {"cleanup", "cleanup_sink"},
               NEW next \in {"reconcile_sink", "create"},
               \A x \in found : Unreported(x),
               cleanup = "cleanup" \/ next = "reconcile_sink" => k.phase = "reconcile",
               Pick(c, found, cleanup, next), UNCHANGED <<attempts, fence>>
        PROVE  Spares
    <2>1. CASE Leave(c)
      BY <2>1, <1>i
    <2>2. CASE Goto(c, next)
      <3>1. /\ GoesOn(c, next, k.key)
            /\ calls'[c].before = k.before /\ calls'[c].versions = k.versions
        BY <1>p, <2>2, GotoGoesOn
      <3>2. SparesReported(c)'
        BY <1>g, <1>p, <3>1 DEF Taking
      <3> QED BY <1>n, <3>1, <3>2, SparesNothing DEF GoesOn
    <2>3. CASE /\ Cardinality(found) = 1
               /\ calls' = [calls EXCEPT ![c].phase = cleanup,
                                         ![c].key = CHOOSE x \in found : TRUE]
      <3> DEFINE x == CHOOSE x \in found : TRUE
      <3>1. x \in found
        BY <2>3, FS_EmptySet
      <3> HIDE DEF x
      <3>2. /\ GoesOn(c, cleanup, x)
            /\ calls'[c].before = k.before /\ calls'[c].versions = k.versions
        BY <1>p, <2>3, TakeGoesOn DEF x
      <3>3. SparesReported(c)'
        BY <1>g, <1>p, <3>1, <3>2
      <3> QED BY <1>n, <3>2, <3>3 DEF GoesOn
    <2> QED BY <1>p, <2>1, <2>2, <2>3 DEF Pick
  <1>u. ASSUME NEW found, ReportedIn(found), NEW x \in Key, x \notin found PROVE Unreported(x)
    <2>1. x # None
      BY DEF Key, None
    <2> QED BY <1>u, <2>1 DEF ReportedIn, Unreported
  <1>8. CASE Reconcile(c)
    <2>1. k.phase = "reconcile" /\ UNCHANGED <<attempts, fence>>
            /\ Pick(c, Listed \ k.before, "cleanup", "reconcile_sink")
      BY <1>8 DEF Reconcile
    <2>2. ReportedIn(k.before)
      BY <1>k, <2>1 DEF SparesReported
    <2>3. \A x \in Listed \ k.before : x \in Key /\ Unreported(x)
      BY <1>u, <2>2 DEF Listed
    <2> QED BY <1>p, <2>1, <2>3
  <1>9. CASE ReconcileSink(c)
    <2>1. k.phase = "reconcile_sink" /\ UNCHANGED <<attempts, fence>>
            /\ Pick(c, Enabled \ k.versions, "cleanup_sink", "create")
      BY <1>9 DEF ReconcileSink
    <2>2. ReportedIn(k.versions)
      BY <1>k, <2>1 DEF SparesReported
    <2>3. \A x \in Enabled \ k.versions : x \in Key /\ Unreported(x)
      BY <1>u, <2>2 DEF Enabled
    <2> QED BY <1>p, <2>1, <2>3
  <1>10. CASE Cleanup(c)
    <2>1. k.phase = "cleanup" /\ UNCHANGED <<attempts, fence>>
            /\ calls' = [calls EXCEPT ![c].phase = "reconcile_sink", ![c].key = None]
      BY <1>10 DEF Cleanup
    <2>2. /\ GoesOn(c, "reconcile_sink", None)
          /\ calls'[c].before = k.before /\ calls'[c].versions = k.versions
      BY <2>1, TakeGoesOn
    <2>3. SparesReported(c)'
      BY <1>g, <2>1, <2>2 DEF Taking
    <2> QED BY <1>n, <2>2, <2>3 DEF GoesOn
  <1>11. CASE ListBefore(c)
    <2>1. UNCHANGED <<attempts, fence>>
            /\ calls' = [calls EXCEPT ![c].phase = "send", ![c].before = Listed]
      BY <1>11 DEF ListBefore
    <2>2. GoesOn(c, "send", k.key) /\ calls'[c].before = Listed
      BY <2>1, ListGoesOn
    <2>3. SparesReported(c)'
      BY <1>a, <1>r, <2>1, <2>2, SparesNow DEF GoesOn, Taking
    <2> QED BY <1>n, <2>2, <2>3 DEF GoesOn
  <1>q. ASSUME NEW phase \in {"creating", "timedout", "failing", "storing", "undo", "compensate",
                              "checkpoint"},
               Goto(c, phase), UNCHANGED <<attempts, fence>>,
               phase \in {"creating", "timedout"} => k.phase \in {"send", "creating"},
               phase \in {"storing", "undo", "compensate"} => k.phase \in {"store", "storing"}
        PROVE  SparesReported(c)'
    <2>1. /\ GoesOn(c, phase, k.key)
          /\ calls'[c].before = k.before /\ calls'[c].versions = k.versions
      BY <1>q, GotoGoesOn
    <2>2. phase \in Taking => Unreported(k.key)
      BY <1>k, <1>q DEF SparesReported, Taking
    <2> QED BY <1>g, <1>q, <2>1, <2>2
  <1>12. CASE Send(c) \/ NoAnswer(c)
    <2>1. PICK phase \in {"creating", "timedout", "failing"} : Goto(c, phase)
      BY <1>12 DEF Send, NoAnswer
    <2>2. k.phase \in {"send", "creating"} /\ UNCHANGED <<attempts, fence>>
      BY <1>12 DEF Send, NoAnswer
    <2>3. SparesReported(c)'
      BY <1>q, <2>1, <2>2
    <2>4. calls'[c].phase = phase
      BY <1>0, <2>1 DEF Goto, Call
    <2> QED BY <1>n, <2>1, <2>3, <2>4, SparesNothing
  <1>w. calls' = calls => Spares
    BY SparesStays
  <1>13. CASE ProviderCreates(c)
    <2>1. PICK x \in Key :
             /\ keys[x].status = "none"
             /\ keys' = [keys EXCEPT ![x] = [status |-> "active", version |-> "none",
                                             token |-> wire[c].token]]
             /\ calls' = IF calls[c].phase = "creating"
                         THEN [calls EXCEPT ![c].phase = "store", ![c].key = x]
                         ELSE calls
      BY <1>13 DEF ProviderCreates
    <2>2. CASE k.phase = "creating"
      <3>1. UNCHANGED <<attempts, fence>>
        BY <1>13 DEF ProviderCreates
      <3>2. /\ GoesOn(c, "store", x)
            /\ calls'[c].before = k.before /\ calls'[c].versions = k.versions
        BY <2>1, <2>2, <3>1, TakeGoesOn
      <3>3. Unreported(x)
        <4>1. x # None
          BY DEF Key, None
        <4> QED BY <2>1, <4>1 DEF Unreported, InTime, ReportedUsable
      <3>4. SparesReported(c)'
        BY <1>g, <3>2, <3>3
      <3>5. keys'[x].status = "active"
        BY <1>0, <2>1
      <3>6. HasUsable(c)'
        BY <3>2, <3>5 DEF HasUsable, GoesOn
      <3> QED BY <3>4, <3>6
    <2>3. CASE k.phase # "creating"
      BY <1>w, <2>1, <2>3
    <2> QED BY <2>2, <2>3
  <1>14. CASE ProviderRefuses(c)
    BY <1>14, <1>s, <1>w DEF ProviderRefuses
  <1>15. CASE ReconcileAmbiguous(c)
    <2>1. CASE Leave(c)
      BY <2>1, <1>i
    <2>2. CASE ~Leave(c)
      <3> DEFINE found == Listed \ k.before
                 x == CHOOSE x \in found : TRUE
      <3>1. /\ Cardinality(found) = 1 /\ k.phase = "timedout"
            /\ calls' = [calls EXCEPT ![c].phase = "orphan", ![c].key = x]
            /\ UNCHANGED <<attempts, fence>>
        BY <1>15, <2>2 DEF ReconcileAmbiguous
      <3>2. x \in found
        BY <3>1, FS_EmptySet
      <3>3. Unreported(x)
        <4>1. ReportedIn(k.before)
          BY <1>k, <3>1 DEF SparesReported
        <4>2. x \in Key /\ x \notin k.before
          BY <3>2 DEF Listed
        <4> HIDE DEF x
        <4> QED BY <1>u, <4>1, <4>2
      <3> HIDE DEF x
      <3>4. /\ GoesOn(c, "orphan", x)
            /\ calls'[c].before = k.before /\ calls'[c].versions = k.versions
        BY <3>1, TakeGoesOn
      <3>5. SparesReported(c)'
        BY <1>g, <3>3, <3>4
      <3> QED BY <1>n, <3>4, <3>5 DEF GoesOn
    <2> QED BY <2>1, <2>2
  <1>16. CASE StoreSecret(c)
    <2>1. Goto(c, "storing") /\ k.phase = "store" /\ UNCHANGED <<attempts, fence, keys>>
      BY <1>16 DEF StoreSecret
    <2>2. SparesReported(c)'
      BY <1>q, <2>1
    <2>3. calls'[c].phase = "storing" /\ calls'[c].key = k.key
      BY <1>0, <2>1 DEF Goto, Call
    <2>4. HasUsable(c)'
      BY <1>k, <2>1, <2>3 DEF HasUsable
    <2> QED BY <2>2, <2>4
  <1>17. CASE SinkUnavailable(c) \/ SinkRefuses(c) \/ AddFails(c)
    <2>1. CASE calls' = calls
      BY <1>w, <2>1
    <2>2. ASSUME NEW phase \in {"undo", "compensate"}, Goto(c, phase),
                 k.phase \in {"store", "storing"}
          PROVE  Spares
      <3>1. UNCHANGED <<attempts, fence>>
        BY <1>17 DEF SinkUnavailable, SinkRefuses, AddFails
      <3>2. SparesReported(c)'
        BY <1>q, <2>2, <3>1
      <3>3. calls'[c].phase = phase
        BY <1>0, <2>2 DEF Goto, Call
      <3> QED BY <1>n, <3>2, <3>3
    <2> QED BY <1>17, <2>1, <2>2 DEF SinkUnavailable, SinkRefuses, AddFails
  <1>18. CASE SinkAdds(c)
    <2>1. CASE k.phase # "storing"
      BY <1>18, <1>w, <2>1 DEF SinkAdds
    <2>2. CASE k.phase = "storing"
      <3>1. /\ Goto(c, "checkpoint") /\ UNCHANGED <<attempts, fence>>
            /\ keys' = [keys EXCEPT ![wire[c].key].version = "enabled"]
        BY <1>18, <2>2 DEF SinkAdds
      <3>2. wire[c].key = k.key /\ k.key \in Key
        BY <1>0, <1>k, <2>2 DEF Knows, Call, Result, Taking
      <3>3. SparesReported(c)'
        BY <1>q, <3>1
      <3>4. calls'[c].phase = "checkpoint" /\ calls'[c].key = k.key
        BY <1>0, <3>1 DEF Goto, Call
      <3>5. keys[k.key].status = "active"
        BY <1>k, <2>2 DEF HasUsable
      <3>6. keys'[k.key].status = "active" /\ keys'[k.key].version = "enabled"
        BY <1>0, <3>1, <3>2, <3>5 DEF Credential
      <3> QED BY <3>3, <3>4, <3>6 DEF HasUsable
    <2> QED BY <2>1, <2>2
  <1>19. CASE Compensate(c)
    BY <1>19, <1>i, <1>s DEF Compensate
  <1> HIDE DEF k, t
  <1> QED
    BY <1>1, <1>2, <1>3, <1>4, <1>5, <1>6, <1>7, <1>8, <1>9, <1>10, <1>11, <1>12, <1>13, <1>14,
       <1>15, <1>16, <1>17, <1>18, <1>19 DEF Step

\* What begin saw of the reported credentials is still all of them.
LEMMA BeginSawReportedStep ==
    ASSUME IInv, IInv', KInv, KInv', InTime, Next, ~overran'
    PROVE  BeginSawReported'
  <1>0. /\ attempts \in [Token -> Attempt] /\ fence \in Token /\ fence' \in Token
        /\ overran \in BOOLEAN
    BY DEF IInv, TypeOK
  <1>1. SUFFICES ASSUME attempts'[fence'].status = "running",
                        attempts'[fence'].checkpoint = None
                 PROVE  \A u \in Token : Reported(u)' # None
                          => /\ Reported(u)' \in attempts'[fence'].before
                             /\ Reported(u)' \in attempts'[fence'].versions
    BY DEF BeginSawReported, ReportedIn
  <1>2. fence' = fence
    <2>1. ASSUME NextFence PROVE FALSE
      <3>1. attempts' = attempts /\ fence' = fence + 1
        BY <2>1 DEF NextFence
      <3>2. attempts[fence'].status = "none"
        BY <1>0, <3>1 DEF KInv, Untouched, Token
      <3> QED BY <1>1, <3>1, <3>2
    <2> QED BY <2>1, WhoMovesFence
  <1> DEFINE a == attempts[fence]
             b == attempts'[fence]
  <1>3. ASSUME NEW u \in Token, u = fence PROVE Reported(u)' = None
    BY <1>1, <1>2, <1>3 DEF Reported
  <1>4. ASSUME NEW u \in Token, Reported(u)' # None PROVE u # fence /\ Reported(u)' = Reported(u)
    <2>1. \A c \in Calls : calls[c].phase = "checkpoint" => calls[c].token = fence
      BY DEF InTime, HoldsLease
    <2> QED BY <1>3, <1>4, <2>1, ReportedMoves
  <1>5. WrittenOnce(a, b) /\ a \in Attempt
    BY <1>0, AttemptWritten
  <1>6. CASE a.status = "running"
    <2>1. a.checkpoint = None /\ b.before = a.before /\ b.versions = a.versions
      BY <1>1, <1>2, <1>5, <1>6 DEF WrittenOnce, LaterThan
    <2>2. ReportedIn(b.before) /\ ReportedIn(b.versions)
      BY <1>6, <2>1 DEF InTime, BeginSawReported
    <2> QED BY <1>2, <1>4, <2>2 DEF ReportedIn
  <1>7. CASE a.status = "none"
    <2>1. PICK c \in Calls : Begin(c) /\ calls[c].token = fence
      <3>1. b # a
        BY <1>1, <1>2, <1>7
      <3>2. ASSUME NEW c \in Calls,
                   Reclaim(c) \/ Checkpoint(c) \/ CheckpointFails(c) \/ Finish(c)
            PROVE  FALSE
        BY <1>0, <1>7, <3>1, <3>2 DEF Reclaim, Reclaimable, Checkpoint, CheckpointFails, Finish, Put
      <3>3. ASSUME NEW u \in Token, Expire(u) PROVE FALSE
        BY <1>0, <1>7, <3>1, <3>3 DEF Expire, Put
      <3>4. ASSUME NEW c \in Calls, Begin(c) PROVE calls[c].token = fence
        BY <1>0, <3>1, <3>4 DEF Begin, Put
      <3> QED BY <3>1, <3>2, <3>3, <3>4, WhoWritesAttempts
    <2>2. b = [NoAttempt EXCEPT !.status = "running", !.lease = 1, !.before = calls[c].before,
                                !.versions = calls[c].versions]
      BY <1>0, <1>7, <2>1 DEF Begin, Put
    <2>3. b.before = calls[c].before /\ b.versions = calls[c].versions
      BY <2>2 DEF NoAttempt
    <2>4. OthersReportedIn(fence, calls[c].before) /\ OthersReportedIn(fence, calls[c].versions)
      BY <2>1 DEF Begin, InTime, SparesReported
    <2> QED BY <1>2, <1>4, <2>3, <2>4 DEF ReportedIn, OthersReportedIn
  <1>8. a.status \in {"none", "running"}
    BY <1>1, <1>2, <1>5 DEF WrittenOnce, Attempt
  <1> QED BY <1>6, <1>7, <1>8

LEMMA WInvStep ==
    ASSUME IInv, IInv', WInv, Next
    PROVE  WInv'
  <1>1. KInv'
    BY KInvStep DEF WInv
  <1>2. ASSUME ~overran' PROVE InTime'
    <2>0. ~overran /\ InTime /\ KInv
      BY <1>2, StillInTime DEF WInv, IInv, TypeOK
    <2>1. ASSUME NEW c \in Calls PROVE SparesReported(c)' /\ HasUsable(c)'
      <3>1. CASE Step(c)
        BY <1>2, <2>0, <3>1, SparesStep
      <3>2. CASE ~Step(c)
        <4>1. calls'[c] = calls[c]
          BY <3>2, WhoSteps, OthersStay DEF Expire, NextFence
        <4> QED BY <2>0, <4>1, SparesStays
      <3> QED BY <3>1, <3>2
    <2> QED BY <1>1, <1>2, <2>0, <2>1, HoldsLeaseStep, OneLeaseStep, BeginSawReportedStep,
               ReportedUsableStep DEF InTime
  <1> QED BY <1>1, <1>2 DEF WInv

LEMMA WorkInvariance == Spec => []WInv
  <1>1. Init => WInv
    <2> SUFFICES ASSUME Init PROVE WInv
      OBVIOUS
    <2>1. /\ \A c \in Calls : calls[c] = Idle
          /\ \A t \in Token : attempts[t] = NoAttempt
          /\ fence = 1
      BY DEF Init
    <2>2. KInv
      <3>1. \A c \in Calls : Knows(c)
        <4>1. \A c \in Calls : /\ calls[c].phase = "idle" /\ calls[c].lease = 0
                               /\ calls[c].key = None
          BY <2>1 DEF Idle
        <4> QED BY <4>1, PhaseSets DEF Knows, Empty, Taking
      <3>2. \A t \in Token : Untouched(t)
        <4>1. NoAttempt.status = "none"
          BY DEF NoAttempt
        <4> QED BY <2>1, <4>1 DEF Untouched
      <3> QED BY <3>1, <3>2 DEF KInv
    <2>3. \A t \in Token : Reported(t) = None
      BY <2>1 DEF Reported, NoAttempt
    <2>4. \A c \in Calls : HoldsLease(c) /\ SparesReported(c) /\ HasUsable(c)
      BY <2>1 DEF HoldsLease, SparesReported, HasUsable, Idle, Taking
    <2>5. OneLease /\ BeginSawReported /\ ReportedUsable
      BY <2>1, <2>3 DEF OneLease, Idle, BeginSawReported, ReportedIn, ReportedUsable
    <2> QED BY <2>2, <2>4, <2>5 DEF WInv, InTime
  <1>2. IInv /\ IInv' /\ WInv /\ [Next]_vars => WInv'
    <2> SUFFICES ASSUME IInv, IInv', WInv, [Next]_vars PROVE WInv'
      OBVIOUS
    <2>1. CASE Next
      BY <2>1, WInvStep
    <2>2. CASE UNCHANGED vars
      <3>1. KInv'
        BY <2>2 DEF vars, WInv, KInv, Knows, Untouched
      <3>2. \A t \in Token : Reported(t)' = Reported(t)
        BY <2>2 DEF vars, Reported
      <3>3. InTime => InTime'
        BY <2>2, <3>2 DEF vars, InTime, HoldsLease, SparesReported, HasUsable, OneLease,
                          BeginSawReported, ReportedUsable, ReportedIn, OthersReportedIn,
                          Unreported
      <3> QED BY <2>2, <3>1, <3>3 DEF vars, WInv
    <2> QED BY <2>1, <2>2
  <1> QED BY <1>1, <1>2, Invariance, PTL DEF Spec

\* Repetitions of a request never work on it side by side, unless a lease or a
\* fencing token ended under a call at work.
THEOREM OneCallWorks == Spec => []OneWorker
  <1>1. IInv /\ WInv => OneWorker
    <2> SUFFICES ASSUME IInv, KInv, InTime, NEW t \in Token
                 PROVE  Cardinality({c \in Calls : Works(c, t)}) <= 1
      BY DEF WInv, OneWorker
    <2> DEFINE S == {c \in Calls : Works(c, t)}
    <2>1. \A c, d \in S : c = d
      BY DEF InTime, OneLease, Works
    <2> HIDE DEF S
    <2>2. CASE S = {}
      <3>1. Cardinality(S) = 0
        BY <2>2, FS_EmptySet
      <3> QED BY <3>1 DEF S
    <2>3. CASE S # {}
      <3>1. PICK c \in S : S = {c}
        BY <2>1, <2>3
      <3>2. Cardinality(S) = 1
        BY <3>1, FS_Singleton
      <3> QED BY <3>2 DEF S
    <2> QED BY <2>2, <2>3
  <1> QED BY <1>1, Invariance, WorkInvariance, PTL

\* What a request reported, or is about to report, stays accepted by the provider
\* and readable by consumers: reconciliation and compensation take away only what
\* no attempt reports, for any number of calls, requests and credentials.
THEOREM ReportedStaysUsable == Spec => []SucceededUsable
  <1>1. WInv => SucceededUsable
    BY DEF WInv, InTime, ReportedUsable, Reported, SucceededUsable
  <1> QED BY <1>1, WorkInvariance, PTL

=============================================================================
