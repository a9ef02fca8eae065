-------------------------------- MODULE Broker --------------------------------
(***************************************************************************)
(* The tool broker executing provider.createCredential: BrokerService of   *)
(* server/broker/service.py over the attempt documents of                  *)
(* server/broker/storage.py, with the HTTP provider connector              *)
(* (server/connectors/http/client.py) and the Secret Manager connector     *)
(* (server/connectors/secrets/manager.py) it calls. It is the one tool     *)
(* that makes something new in two remote systems, and the only one whose  *)
(* connector reconciles.                                                   *)
(*                                                                         *)
(* The coordinator names a request after the run, the step and the run's   *)
(* fencing token (_execute_operation in server/coordinator/service.py), so *)
(* one run makes one request per token; a request is identified with its   *)
(* token. Remote calls and transactions are steps; between two of them     *)
(* other calls act, leases expire, the run moves to another token, and the *)
(* instance may end. A request that the sender gave up may still be        *)
(* handled later.                                                          *)
(***************************************************************************)
EXTENDS Naturals, FiniteSets

CONSTANTS
    Calls,               \* concurrent executions of BrokerService.execute
    MaxToken,            \* bound: fencing tokens of the run
    MaxKeys,             \* bound: credentials the provider creates
    MaxLeases,           \* bound: leases given for one request
    MaxMishaps           \* bound: errors, timeouts, ended instances, stalls

ASSUME BoundsAssumption ==
    /\ MaxToken \in Nat \ {0} /\ MaxKeys \in Nat \ {0}
    /\ MaxLeases \in Nat \ {0} /\ MaxMishaps \in Nat

VARIABLES
    fence,      \* the run's fencing token; the run is RUNNING in CREATE
    attempts,   \* token -> tool attempt document of that request
    calls,      \* call -> its position in execute and what it holds
    wire,       \* call -> mutation it sent that is not handled yet
    keys,       \* provider credentials and the secret version made of each
    answers,    \* token -> results that execute returned to a coordinator
    mishaps,    \* bounded by MaxMishaps
    overran     \* history: a lease or fencing token ended under a call at work

vars == <<fence, attempts, calls, wire, keys, answers, mishaps, overran>>

-----------------------------------------------------------------------------
Token == 1..MaxToken
Key == 1..MaxKeys
None == 0

\* contracts.tool.ToolResult of this tool: the key it created and stored, or
\* None when it failed.
Result == Key \cup {None}

\* contracts.tool.ToolAttempt. lease distinguishes the values of
\* lease_expires_at, expired says the present one has passed. before and
\* versions are the reconciliation state written by begin.
Attempt == [status : {"none", "running", "succeeded", "failed"},
            lease : Nat, expired : BOOLEAN, checkpoint : Result, result : Result,
            before : SUBSET Key, versions : SUBSET Key]

NoAttempt == [status |-> "none", lease |-> 0, expired |-> FALSE, checkpoint |-> None,
              result |-> None, before |-> {}, versions |-> {}]

Phase == {"idle", "received", "prepare", "prepare_sink", "begin", "reclaim",
          "reconcile", "cleanup", "reconcile_sink", "cleanup_sink", "create", "send",
          "creating", "timedout", "orphan", "store", "storing", "compensate", "undo",
          "checkpoint", "finish", "failing"}

\* What one execution of BrokerService.execute holds in its local variables.
Call == [phase : Phase, token : Token \cup {None}, previous : Attempt, lease : Nat,
         before : SUBSET Key, versions : SUBSET Key, key : Result]

Idle == [phase |-> "idle", token |-> None, previous |-> NoAttempt, lease |-> 0,
         before |-> {}, versions |-> {}, key |-> None]

\* A provider credential: its state there, the state of the Secret Manager
\* version that holds its value, and the request it was created for.
Credential == [status : {"none", "active", "revoked"},
               version : {"none", "enabled", "disabled"}, token : Token \cup {None}]

Message == [op : {"none", "create", "add"}, token : Token \cup {None}, key : Result]

NoMessage == [op |-> "none", token |-> None, key |-> None]

\* The phases in which a call acts under a lease it was given.
Working == Phase \ {"idle", "received", "prepare", "prepare_sink", "begin", "reclaim"}

\* HttpProviderConnector._list: the credentials the provider shows.
Listed == {k \in Key : keys[k].status = "active"}

\* SecretManagerConnector.versions_for, and those that are ENABLED.
Versions == {k \in Key : keys[k].version # "none"}
Enabled == {k \in Key : keys[k].version = "enabled"}

Goto(c, phase) == calls' = [calls EXCEPT ![c].phase = phase]
Leave(c) == calls' = [calls EXCEPT ![c] = Idle]
Put(t, a) == attempts' = [attempts EXCEPT ![t] = a]
Revoke(k) == keys' = [keys EXCEPT ![k].status = "revoked"]
Mishap == mishaps < MaxMishaps /\ mishaps' = mishaps + 1

-----------------------------------------------------------------------------
(***************************************************************************)
(* The beginning of execute.                                               *)
(***************************************************************************)

\* A coordinator sends the request of token t and the attempt is read. The slot
\* of a call is used again once nothing it sent is under way.
Receive(c, t) ==
    /\ calls[c].phase = "idle" /\ wire[c] = NoMessage
    /\ t <= fence
    /\ calls' = [calls EXCEPT ![c] = [Idle EXCEPT !.phase = "received", !.token = t,
                                                  !.previous = attempts[t]]]
    /\ UNCHANGED <<fence, attempts, wire, keys, answers, mishaps, overran>>

\* lease_expires_at <= now for the lease the attempt had when it was read.
LeaseOver(t, lease) == attempts[t].lease # lease \/ attempts[t].expired

\* validate_request on the run that was read after the attempt.
HoldsFence(c) == calls[c].token = fence

\* The stored result of a terminal attempt is returned.
ReturnStored(c) ==
    LET t == calls[c].token IN
    /\ calls[c].phase = "received"
    /\ HoldsFence(c)
    /\ calls[c].previous.status \in {"succeeded", "failed"}
    /\ answers' = [answers EXCEPT ![t] = @ \cup {calls[c].previous.result}]
    /\ Leave(c)
    /\ UNCHANGED <<fence, attempts, wire, keys, mishaps, overran>>

\* The request is rejected: not the run's fence, or the attempt is leased.
Reject(c) ==
    LET previous == calls[c].previous IN
    /\ calls[c].phase = "received"
    /\ \/ ~HoldsFence(c)
       \/ /\ previous.status = "running" /\ previous.checkpoint = None
          /\ ~LeaseOver(calls[c].token, previous.lease)
    /\ Leave(c)
    /\ UNCHANGED <<fence, attempts, wire, keys, answers, mishaps, overran>>

\* The attempt is new, has a checkpoint to finish from, or may be reclaimed.
Proceed(c) ==
    LET previous == calls[c].previous IN
    /\ calls[c].phase = "received"
    /\ HoldsFence(c)
    /\ \/ previous.status = "none" /\ Goto(c, "prepare")
       \/ /\ previous.status = "running" /\ previous.checkpoint # None
          /\ calls' = [calls EXCEPT ![c].phase = "finish", ![c].key = previous.checkpoint]
       \/ /\ previous.status = "running" /\ previous.checkpoint = None
          /\ LeaseOver(calls[c].token, previous.lease)
          /\ Goto(c, "reclaim")
    /\ UNCHANGED <<fence, attempts, wire, keys, answers, mishaps, overran>>

\* BrokerService._prepare lists the credentials, then the secret versions.
Prepare(c) ==
    /\ calls[c].phase = "prepare"
    /\ calls' = [calls EXCEPT ![c].phase = "prepare_sink", ![c].before = Listed]
    /\ UNCHANGED <<fence, attempts, wire, keys, answers, mishaps, overran>>

PrepareSink(c) ==
    /\ calls[c].phase = "prepare_sink"
    /\ calls' = [calls EXCEPT ![c].phase = "begin", ![c].versions = Versions]
    /\ UNCHANGED <<fence, attempts, wire, keys, answers, mishaps, overran>>

\* FirestoreBrokerRepository.begin: creates the attempt, or another call has.
Begin(c) ==
    LET t == calls[c].token IN
    /\ calls[c].phase = "begin"
    /\ IF attempts[t].status = "none"
       THEN /\ Put(t, [NoAttempt EXCEPT !.status = "running", !.lease = 1,
                                        !.before = calls[c].before,
                                        !.versions = calls[c].versions])
            /\ calls' = [calls EXCEPT ![c].phase = "create", ![c].lease = 1]
       ELSE Leave(c) /\ UNCHANGED attempts
    /\ UNCHANGED <<fence, wire, keys, answers, mishaps, overran>>

\* Mutant of Reclaimable: the lease read earlier is not compared.
Reclaimable_any_lease(t, lease) ==
    attempts[t].status = "running" /\ attempts[t].checkpoint = None

\* Mutant of Reclaimable: an attempt with a checkpoint is reclaimed.
Reclaimable_with_checkpoint(t, lease) ==
    attempts[t].status = "running" /\ attempts[t].lease = lease

\* The condition of FirestoreBrokerRepository.reclaim.
Reclaimable(t, lease) ==
    /\ attempts[t].status = "running"
    /\ attempts[t].lease = lease
    /\ attempts[t].checkpoint = None

\* FirestoreBrokerRepository.reclaim: a new lease for this call, or a conflict.
Reclaim(c) ==
    LET t == calls[c].token
        previous == calls[c].previous
        lease == attempts[t].lease + 1
    IN
    /\ calls[c].phase = "reclaim"
    /\ IF Reclaimable(t, previous.lease)
       THEN /\ Put(t, [attempts[t] EXCEPT !.lease = lease, !.expired = FALSE])
            /\ calls' = [calls EXCEPT ![c].phase = "reconcile", ![c].lease = lease,
                                      ![c].before = previous.before,
                                      ![c].versions = previous.versions,
                                      ![c].previous = NoAttempt]
       ELSE Leave(c) /\ UNCHANGED attempts
    /\ UNCHANGED <<fence, wire, keys, answers, mishaps, overran>>

-----------------------------------------------------------------------------
(***************************************************************************)
(* Reconciliation of an expired attempt, before the mutation is repeated.  *)
(***************************************************************************)

\* Mutant of Pick: the entry after the only candidate is cleaned up.
Pick_next(c, found, cleanup, next) ==
    \/ Cardinality(found) > 1 /\ Leave(c)
    \/ /\ Cardinality(found) = 1
       /\ calls' = [calls EXCEPT ![c].phase = cleanup,
                                 ![c].key = (CHOOSE k \in found : TRUE) + 1]
    \/ found = {} /\ Goto(c, next)

\* One thing that was not there before is cleaned up; more are ambiguous.
Pick(c, found, cleanup, next) ==
    \/ Cardinality(found) > 1 /\ Leave(c)
    \/ /\ Cardinality(found) = 1
       /\ calls' = [calls EXCEPT ![c].phase = cleanup,
                                 ![c].key = CHOOSE k \in found : TRUE]
    \/ found = {} /\ Goto(c, next)

\* HttpProviderConnector.reconcile
Reconcile(c) ==
    /\ calls[c].phase = "reconcile"
    /\ Pick(c, Listed \ calls[c].before, "cleanup", "reconcile_sink")
    /\ UNCHANGED <<fence, attempts, wire, keys, answers, mishaps, overran>>

Cleanup(c) ==
    /\ calls[c].phase = "cleanup"
    /\ Revoke(calls[c].key)
    /\ calls' = [calls EXCEPT ![c].phase = "reconcile_sink", ![c].key = None]
    /\ UNCHANGED <<fence, attempts, wire, answers, mishaps, overran>>

\* BrokerService._reconcile_secret_sink
ReconcileSink(c) ==
    /\ calls[c].phase = "reconcile_sink"
    /\ Pick(c, Enabled \ calls[c].versions, "cleanup_sink", "create")
    /\ UNCHANGED <<fence, attempts, wire, keys, answers, mishaps, overran>>

CleanupSink(c) ==
    /\ calls[c].phase = "cleanup_sink"
    /\ keys' = [keys EXCEPT ![calls[c].key].version = "disabled"]
    /\ calls' = [calls EXCEPT ![c].phase = "create", ![c].key = None]
    /\ UNCHANGED <<fence, attempts, wire, answers, mishaps, overran>>

-----------------------------------------------------------------------------
(***************************************************************************)
(* HttpProviderConnector._create.                                          *)
(***************************************************************************)

ListBefore(c) ==
    /\ calls[c].phase = "create"
    /\ calls' = [calls EXCEPT ![c].phase = "send", ![c].before = Listed]
    /\ UNCHANGED <<fence, attempts, wire, keys, answers, mishaps, overran>>

\* Keys the provider may still have to make.
Asked == {c \in Calls : wire[c].op = "create"}

Send(c) ==
    /\ calls[c].phase = "send"
    /\ Cardinality({k \in Key : keys[k].status # "none"}) + Cardinality(Asked) < MaxKeys
    /\ wire' = [wire EXCEPT ![c] = [op |-> "create", token |-> calls[c].token,
                                    key |-> None]]
    /\ Goto(c, "creating")
    /\ UNCHANGED <<fence, attempts, keys, answers, mishaps, overran>>

\* The provider handles a create; its answer reaches a caller that still waits.
ProviderCreates(c) ==
    /\ wire[c].op = "create"
    /\ \E k \in Key :
          /\ keys[k].status = "none"
          /\ \A j \in 1..(k - 1) : keys[j].status # "none"
          /\ keys' = [keys EXCEPT ![k] = [status |-> "active", version |-> "none",
                                          token |-> wire[c].token]]
          /\ calls' = IF calls[c].phase = "creating"
                      THEN [calls EXCEPT ![c].phase = "store", ![c].key = k]
                      ELSE calls
    /\ wire' = [wire EXCEPT ![c] = NoMessage]
    /\ UNCHANGED <<fence, attempts, answers, mishaps, overran>>

\* The provider never handles it: an error status, or the request is lost.
ProviderRefuses(c) ==
    /\ wire[c].op = "create"
    /\ IF calls[c].phase = "creating"
       THEN Goto(c, "failing") /\ Mishap
       ELSE UNCHANGED <<calls, mishaps>>
    /\ wire' = [wire EXCEPT ![c] = NoMessage]
    /\ UNCHANGED <<fence, attempts, keys, answers, overran>>

\* httpx.TimeoutException is reconciled; any other broken connection is an
\* unexpected exception, which execute turns into a failed result.
NoAnswer(c) ==
    /\ calls[c].phase = "creating"
    /\ (Goto(c, "timedout") \/ Goto(c, "failing"))
    /\ Mishap
    /\ UNCHANGED <<fence, attempts, wire, keys, answers, overran>>

\* HttpProviderConnector._reconcile_ambiguous: exactly one new credential is
\* revoked. Either way AmbiguousMutationError leaves the attempt running.
ReconcileAmbiguous(c) ==
    /\ calls[c].phase = "timedout"
    /\ LET found == Listed \ calls[c].before IN
       IF Cardinality(found) = 1
       THEN calls' = [calls EXCEPT ![c].phase = "orphan",
                                   ![c].key = CHOOSE k \in found : TRUE]
       ELSE Leave(c)
    /\ UNCHANGED <<fence, attempts, wire, keys, answers, mishaps, overran>>

RevokeOrphan(c) ==
    /\ calls[c].phase = "orphan"
    /\ Revoke(calls[c].key)
    /\ Leave(c)
    /\ UNCHANGED <<fence, attempts, wire, answers, mishaps, overran>>

\* A list or a revocation of the connector fails: execute makes it a failed
\* result. A revocation may have been handled all the same.
ConnectorFails(c) ==
    /\ calls[c].phase \in {"create", "timedout", "orphan"}
    /\ \/ UNCHANGED keys
       \/ calls[c].phase = "orphan" /\ Revoke(calls[c].key)
    /\ calls' = [calls EXCEPT ![c].phase = "failing", ![c].key = None]
    /\ Mishap
    /\ UNCHANGED <<fence, attempts, wire, answers, overran>>

-----------------------------------------------------------------------------
(***************************************************************************)
(* BrokerService._store_provider_secret.                                   *)
(***************************************************************************)

StoreSecret(c) ==
    /\ calls[c].phase = "store"
    /\ wire' = [wire EXCEPT ![c] = [op |-> "add", token |-> calls[c].token,
                                    key |-> calls[c].key]]
    /\ Goto(c, "storing")
    /\ UNCHANGED <<fence, attempts, keys, answers, mishaps, overran>>

\* _secret_sink raises before anything is sent.
SinkUnavailable(c) ==
    /\ calls[c].phase = "store"
    /\ Goto(c, "undo")
    /\ Mishap
    /\ UNCHANGED <<fence, attempts, wire, keys, answers, overran>>

\* Secret Manager handles addVersion.
SinkAdds(c) ==
    /\ wire[c].op = "add"
    /\ keys' = [keys EXCEPT ![wire[c].key].version = "enabled"]
    /\ wire' = [wire EXCEPT ![c] = NoMessage]
    /\ IF calls[c].phase = "storing" THEN Goto(c, "checkpoint") ELSE UNCHANGED calls
    /\ UNCHANGED <<fence, attempts, answers, mishaps, overran>>

SinkRefuses(c) ==
    /\ wire[c].op = "add"
    /\ IF calls[c].phase = "storing"
       THEN Goto(c, "compensate") /\ Mishap
       ELSE UNCHANGED <<calls, mishaps>>
    /\ wire' = [wire EXCEPT ![c] = NoMessage]
    /\ UNCHANGED <<fence, attempts, keys, answers, overran>>

\* addVersion raises although the request may be handled yet.
AddFails(c) ==
    /\ calls[c].phase = "storing"
    /\ Goto(c, "compensate")
    /\ Mishap
    /\ UNCHANGED <<fence, attempts, wire, keys, answers, overran>>

\* _compensate_created_credential, which may fail. After an unknown outcome of
\* addVersion its errors are suppressed and the attempt stays running;
\* otherwise the attempt fails.
Compensate(c) ==
    /\ calls[c].phase \in {"compensate", "undo"}
    /\ \/ Revoke(calls[c].key) /\ UNCHANGED mishaps
       \/ UNCHANGED keys /\ Mishap
    /\ IF calls[c].phase = "compensate"
       THEN Leave(c)
       ELSE calls' = [calls EXCEPT ![c].phase = "failing", ![c].key = None]
    /\ UNCHANGED <<fence, attempts, wire, answers, overran>>

-----------------------------------------------------------------------------
(***************************************************************************)
(* The end of execute.                                                     *)
(***************************************************************************)

\* FirestoreBrokerRepository.checkpoint; a conflict is an unexpected exception.
Checkpoint(c) ==
    LET t == calls[c].token
        k == calls[c].key
        a == attempts[t]
    IN
    /\ calls[c].phase = "checkpoint"
    /\ \/ /\ a.status = "running" /\ a.checkpoint \in {None, k}
          /\ Put(t, [a EXCEPT !.checkpoint = k])
          /\ Goto(c, "finish")
       \/ /\ a.status # "running" /\ a.result = k
          /\ Goto(c, "finish") /\ UNCHANGED attempts
       \/ /\ IF a.status = "running" THEN a.checkpoint \notin {None, k} ELSE a.result # k
          /\ calls' = [calls EXCEPT ![c].phase = "failing", ![c].key = None]
          /\ UNCHANGED attempts
    /\ UNCHANGED <<fence, wire, keys, answers, mishaps, overran>>

\* The transaction raises, and may have been committed.
CheckpointFails(c) ==
    LET t == calls[c].token IN
    /\ calls[c].phase = "checkpoint"
    /\ \/ UNCHANGED attempts
       \/ /\ attempts[t].status = "running"
          /\ attempts[t].checkpoint \in {None, calls[c].key}
          /\ Put(t, [attempts[t] EXCEPT !.checkpoint = calls[c].key])
    /\ calls' = [calls EXCEPT ![c].phase = "failing", ![c].key = None]
    /\ Mishap
    /\ UNCHANGED <<fence, wire, keys, answers, overran>>

\* FirestoreBrokerRepository.finish on the attempt.
Finished(a, result) ==
    [a EXCEPT !.status = IF result = None THEN "failed" ELSE "succeeded",
              !.result = result, !.checkpoint = None]

\* finish raises at an attempt that was never begun or has another result.
Accepted(a, result) ==
    a.status = "running" \/ (a.status # "none" /\ a.result = result)

\* Mutant of Finish: a call answers its own result although another was stored.
Finish_deaf(c) ==
    LET t == calls[c].token
        result == calls[c].key
        a == attempts[t]
    IN
    /\ calls[c].phase \in {"finish", "failing"}
    /\ IF a.status = "running" THEN Put(t, Finished(a, result)) ELSE UNCHANGED attempts
    /\ answers' = [answers EXCEPT ![t] = @ \cup {result}]
    /\ Leave(c)
    /\ UNCHANGED <<fence, wire, keys, mishaps, overran>>

\* finish writes the result; on a terminal attempt it accepts the same result
\* and raises at another. No answer is given either when an unexpected exception
\* is recorded and raised again, or when the audit record after it fails.
Finish(c) ==
    LET t == calls[c].token
        result == calls[c].key
        a == attempts[t]
    IN
    /\ calls[c].phase \in {"finish", "failing"}
    /\ IF a.status = "running" THEN Put(t, Finished(a, result)) ELSE UNCHANGED attempts
    /\ \/ Accepted(a, result) /\ answers' = [answers EXCEPT ![t] = @ \cup {result}]
       \/ UNCHANGED answers
    /\ Leave(c)
    /\ UNCHANGED <<fence, wire, keys, mishaps, overran>>

-----------------------------------------------------------------------------
\* The call ends without a trace: its instance is stopped, or a read, a
\* cleanup or the last transaction raises to the caller.
Abandon(c) ==
    /\ calls[c].phase # "idle"
    /\ Leave(c)
    /\ Mishap
    /\ UNCHANGED <<fence, attempts, wire, keys, answers, overran>>

\* The calls at work on a request, and those of them whose lease is the present one.
Works(c, t) == calls[c].phase \in Working /\ calls[c].token = t /\ calls[c].lease # 0
Holders(t) == {c \in Calls : Works(c, t) /\ calls[c].lease = attempts[t].lease}

\* lease_expires_at passes. With a call still at work under it, it has stalled.
Expire(t) ==
    /\ attempts[t].status = "running" /\ ~attempts[t].expired
    /\ attempts[t].lease < MaxLeases
    /\ \/ Holders(t) = {} /\ UNCHANGED <<mishaps, overran>>
       \/ Holders(t) # {} /\ Mishap /\ overran' = TRUE
    /\ Put(t, [attempts[t] EXCEPT !.expired = TRUE])
    /\ UNCHANGED <<fence, calls, wire, keys, answers>>

\* The run is interrupted, recovers and takes up CREATE under its next token.
NextFence ==
    /\ fence < MaxToken
    /\ fence' = fence + 1
    /\ overran' = (overran \/ \E c \in Calls : calls[c].phase # "idle")
    /\ UNCHANGED <<attempts, calls, wire, keys, answers, mishaps>>

-----------------------------------------------------------------------------
Init ==
    /\ fence = 1
    /\ attempts = [t \in Token |-> NoAttempt]
    /\ calls = [c \in Calls |-> Idle]
    /\ wire = [c \in Calls |-> NoMessage]
    /\ keys = [k \in Key |-> [status |-> "none", version |-> "none", token |-> None]]
    /\ answers = [t \in Token |-> {}]
    /\ mishaps = 0
    /\ overran = FALSE

Next ==
    \/ \E c \in Calls, t \in Token : Receive(c, t)
    \/ \E c \in Calls :
          \/ ReturnStored(c) \/ Reject(c) \/ Proceed(c)
          \/ Prepare(c) \/ PrepareSink(c) \/ Begin(c) \/ Reclaim(c)
          \/ Reconcile(c) \/ Cleanup(c) \/ ReconcileSink(c) \/ CleanupSink(c)
          \/ ListBefore(c) \/ Send(c) \/ ProviderCreates(c) \/ ProviderRefuses(c)
          \/ NoAnswer(c) \/ ReconcileAmbiguous(c) \/ RevokeOrphan(c) \/ ConnectorFails(c)
          \/ StoreSecret(c) \/ SinkUnavailable(c) \/ SinkAdds(c) \/ SinkRefuses(c)
          \/ AddFails(c) \/ Compensate(c)
          \/ Checkpoint(c) \/ CheckpointFails(c) \/ Finish(c) \/ Abandon(c)
    \/ \E t \in Token : Expire(t)
    \/ NextFence

Spec == Init /\ [][Next]_vars

-----------------------------------------------------------------------------
(* Properties *)

\* Attempts, calls, messages in flight and provider credentials keep their
\* types; in particular a lease or checkpoint never outgrows its contract
\* (contracts ToolAttempt).
TypeOK ==
    /\ fence \in Token
    /\ attempts \in [Token -> Attempt]
    /\ calls \in [Calls -> Call]
    /\ wire \in [Calls -> Message]
    /\ keys \in [Key -> Credential]
    /\ answers \in [Token -> SUBSET Result]
    /\ mishaps \in Nat
    /\ overran \in BOOLEAN

\* One outcome per request: whatever call answers a coordinator, and however
\* often a request is repeated, every answer is the stored result.
OneAnswer ==
    \A t \in Token : \A result \in answers[t] :
        attempts[t].status \in {"succeeded", "failed"} /\ attempts[t].result = result

\* A terminal attempt never changes again, whichever late call finishes it.
ResultForGood ==
    [][\A t \in Token : attempts[t].status \in {"succeeded", "failed"}
                            => attempts'[t] = attempts[t]]_vars

\* As long as leases and fencing tokens outlast the calls that hold them,
\* repetitions of a request never work on it side by side: of all that see an expired lease one reclaims it.
OneWorker ==
    ~overran =>
        \A t \in Token : Cardinality({c \in Calls : Works(c, t)}) <= 1

\* A request that succeeded, or is about to, names a credential the provider
\* accepts and a secret version consumers can read: reconciliation and
\* compensation never take away what was reported, unless a lease or a fencing
\* token ended under a call at work.
SucceededUsable ==
    ~overran =>
        \A t \in Token :
            LET a == attempts[t]
                k == IF a.status = "succeeded" THEN a.result ELSE a.checkpoint
            IN k # None => keys[k].status = "active" /\ keys[k].version = "enabled"

\* infra/README: "Stale workers cannot commit." A call writes a checkpoint or a
\* result of its own only under the lease it was given.
StaleCannotCommit ==
    [][\A c \in Calls : LET t == calls[c].token IN
          calls[c].phase \in {"checkpoint", "finish", "failing"} /\ calls[c].lease # 0
              /\ calls'[c] # calls[c] /\ attempts'[t] # attempts[t]
          => calls[c].lease = attempts[t].lease]_vars

=============================================================================
