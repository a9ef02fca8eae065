----------------------------- MODULE BrowserEgress -----------------------------
(***************************************************************************)
(* BrowserEgressManager: the one gateway of a region through which every   *)
(* browser worker reaches the providers. It is built when the first worker *)
(* asks for it, shared, and removed when the last one is gone.             *)
(*                                                                         *)
(* Every process that boots or deletes a worker changes one document, and  *)
(* whoever finds that the gateway must be built or removed writes a token  *)
(* of its own and does the work itself, for minutes, outside of any        *)
(* transaction. A builder that takes too long is taken over and goes on    *)
(* all the same; processes die; leases run out. The cloud's resources are  *)
(* external: building or removing them succeeds or fails as a whole.       *)
(***************************************************************************)
EXTENDS Naturals, FiniteSets

CONSTANTS
    Workers,      \* browser workers, each with the process that boots it
    Reapers,      \* processes that run reconcile
    None,
    MaxTokens,    \* bound: operation tokens
    MaxCrashes    \* bound: processes that die

VARIABLES
    egress,     \* the document
    stale,      \* its PROVISIONING is older than _PROVISIONING_TIMEOUT
    lapsed,     \* workers whose expires_at has passed
    procs,      \* process -> [at, token]
    tokens,     \* operation tokens made
    crashes     \* bounded by MaxCrashes

vars == <<egress, stale, lapsed, procs, tokens, crashes>>

-----------------------------------------------------------------------------
Processes == Workers \cup Reapers
Token == 1..MaxTokens

Status == {"absent", "provisioning", "ready", "deleting", "failed"}
Egress == [status : Status, leases : SUBSET Workers, token : Token \cup {None}]

\* Where a process stands: waiting for the gateway, about to ask again, building
\* it, removing what nobody is left to use ("undoing"), granted, removing it.
Position == {"idle", "waiting", "asking", "building", "undoing", "granted", "removing"}
Process == [at : Position, token : Token \cup {None}]
Rest(at) == [at |-> at, token |-> None]

Unlapsed(leases) == leases \ lapsed
NewToken == tokens < MaxTokens /\ tokens' = tokens + 1

Unused == egress.status \in {"absent", "failed"}
Overdue == egress.status = "provisioning" /\ stale

-----------------------------------------------------------------------------
(***************************************************************************)
(* The changes of the document, each one transaction.                      *)
(***************************************************************************)

\* _request_acquire: the caller's own lease is written whether it is over or not.
RequestAcquire(w, t) ==
    LET leases == Unlapsed(egress.leases) \cup {w}
    IN IF Unused \/ Overdue
       THEN [status |-> "provisioning", leases |-> leases, token |-> t]
       ELSE [egress EXCEPT !.leases = leases]

\* _request_release.
RequestRelease(w, t) ==
    LET leases == Unlapsed(egress.leases) \ {w}
    IN IF leases = {} /\ egress.status \in {"ready", "failed"}
       THEN [status |-> "deleting", leases |-> leases, token |-> t]
       ELSE [egress EXCEPT !.leases = leases]

\* _request_reconcile.
RequestReconcile(t) ==
    LET leases == Unlapsed(egress.leases)
    IN IF leases # {} /\ (Unused \/ Overdue)
       THEN [status |-> "provisioning", leases |-> leases, token |-> t]
       ELSE IF leases = {} /\ (egress.status \in {"ready", "failed"} \/ Overdue)
            THEN [status |-> "deleting", leases |-> leases, token |-> t]
            ELSE [egress EXCEPT !.leases = leases]

\* Mutant of Current: only the status tells whether an operation still counts.
Current_any_token(t, status) == egress.status = status

\* An operation that was taken over, or whose state is gone, changes nothing.
Current(t, status) == egress.token = t /\ egress.status = status

\* _finish_provision: nobody may be left to use what was built.
FinishProvision ==
    LET leases == Unlapsed(egress.leases)
    IN [egress EXCEPT !.status = IF leases # {} THEN "ready" ELSE "deleting",
                      !.leases = leases]

\* _finish_delete.
FinishDelete == [status |-> "absent", leases |-> Unlapsed(egress.leases), token |-> None]

\* _failed: the token alone decides.
Failed(t) ==
    IF egress.token = t THEN [egress EXCEPT !.status = "failed", !.token = None] ELSE egress

-----------------------------------------------------------------------------
(***************************************************************************)
(* acquire, called before the worker of a session is created.              *)
(***************************************************************************)

Init ==
    /\ egress = [status |-> "absent", leases |-> {}, token |-> None]
    /\ stale = FALSE
    /\ lapsed = {}
    /\ procs = [p \in Processes |-> Rest("idle")]
    /\ tokens = 0
    /\ crashes = 0

\* What acquire does with the document an update returned.
Proceed(w, t) ==
    procs' = [procs EXCEPT ![w] =
        IF egress'.status = "ready" THEN Rest("granted")
        ELSE IF egress'.status = "provisioning" /\ egress'.token = t
             THEN [at |-> "building", token |-> t]
             ELSE Rest("waiting")]

\* The first request of acquire, and each one made after the wait.
Acquire(w) ==
    /\ procs[w].at \in {"idle", "asking"}
    /\ procs[w].at = "idle" => w \notin lapsed
    /\ NewToken
    /\ egress' = RequestAcquire(w, tokens')
    /\ stale' = FALSE
    /\ Proceed(w, tokens')
    /\ UNCHANGED <<lapsed, crashes>>

\* The loop reads the document every two seconds.
Poll(w) ==
    /\ procs[w].at = "waiting"
    /\ \/ /\ egress.status = "ready"
          /\ procs' = [procs EXCEPT ![w] = Rest("granted")]
       \/ /\ Unused \/ Overdue
          /\ procs' = [procs EXCEPT ![w] = Rest("asking")]
    /\ UNCHANGED <<egress, stale, lapsed, tokens, crashes>>

\* browser-egress-timeout: the lease stays until it lapses.
GiveUp(w) ==
    /\ procs[w].at \in {"waiting", "asking"}
    /\ procs' = [procs EXCEPT ![w] = Rest("idle")]
    /\ UNCHANGED <<egress, stale, lapsed, tokens, crashes>>

-----------------------------------------------------------------------------
(***************************************************************************)
(* _provision and _delete, run by whoever wrote the token.                 *)
(***************************************************************************)

\* Where a process goes after its operation: acquire waits again.
Back(p) == Rest(IF p \in Workers THEN "waiting" ELSE "idle")

Built(p) ==
    LET t == procs[p].token
    IN /\ procs[p].at = "building"
       /\ IF Current(t, "provisioning")
          THEN egress' = FinishProvision /\ stale' = FALSE
          ELSE UNCHANGED <<egress, stale>>
       /\ procs' = [procs EXCEPT ![p] =
              IF egress'.status = "deleting" /\ egress'.token = t
              THEN [at |-> "undoing", token |-> t] ELSE Back(p)]
       /\ UNCHANGED <<lapsed, tokens, crashes>>

\* acquire waits a retryable failure out; any other ends the process.
Fails(p) ==
    /\ procs[p].at \in {"building", "undoing", "removing"}
    /\ egress' = Failed(procs[p].token)
    /\ stale' = (stale /\ egress' = egress)
    /\ \/ procs' = [procs EXCEPT ![p] = Rest("idle")]
       \/ /\ p \in Workers /\ procs[p].at # "removing"
          /\ procs' = [procs EXCEPT ![p] = Rest("waiting")]
    /\ UNCHANGED <<lapsed, tokens, crashes>>

Removed(p) ==
    /\ procs[p].at \in {"undoing", "removing"}
    /\ IF Current(procs[p].token, "deleting")
       THEN egress' = FinishDelete /\ stale' = FALSE
       ELSE UNCHANGED <<egress, stale>>
    /\ procs' = [procs EXCEPT ![p] = IF procs[p].at = "undoing" THEN Back(p) ELSE Rest("idle")]
    /\ UNCHANGED <<lapsed, tokens, crashes>>

-----------------------------------------------------------------------------
(***************************************************************************)
(* release, called when the worker is deleted, and reconcile.              *)
(***************************************************************************)

Release(w) ==
    /\ procs[w].at = "granted"
    /\ NewToken
    /\ egress' = RequestRelease(w, tokens')
    /\ stale' = FALSE
    /\ procs' = [procs EXCEPT ![w] =
           IF egress'.status = "deleting" /\ egress'.token = tokens'
           THEN [at |-> "removing", token |-> tokens'] ELSE Rest("idle")]
    /\ UNCHANGED <<lapsed, crashes>>

Reconcile(r) ==
    /\ procs[r].at = "idle"
    /\ NewToken
    /\ egress' = RequestReconcile(tokens')
    /\ stale' = FALSE
    /\ procs' = [procs EXCEPT ![r] =
           IF egress'.token # tokens' THEN Rest("idle")
           ELSE [at |-> IF egress'.status = "provisioning" THEN "building" ELSE "removing",
                 token |-> tokens']]
    /\ UNCHANGED <<lapsed, crashes>>

-----------------------------------------------------------------------------
(***************************************************************************)
(* Time and crashes.                                                       *)
(***************************************************************************)

Lapse(w) ==
    /\ w \notin lapsed /\ procs[w].at # "idle"
    /\ lapsed' = lapsed \cup {w}
    /\ UNCHANGED <<egress, stale, procs, tokens, crashes>>

\* An operation outlives _PROVISIONING_TIMEOUT, or nobody is left to end it.
GrowStale ==
    /\ egress.status = "provisioning" /\ ~stale
    /\ stale' = TRUE
    /\ UNCHANGED <<egress, lapsed, procs, tokens, crashes>>

Crash(p) ==
    /\ crashes < MaxCrashes
    /\ procs[p].at \notin {"idle", "granted"}
    /\ procs' = [procs EXCEPT ![p] = Rest("idle")]
    /\ crashes' = crashes + 1
    /\ UNCHANGED <<egress, stale, lapsed, tokens>>

Next ==
    \/ \E w \in Workers :
          Acquire(w) \/ Poll(w) \/ GiveUp(w) \/ Release(w) \/ Lapse(w)
    \/ \E p \in Processes :
          Built(p) \/ Removed(p) \/ Fails(p) \/ Crash(p)
    \/ \E r \in Reapers : Reconcile(r)
    \/ GrowStale

Spec == Init /\ [][Next]_vars

-----------------------------------------------------------------------------
TypeOK ==
    /\ egress \in Egress
    /\ egress.status \in {"provisioning", "deleting"} => egress.token # None
    /\ stale \in BOOLEAN
    /\ lapsed \subseteq Workers
    /\ procs \in [Processes -> Process]
    /\ tokens \in 0..MaxTokens
    /\ crashes \in 0..MaxCrashes

\* The gateway is shared until the last worker is gone: while a worker that was
\* granted egress still holds an unexpired lease, the document says READY, the
\* lease is in it, and no process is removing the gateway, whoever was taken over,
\* failed, died or released meanwhile.
GrantedStaysOpen ==
    \A w \in Workers :
        procs[w].at = "granted" /\ w \notin lapsed =>
            /\ egress.status = "ready" /\ w \in egress.leases
            /\ \A p \in Processes : procs[p].at \notin {"undoing", "removing"}
=============================================================================
