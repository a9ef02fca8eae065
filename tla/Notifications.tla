----------------------------- MODULE Notifications -----------------------------
(***************************************************************************)
(* Notifications: a run event that deserves one is emitted, once, together *)
(* with a delivery to every endpoint that is enabled, and drains send the  *)
(* deliveries to the provider of their endpoint.                           *)
(*                                                                         *)
(* Endpoints are switched on and off meanwhile. An emission reads them     *)
(* before its transaction; a drain reads them when it claims a delivery,   *)
(* and sends after it. Drains overlap: each leases a batch, sends it at    *)
(* once and settles each delivery in a transaction of its own. A drain may *)
(* stall, die or be left without an answer. Pub/Sub and the providers are  *)
(* external; providers know a delivery that is sent again by its id, so    *)
(* that its receipt is always the same.                                    *)
(***************************************************************************)
EXTENDS Naturals

CONSTANTS
    Notices,        \* run events that run_notification maps to a notification
    Endpoints,      \* endpoints whose event kinds include that of the notices
    Drains,         \* calls of drain under way, each an owner id of its own
    None,
    MaxDeliveries,  \* max_delivery_attempts of the subscription
    MaxAttempts,    \* maximum_attempts of NotificationDispatcher
    MaxChanges,     \* bound: revisions of an endpoint
    MaxMishaps      \* bound: crashes and stalls

VARIABLES
    endpoint,   \* endpoint -> its document
    emission,   \* notice -> its message in the subscription and the call that emits it
    notice,     \* notice -> its document
    delivery,   \* <<notice, endpoint>> -> its document
    drain,      \* drain -> its phase in the loop of drain
    claim,      \* drain -> delivery -> the claim it works on
    sent,       \* <<delivery, endpoint revision>>: what a provider has taken
    mishaps     \* bounded by MaxMishaps

vars == <<endpoint, emission, notice, delivery, drain, claim, sent, mishaps>>

-----------------------------------------------------------------------------
Deliveries == Notices \X Endpoints
Revision == 0..MaxChanges
Attempts == 0..(MaxAttempts + MaxMishaps)

Endpoint == [exists : BOOLEAN, enabled : BOOLEAN, revision : Revision]
Emission == [at : {"stored", "listed", "acknowledged", "dead"},
             deliveries : 0..MaxDeliveries, selected : SUBSET (Endpoints \X Revision)]
Delivery == [state : {"absent", "pending", "sending", "sent", "failed"}, revision : Revision,
             attempts : Attempts, owner : Drains \cup {None}, leased : BOOLEAN, waiting : BOOLEAN]
Claim == [at : {"none", "claimed", "accepted", "retryable", "terminal"},
          enabled : BOOLEAN, revision : Revision, attempts : Attempts]

NewEndpoint == [exists |-> TRUE, enabled |-> TRUE, revision |-> 0]
NoDelivery == [state |-> "absent", revision |-> 0, attempts |-> 0, owner |-> None,
               leased |-> FALSE, waiting |-> FALSE]
NoClaim == [at |-> "none", enabled |-> FALSE, revision |-> 0, attempts |-> 0]

Put(x, document) == delivery' = [delivery EXCEPT ![x] = document]
Released(x) == [delivery[x] EXCEPT !.owner = None, !.leased = FALSE]
Hold(d, x, value) == claim' = [claim EXCEPT ![d][x] = value]
At(d, x, where) == claim[d][x].at = where
Busy(d) == \E x \in Deliveries : ~At(d, x, "none")
Emitted(n) == notice[n] # "absent"
Mishap == mishaps < MaxMishaps /\ mishaps' = mishaps + 1

Init ==
    /\ endpoint = [a \in Endpoints |-> [exists |-> FALSE, enabled |-> FALSE, revision |-> 0]]
    /\ emission = [n \in Notices |-> [at |-> "stored", deliveries |-> 0, selected |-> {}]]
    /\ notice = [n \in Notices |-> "absent"]
    /\ delivery = [x \in Deliveries |-> NoDelivery]
    /\ drain = [d \in Drains |-> "idle"]
    /\ claim = [d \in Drains |-> [x \in Deliveries |-> NoClaim]]
    /\ sent = {}
    /\ mishaps = 0

-----------------------------------------------------------------------------
(***************************************************************************)
(* Endpoints                                                               *)
(***************************************************************************)

\* register_endpoint, on behalf of a member or of somebody invited. A replay writes
\* nothing.
Register(a) ==
    /\ ~endpoint[a].exists
    /\ endpoint' = [endpoint EXCEPT ![a] = NewEndpoint]
    /\ UNCHANGED <<emission, notice, delivery, drain, claim, sent, mishaps>>

\* set_endpoint_enabled, with the revision the caller has seen.
Switch(a) ==
    /\ endpoint[a].exists /\ endpoint[a].revision < MaxChanges
    /\ endpoint' = [endpoint EXCEPT ![a].enabled = ~@, ![a].revision = @ + 1]
    /\ UNCHANGED <<emission, notice, delivery, drain, claim, sent, mishaps>>

-----------------------------------------------------------------------------
(***************************************************************************)
(* From the subscription to the deliveries                                 *)
(***************************************************************************)

\* list_endpoints, before the transaction of emit.
List(n) ==
    /\ emission[n].at = "stored"
    /\ emission' = [emission EXCEPT ![n].at = "listed",
           ![n].selected = {<<a, endpoint[a].revision>> :
                            a \in {b \in Endpoints : endpoint[b].exists /\ endpoint[b].enabled}}]
    /\ UNCHANGED <<endpoint, notice, delivery, drain, claim, sent, mishaps>>

Answer(n) == emission' = [emission EXCEPT ![n].at = "acknowledged", ![n].selected = {}]

\* The call failed, or its answer is lost: the message comes again, or is given up.
Again(n) ==
    emission' = [emission EXCEPT ![n] =
        [at |-> IF @.deliveries + 1 >= MaxDeliveries THEN "dead" ELSE "stored",
         deliveries |-> @.deliveries + 1, selected |-> {}]]

\* All that was selected is as it was then.
Unchanged(n) == \A s \in emission[n].selected : endpoint[s[1]].revision = s[2]

Create(n) ==
    /\ notice' = [notice EXCEPT ![n] = "unread"]
    /\ delivery' = [x \in Deliveries |->
           IF x[1] = n /\ \E s \in emission[n].selected : s[1] = x[2]
           THEN [NoDelivery EXCEPT !.state = "pending", !.revision = endpoint[x[2]].revision]
           ELSE delivery[x]]

\* The transaction of emit: nothing new if the event came before, an error if a
\* selected endpoint has changed, or if the call dies.
Emit(n) ==
    /\ emission[n].at = "listed"
    /\ \/ Emitted(n) /\ UNCHANGED <<notice, delivery>> /\ Answer(n)
       \/ ~Emitted(n) /\ Unchanged(n) /\ Create(n) /\ (Answer(n) \/ Again(n))
       \/ UNCHANGED <<notice, delivery>> /\ Again(n)
    /\ UNCHANGED <<endpoint, drain, claim, sent, mishaps>>

MarkRead(n) ==
    /\ notice[n] = "unread"
    /\ notice' = [notice EXCEPT ![n] = "read"]
    /\ UNCHANGED <<endpoint, emission, delivery, drain, claim, sent, mishaps>>

-----------------------------------------------------------------------------
(***************************************************************************)
(* From the deliveries to the providers                                    *)
(***************************************************************************)

\* Mutant of Claimable: a delivery whose drain is gone stays with it.
Claimable_pending(x) == delivery[x].state = "pending" /\ ~delivery[x].waiting

\* _claim_one: pending and available, or abandoned by the drain that was sending it.
Claimable(x) ==
    \/ delivery[x].state = "pending" /\ ~delivery[x].waiting
    \/ delivery[x].state = "sending" /\ ~delivery[x].leased

\* A drain begins with an owner id that no delivery knows.
Begin(d) ==
    /\ drain[d] = "idle" /\ ~Busy(d)
    /\ \A x \in Deliveries : delivery[x].owner # d
    /\ \E x \in Deliveries : Claimable(x)
    /\ drain' = [drain EXCEPT ![d] = "claiming"]
    /\ UNCHANGED <<endpoint, emission, notice, delivery, claim, sent, mishaps>>

ClaimOne(d, x) ==
    /\ drain[d] = "claiming"
    /\ Claimable(x) /\ At(d, x, "none")
    /\ Put(x, [delivery[x] EXCEPT !.state = "sending", !.attempts = @ + 1,
                                  !.owner = d, !.leased = TRUE])
    /\ Hold(d, x, [at |-> "claimed", enabled |-> endpoint[x[2]].enabled,
                   revision |-> endpoint[x[2]].revision, attempts |-> delivery[x].attempts + 1])
    /\ UNCHANGED <<endpoint, emission, notice, drain, sent, mishaps>>

\* The batch is full, or there is nothing more to claim; an empty one ends the drain.
Claimed(d) ==
    /\ drain[d] = "claiming"
    /\ Busy(d) \/ \A x \in Deliveries : ~Claimable(x)
    /\ drain' = [drain EXCEPT ![d] = IF Busy(d) THEN "sending" ELSE "idle"]
    /\ UNCHANGED <<endpoint, emission, notice, delivery, claim, sent, mishaps>>

\* Mutant of AsEmitted: only the switch is looked at.
AsEmitted_enabled(d, x) == claim[d][x].enabled

\* The endpoint, as the claim read it, is enabled and as it was at the emission.
AsEmitted(d, x) == claim[d][x].enabled /\ claim[d][x].revision = delivery[x].revision

\* _send up to the transaction that settles the delivery. An error does not say that
\* the provider has not taken the message.
Send(d, x) ==
    /\ drain[d] # "claiming" /\ At(d, x, "claimed")
    /\ IF ~AsEmitted(d, x)
       THEN Hold(d, x, [claim[d][x] EXCEPT !.at = "terminal"]) /\ UNCHANGED sent
       ELSE LET taken == sent \cup {<<x, claim[d][x].revision>>}
            IN \/ Hold(d, x, [claim[d][x] EXCEPT !.at = "accepted"]) /\ sent' = taken
               \/ /\ sent' \in {sent, taken}
                  /\ \E outcome \in {"retryable", "terminal"} :
                       /\ outcome = "retryable" => claim[d][x].attempts < MaxAttempts
                       /\ Hold(d, x, [claim[d][x] EXCEPT !.at = outcome])
    /\ UNCHANGED <<endpoint, emission, notice, delivery, drain, mishaps>>

\* _finish: only the owner of a delivery that is being sent settles it. Where it
\* raises, gather raises and the drain claims no further batch, while what else
\* it sends goes on.
Finish(d, x) ==
    LET mine == delivery[x].state = "sending" /\ delivery[x].owner = d
        heard == delivery[x].state = "sent" /\ At(d, x, "accepted")
        last == \A y \in Deliveries \ {x} : At(d, y, "none")
    IN /\ claim[d][x].at \in {"accepted", "retryable", "terminal"}
       /\ IF mine
          THEN Put(x, [Released(x) EXCEPT
                 !.state = CASE At(d, x, "accepted") -> "sent"
                             [] At(d, x, "retryable") -> "pending"
                             [] At(d, x, "terminal") -> "failed",
                 !.waiting = At(d, x, "retryable")])
          ELSE UNCHANGED delivery
       /\ Hold(d, x, NoClaim)
       /\ drain' = [drain EXCEPT ![d] = IF ~mine /\ ~heard THEN "idle"
                                        ELSE IF last /\ @ = "sending" THEN "claiming" ELSE @]
       /\ UNCHANGED <<endpoint, emission, notice, sent, mishaps>>

-----------------------------------------------------------------------------
(***************************************************************************)
(* Time and failure                                                        *)
(***************************************************************************)

BackoffOver(x) ==
    /\ delivery[x].waiting
    /\ Put(x, [delivery[x] EXCEPT !.waiting = FALSE])
    /\ UNCHANGED <<endpoint, emission, notice, drain, claim, sent, mishaps>>

\* The lease of a drain that is gone runs out, or one under a drain that stalls.
LeaseOver(x) ==
    /\ delivery[x].leased
    /\ IF At(delivery[x].owner, x, "none") THEN UNCHANGED mishaps ELSE Mishap
    /\ Put(x, [delivery[x] EXCEPT !.leased = FALSE])
    /\ UNCHANGED <<endpoint, emission, notice, drain, claim, sent>>

Crash(d) ==
    /\ Busy(d)
    /\ Mishap
    /\ drain' = [drain EXCEPT ![d] = "idle"]
    /\ claim' = [claim EXCEPT ![d] = [x \in Deliveries |-> NoClaim]]
    /\ UNCHANGED <<endpoint, emission, notice, delivery, sent>>

Work(d) ==
    \/ Begin(d) \/ Claimed(d)
    \/ \E x \in Deliveries : ClaimOne(d, x) \/ Send(d, x) \/ Finish(d, x)

Next ==
    \/ \E a \in Endpoints : Register(a) \/ Switch(a)
    \/ \E n \in Notices : List(n) \/ Emit(n) \/ MarkRead(n)
    \/ \E x \in Deliveries : BackoffOver(x) \/ LeaseOver(x)
    \/ \E d \in Drains : Work(d) \/ Crash(d)

Spec == Init /\ [][Next]_vars

\* The scheduler calls drain every minute, calls end one way or the other and time
\* passes; that a message is taken is not assumed.
Fairness ==
    /\ \A x \in Deliveries : WF_vars(BackoffOver(x)) /\ WF_vars(LeaseOver(x))
    /\ \A d \in Drains : WF_vars(Work(d))

-----------------------------------------------------------------------------
TypeOK ==
    /\ endpoint \in [Endpoints -> Endpoint]
    /\ emission \in [Notices -> Emission]
    /\ notice \in [Notices -> {"absent", "unread", "read"}]
    /\ delivery \in [Deliveries -> Delivery]
    /\ drain \in [Drains -> {"idle", "claiming", "sending"}]
    /\ claim \in [Drains -> [Deliveries -> Claim]]
    /\ sent \subseteq Deliveries \X Revision
    /\ mishaps \in 0..MaxMishaps

\* Nobody is written to who switched the endpoint off between the emission and the
\* claim, be it on again or not: what a provider takes goes to the endpoint as the
\* emission found it. And what is marked as sent was taken.
SentAsEmitted ==
    \A x \in Deliveries :
        /\ \A revision \in Revision : <<x, revision>> \in sent => revision = delivery[x].revision
        /\ delivery[x].state = "sent" => <<x, delivery[x].revision>> \in sent

\* Every delivery comes to an end, which is for good, whoever claimed it and died,
\* stalled or was left without an answer.
EveryDeliverySettles ==
    \A x \in Deliveries :
        []<>(delivery[x].state \in {"absent", "sent", "failed"})
=============================================================================
