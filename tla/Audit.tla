--------------------------------- MODULE Audit ---------------------------------
(***************************************************************************)
(* The audit trail of an organisation: every run event that Pub/Sub holds  *)
(* is appended to a hash chain under an id of its own, and every event of  *)
(* the chain is written to Cloud Logging in the chain's order.             *)
(*                                                                         *)
(* Pub/Sub delivers at least once and in no order across runs, and gives a *)
(* message up to its dead-letter topic. The writing is done by drains that *)
(* overlap: each leases the next event of the chain, writes it outside of  *)
(* any transaction and settles it in another one. A drain may stall, die   *)
(* or be left without an answer. Pub/Sub and Cloud Logging are external;   *)
(* the log knows an entry that is written again by its insertId.           *)
(***************************************************************************)
EXTENDS Naturals, Sequences, FiniteSets, SequencesExt

CONSTANTS
    Events,         \* run events
    Drains,         \* calls of drain under way, each an owner id of its own
    None,
    MaxDeliveries,  \* max_delivery_attempts of the subscription
    MaxAttempts,    \* maximum_attempts of AuditPublisher
    MaxMishaps      \* bound: crashes and stalls

VARIABLES
    message,    \* run event -> [status, deliveries] in the subscription
    chain,      \* the appended events; the position is the sequence number
    outbox,     \* appended event -> its outbox document
    cursor,     \* events of the chain that are settled
    drain,      \* drain -> the claim it works on
    log,        \* the entries Cloud Logging has
    mishaps     \* bounded by MaxMishaps

vars == <<message, chain, outbox, cursor, drain, log, mishaps>>

-----------------------------------------------------------------------------
Appended == ToSet(chain)
Before(e, f) == \E m, n \in DOMAIN chain : m < n /\ chain[m] = e /\ chain[n] = f

Message == [status : {"unsent", "stored", "acknowledged", "dead"}, deliveries : 0..MaxDeliveries]
Outbox == [status : {"queued", "logged", "dead"}, attempts : 0..(MaxAttempts + MaxMishaps),
           owner : Drains \cup {None}, leased : BOOLEAN, waiting : BOOLEAN]
Queued == [status |-> "queued", attempts |-> 0, owner |-> None, leased |-> FALSE, waiting |-> FALSE]
Drain == [at : {"idle", "claimed", "accepted", "error"}, event : Events \cup {None},
          attempts : 0..(MaxAttempts + MaxMishaps)]
Idle == [at |-> "idle", event |-> None, attempts |-> 0]

Put(e, document) == outbox' = [outbox EXCEPT ![e] = document]
Settled(e) == outbox[e].status # "queued"
Released(e) == [outbox[e] EXCEPT !.owner = None, !.leased = FALSE]
Settle(e, status) == Put(e, [Released(e) EXCEPT !.status = status]) /\ cursor' = cursor + 1
Mishap == mishaps < MaxMishaps /\ mishaps' = mishaps + 1

Init ==
    /\ message = [e \in Events |-> [status |-> "unsent", deliveries |-> 0]]
    /\ chain = <<>>
    /\ outbox = [e \in Events |-> Queued]
    /\ cursor = 0
    /\ drain = [d \in Drains |-> Idle]
    /\ log = {}
    /\ mishaps = 0

-----------------------------------------------------------------------------
(***************************************************************************)
(* From the subscription to the chain                                      *)
(***************************************************************************)

\* The publisher (module EventOutbox) has stored the message.
Publish(e) ==
    /\ message[e].status = "unsent"
    /\ message' = [message EXCEPT ![e].status = "stored"]
    /\ UNCHANGED <<chain, outbox, cursor, drain, log, mishaps>>

\* append: one transaction, which finds the event of an earlier delivery.
AppendEvent(e) ==
    IF e \in Appended THEN UNCHANGED <<chain, outbox>>
    ELSE /\ chain' = Append(chain, e)
         /\ outbox' = [outbox EXCEPT ![e] = Queued]

\* One delivery: the event is appended and the message acknowledged, or the answer
\* or the call itself is lost. The last delivery allowed may be lost too.
Deliver(e) ==
    /\ message[e].status = "stored"
    /\ \/ /\ AppendEvent(e)
          /\ message' = [message EXCEPT ![e].status = "acknowledged"]
       \/ /\ AppendEvent(e) \/ UNCHANGED <<chain, outbox>>
          /\ message' = [message EXCEPT ![e] =
                [status |-> IF @.deliveries + 1 >= MaxDeliveries THEN "dead" ELSE "stored",
                 deliveries |-> @.deliveries + 1]]
    /\ UNCHANGED <<cursor, drain, log, mishaps>>

-----------------------------------------------------------------------------
(***************************************************************************)
(* From the chain to the log                                               *)
(***************************************************************************)

\* Mutant of Claimable: an event need not be the next one of its chain.
Claimable_out_of_turn(e) ==
    ~Settled(e) /\ ~outbox[e].waiting /\ ~outbox[e].leased

\* Mutant of Claimable: an event whose attempts are spent is not claimed again.
Claimable_with_attempts(e) ==
    /\ ~Settled(e) /\ ~outbox[e].waiting /\ ~outbox[e].leased
    /\ chain[cursor + 1] = e
    /\ outbox[e].attempts < MaxAttempts

\* _claim_one: available, not leased by another drain, and next.
Claimable(e) ==
    /\ ~Settled(e) /\ ~outbox[e].waiting /\ ~outbox[e].leased
    /\ chain[cursor + 1] = e

\* A drain claims one event of an organisation at a time. A drain that starts has
\* an id that no document knows.
Claim(d, e) ==
    /\ drain[d].at = "idle"
    /\ \A other \in Appended : outbox[other].owner # d
    /\ e \in Appended /\ cursor < Len(chain)
    /\ Claimable(e)
    /\ Put(e, [outbox[e] EXCEPT !.owner = d, !.leased = TRUE, !.attempts = @ + 1])
    /\ drain' = [drain EXCEPT ![d] =
           [at |-> "claimed", event |-> e, attempts |-> outbox[e].attempts + 1]]
    /\ UNCHANGED <<message, chain, cursor, log, mishaps>>

Write(d) ==
    /\ drain[d].at = "claimed"
    /\ log' = log \cup {drain[d].event}
    /\ drain' = [drain EXCEPT ![d].at = "accepted"]
    /\ UNCHANGED <<message, chain, outbox, cursor, mishaps>>

\* An error, which does not say that the entry was not written.
WriteFails(d) ==
    /\ drain[d].at = "claimed"
    /\ log' \in {log, log \cup {drain[d].event}}
    /\ drain' = [drain EXCEPT ![d].at = "error"]
    /\ UNCHANGED <<message, chain, outbox, cursor, mishaps>>

\* Owner and turn, and that no other drain has settled the event.
MaySettle(d) ==
    LET e == drain[d].event
    IN ~Settled(e) /\ outbox[e].owner = d /\ chain[cursor + 1] = e

Rest(d) == drain' = [drain EXCEPT ![d] = Idle]

\* mark_logged; where it raises, the drain ends.
MarkLogged(d) ==
    /\ drain[d].at = "accepted"
    /\ IF MaySettle(d) THEN Settle(drain[d].event, "logged") ELSE UNCHANGED <<outbox, cursor>>
    /\ Rest(d)
    /\ UNCHANGED <<message, chain, log, mishaps>>

MarkDeadLetter(d) ==
    /\ drain[d].at = "error" /\ drain[d].attempts >= MaxAttempts
    /\ IF MaySettle(d) THEN Settle(drain[d].event, "dead") ELSE UNCHANGED <<outbox, cursor>>
    /\ Rest(d)
    /\ UNCHANGED <<message, chain, log, mishaps>>

MarkFailed(d) ==
    LET e == drain[d].event
    IN /\ drain[d].at = "error" /\ drain[d].attempts < MaxAttempts
       /\ IF ~Settled(e) /\ outbox[e].owner = d
          THEN Put(e, [Released(e) EXCEPT !.waiting = TRUE])
          ELSE UNCHANGED outbox
       /\ Rest(d)
       /\ UNCHANGED <<message, chain, cursor, log, mishaps>>

-----------------------------------------------------------------------------
(***************************************************************************)
(* Time and failure                                                        *)
(***************************************************************************)

BackoffOver(e) ==
    /\ outbox[e].waiting
    /\ Put(e, [outbox[e] EXCEPT !.waiting = FALSE])
    /\ UNCHANGED <<message, chain, cursor, drain, log, mishaps>>

\* The lease of a drain that is gone runs out, or one under a drain that stalls.
LeaseOver(e) ==
    /\ outbox[e].leased
    /\ IF drain[outbox[e].owner].event = e THEN Mishap ELSE UNCHANGED mishaps
    /\ Put(e, [outbox[e] EXCEPT !.leased = FALSE])
    /\ UNCHANGED <<message, chain, cursor, drain, log>>

Crash(d) ==
    /\ drain[d].at # "idle"
    /\ Mishap
    /\ Rest(d)
    /\ UNCHANGED <<message, chain, outbox, cursor, log>>

Work(d) ==
    \/ \E e \in Events : Claim(d, e)
    \/ Write(d) \/ WriteFails(d)
    \/ MarkLogged(d) \/ MarkDeadLetter(d) \/ MarkFailed(d)

Next ==
    \/ \E e \in Events : Publish(e) \/ Deliver(e) \/ BackoffOver(e) \/ LeaseOver(e)
    \/ \E d \in Drains : Work(d) \/ Crash(d)

Spec == Init /\ [][Next]_vars

\* Pub/Sub redelivers, the scheduler calls drain every minute, calls end one way
\* or the other and time passes; that a write succeeds is not assumed.
Fairness ==
    /\ \A e \in Events : WF_vars(Deliver(e)) /\ WF_vars(BackoffOver(e)) /\ WF_vars(LeaseOver(e))
    /\ \A d \in Drains : WF_vars(Work(d))

-----------------------------------------------------------------------------
TypeOK ==
    /\ message \in [Events -> Message]
    /\ chain \in Seq(Events) /\ Len(chain) <= Cardinality(Events)
    /\ outbox \in [Events -> Outbox]
    /\ cursor \in 0..Len(chain)
    /\ drain \in [Drains -> Drain]
    /\ log \subseteq Appended
    /\ mishaps \in 0..MaxMishaps

\* Whoever reads the log sees the chain grow in order: when an entry appears for
\* the first time, every earlier event is there or was dead-lettered, however drains
\* overlapped, stalled, died or went unanswered.
LoggedInOrder ==
    [][\A e \in log' \ log : \A f \in Appended :
          Before(f, e) => f \in log \/ outbox[f].status = "dead"]_vars

\* Nothing is lost on the way: an event that Pub/Sub stored comes into the log or
\* stays visible as a dead letter of the subscription or of the outbox, each for good.
StoredIsAudited ==
    \A e \in Events :
        []<>(message[e].status \in {"unsent", "dead"} \/ e \in log \/ outbox[e].status = "dead")
=============================================================================
