------------------------------ MODULE EventOutbox ------------------------------
(***************************************************************************)
(* Delivery of run events: the outbox documents and delivery cursors of    *)
(* server/core/storage/outbox.py, drained by the EventPublisher of         *)
(* server/core/events/publish.py in the service of server/publisher, which *)
(* Eventarc and a Cloud Scheduler sweep call concurrently. Publishers      *)
(* crash, stall past their lease, and see a call to Pub/Sub fail although  *)
(* the message arrives later.                                              *)
(*                                                                         *)
(* Every call of the service uses a fresh owner id. A member of Publishers *)
(* stands for a call; it is used again once no document names it.          *)
(***************************************************************************)
EXTENDS Naturals, FiniteSets

CONSTANTS
    Runs,
    Publishers,
    NoPublisher,
    MaxRevision,    \* bound: last revision a run writes an event for
    MaxAttempts,    \* EventPublisher.maximum_attempts
    BatchSize,      \* claims per batch
    ScanWindow,     \* documents one claim query reads: min(max(8 * limit, 64), 500)
    MaxMishaps      \* bound: crashes and stalls of publishers

ASSUME PublishersAssumption == NoPublisher \notin Publishers
ASSUME BoundsAssumption ==
    /\ MaxRevision \in Nat /\ MaxAttempts \in Nat \ {0} /\ BatchSize \in Nat \ {0}
    /\ ScanWindow \in Nat \ {0} /\ MaxMishaps \in Nat

VARIABLES
    written,    \* run -> number of events written (revisions 0 .. written - 1)
    events,     \* run -> revision -> outbox document
    cursor,     \* run -> published_revision + 1, the revision that is next
    clock,      \* orders documents by available_at
    pubs,       \* publisher -> its progress through drain
    wire,       \* messages handed to Pub/Sub and not yet stored by it
    topic,      \* run -> revisions Pub/Sub has stored at least once
    mishaps     \* bounded by MaxMishaps

vars == <<written, events, cursor, clock, pubs, wire, topic, mishaps>>

-----------------------------------------------------------------------------
Revision == 0..MaxRevision

\* contracts.event.OutboxEvent. available is the rank of available_at among the
\* documents whose available_at has passed; leased says lease_expires_at is in
\* the future.
Event == [available : Nat, waiting : BOOLEAN, attempts : Nat,
          owner : Publishers \cup {NoPublisher}, leased : BOOLEAN,
          published : BOOLEAN, dead : BOOLEAN]

\* build_outbox
NewEvent(at) ==
    [available |-> at, waiting |-> FALSE, attempts |-> 0, owner |-> NoPublisher,
     leased |-> FALSE, published |-> FALSE, dead |-> FALSE]

Settled(e) == e.published \/ e.dead

\* The changes a transaction makes to a document.
Claimed(e, p) == [e EXCEPT !.attempts = @ + 1, !.owner = p, !.leased = TRUE]
Released(e) == [e EXCEPT !.owner = NoPublisher, !.leased = FALSE]
Published(e) == [Released(e) EXCEPT !.published = TRUE]
DeadLettered(e) == [Released(e) EXCEPT !.dead = TRUE]
Failed(e) == [Released(e) EXCEPT !.waiting = TRUE]
Available(e, at) == [e EXCEPT !.waiting = FALSE, !.available = at]
Unleased(e) == [e EXCEPT !.leased = FALSE]

Put(r, v, e) == events' = [events EXCEPT ![r][v] = e]

Claim == [run : Runs, revision : Revision, attempts : Nat,
          step : {"claimed", "sending", "accepted", "error"}]

Candidate == [run : Runs, revision : Revision, available : Nat]

Message == [run : Runs, revision : Revision, by : Publishers]

Publisher == [phase : {"idle", "claiming", "delivering"},
              window : SUBSET Candidate, claims : SUBSET Claim]

Idle == [phase |-> "idle", window |-> {}, claims |-> {}]

-----------------------------------------------------------------------------
\* A transaction of the run repository writes the event of the next revision.
WriteEvent(r) ==
    /\ written[r] <= MaxRevision
    /\ written' = [written EXCEPT ![r] = @ + 1]
    /\ clock' = clock + 1
    /\ Put(r, written[r], NewEvent(clock))
    /\ UNCHANGED <<cursor, pubs, wire, topic, mishaps>>

CandidateOf(r, v) == [run |-> r, revision |-> v, available |-> events[r][v].available]

\* Mutant of Unpublished: a document that has used up its attempts is left out,
\* settled or not.
Unpublished_with_attempts ==
    {CandidateOf(x[1], x[2]) : x \in
        {d \in Runs \X Revision :
            /\ d[2] < written[d[1]]
            /\ ~events[d[1]][d[2]].published
            /\ ~events[d[1]][d[2]].waiting
            /\ events[d[1]][d[2]].attempts < MaxAttempts}}

\* The documents the query of claim ranges over: published_at == None and
\* available_at <= now. A dead letter has no published_at.
Unpublished ==
    {CandidateOf(x[1], x[2]) : x \in
        {d \in Runs \X Revision :
            /\ d[2] < written[d[1]]
            /\ ~events[d[1]][d[2]].published
            /\ ~events[d[1]][d[2]].waiting}}

\* The first ScanWindow of them by available_at.
Query ==
    {c \in Unpublished :
        Cardinality({d \in Unpublished : d.available < c.available}) < ScanWindow}

\* drain: one more claim call.
Begin(p) ==
    /\ pubs[p] = Idle
    /\ \A r \in Runs, v \in Revision : events[r][v].owner # p
    /\ \A m \in wire : m.by # p
    /\ Query # {}
    /\ pubs' = [pubs EXCEPT ![p] = [Idle EXCEPT !.phase = "claiming", !.window = Query]]
    /\ UNCHANGED <<written, events, cursor, clock, wire, topic, mishaps>>

\* Mutant of Claimable: a document is claimed whatever its run's cursor says.
Claimable_out_of_turn(r, v) ==
    ~Settled(events[r][v]) /\ ~events[r][v].waiting /\ ~events[r][v].leased

\* _claim_one
Claimable(r, v) ==
    /\ ~Settled(events[r][v])
    /\ ~events[r][v].waiting
    /\ ~events[r][v].leased
    /\ cursor[r] = v

\* The next document of the scan: skipped if its run was claimed from already
\* or its transaction finds it unclaimable, else claimed. A full batch ends the scan.
ClaimNext(p) ==
    /\ pubs[p].phase = "claiming"
    /\ \E c \in pubs[p].window :
        LET r == c.run
            v == c.revision
            rest == pubs[p].window \ {c}
            claim == [run |-> r, revision |-> v, attempts |-> events[r][v].attempts + 1,
                      step |-> "claimed"]
        IN
        /\ \A d \in pubs[p].window : c.available <= d.available
        /\ IF Claimable(r, v) /\ \A k \in pubs[p].claims : k.run # r
           THEN /\ Put(r, v, Claimed(events[r][v], p))
                /\ pubs' = [pubs EXCEPT ![p].claims = @ \cup {claim},
                                        ![p].window =
                                            IF Cardinality(pubs[p].claims) + 1 = BatchSize
                                            THEN {} ELSE rest]
           ELSE /\ pubs' = [pubs EXCEPT ![p].window = rest]
                /\ UNCHANGED events
    /\ UNCHANGED <<written, cursor, clock, wire, topic, mishaps>>

\* An empty batch ends the drain, any other is delivered.
ScanDone(p) ==
    /\ pubs[p].phase = "claiming"
    /\ pubs[p].window = {}
    /\ pubs' = [pubs EXCEPT ![p] = IF @.claims = {} THEN Idle ELSE [@ EXCEPT !.phase = "delivering"]]
    /\ UNCHANGED <<written, events, cursor, clock, wire, topic, mishaps>>

-----------------------------------------------------------------------------
(* EventPublisher._deliver, concurrently for the claims of a batch *)

Step(p, k, step) == [pubs EXCEPT ![p].claims = (@ \ {k}) \cup {[k EXCEPT !.step = step]}]

MessageOf(p, k) == [run |-> k.run, revision |-> k.revision, by |-> p]

\* PubSubEventTransport.publish hands the message over and waits.
Send(p, k) ==
    /\ pubs[p].phase = "delivering"
    /\ k.step = "claimed"
    /\ wire' = wire \cup {MessageOf(p, k)}
    /\ pubs' = Step(p, k, "sending")
    /\ UNCHANGED <<written, events, cursor, clock, topic, mishaps>>

\* Pub/Sub stores the message and answers the publisher, if it still waits.
Arrive(m) ==
    /\ wire' = wire \ {m}
    /\ topic' = [topic EXCEPT ![m.run] = @ \cup {m.revision}]
    /\ pubs' = [pubs EXCEPT ![m.by].claims =
                    {IF k.step = "sending" /\ MessageOf(m.by, k) = m
                     THEN [k EXCEPT !.step = "accepted"] ELSE k : k \in @}]
    /\ UNCHANGED <<written, events, cursor, clock, mishaps>>

\* Publishing fails or times out; the message is lost or still under way.
SendError(p, k) ==
    /\ k.step = "sending"
    /\ wire' \in {wire, wire \ {MessageOf(p, k)}}
    /\ pubs' = Step(p, k, "error")
    /\ UNCHANGED <<written, events, cursor, clock, topic, mishaps>>

\* The claim's delivery is over.
Forget(p, k) ==
    LET rest == pubs[p].claims \ {k} IN
    pubs' = [pubs EXCEPT ![p] = IF rest = {} THEN Idle ELSE [pubs[p] EXCEPT !.claims = rest]]

Owned(p, k) == events[k.run][k.revision].owner = p

\* The event is unsettled, leased by p, expired or not, and next for its run.
MaySettle(p, k) ==
    ~Settled(events[k.run][k.revision]) /\ Owned(p, k) /\ cursor[k.run] = k.revision

\* mark_published; when its conditions fail it raises, which ends this delivery.
MarkPublished(p, k) ==
    /\ k.step = "accepted"
    /\ IF MaySettle(p, k)
       THEN /\ Put(k.run, k.revision, Published(events[k.run][k.revision]))
            /\ cursor' = [cursor EXCEPT ![k.run] = k.revision + 1]
       ELSE UNCHANGED <<events, cursor>>
    /\ Forget(p, k)
    /\ UNCHANGED <<written, clock, wire, topic, mishaps>>

\* mark_dead_letter after the last attempt
MarkDeadLetter(p, k) ==
    /\ k.step = "error"
    /\ k.attempts >= MaxAttempts
    /\ IF MaySettle(p, k)
       THEN /\ Put(k.run, k.revision, DeadLettered(events[k.run][k.revision]))
            /\ cursor' = [cursor EXCEPT ![k.run] = k.revision + 1]
       ELSE UNCHANGED <<events, cursor>>
    /\ Forget(p, k)
    /\ UNCHANGED <<written, clock, wire, topic, mishaps>>

\* mark_failed: available again after a backoff
MarkFailed(p, k) ==
    /\ k.step = "error"
    /\ k.attempts < MaxAttempts
    /\ IF ~Settled(events[k.run][k.revision]) /\ Owned(p, k)
       THEN Put(k.run, k.revision, Failed(events[k.run][k.revision]))
       ELSE UNCHANGED events
    /\ Forget(p, k)
    /\ UNCHANGED <<written, cursor, clock, wire, topic, mishaps>>

Deliver(p) ==
    \E k \in pubs[p].claims :
        Send(p, k) \/ SendError(p, k) \/ MarkPublished(p, k) \/ MarkDeadLetter(p, k) \/ MarkFailed(p, k)

-----------------------------------------------------------------------------
(* Time and failure *)

\* A backoff ends: available_at has come, later than that of every document
\* that became available meanwhile.
BackoffOver(r, v) ==
    /\ events[r][v].waiting
    /\ Put(r, v, Available(events[r][v], clock))
    /\ clock' = clock + 1
    /\ UNCHANGED <<written, cursor, pubs, wire, topic, mishaps>>

Working(p, r, v) == \E k \in pubs[p].claims : k.run = r /\ k.revision = v

\* A lease runs out after its publisher crashed.
LeaseOver(r, v) ==
    /\ events[r][v].leased
    /\ ~Working(events[r][v].owner, r, v)
    /\ Put(r, v, Unleased(events[r][v]))
    /\ UNCHANGED <<written, cursor, clock, pubs, wire, topic, mishaps>>

\* A lease runs out under a publisher that stalls and goes on later.
Stall(r, v) ==
    /\ mishaps < MaxMishaps
    /\ events[r][v].leased
    /\ Working(events[r][v].owner, r, v)
    /\ Put(r, v, Unleased(events[r][v]))
    /\ mishaps' = mishaps + 1
    /\ UNCHANGED <<written, cursor, clock, pubs, wire, topic>>

Crash(p) ==
    /\ mishaps < MaxMishaps
    /\ pubs[p] # Idle
    /\ pubs' = [pubs EXCEPT ![p] = Idle]
    /\ mishaps' = mishaps + 1
    /\ UNCHANGED <<written, events, cursor, clock, wire, topic>>

Init ==
    /\ written = [r \in Runs |-> 0]
    /\ events = [r \in Runs |-> [v \in Revision |-> NewEvent(0)]]
    /\ cursor = [r \in Runs |-> 0]
    /\ clock = 0
    /\ pubs = [p \in Publishers |-> Idle]
    /\ wire = {}
    /\ topic = [r \in Runs |-> {}]
    /\ mishaps = 0

Next ==
    \/ \E r \in Runs : WriteEvent(r)
    \/ \E p \in Publishers : Begin(p) \/ ClaimNext(p) \/ ScanDone(p) \/ Deliver(p) \/ Crash(p)
    \/ \E m \in wire : Arrive(m)
    \/ \E r \in Runs, v \in Revision : BackoffOver(r, v) \/ LeaseOver(r, v) \/ Stall(r, v)

Spec == Init /\ [][Next]_vars

\* The sweep calls the service every minute, a call that runs goes on, calls to
\* Pub/Sub end one way or the other (publish_timeout_seconds), and time passes.
\* Nothing says that a publish succeeds, and no run has to write another event.
Fairness ==
    /\ \A p \in Publishers :
        WF_vars(Begin(p)) /\ WF_vars(ClaimNext(p)) /\ WF_vars(ScanDone(p)) /\ WF_vars(Deliver(p))
    /\ WF_vars(\E m \in wire : Arrive(m))
    /\ \A r \in Runs, v \in Revision : WF_vars(BackoffOver(r, v)) /\ WF_vars(LeaseOver(r, v))

FairSpec == Spec /\ Fairness

-----------------------------------------------------------------------------
(* Properties *)

\* Every document, cursor, call and message has its type; in particular a
\* cursor never passes the last revision (outbox.py mark_published).
TypeOK ==
    /\ written \in [Runs -> 0..(MaxRevision + 1)]
    /\ events \in [Runs -> [Revision -> Event]]
    /\ cursor \in [Runs -> 0..(MaxRevision + 1)]
    /\ clock \in Nat
    /\ pubs \in [Publishers -> Publisher]
    /\ wire \subseteq Message
    /\ topic \in [Runs -> SUBSET Revision]
    /\ mishaps \in 0..MaxMishaps

\* The cursor of a run stands right behind its settled events (outbox.py
\* mark_published, mark_dead_letter): no publisher, however late, settles an
\* event out of turn or leaves one behind unsettled.
CursorBehindSettled ==
    \A r \in Runs, v \in Revision : Settled(events[r][v]) <=> v < cursor[r]

\* An event marked published was stored by Pub/Sub (publish.py _deliver).
PublishedWasStored ==
    \A r \in Runs, v \in Revision : events[r][v].published => v \in topic[r]

\* A run's events are leased one at a time, and only the next one (outbox.py
\* _claim_one).
OneLeasePerRun ==
    \A r \in Runs, v \in Revision : events[r][v].leased => cursor[r] = v

\* Subscribers see the revisions of a run for the first time in order: when one
\* is stored first, every earlier one was stored before or given up as a dead
\* letter. Redeliveries may follow in any order (publish.py drain).
FirstStoredInOrder ==
    [][\A r \in Runs : \A v \in topic'[r] \ topic[r] :
        \A n \in Revision : n < v => n \in topic[r] \/ events[r][n].dead]_vars

\* What is settled stays as it is: a publisher that lost its lease never
\* revives a published event or publishes a dead letter (outbox.py _owned).
SettledForGood ==
    [][\A r \in Runs, v \in Revision :
        Settled(events[r][v]) => events'[r][v] = events[r][v]]_vars

\* Every event that was written is published or given up in the end (a written
\* event stays written and the cursor never goes back).
EveryEventSettles ==
    \A r \in Runs, v \in Revision : []<>(v < written[r] => v < cursor[r])

=============================================================================
