--------------------------- MODULE EventOutboxProofs ---------------------------
(***************************************************************************)
(* Proofs about the three queues, for any runs, events, publishers, drains *)
(* and bounds. In EventOutbox, a document with an owner is always the next *)
(* one of its run and neither settled nor waiting; claims, messages under  *)
(* way and scans may be stale, but never ahead of the cursor or of what    *)
(* was written. Audit and Notifications, which MCEventOutbox composes with *)
(* it, follow with invariants of their own.                                *)
(***************************************************************************)
EXTENDS MCEventOutbox, Sequences, TLAPS

USE PublishersAssumption, BoundsAssumption

\* A document e of revision v, of a run with cursor next and stored messages.
EventSound(e, v, next, stored) ==
    /\ Settled(e) <=> v < next
    /\ e.published => v \in stored
    /\ e.leased => e.owner # NoPublisher
    /\ e.owner # NoPublisher => v = next /\ ~e.waiting
    /\ e.waiting => ~Settled(e)

ClaimSound(k) ==
    /\ k.revision < written[k.run]
    /\ k.revision <= cursor[k.run]
    /\ k.step = "accepted" => k.revision \in topic[k.run]

EventsSound ==
    \A r \in Runs, v \in Revision : EventSound(events[r][v], v, cursor[r], topic[r])

CursorSound == \A r \in Runs : cursor[r] <= written[r]

PublishersSound ==
    \A p \in Publishers :
        /\ \A c \in pubs[p].window : c.revision < written[c.run]
        /\ \A k \in pubs[p].claims : ClaimSound(k)

WireSound == \A m \in wire : m.revision <= cursor[m.run]

\* The inductive invariant.
IInv == TypeOK /\ EventsSound /\ CursorSound /\ PublishersSound /\ WireSound

-----------------------------------------------------------------------------
(* The documents *)

LEMMA DocumentTypes ==
    ASSUME NEW e \in Event, NEW p \in Publishers, NEW at \in Nat
    PROVE  /\ NewEvent(at) \in Event /\ Claimed(e, p) \in Event /\ Released(e) \in Event
           /\ Published(e) \in Event /\ DeadLettered(e) \in Event /\ Failed(e) \in Event
           /\ Available(e, at) \in Event /\ Unleased(e) \in Event
<1>1. NewEvent(at) \in Event
  BY DEF NewEvent, Event
<1>2. Released(e) \in Event
  BY DEF Released, Event
<1>3. Claimed(e, p) \in Event
  <2> DEFINE a == e.attempts + 1
  <2>1. a \in Nat
    BY DEF Event
  <2>2. Claimed(e, p) = [e EXCEPT !.attempts = a, !.owner = p, !.leased = TRUE]
    BY DEF Claimed
  <2> HIDE DEF a
  <2> QED
    BY <2>1, <2>2 DEF Event
<1>4. Available(e, at) \in Event
  BY DEF Available, Event
<1>6. Unleased(e) \in Event
  BY DEF Unleased, Event
<1>5. Published(e) \in Event /\ DeadLettered(e) \in Event /\ Failed(e) \in Event
  BY <1>2 DEF Published, DeadLettered, Failed, Event
<1> QED
  BY <1>1, <1>2, <1>3, <1>4, <1>5, <1>6

\* A document that has just been written.
LEMMA NewSound ==
    ASSUME NEW at \in Nat, NEW v \in Revision, NEW next \in Nat, NEW stored, next <= v
    PROVE  EventSound(NewEvent(at), v, next, stored)
  BY DEF NewEvent, EventSound, Settled, Revision

\* A claim of an unsettled document that is next.
LEMMA ClaimedSound ==
    ASSUME NEW e \in Event, NEW p \in Publishers, NEW v \in Revision, NEW stored,
           EventSound(e, v, v, stored), ~Settled(e), ~e.waiting
    PROVE  EventSound(Claimed(e, p), v, v, stored)
<1> DEFINE c == Claimed(e, p)
<1>1. /\ c.published = e.published /\ c.dead = e.dead /\ c.waiting = e.waiting
      /\ c.owner = p /\ c.leased = TRUE
  BY DEF Claimed, Event
<1> HIDE DEF c
<1>2. EventSound(c, v, v, stored)
  BY <1>1 DEF EventSound, Settled
<1> QED
  BY <1>2 DEF c

LEMMA ReleasedFields ==
    ASSUME NEW e \in Event
    PROVE  /\ Released(e) \in Event
           /\ Released(e).published = e.published /\ Released(e).dead = e.dead
           /\ Released(e).waiting = e.waiting
           /\ Released(e).owner = NoPublisher /\ Released(e).leased = FALSE
  BY DEF Released, Event

\* A document that its owner settles: the cursor moves behind it.
LEMMA SettledSound ==
    ASSUME NEW e \in Event, NEW v \in Revision, NEW stored,
           EventSound(e, v, v, stored), ~e.waiting
    PROVE  /\ v \in stored => EventSound(Published(e), v, v + 1, stored)
           /\ EventSound(DeadLettered(e), v, v + 1, stored)
<1> DEFINE f == Released(e)
           g == Published(e)
           d == DeadLettered(e)
<1>1. /\ f \in Event /\ f.published = e.published /\ f.dead = e.dead /\ f.waiting = e.waiting
      /\ f.owner = NoPublisher /\ f.leased = FALSE
  BY ReleasedFields
<1> HIDE DEF f
<1>2. /\ g.published = TRUE /\ g.dead = e.dead /\ g.waiting = e.waiting
      /\ g.owner = NoPublisher /\ g.leased = FALSE
  BY <1>1 DEF Published, Event, f
<1>3. /\ d.published = e.published /\ d.dead = TRUE /\ d.waiting = e.waiting
      /\ d.owner = NoPublisher /\ d.leased = FALSE
  BY <1>1 DEF DeadLettered, Event, f
<1> HIDE DEF g, d
<1>4. v < v + 1
  BY DEF Revision
<1>5. v \in stored => EventSound(g, v, v + 1, stored)
  BY <1>2, <1>4 DEF EventSound, Settled
<1>6. EventSound(d, v, v + 1, stored)
  BY <1>3, <1>4 DEF EventSound, Settled
<1> QED
  BY <1>5, <1>6 DEF g, d

\* A failed attempt, the end of a backoff and the end of a lease settle nothing.
LEMMA UnsettledSound ==
    ASSUME NEW e \in Event, NEW v \in Revision, NEW next \in Nat, NEW stored, NEW at \in Nat,
           EventSound(e, v, next, stored)
    PROVE  /\ ~Settled(e) => EventSound(Failed(e), v, next, stored)
           /\ EventSound(Available(e, at), v, next, stored)
           /\ EventSound(Unleased(e), v, next, stored)
<1> DEFINE f == Released(e)
           w == Failed(e)
           a == Available(e, at)
           u == Unleased(e)
<1>1. /\ f \in Event /\ f.published = e.published /\ f.dead = e.dead /\ f.waiting = e.waiting
      /\ f.owner = NoPublisher /\ f.leased = FALSE
  BY ReleasedFields
<1> HIDE DEF f
<1>2. /\ w.published = e.published /\ w.dead = e.dead /\ w.waiting = TRUE
      /\ w.owner = NoPublisher /\ w.leased = FALSE
  BY <1>1 DEF Failed, Event, f
<1>3. /\ a.published = e.published /\ a.dead = e.dead /\ a.waiting = FALSE
      /\ a.owner = e.owner /\ a.leased = e.leased
  BY DEF Available, Event
<1>4. /\ u.published = e.published /\ u.dead = e.dead /\ u.waiting = e.waiting
      /\ u.owner = e.owner /\ u.leased = FALSE
  BY DEF Unleased, Event
<1> HIDE DEF w, a, u
<1>5. ~Settled(e) => EventSound(w, v, next, stored)
  BY <1>2 DEF EventSound, Settled
<1>6. EventSound(a, v, next, stored)
  BY <1>3 DEF EventSound, Settled
<1>7. EventSound(u, v, next, stored)
  BY <1>4 DEF EventSound, Settled
<1> QED
  BY <1>5, <1>6, <1>7 DEF w, a, u

LEMMA PutFacts ==
    ASSUME TypeOK, NEW r \in Runs, NEW v \in Revision, NEW e \in Event, Put(r, v, e)
    PROVE  /\ events'[r][v] = e
           /\ \A q \in Runs, n \in Revision :
                (q # r \/ n # v) => events'[q][n] = events[q][n]
           /\ events' \in [Runs -> [Revision -> Event]]
<1>1. events \in [Runs -> [Revision -> Event]]
  BY DEF TypeOK
<1> DEFINE f == [events[r] EXCEPT ![v] = e]
<1>2. f \in [Revision -> Event] /\ f[v] = e /\ \A n \in Revision \ {v} : f[n] = events[r][n]
  BY <1>1
<1>3. events' = [events EXCEPT ![r] = f]
  BY DEF Put
<1> HIDE DEF f
<1>4. /\ events' \in [Runs -> [Revision -> Event]] /\ events'[r] = f
      /\ \A q \in Runs \ {r} : events'[q] = events[q]
  BY <1>1, <1>2, <1>3
<1> QED
  BY <1>2, <1>4

\* A document is replaced by a sound one; cursors and topics do not move.
LEMMA PutSound ==
    ASSUME TypeOK, EventsSound, NEW r \in Runs, NEW v \in Revision, NEW e \in Event, Put(r, v, e),
           EventSound(e, v, cursor[r], topic[r]), UNCHANGED <<cursor, topic>>
    PROVE  EventsSound'
<1> SUFFICES ASSUME NEW q \in Runs, NEW n \in Revision
             PROVE  EventSound(events'[q][n], n, cursor[q], topic[q])
  BY DEF EventsSound
<1>1. CASE q = r /\ n = v
  BY <1>1, PutFacts
<1>2. CASE q # r \/ n # v
  BY <1>2, PutFacts DEF EventsSound
<1> QED
  BY <1>1, <1>2

-----------------------------------------------------------------------------
(* The invariant, action by action *)

LEMMA InitInvariant == Init => IInv
<1> SUFFICES ASSUME Init PROVE IInv
  OBVIOUS
<1>1. 0 \in 0..(MaxRevision + 1) /\ 0 \in 0..MaxMishaps
  OBVIOUS
<1>2. Idle \in Publisher /\ Idle.window = {} /\ Idle.claims = {}
  BY DEF Idle, Publisher
<1>3. NewEvent(0) \in Event
  BY DEF NewEvent, Event
<1>4. TypeOK
  BY <1>1, <1>2, <1>3 DEF Init, TypeOK
<1>5. EventsSound
  <2> SUFFICES ASSUME NEW r \in Runs, NEW v \in Revision
               PROVE  EventSound(NewEvent(0), v, 0, {})
    BY DEF Init, EventsSound
  <2>1. 0 <= v
    BY DEF Revision
  <2> QED
    BY <2>1, NewSound
<1>6. CursorSound
  BY DEF Init, CursorSound
<1>7. PublishersSound
  BY <1>2 DEF Init, PublishersSound
<1>8. WireSound
  BY DEF Init, WireSound
<1> QED
  BY <1>4, <1>5, <1>6, <1>7, <1>8 DEF IInv

\* What later steps need of a run's numbers.
LEMMA Numbers ==
    ASSUME TypeOK, NEW r \in Runs
    PROVE  written[r] \in 0..(MaxRevision + 1) /\ cursor[r] \in 0..(MaxRevision + 1)
           /\ written[r] \in Nat /\ cursor[r] \in Nat
  BY DEF TypeOK

LEMMA PublisherTypes ==
    ASSUME TypeOK, NEW p \in Publishers
    PROVE  /\ pubs[p] \in Publisher
           /\ \A c \in pubs[p].window : c.run \in Runs /\ c.revision \in Revision
           /\ \A k \in pubs[p].claims : /\ k \in Claim /\ k.run \in Runs
                                        /\ k.revision \in Revision /\ k.attempts \in Nat
<1>1. pubs[p] \in Publisher
  BY DEF TypeOK
<1>2. pubs[p].window \subseteq Candidate /\ pubs[p].claims \subseteq Claim
  BY <1>1 DEF Publisher
<1>3. \A c \in pubs[p].window : c.run \in Runs /\ c.revision \in Revision
  BY <1>2 DEF Candidate
<1>4. \A k \in pubs[p].claims : /\ k \in Claim /\ k.run \in Runs
                               /\ k.revision \in Revision /\ k.attempts \in Nat
  BY <1>2 DEF Claim
<1> QED
  BY <1>1, <1>3, <1>4

LEMMA AppendInvariant ==
    ASSUME IInv, NEW r \in Runs, WriteEvent(r)
    PROVE  IInv'
<1>0. TypeOK /\ EventsSound
  BY DEF IInv
<1>1. /\ written[r] \in Revision /\ written[r] + 1 \in 0..(MaxRevision + 1)
      /\ written[r] \in Nat /\ cursor[r] \in Nat /\ cursor[r] <= written[r]
  BY <1>0 DEF WriteEvent, IInv, CursorSound, TypeOK, Revision
<1>2. /\ written' = [written EXCEPT ![r] = @ + 1] /\ clock' = clock + 1
      /\ Put(r, written[r], NewEvent(clock))
      /\ UNCHANGED <<cursor, pubs, wire, topic, mishaps>>
  BY DEF WriteEvent
<1>3. clock \in Nat /\ NewEvent(clock) \in Event
  BY <1>0 DEF TypeOK, NewEvent, Event
<1>4. EventSound(NewEvent(clock), written[r], cursor[r], topic[r])
  BY <1>1, <1>3, NewSound
<1>5. EventsSound'
  BY <1>0, <1>1, <1>2, <1>3, <1>4, PutSound
<1>6. TypeOK'
  <2>1. events' \in [Runs -> [Revision -> Event]]
    BY <1>0, <1>1, <1>2, <1>3, PutFacts
  <2>2. written' \in [Runs -> 0..(MaxRevision + 1)]
    BY <1>0, <1>1, <1>2 DEF TypeOK
  <2>3. clock' \in Nat
    BY <1>2, <1>3
  <2> QED
    BY <1>0, <1>2, <2>1, <2>2, <2>3 DEF TypeOK
<1>7. \A q \in Runs : written'[q] \in Nat /\ written[q] \in Nat /\ written[q] <= written'[q]
  BY <1>0, <1>1, <1>2, Numbers DEF TypeOK
<1>8. CursorSound'
  <2> SUFFICES ASSUME NEW q \in Runs PROVE cursor[q] <= written'[q]
    BY <1>2 DEF CursorSound
  <2>1. cursor[q] <= written[q] /\ cursor[q] \in Nat
    BY <1>0, Numbers DEF IInv, CursorSound
  <2> QED
    BY <1>7, <2>1
<1>9. PublishersSound'
  <2> SUFFICES ASSUME NEW p \in Publishers
               PROVE  /\ \A c \in pubs[p].window : c.revision < written'[c.run]
                      /\ \A k \in pubs[p].claims : ClaimSound(k)'
    BY <1>2 DEF PublishersSound
  <2>1. ASSUME NEW c \in pubs[p].window PROVE c.revision < written'[c.run]
    <3>1. c.run \in Runs /\ c.revision \in Nat
      BY <1>0, PublisherTypes DEF Revision
    <3>2. c.revision < written[c.run]
      BY DEF IInv, PublishersSound
    <3> QED
      BY <1>7, <3>1, <3>2
  <2>2. ASSUME NEW k \in pubs[p].claims PROVE ClaimSound(k)'
    <3>1. k.run \in Runs /\ k.revision \in Nat
      BY <1>0, PublisherTypes DEF Revision
    <3>2. ClaimSound(k)
      BY DEF IInv, PublishersSound
    <3>3. k.revision < written'[k.run]
      BY <1>7, <3>1, <3>2 DEF ClaimSound
    <3> QED
      BY <1>2, <3>2, <3>3 DEF ClaimSound
  <2> QED
    BY <2>1, <2>2
<1>10. WireSound'
  BY <1>2 DEF IInv, WireSound
<1> QED
  BY <1>5, <1>6, <1>8, <1>9, <1>10 DEF IInv

LEMMA BeginInvariant ==
    ASSUME IInv, NEW p \in Publishers, Begin(p)
    PROVE  IInv'
<1>0. TypeOK
  BY DEF IInv
<1>1. /\ pubs' = [pubs EXCEPT ![p] = [Idle EXCEPT !.phase = "claiming", !.window = Query]]
      /\ UNCHANGED <<written, events, cursor, clock, wire, topic, mishaps>>
  BY DEF Begin
<1>2. \A c \in Query : c \in Candidate /\ c.revision < written[c.run]
  <2> SUFFICES ASSUME NEW c \in Unpublished
               PROVE  c \in Candidate /\ c.revision < written[c.run]
    BY DEF Query
  <2>1. PICK x \in Runs \X Revision : c = CandidateOf(x[1], x[2]) /\ x[2] < written[x[1]]
    BY DEF Unpublished
  <2>2. x[1] \in Runs /\ x[2] \in Revision
    BY <2>1
  <2>3. events[x[1]][x[2]] \in Event
    BY <1>0, <2>2 DEF TypeOK
  <2>4. events[x[1]][x[2]].available \in Nat
    BY <2>3 DEF Event
  <2> QED
    BY <2>1, <2>2, <2>4 DEF CandidateOf, Candidate
<1> DEFINE n == [Idle EXCEPT !.phase = "claiming", !.window = Query]
<1>3. n \in Publisher /\ n.window = Query /\ n.claims = {}
  BY <1>2 DEF Idle, Publisher
<1> HIDE DEF n
<1>4. /\ pubs' = [pubs EXCEPT ![p] = n] /\ pubs'[p] = n
      /\ \A q \in Publishers \ {p} : pubs'[q] = pubs[q]
  BY <1>0, <1>1 DEF n, TypeOK
<1>5. TypeOK'
  BY <1>0, <1>1, <1>3, <1>4 DEF TypeOK
<1>6. PublishersSound'
  <2> SUFFICES ASSUME NEW q \in Publishers
               PROVE  /\ \A c \in pubs'[q].window : c.revision < written[c.run]
                      /\ \A k \in pubs'[q].claims : ClaimSound(k)
    BY <1>1 DEF PublishersSound, ClaimSound
  <2>1. CASE q = p
    BY <1>2, <1>3, <1>4, <2>1
  <2>2. CASE q # p
    BY <1>4, <2>2 DEF IInv, PublishersSound
  <2> QED
    BY <2>1, <2>2
<1> QED
  BY <1>1, <1>5, <1>6 DEF IInv, EventsSound, CursorSound, WireSound

\* A publisher's progress changes and nothing a claim or a scan rests on does.
LEMMA PublisherStep ==
    ASSUME IInv, NEW p \in Publishers, NEW n \in Publisher, pubs' = [pubs EXCEPT ![p] = n],
           UNCHANGED <<written, cursor>>, \A r \in Runs : topic[r] \subseteq topic'[r],
           \A c \in n.window : c.revision < written[c.run],
           \A k \in n.claims : ClaimSound(k)'
    PROVE  PublishersSound' /\ pubs' \in [Publishers -> Publisher]
<1>0. TypeOK
  BY DEF IInv
<1>1. /\ pubs' \in [Publishers -> Publisher] /\ pubs'[p] = n
      /\ \A q \in Publishers \ {p} : pubs'[q] = pubs[q]
  BY <1>0 DEF TypeOK
<1>2. PublishersSound'
  <2> SUFFICES ASSUME NEW q \in Publishers
               PROVE  /\ \A c \in pubs'[q].window : c.revision < written[c.run]
                      /\ \A k \in pubs'[q].claims : ClaimSound(k)'
    BY DEF PublishersSound
  <2>1. CASE q = p
    BY <1>1, <2>1
  <2>2. CASE q # p
    <3>1. pubs'[q] = pubs[q]
      BY <1>1, <2>2
    <3>2. ASSUME NEW k \in pubs[q].claims PROVE ClaimSound(k)'
      <4>1. ClaimSound(k) /\ k.run \in Runs
        BY <1>0, PublisherTypes DEF IInv, PublishersSound
      <4> QED
        BY <4>1 DEF ClaimSound
    <3> QED
      BY <3>1, <3>2 DEF IInv, PublishersSound
  <2> QED
    BY <2>1, <2>2
<1> QED
  BY <1>1, <1>2

LEMMA ClaimNextInvariant ==
    ASSUME IInv, NEW p \in Publishers, ClaimNext(p)
    PROVE  IInv'
<1>0. TypeOK /\ EventsSound
  BY DEF IInv
<1>1. PICK c \in pubs[p].window :
        LET r == c.run
            v == c.revision
            rest == pubs[p].window \ {c}
            fresh == [run |-> r, revision |-> v, attempts |-> events[r][v].attempts + 1,
                      step |-> "claimed"]
        IN
        IF Claimable(r, v) /\ \A k \in pubs[p].claims : k.run # r
        THEN /\ Put(r, v, Claimed(events[r][v], p))
             /\ pubs' = [pubs EXCEPT ![p].claims = @ \cup {fresh},
                                     ![p].window =
                                         IF Cardinality(pubs[p].claims) + 1 = BatchSize
                                         THEN {} ELSE rest]
        ELSE /\ pubs' = [pubs EXCEPT ![p].window = rest]
             /\ UNCHANGED events
  BY DEF ClaimNext
<1>2. UNCHANGED <<written, cursor, clock, wire, topic, mishaps>>
  BY DEF ClaimNext
<1> DEFINE r == c.run
           v == c.revision
           e == events[r][v]
           rest == pubs[p].window \ {c}
           fresh == [run |-> r, revision |-> v, attempts |-> e.attempts + 1, step |-> "claimed"]
<1>3. r \in Runs /\ v \in Revision /\ v < written[r] /\ pubs[p] \in Publisher
  BY <1>0, PublisherTypes DEF IInv, PublishersSound
<1>4. e \in Event
  BY <1>0, <1>3 DEF TypeOK
<1>5. CASE Claimable(r, v) /\ \A k \in pubs[p].claims : k.run # r
  <2> DEFINE w == IF Cardinality(pubs[p].claims) + 1 = BatchSize THEN {} ELSE rest
             n == [pubs[p] EXCEPT !.claims = @ \cup {fresh}, !.window = w]
  <2>1. Put(r, v, Claimed(e, p))
    BY <1>1, <1>5
  <2>2. pubs' = [pubs EXCEPT ![p] = n]
    BY <1>1, <1>5
  <2>3. fresh \in Claim /\ fresh.run = r /\ fresh.revision = v /\ fresh.step = "claimed"
    <3>1. e.attempts + 1 \in Nat
      BY <1>4 DEF Event
    <3> HIDE DEF e
    <3> QED
      BY <1>3, <3>1 DEF Claim
  <2>4. w \subseteq pubs[p].window
    OBVIOUS
  <2> HIDE DEF w, fresh
  <2>5. n \in Publisher /\ n.window = w /\ n.claims = pubs[p].claims \cup {fresh}
    BY <1>3, <2>3, <2>4 DEF Publisher
  <2> HIDE DEF n
  <2>6. Claimed(e, p) \in Event
    BY <1>4, DocumentTypes
  <2>7. cursor[r] = v /\ ~Settled(e) /\ ~e.waiting
    BY <1>5 DEF Claimable
  <2>8. EventSound(Claimed(e, p), v, cursor[r], topic[r])
    BY <1>0, <1>3, <1>4, <2>7, ClaimedSound DEF EventsSound
  <2>9. EventsSound' /\ events' \in [Runs -> [Revision -> Event]]
    BY <1>0, <1>2, <1>3, <2>1, <2>6, <2>8, PutSound, PutFacts
  <2>10. v <= cursor[r]
    BY <1>3, <2>7 DEF Revision
  <2>11. ASSUME NEW k \in n.claims PROVE ClaimSound(k)'
    <3>1. CASE k \in pubs[p].claims
      BY <1>2, <3>1 DEF IInv, PublishersSound, ClaimSound
    <3>2. CASE k = fresh
      BY <1>2, <1>3, <2>3, <2>10, <3>2 DEF ClaimSound
    <3> QED
      BY <2>5, <3>1, <3>2
  <2>12. \A d \in n.window : d.revision < written[d.run]
    BY <2>4, <2>5 DEF IInv, PublishersSound
  <2>13. PublishersSound' /\ pubs' \in [Publishers -> Publisher]
    BY <1>2, <2>2, <2>5, <2>11, <2>12, PublisherStep
  <2> QED
    BY <1>0, <1>2, <2>9, <2>13 DEF IInv, TypeOK, CursorSound, WireSound
<1>6. CASE ~(Claimable(r, v) /\ \A k \in pubs[p].claims : k.run # r)
  <2> DEFINE n == [pubs[p] EXCEPT !.window = rest]
  <2>1. events' = events /\ pubs' = [pubs EXCEPT ![p] = n]
    BY <1>1, <1>6
  <2>2. n \in Publisher /\ n.window = rest /\ n.claims = pubs[p].claims
    BY <1>3 DEF Publisher
  <2> HIDE DEF n
  <2>3. ASSUME NEW k \in n.claims PROVE ClaimSound(k)'
    BY <1>2, <2>2 DEF IInv, PublishersSound, ClaimSound
  <2>4. \A d \in n.window : d.revision < written[d.run]
    BY <2>2 DEF IInv, PublishersSound
  <2>5. PublishersSound' /\ pubs' \in [Publishers -> Publisher]
    BY <1>2, <2>1, <2>2, <2>3, <2>4, PublisherStep
  <2> QED
    BY <1>0, <1>2, <2>1, <2>5 DEF IInv, TypeOK, EventsSound, CursorSound, WireSound
<1> QED
  BY <1>5, <1>6

LEMMA IdleFacts == Idle \in Publisher /\ Idle.window = {} /\ Idle.claims = {}
  BY DEF Idle, Publisher

LEMMA ScanDoneInvariant ==
    ASSUME IInv, NEW p \in Publishers, ScanDone(p)
    PROVE  IInv'
<1>0. TypeOK /\ pubs[p] \in Publisher
  BY PublisherTypes DEF IInv
<1> DEFINE n == IF pubs[p].claims = {} THEN Idle ELSE [pubs[p] EXCEPT !.phase = "delivering"]
<1>1. pubs' = [pubs EXCEPT ![p] = n] /\ UNCHANGED <<written, events, cursor, clock, wire, topic, mishaps>>
  BY DEF ScanDone
<1>2. n \in Publisher /\ n.window \subseteq pubs[p].window /\ n.claims \subseteq pubs[p].claims
  <2>1. CASE pubs[p].claims = {}
    BY <2>1, IdleFacts
  <2>2. CASE pubs[p].claims # {}
    BY <1>0, <2>2 DEF Publisher
  <2> QED
    BY <2>1, <2>2
<1> HIDE DEF n
<1>3. ASSUME NEW k \in n.claims PROVE ClaimSound(k)'
  BY <1>1, <1>2 DEF IInv, PublishersSound, ClaimSound
<1>4. \A d \in n.window : d.revision < written[d.run]
  BY <1>2 DEF IInv, PublishersSound
<1>5. PublishersSound' /\ pubs' \in [Publishers -> Publisher]
  BY <1>1, <1>2, <1>3, <1>4, PublisherStep
<1> QED
  BY <1>0, <1>1, <1>5 DEF IInv, TypeOK, EventsSound, CursorSound, WireSound

\* A delivery that ends takes its claim along and adds none.
LEMMA ForgetFacts ==
    ASSUME TypeOK, NEW p \in Publishers, NEW k, Forget(p, k)
    PROVE  \E n \in Publisher : /\ pubs' = [pubs EXCEPT ![p] = n]
                               /\ n.window \subseteq pubs[p].window
                               /\ n.claims \subseteq pubs[p].claims
<1>0. pubs[p] \in Publisher
  BY DEF TypeOK
<1> DEFINE rest == pubs[p].claims \ {k}
           m == [pubs[p] EXCEPT !.claims = rest]
           n == IF rest = {} THEN Idle ELSE m
<1>1. m \in Publisher /\ m.window = pubs[p].window /\ m.claims = pubs[p].claims \ {k}
  BY <1>0 DEF Publisher
<1>2. pubs' = [pubs EXCEPT ![p] = n]
  BY DEF Forget
<1> HIDE DEF m
<1>3. n \in Publisher /\ n.window \subseteq pubs[p].window /\ n.claims \subseteq pubs[p].claims
  BY <1>1, IdleFacts
<1> QED
  BY <1>2, <1>3

\* An owner settles the next document of a run and the cursor follows.
LEMMA SettleInvariant ==
    ASSUME IInv, NEW p \in Publishers, NEW k \in pubs[p].claims, NEW e \in Event,
           Put(k.run, k.revision, e), cursor[k.run] = k.revision,
           EventSound(e, k.revision, k.revision + 1, topic[k.run]),
           cursor' = [cursor EXCEPT ![k.run] = k.revision + 1], Forget(p, k),
           UNCHANGED <<written, clock, wire, topic, mishaps>>
    PROVE  IInv'
<1> DEFINE r == k.run
           v == k.revision
<1>0. TypeOK /\ EventsSound
  BY DEF IInv
<1>1. r \in Runs /\ v \in Revision /\ v \in Nat
  BY <1>0, PublisherTypes DEF Revision
<1>2. v < written[r] /\ written[r] \in Nat
  BY <1>0, <1>1, Numbers DEF IInv, PublishersSound, ClaimSound
<1>3. /\ cursor' \in [Runs -> 0..(MaxRevision + 1)] /\ cursor'[r] = v + 1
      /\ \A q \in Runs \ {r} : cursor'[q] = cursor[q]
  <2>1. v + 1 \in 0..(MaxRevision + 1)
    BY <1>1 DEF Revision
  <2> QED
    BY <1>0, <1>1, <2>1 DEF TypeOK
<1>4. \A q \in Runs : /\ cursor[q] \in Nat /\ cursor'[q] \in Nat
                     /\ cursor[q] <= cursor'[q] /\ cursor'[q] <= written[q]
  <2> SUFFICES ASSUME NEW q \in Runs
               PROVE  /\ cursor[q] \in Nat /\ cursor'[q] \in Nat
                      /\ cursor[q] <= cursor'[q] /\ cursor'[q] <= written[q]
    OBVIOUS
  <2>1. cursor[q] \in Nat /\ written[q] \in Nat /\ cursor[q] <= written[q]
    BY <1>0, Numbers DEF IInv, CursorSound
  <2>2. CASE q = r
    BY <1>1, <1>2, <1>3, <2>1, <2>2
  <2>3. CASE q # r
    BY <1>3, <2>1, <2>3
  <2> QED
    BY <2>2, <2>3
<1>5. /\ events'[r][v] = e /\ events' \in [Runs -> [Revision -> Event]]
      /\ \A q \in Runs, n \in Revision : (q # r \/ n # v) => events'[q][n] = events[q][n]
  BY <1>0, <1>1, PutFacts
<1>6. EventsSound'
  <2> SUFFICES ASSUME NEW q \in Runs, NEW n \in Revision
               PROVE  EventSound(events'[q][n], n, cursor'[q], topic[q])
    BY DEF EventsSound
  <2>1. CASE q = r /\ n = v
    BY <1>3, <1>5, <2>1
  <2>2. CASE q = r /\ n # v
    <3>1. EventSound(events[r][n], n, v, topic[r])
      BY <1>0, <1>1, <2>2 DEF EventsSound
    <3>2. n < v <=> n < v + 1
      BY <1>1, <2>2 DEF Revision
    <3>3. events'[q][n] = events[r][n] /\ cursor'[q] = v + 1
      BY <1>3, <1>5, <2>2
    <3>4. EventSound(events[r][n], n, v + 1, topic[r])
      BY <2>2, <3>1, <3>2 DEF EventSound
    <3> QED
      BY <2>2, <3>3, <3>4
  <2>3. CASE q # r
    BY <1>0, <1>3, <1>5, <2>3 DEF EventsSound
  <2> QED
    BY <2>1, <2>2, <2>3
<1>7. CursorSound'
  BY <1>4 DEF CursorSound
<1>8. PICK n \in Publisher : /\ pubs' = [pubs EXCEPT ![p] = n]
                            /\ n.window \subseteq pubs[p].window
                            /\ n.claims \subseteq pubs[p].claims
  BY <1>0, ForgetFacts
<1>9. PublishersSound'
  <2> SUFFICES ASSUME NEW q \in Publishers
               PROVE  /\ \A c \in pubs'[q].window : c.revision < written[c.run]
                      /\ \A j \in pubs'[q].claims : ClaimSound(j)'
    BY DEF PublishersSound
  <2>1. pubs'[q].window \subseteq pubs[q].window /\ pubs'[q].claims \subseteq pubs[q].claims
    BY <1>0, <1>8 DEF TypeOK
  <2>2. ASSUME NEW j \in pubs[q].claims PROVE ClaimSound(j)'
    <3>1. ClaimSound(j) /\ j.run \in Runs /\ j.revision \in Nat
      BY <1>0, PublisherTypes DEF IInv, PublishersSound, Revision
    <3>2. j.revision <= cursor'[j.run]
      BY <1>4, <3>1 DEF ClaimSound
    <3> QED
      BY <3>1, <3>2 DEF ClaimSound
  <2> QED
    BY <2>1, <2>2 DEF IInv, PublishersSound
<1>10. WireSound'
  <2> SUFFICES ASSUME NEW m \in wire PROVE m.revision <= cursor'[m.run]
    BY DEF WireSound
  <2>1. m.run \in Runs /\ m.revision \in Nat /\ m.revision <= cursor[m.run]
    BY <1>0 DEF IInv, TypeOK, WireSound, Message, Revision
  <2> QED
    BY <1>4, <2>1
<1>11. TypeOK'
  <2>1. pubs' \in [Publishers -> Publisher]
    BY <1>0, <1>8 DEF TypeOK
  <2> QED
    BY <1>0, <1>3, <1>5, <2>1 DEF TypeOK
<1> QED
  BY <1>6, <1>7, <1>9, <1>10, <1>11 DEF IInv

\* A delivery ends; at most one document that is still unsettled changes.
LEMMA ForgetInvariant ==
    ASSUME IInv, NEW p \in Publishers, NEW k, Forget(p, k), EventsSound',
           events' \in [Runs -> [Revision -> Event]],
           UNCHANGED <<written, cursor, clock, wire, topic, mishaps>>
    PROVE  IInv'
<1>0. TypeOK
  BY DEF IInv
<1>1. PICK n \in Publisher : /\ pubs' = [pubs EXCEPT ![p] = n]
                            /\ n.window \subseteq pubs[p].window
                            /\ n.claims \subseteq pubs[p].claims
  BY <1>0, ForgetFacts
<1>2. ASSUME NEW j \in n.claims PROVE ClaimSound(j)'
  BY <1>1 DEF IInv, PublishersSound, ClaimSound
<1>3. \A d \in n.window : d.revision < written[d.run]
  BY <1>1 DEF IInv, PublishersSound
<1>4. PublishersSound' /\ pubs' \in [Publishers -> Publisher]
  BY <1>1, <1>2, <1>3, PublisherStep
<1> QED
  BY <1>0, <1>4 DEF IInv, TypeOK, CursorSound, WireSound

LEMMA MarkInvariant ==
    ASSUME IInv, NEW p \in Publishers, NEW k \in pubs[p].claims,
           MarkPublished(p, k) \/ MarkDeadLetter(p, k) \/ MarkFailed(p, k)
    PROVE  IInv'
<1> DEFINE r == k.run
           v == k.revision
           e == events[r][v]
<1>0. TypeOK /\ EventsSound /\ ClaimSound(k)
  BY DEF IInv, PublishersSound
<1>1. r \in Runs /\ v \in Revision
  BY <1>0, PublisherTypes
<1>2. e \in Event /\ EventSound(e, v, cursor[r], topic[r])
  BY <1>0, <1>1 DEF TypeOK, EventsSound
<1>3. UNCHANGED <<written, clock, wire, topic, mishaps>> /\ Forget(p, k)
  BY DEF MarkPublished, MarkDeadLetter, MarkFailed
<1>4. /\ Published(e) \in Event /\ DeadLettered(e) \in Event /\ Failed(e) \in Event
  BY <1>2, DocumentTypes
<1>5. MaySettle(p, k) => /\ cursor[r] = v /\ EventSound(e, v, v, topic[r]) /\ ~e.waiting
  BY <1>2 DEF MaySettle, Owned, EventSound
<1>6. CASE MaySettle(p, k) /\ MarkPublished(p, k)
  <2>1. EventSound(Published(e), v, v + 1, topic[r])
    BY <1>0, <1>1, <1>2, <1>5, <1>6, SettledSound DEF MarkPublished, ClaimSound
  <2> QED
    BY <1>3, <1>4, <1>5, <1>6, <2>1, SettleInvariant DEF MarkPublished
<1>7. CASE MaySettle(p, k) /\ MarkDeadLetter(p, k)
  <2>1. EventSound(DeadLettered(e), v, v + 1, topic[r])
    BY <1>1, <1>2, <1>5, <1>7, SettledSound
  <2> QED
    BY <1>3, <1>4, <1>5, <1>7, <2>1, SettleInvariant DEF MarkDeadLetter
<1>8. CASE MarkFailed(p, k) /\ ~Settled(e) /\ Owned(p, k)
  <2>1. cursor[r] \in Nat
    BY <1>0, <1>1, Numbers
  <2>2. EventSound(Failed(e), v, cursor[r], topic[r])
    BY <1>1, <1>2, <1>8, <2>1, UnsettledSound
  <2>3. Put(r, v, Failed(e)) /\ UNCHANGED <<cursor, topic>>
    BY <1>8 DEF MarkFailed
  <2>4. EventsSound' /\ events' \in [Runs -> [Revision -> Event]]
    BY <1>0, <1>1, <1>4, <2>2, <2>3, PutSound, PutFacts
  <2> QED
    BY <1>3, <2>3, <2>4, ForgetInvariant
<1>9. CASE UNCHANGED <<events, cursor>>
  <2>1. EventsSound' /\ events' \in [Runs -> [Revision -> Event]]
    BY <1>0, <1>3, <1>9 DEF EventsSound, TypeOK
  <2> QED
    BY <1>3, <1>9, <2>1, ForgetInvariant
<1>10. \/ MaySettle(p, k) /\ MarkPublished(p, k)
       \/ MaySettle(p, k) /\ MarkDeadLetter(p, k)
       \/ MarkFailed(p, k) /\ ~Settled(e) /\ Owned(p, k)
       \/ UNCHANGED <<events, cursor>>
  BY DEF MarkPublished, MarkDeadLetter, MarkFailed
<1> QED
  BY <1>6, <1>7, <1>8, <1>9, <1>10

\* A publisher moves one of its claims on.
LEMMA StepFacts ==
    ASSUME IInv, NEW p \in Publishers, NEW k \in pubs[p].claims,
           NEW step \in {"sending", "error"}, pubs' = Step(p, k, step),
           UNCHANGED <<written, cursor, topic>>
    PROVE  PublishersSound' /\ pubs' \in [Publishers -> Publisher]
<1>0. TypeOK /\ pubs[p] \in Publisher /\ k \in Claim
  BY PublisherTypes DEF IInv
<1> DEFINE j == [k EXCEPT !.step = step]
           claims == (pubs[p].claims \ {k}) \cup {j}
           n == [pubs[p] EXCEPT !.claims = claims]
<1>1. j \in Claim /\ j.run = k.run /\ j.revision = k.revision /\ j.step = step
  BY <1>0 DEF Claim
<1>2. pubs' = [pubs EXCEPT ![p] = n]
  BY DEF Step
<1> HIDE DEF j
<1>3. claims \subseteq Claim
  BY <1>0, <1>1 DEF Publisher
<1>4. n \in Publisher /\ n.window = pubs[p].window /\ n.claims = claims
  <2> HIDE DEF claims
  <2> QED
    BY <1>0, <1>3 DEF Publisher
<1> HIDE DEF n
<1>5. ASSUME NEW i \in n.claims PROVE ClaimSound(i)'
  <2>1. CASE i = j
    <3>1. ClaimSound(k)
      BY DEF IInv, PublishersSound
    <3> QED
      BY <1>1, <2>1, <3>1 DEF ClaimSound
  <2>2. CASE i \in pubs[p].claims
    BY <2>2 DEF IInv, PublishersSound, ClaimSound
  <2> QED
    BY <1>4, <2>1, <2>2
<1>6. \A d \in n.window : d.revision < written[d.run]
  BY <1>4 DEF IInv, PublishersSound
<1> QED
  BY <1>2, <1>4, <1>5, <1>6, PublisherStep

LEMMA SendInvariant ==
    ASSUME IInv, NEW p \in Publishers, NEW k \in pubs[p].claims, Send(p, k) \/ SendError(p, k)
    PROVE  IInv'
<1>0. TypeOK /\ ClaimSound(k) /\ k.run \in Runs /\ k.revision \in Revision
  BY PublisherTypes DEF IInv, PublishersSound
<1>1. UNCHANGED <<written, events, cursor, clock, topic, mishaps>>
  BY DEF Send, SendError
<1>2. PublishersSound' /\ pubs' \in [Publishers -> Publisher]
  BY <1>1, StepFacts DEF Send, SendError
<1> DEFINE m == MessageOf(p, k)
<1>3. m \in Message /\ m.run = k.run /\ m.revision = k.revision
  BY <1>0 DEF MessageOf, Message
<1>4. wire' \subseteq wire \cup {m}
  BY DEF Send, SendError
<1> HIDE DEF m
<1>5. wire' \subseteq Message /\ WireSound'
  BY <1>0, <1>1, <1>3, <1>4 DEF IInv, TypeOK, WireSound, ClaimSound
<1> QED
  BY <1>0, <1>1, <1>2, <1>5 DEF IInv, TypeOK, EventsSound, CursorSound

LEMMA ArriveInvariant ==
    ASSUME IInv, NEW m \in wire, Arrive(m)
    PROVE  IInv'
<1>0. TypeOK /\ m \in Message /\ m.run \in Runs /\ m.revision \in Revision /\ m.by \in Publishers
  BY DEF IInv, TypeOK, Message
<1> DEFINE p == m.by
           upd(k) == IF k.step = "sending" /\ MessageOf(p, k) = m
                     THEN [k EXCEPT !.step = "accepted"] ELSE k
           claims == {upd(k) : k \in pubs[p].claims}
           n == [pubs[p] EXCEPT !.claims = claims]
<1>1. /\ wire' = wire \ {m}
      /\ topic' = [topic EXCEPT ![m.run] = @ \cup {m.revision}]
      /\ UNCHANGED <<written, events, cursor, clock, mishaps>>
  BY DEF Arrive
<1>2. pubs' = [pubs EXCEPT ![p] = n]
  BY DEF Arrive
<1>3. /\ topic' \in [Runs -> SUBSET Revision] /\ m.revision \in topic'[m.run]
      /\ \A r \in Runs : topic[r] \subseteq topic'[r]
  BY <1>0, <1>1 DEF TypeOK
<1>4. ASSUME NEW k \in pubs[p].claims
      PROVE  upd(k) \in Claim /\ ClaimSound(upd(k))'
  <2>1. k \in Claim /\ k.run \in Runs /\ ClaimSound(k)
    BY <1>0, PublisherTypes DEF IInv, PublishersSound
  <2>2. CASE k.step = "sending" /\ MessageOf(p, k) = m
    <3>1. k.run = m.run /\ k.revision = m.revision
      BY <2>2 DEF MessageOf
    <3> DEFINE j == [k EXCEPT !.step = "accepted"]
    <3>2. j \in Claim /\ j.run = k.run /\ j.revision = k.revision
      BY <2>1 DEF Claim
    <3>3. upd(k) = j
      BY <2>2
    <3> HIDE DEF j, upd
    <3>4. ClaimSound(j)'
      BY <1>1, <1>3, <2>1, <3>1, <3>2 DEF ClaimSound
    <3> QED
      BY <3>2, <3>3, <3>4
  <2>3. CASE ~(k.step = "sending" /\ MessageOf(p, k) = m)
    <3>1. upd(k) = k
      BY <2>3
    <3> HIDE DEF upd
    <3> QED
      BY <1>1, <1>3, <2>1, <3>1 DEF ClaimSound
  <2> QED
    BY <2>2, <2>3
<1> HIDE DEF upd
<1>5. claims \subseteq Claim /\ pubs[p] \in Publisher
  BY <1>0, <1>4, PublisherTypes
<1>6. ASSUME NEW i \in claims PROVE ClaimSound(i)'
  <2>1. PICK k \in pubs[p].claims : i = upd(k)
    OBVIOUS
  <2> QED
    BY <1>4, <2>1
<1> HIDE DEF claims
<1>7. n \in Publisher /\ n.window = pubs[p].window /\ n.claims = claims
  BY <1>5 DEF Publisher
<1> HIDE DEF n
<1>8. \A d \in n.window : d.revision < written[d.run]
  BY <1>0, <1>7 DEF IInv, PublishersSound
<1>9. PublishersSound' /\ pubs' \in [Publishers -> Publisher]
  BY <1>0, <1>1, <1>2, <1>3, <1>6, <1>7, <1>8, PublisherStep
<1>10. EventsSound'
  <2> SUFFICES ASSUME NEW r \in Runs, NEW v \in Revision
               PROVE  EventSound(events[r][v], v, cursor[r], topic'[r])
    BY <1>1 DEF EventsSound
  <2> QED
    BY <1>3 DEF IInv, EventsSound, EventSound
<1>11. WireSound' /\ wire' \subseteq Message
  BY <1>0, <1>1 DEF IInv, TypeOK, WireSound
<1> QED
  BY <1>0, <1>1, <1>3, <1>9, <1>10, <1>11 DEF IInv, TypeOK, CursorSound

LEMMA TimeInvariant ==
    ASSUME IInv, NEW r \in Runs, NEW v \in Revision,
           BackoffOver(r, v) \/ LeaseOver(r, v) \/ Stall(r, v)
    PROVE  IInv'
<1> DEFINE e == events[r][v]
<1>0. TypeOK /\ EventsSound /\ clock \in Nat /\ e \in Event /\ cursor[r] \in Nat
  BY Numbers DEF IInv, TypeOK
<1>1. UNCHANGED <<written, cursor, pubs, wire, topic>>
  BY DEF BackoffOver, LeaseOver, Stall
<1>2. clock' \in Nat /\ mishaps' \in 0..MaxMishaps
  <2>1. mishaps \in 0..MaxMishaps
    BY <1>0 DEF TypeOK
  <2> QED
    BY <1>0, <2>1 DEF BackoffOver, LeaseOver, Stall
<1>3. /\ Available(e, clock) \in Event /\ Unleased(e) \in Event
      /\ EventSound(Available(e, clock), v, cursor[r], topic[r])
      /\ EventSound(Unleased(e), v, cursor[r], topic[r])
  <2>1. EventSound(e, v, cursor[r], topic[r])
    BY <1>0 DEF EventsSound
  <2>2. EventSound(Available(e, clock), v, cursor[r], topic[r])
        /\ EventSound(Unleased(e), v, cursor[r], topic[r])
    BY <1>0, <2>1, UnsettledSound
  <2>3. Available(e, clock) \in Event
    BY <1>0 DEF Available, Event
  <2>4. Unleased(e) \in Event
    BY <1>0 DEF Unleased, Event
  <2> QED
    BY <2>2, <2>3, <2>4
<1>4. Put(r, v, Available(e, clock)) \/ Put(r, v, Unleased(e))
  BY DEF BackoffOver, LeaseOver, Stall
<1>5. EventsSound' /\ events' \in [Runs -> [Revision -> Event]]
  BY <1>0, <1>1, <1>3, <1>4, PutSound, PutFacts
<1>6. TypeOK'
  BY <1>0, <1>1, <1>2, <1>5 DEF TypeOK
<1> QED
  BY <1>1, <1>5, <1>6 DEF IInv, CursorSound, PublishersSound, ClaimSound, WireSound

LEMMA CrashInvariant ==
    ASSUME IInv, NEW p \in Publishers, Crash(p)
    PROVE  IInv'
<1>0. TypeOK
  BY DEF IInv
<1>1. /\ pubs' = [pubs EXCEPT ![p] = Idle]
      /\ UNCHANGED <<written, events, cursor, clock, wire, topic>>
  BY DEF Crash
<1>2. mishaps' \in 0..MaxMishaps
  BY <1>0 DEF Crash, TypeOK
<1>3. PublishersSound' /\ pubs' \in [Publishers -> Publisher]
  BY <1>1, IdleFacts, PublisherStep
<1> QED
  BY <1>0, <1>1, <1>2, <1>3 DEF IInv, TypeOK, EventsSound, CursorSound, WireSound

LEMMA NextInvariant == IInv /\ [Next]_vars => IInv'
<1> SUFFICES ASSUME IInv, [Next]_vars PROVE IInv'
  OBVIOUS
<1>1. CASE UNCHANGED vars
  BY <1>1 DEF vars, IInv, TypeOK, EventsSound, CursorSound, PublishersSound, ClaimSound, WireSound
<1>2. ASSUME NEW p \in Publishers, Deliver(p)
      PROVE  IInv'
  BY <1>2, SendInvariant, MarkInvariant DEF Deliver
<1> QED
  BY <1>1, <1>2, AppendInvariant, BeginInvariant, ClaimNextInvariant, ScanDoneInvariant,
     CrashInvariant, ArriveInvariant, TimeInvariant DEF Next

LEMMA Invariance == Spec => []IInv
  BY InitInvariant, NextInvariant, PTL DEF Spec

-----------------------------------------------------------------------------
(* The theorems *)

\* The documents, cursors, calls and messages of the outbox keep their types;
\* no cursor passes the last revision a run can write.
THEOREM TypeCorrect == Spec => []TypeOK
  BY Invariance, PTL DEF IInv

\* mark_published and mark_dead_letter settle a run's events one after the
\* other and the cursor follows them, whichever publishers crash or come late.
THEOREM CursorFollowsSettled == Spec => []CursorBehindSettled
<1>1. IInv => CursorBehindSettled
  BY DEF IInv, EventsSound, EventSound, CursorBehindSettled
<1> QED
  BY <1>1, Invariance, PTL

\* _deliver marks an event published only after Pub/Sub has stored it.
THEOREM PublishedIsStored == Spec => []PublishedWasStored
<1>1. IInv => PublishedWasStored
  BY DEF IInv, EventsSound, EventSound, PublishedWasStored
<1> QED
  BY <1>1, Invariance, PTL

\* _claim_one leases the next event of a run and no other.
THEOREM LeasesOneEvent == Spec => []OneLeasePerRun
<1>1. IInv => OneLeasePerRun
  BY DEF IInv, EventsSound, EventSound, OneLeasePerRun
<1> QED
  BY <1>1, Invariance, PTL

\* Pub/Sub stores the revisions of a run for the first time in their order: a
\* message is never ahead of the cursor, and what is behind the cursor was
\* stored or given up.
THEOREM StoredInOrder == Spec => FirstStoredInOrder
<1> DEFINE InOrder ==
        \A r \in Runs : \A v \in topic'[r] \ topic[r] :
            \A n \in Revision : n < v => n \in topic[r] \/ events[r][n].dead
<1>1. IInv /\ [Next]_vars => InOrder
  <2> SUFFICES ASSUME IInv, [Next]_vars, NEW r \in Runs, NEW v \in topic'[r] \ topic[r],
                      NEW n \in Revision, n < v
               PROVE  n \in topic[r] \/ events[r][n].dead
    OBVIOUS
  <2>0. TypeOK
    BY DEF IInv
  <2>1. topic' # topic
    OBVIOUS
  <2>2. PICK m \in wire : Arrive(m)
    <3>1. ASSUME NEW p \in Publishers, Deliver(p) PROVE FALSE
      BY <2>1, <3>1 DEF Deliver, Send, SendError, MarkPublished, MarkDeadLetter, MarkFailed
    <3> QED
      BY <2>1, <3>1 DEF Next, vars, WriteEvent, Begin, ClaimNext, ScanDone, Crash, BackoffOver,
                        LeaseOver, Stall
  <2>3. m.run \in Runs /\ m.revision \in Revision /\ m.revision <= cursor[m.run]
    BY <2>0 DEF IInv, TypeOK, Message, WireSound
  <2>4. r = m.run /\ v = m.revision
    BY <2>0, <2>2, <2>3 DEF Arrive, TypeOK
  <2>5. n < cursor[r]
    BY <2>0, <2>3, <2>4, Numbers DEF Revision
  <2> QED
    BY <2>5 DEF IInv, EventsSound, EventSound, Settled
<1>2. Spec => [][InOrder]_vars
  <2> HIDE DEF InOrder
  <2>1. IInv /\ [Next]_vars => [InOrder]_vars
    BY <1>1
  <2> QED
    BY <2>1, Invariance, PTL DEF Spec
<1> QED
  BY <1>2 DEF FirstStoredInOrder

\* Of a settled document nothing changes: all a step replaces is unsettled.
LEMMA OnlyUnsettledChanges ==
    ASSUME IInv, [Next]_vars, NEW r \in Runs, NEW v \in Revision, Settled(events[r][v])
    PROVE  events'[r][v] = events[r][v]
<1>0. TypeOK /\ EventsSound
  BY DEF IInv
<1>1. ASSUME NEW q \in Runs, NEW n \in Revision, NEW e, Put(q, n, e), ~Settled(events[q][n])
      PROVE  events'[r][v] = events[r][v]
  <2>1. q # r \/ n # v
    BY <1>1
  <2> QED
    BY <1>0, <1>1, <2>1 DEF Put, TypeOK
<1>2. CASE events' = events
  BY <1>2
<1>3. ASSUME NEW q \in Runs, WriteEvent(q)
      PROVE  events'[r][v] = events[r][v]
  <2>1. written[q] \in Revision /\ ~(written[q] < cursor[q])
    BY <1>0, <1>3, Numbers DEF WriteEvent, IInv, CursorSound, Revision
  <2>2. ~Settled(events[q][written[q]])
    BY <1>0, <2>1 DEF EventsSound, EventSound
  <2> QED
    BY <1>1, <1>3, <2>1, <2>2 DEF WriteEvent
<1>4. ASSUME NEW p \in Publishers, ClaimNext(p)
      PROVE  events'[r][v] = events[r][v]
  BY <1>0, <1>1, <1>2, <1>4, PublisherTypes DEF ClaimNext, Claimable
<1>5. ASSUME NEW p \in Publishers, Deliver(p)
      PROVE  events'[r][v] = events[r][v]
  BY <1>0, <1>1, <1>2, <1>5, PublisherTypes
     DEF Deliver, Send, SendError, MarkPublished, MarkDeadLetter, MarkFailed, MaySettle
<1>6. ASSUME NEW q \in Runs, NEW n \in Revision,
             BackoffOver(q, n) \/ LeaseOver(q, n) \/ Stall(q, n)
      PROVE  events'[r][v] = events[r][v]
  <2>1. events[q][n].waiting \/ events[q][n].leased
    BY <1>6 DEF BackoffOver, LeaseOver, Stall
  <2>2. ~Settled(events[q][n])
    <3>1. EventSound(events[q][n], n, cursor[q], topic[q]) /\ cursor[q] \in Nat /\ n \in Nat
      BY <1>0, Numbers DEF EventsSound, Revision
    <3> QED
      BY <2>1, <3>1 DEF EventSound
  <2> QED
    BY <1>1, <1>6, <2>2 DEF BackoffOver, LeaseOver, Stall
<1> QED
  BY <1>2, <1>3, <1>4, <1>5, <1>6 DEF Next, vars, Begin, ScanDone, Crash, Arrive

\* No late publisher changes a document that was published or given up
\* (outbox.py _owned, mark_failed).
THEOREM SettledIsForGood == Spec => SettledForGood
<1> DEFINE Kept ==
        \A r \in Runs, v \in Revision : Settled(events[r][v]) => events'[r][v] = events[r][v]
<1>1. IInv /\ [Next]_vars => [Kept]_vars
  BY OnlyUnsettledChanges
<1>2. Spec => [][Kept]_vars
  <2> HIDE DEF Kept
  <2> QED
    BY <1>1, Invariance, PTL DEF Spec
<1> QED
  BY <1>2 DEF SettledForGood

-----------------------------------------------------------------------------
(***************************************************************************)
(* Audit: an event that a drain works on is in the chain and at most the   *)
(* next one, and what the cursor has passed is exactly what is settled. So *)
(* whatever a late drain writes, all before it is logged or a dead letter. *)
(***************************************************************************)

AuditDocument == [status : {"queued", "logged", "dead"}, attempts : Nat,
                  owner : Drains \cup {NoDrain}, leased : BOOLEAN, waiting : BOOLEAN]

AuditWork == [at : {"idle", "claimed", "accepted", "error"}, event : Events \cup {NoDrain},
              attempts : Nat]

\* The event is in the chain, and nothing unsettled is before it.
Reached(e) == \E i \in 1..Len(chain) : chain[i] = e /\ i <= auditCursor + 1

WorkSound(work) ==
    /\ work.at # "idle" => work.event \in Events /\ Reached(work.event)
    /\ work.at = "accepted" => work.event \in log

AuditTyped ==
    /\ chain \in Seq(Events)
    /\ outbox \in [Events -> AuditDocument]
    /\ auditCursor \in Nat
    /\ drain \in [Drains -> AuditWork]

ChainSound ==
    /\ \A i, j \in 1..Len(chain) : chain[i] = chain[j] => i = j
    /\ auditCursor <= Len(chain)
    /\ \A i \in 1..Len(chain) : i <= auditCursor <=> Audit!Settled(chain[i])

AuditInv ==
    /\ AuditTyped
    /\ ChainSound
    /\ \A d \in Drains : WorkSound(drain[d])
    /\ \A e \in Events : outbox[e].status = "logged" => e \in log

\* The chain's length, its events and the events appended.
LEMMA ChainFacts ==
    ASSUME AuditInv
    PROVE  /\ Len(chain) \in Nat /\ DOMAIN chain = 1..Len(chain)
           /\ \A i \in 1..Len(chain) : chain[i] \in Events
           /\ Audit!Appended = {chain[i] : i \in 1..Len(chain)}
<1>1. chain \in Seq(Events)
  BY DEF AuditInv, AuditTyped
<1>2. Len(chain) \in Nat /\ DOMAIN chain = 1..Len(chain) /\ \A i \in 1..Len(chain) : chain[i] \in Events
  BY <1>1
<1> QED
  BY <1>2 DEF Audit!Appended, Audit!ToSet

\* The outbox and the chain where a document changes and its status does not.
LEMMA DocumentKept ==
    ASSUME AuditInv, NEW e \in Events, NEW o \in AuditDocument, Audit!Put(e, o),
           o.status = outbox[e].status, UNCHANGED <<chain, auditCursor>>,
           log \subseteq log'
    PROVE  /\ outbox' \in [Events -> AuditDocument]
           /\ ChainSound'
           /\ \A f \in Events : outbox'[f].status = "logged" => f \in log'
<1>1. outbox \in [Events -> AuditDocument] /\ outbox' = [outbox EXCEPT ![e] = o]
  BY DEF AuditInv, AuditTyped, Audit!Put
<1>2. outbox' \in [Events -> AuditDocument]
  BY <1>1
<1>3. \A f \in Events : outbox'[f].status = outbox[f].status
  BY <1>1
<1>4. \A i \in 1..Len(chain) : Audit!Settled(chain[i])' <=> Audit!Settled(chain[i])
  BY <1>3, ChainFacts DEF Audit!Settled
<1>5. ChainSound'
  BY <1>4 DEF AuditInv, ChainSound
<1> QED
  BY <1>2, <1>3, <1>5 DEF AuditInv

\* The outbox and the chain where no document changes.
LEMMA DocumentsUntouched ==
    ASSUME AuditInv, UNCHANGED <<chain, outbox, auditCursor>>, log \subseteq log'
    PROVE  /\ outbox' \in [Events -> AuditDocument]
           /\ ChainSound'
           /\ \A f \in Events : outbox'[f].status = "logged" => f \in log'
<1>1. ChainSound'
  BY DEF AuditInv, ChainSound, Audit!Settled
<1> QED
  BY <1>1 DEF AuditInv, AuditTyped

LEMMA StillBefore ==
    ASSUME NEW i \in Nat, NEW a \in Nat, NEW b \in Nat, i <= a + 1, a <= b
    PROVE  i <= b + 1
OBVIOUS

\* What a drain works on stays reached: the chain grows at its end only and the
\* cursor never goes back.
LEMMA WorkKept ==
    ASSUME AuditInv, UNCHANGED chain, auditCursor' \in Nat, auditCursor <= auditCursor',
           log \subseteq log', NEW work, WorkSound(work)
    PROVE  WorkSound(work)'
<1>1. auditCursor \in Nat /\ Len(chain) \in Nat
  BY ChainFacts DEF AuditInv, AuditTyped
<1>2. ASSUME NEW e, Reached(e) PROVE Reached(e)'
  <2>1. PICK i \in 1..Len(chain) : chain[i] = e /\ i <= auditCursor + 1
    BY <1>2 DEF Reached
  <2>2. i \in Nat /\ auditCursor \in Nat /\ auditCursor' \in Nat
    BY <1>1
  <2>3. i <= auditCursor' + 1
    BY <2>1, <2>2, StillBefore
  <2> QED
    BY <2>1, <2>3 DEF Reached
<1> QED
  BY <1>2 DEF WorkSound

\* A drain's work is replaced, or no drain's.
LEMMA DrainStep ==
    ASSUME AuditInv, UNCHANGED chain, auditCursor' \in Nat, auditCursor <= auditCursor',
           log \subseteq log', NEW d \in Drains, NEW work \in AuditWork, WorkSound(work)',
           drain' = [drain EXCEPT ![d] = work]
    PROVE  drain' \in [Drains -> AuditWork] /\ \A c \in Drains : WorkSound(drain[c])'
<1>1. drain \in [Drains -> AuditWork]
  BY DEF AuditInv, AuditTyped
<1>2. ASSUME NEW c \in Drains PROVE WorkSound(drain[c])'
  <2>1. CASE c = d
    <3>1. drain'[c] = work
      BY <1>1, <2>1
    <3> QED
      BY <3>1 DEF WorkSound, Reached
  <2>2. CASE c # d
    <3>1. drain'[c] = drain[c] /\ WorkSound(drain[c])
      BY <1>1, <2>2 DEF AuditInv
    <3> DEFINE w == drain[c]
    <3>2. PICK o : o = w
      OBVIOUS
    <3>3. WorkSound(o)'
      BY <3>1, <3>2, WorkKept
    <3> QED
      BY <3>1, <3>2, <3>3 DEF WorkSound, Reached
  <2> QED
    BY <2>1, <2>2
<1> QED
  BY <1>1, <1>2

LEMMA DrainsUntouched ==
    ASSUME AuditInv, UNCHANGED <<chain, drain, auditCursor>>, log \subseteq log'
    PROVE  drain' \in [Drains -> AuditWork] /\ \A c \in Drains : WorkSound(drain[c])'
<1>1. auditCursor \in Nat
  BY DEF AuditInv, AuditTyped
<1>2. ASSUME NEW c \in Drains PROVE WorkSound(drain[c])'
  <2>1. PICK o : o = drain[c]
    OBVIOUS
  <2>2. WorkSound(o)'
    BY <1>1, <2>1, WorkKept DEF AuditInv
  <2> QED
    BY <2>1, <2>2 DEF WorkSound, Reached
<1> QED
  BY <1>2 DEF AuditInv, AuditTyped

\* Rest: an idle drain works on nothing.
LEMMA RestStep ==
    ASSUME AuditInv, UNCHANGED chain, auditCursor' \in Nat, auditCursor <= auditCursor',
           log \subseteq log', NEW d \in Drains, Audit!Rest(d)
    PROVE  drain' \in [Drains -> AuditWork] /\ \A c \in Drains : WorkSound(drain[c])'
<1>1. Audit!Idle \in AuditWork /\ Audit!Idle.at = "idle"
  BY DEF Audit!Idle, AuditWork
<1>2. WorkSound(Audit!Idle)'
  BY <1>1 DEF WorkSound, Audit!Idle
<1> QED
  BY <1>1, <1>2, DrainStep DEF Audit!Rest

\* Settling: only the next event of the chain, and the cursor passes it.
LEMMA SettleStep ==
    ASSUME AuditInv, NEW d \in Drains, drain[d].at # "idle", Audit!MaySettle(d),
           NEW status \in {"logged", "dead"}, status = "logged" => drain[d].event \in log,
           Audit!Settle(drain[d].event, status), UNCHANGED <<chain, log>>
    PROVE  /\ outbox' \in [Events -> AuditDocument]
           /\ auditCursor' \in Nat /\ auditCursor <= auditCursor'
           /\ ChainSound'
           /\ \A f \in Events : outbox'[f].status = "logged" => f \in log'
<1> DEFINE e == drain[d].event
<1>1. /\ AuditTyped /\ ChainSound /\ WorkSound(drain[d]) /\ auditCursor \in Nat
      /\ Len(chain) \in Nat /\ \A i \in 1..Len(chain) : chain[i] \in Events
  BY ChainFacts DEF AuditInv, AuditTyped
<1>2. e \in Events /\ ~Audit!Settled(e) /\ chain[auditCursor + 1] = e
  BY <1>1 DEF WorkSound, Audit!MaySettle
<1>3. PICK i \in 1..Len(chain) : chain[i] = e /\ i <= auditCursor + 1
  BY <1>1 DEF WorkSound, Reached
<1>4. auditCursor + 1 \in 1..Len(chain)
  <2>1. ~(i <= auditCursor)
    BY <1>1, <1>2, <1>3 DEF ChainSound
  <2> QED
    BY <1>1, <1>3, <2>1
<1>5. outbox[e] \in AuditDocument
  BY <1>1, <1>2 DEF AuditTyped
<1>6. PICK o : o = [Audit!Released(e) EXCEPT !.status = status]
  OBVIOUS
<1>7. o \in AuditDocument /\ o.status = status
  <2>1. PICK q : q = outbox[e]
    OBVIOUS
  <2>2. q \in AuditDocument /\ o = [[q EXCEPT !.owner = NoDrain, !.leased = FALSE] EXCEPT !.status = status]
    BY <1>5, <1>6, <2>1 DEF Audit!Released
  <2>3. status \in {"queued", "logged", "dead"} /\ FALSE \in BOOLEAN
    OBVIOUS
  <2> QED
    BY <2>2, <2>3 DEF AuditDocument
<1>8. outbox' = [outbox EXCEPT ![e] = o] /\ auditCursor' = auditCursor + 1
  BY <1>6 DEF Audit!Settle, Audit!Put
<1> HIDE DEF e
<1>9. outbox' \in [Events -> AuditDocument] /\ outbox'[e] = o
      /\ \A f \in Events \ {e} : outbox'[f] = outbox[f]
  BY <1>1, <1>2, <1>7, <1>8 DEF AuditTyped
<1>10. ASSUME NEW j \in 1..Len(chain)
       PROVE  j <= auditCursor' <=> Audit!Settled(chain[j])'
  <2>1. chain[j] \in Events /\ (j <= auditCursor <=> Audit!Settled(chain[j]))
    BY <1>1 DEF ChainSound
  <2>2. CASE j = auditCursor + 1
    BY <1>1, <1>2, <1>7, <1>8, <1>9, <2>2 DEF Audit!Settled
  <2>3. CASE j # auditCursor + 1
    <3>1. chain[j] # e
      BY <1>1, <1>2, <1>4, <2>3 DEF ChainSound
    <3>2. Audit!Settled(chain[j])' <=> Audit!Settled(chain[j])
      BY <1>9, <2>1, <3>1 DEF Audit!Settled
    <3> QED
      BY <1>1, <1>8, <2>1, <2>3, <3>2
  <2> QED
    BY <2>2, <2>3
<1>11. ChainSound'
  <2>1. auditCursor' <= Len(chain)
    BY <1>1, <1>4, <1>8
  <2> QED
    BY <1>1, <1>10, <2>1 DEF ChainSound
<1>12. ASSUME NEW f \in Events, outbox'[f].status = "logged" PROVE f \in log'
  <2>1. CASE f = e
    BY <1>7, <1>9, <1>12, <2>1 DEF e
  <2>2. CASE f # e
    BY <1>9, <1>12, <2>2 DEF AuditInv
  <2> QED
    BY <2>1, <2>2
<1> QED
  BY <1>1, <1>8, <1>9, <1>11, <1>12

\* Append: the chain grows by an event that is not settled.
LEMMA AppendStep ==
    ASSUME AuditInv, NEW e \in Events, Audit!AppendEvent(e),
           UNCHANGED <<auditCursor, drain, log>>
    PROVE  AuditInv'
<1>1. /\ AuditTyped /\ ChainSound /\ auditCursor \in Nat /\ Len(chain) \in Nat
      /\ \A i \in 1..Len(chain) : chain[i] \in Events
      /\ Audit!Appended = {chain[i] : i \in 1..Len(chain)}
  BY ChainFacts DEF AuditInv, AuditTyped
<1>2. CASE e \in Audit!Appended
  <2>1. UNCHANGED <<chain, outbox, auditCursor, drain, log>>
    BY <1>2 DEF Audit!AppendEvent
  <2> QED
    BY <2>1, DocumentsUntouched, DrainsUntouched DEF AuditInv, AuditTyped
<1>3. CASE e \notin Audit!Appended
  <2>1. chain' = Append(chain, e) /\ outbox' = [outbox EXCEPT ![e] = Audit!Queued]
    BY <1>3 DEF Audit!AppendEvent
  <2>2. /\ chain' \in Seq(Events) /\ Len(chain') = Len(chain) + 1
        /\ \A i \in 1..Len(chain) : chain'[i] = chain[i]
        /\ chain'[Len(chain) + 1] = e
    BY <1>1, <2>1 DEF AuditTyped
  <2>3. Audit!Queued \in AuditDocument /\ Audit!Queued.status = "queued"
    BY DEF Audit!Queued, AuditDocument
  <2>4. /\ outbox' \in [Events -> AuditDocument] /\ outbox'[e] = Audit!Queued
        /\ \A f \in Events \ {e} : outbox'[f] = outbox[f]
    BY <1>1, <2>1, <2>3 DEF AuditTyped
  <2>5. \A i \in 1..Len(chain) : chain[i] # e
    BY <1>1, <1>3
  <2>6. ASSUME NEW i \in 1..Len(chain'), NEW j \in 1..Len(chain'), chain'[i] = chain'[j]
        PROVE  i = j
    <3>1. \A k \in 1..Len(chain') : k \in 1..Len(chain) \/ k = Len(chain) + 1
      BY <1>1, <2>2
    <3>2. CASE i \in 1..Len(chain) /\ j \in 1..Len(chain)
      BY <1>1, <2>2, <2>6, <3>2 DEF ChainSound
    <3>3. CASE i \in 1..Len(chain) /\ j = Len(chain) + 1
      BY <2>2, <2>5, <2>6, <3>3
    <3>4. CASE i = Len(chain) + 1 /\ j \in 1..Len(chain)
      BY <2>2, <2>5, <2>6, <3>4
    <3>5. CASE i = Len(chain) + 1 /\ j = Len(chain) + 1
      BY <3>5
    <3> QED
      BY <3>1, <3>2, <3>3, <3>4, <3>5
  <2>7. ASSUME NEW i \in 1..Len(chain')
        PROVE  i <= auditCursor' <=> Audit!Settled(chain[i])'
    <3>1. CASE i \in 1..Len(chain)
      <4>1. chain'[i] = chain[i] /\ chain[i] \in Events \ {e}
        BY <1>1, <2>2, <2>5, <3>1
      <4>2. outbox'[chain'[i]] = outbox[chain[i]]
        BY <2>4, <4>1
      <4>3. i <= auditCursor <=> Audit!Settled(chain[i])
        BY <1>1, <3>1 DEF ChainSound
      <4> QED
        BY <4>2, <4>3 DEF Audit!Settled
    <3>2. CASE i = Len(chain) + 1
      <4>1. outbox'[chain'[i]].status = "queued"
        BY <2>2, <2>3, <2>4, <3>2
      <4>2. ~(i <= auditCursor)
        BY <1>1, <3>2 DEF ChainSound
      <4> QED
        BY <4>1, <4>2 DEF Audit!Settled
    <3> QED
      BY <1>1, <2>2, <3>1, <3>2
  <2>8. ChainSound'
    <3>1. auditCursor' <= Len(chain')
      BY <1>1, <2>2 DEF ChainSound
    <3> QED
      BY <2>6, <2>7, <3>1 DEF ChainSound
  <2>9. ASSUME NEW d \in Drains PROVE WorkSound(drain[d])'
    <3>1. WorkSound(drain[d]) /\ drain' = drain /\ log' = log
      BY DEF AuditInv
    <3>2. ASSUME NEW f, Reached(f) PROVE Reached(f)'
      <4>1. PICK i \in 1..Len(chain) : chain[i] = f /\ i <= auditCursor + 1
        BY <3>2 DEF Reached
      <4>2. i \in 1..Len(chain') /\ chain'[i] = f
        BY <1>1, <2>2, <4>1
      <4> QED
        BY <4>1, <4>2 DEF Reached
    <3>3. PICK w : w = drain[d]
      OBVIOUS
    <3>4. w.at # "idle" => w.event \in Events /\ Reached(w.event)'
      BY <3>1, <3>2, <3>3 DEF WorkSound
    <3>5. w.at = "accepted" => w.event \in log'
      BY <3>1, <3>3 DEF WorkSound
    <3>6. drain'[d] = w
      BY <3>1, <3>3
    <3> QED
      BY <3>4, <3>5, <3>6 DEF WorkSound, Reached
  <2>10. \A f \in Events : outbox'[f].status = "logged" => f \in log'
    BY <2>3, <2>4 DEF AuditInv
  <2>11. AuditTyped'
    BY <1>1, <2>2, <2>4 DEF AuditTyped
  <2> QED
    BY <2>8, <2>9, <2>10, <2>11 DEF AuditInv
<1> QED
  BY <1>2, <1>3

LEMMA AuditUntouched ==
    ASSUME AuditInv, UNCHANGED <<chain, outbox, auditCursor, drain, log>>
    PROVE  AuditInv'
BY DocumentsUntouched, DrainsUntouched DEF AuditInv, AuditTyped

LEMMA AuditClaim ==
    ASSUME AuditInv, NEW d \in Drains, NEW e \in Events, Audit!Claim(d, e)
    PROVE  AuditInv'
<1>1. /\ auditCursor < Len(chain) /\ chain[auditCursor + 1] = e
      /\ UNCHANGED <<chain, auditCursor, log>>
      /\ Audit!Put(e, [outbox[e] EXCEPT !.owner = d, !.leased = TRUE, !.attempts = @ + 1])
      /\ drain' = [drain EXCEPT ![d] =
             [at |-> "claimed", event |-> e, attempts |-> outbox[e].attempts + 1]]
  BY DEF Audit!Claim, Audit!Claimable
<1>2. PICK q : q = outbox[e]
  OBVIOUS
<1>3. PICK k : k = q.attempts + 1
  OBVIOUS
<1>4. q \in AuditDocument /\ k \in Nat /\ auditCursor \in Nat /\ Len(chain) \in Nat
  BY <1>2, <1>3, ChainFacts DEF AuditInv, AuditTyped, AuditDocument
<1>5. PICK o : o = [q EXCEPT !.owner = d, !.leased = TRUE, !.attempts = k]
  OBVIOUS
<1>6. o \in AuditDocument /\ o.status = q.status
  <2>1. TRUE \in BOOLEAN
    OBVIOUS
  <2> QED
    BY <1>4, <1>5, <2>1 DEF AuditDocument
<1>7. Audit!Put(e, o)
  BY <1>1, <1>2, <1>3, <1>5
<1>8. PICK w : w = [at |-> "claimed", event |-> e, attempts |-> k]
  OBVIOUS
<1>9. w \in AuditWork /\ w.at = "claimed" /\ w.event = e /\ drain' = [drain EXCEPT ![d] = w]
  BY <1>1, <1>2, <1>3, <1>4, <1>8 DEF AuditWork
<1>10. Reached(e)'
  <2>1. auditCursor + 1 \in 1..Len(chain) /\ auditCursor + 1 <= auditCursor + 1
    BY <1>1, <1>4
  <2> QED
    BY <1>1, <2>1 DEF Reached
<1>11. WorkSound(w)'
  BY <1>9, <1>10 DEF WorkSound
<1>12. drain' \in [Drains -> AuditWork] /\ \A c \in Drains : WorkSound(drain[c])'
  <2>1. auditCursor' \in Nat /\ auditCursor <= auditCursor' /\ log \subseteq log'
    BY <1>1, <1>4
  <2> QED
    BY <1>1, <1>9, <1>11, <2>1, DrainStep
<1>13. /\ outbox' \in [Events -> AuditDocument] /\ ChainSound'
       /\ \A f \in Events : outbox'[f].status = "logged" => f \in log'
  <2>1. log \subseteq log' /\ o.status = outbox[e].status
    BY <1>1, <1>2, <1>6
  <2> QED
    BY <1>1, <1>6, <1>7, <2>1, DocumentKept
<1> QED
  BY <1>1, <1>12, <1>13 DEF AuditInv, AuditTyped

\* Write and WriteFails: the drain keeps its event, whatever the log took.
LEMMA AuditWrite ==
    ASSUME AuditInv, NEW d \in Drains, Audit!Write(d) \/ Audit!WriteFails(d)
    PROVE  AuditInv'
<1>1. PICK w : w = drain[d]
  OBVIOUS
<1>2. w \in AuditWork /\ WorkSound(w) /\ w.at = "claimed" /\ auditCursor \in Nat
  BY <1>1 DEF Audit!Write, Audit!WriteFails, AuditInv, AuditTyped
<1>3. UNCHANGED <<chain, outbox, auditCursor>> /\ log \subseteq log'
  BY DEF Audit!Write, Audit!WriteFails
<1>4. PICK at \in {"accepted", "error"} :
        /\ drain' = [drain EXCEPT ![d].at = at]
        /\ at = "accepted" => w.event \in log'
  BY <1>1 DEF Audit!Write, Audit!WriteFails
<1>5. PICK n : n = [w EXCEPT !.at = at]
  OBVIOUS
<1>6. n \in AuditWork /\ n.at = at /\ n.event = w.event
  <2>1. at \in {"idle", "claimed", "accepted", "error"}
    OBVIOUS
  <2> QED
    BY <1>2, <1>5, <2>1 DEF AuditWork
<1>7. drain' = [drain EXCEPT ![d] = n]
  BY <1>1, <1>4, <1>5 DEF AuditInv, AuditTyped
<1>8. auditCursor' \in Nat /\ auditCursor <= auditCursor'
  BY <1>2, <1>3
<1>9. WorkSound(n)'
  <2>1. w.event \in Events /\ Reached(w.event)
    BY <1>2 DEF WorkSound
  <2>2. PICK e : e = w.event
    OBVIOUS
  <2>3. Reached(e)'
    BY <1>3, <2>1, <2>2 DEF Reached
  <2>4. n.event = e /\ e \in Events /\ (n.at = "accepted" => e \in log')
    BY <1>4, <1>6, <2>1, <2>2
  <2> QED
    BY <2>3, <2>4 DEF WorkSound
<1>10. drain' \in [Drains -> AuditWork] /\ \A c \in Drains : WorkSound(drain[c])'
  BY <1>3, <1>6, <1>7, <1>8, <1>9, DrainStep
<1> QED
  BY <1>3, <1>10, DocumentsUntouched DEF AuditInv, AuditTyped

\* MarkLogged and MarkDeadLetter: the drain settles its event or finds it changed.
LEMMA AuditSettles ==
    ASSUME AuditInv, NEW d \in Drains, Audit!MarkLogged(d) \/ Audit!MarkDeadLetter(d)
    PROVE  AuditInv'
<1>1. PICK status \in {"logged", "dead"} :
        /\ status = "logged" => drain[d].at = "accepted"
        /\ IF Audit!MaySettle(d) THEN Audit!Settle(drain[d].event, status)
           ELSE UNCHANGED <<outbox, auditCursor>>
  BY DEF Audit!MarkLogged, Audit!MarkDeadLetter
<1>2. /\ drain[d].at # "idle" /\ Audit!Rest(d) /\ UNCHANGED <<chain, log>>
      /\ auditCursor \in Nat
  BY DEF Audit!MarkLogged, Audit!MarkDeadLetter, AuditInv, AuditTyped
<1>3. status = "logged" => drain[d].event \in log
  BY <1>1 DEF AuditInv, WorkSound
<1>4. /\ outbox' \in [Events -> AuditDocument]
      /\ auditCursor' \in Nat /\ auditCursor <= auditCursor'
      /\ ChainSound'
      /\ \A f \in Events : outbox'[f].status = "logged" => f \in log'
  <2>1. CASE Audit!MaySettle(d)
    BY <1>1, <1>2, <1>3, <2>1, SettleStep
  <2>2. CASE ~Audit!MaySettle(d)
    <3>1. UNCHANGED <<outbox, auditCursor>>
      BY <1>1, <2>2
    <3> QED
      BY <1>2, <3>1, DocumentsUntouched
  <2> QED
    BY <2>1, <2>2
<1>5. drain' \in [Drains -> AuditWork] /\ \A c \in Drains : WorkSound(drain[c])'
  BY <1>2, <1>4, RestStep
<1> QED
  BY <1>2, <1>4, <1>5 DEF AuditInv, AuditTyped

LEMMA AuditMarkFailed ==
    ASSUME AuditInv, NEW d \in Drains, Audit!MarkFailed(d)
    PROVE  AuditInv'
<1>1. PICK e : e = drain[d].event
  OBVIOUS
<1>2. e \in Events /\ UNCHANGED <<chain, auditCursor, log>> /\ Audit!Rest(d) /\ auditCursor \in Nat
  BY <1>1 DEF Audit!MarkFailed, AuditInv, AuditTyped, WorkSound
<1>3. /\ outbox' \in [Events -> AuditDocument] /\ ChainSound'
      /\ \A f \in Events : outbox'[f].status = "logged" => f \in log'
  <2>1. CASE UNCHANGED outbox
    BY <1>2, <2>1, DocumentsUntouched
  <2>2. CASE Audit!Put(e, [Audit!Released(e) EXCEPT !.waiting = TRUE])
    <3>1. PICK q : q = outbox[e]
      OBVIOUS
    <3>2. PICK o : o = [[q EXCEPT !.owner = NoDrain, !.leased = FALSE] EXCEPT !.waiting = TRUE]
      OBVIOUS
    <3>3. q \in AuditDocument
      BY <1>2, <3>1 DEF AuditInv, AuditTyped
    <3>4. o \in AuditDocument /\ o.status = outbox[e].status
      <4>1. TRUE \in BOOLEAN /\ FALSE \in BOOLEAN
        OBVIOUS
      <4> QED
        BY <3>1, <3>2, <3>3, <4>1 DEF AuditDocument
    <3>5. Audit!Put(e, o)
      BY <2>2, <3>1, <3>2 DEF Audit!Released
    <3> QED
      BY <1>2, <3>4, <3>5, DocumentKept
  <2> QED
    BY <1>1, <2>1, <2>2 DEF Audit!MarkFailed
<1>4. drain' \in [Drains -> AuditWork] /\ \A c \in Drains : WorkSound(drain[c])'
  BY <1>2, RestStep
<1> QED
  BY <1>2, <1>3, <1>4 DEF AuditInv, AuditTyped

LEMMA AuditTime ==
    ASSUME AuditInv, NEW e \in Events, Audit!BackoffOver(e) \/ Audit!LeaseOver(e)
    PROVE  AuditInv'
<1>1. PICK q : q = outbox[e]
  OBVIOUS
<1>2. q \in AuditDocument /\ UNCHANGED <<chain, auditCursor, drain, log>>
  BY <1>1 DEF AuditInv, AuditTyped, Audit!BackoffOver, Audit!LeaseOver
<1>3. PICK o \in {[q EXCEPT !.waiting = FALSE], [q EXCEPT !.leased = FALSE]} : Audit!Put(e, o)
  BY <1>1 DEF Audit!BackoffOver, Audit!LeaseOver
<1>4. o \in AuditDocument /\ o.status = outbox[e].status
  <2>1. FALSE \in BOOLEAN
    OBVIOUS
  <2> QED
    BY <1>1, <1>2, <1>3, <2>1 DEF AuditDocument
<1>5. log \subseteq log'
  BY <1>2
<1> QED
  BY <1>2, <1>3, <1>4, <1>5, DocumentKept, DrainsUntouched DEF AuditInv, AuditTyped

LEMMA AuditCrash ==
    ASSUME AuditInv, NEW d \in Drains, Audit!Crash(d)
    PROVE  AuditInv'
<1>1. UNCHANGED <<chain, outbox, auditCursor, log>> /\ Audit!Rest(d) /\ auditCursor \in Nat
  BY DEF Audit!Crash, AuditInv, AuditTyped
<1>2. drain' \in [Drains -> AuditWork] /\ \A c \in Drains : WorkSound(drain[c])'
  BY <1>1, RestStep
<1> QED
  BY <1>1, <1>2, DocumentsUntouched DEF AuditInv, AuditTyped

LEMMA AuditInitially == Audit!Init => AuditInv
<1> SUFFICES ASSUME Audit!Init PROVE AuditInv
  OBVIOUS
<1>1. chain = <<>> /\ auditCursor = 0 /\ log = {}
  BY DEF Audit!Init
<1>2. Audit!Queued \in AuditDocument /\ Audit!Queued.status = "queued"
  BY DEF Audit!Queued, AuditDocument
<1>3. Audit!Idle \in AuditWork /\ Audit!Idle.at = "idle"
  BY DEF Audit!Idle, AuditWork
<1>4. outbox \in [Events -> AuditDocument] /\ \A e \in Events : outbox[e].status # "logged"
  BY <1>2 DEF Audit!Init
<1>5. drain \in [Drains -> AuditWork] /\ \A d \in Drains : drain[d].at = "idle"
  BY <1>3 DEF Audit!Init
<1>6. chain \in Seq(Events) /\ Len(chain) = 0
  BY <1>1
<1>7. ChainSound
  BY <1>1, <1>6 DEF ChainSound
<1>8. \A d \in Drains : WorkSound(drain[d])
  BY <1>5 DEF WorkSound
<1>9. auditCursor \in Nat
  BY <1>1
<1> QED
  BY <1>4, <1>5, <1>6, <1>7, <1>8, <1>9 DEF AuditInv, AuditTyped

LEMMA AuditNext == AuditInv /\ [QueuesNext]_allVars => AuditInv'
<1> SUFFICES ASSUME AuditInv, [QueuesNext]_allVars PROVE AuditInv'
  OBVIOUS
<1>1. CASE Audit!Next
  <2>1. ASSUME NEW e \in Events, Audit!Publish(e) PROVE AuditInv'
    BY <2>1, AuditUntouched DEF Audit!Publish
  <2>2. ASSUME NEW e \in Events, Audit!Deliver(e) PROVE AuditInv'
    BY <2>2, AuditUntouched, AppendStep DEF Audit!Deliver
  <2>3. ASSUME NEW d \in Drains, Audit!Work(d) PROVE AuditInv'
    BY <2>3, AuditClaim, AuditWrite, AuditSettles, AuditMarkFailed DEF Audit!Work
  <2> QED
    BY <1>1, <2>1, <2>2, <2>3, AuditTime, AuditCrash DEF Audit!Next
<1>2. CASE UNCHANGED auditVars
  BY <1>2, AuditUntouched DEF auditVars
<1>3. [QueuesNext]_allVars => Audit!Next \/ UNCHANGED auditVars
  BY DEF QueuesNext, InEvents, InAudit, InNotices, allVars
<1> QED
  BY <1>1, <1>2, <1>3

\* What the log takes for the first time comes after what is logged or given up.
LEMMA FirstLogged ==
    ASSUME AuditInv, [QueuesNext]_allVars, NEW e \in log' \ log, NEW f \in Audit!Appended,
           Audit!Before(f, e)
    PROVE  f \in log \/ outbox[f].status = "dead"
<1>1. PICK d \in Drains : Audit!Write(d) \/ Audit!WriteFails(d)
  <2>1. Audit!Next
    BY DEF QueuesNext, InEvents, InAudit, InNotices, allVars, auditVars
  <2>2. log' # log
    OBVIOUS
  <2> QED
    BY <2>1, <2>2 DEF Audit!Next, Audit!Publish, Audit!Deliver, Audit!BackoffOver, Audit!LeaseOver,
                      Audit!Work, Audit!Claim, Audit!MarkLogged, Audit!MarkDeadLetter,
                      Audit!MarkFailed, Audit!Crash
<1>2. e = drain[d].event /\ drain[d].at = "claimed"
  BY <1>1 DEF Audit!Write, Audit!WriteFails
<1>3. Reached(e)
  BY <1>2 DEF AuditInv, WorkSound
<1>4. /\ Len(chain) \in Nat /\ auditCursor \in Nat /\ ChainSound /\ DOMAIN chain = 1..Len(chain)
      /\ \A i \in 1..Len(chain) : chain[i] \in Events
  BY ChainFacts DEF AuditInv, AuditTyped
<1>5. PICK m, n \in 1..Len(chain) : m < n /\ chain[m] = f /\ chain[n] = e
  BY <1>4 DEF Audit!Before
<1>6. PICK i \in 1..Len(chain) : chain[i] = e /\ i <= auditCursor + 1
  BY <1>3 DEF Reached
<1>7. n = i
  BY <1>4, <1>5, <1>6 DEF ChainSound
<1>8. m <= auditCursor
  BY <1>4, <1>5, <1>6, <1>7
<1>9. Audit!Settled(f) /\ f \in Events
  BY <1>4, <1>5, <1>8 DEF ChainSound
<1>10. outbox[f].status \in {"queued", "logged", "dead"}
  <2>1. outbox[f] \in AuditDocument
    BY <1>9 DEF AuditInv, AuditTyped
  <2> QED
    BY <2>1 DEF AuditDocument
<1> QED
  BY <1>9, <1>10 DEF AuditInv, Audit!Settled

\* Whoever reads the log sees the chain grow in order, whatever late drains write
\* (audit outbox _claim_one, mark_logged, mark_dead_letter).
THEOREM LogFollowsChain == QueuesSpec => LoggedInOrder
<1> DEFINE InOrder ==
        \A e \in log' \ log : \A f \in Audit!Appended :
            Audit!Before(f, e) => f \in log \/ outbox[f].status = "dead"
<1>1. QueuesInit => AuditInv
  BY AuditInitially DEF QueuesInit
<1>2. AuditInv /\ [QueuesNext]_allVars => [InOrder]_Audit!vars
  BY FirstLogged
<1>3. QueuesSpec => [][InOrder]_Audit!vars
  <2> HIDE DEF InOrder
  <2> QED
    BY <1>1, <1>2, AuditNext, PTL DEF QueuesSpec
<1> QED
  BY <1>3 DEF LoggedInOrder, Audit!LoggedInOrder

-----------------------------------------------------------------------------
(***************************************************************************)
(* Notifications: a delivery is written once, with the revision that its   *)
(* endpoint has then, and nobody claims or sends one that was not written. *)
(* So what drains hold, however stale, concerns a delivery whose revision  *)
(* is for good, and they compare it with the endpoint they have read.      *)
(***************************************************************************)

EndpointDocument == [exists : BOOLEAN, enabled : BOOLEAN, revision : Nat]

DeliveryDocument ==
    [state : {"absent", "pending", "sending", "sent", "failed"}, revision : Nat, attempts : Nat,
     owner : Drains \cup {NoDrain}, leased : BOOLEAN, waiting : BOOLEAN]

DeliveryClaim == [at : {"none", "claimed", "accepted", "retryable", "terminal"},
                  enabled : BOOLEAN, revision : Nat, attempts : Nat]

NoticeTyped ==
    /\ endpoint \in [Endpoints -> EndpointDocument]
    /\ notice \in [Notices -> {"absent", "unread", "read"}]
    /\ delivery \in [Notifications!Deliveries -> DeliveryDocument]
    /\ claim \in [Drains -> [Notifications!Deliveries -> DeliveryClaim]]

DeliverySound(x) ==
    /\ delivery[x].state # "absent" => Notifications!Emitted(x[1])
    /\ delivery[x].state = "sent" => <<x, delivery[x].revision>> \in sent
    /\ \A revision : <<x, revision>> \in sent =>
          delivery[x].state # "absent" /\ revision = delivery[x].revision
    /\ \A d \in Drains :
          /\ claim[d][x].at # "none" => delivery[x].state # "absent"
          /\ claim[d][x].at = "accepted" => <<x, delivery[x].revision>> \in sent

NoticeInv == NoticeTyped /\ \A x \in Notifications!Deliveries : DeliverySound(x)

\* A delivery that a step leaves as it is, but for its lease and its backoff.
LEMMA SoundKept ==
    ASSUME NoticeInv, NEW x \in Notifications!Deliveries,
           delivery'[x].state = delivery[x].state, delivery'[x].revision = delivery[x].revision,
           Notifications!Emitted(x[1]) => Notifications!Emitted(x[1])',
           \A revision : <<x, revision>> \in sent' <=> <<x, revision>> \in sent,
           \A d \in Drains : claim'[d][x].at \in {"none", claim[d][x].at}
    PROVE  DeliverySound(x)'
<1>1. DeliverySound(x)
  BY DEF NoticeInv
<1> QED
  BY <1>1 DEF DeliverySound

LEMMA NoticeUntouched ==
    ASSUME NoticeInv, UNCHANGED <<endpoint, notice, delivery, claim, sent>>
    PROVE  NoticeInv'
<1>1. ASSUME NEW x \in Notifications!Deliveries PROVE DeliverySound(x)'
  BY <1>1, SoundKept DEF Notifications!Emitted
<1> QED
  BY <1>1 DEF NoticeInv, NoticeTyped, Notifications!Deliveries

LEMMA EndpointStep ==
    ASSUME NoticeInv, NEW a \in Endpoints, Notifications!Register(a) \/ Notifications!Switch(a)
    PROVE  NoticeInv'
<1>1. UNCHANGED <<notice, delivery, claim, sent>>
  BY DEF Notifications!Register, Notifications!Switch
<1>2. endpoint' \in [Endpoints -> EndpointDocument]
  <2>1. PICK q : q = endpoint[a]
    OBVIOUS
  <2>2. q \in EndpointDocument /\ endpoint \in [Endpoints -> EndpointDocument]
    BY <2>1 DEF NoticeInv, NoticeTyped
  <2>3. CASE Notifications!Register(a)
    <3>1. Notifications!NewEndpoint \in EndpointDocument
      BY DEF Notifications!NewEndpoint, EndpointDocument
    <3> QED
      BY <2>2, <2>3, <3>1 DEF Notifications!Register
  <2>4. CASE Notifications!Switch(a)
    <3>1. PICK k : k = q.revision + 1
      OBVIOUS
    <3>2. PICK b : b = ~q.enabled
      OBVIOUS
    <3>3. PICK n : n = [q EXCEPT !.enabled = b, !.revision = k]
      OBVIOUS
    <3>4. k \in Nat /\ b \in BOOLEAN
      BY <2>2, <3>1, <3>2 DEF EndpointDocument
    <3>5. n \in EndpointDocument
      BY <2>2, <3>3, <3>4 DEF EndpointDocument
    <3>6. endpoint' = [endpoint EXCEPT ![a] = n]
      BY <2>1, <2>2, <2>4, <3>1, <3>2, <3>3 DEF Notifications!Switch
    <3> QED
      BY <2>2, <3>5, <3>6
  <2> QED
    BY <2>3, <2>4
<1>3. ASSUME NEW x \in Notifications!Deliveries PROVE DeliverySound(x)'
  BY <1>1, SoundKept DEF Notifications!Emitted
<1> QED
  BY <1>1, <1>2, <1>3 DEF NoticeInv, NoticeTyped, Notifications!Deliveries

\* The transaction of emit: the deliveries of a notice that was not emitted before
\* were not there, so that nobody had claimed or sent them.
LEMMA EmitStep ==
    ASSUME NoticeInv, NEW n \in Notices, Notifications!Emit(n)
    PROVE  NoticeInv'
<1>1. NoticeTyped /\ UNCHANGED <<endpoint, claim, sent>>
  BY DEF NoticeInv, Notifications!Emit
<1>2. CASE UNCHANGED <<notice, delivery>>
  BY <1>1, <1>2, NoticeUntouched
<1>3. CASE ~Notifications!Emitted(n) /\ Notifications!Create(n)
  <2>1. notice' = [notice EXCEPT ![n] = "unread"]
    BY <1>3 DEF Notifications!Create
  <2>2. /\ notice' \in [Notices -> {"absent", "unread", "read"}]
        /\ \A m \in Notices : Notifications!Emitted(m) => Notifications!Emitted(m)'
        /\ Notifications!Emitted(n)'
    BY <1>1, <2>1 DEF NoticeTyped, Notifications!Emitted
  <2>3. ASSUME NEW x \in Notifications!Deliveries
        PROVE  delivery'[x] \in DeliveryDocument /\ DeliverySound(x)'
    <3>1. x[1] \in Notices /\ x[2] \in Endpoints
      BY DEF Notifications!Deliveries
    <3>2. DeliverySound(x) /\ delivery[x] \in DeliveryDocument /\ endpoint[x[2]] \in EndpointDocument
      BY <1>1, <3>1 DEF NoticeInv, NoticeTyped
    <3>3. CASE delivery'[x] = delivery[x]
      <4>1. DeliverySound(x)'
        BY <1>1, <2>2, <3>1, <3>3, SoundKept
      <4> QED
        BY <3>2, <3>3, <4>1
    <3>4. CASE /\ x[1] = n
               /\ delivery'[x] = [Notifications!NoDelivery EXCEPT
                     !.state = "pending", !.revision = endpoint[x[2]].revision]
      <4>1. PICK k : k = endpoint[x[2]].revision
        OBVIOUS
      <4>2. k \in Nat
        BY <3>2, <4>1 DEF EndpointDocument
      <4>3. /\ Notifications!NoDelivery \in DeliveryDocument
            /\ delivery'[x] = [Notifications!NoDelivery EXCEPT !.state = "pending", !.revision = k]
        BY <3>4, <4>1 DEF Notifications!NoDelivery, DeliveryDocument
      <4>4. delivery'[x] \in DeliveryDocument /\ delivery'[x].state = "pending"
        BY <4>2, <4>3 DEF DeliveryDocument
      <4>5. delivery[x].state = "absent"
        BY <1>3, <3>2, <3>4 DEF DeliverySound
      <4>6. /\ \A revision : <<x, revision>> \notin sent
            /\ \A d \in Drains : claim[d][x].at = "none"
        BY <3>2, <4>5 DEF DeliverySound
      <4>7. DeliverySound(x)'
        BY <1>1, <2>2, <3>4, <4>4, <4>6 DEF DeliverySound
      <4> QED
        BY <4>4, <4>7
    <3> QED
      BY <1>3, <3>3, <3>4 DEF Notifications!Create
  <2>4. delivery' \in [Notifications!Deliveries -> DeliveryDocument]
    <3>1. DOMAIN delivery' = Notifications!Deliveries
          /\ delivery' = [x \in Notifications!Deliveries |-> delivery'[x]]
      BY <1>3 DEF Notifications!Create
    <3> QED
      BY <2>3, <3>1
  <2> QED
    BY <1>1, <2>2, <2>3, <2>4 DEF NoticeInv, NoticeTyped, Notifications!Deliveries
<1> QED
  BY <1>2, <1>3 DEF Notifications!Emit

LEMMA MarkReadStep ==
    ASSUME NoticeInv, NEW n \in Notices, Notifications!MarkRead(n)
    PROVE  NoticeInv'
<1>1. UNCHANGED <<endpoint, delivery, claim, sent>> /\ notice' = [notice EXCEPT ![n] = "read"]
  BY DEF Notifications!MarkRead
<1>2. /\ notice' \in [Notices -> {"absent", "unread", "read"}]
      /\ \A m \in Notices : Notifications!Emitted(m) => Notifications!Emitted(m)'
  BY <1>1 DEF NoticeInv, NoticeTyped, Notifications!Emitted
<1>3. ASSUME NEW x \in Notifications!Deliveries PROVE DeliverySound(x)'
  <2>1. x[1] \in Notices
    BY DEF Notifications!Deliveries
  <2> QED
    BY <1>1, <1>2, <2>1, SoundKept
<1> QED
  BY <1>1, <1>2, <1>3 DEF NoticeInv, NoticeTyped, Notifications!Deliveries

\* Every step of a drain about one delivery x: the others stay as they are.
LEMMA DeliveryStep ==
    ASSUME NoticeInv, NEW x \in Notifications!Deliveries, DeliverySound(x)',
           UNCHANGED <<endpoint, notice>>,
           delivery' \in [Notifications!Deliveries -> DeliveryDocument],
           claim' \in [Drains -> [Notifications!Deliveries -> DeliveryClaim]],
           \A y \in Notifications!Deliveries \ {x} :
              /\ delivery'[y] = delivery[y]
              /\ \A d \in Drains : claim'[d][y] = claim[d][y]
              /\ \A revision : <<y, revision>> \in sent' <=> <<y, revision>> \in sent
    PROVE  NoticeInv'
<1>1. ASSUME NEW y \in Notifications!Deliveries PROVE DeliverySound(y)'
  <2>1. CASE y = x
    BY <2>1
  <2>2. CASE y # x
    BY <2>2, SoundKept DEF Notifications!Emitted
  <2> QED
    BY <2>1, <2>2
<1> QED
  BY <1>1 DEF NoticeInv, NoticeTyped, Notifications!Deliveries

\* Put and Hold, on one delivery.
LEMMA PutHold ==
    ASSUME NoticeInv, NEW x \in Notifications!Deliveries, NEW d \in Drains
    PROVE  /\ \A o \in DeliveryDocument : Notifications!Put(x, o) =>
                 /\ delivery' \in [Notifications!Deliveries -> DeliveryDocument]
                 /\ delivery'[x] = o
                 /\ \A y \in Notifications!Deliveries \ {x} : delivery'[y] = delivery[y]
           /\ \A k \in DeliveryClaim : Notifications!Hold(d, x, k) =>
                 /\ claim' \in [Drains -> [Notifications!Deliveries -> DeliveryClaim]]
                 /\ claim'[d][x] = k
                 /\ \A c \in Drains \ {d} : claim'[c] = claim[c]
                 /\ \A y \in Notifications!Deliveries \ {x}, c \in Drains :
                       claim'[c][y] = claim[c][y]
<1>1. NoticeTyped
  BY DEF NoticeInv
<1>2. ASSUME NEW o \in DeliveryDocument, Notifications!Put(x, o)
      PROVE  /\ delivery' \in [Notifications!Deliveries -> DeliveryDocument]
             /\ delivery'[x] = o
             /\ \A y \in Notifications!Deliveries \ {x} : delivery'[y] = delivery[y]
  BY <1>1, <1>2 DEF NoticeTyped, Notifications!Put
<1>3. ASSUME NEW k \in DeliveryClaim, Notifications!Hold(d, x, k)
      PROVE  /\ claim' \in [Drains -> [Notifications!Deliveries -> DeliveryClaim]]
             /\ claim'[d][x] = k
             /\ \A c \in Drains \ {d} : claim'[c] = claim[c]
             /\ \A y \in Notifications!Deliveries \ {x}, c \in Drains :
                   claim'[c][y] = claim[c][y]
  BY <1>1, <1>3 DEF NoticeTyped, Notifications!Hold
<1> QED
  BY <1>2, <1>3

LEMMA NoticeTime ==
    ASSUME NoticeInv, NEW x \in Notifications!Deliveries,
           Notifications!BackoffOver(x) \/ Notifications!LeaseOver(x)
    PROVE  NoticeInv'
<1>1. PICK q : q = delivery[x]
  OBVIOUS
<1>2. q \in DeliveryDocument /\ UNCHANGED <<endpoint, notice, claim, sent>>
  BY <1>1 DEF NoticeInv, NoticeTyped, Notifications!BackoffOver, Notifications!LeaseOver
<1>3. PICK o \in {[q EXCEPT !.waiting = FALSE], [q EXCEPT !.leased = FALSE]} :
        Notifications!Put(x, o)
  BY <1>1 DEF Notifications!BackoffOver, Notifications!LeaseOver
<1>4. o \in DeliveryDocument /\ o.state = q.state /\ o.revision = q.revision
  <2>1. FALSE \in BOOLEAN
    OBVIOUS
  <2> QED
    BY <1>2, <1>3, <2>1 DEF DeliveryDocument
<1>5. delivery' = [delivery EXCEPT ![x] = o]
  BY <1>3 DEF Notifications!Put
<1>6. /\ delivery' \in [Notifications!Deliveries -> DeliveryDocument] /\ delivery'[x] = o
      /\ \A y \in Notifications!Deliveries \ {x} : delivery'[y] = delivery[y]
  BY <1>4, <1>5 DEF NoticeInv, NoticeTyped
<1>7. DeliverySound(x)'
  BY <1>1, <1>2, <1>4, <1>6, SoundKept DEF Notifications!Emitted
<1>8. claim' \in [Drains -> [Notifications!Deliveries -> DeliveryClaim]]
  BY <1>2 DEF NoticeInv, NoticeTyped
<1> QED
  BY <1>2, <1>6, <1>7, <1>8, DeliveryStep

LEMMA NoticeClaim ==
    ASSUME NoticeInv, NEW x \in Notifications!Deliveries, NEW d \in Drains,
           Notifications!ClaimOne(d, x)
    PROVE  NoticeInv'
<1>1. PICK q : q = delivery[x]
  OBVIOUS
<1>2. PICK p : p = endpoint[x[2]]
  OBVIOUS
<1>3. /\ q \in DeliveryDocument /\ DeliverySound(x) /\ p \in EndpointDocument
      /\ UNCHANGED <<endpoint, notice, sent>>
  <2>1. x[2] \in Endpoints
    BY DEF Notifications!Deliveries
  <2> QED
    BY <1>1, <1>2, <2>1 DEF NoticeInv, NoticeTyped, Notifications!ClaimOne
<1>4. q.state \in {"pending", "sending"}
  BY <1>1 DEF Notifications!ClaimOne, Notifications!Claimable
<1>5. PICK n : n = q.attempts + 1
  OBVIOUS
<1>6. n \in Nat
  BY <1>3, <1>5 DEF DeliveryDocument
<1>7. PICK o : o = [q EXCEPT !.state = "sending", !.attempts = n, !.owner = d, !.leased = TRUE]
  OBVIOUS
<1>8. o \in DeliveryDocument /\ o.state = "sending" /\ o.revision = q.revision
  <2>1. TRUE \in BOOLEAN /\ "sending" \in {"absent", "pending", "sending", "sent", "failed"}
    OBVIOUS
  <2> QED
    BY <1>3, <1>6, <1>7, <2>1 DEF DeliveryDocument
<1>9. PICK k : k = [at |-> "claimed", enabled |-> p.enabled, revision |-> p.revision, attempts |-> n]
  OBVIOUS
<1>10. k \in DeliveryClaim /\ k.at = "claimed"
  BY <1>3, <1>6, <1>9 DEF DeliveryClaim, EndpointDocument
<1>11. Notifications!Put(x, o) /\ Notifications!Hold(d, x, k)
  BY <1>1, <1>2, <1>5, <1>7, <1>9 DEF Notifications!ClaimOne
<1>12. /\ delivery' \in [Notifications!Deliveries -> DeliveryDocument] /\ delivery'[x] = o
       /\ claim' \in [Drains -> [Notifications!Deliveries -> DeliveryClaim]] /\ claim'[d][x] = k
       /\ \A c \in Drains \ {d} : claim'[c] = claim[c]
       /\ \A y \in Notifications!Deliveries \ {x} :
             delivery'[y] = delivery[y] /\ \A c \in Drains : claim'[c][y] = claim[c][y]
  BY <1>8, <1>10, <1>11, PutHold
<1>13. DeliverySound(x)'
  BY <1>1, <1>3, <1>4, <1>8, <1>10, <1>12 DEF DeliverySound, Notifications!Emitted
<1> QED
  BY <1>3, <1>12, <1>13, DeliveryStep

\* _send: what is sent carries the revision of the delivery.
LEMMA NoticeSend ==
    ASSUME NoticeInv, NEW x \in Notifications!Deliveries, NEW d \in Drains,
           Notifications!Send(d, x)
    PROVE  NoticeInv'
<1>1. PICK w : w = claim[d][x]
  OBVIOUS
<1>2. /\ w \in DeliveryClaim /\ DeliverySound(x) /\ w.at = "claimed"
      /\ UNCHANGED <<endpoint, notice, delivery>>
  BY <1>1 DEF NoticeInv, NoticeTyped, Notifications!Send, Notifications!At
<1>3. delivery[x].state # "absent"
  BY <1>1, <1>2 DEF DeliverySound
<1>4. PICK taken : taken = sent \cup {<<x, w.revision>>}
  OBVIOUS
<1>5. PICK at \in {"accepted", "retryable", "terminal"} :
        /\ Notifications!Hold(d, x, [w EXCEPT !.at = at])
        /\ \/ sent' = sent /\ at # "accepted"
           \/ sent' = taken /\ w.revision = delivery[x].revision
  <2>1. CASE ~Notifications!AsEmitted(d, x)
    BY <1>1, <2>1 DEF Notifications!Send
  <2>2. CASE Notifications!AsEmitted(d, x)
    <3>1. w.revision = delivery[x].revision
      BY <1>1, <2>2 DEF Notifications!AsEmitted
    <3>2. \/ Notifications!Hold(d, x, [w EXCEPT !.at = "accepted"]) /\ sent' = taken
          \/ /\ sent' \in {sent, taken}
             /\ \E outcome \in {"retryable", "terminal"} :
                  Notifications!Hold(d, x, [w EXCEPT !.at = outcome])
      BY <1>1, <1>4, <2>2 DEF Notifications!Send
    <3>3. CASE Notifications!Hold(d, x, [w EXCEPT !.at = "accepted"]) /\ sent' = taken
      BY <3>1, <3>3
    <3>4. CASE /\ sent' \in {sent, taken}
               /\ \E outcome \in {"retryable", "terminal"} :
                    Notifications!Hold(d, x, [w EXCEPT !.at = outcome])
      <4>1. PICK outcome \in {"retryable", "terminal"} :
              Notifications!Hold(d, x, [w EXCEPT !.at = outcome])
        BY <3>4
      <4>2. outcome \in {"accepted", "retryable", "terminal"} /\ outcome # "accepted"
        OBVIOUS
      <4> QED
        BY <3>1, <3>4, <4>1, <4>2
    <3> QED
      BY <3>2, <3>3, <3>4
  <2> QED
    BY <2>1, <2>2
<1>6. PICK k : k = [w EXCEPT !.at = at]
  OBVIOUS
<1>7. k \in DeliveryClaim /\ k.at = at
  <2>1. at \in {"none", "claimed", "accepted", "retryable", "terminal"}
    OBVIOUS
  <2> QED
    BY <1>2, <1>6, <2>1 DEF DeliveryClaim
<1>8. Notifications!Hold(d, x, k)
  BY <1>5, <1>6
<1>9. /\ claim' \in [Drains -> [Notifications!Deliveries -> DeliveryClaim]] /\ claim'[d][x] = k
      /\ \A c \in Drains \ {d} : claim'[c] = claim[c]
      /\ \A y \in Notifications!Deliveries \ {x}, c \in Drains : claim'[c][y] = claim[c][y]
  BY <1>7, <1>8, PutHold
<1>10. DeliverySound(x)'
  <2>1. CASE sent' = sent /\ at # "accepted"
    BY <1>2, <1>3, <1>7, <1>9, <2>1 DEF DeliverySound, Notifications!Emitted
  <2>2. CASE sent' = taken /\ w.revision = delivery[x].revision
    BY <1>2, <1>3, <1>4, <1>7, <1>9, <2>2 DEF DeliverySound, Notifications!Emitted
  <2> QED
    BY <1>5, <2>1, <2>2
<1>11. delivery' \in [Notifications!Deliveries -> DeliveryDocument]
  BY <1>2 DEF NoticeInv, NoticeTyped
<1>12. \A y \in Notifications!Deliveries \ {x} :
          \A revision : <<y, revision>> \in sent' <=> <<y, revision>> \in sent
  BY <1>4, <1>5
<1> QED
  BY <1>2, <1>9, <1>10, <1>11, <1>12, DeliveryStep

\* _finish: what the owner marks as sent was taken.
LEMMA NoticeFinish ==
    ASSUME NoticeInv, NEW x \in Notifications!Deliveries, NEW d \in Drains,
           Notifications!Finish(d, x)
    PROVE  NoticeInv'
<1>1. PICK q : q = delivery[x]
  OBVIOUS
<1>2. /\ q \in DeliveryDocument /\ DeliverySound(x) /\ UNCHANGED <<endpoint, notice, sent>>
      /\ claim[d][x].at \in {"accepted", "retryable", "terminal"}
      /\ Notifications!Hold(d, x, Notifications!NoClaim)
  BY <1>1 DEF NoticeInv, NoticeTyped, Notifications!Finish
<1>3. Notifications!NoClaim \in DeliveryClaim /\ Notifications!NoClaim.at = "none"
  BY DEF Notifications!NoClaim, DeliveryClaim
<1>4. /\ claim' \in [Drains -> [Notifications!Deliveries -> DeliveryClaim]]
      /\ claim'[d][x] = Notifications!NoClaim
      /\ \A c \in Drains \ {d} : claim'[c] = claim[c]
      /\ \A y \in Notifications!Deliveries \ {x}, c \in Drains : claim'[c][y] = claim[c][y]
  BY <1>2, <1>3, PutHold
<1>5. \A c \in Drains : claim'[c][x].at \in {"none", claim[c][x].at}
  BY <1>3, <1>4
<1>6. CASE UNCHANGED delivery
  <2>1. DeliverySound(x)'
    BY <1>2, <1>5, <1>6, SoundKept DEF Notifications!Emitted
  <2>2. delivery' \in [Notifications!Deliveries -> DeliveryDocument]
    BY <1>6 DEF NoticeInv, NoticeTyped
  <2> QED
    BY <1>2, <1>4, <1>6, <2>1, <2>2, DeliveryStep
<1>7. CASE delivery' # delivery
  <2>1. PICK state \in {"sent", "pending", "failed"}, waiting \in BOOLEAN :
          /\ q.state = "sending"
          /\ state = "sent" => claim[d][x].at = "accepted"
          /\ Notifications!Put(x, [Notifications!Released(x) EXCEPT !.state = state, !.waiting = waiting])
    <3>1. /\ q.state = "sending"
          /\ Notifications!Put(x, [Notifications!Released(x) EXCEPT
                 !.state = CASE claim[d][x].at = "accepted" -> "sent"
                             [] claim[d][x].at = "retryable" -> "pending"
                             [] claim[d][x].at = "terminal" -> "failed",
                 !.waiting = (claim[d][x].at = "retryable")])
      BY <1>1, <1>7 DEF Notifications!Finish, Notifications!At
    <3>2. CASE claim[d][x].at = "accepted"
      BY <3>1, <3>2
    <3>3. CASE claim[d][x].at = "retryable"
      BY <3>1, <3>3
    <3>4. CASE claim[d][x].at = "terminal"
      BY <3>1, <3>4
    <3> QED
      BY <1>2, <3>2, <3>3, <3>4
  <2>2. PICK o : o = [[q EXCEPT !.owner = NoDrain, !.leased = FALSE] EXCEPT
                        !.state = state, !.waiting = waiting]
    OBVIOUS
  <2>3. o \in DeliveryDocument /\ o.state = state /\ o.revision = q.revision
    <3>1. FALSE \in BOOLEAN /\ state \in {"absent", "pending", "sending", "sent", "failed"}
      OBVIOUS
    <3> QED
      BY <1>2, <2>2, <3>1 DEF DeliveryDocument
  <2>4. Notifications!Put(x, o)
    BY <1>1, <2>1, <2>2 DEF Notifications!Released
  <2>5. /\ delivery' \in [Notifications!Deliveries -> DeliveryDocument] /\ delivery'[x] = o
        /\ \A y \in Notifications!Deliveries \ {x} : delivery'[y] = delivery[y]
    BY <2>3, <2>4, PutHold
  <2>6. o.state = "sent" => <<x, o.revision>> \in sent
    BY <1>1, <1>2, <2>1, <2>3 DEF DeliverySound
  <2>7. q.state # "absent" /\ o.state # "absent"
    BY <2>1, <2>3
  <2>8. DeliverySound(x)'
    BY <1>1, <1>2, <1>3, <1>4, <2>3, <2>5, <2>6, <2>7 DEF DeliverySound, Notifications!Emitted
  <2> QED
    BY <1>2, <1>4, <2>5, <2>8, DeliveryStep
<1> QED
  BY <1>6, <1>7

LEMMA NoticeCrash ==
    ASSUME NoticeInv, NEW d \in Drains, Notifications!Crash(d)
    PROVE  NoticeInv'
<1>1. /\ UNCHANGED <<endpoint, notice, delivery, sent>>
      /\ claim' = [claim EXCEPT ![d] = [x \in Notifications!Deliveries |-> Notifications!NoClaim]]
  BY DEF Notifications!Crash
<1>2. Notifications!NoClaim \in DeliveryClaim /\ Notifications!NoClaim.at = "none"
  BY DEF Notifications!NoClaim, DeliveryClaim
<1>3. /\ claim' \in [Drains -> [Notifications!Deliveries -> DeliveryClaim]]
      /\ \A x \in Notifications!Deliveries, c \in Drains : claim'[c][x].at \in {"none", claim[c][x].at}
  BY <1>1, <1>2 DEF NoticeInv, NoticeTyped
<1>4. ASSUME NEW x \in Notifications!Deliveries PROVE DeliverySound(x)'
  BY <1>1, <1>3, SoundKept DEF Notifications!Emitted
<1> QED
  BY <1>1, <1>3, <1>4 DEF NoticeInv, NoticeTyped, Notifications!Deliveries

LEMMA NoticeInitially == Notifications!Init => NoticeInv
<1> SUFFICES ASSUME Notifications!Init PROVE NoticeInv
  OBVIOUS
<1>1. /\ Notifications!NoDelivery \in DeliveryDocument /\ Notifications!NoDelivery.state = "absent"
      /\ Notifications!NoClaim \in DeliveryClaim /\ Notifications!NoClaim.at = "none"
  BY DEF Notifications!NoDelivery, DeliveryDocument, Notifications!NoClaim, DeliveryClaim
<1>2. endpoint \in [Endpoints -> EndpointDocument]
  BY DEF Notifications!Init, EndpointDocument
<1>3. NoticeTyped
  BY <1>1, <1>2 DEF NoticeTyped, Notifications!Init
<1>4. ASSUME NEW x \in Notifications!Deliveries PROVE DeliverySound(x)
  BY <1>1 DEF DeliverySound, Notifications!Init
<1> QED
  BY <1>3, <1>4 DEF NoticeInv

LEMMA NoticeNext == NoticeInv /\ [QueuesNext]_allVars => NoticeInv'
<1> SUFFICES ASSUME NoticeInv, [QueuesNext]_allVars PROVE NoticeInv'
  OBVIOUS
<1>1. CASE Notifications!Next
  <2>1. ASSUME NEW n \in Notices, Notifications!List(n) PROVE NoticeInv'
    BY <2>1, NoticeUntouched DEF Notifications!List
  <2>2. ASSUME NEW d \in Drains, Notifications!Begin(d) \/ Notifications!Claimed(d) PROVE NoticeInv'
    BY <2>2, NoticeUntouched DEF Notifications!Begin, Notifications!Claimed
  <2>3. ASSUME NEW d \in Drains, Notifications!Work(d) PROVE NoticeInv'
    BY <2>2, <2>3, NoticeClaim, NoticeSend, NoticeFinish DEF Notifications!Work
  <2> QED
    BY <1>1, <2>1, <2>3, EndpointStep, EmitStep, MarkReadStep, NoticeTime, NoticeCrash
       DEF Notifications!Next
<1>2. CASE UNCHANGED noticeVars
  BY <1>2, NoticeUntouched DEF noticeVars
<1>3. [QueuesNext]_allVars => Notifications!Next \/ UNCHANGED noticeVars
  BY DEF QueuesNext, InEvents, InAudit, InNotices, allVars
<1> QED
  BY <1>1, <1>2, <1>3

\* Nobody is written to who switched the endpoint off between the emission and the
\* claim, and what is marked as sent was taken (dispatcher _send, _finish).
THEOREM SentToWhomEmitted == QueuesSpec => []SentAsEmitted
<1>1. QueuesInit => NoticeInv
  BY NoticeInitially DEF QueuesInit
<1>2. NoticeInv => SentAsEmitted
  BY DEF NoticeInv, DeliverySound, SentAsEmitted, Notifications!SentAsEmitted
<1> QED
  BY <1>1, <1>2, NoticeNext, PTL DEF QueuesSpec

-----------------------------------------------------------------------------
\* The three queues move as their modules say: what is proved of the specification
\* of one holds in the composition that TLC checks (publish.py drain, and the
\* subscriptions behind its topic).
THEOREM QueuesKeepApart == QueuesSpec => Spec /\ Audit!Spec /\ Notifications!Spec
<1>1. QueuesInit => Init /\ Audit!Init /\ Notifications!Init
  BY DEF QueuesInit
<1>2. [QueuesNext]_allVars => [Next]_vars
  BY DEF QueuesNext, InEvents, InAudit, InNotices, allVars
<1>3. [QueuesNext]_allVars => [Audit!Next]_Audit!vars
  BY DEF QueuesNext, InEvents, InAudit, InNotices, allVars, auditVars, Audit!vars
<1>4. [QueuesNext]_allVars => [Notifications!Next]_Notifications!vars
  BY DEF QueuesNext, InEvents, InAudit, InNotices, allVars, noticeVars, Notifications!vars
<1> QED
  BY <1>1, <1>2, <1>3, <1>4, PTL DEF QueuesSpec, Spec, Audit!Spec, Notifications!Spec

==============================================================================
