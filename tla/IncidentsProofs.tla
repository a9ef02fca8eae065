--------------------------- MODULE IncidentsProofs ---------------------------
(***************************************************************************)
(* Proofs about Incidents for every set of alerts, credentials, keys and   *)
(* handlers and every outcome of correlation: the automation, operators,   *)
(* the coordinator and the removal of a credential interleave between the  *)
(* transactions of one call.                                               *)
(***************************************************************************)
EXTENDS Incidents, TLAPS

-----------------------------------------------------------------------------
(***************************************************************************)
(* The inductive invariant. Every update adds one to the revision of an    *)
(* incident, so a copy of the same revision is the incident itself; and a  *)
(* run keeps the alert and the credential it was created with, so the run  *)
(* a call is about to link is the one its copy asked for.                  *)
(***************************************************************************)
RunSound(r) ==
    runs[r].status = "absent" => runs[r].event = None /\ runs[r].stage = "early"

CallSound(h) ==
    LET phase == calls[h].phase
        e == calls[h].event
        seen == calls[h].seen
        r == calls[h].run
    IN
    /\ phase # "idle" => e \in Events /\ Exists(e)
    /\ phase \in {"start", "create", "link"} => r \in RunId
    /\ phase \in {"correlate", "decide", "create", "link"} =>
          /\ seen.revision <= incidents[e].revision
          /\ seen.revision = incidents[e].revision => seen = incidents[e]
    /\ phase = "correlate" => seen = NewIncident
    /\ phase \in {"create", "link"} => seen.status \in {"action", "rotating"}
    /\ phase = "link" => /\ runs[r].status # "absent" /\ runs[r].event = e
                         /\ runs[r].credential = seen.credential

\* The removal under way is of a credential.
SoundDeletion ==
    {d \in Deletion : d.phase \in {"cancel", "dismiss"} => d.credential \in Credentials}

IInv ==
    /\ TypeOK /\ LinkedRunMatches /\ deletion \in SoundDeletion
    /\ \A r \in RunId : RunSound(r)
    /\ \A h \in Handlers : CallSound(h)

-----------------------------------------------------------------------------
(***************************************************************************)
(* What a step may do to an incident and to a run.                         *)
(***************************************************************************)
LEMMA Ranks ==
    /\ Status = {"absent", "new", "correlating", "action", "rotating", "contained",
                 "resolved", "dismissed"}
    /\ Rank["absent"] = 0 /\ Rank["new"] = 1 /\ Rank["correlating"] = 2 /\ Rank["action"] = 2
    /\ Rank["rotating"] = 3 /\ Rank["contained"] = 4 /\ Rank["resolved"] = 5
    /\ Rank["dismissed"] = 5
    /\ \A status \in Status : Rank[status] \in Nat
  BY DEF Status, Rank

LEMMA Documents ==
    /\ None \notin Events /\ None \notin RunId /\ None \notin Credentials
    /\ Events \subseteq RunId /\ Keys \subseteq RunId
    /\ NoIncident \in Incident /\ NoIncident.status = "absent" /\ NoIncident.run = None
    /\ NewIncident \in Incident /\ NewIncident.status = "new" /\ NewIncident.run = None
    /\ NewIncident.revision = 0 /\ NoIncident.revision = 0
    /\ Idle \in Call /\ Idle.phase = "idle"
  BY IdentityAssumption, Ranks DEF RunId, NoIncident, NewIncident, Incident, Idle, Call

\* An update of incident e that leads forward and links only the alert's own run.
Allowed(e, new) ==
    LET old == incidents[e] IN
    /\ old.status \notin {"absent", "resolved", "dismissed"}
    /\ new \in Incident /\ new.status # "absent"
    /\ Rank[old.status] <= Rank[new.status]
    /\ old.status \in Linked => /\ new.status \in Linked
                                /\ new.run = old.run /\ new.credential = old.credential
    /\ (new.run # None) <=> (new.status \in Linked)
    /\ new.run # None => /\ runs[new.run].event = e /\ runs[new.run].status # "absent"
                         /\ runs[new.run].credential = new.credential

Moves(e) ==
    \/ incidents'[e] = incidents[e]
    \/ incidents[e].status = "absent" /\ incidents'[e] = NewIncident
    \/ /\ incidents'[e].revision = incidents[e].revision + 1
       /\ \E new \in Incident :
             /\ Allowed(e, new) /\ incidents'[e].status = new.status
             /\ incidents'[e].run = new.run /\ incidents'[e].credential = new.credential

\* A run keeps the alert and the credential it was created with.
RunKept(r) ==
    runs[r].status # "absent" => /\ runs'[r].status # "absent"
                                 /\ runs'[r].event = runs[r].event
                                 /\ runs'[r].credential = runs[r].credential

World ==
    /\ incidents' \in [Events -> Incident] /\ \A e \in Events : Moves(e)
    /\ runs' \in [RunId -> Run] /\ \A r \in RunId : RunKept(r) /\ RunSound(r)'
    /\ archived' \subseteq Credentials /\ pending' \subseteq Events
    /\ deletion' \in SoundDeletion /\ crashes' \in 0..MaxCrashes
    /\ left' \in [Events -> 0..MaxDeliveries]

LEMMA Now ==
    ASSUME IInv
    PROVE  /\ incidents \in [Events -> Incident] /\ runs \in [RunId -> Run]
           /\ calls \in [Handlers -> Call] /\ deletion \in SoundDeletion
           /\ archived \subseteq Credentials /\ pending \subseteq Events
           /\ crashes \in 0..MaxCrashes /\ left \in [Events -> 0..MaxDeliveries]
           /\ \A e \in Events : incidents[e].revision \in Nat
  BY DEF IInv, TypeOK, Incident

\* What does not concern the documents leaves them alone.
LEMMA Quiet ==
    ASSUME IInv, UNCHANGED <<incidents, runs>>,
           archived' \subseteq Credentials, pending' \subseteq Events,
           deletion' \in SoundDeletion, crashes' \in 0..MaxCrashes,
           left' \in [Events -> 0..MaxDeliveries]
    PROVE  World
  BY Now DEF IInv, World, Moves, RunKept, RunSound

\* The incidents move while the runs stay, or the other way round.
LEMMA IncidentsMove ==
    ASSUME IInv, incidents' \in [Events -> Incident], \A e \in Events : Moves(e),
           UNCHANGED <<runs, archived, crashes>>, left' \in [Events -> 0..MaxDeliveries],
           pending' \subseteq Events, deletion' \in SoundDeletion
    PROVE  World
  BY Now DEF IInv, World, RunKept, RunSound

LEMMA RunsMove ==
    ASSUME IInv, runs' \in [RunId -> Run], \A r \in RunId : RunKept(r) /\ RunSound(r)',
           UNCHANGED <<incidents, archived, left, crashes>>,
           pending' \subseteq Events, deletion' \in SoundDeletion
    PROVE  World
  BY Now DEF World, Moves

LEMMA UpdateMoves ==
    ASSUME IInv, NEW e \in Events, NEW new, Allowed(e, new),
           new.revision = incidents[e].revision, Update(e, new)
    PROVE  /\ incidents' \in [Events -> Incident] /\ \A f \in Events : Moves(f)
           /\ incidents'[e] = [new EXCEPT !.revision = @ + 1]
           /\ incidents'[e].status = new.status
  <1> DEFINE u == [new EXCEPT !.revision = new.revision + 1]
  <1>1. new \in Incident /\ incidents' = [incidents EXCEPT ![e] = u]
    BY DEF Allowed, Update
  <1>2. /\ u \in Incident /\ u.revision = incidents[e].revision + 1 /\ u.status = new.status
        /\ u.run = new.run /\ u.credential = new.credential
    BY <1>1, Now DEF Incident
  <1>3. u = [new EXCEPT !.revision = @ + 1]
    OBVIOUS
  <1> HIDE DEF u
  <1>4. incidents'[e] = u /\ \A f \in Events \ {e} : incidents'[f] = incidents[f]
    BY <1>1, <1>2, Now
  <1>5. Moves(e)
    BY <1>1, <1>2, <1>4 DEF Moves
  <1>6. \A f \in Events : Moves(f)
    BY <1>4, <1>5 DEF Moves
  <1>7. incidents' \in [Events -> Incident]
    BY <1>1, <1>2, Now
  <1> QED BY <1>2, <1>3, <1>4, <1>6, <1>7

\* The three kinds of update.
LEMMA CorrelatedAllowed ==
    ASSUME IInv, NEW e \in Events, incidents[e].status \in {"new", "correlating", "action"},
           NEW found \in SUBSET Credentials, NEW exact \in Credentials \cup {None},
           NEW new, new = Correlated(incidents[e], found, exact)
    PROVE  Allowed(e, new) /\ new \in Incident /\ new.revision = incidents[e].revision
  <1>1. incidents[e] \in Incident /\ incidents[e].run = None
    BY Now DEF IInv, LinkedRunMatches, Linked
  <1>2. /\ new \in Incident /\ new.status \in {"correlating", "action"} /\ new.run = None
        /\ new.revision = incidents[e].revision
    BY <1>1, Ranks DEF Correlated, Incident
  <1>3. Allowed(e, new)
    BY <1>2, Ranks DEF Allowed, Linked
  <1> QED BY <1>2, <1>3

LEMMA DismissedAllowed ==
    ASSUME IInv, NEW e \in Events, incidents[e].status \in Dismissable
    PROVE  /\ Allowed(e, Dismissed(incidents[e]))
           /\ Dismissed(incidents[e]).revision = incidents[e].revision
  <1> DEFINE u == Dismissed(incidents[e])
  <1>1. incidents[e] \in Incident /\ incidents[e].run = None
    BY Now DEF IInv, LinkedRunMatches, Linked, Dismissable
  <1>2. /\ u \in Incident /\ u.status = "dismissed" /\ u.run = None
        /\ u.revision = incidents[e].revision
    BY <1>1, Ranks DEF Dismissed, Incident
  <1> HIDE DEF u
  <1>3. Allowed(e, u)
    BY <1>2, Ranks DEF Allowed, Linked, Dismissable
  <1> QED BY <1>2, <1>3 DEF u

LEMMA LinkAllowed ==
    ASSUME IInv, NEW e \in Events, incidents[e].status = "action", NEW r \in RunId,
           runs[r].status # "absent", runs[r].event = e,
           runs[r].credential = incidents[e].credential
    PROVE  /\ Allowed(e, LinkedWith(incidents[e], r))
           /\ LinkedWith(incidents[e], r).revision = incidents[e].revision
  <1> DEFINE u == LinkedWith(incidents[e], r)
  <1>1. incidents[e] \in Incident /\ r # None
    BY Now, Documents
  <1>2. /\ u \in Incident /\ u.status = "rotating" /\ u.run = r
        /\ u.revision = incidents[e].revision /\ u.credential = incidents[e].credential
    BY <1>1, Ranks DEF LinkedWith, Incident
  <1> HIDE DEF u
  <1>3. Allowed(e, u)
    BY <1>1, <1>2, Ranks DEF Allowed, Linked
  <1> QED BY <1>2, <1>3 DEF u

\* Containment and resolution, reported by a run.
LEMMA AdvanceMoves ==
    ASSUME IInv, NEW r \in RunId, runs[r].status # "absent",
           NEW status \in {"contained", "resolved"}, AdvanceRun(r, status)
    PROVE  incidents' \in [Events -> Incident] /\ \A e \in Events : Moves(e)
  <1>1. ASSUME NEW e \in Events
        PROVE  incidents'[e] \in Incident /\ Moves(e)
    <2>1. CASE incidents'[e] = incidents[e]
      BY <2>1, Now DEF Moves
    <2>2. CASE incidents[e].run = r /\ ~Unmoved(incidents[e], status)
      <3> DEFINE new == [incidents[e] EXCEPT !.status = status]
                 u == [incidents[e] EXCEPT !.status = status,
                                           !.revision = incidents[e].revision + 1]
      <3>1. incidents[e] \in Incident /\ r # None /\ incidents[e].status \in Linked
            /\ runs[r].event = e /\ runs[r].credential = incidents[e].credential
        BY <2>2, Now, Documents DEF IInv, LinkedRunMatches
      <3>2. MayAdvance(incidents[e], status) /\ incidents'[e] = u
        BY <2>2 DEF AdvanceRun, LinkedTo
      <3>3. /\ new \in Incident /\ new.status = status /\ new.run = r
            /\ new.credential = incidents[e].credential
        BY <2>2, <3>1, Ranks DEF Incident
      <3>4. /\ u \in Incident /\ u.status = status /\ u.run = r
            /\ u.credential = incidents[e].credential
            /\ u.revision = incidents[e].revision + 1
        <4>1. incidents[e].revision + 1 \in Nat /\ status \in Status
          BY Now, Ranks
        <4> QED BY <2>2, <3>1, <4>1 DEF Incident
      <3> HIDE DEF new, u
      <3>5. Allowed(e, new)
        BY <2>2, <3>1, <3>2, <3>3, Ranks DEF Allowed, MayAdvance, Linked
      <3> QED BY <3>2, <3>3, <3>4, <3>5 DEF Moves
    <2>3. CASE incidents[e].run # r \/ Unmoved(incidents[e], status)
      <3>1. incidents'[e] = incidents[e]
        BY <2>3 DEF AdvanceRun, LinkedTo
      <3> QED BY <2>1, <3>1
    <2> QED BY <2>2, <2>3
  <1>2. incidents' = [e \in Events |-> incidents'[e]]
    BY DEF AdvanceRun
  <1> QED BY <1>1, <1>2

-----------------------------------------------------------------------------
(***************************************************************************)
(* The calls.                                                              *)
(***************************************************************************)
Mine(h) ==
    /\ calls' \in [Handlers -> Call] /\ \A i \in Handlers \ {h} : calls'[i] = calls[i]
    /\ CallSound(h)'

\* An incident that exists stays, and has changed exactly when its revision has.
LEMMA Revisions ==
    ASSUME IInv, World, NEW e \in Events, Exists(e)
    PROVE  /\ Exists(e)' /\ incidents[e].revision <= incidents'[e].revision
           /\ incidents'[e].revision \in Nat
           /\ incidents[e].revision = incidents'[e].revision => incidents'[e] = incidents[e]
  <1>1. incidents[e].revision \in Nat /\ incidents'[e] \in Incident
    BY Now DEF World
  <1>2. Moves(e)
    BY DEF World
  <1>3. incidents'[e].revision \in Nat
    BY <1>1 DEF Incident
  <1> QED BY <1>1, <1>2, <1>3 DEF Moves, Exists, Allowed

LEMMA Holds ==
    ASSUME IInv, NEW h \in Handlers
    PROVE  CallSound(h) /\ calls[h] \in Call /\ calls[h].seen \in Incident
           /\ calls[h].seen.revision \in Nat
  BY Now DEF IInv, Call, Incident

\* What a call knows stays true while others work.
LEMMA OthersStay ==
    ASSUME IInv, World, NEW h \in Handlers, calls'[h] = calls[h]
    PROVE  CallSound(h)'
  <1> DEFINE phase == calls[h].phase
             seen == calls[h].seen
  <1>1. PICK e, r : e = calls[h].event /\ r = calls[h].run
    OBVIOUS
  <1>2. CallSound(h) /\ seen.revision \in Nat
    BY Holds
  <1>3. phase # "idle" =>
           /\ e \in Events /\ Exists(e) /\ incidents[e].revision \in Nat
           /\ Exists(e)' /\ incidents[e].revision <= incidents'[e].revision
           /\ incidents'[e].revision \in Nat
           /\ incidents[e].revision = incidents'[e].revision => incidents'[e] = incidents[e]
    BY <1>1, <1>2, Now, Revisions DEF CallSound
  <1>4. phase \in {"correlate", "decide", "create", "link"} =>
           /\ seen.revision <= incidents'[e].revision
           /\ seen.revision = incidents'[e].revision => seen = incidents'[e]
    BY <1>1, <1>2, <1>3 DEF CallSound
  <1>5. phase = "link" => /\ runs'[r].status # "absent" /\ runs'[r].event = e
                          /\ runs'[r].credential = seen.credential
    BY <1>1, <1>2 DEF CallSound, World, RunKept
  <1> QED BY <1>1, <1>2, <1>3, <1>4, <1>5 DEF CallSound, Exists

\* The call ends.
LEMMA Ending ==
    ASSUME IInv, NEW h \in Handlers, calls' = [calls EXCEPT ![h] = Idle]
    PROVE  Mine(h)
  BY Now, Documents DEF Mine, CallSound

LEMMA EndsWith ==
    ASSUME IInv, NEW h \in Handlers, Fail(h) \/ Answer(h)
    PROVE  calls' = [calls EXCEPT ![h] = Idle] /\ pending' \subseteq Events
  BY Now DEF Fail, Answer

\* The call goes on with the copy seen of its incident.
LEMMA GoesOn ==
    ASSUME IInv, NEW h \in Handlers, NEW seen \in Incident,
           NEW phase \in {"correlate", "decide", "start", "create", "link", "reread"},
           Goto(h, phase, seen)
    PROVE  /\ calls' \in [Handlers -> Call] /\ \A i \in Handlers \ {h} : calls'[i] = calls[i]
           /\ calls'[h].phase = phase /\ calls'[h].seen = seen
           /\ calls'[h].event = calls[h].event /\ calls'[h].run = calls[h].run
  <1> DEFINE u == [calls[h] EXCEPT !.phase = phase, !.seen = seen]
  <1>1. calls[h] \in Call /\ calls' = [calls EXCEPT ![h] = u]
    BY Now DEF Goto
  <1>2. /\ u \in Call /\ u.phase = phase /\ u.seen = seen
        /\ u.event = calls[h].event /\ u.run = calls[h].run
    BY <1>1 DEF Call
  <1> HIDE DEF u
  <1> QED BY <1>1, <1>2, Now

LEMMA ConflictStays ==
    ASSUME IInv, NEW h \in Handlers, calls[h].phase # "idle", Conflict(h),
           UNCHANGED <<incidents, runs, archived, deletion, left, crashes>>
    PROVE  World /\ Mine(h)
  <1>1. CASE Fail(h)
    <2>1. World
      BY <1>1, Now, EndsWith, Quiet
    <2> QED BY <1>1, <2>1, EndsWith, Ending
  <1>2. CASE Goto(h, "reread", calls[h].seen) /\ UNCHANGED pending
    <2>1. World
      BY <1>2, Now, Quiet
    <2>2. /\ calls' \in [Handlers -> Call] /\ \A i \in Handlers \ {h} : calls'[i] = calls[i]
          /\ calls'[h].phase = "reread" /\ calls'[h].event = calls[h].event
      BY <1>2, Holds, GoesOn
    <2> QED BY <2>1, <2>2, Holds DEF Mine, CallSound, Exists
  <1> QED BY <1>1, <1>2 DEF Conflict

LEMMA DeliverStays ==
    ASSUME IInv, NEW h \in Handlers, NEW e \in Events, Deliver(h, e)
    PROVE  World /\ Mine(h)
  <1> DEFINE call == [Idle EXCEPT !.op = "deliver", !.event = e]
  <1>0. UNCHANGED <<runs, archived, pending, deletion, crashes>>
    BY DEF Deliver
  <1>l. left' \in [Events -> 0..MaxDeliveries]
    <2>1. left[e] - 1 \in 0..MaxDeliveries
      BY Now, BoundsAssumption DEF Deliver
    <2> QED BY <2>1, Now DEF Deliver
  <1>1. CASE Exists(e) /\ calls' # calls
    <2> DEFINE u == [call EXCEPT !.phase = "decide", !.seen = incidents[e]]
    <2>1. calls' = [calls EXCEPT ![h] = u] /\ UNCHANGED incidents
      BY <1>1 DEF Deliver
    <2>2. u \in Call /\ u.phase = "decide" /\ u.seen = incidents[e] /\ u.event = e
      BY Documents, Now DEF Call, Idle
    <2> HIDE DEF u
    <2>3. /\ calls' \in [Handlers -> Call] /\ \A i \in Handlers \ {h} : calls'[i] = calls[i]
          /\ calls'[h] = u
      BY <2>1, <2>2, Now
    <2>4. CallSound(h)'
      BY <1>1, <2>1, <2>2, <2>3, Now DEF CallSound, Exists
    <2>5. World
      BY <1>0, <1>l, <2>1, Now, Quiet
    <2> QED BY <2>3, <2>4, <2>5 DEF Mine
  <1>2. CASE ~Exists(e)
    <2> DEFINE u == [call EXCEPT !.phase = "correlate", !.seen = NewIncident]
    <2>1. /\ calls' = [calls EXCEPT ![h] = u]
          /\ incidents' = [incidents EXCEPT ![e] = NewIncident]
      BY <1>2 DEF Deliver
    <2>2. u \in Call /\ u.phase = "correlate" /\ u.seen = NewIncident /\ u.event = e
      BY Documents DEF Call, Idle
    <2> HIDE DEF u
    <2>3. /\ calls' \in [Handlers -> Call] /\ \A i \in Handlers \ {h} : calls'[i] = calls[i]
          /\ calls'[h] = u
      BY <2>1, <2>2, Now
    <2>4. /\ incidents' \in [Events -> Incident] /\ incidents'[e] = NewIncident
          /\ \A f \in Events : Moves(f)
      BY <1>2, <2>1, Now, Documents DEF Moves, Exists
    <2>5. CallSound(h)'
      BY <2>2, <2>3, <2>4, Documents DEF CallSound, Exists
    <2>6. World
      BY <1>0, <1>l, <2>4, Now, IncidentsMove
    <2> QED BY <2>3, <2>5, <2>6 DEF Mine
  <1>3. CASE UNCHANGED <<calls, incidents>>
    <2>1. World
      BY <1>0, <1>l, <1>3, Now, Quiet
    <2> QED BY <1>3, <2>1, Now, OthersStay DEF Mine
  <1> QED BY <1>1, <1>2, <1>3 DEF Deliver

\* The call updates its incident and goes on to decide with what it wrote.
LEMMA DecidesOn ==
    ASSUME IInv, NEW h \in Handlers, NEW e \in Events, e = calls[h].event,
           NEW new \in Incident, Allowed(e, new), new.revision = incidents[e].revision,
           Update(e, new), Goto(h, "decide", [new EXCEPT !.revision = @ + 1]),
           UNCHANGED <<runs, archived, pending, deletion, left, crashes>>
    PROVE  World /\ Mine(h)
  <1>1. /\ incidents' \in [Events -> Incident] /\ \A f \in Events : Moves(f)
        /\ incidents'[e] = [new EXCEPT !.revision = @ + 1] /\ incidents'[e].status = new.status
    BY UpdateMoves
  <1>2. PICK seen : seen = incidents'[e]
    OBVIOUS
  <1>3. seen \in Incident /\ Goto(h, "decide", seen) /\ seen.revision \in Nat
    BY <1>1, <1>2 DEF Incident
  <1>4. /\ calls' \in [Handlers -> Call] /\ \A i \in Handlers \ {h} : calls'[i] = calls[i]
        /\ calls'[h].phase = "decide" /\ calls'[h].seen = seen /\ calls'[h].event = e
    BY <1>3, GoesOn
  <1>5. new.status # "absent"
    BY DEF Allowed
  <1>6. incidents'[e] = seen /\ seen.status # "absent" /\ seen.revision <= seen.revision
    BY <1>1, <1>2, <1>3, <1>5
  <1>7. CallSound(h)'
    BY <1>4, <1>6 DEF CallSound, Exists
  <1>8. World
    BY <1>1, Now, IncidentsMove
  <1> QED BY <1>4, <1>7, <1>8 DEF Mine

\* The call ends in a conflict of revisions.
LEMMA FailStays ==
    ASSUME IInv, NEW h \in Handlers, Fail(h) \/ Answer(h),
           UNCHANGED <<incidents, runs, archived, deletion, left, crashes>>
    PROVE  World /\ Mine(h)
  <1>1. World
    BY Now, EndsWith, Quiet
  <1> QED BY <1>1, EndsWith, Ending

LEMMA CorrelateStays ==
    ASSUME IInv, NEW h \in Handlers, Correlate(h)
    PROVE  World /\ Mine(h)
  <1>1. PICK e : e = calls[h].event
    OBVIOUS
  <1>2. /\ calls[h].phase = "correlate" /\ calls[h].seen = NewIncident /\ e \in Events
        /\ Fresh(e, calls[h].seen) => calls[h].seen = incidents[e]
    BY <1>1, Holds DEF Correlate, CallSound, Fresh
  <1>3. CASE ~Fresh(e, calls[h].seen)
    BY <1>1, <1>3, FailStays DEF Correlate
  <1>4. CASE Fresh(e, calls[h].seen)
    <2>1. incidents[e].status = "new" /\ calls[h].seen = incidents[e]
      BY <1>2, <1>4, Documents
    <2>2. PICK match \in Matches :
             /\ Update(e, Correlated(incidents[e], match[1], match[2]))
             /\ Goto(h, "decide", [Correlated(incidents[e], match[1], match[2])
                                      EXCEPT !.revision = @ + 1])
             /\ UNCHANGED <<runs, archived, pending, deletion, left, crashes>>
      BY <1>1, <1>4, <2>1 DEF Correlate
    <2>3. match[1] \in SUBSET Credentials /\ match[2] \in Credentials \cup {None}
      BY <2>2, MatchesAssumption
    <2>4. PICK new : new = Correlated(incidents[e], match[1], match[2])
      OBVIOUS
    <2>5. Allowed(e, new) /\ new.revision = incidents[e].revision /\ new \in Incident
      BY <1>2, <2>1, <2>3, <2>4, CorrelatedAllowed
    <2>6. Update(e, new) /\ Goto(h, "decide", [new EXCEPT !.revision = @ + 1])
      BY <2>2, <2>4
    <2>7. UNCHANGED <<runs, archived, pending, deletion, left, crashes>>
      BY <2>2
    <2> QED BY <1>1, <1>2, <2>5, <2>6, <2>7, DecidesOn
  <1> QED BY <1>3, <1>4

LEMMA ConfirmAloneStays ==
    ASSUME IInv, NEW h \in Handlers, ConfirmAlone(h)
    PROVE  World /\ Mine(h)
  <1>1. PICK e : e = calls[h].event
    OBVIOUS
  <1>2. /\ calls[h].phase = "decide" /\ calls[h].seen.status = "correlating" /\ e \in Events
        /\ Fresh(e, calls[h].seen) => calls[h].seen = incidents[e]
    BY <1>1, Holds DEF ConfirmAlone, CallSound, Fresh
  <1>3. CASE ~Fresh(e, calls[h].seen)
    BY <1>1, <1>3, FailStays DEF ConfirmAlone
  <1>4. CASE Fresh(e, calls[h].seen)
    <2>1. incidents[e].status = "correlating" /\ calls[h].seen = incidents[e]
      BY <1>2, <1>4
    <2>2. PICK c \in incidents[e].candidates :
             /\ Update(e, Correlated(incidents[e], {c}, c))
             /\ Goto(h, "decide", [Correlated(incidents[e], {c}, c) EXCEPT !.revision = @ + 1])
             /\ UNCHANGED <<runs, archived, pending, deletion, left, crashes>>
      BY <1>1, <1>4, <2>1 DEF ConfirmAlone
    <2>3. {c} \in SUBSET Credentials /\ c \in Credentials \cup {None}
      BY <1>2, <2>2, Now DEF Incident
    <2>4. PICK new : new = Correlated(incidents[e], {c}, c)
      OBVIOUS
    <2>5. Allowed(e, new) /\ new.revision = incidents[e].revision /\ new \in Incident
      BY <1>2, <2>1, <2>3, <2>4, CorrelatedAllowed
    <2>6. Update(e, new) /\ Goto(h, "decide", [new EXCEPT !.revision = @ + 1])
      BY <2>2, <2>4
    <2>7. UNCHANGED <<runs, archived, pending, deletion, left, crashes>>
      BY <2>2
    <2> QED BY <1>1, <1>2, <2>5, <2>6, <2>7, DecidesOn
  <1> QED BY <1>3, <1>4

LEMMA StartAloneStays ==
    ASSUME IInv, NEW h \in Handlers, StartAlone(h)
    PROVE  World /\ Mine(h)
  <1>0. World
    BY Now, Quiet DEF StartAlone
  <1> DEFINE u == [calls[h] EXCEPT !.phase = "start", !.run = calls[h].event]
  <1>1. /\ calls[h].phase = "decide" /\ UNCHANGED incidents
        /\ calls' = [calls EXCEPT ![h] = u]
    BY DEF StartAlone
  <1>2. calls[h].event \in Events /\ Exists(calls[h].event) /\ calls[h].event \in RunId
    BY <1>1, Holds, Documents DEF CallSound
  <1>3. /\ u \in Call /\ u.phase = "start" /\ u.run = calls[h].event
        /\ u.event = calls[h].event
    BY <1>2, Holds DEF Call
  <1> HIDE DEF u
  <1>4. /\ calls' \in [Handlers -> Call] /\ \A i \in Handlers \ {h} : calls'[i] = calls[i]
        /\ calls'[h] = u
    BY <1>1, <1>3, Now
  <1>5. CallSound(h)'
    BY <1>1, <1>2, <1>3, <1>4 DEF CallSound, Exists
  <1> QED BY <1>0, <1>4, <1>5 DEF Mine

LEMMA LeavingStays ==
    ASSUME IInv, NEW h \in Handlers, Leave(h) \/ Reread(h) \/ Crash(h)
    PROVE  World /\ Mine(h)
  <1>1. CASE Leave(h) \/ Reread(h)
    BY <1>1, FailStays DEF Leave, Reread
  <1>2. CASE Crash(h)
    <2>1. crashes' \in 0..MaxCrashes
      BY <1>2, Now, BoundsAssumption DEF Crash
    <2>2. World
      BY <1>2, <2>1, Now, EndsWith, Quiet DEF Crash
    <2> QED BY <1>2, <2>2, EndsWith, Ending DEF Crash
  <1> QED BY <1>1, <1>2

\* Only an incident that waits for its rotation, or has it, is read to be linked.
LEMMA StartStays ==
    ASSUME IInv, NEW h \in Handlers, Start(h)
    PROVE  World /\ Mine(h)
  <1>1. PICK e : e = calls[h].event
    OBVIOUS
  <1>2. /\ calls[h].phase = "start" /\ UNCHANGED <<incidents, runs, archived, deletion, left, crashes>>
        /\ e \in Events /\ Exists(e) /\ calls[h].run \in RunId
    BY <1>1, Holds DEF Start, CallSound
  <1>3. CASE Conflict(h)
    BY <1>2, <1>3, ConflictStays
  <1>f. CASE Fail(h)
    BY <1>2, <1>f, FailStays
  <1>4. CASE /\ incidents[e].status \in {"action", "rotating"}
             /\ Goto(h, "create", incidents[e]) /\ UNCHANGED pending
    <2>1. PICK seen \in Incident : seen = incidents[e]
      BY <1>2, Now
    <2>2. /\ calls' \in [Handlers -> Call] /\ \A i \in Handlers \ {h} : calls'[i] = calls[i]
          /\ calls'[h].phase = "create" /\ calls'[h].seen = seen /\ calls'[h].event = e
          /\ calls'[h].run = calls[h].run
      BY <1>1, <1>4, <2>1, GoesOn
    <2>3. seen.revision <= incidents'[e].revision
      BY <1>2, <2>1, Now
    <2>4. CallSound(h)'
      BY <1>2, <1>4, <2>1, <2>2, <2>3 DEF CallSound, Exists
    <2>5. World
      BY <1>2, <1>4, Now, Quiet
    <2> QED BY <2>2, <2>4, <2>5 DEF Mine
  <1> QED BY <1>1, <1>3, <1>f, <1>4 DEF Start

\* The run a call goes on to link was created for its alert and credential, by it
\* or by an earlier call under the same id.
LEMMA CreateStays ==
    ASSUME IInv, NEW h \in Handlers, Create(h)
    PROVE  World /\ Mine(h)
  <1> DEFINE seen == calls[h].seen
  <1>1. PICK e, r : e = calls[h].event /\ r = calls[h].run
    OBVIOUS
  <1>2. /\ calls[h].phase = "create" /\ UNCHANGED <<incidents, archived, deletion, left, crashes>>
        /\ e \in Events /\ Exists(e) /\ r \in RunId /\ e # None
        /\ seen.revision <= incidents[e].revision
        /\ seen.revision = incidents[e].revision => seen = incidents[e]
        /\ seen.status \in {"action", "rotating"}
    BY <1>1, Holds, Documents DEF Create, CallSound
  <1>3. CASE Fail(h) /\ UNCHANGED runs
    BY <1>2, <1>3, FailStays
  <1>4. ASSUME Goto(h, "link", seen), UNCHANGED pending, runs'[r].status # "absent",
               runs'[r].event = e, runs'[r].credential = seen.credential
        PROVE  Mine(h)
    <2>1. /\ calls' \in [Handlers -> Call] /\ \A i \in Handlers \ {h} : calls'[i] = calls[i]
          /\ calls'[h].phase = "link" /\ calls'[h].seen = seen /\ calls'[h].event = e
          /\ calls'[h].run = r
      BY <1>1, <1>4, Holds, GoesOn
    <2>2. CallSound(h)'
      BY <1>2, <1>4, <2>1 DEF CallSound, Exists
    <2> QED BY <2>1, <2>2 DEF Mine
  <1>5. CASE MayReplay(h) /\ Goto(h, "link", seen) /\ UNCHANGED <<runs, pending>>
    <2>1. runs[r].event = e /\ runs[r].credential = seen.credential
      BY <1>1, <1>5 DEF MayReplay, Opened
    <2>2. runs[r].status # "absent"
      BY <1>2, <2>1 DEF IInv, RunSound
    <2>3. World
      BY <1>2, <1>5, Now, Quiet
    <2> QED BY <1>4, <1>5, <2>1, <2>2, <2>3
  <1>6. CASE /\ MayCreate(h) /\ runs' = [runs EXCEPT ![calls[h].run] = Requested(h)]
             /\ Goto(h, "link", seen) /\ UNCHANGED pending
    <2> DEFINE u == Requested(h)
    <2>1. /\ u \in Run /\ u.status = "live" /\ u.event = e /\ u.credential = seen.credential
      BY <1>1, <1>2, Holds DEF Requested, Run, Incident
    <2>2. runs[r].status = "absent" /\ runs' = [runs EXCEPT ![r] = u]
      BY <1>1, <1>6 DEF MayCreate
    <2> HIDE DEF u
    <2>3. runs' \in [RunId -> Run] /\ \A o \in RunId : RunKept(o) /\ RunSound(o)'
      BY <1>2, <2>1, <2>2, Now DEF IInv, RunKept, RunSound
    <2>4. World
      BY <1>2, <1>6, <2>3, Now, RunsMove
    <2>5. runs'[r] = u
      BY <1>2, <2>2, Now
    <2> QED BY <1>4, <1>6, <2>1, <2>4, <2>5
  <1> QED BY <1>3, <1>5, <1>6 DEF Create

LEMMA LinkStays ==
    ASSUME IInv, NEW h \in Handlers, Link(h)
    PROVE  World /\ Mine(h)
  <1>1. PICK e, r : e = calls[h].event /\ r = calls[h].run
    OBVIOUS
  <1>2. /\ calls[h].phase = "link" /\ UNCHANGED <<runs, archived, deletion, left, crashes>>
        /\ e \in Events /\ r \in RunId /\ calls[h].seen.status \in {"action", "rotating"}
        /\ Fresh(e, calls[h].seen) => calls[h].seen = incidents[e]
        /\ runs[r].status # "absent" /\ runs[r].event = e
        /\ runs[r].credential = calls[h].seen.credential
    BY <1>1, Holds DEF Link, CallSound, Fresh
  <1>3. CASE Answer(h) /\ UNCHANGED incidents
    BY <1>2, <1>3, FailStays
  <1>4. CASE Conflict(h) /\ UNCHANGED incidents
    BY <1>2, <1>4, ConflictStays
  <1>5. CASE /\ calls[h].seen.status # "rotating" /\ Fresh(e, calls[h].seen)
             /\ Update(e, LinkedWith(calls[h].seen, r)) /\ Answer(h)
    <2>1. calls[h].seen = incidents[e] /\ incidents[e].status = "action"
      BY <1>2, <1>5
    <2>2. PICK new : new = LinkedWith(incidents[e], r)
      OBVIOUS
    <2>3. Allowed(e, new) /\ new.revision = incidents[e].revision
      BY <1>2, <2>1, <2>2, LinkAllowed
    <2>4. Update(e, new)
      BY <1>5, <2>1, <2>2
    <2>5. incidents' \in [Events -> Incident] /\ \A f \in Events : Moves(f)
      BY <1>2, <2>3, <2>4, UpdateMoves
    <2>6. World
      BY <1>2, <1>5, <2>5, Now, EndsWith, IncidentsMove
    <2> QED BY <1>5, <2>6, EndsWith, Ending
  <1> QED BY <1>1, <1>3, <1>4, <1>5 DEF Link

LEMMA RotateStays ==
    ASSUME IInv, NEW h \in Handlers, NEW e \in Events, NEW k \in Keys, Rotate(h, e, k)
    PROVE  World /\ Mine(h)
  <1> DEFINE u == [Idle EXCEPT !.op = "rotate", !.phase = "start", !.event = e, !.run = k]
  <1>1. Exists(e) /\ calls' = [calls EXCEPT ![h] = u] /\ UNCHANGED incidents
    BY DEF Rotate
  <1>2. u \in Call /\ u.phase = "start" /\ u.event = e /\ u.run = k /\ k \in RunId
    BY Documents DEF Call, Idle
  <1> HIDE DEF u
  <1>3. /\ calls' \in [Handlers -> Call] /\ \A i \in Handlers \ {h} : calls'[i] = calls[i]
        /\ calls'[h] = u
    BY <1>1, <1>2, Now
  <1>4. CallSound(h)'
    BY <1>1, <1>2, <1>3 DEF CallSound, Exists
  <1>5. World
    BY Now, Quiet DEF Rotate
  <1> QED BY <1>3, <1>4, <1>5 DEF Mine

-----------------------------------------------------------------------------
(***************************************************************************)
(* Operators, the removal of a credential, and the runs.                   *)
(***************************************************************************)
LEMMA OperatorStays ==
    ASSUME IInv, NEW e \in Events, (\E c \in Credentials : Confirm(e, c)) \/ Dismiss(e)
    PROVE  World /\ UNCHANGED calls
  <1>1. PICK new : /\ Allowed(e, new) /\ new.revision = incidents[e].revision /\ Update(e, new)
    <2>1. ASSUME NEW c \in Credentials, Confirm(e, c)
          PROVE  LET new == Correlated(incidents[e], incidents[e].candidates, c)
                 IN  /\ Allowed(e, new) /\ new.revision = incidents[e].revision
                     /\ Update(e, new)
      <3>1. incidents[e].candidates \in SUBSET Credentials
        BY Now DEF Incident
      <3>2. PICK new : new = Correlated(incidents[e], incidents[e].candidates, c)
        OBVIOUS
      <3>3. incidents[e].status \in {"correlating", "action"} /\ Update(e, new)
        BY <2>1, <3>2 DEF Confirm
      <3> QED BY <3>1, <3>2, <3>3, CorrelatedAllowed
    <2>2. ASSUME Dismiss(e)
          PROVE  LET new == Dismissed(incidents[e])
                 IN  /\ Allowed(e, new) /\ new.revision = incidents[e].revision
                     /\ Update(e, new)
      BY <2>2, DismissedAllowed DEF Dismiss
    <2> QED BY <2>1, <2>2
  <1>2. UNCHANGED <<runs, archived, pending, calls, deletion, left, crashes>>
    BY DEF Confirm, Dismiss
  <1>3. incidents' \in [Events -> Incident] /\ \A f \in Events : Moves(f)
    BY <1>1, UpdateMoves
  <1> QED BY <1>2, <1>3, Now, IncidentsMove

\* A run that moves on keeps its alert and its credential.
LEMMA RunWritten ==
    ASSUME IInv, NEW r \in RunId, runs[r].status # "absent", NEW u \in Run,
           u.status # "absent", u.event = runs[r].event, u.credential = runs[r].credential,
           runs' = [runs EXCEPT ![r] = u]
    PROVE  runs' \in [RunId -> Run] /\ \A o \in RunId : RunKept(o) /\ RunSound(o)'
  BY Now DEF IInv, RunKept, RunSound

LEMMA DeletionTyped ==
    /\ NoDeletion \in SoundDeletion
    /\ EndDeletion => deletion' \in SoundDeletion
  BY DEF NoDeletion, SoundDeletion, Deletion, EndDeletion

LEMMA DeleteStays ==
    ASSUME IInv, Delete
    PROVE  World /\ UNCHANGED calls
  <1>0. UNCHANGED <<pending, calls, left, crashes>>
    BY DEF Delete, DeleteBegin, DeleteCancel, DeleteList, DeleteDismiss, DeleteArchive
  <1>1. ASSUME NEW c \in Credentials, DeleteBegin(c) PROVE World
    <2>1. Live(c) \subseteq RunId
      BY DEF Live
    <2>2. deletion' \in SoundDeletion
      BY <1>1, <2>1 DEF DeleteBegin, NoDeletion, SoundDeletion, Deletion
    <2> QED BY <1>1, <2>2, Now, Quiet DEF DeleteBegin
  <1>2. ASSUME NEW r \in RunId, DeleteCancel(r) PROVE World
    <2>1. CASE EndDeletion /\ UNCHANGED runs
      BY <1>2, <2>1, Now, DeletionTyped, Quiet DEF DeleteCancel
    <2>2. CASE /\ runs[r].status = "live" /\ runs' = [runs EXCEPT ![r].status = "over"]
               /\ deletion' = [deletion EXCEPT !.runs = @ \ {r}]
      <3> DEFINE u == [runs[r] EXCEPT !.status = "over"]
      <3>1. deletion' \in SoundDeletion
        BY <2>2, Now DEF SoundDeletion, Deletion
      <3>2. /\ u \in Run /\ u.status = "over" /\ u.event = runs[r].event
            /\ u.credential = runs[r].credential
        BY Now DEF Run
      <3>3. runs' = [runs EXCEPT ![r] = u]
        BY <2>2
      <3> HIDE DEF u
      <3>4. runs' \in [RunId -> Run] /\ \A o \in RunId : RunKept(o) /\ RunSound(o)'
        BY <2>2, <3>2, <3>3, RunWritten
      <3> QED BY <1>2, <3>1, <3>4, Now, RunsMove DEF DeleteCancel
    <2> QED BY <1>2, <2>1, <2>2 DEF DeleteCancel
  <1>3. ASSUME DeleteList PROVE World
    <2> DEFINE found == {f \in Events : /\ incidents[f].credential = deletion.credential
                                        /\ incidents[f].status \notin
                                              {"absent", "resolved", "dismissed"}}
               listed == {<<e, incidents[e].revision>> : e \in found}
    <2>1. listed \subseteq Events \X Nat
      BY Now
    <2>2. /\ deletion.phase = "cancel"
          /\ deletion' = [deletion EXCEPT !.phase = "dismiss", !.incidents = listed]
      BY <1>3 DEF DeleteList
    <2> HIDE DEF listed
    <2>3. deletion' \in SoundDeletion
      BY <2>1, <2>2, Now DEF SoundDeletion, Deletion
    <2> QED BY <1>3, <2>3, Now, Quiet DEF DeleteList
  <1>4. ASSUME NEW e \in Events, DeleteDismiss(e) PROVE World
    <2>1. CASE EndDeletion /\ UNCHANGED incidents
      BY <1>4, <2>1, Now, DeletionTyped, Quiet DEF DeleteDismiss
    <2>2. CASE /\ incidents[e].status \in Dismissable /\ Update(e, Dismissed(incidents[e]))
               /\ deletion' = [deletion EXCEPT !.incidents = @ \ {<<e, incidents[e].revision>>}]
      <3>1. deletion' \in SoundDeletion
        BY <2>2, Now DEF SoundDeletion, Deletion
      <3>2. PICK new : new = Dismissed(incidents[e])
        OBVIOUS
      <3>3. Allowed(e, new) /\ new.revision = incidents[e].revision /\ Update(e, new)
        BY <2>2, <3>2, DismissedAllowed
      <3>4. incidents' \in [Events -> Incident] /\ \A f \in Events : Moves(f)
        BY <3>3, UpdateMoves
      <3> QED BY <1>4, <3>1, <3>4, Now, IncidentsMove DEF DeleteDismiss
    <2> QED BY <1>4, <2>1, <2>2 DEF DeleteDismiss
  <1>5. ASSUME DeleteArchive PROVE World
    <2>1. deletion.credential \in Credentials
      BY <1>5, Now DEF SoundDeletion, DeleteArchive
    <2>2. archived' \subseteq Credentials
      BY <1>5, <2>1, Now DEF DeleteArchive
    <2> QED BY <1>5, <2>2, Now, DeletionTyped, Quiet DEF DeleteArchive
  <1> QED BY <1>0, <1>1, <1>2, <1>3, <1>4, <1>5 DEF Delete

LEMMA CoordinatorStays ==
    ASSUME IInv, Coordinator
    PROVE  World /\ UNCHANGED calls
  <1>1. PICK r \in RunId :
           BeginRevoke(r) \/ Contain(r) \/ BeginComplete(r) \/ Resolve(r) \/ End(r)
    BY DEF Coordinator
  <1>2. UNCHANGED <<archived, pending, calls, deletion, left, crashes>>
    BY <1>1 DEF BeginRevoke, Contain, BeginComplete, Resolve, End
  <1>3. ASSUME runs[r].stage # "early" PROVE runs[r].status # "absent"
    BY <1>3 DEF IInv, RunSound
  <1>4. ASSUME NEW u \in Run, u.status # "absent", u.event = runs[r].event,
               u.credential = runs[r].credential, runs[r].status # "absent",
               runs' = [runs EXCEPT ![r] = u],
               \/ UNCHANGED incidents
               \/ \E status \in {"contained", "resolved"} : AdvanceRun(r, status)
        PROVE  World
    <2>1. runs' \in [RunId -> Run] /\ \A o \in RunId : RunKept(o) /\ RunSound(o)'
      BY <1>4, RunWritten
    <2>2. incidents' \in [Events -> Incident] /\ \A e \in Events : Moves(e)
      <3>1. CASE UNCHANGED incidents
        BY <3>1, Now DEF Moves
      <3> QED BY <1>4, <3>1, AdvanceMoves
    <2> QED BY <1>2, <2>1, <2>2, Now DEF World
  <1>r. runs[r] \in Run
    BY Now
  <1>5. ASSUME NEW stage \in {"revoke", "contained", "complete", "resolved"},
               runs[r].status # "absent", runs' = [runs EXCEPT ![r].stage = stage],
               \/ UNCHANGED incidents
               \/ \E status \in {"contained", "resolved"} : AdvanceRun(r, status)
        PROVE  World
    <2> DEFINE u == [runs[r] EXCEPT !.stage = stage]
    <2>1. /\ u \in Run /\ u.status = runs[r].status /\ u.event = runs[r].event
          /\ u.credential = runs[r].credential
      BY <1>r DEF Run
    <2>2. runs' = [runs EXCEPT ![r] = u]
      BY <1>5
    <2> HIDE DEF u
    <2> QED BY <1>4, <1>5, <2>1, <2>2
  <1>6. CASE BeginRevoke(r)
    BY <1>5, <1>6 DEF BeginRevoke
  <1>7. CASE Contain(r)
    <2>1. PICK stage \in {"revoke", "contained", "complete", "resolved"} :
             stage = IF runs[r].stage = "revoke" THEN "contained" ELSE runs[r].stage
      BY <1>7, <1>r DEF Contain, Run
    <2> QED BY <1>3, <1>5, <1>7, <2>1 DEF Contain
  <1>8. CASE BeginComplete(r)
    BY <1>5, <1>8 DEF BeginComplete
  <1>9. CASE Resolve(r)
    BY <1>3, <1>5, <1>9 DEF Resolve
  <1>10. CASE End(r)
    <2> DEFINE u == [runs[r] EXCEPT !.status = "over"]
    <2>1. /\ u \in Run /\ u.status = "over" /\ u.event = runs[r].event
          /\ u.credential = runs[r].credential
      BY <1>r DEF Run
    <2>2. /\ runs' = [runs EXCEPT ![r] = u] /\ runs[r].status = "live"
          /\ UNCHANGED incidents
      BY <1>10 DEF End
    <2> HIDE DEF u
    <2> QED BY <1>2, <1>4, <2>1, <2>2
  <1> QED BY <1>1, <1>2, <1>6, <1>7, <1>8, <1>9, <1>10

-----------------------------------------------------------------------------
(***************************************************************************)
(* The invariant and what follows from it.                                 *)
(***************************************************************************)

\* What the moves of the documents mean for the links and the statuses.
LEMMA MovesForward ==
    ASSUME IInv, World, NEW e \in Events
    PROVE  LET old == incidents[e]
               new == incidents'[e]
           IN  /\ Rank[old.status] <= Rank[new.status]
               /\ old.status \in {"resolved", "dismissed"} => new = old
               /\ old.status \in Linked => new.run = old.run /\ new.status \in Linked
               /\ (new.run # None) <=> (new.status \in Linked)
               /\ new.run # None => /\ runs'[new.run].event = e
                                    /\ runs'[new.run].credential = new.credential
  <1> DEFINE old == incidents[e]
             new == incidents'[e]
  <1>0. /\ old \in Incident /\ new \in Incident /\ old.status \in Status
        /\ Rank[old.status] \in Nat
    BY Now, Ranks DEF World, Incident
  <1>1. /\ (old.run # None) <=> (old.status \in Linked)
        /\ old.run # None => runs[old.run].event = e /\ runs[old.run].credential = old.credential
    BY DEF IInv, LinkedRunMatches
  <1>2. ASSUME NEW r \in RunId, runs[r].event = e
        PROVE  runs'[r].event = e /\ runs'[r].credential = runs[r].credential
    <2>1. runs[r].status # "absent"
      BY <1>2, Documents DEF IInv, RunSound
    <2> QED BY <1>2, <2>1 DEF World, RunKept
  <1>3. CASE new = old
    <2>1. old.run # None => old.run \in RunId
      BY <1>0 DEF Incident
    <2> QED BY <1>0, <1>1, <1>2, <1>3, <2>1
  <1>4. CASE old.status = "absent" /\ new = NewIncident
    BY <1>0, <1>4, Documents, Ranks DEF Linked
  <1>5. ASSUME NEW u \in Incident, Allowed(e, u), new.status = u.status, new.run = u.run,
               new.credential = u.credential
        PROVE  /\ Rank[old.status] <= Rank[new.status]
               /\ old.status \notin {"resolved", "dismissed"}
               /\ old.status \in Linked => new.run = old.run /\ new.status \in Linked
               /\ (new.run # None) <=> (new.status \in Linked)
               /\ new.run # None => /\ runs'[new.run].event = e
                                    /\ runs'[new.run].credential = new.credential
    <2>1. new.run # None => new.run \in RunId
      BY <1>0 DEF Incident
    <2> QED BY <1>2, <1>5, <2>1 DEF Allowed
  <1> QED BY <1>3, <1>4, <1>5 DEF World, Moves

\* Who steps: a handler, or somebody who touches no call.
LEMMA StepSound ==
    ASSUME IInv, Next
    PROVE  World /\ (UNCHANGED calls \/ \E h \in Handlers : Mine(h))
  <1>1. ASSUME NEW h \in Handlers, Step(h) \/ Crash(h)
        PROVE  World /\ Mine(h)
    BY <1>1, CorrelateStays, ConfirmAloneStays, StartAloneStays, LeavingStays, StartStays,
       CreateStays, LinkStays DEF Step
  <1>2. ASSUME Operator
        PROVE  World /\ (UNCHANGED calls \/ \E h \in Handlers : Mine(h))
    BY <1>2, RotateStays, OperatorStays DEF Operator
  <1> QED BY <1>1, <1>2, DeliverStays, DeleteStays, CoordinatorStays DEF Next

LEMMA Initially ==
    ASSUME Init
    PROVE  IInv
  <1>1. NoRun \in Run /\ NoRun.status = "absent" /\ NoRun.event = None /\ NoRun.stage = "early"
    BY DEF NoRun, Run
  <1>2. /\ incidents \in [Events -> Incident] /\ runs \in [RunId -> Run]
        /\ calls \in [Handlers -> Call] /\ deletion \in SoundDeletion
        /\ \A h \in Handlers : calls[h].phase = "idle"
    BY <1>1, Documents, DeletionTyped DEF Init
  <1>3. crashes \in 0..MaxCrashes /\ left \in [Events -> 0..MaxDeliveries]
    BY BoundsAssumption DEF Init
  <1>4. TypeOK
    BY <1>2, <1>3 DEF Init, TypeOK, SoundDeletion
  <1>5. LinkedRunMatches /\ \A r \in RunId : RunSound(r)
    BY <1>1, Documents DEF Init, LinkedRunMatches, Linked, RunSound
  <1>6. \A h \in Handlers : CallSound(h)
    BY <1>2 DEF CallSound
  <1> QED BY <1>2, <1>4, <1>5, <1>6 DEF IInv

LEMMA NextSound ==
    ASSUME IInv, [Next]_vars
    PROVE  IInv' /\ World
  <1>1. ASSUME World, \A h \in Handlers : CallSound(h)', calls' \in [Handlers -> Call]
        PROVE  IInv'
    <2>1. LinkedRunMatches'
      BY <1>1, MovesForward DEF LinkedRunMatches
    <2>2. TypeOK'
      BY <1>1 DEF World, TypeOK, CallSound, SoundDeletion
    <2> QED BY <1>1, <2>1, <2>2 DEF IInv, World
  <1>2. CASE Next
    <2>1. World /\ calls' \in [Handlers -> Call]
      BY <1>2, StepSound, Now DEF Mine
    <2>2. \A h \in Handlers : CallSound(h)' \/ calls'[h] = calls[h]
      BY <1>2, StepSound DEF Mine
    <2>3. \A h \in Handlers : CallSound(h)'
      BY <2>1, <2>2, OthersStay
    <2> QED BY <1>1, <2>1, <2>3
  <1>3. CASE UNCHANGED vars
    <2>1. World
      BY <1>3, Now, Quiet DEF vars
    <2>2. \A h \in Handlers : CallSound(h)'
      BY <1>3, <2>1, OthersStay DEF vars
    <2> QED BY <1>1, <1>3, <2>1, <2>2, Now DEF vars
  <1> QED BY <1>2, <1>3

\* The invariant holds however calls, operators and runs interleave and wherever
\* handlers die (incident service.py, automation.py).
THEOREM Invariance == Spec => []IInv
  <1>1. IInv /\ [Next]_vars => IInv'
    BY NextSound
  <1> QED BY <1>1, Initially, PTL DEF Spec

\* Every document keeps its type, and a call links only a run that exists
\* (incident service.py start_rotation).
THEOREM TypeCorrect == Spec => []TypeOK
  <1>1. IInv => TypeOK
    BY DEF IInv
  <1> QED BY <1>1, Invariance, PTL

\* An incident names a run exactly while it rotates or has rotated, and that run
\* was opened by its own alert for its own credential (incident service.py
\* start_rotation).
THEOREM LinksMatch == Spec => []LinkedRunMatches
  <1>1. IInv => LinkedRunMatches
    BY DEF IInv
  <1> QED BY <1>1, Invariance, PTL

\* No transaction of the incident repository takes an incident back
\* (storage incident.py _update, advance_run).
THEOREM IncidentsGoForward == Spec => StatusForward
  <1>1. IInv /\ [Next]_vars =>
           \A e \in Events :
              LET old == incidents[e]
                  new == incidents'[e]
              IN  /\ Rank[old.status] <= Rank[new.status]
                  /\ old.status \in {"resolved", "dismissed"} => new = old
                  /\ old.status \in Linked => new.run = old.run /\ new.status \in Linked
    BY NextSound, MovesForward
  <1> QED BY <1>1, Invariance, PTL DEF Spec, StatusForward
=============================================================================
