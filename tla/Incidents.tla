------------------------------- MODULE Incidents -------------------------------
(***************************************************************************)
(* Incidents: from an alert to the rotation that answers it.               *)
(*                                                                         *)
(* server/ingestion delivers an alert, stores it with its incident,        *)
(* correlates the incident with the inventory and, where the controls of   *)
(* the credential allow it, starts a rotation by itself. Operators         *)
(* confirm, rotate and dismiss the same incidents through the API, the     *)
(* coordinator reports containment and resolution of the run an incident   *)
(* is linked to, and the deletion of a credential cancels its runs and     *)
(* dismisses its incidents. Reading an incident, creating its run and      *)
(* linking the two are separate steps with separate transactions, so the   *)
(* actors interleave between them and a crash can part them.               *)
(***************************************************************************)
EXTENDS Naturals, FiniteSets

CONSTANTS
    Events,        \* identities of alerts: source, source event, kind
    Credentials,
    Keys,          \* idempotency keys of operators
    Handlers,      \* concurrent calls of ingestion and of the rotate route
    None,
    Threshold,     \* credential -> least confidence its controls act on
    Matches,       \* what correlation may find: candidates, and the verified one
    Removable,     \* bound: the credentials an operator removes, once each
    MaxRevision,   \* bound: revisions at which an incident is confirmed
    MaxDeliveries, \* most deliveries of one alert by its source
    MaxCrashes     \* bound: crashes of handlers

ASSUME IdentityAssumption ==
    /\ Events \cap Keys = {}
    /\ None \notin Events \cup Keys \cup Credentials
ASSUME ThresholdAssumption ==
    Threshold \in [Credentials -> {"high", "verified", "never"}]
ASSUME MatchesAssumption ==
    \A match \in Matches : match[1] \subseteq Credentials /\ match[2] \in match[1] \cup {None}
ASSUME BoundsAssumption ==
    MaxRevision \in Nat /\ MaxCrashes \in Nat /\ MaxDeliveries \in Nat \ {0}

VARIABLES
    incidents,   \* event -> the incident its first delivery stored
    runs,        \* run id -> the part of the run document incidents depend on
    archived,    \* credentials that were removed
    pending,     \* events whose delivery has not been acknowledged
    calls,       \* handler -> the call it works on
    deletion,    \* the cascading removal of a credential under way
    left,        \* event -> deliveries its source would still make
    crashes      \* bounded by MaxCrashes

vars == <<incidents, runs, archived, pending, calls, deletion, left, crashes>>

-----------------------------------------------------------------------------
\* IncidentStatus. Both CORRELATING and ACTION are results of correlate.
Rank == [absent |-> 0, new |-> 1, correlating |-> 2, action |-> 2, rotating |-> 3,
         contained |-> 4, resolved |-> 5, dismissed |-> 5]
Status == DOMAIN Rank

Dismissable == {"new", "correlating", "action"}
Linked == {"rotating", "contained", "resolved"}

\* The run id is a digest of the command id, and the command id is made of the
\* event by the automation and of the idempotency key by the route.
RunId == Events \cup Keys

Incident == [status : Status, revision : Nat, candidates : SUBSET Credentials,
             credential : Credentials \cup {None}, run : RunId \cup {None}]
NoIncident == [status |-> "absent", revision |-> 0, candidates |-> {},
               credential |-> None, run |-> None]

\* stage: how far the run is with REVOKE and COMPLETE, which report to incidents.
Run == [status : {"absent", "live", "over"},
        stage : {"early", "revoke", "contained", "complete", "resolved"},
        event : Events \cup {None}, credential : Credentials \cup {None}]
NoRun == [status |-> "absent", stage |-> "early", event |-> None, credential |-> None]

\* seen is the incident as the call last read or wrote it.
Call == [op : {"none", "deliver", "rotate"},
         phase : {"idle", "correlate", "decide", "start", "create", "link", "reread"},
         event : Events \cup {None}, seen : Incident,
         run : RunId \cup {None}]
Idle == [op |-> "none", phase |-> "idle", event |-> None, seen |-> NoIncident,
         run |-> None]

Deletion == [phase : {"idle", "cancel", "dismiss", "over"},
             credential : Credentials \cup {None}, runs : SUBSET RunId,
             incidents : SUBSET (Events \X Nat)]
NoDeletion == [phase |-> "idle", credential |-> None, runs |-> {}, incidents |-> {}]
EndDeletion == deletion' = [NoDeletion EXCEPT !.phase = "over"]

-----------------------------------------------------------------------------
(***************************************************************************)
(* The incident repository: transactions on one document, most of which    *)
(* compare nothing but its revision.                                       *)
(***************************************************************************)

Exists(e) == incidents[e].status # "absent"

\* Mutant of Fresh: the update does not compare the revision.
Fresh_always(e, seen) == TRUE

\* _update goes through: the document is still the one that was read.
Fresh(e, seen) == incidents[e].revision = seen.revision

Update(e, changed) ==
    incidents' = [incidents EXCEPT ![e] = [changed EXCEPT !.revision = @ + 1]]

\* The dedupe record of the alert keeps the incident of its first delivery.
NewIncident == [NoIncident EXCEPT !.status = "new"]

\* At most one candidate is verified: an exact match that no other shares.
Correlated(incident, found, exact) ==
    [incident EXCEPT !.candidates = found, !.credential = exact,
                     !.status = IF exact = None THEN "correlating" ELSE "action"]

LinkedWith(incident, r) == [incident EXCEPT !.status = "rotating", !.run = r]

MayAdvance(incident, status) ==
    \/ incident.status = "rotating"
    \/ incident.status = "contained" /\ status = "resolved"

Unmoved(incident, status) ==
    \/ incident.status = status
    \/ incident.status = "resolved" /\ status = "contained"

LinkedTo(r) == {e \in Events : incidents[e].run = r}

\* advance_run: every incident of the run, each in a transaction of its own; it
\* raises when one of them stands elsewhere.
AdvanceRun(r, status) ==
    /\ \A e \in LinkedTo(r) :
          Unmoved(incidents[e], status) \/ MayAdvance(incidents[e], status)
    /\ incidents' = [e \in Events |->
          IF e \in LinkedTo(r) /\ ~Unmoved(incidents[e], status)
          THEN [incidents[e] EXCEPT !.status = status, !.revision = @ + 1]
          ELSE incidents[e]]

-----------------------------------------------------------------------------
(***************************************************************************)
(* Calls.                                                                  *)
(***************************************************************************)

Goto(h, phase, seen) ==
    calls' = [calls EXCEPT ![h].phase = phase, ![h].seen = seen]

\* Mutant of Fail: the delivery is acknowledged when it is received.
Fail_acknowledged(h) ==
    /\ calls' = [calls EXCEPT ![h] = Idle]
    /\ pending' = pending \ {calls[h].event}

\* The call ends with an error. Whether the alert is delivered again is its source's
\* affair, see left.
Fail(h) == calls' = [calls EXCEPT ![h] = Idle] /\ UNCHANGED pending

\* The call ends well. The acknowledgement of a delivery may get lost.
Answer(h) ==
    /\ calls' = [calls EXCEPT ![h] = Idle]
    /\ \/ UNCHANGED pending
       \/ calls[h].op = "deliver" /\ pending' = pending \ {calls[h].event}

\* A conflict of resources: the automation looks whether another call has linked
\* the incident, the route passes the error on.
Conflict(h) ==
    IF calls[h].op = "deliver"
    THEN Goto(h, "reread", calls[h].seen) /\ UNCHANGED pending
    ELSE Fail(h)

\* The controls the automation acts on.
Automatic(c, confidence) ==
    \/ Threshold[c] = "high"
    \/ Threshold[c] = "verified" /\ confidence = "verified"

\* A source delivers the alert to the automation: the webhooks of GitHub and of
\* providers once, a push subscription or a scheduled job again until it is
\* acknowledged or has used up its attempts. The alert is stored with its incident,
\* or the call goes on with the incident of an earlier delivery, whatever became of
\* it: also with one not yet correlated. A detection that was repeated describes the
\* alert anew, and conflicts with what was stored.
Deliver(h, e) ==
    LET call == [Idle EXCEPT !.op = "deliver", !.event = e] IN
    /\ calls[h] = Idle /\ e \in pending /\ left[e] > 0
    /\ left' = [left EXCEPT ![e] = @ - 1]
    /\ \/ /\ Exists(e)
          /\ calls' = [calls EXCEPT ![h] = [call EXCEPT !.phase = "decide",
                                                        !.seen = incidents[e]]]
          /\ UNCHANGED incidents
       \/ Exists(e) /\ UNCHANGED <<calls, incidents>>
       \/ /\ ~Exists(e)
          /\ incidents' = [incidents EXCEPT ![e] = NewIncident]
          /\ calls' = [calls EXCEPT ![h] = [call EXCEPT !.phase = "correlate",
                                                        !.seen = NewIncident]]
    /\ UNCHANGED <<runs, archived, pending, deletion, crashes>>

\* Correlation with the inventory, which includes removed credentials.
Correlate(h) ==
    LET e == calls[h].event
        seen == calls[h].seen
    IN
    /\ calls[h].phase = "correlate"
    /\ IF Fresh(e, seen)
       THEN \E match \in Matches :
                LET changed == Correlated(seen, match[1], match[2]) IN
                /\ Update(e, changed)
                /\ Goto(h, "decide", [changed EXCEPT !.revision = @ + 1])
                /\ UNCHANGED pending
       ELSE Fail(h) /\ UNCHANGED incidents
    /\ UNCHANGED <<runs, archived, deletion, left, crashes>>

-----------------------------------------------------------------------------
(***************************************************************************)
(* IncidentAutomation.ingest, once the incident is at hand.                *)
(***************************************************************************)

\* Its only candidate may be confirmed without an operator.
ConfirmAlone(h) ==
    LET e == calls[h].event
        seen == calls[h].seen
    IN
    /\ calls[h].phase = "decide" /\ seen.status = "correlating"
    /\ \E c \in seen.candidates :
          /\ seen.candidates = {c} /\ Automatic(c, "high")
          /\ IF Fresh(e, seen)
             THEN LET changed == Correlated(seen, {c}, c) IN
                  /\ Update(e, changed)
                  /\ Goto(h, "decide", [changed EXCEPT !.revision = @ + 1])
                  /\ UNCHANGED pending
             ELSE Fail(h) /\ UNCHANGED incidents
    /\ UNCHANGED <<runs, archived, deletion, left, crashes>>

\* The rotation is requested, under the control version that is current now.
StartAlone(h) ==
    LET seen == calls[h].seen IN
    /\ calls[h].phase = "decide" /\ seen.status = "action"
    /\ Automatic(seen.credential, "verified")
    /\ calls' = [calls EXCEPT ![h].phase = "start", ![h].run = calls[h].event]
    /\ UNCHANGED <<incidents, runs, archived, pending, deletion, left, crashes>>

\* Nothing to do, or nothing the controls leave to the automation.
Leave(h) ==
    LET seen == calls[h].seen IN
    /\ calls[h].phase = "decide"
    /\ ~ \/ seen.status = "action" /\ Automatic(seen.credential, "verified")
         \/ /\ seen.status = "correlating"
            /\ \E c \in Credentials : seen.candidates = {c} /\ Automatic(c, "high")
    /\ Answer(h)
    /\ UNCHANGED <<incidents, runs, archived, deletion, left, crashes>>

\* After a conflict in start_rotation.
Reread(h) ==
    /\ calls[h].phase = "reread"
    /\ IF incidents[calls[h].event].status = "rotating" THEN Answer(h) ELSE Fail(h)
    /\ UNCHANGED <<incidents, runs, archived, deletion, left, crashes>>

-----------------------------------------------------------------------------
(***************************************************************************)
(* IncidentService.start_rotation, for the automation and for operators:   *)
(* read the incident, create the run, link the incident.                   *)
(***************************************************************************)

\* The control version that the automation presents is one of the credential it
\* decided on; a run of another credential does not find it.
Misdirected(h) ==
    /\ calls[h].op = "deliver"
    /\ incidents[calls[h].event].credential # calls[h].seen.credential

Start(h) ==
    LET now == incidents[calls[h].event]
        startable == /\ now.credential # None
                     /\ now.status \in {"action", "rotating"}
                     /\ now.run \in {None, calls[h].run}
    IN
    /\ calls[h].phase = "start"
    /\ \/ startable /\ ~Misdirected(h) /\ Goto(h, "create", now) /\ UNCHANGED pending
       \/ startable /\ Misdirected(h) /\ Fail(h)
       \/ ~startable /\ Conflict(h)
    /\ UNCHANGED <<incidents, runs, archived, deletion, left, crashes>>

Requested(h) ==
    [status |-> "live", stage |-> "early", event |-> calls[h].event,
     credential |-> calls[h].seen.credential]

Opened(e) == {r \in RunId : runs[r].event = e}

\* Mutant of MayReplay: the digest leaves the credential out.
MayReplay_any_credential(h) == calls[h].run \in Opened(calls[h].event)

\* A repeated command is answered with the run of the alert when its digest is
\* the same: the run id, the credential, the control version and the reason.
MayReplay(h) ==
    \E r \in Opened(calls[h].event) :
        r = calls[h].run /\ runs[r].credential = calls[h].seen.credential

Held(c) == \E r \in RunId : runs[r].status = "live" /\ runs[r].credential = c

MayCreate(h) ==
    /\ Opened(calls[h].event) = {}
    /\ ~Held(calls[h].seen.credential)
    /\ runs[calls[h].run].status = "absent"

\* RunWorkflow.create. The errors of the run repository are not conflicts of
\* resources: the automation does not handle them. A repetition whose control
\* version or reason has changed is refused too.
Create(h) ==
    /\ calls[h].phase = "create"
    /\ \/ /\ MayCreate(h)
          /\ runs' = [runs EXCEPT ![calls[h].run] = Requested(h)]
          /\ Goto(h, "link", calls[h].seen) /\ UNCHANGED pending
       \/ /\ MayReplay(h)
          /\ Goto(h, "link", calls[h].seen) /\ UNCHANGED <<runs, pending>>
       \/ ~MayCreate(h) /\ Fail(h) /\ UNCHANGED runs
    /\ UNCHANGED <<incidents, archived, deletion, left, crashes>>

Link(h) ==
    LET e == calls[h].event
        seen == calls[h].seen
    IN
    /\ calls[h].phase = "link"
    /\ \/ seen.status = "rotating" /\ Answer(h) /\ UNCHANGED incidents
       \/ /\ seen.status # "rotating" /\ Fresh(e, seen)
          /\ Update(e, LinkedWith(seen, calls[h].run)) /\ Answer(h)
       \/ /\ seen.status # "rotating" /\ ~Fresh(e, seen)
          /\ Conflict(h) /\ UNCHANGED incidents
    /\ UNCHANGED <<runs, archived, deletion, left, crashes>>

\* The instance dies. What it stored stays.
Crash(h) ==
    /\ calls[h] # Idle /\ crashes < MaxCrashes
    /\ crashes' = crashes + 1
    /\ Fail(h)
    /\ UNCHANGED <<incidents, runs, archived, deletion, left>>

-----------------------------------------------------------------------------
(***************************************************************************)
(* Operators.                                                              *)
(***************************************************************************)

Rotate(h, e, k) ==
    /\ calls[h] = Idle /\ Exists(e)
    /\ calls' = [calls EXCEPT ![h] = [Idle EXCEPT !.op = "rotate", !.phase = "start",
                                                  !.event = e, !.run = k]]
    /\ UNCHANGED <<incidents, runs, archived, pending, deletion, left, crashes>>

\* confirm compares the revision before it looks at the incident, and again in
\* the transaction: nothing came between.
Confirm(e, c) ==
    /\ incidents[e].status \in {"correlating", "action"}
    /\ c \in incidents[e].candidates
    /\ incidents[e].revision < MaxRevision
    /\ Update(e, Correlated(incidents[e], incidents[e].candidates, c))
    /\ UNCHANGED <<runs, archived, pending, calls, deletion, left, crashes>>

Dismissed(incident) == [incident EXCEPT !.status = "dismissed"]

Dismiss(e) ==
    /\ incidents[e].status \in Dismissable
    /\ Update(e, Dismissed(incidents[e]))
    /\ UNCHANGED <<runs, archived, pending, calls, deletion, left, crashes>>

-----------------------------------------------------------------------------
(***************************************************************************)
(* Cascading removal of a credential: the runs listed at the start are     *)
(* cancelled, the incidents listed then are dismissed one by one, and the  *)
(* credential is archived at the end. The first error ends it.             *)
(***************************************************************************)

Live(c) == {r \in RunId : runs[r].status = "live" /\ runs[r].credential = c}

DeleteBegin(c) ==
    /\ deletion = NoDeletion /\ c \in Removable
    /\ deletion' = [NoDeletion EXCEPT !.phase = "cancel", !.credential = c,
                                      !.runs = Live(c)]
    /\ UNCHANGED <<incidents, runs, archived, pending, calls, left, crashes>>

\* cancel presents the revision that was listed: a run that moved on is an error.
DeleteCancel(r) ==
    /\ deletion.phase = "cancel" /\ r \in deletion.runs
    /\ \/ /\ runs[r].status = "live"
          /\ runs' = [runs EXCEPT ![r].status = "over"]
          /\ deletion' = [deletion EXCEPT !.runs = @ \ {r}]
       \/ EndDeletion /\ UNCHANGED runs
    /\ UNCHANGED <<incidents, archived, pending, calls, left, crashes>>

\* Every incident of the credential that is not resolved or dismissed, with its
\* revision: the ones that rotate or are contained too.
DeleteList ==
    /\ deletion.phase = "cancel" /\ deletion.runs = {}
    /\ deletion' = [deletion EXCEPT !.phase = "dismiss", !.incidents =
          {<<e, incidents[e].revision>> : e \in {f \in Events :
              /\ incidents[f].credential = deletion.credential
              /\ incidents[f].status \notin {"absent", "resolved", "dismissed"}}}]
    /\ UNCHANGED <<incidents, runs, archived, pending, calls, left, crashes>>

DeleteDismiss(e) ==
    /\ deletion.phase = "dismiss" /\ e \in {listed[1] : listed \in deletion.incidents}
    /\ IF /\ <<e, incidents[e].revision>> \in deletion.incidents
          /\ incidents[e].status \in Dismissable
       THEN /\ Update(e, Dismissed(incidents[e]))
            /\ deletion' = [deletion EXCEPT !.incidents = @ \ {<<e, incidents[e].revision>>}]
       ELSE EndDeletion /\ UNCHANGED incidents
    /\ UNCHANGED <<runs, archived, pending, calls, left, crashes>>

DeleteArchive ==
    /\ deletion.phase = "dismiss" /\ deletion.incidents = {}
    /\ archived' = archived \cup {deletion.credential}
    /\ EndDeletion
    /\ UNCHANGED <<incidents, runs, pending, calls, left, crashes>>

Delete ==
    \/ \E c \in Credentials : DeleteBegin(c)
    \/ \E r \in RunId : DeleteCancel(r)
    \/ DeleteList
    \/ \E e \in Events : DeleteDismiss(e)
    \/ DeleteArchive

-----------------------------------------------------------------------------
(***************************************************************************)
(* The run, as far as it reports to incidents. An execution of REVOKE or   *)
(* COMPLETE may be repeated and may outlive its stage and its run.         *)
(***************************************************************************)

BeginRevoke(r) ==
    /\ runs[r].status = "live" /\ runs[r].stage = "early"
    /\ runs' = [runs EXCEPT ![r].stage = "revoke"]
    /\ UNCHANGED <<incidents, archived, pending, calls, deletion, left, crashes>>

Contain(r) ==
    /\ runs[r].stage # "early"
    /\ AdvanceRun(r, "contained")
    /\ runs' = [runs EXCEPT ![r].stage = IF @ = "revoke" THEN "contained" ELSE @]
    /\ UNCHANGED <<archived, pending, calls, deletion, left, crashes>>

BeginComplete(r) ==
    /\ runs[r].status = "live" /\ runs[r].stage = "contained"
    /\ runs' = [runs EXCEPT ![r].stage = "complete"]
    /\ UNCHANGED <<incidents, archived, pending, calls, deletion, left, crashes>>

Resolve(r) ==
    /\ runs[r].stage \in {"complete", "resolved"}
    /\ AdvanceRun(r, "resolved")
    /\ runs' = [runs EXCEPT ![r].stage = "resolved"]
    /\ UNCHANGED <<archived, pending, calls, deletion, left, crashes>>

\* The run is completed, cancelled, compensated or fails.
End(r) ==
    /\ runs[r].status = "live"
    /\ runs' = [runs EXCEPT ![r].status = "over"]
    /\ UNCHANGED <<incidents, archived, pending, calls, deletion, left, crashes>>

-----------------------------------------------------------------------------
Init ==
    /\ incidents = [e \in Events |-> NoIncident]
    /\ runs = [r \in RunId |-> NoRun]
    /\ archived = {}
    /\ pending = Events
    /\ calls = [h \in Handlers |-> Idle]
    /\ deletion = NoDeletion
    /\ left \in [Events -> 1..MaxDeliveries]
    /\ crashes = 0

Step(h) ==
    \/ Correlate(h) \/ ConfirmAlone(h) \/ StartAlone(h) \/ Leave(h) \/ Reread(h)
    \/ Start(h) \/ Create(h) \/ Link(h)

Operator ==
    \/ \E h \in Handlers, e \in Events, k \in Keys : Rotate(h, e, k)
    \/ \E e \in Events, c \in Credentials : Confirm(e, c)
    \/ \E e \in Events : Dismiss(e)

Coordinator ==
    \E r \in RunId : BeginRevoke(r) \/ Contain(r) \/ BeginComplete(r) \/ Resolve(r) \/ End(r)

Next ==
    \/ \E h \in Handlers, e \in Events : Deliver(h, e)
    \/ \E h \in Handlers : Step(h) \/ Crash(h)
    \/ Operator
    \/ Delete
    \/ Coordinator

Spec == Init /\ [][Next]_vars

\* A source makes the deliveries it has left: each finds a free handler in the end,
\* however busy operators and other deliveries keep them. A call goes on until it
\* ends or its instance dies. Nothing is assumed of operators and of runs.
Fairness ==
    /\ \A e \in Events : SF_vars(\E h \in Handlers : Deliver(h, e))
    /\ \A h \in Handlers : WF_vars(Step(h))

FairSpec == Spec /\ Fairness

-----------------------------------------------------------------------------
\* Every variable keeps its type, and a call links only a run that exists.
TypeOK ==
    /\ incidents \in [Events -> Incident]
    /\ runs \in [RunId -> Run]
    /\ archived \subseteq Credentials
    /\ pending \subseteq Events
    /\ calls \in [Handlers -> Call]
    /\ deletion \in Deletion
    /\ left \in [Events -> 0..MaxDeliveries]
    /\ crashes \in 0..MaxCrashes
    /\ \A h \in Handlers : calls[h].phase = "link" => runs[calls[h].run].status # "absent"

\* An incident names a run exactly while it rotates, is contained or resolved,
\* and that run was opened by its own alert for the credential it names, although
\* the run was created from a copy that operators may have changed since.
LinkedRunMatches ==
    \A e \in Events :
        LET incident == incidents[e] IN
        /\ (incident.run # None) <=> (incident.status \in Linked)
        /\ incident.run # None =>
              /\ runs[incident.run].event = e
              /\ runs[incident.run].credential = incident.credential

\* An incident never goes back: a linked incident is not dismissed, a dismissed
\* one not taken up, and containment reported late changes nothing that was
\* resolved, although the transactions compare revisions and not statuses.
StatusForward ==
    [][\A e \in Events :
          LET old == incidents[e]
              new == incidents'[e]
          IN  /\ Rank[old.status] <= Rank[new.status]
              /\ old.status \in {"resolved", "dismissed"} => new = old
              /\ old.status \in Linked => new.run = old.run /\ new.status \in Linked]_vars

\* A verified incident that the controls leave to the automation, whose alert is
\* still to be acknowledged by calls that know the incident as it is.
Due(e) ==
    /\ incidents[e].status = "action"
    /\ Automatic(incidents[e].credential, "verified")
    /\ e \in pending
    /\ \A h \in Handlers : calls[h].event = e /\ calls[h].phase = "decide"
                              => calls[h].seen = incidents[e]

TakenUp(e) ==
    \/ incidents[e].status # "action"
    \/ Opened(e) # {}
    \/ Held(incidents[e].credential)
    \/ ~Automatic(incidents[e].credential, "verified")

\* The source has used up its deliveries and none was acknowledged: the message is
\* dead-lettered, the webhook or job is reported as failed.
GivenUp(e) ==
    /\ e \in pending /\ left[e] = 0
    /\ \A h \in Handlers : ~(calls[h].op = "deliver" /\ calls[h].event = e)

\* An alert is not acknowledged and left lying: however its deliveries die, conflict
\* or overlap, in the end the incident is linked or dismissed, its alert has opened
\* a run, another run holds the credential, or an operator has chosen a credential
\* that is not automatic; or else its source knows that no delivery succeeded.
AlertIsTakenUp == \A e \in Events : Due(e) ~> (TakenUp(e) \/ GivenUp(e))

=============================================================================
