----------------------------- MODULE MCEventOutbox -----------------------------
(***************************************************************************)
(* Small instances for TLC of the three queues that run events go through: *)
(* the outbox to Pub/Sub, and behind its subscriptions the outbox to the   *)
(* audit log and the deliveries of notifications. They share nothing but   *)
(* that Pub/Sub stores the event in between, so that one of them moves at  *)
(* a time: "queue" says which.                                             *)
(***************************************************************************)
EXTENDS EventOutbox

CONSTANTS
    Events, Drains, NoDrain, MaxDeliveries,
    Notices, Endpoints, MaxChanges

VARIABLES
    queue,
    message, chain, outbox, auditCursor, drain, log, auditMishaps,
    endpoint, emission, notice, delivery, sender, claim, sent, senderMishaps

Audit == INSTANCE Audit WITH
    None <- NoDrain, cursor <- auditCursor, mishaps <- auditMishaps, MaxMishaps <- 2

Notifications == INSTANCE Notifications WITH
    None <- NoDrain, drain <- sender, mishaps <- senderMishaps, MaxMishaps <- 2

auditVars == <<message, chain, outbox, auditCursor, drain, log, auditMishaps>>

noticeVars == <<endpoint, emission, notice, delivery, sender, claim, sent, senderMishaps>>

QueuesInit ==
    /\ queue \in {"events", "audit", "notices"}
    /\ Init /\ Audit!Init /\ Notifications!Init

allVars == <<queue, vars, auditVars, noticeVars>>

InEvents(A) == queue = "events" /\ A /\ UNCHANGED <<queue, auditVars, noticeVars>>
InAudit(A) == queue = "audit" /\ A /\ UNCHANGED <<queue, vars, noticeVars>>
InNotices(A) == queue = "notices" /\ A /\ UNCHANGED <<queue, vars, auditVars>>

QueuesNext == InEvents(Next) \/ InAudit(Audit!Next) \/ InNotices(Notifications!Next)

\* Fairness of EventOutbox, of Audit and of Notifications, for the queue that moves.
QueuesFairness ==
    /\ \A p \in Publishers :
        /\ WF_allVars(InEvents(Begin(p))) /\ WF_allVars(InEvents(ClaimNext(p)))
        /\ WF_allVars(InEvents(ScanDone(p))) /\ WF_allVars(InEvents(Deliver(p)))
    /\ WF_allVars(InEvents(\E m \in wire : Arrive(m)))
    /\ \A r \in Runs, v \in Revision :
        WF_allVars(InEvents(BackoffOver(r, v))) /\ WF_allVars(InEvents(LeaseOver(r, v)))
    /\ \A e \in Events :
        /\ WF_allVars(InAudit(Audit!Deliver(e))) /\ WF_allVars(InAudit(Audit!BackoffOver(e)))
        /\ WF_allVars(InAudit(Audit!LeaseOver(e)))
    /\ \A x \in Notices \X Endpoints :
        /\ WF_allVars(InNotices(Notifications!BackoffOver(x)))
        /\ WF_allVars(InNotices(Notifications!LeaseOver(x)))
    /\ \A d \in Drains :
        /\ WF_allVars(InAudit(Audit!Work(d))) /\ WF_allVars(InNotices(Notifications!Work(d)))

QueuesSpec == QueuesInit /\ [][QueuesNext]_allVars /\ QueuesFairness

-----------------------------------------------------------------------------
\* Audit: an entry is logged only when all before it are, or are dead letters.
LoggedInOrder == Audit!LoggedInOrder

\* Audit: every event that Pub/Sub stored is logged or stays a visible dead letter.
StoredIsAudited == Audit!StoredIsAudited

\* Notifications: what is sent goes to the endpoint as the emission found it.
SentAsEmitted == Notifications!SentAsEmitted

\* Notifications: every delivery is sent or fails for good.
EveryDeliverySettles == Notifications!EveryDeliverySettles
=============================================================================
