--------------------------- MODULE GitHubOnboarding ---------------------------
(***************************************************************************)
(* Connecting one installation of the GitHub App to an organisation, and   *)
(* the webhooks GitHub sends about it.                                     *)
(*                                                                         *)
(* An administrator begins an onboarding, discovers the installation and   *)
(* its repositories at GitHub, and completes it; the calls are a chain of  *)
(* reads, transactions and batches, and a call may be repeated while an    *)
(* earlier one goes on. Meanwhile GitHub suspends, deletes or changes the  *)
(* installation. Its webhooks are lost, repeated and arrive in any order.  *)
(*                                                                         *)
(* The index says whose the installation is and whether alerts of it are   *)
(* accepted; model_copy does not validate, so that a document can be       *)
(* written which no reader can parse again.                                *)
(***************************************************************************)
EXTENDS Naturals

CONSTANTS
    Onboardings, Organisations,
    OrganisationOf,   \* onboarding -> organisation
    Callers,          \* discover and complete calls
    Repositories, None,
    MaxAppChanges     \* bound: changes of the installation at GitHub

VARIABLES
    app,            \* at GitHub: status, repositories, whether all have secret scanning
    appChanges,
    webhooks,       \* events GitHub has sent: each may arrive at any time, again or never
    onboarding,     \* onboarding sessions
    index,          \* the installation's index, or None
    installation,   \* organisation -> installation document, or None
    repositories,   \* organisation -> repository documents of the installation
    receipt,        \* whether an installation webhook was recorded
    reported,       \* history: a webhook of changed repositories came since the completion
    caller,
    connection,     \* organisation -> status of its GitHub connection
    reconciling     \* what the last deliveries will make of the owner's connection

calls == <<app, appChanges, webhooks>>
documents == <<onboarding, index, installation, repositories, receipt, reported>>
connections == <<connection, reconciling>>
vars == <<calls, documents, caller, connections>>

-----------------------------------------------------------------------------
Installation ==
    [verified : BOOLEAN, repositoriesReady : BOOLEAN, active : BOOLEAN,
     deleted : BOOLEAN, ready : BOOLEAN]
Index ==
    [onboarding : Onboardings, active : BOOLEAN, deleted : BOOLEAN, ready : BOOLEAN]
Onboarding ==
    [status : {"absent", "pending", "discovered", "complete"},
     installation : Installation \cup {None}, repositories : SUBSET Repositories]
Call ==
    [at : {"idle", "receipt", "stage", "reserve", "existing", "write", "delete", "finish"},
     onboarding : Onboardings \cup {None},
     installation : Installation \cup {None}, repositories : SUBSET Repositories,
     index : Index \cup {None}, existing : SUBSET Repositories]

NoCall == [at |-> "idle", onboarding |-> None, installation |-> None, repositories |-> {},
           index |-> None, existing |-> {}]
NewIndex(o) == [onboarding |-> o, active |-> TRUE, deleted |-> FALSE, ready |-> FALSE]

\* validate_lifecycle: a document that breaks it makes every reader raise.
Readable(i) == (i.ready => i.active) /\ (i.deleted => ~i.active)

Owner == OrganisationOf[index.onboarding]
Record(o) == onboarding[o]
Goto(c, at) == [caller EXCEPT ![c].at = at]

Init ==
    /\ app = [status |-> "installed", repositories |-> Repositories, scanned |-> TRUE]
    /\ appChanges = 0
    /\ webhooks = {"created"}
    /\ onboarding = [o \in Onboardings |-> [status |-> "absent",
                                            installation |-> None, repositories |-> {}]]
    /\ index = None
    /\ installation = [g \in Organisations |-> None]
    /\ repositories = [g \in Organisations |-> {}]
    /\ receipt = FALSE
    /\ reported = FALSE
    /\ caller = [c \in Callers |-> NoCall]
    /\ connection = [g \in Organisations |-> "none"]
    /\ reconciling = {}

-----------------------------------------------------------------------------
(***************************************************************************)
(* GitHub                                                                  *)
(***************************************************************************)

AppMoves(status, event) ==
    /\ appChanges < MaxAppChanges
    /\ app' = [app EXCEPT !.status = status]
    /\ webhooks' = webhooks \cup {event}
    /\ appChanges' = appChanges + 1
    /\ UNCHANGED <<documents, caller, connections>>

AppSuspended == app.status = "installed" /\ AppMoves("suspended", "suspend")
AppUnsuspended == app.status = "suspended" /\ AppMoves("installed", "unsuspend")
AppDeleted == app.status # "deleted" /\ AppMoves("deleted", "deleted")

AppRepositoriesChanged ==
    /\ appChanges < MaxAppChanges
    /\ app.status # "deleted"
    /\ \E chosen \in SUBSET Repositories \ {{}}, scanned \in BOOLEAN :
          app' = [app EXCEPT !.repositories = chosen, !.scanned = scanned]
    /\ webhooks' = webhooks \cup {"repositories"}
    /\ appChanges' = appChanges + 1
    /\ UNCHANGED <<documents, caller, connections>>

-----------------------------------------------------------------------------
(***************************************************************************)
(* Onboarding                                                              *)
(***************************************************************************)

Begin(o) ==
    /\ Record(o).status = "absent"
    /\ onboarding' = [onboarding EXCEPT ![o].status = "pending"]
    /\ UNCHANGED <<calls, index, installation, repositories, receipt, reported, caller,
                   connections>>

\* The session as it was read, and what the connector finds at GitHub. After 15
\* minutes no call passes; none need come before.
Discover(c, o) ==
    /\ caller[c].at = "idle"
    /\ Record(o).status = "pending"
    /\ app.status = "installed"
    /\ caller' = [caller EXCEPT ![c] = [NoCall EXCEPT
           !.at = "receipt", !.onboarding = o, !.repositories = app.repositories,
           !.installation = [verified |-> FALSE, repositoriesReady |-> app.scanned,
                             active |-> TRUE, deleted |-> FALSE, ready |-> FALSE]]]
    /\ UNCHANGED <<calls, documents, connections>>

ReadReceipt(c) ==
    LET found == caller[c].installation
        read == [found EXCEPT !.verified = receipt,
                              !.ready = receipt /\ found.repositoriesReady]
    IN /\ caller[c].at = "receipt"
       /\ caller' = [caller EXCEPT ![c].at = "stage", ![c].installation = read]
       /\ UNCHANGED <<calls, documents, connections>>

\* No index, or one of the same organisation that is not deleted.
MayHold(o) ==
    \/ index = None
    \/ index # None /\ Readable(index) /\ Owner = OrganisationOf[o] /\ ~index.deleted

\* The index is claimed with the discovery; a second session never gets past it.
Stage(c) ==
    LET o == caller[c].onboarding
        staged == [Record(o) EXCEPT !.status = "discovered",
                       !.installation = caller[c].installation,
                       !.repositories = caller[c].repositories]
    IN /\ caller[c].at = "stage"
       /\ Record(o).status = "pending"
       /\ MayHold(o)
       /\ index # None => index.onboarding = o
       /\ index' = IF index = None THEN NewIndex(o) ELSE index
       /\ onboarding' = [onboarding EXCEPT ![o] = staged]
       /\ caller' = [caller EXCEPT ![c] = NoCall]
       /\ UNCHANGED <<calls, installation, repositories, receipt, reported, connections>>

\* What complete hands on are the installation and repositories of the session,
\* which do not change once they are discovered.
Complete(c, o) ==
    /\ caller[c].at = "idle"
    /\ Record(o).status = "discovered"
    /\ caller' = [caller EXCEPT ![c] = [NoCall EXCEPT !.at = "reserve", !.onboarding = o]]
    /\ UNCHANGED <<calls, documents, connections>>

Reserve(c) ==
    LET o == caller[c].onboarding
        kept == index # None /\ index.onboarding = o
        reserved == IF kept THEN index ELSE NewIndex(o)
    IN /\ caller[c].at = "reserve"
       /\ MayHold(o)
       /\ index # None => index.onboarding = o \/ ~index.ready
       /\ index' = reserved
       /\ caller' = [caller EXCEPT ![c].at = "existing", ![c].index = reserved]
       /\ UNCHANGED <<calls, onboarding, installation, repositories, receipt, reported,
                      connections>>

ReadExisting(c) ==
    /\ caller[c].at = "existing"
    /\ caller' = [caller EXCEPT ![c].at = "write",
           ![c].existing = repositories[OrganisationOf[caller[c].onboarding]]]
    /\ UNCHANGED <<calls, documents, connections>>

WriteRepositories(c) ==
    LET o == caller[c].onboarding
    IN /\ caller[c].at = "write"
       /\ repositories' = [repositories EXCEPT ![OrganisationOf[o]] =
              @ \cup Record(o).repositories]
       /\ caller' = Goto(c, "delete")
       /\ UNCHANGED <<calls, onboarding, index, installation, receipt, reported,
                      connections>>

DeleteStale(c) ==
    LET o == caller[c].onboarding
    IN /\ caller[c].at = "delete"
       /\ repositories' = [repositories EXCEPT ![OrganisationOf[o]] =
              @ \ (caller[c].existing \ Record(o).repositories)]
       /\ caller' = Goto(c, "finish")
       /\ UNCHANGED <<calls, onboarding, index, installation, receipt, reported,
                      connections>>

\* Mutant of MayFinish: the index is not compared.
MayFinish_any_index(c) ==
    /\ Record(caller[c].onboarding).status = "discovered"
    /\ Readable(index)

\* Nobody else completed the session, and the index is the one that was reserved.
MayFinish(c) ==
    /\ Record(caller[c].onboarding).status = "discovered"
    /\ Readable(index)
    /\ index = caller[c].index

Finish(c) ==
    LET o == caller[c].onboarding
    IN /\ caller[c].at = "finish"
       /\ MayFinish(c)
       /\ onboarding' = [onboarding EXCEPT ![o].status = "complete"]
       /\ installation' = [installation EXCEPT ![OrganisationOf[o]] = Record(o).installation]
       /\ index' = [caller[c].index EXCEPT !.ready = Record(o).installation.ready]
       /\ reported' = FALSE
       /\ caller' = [caller EXCEPT ![c] = NoCall]
       /\ UNCHANGED <<calls, repositories, receipt, connections>>

\* Refused, answered with what is stored already, or the process died.
CallEnds(c) ==
    /\ caller[c].at # "idle"
    /\ caller' = [caller EXCEPT ![c] = NoCall]
    /\ UNCHANGED <<calls, documents, connections>>

\* The client adds the connection with the answer to complete.
AddConnection(o) ==
    /\ Record(o).status = "complete"
    /\ connection[OrganisationOf[o]] = "none"
    /\ connection' = [connection EXCEPT ![OrganisationOf[o]] =
           IF Record(o).installation.ready THEN "ready" ELSE "setup-required"]
    /\ UNCHANGED <<calls, documents, caller, reconciling>>

-----------------------------------------------------------------------------
(***************************************************************************)
(* Webhooks                                                                *)
(***************************************************************************)

Delivered(e) ==
    /\ e \in webhooks
    /\ UNCHANGED <<calls, onboarding, repositories, caller, connection>>

Known == index # None /\ Readable(index) /\ installation[Owner] # None

\* Before the installation is stored, only the receipt is.
ReceiptStored(e) ==
    /\ e \in {"created", "unsuspend"}
    /\ \/ index = None
       \/ index # None /\ Readable(index) /\ installation[Owner] = None
    /\ Delivered(e)
    /\ receipt' = TRUE
    /\ UNCHANGED <<index, installation, reported, reconciling>>

\* Mutant of ReadyAgain: the repositories are not asked for.
ReadyAgain_unchecked(active) == active

\* Ready again only with repositories that were checked.
ReadyAgain(active) == active /\ installation[Owner].repositoriesReady

ReceiptRecorded(e) ==
    LET active == index.active \/ (e = "unsuspend" /\ ~index.deleted)
        ready == ReadyAgain(active)
    IN /\ e \in {"created", "unsuspend"}
       /\ Known
       /\ Delivered(e)
       /\ receipt' = TRUE
       /\ installation' = [installation EXCEPT
              ![Owner] = [@ EXCEPT !.verified = TRUE, !.active = active, !.ready = ready]]
       /\ index' = [index EXCEPT !.active = active, !.ready = ready]
       /\ reconciling' = reconciling \cup {ready}
       /\ UNCHANGED reported

\* The installation document follows the index where there is one.
Deactivate(e) ==
    LET off(d) == [d EXCEPT !.active = FALSE, !.ready = FALSE,
                            !.deleted = d.deleted \/ e = "deleted"]
    IN /\ e \in {"suspend", "deleted"}
       /\ index # None => Readable(index)
       /\ Delivered(e)
       /\ index' = IF index = None THEN None ELSE off(index)
       /\ installation' = IF Known THEN [installation EXCEPT ![Owner] = off(installation[Owner])]
                          ELSE installation
       /\ UNCHANGED <<receipt, reported, reconciling>>

\* Nothing of it stays where no installation is stored: the completion that stores
\* one knows only what its session found at GitHub before.
InvalidateRepositories(e) ==
    /\ e = "repositories"
    /\ index # None => Readable(index)
    /\ Delivered(e)
    /\ reported' = TRUE
    /\ index' = IF index = None THEN None ELSE [index EXCEPT !.ready = FALSE]
    /\ installation' = IF Known THEN [installation EXCEPT
           ![Owner] = [@ EXCEPT !.repositoriesReady = FALSE, !.ready = FALSE]] ELSE installation
    /\ UNCHANGED <<receipt, reconciling>>

\* The connection follows what one delivery found, whatever came after; of two
\* replacements at one revision the second is refused. What is not done at once may
\* as well never be done.
Reconcile(ready) ==
    /\ ready \in reconciling
    /\ connection[Owner] # "none"
    /\ connection' = [connection EXCEPT ![Owner] = IF ready THEN "ready" ELSE "setup-required"]
    /\ reconciling' = reconciling \ {ready}
    /\ UNCHANGED <<calls, documents, caller>>

-----------------------------------------------------------------------------
Next ==
    \/ AppSuspended \/ AppUnsuspended \/ AppDeleted \/ AppRepositoriesChanged
    \/ \E e \in {"created", "unsuspend", "suspend", "deleted", "repositories"} :
          \/ ReceiptStored(e) \/ ReceiptRecorded(e)
          \/ Deactivate(e) \/ InvalidateRepositories(e)
    \/ \E o \in Onboardings : Begin(o) \/ AddConnection(o)
    \/ \E c \in Callers :
          \/ \E o \in Onboardings : Discover(c, o) \/ Complete(c, o)
          \/ ReadReceipt(c) \/ Stage(c) \/ Reserve(c) \/ ReadExisting(c)
          \/ WriteRepositories(c) \/ DeleteStale(c) \/ Finish(c) \/ CallEnds(c)
    \/ \E ready \in BOOLEAN : Reconcile(ready)

Spec == Init /\ [][Next]_vars

-----------------------------------------------------------------------------
TypeOK ==
    /\ app \in [status : {"installed", "suspended", "deleted"},
                repositories : SUBSET Repositories, scanned : BOOLEAN]
    /\ appChanges \in 0..MaxAppChanges
    /\ webhooks \subseteq {"created", "unsuspend", "suspend", "deleted", "repositories"}
    /\ onboarding \in [Onboardings -> Onboarding]
    /\ index \in Index \cup {None}
    /\ installation \in [Organisations -> Installation \cup {None}]
    /\ repositories \in [Organisations -> SUBSET Repositories]
    /\ receipt \in BOOLEAN /\ reported \in BOOLEAN
    /\ caller \in [Callers -> Call]
    /\ connection \in [Organisations -> {"none", "setup-required", "ready"}]
    /\ reconciling \subseteq BOOLEAN

\* route accepts alerts of an installation.
Accepting == index # None /\ Readable(index) /\ index.active /\ index.ready

\* Alerts are accepted only for a completed onboarding and for one organisation, whose
\* stored repositories are those its session found, all of them scanned for secrets when
\* it found them, only after a signed webhook, while the installation is active, and while
\* no webhook has reported other repositories since the completion, however calls of
\* several onboardings and webhooks overlapped. What is reported between the discovery and
\* the completion is not asked for: the completion forgets it.
AcceptingIsComplete ==
    Accepting =>
        /\ Record(index.onboarding).status = "complete"
        /\ repositories[Owner] = Record(index.onboarding).repositories
        /\ Record(index.onboarding).installation.repositoriesReady
        /\ ~reported
        /\ \A g \in Organisations \ {Owner} : installation[g] = None /\ repositories[g] = {}
        /\ installation[Owner] # None
        /\ installation[Owner].active /\ installation[Owner].verified

StaysDeleted ==
    index # None /\ index.deleted =>
       index' # None /\ index'.deleted /\ ~(Readable(index') /\ index'.ready)

\* An installation that GitHub deleted is never accepted again, not even by a
\* completion that began before.
DeletedForGood == [][StaysDeleted]_vars
=============================================================================
