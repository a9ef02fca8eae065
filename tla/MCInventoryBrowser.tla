--------------------------- MODULE MCInventoryBrowser ---------------------------
(***************************************************************************)
(* Small instances for TLC of the parts around the inventory and the       *)
(* browser that have no document in common: credential generations, the    *)
(* inventory, the onboarding of GitHub and Google Cloud, accounts,         *)
(* playbooks and probes, browser setup, the runs that wait for it, a run's *)
(* browser, and the egress of browser workers. "part" says which of them   *)
(* moves; the others stay as they began.                                   *)
(***************************************************************************)
EXTENDS Generations, Naturals

CONSTANTS
    Executions, Operators, MaxFence,
    Openers, Captures, MaxSessions, MaxChanges, MaxMishaps,
    Runs, Completions, MaxPauses,
    Workers, Reapers, MaxTokens, MaxCrashes,
    connection1, application1, environment1, service1, service2,
    credential1, credential2, key1, Archivers, Importers, MaxRevision,
    organisation1, organisation2, onboarding1, onboarding2, Callers, Repositories,
    MaxAppChanges,
    CloudOnboardings, Clouds, Selections, MaxAccess,
    playbook1, playbook2, version1, version2, version3, Attachers, MaxPlaybook, MaxEdits,
    Probes,
    identity1, identity2, identity3, email1, email2, Requests, MaxGrant, MaxInvitations

\* Bounds count, a run of a browser has a first fencing token and a document a first
\* revision, who reconciles the egress is no browser worker, an execution of a stage is no
\* operator, a credential is none of the resources it depends on, and None is no version,
\* number or probe.
ASSUME PartsAssumption ==
    /\ {MaxFence, MaxSessions, MaxChanges, MaxMishaps, MaxPauses, MaxTokens, MaxCrashes,
        MaxRevision, MaxAppChanges, MaxAccess, MaxPlaybook, MaxEdits, MaxGrant,
        MaxInvitations} \subseteq Nat
    /\ MaxFence >= 1 /\ MaxRevision >= 1
    /\ None \notin Nat \cup Probes \cup {version1, version2, version3}
    /\ Workers \cap Reapers = {}
    /\ Executions \cap Operators = {}
    /\ {credential1, credential2} \cap
         {connection1, application1, environment1, service1, service2} = {}

VARIABLES
    part,
    run, browser, vm, holders, agent, operator,
    setup, connection, versions, opener, capture, changes, mishaps,
    waiting, used, waiter, coordinator, completion,
    egress, stale, lapsed, procs, tokens, crashes,
    revision, archived, bound, archive, importer,
    app, appChanges, webhooks, onboarding, index, installation, repositories, receipt,
    reported, caller, github, reconciling,
    onboarded, cloud, granted, prepared, cloudCaller,
    playbook, version, attached, attach, detaching,
    probe, probed, pinned,
    principal, invitation, invited, request

Session == INSTANCE BrowserSession WITH session <- browser
Setup == INSTANCE BrowserSetup WITH session <- setup
Waiting == INSTANCE WaitingRuns WITH run <- waiting
Egress == INSTANCE BrowserEgress

\* Two services in one environment; one credential is bound to both, the other to one
\* of them, and both stand for the same key of the provider.
Services == {service1, service2}
Credentials == {credential1, credential2}
EnvironmentOf == [s \in Services |-> environment1]
ApplicationOf == [e \in {environment1} |-> application1]
RuntimeOf == [s \in Services |-> connection1]
ConnectionsOf == [s \in Services |-> {connection1}]
ManagedBy == [c \in Credentials |-> {connection1}]
Consumers == [c \in Credentials |-> IF c = credential1 THEN Services ELSE {service1}]
KeyOf == [c \in Credentials |-> key1]
OnlyConnection == {connection1}
OnlyApplication == {application1}
OnlyEnvironment == {environment1}
Inventory == INSTANCE Inventory WITH
    bindings <- bound, Connections <- OnlyConnection, Applications <- OnlyApplication,
    Environments <- OnlyEnvironment

\* Onboardings of two organisations for one installation of the App.
Onboardings == {onboarding1, onboarding2}
Organisations == {organisation1, organisation2}
OrganisationOf ==
    [o \in Onboardings |-> IF o = onboarding1 THEN organisation1 ELSE organisation2]
GitHub == INSTANCE GitHubOnboarding WITH connection <- github

\* None is none of its documents.
ASSUME DocumentsAssumption == None \notin GitHub!Index /\ None \notin GitHub!Installation

\* Calls of one onboarding, for one selection of which two connections can be made.
Cloud == INSTANCE GoogleCloudOnboarding WITH
    session <- onboarded, connection <- cloud, caller <- cloudCaller,
    Onboardings <- CloudOnboardings, Connections <- Clouds, MaxRevision <- MaxAccess

\* Two versions of one playbook, one of another, for one connection.
Playbooks == {playbook1, playbook2}
Versions == {version1, version2, version3}
PlaybookOf == [v \in Versions |-> IF v = version3 THEN playbook2 ELSE playbook1]
Procedures == INSTANCE Playbooks WITH
    connection <- attached, archive <- detaching, MaxRevision <- MaxPlaybook,
    Connections <- OnlyConnection, Authorised <- OnlyConnection
Verification == INSTANCE Probes WITH version <- probed

\* The founder, and two ways of one other person to sign in.
Identities == {identity1, identity2, identity3}
Founder == identity1
Emails == {email1, email2}
EmailOf == [i \in Identities |-> IF i = identity1 THEN email1 ELSE email2]
Accounts == INSTANCE Accounts WITH MaxRevision <- MaxGrant

sessionVars == <<run, browser, vm, holders, agent, operator>>
setupVars == <<setup, connection, versions, opener, capture, changes, mishaps>>
waitingVars == <<waiting, used, waiter, coordinator, completion>>
egressVars == <<egress, stale, lapsed, procs, tokens, crashes>>
inventoryVars == <<revision, archived, bound, archive, importer>>
githubVars == <<app, appChanges, webhooks, onboarding, index, installation, repositories,
                receipt, reported, caller, github, reconciling>>
cloudVars == <<onboarded, cloud, granted, prepared, cloudCaller>>
playbookVars == <<playbook, version, attached, attach, detaching>>
probeVars == <<probe, probed, pinned>>
accountVars == <<principal, invitation, invited, request>>

\* A part that does not move has no documents.
InventoryRests ==
    /\ revision = None /\ archived = None /\ bound = None /\ archive = None
    /\ importer = None
GitHubRests ==
    /\ app = None /\ appChanges = None /\ webhooks = None /\ onboarding = None
    /\ index = None /\ installation = None /\ repositories = None /\ receipt = None
    /\ reported = None /\ caller = None /\ github = None /\ reconciling = None
CloudRests ==
    /\ onboarded = None /\ cloud = None /\ granted = None /\ prepared = None
    /\ cloudCaller = None
PlaybooksRest ==
    /\ playbook = None /\ version = None /\ attached = None /\ attach = None
    /\ detaching = None
ProbesRest == probe = None /\ probed = None /\ pinned = None
AccountsRest == principal = None /\ invitation = None /\ invited = None /\ request = None
SessionRests ==
    /\ run = None /\ browser = None /\ vm = None /\ holders = None
    /\ agent = None /\ operator = None
SetupRests ==
    /\ setup = None /\ connection = None /\ versions = None /\ opener = None
    /\ capture = None /\ changes = None /\ mishaps = None
WaitingRests ==
    /\ waiting = None /\ used = None /\ waiter = None /\ coordinator = None
    /\ completion = None
EgressRests ==
    /\ egress = None /\ stale = None /\ lapsed = None /\ procs = None
    /\ tokens = None /\ crashes = None

\* What moves, and what does not.
PartsInit ==
    /\ part \in {"generations", "inventory", "github", "cloud", "playbooks", "probes",
                 "accounts", "session", "setup", "waiting", "egress"}
    /\ Init
    /\ IF part = "inventory" THEN Inventory!Init ELSE InventoryRests
    /\ IF part = "github" THEN GitHub!Init ELSE GitHubRests
    /\ IF part = "cloud" THEN Cloud!Init ELSE CloudRests
    /\ IF part = "playbooks" THEN Procedures!Init ELSE PlaybooksRest
    /\ IF part = "probes" THEN Verification!Init ELSE ProbesRest
    /\ IF part = "accounts" THEN Accounts!Init ELSE AccountsRest
    /\ IF part = "session" THEN Session!Init ELSE SessionRests
    /\ IF part = "setup" THEN Setup!Init ELSE SetupRests
    /\ IF part = "waiting" THEN Waiting!Init ELSE WaitingRests
    /\ IF part = "egress" THEN Egress!Init ELSE EgressRests

\* The parts around the browser, and those of the organisation.
BrowserVars == <<sessionVars, setupVars, waitingVars, egressVars>>
OrganisationVars ==
    <<vars, inventoryVars, githubVars, cloudVars, playbookVars, probeVars, accountVars>>

PartsNext ==
    /\ UNCHANGED part
    /\ \/ /\ UNCHANGED BrowserVars
          /\ \/ /\ part = "generations" /\ Next
                /\ UNCHANGED <<inventoryVars, githubVars, cloudVars, playbookVars,
                               probeVars, accountVars>>
             \/ /\ part = "inventory" /\ Inventory!Next
                /\ UNCHANGED <<vars, githubVars, cloudVars, playbookVars,
                               probeVars, accountVars>>
             \/ /\ part = "github" /\ GitHub!Next
                /\ UNCHANGED <<vars, inventoryVars, cloudVars, playbookVars,
                               probeVars, accountVars>>
             \/ /\ part = "cloud" /\ Cloud!Next
                /\ UNCHANGED <<vars, inventoryVars, githubVars, playbookVars,
                               probeVars, accountVars>>
             \/ /\ part = "playbooks" /\ Procedures!Next
                /\ UNCHANGED <<vars, inventoryVars, githubVars, cloudVars,
                               probeVars, accountVars>>
             \/ /\ part = "probes" /\ Verification!Next
                /\ UNCHANGED <<vars, inventoryVars, githubVars, cloudVars,
                               playbookVars, accountVars>>
             \/ /\ part = "accounts" /\ Accounts!Next
                /\ UNCHANGED <<vars, inventoryVars, githubVars, cloudVars,
                               playbookVars, probeVars>>
       \/ /\ UNCHANGED OrganisationVars
          /\ \/ /\ part = "session" /\ Session!Next
                /\ UNCHANGED <<setupVars, waitingVars, egressVars>>
             \/ /\ part = "setup" /\ Setup!Next
                /\ UNCHANGED <<sessionVars, waitingVars, egressVars>>
             \/ /\ part = "waiting" /\ Waiting!Next
                /\ UNCHANGED <<sessionVars, setupVars, egressVars>>
             \/ /\ part = "egress" /\ Egress!Next
                /\ UNCHANGED <<sessionVars, setupVars, waitingVars>>

PartsSpec == PartsInit /\ [][PartsNext]_<<part, OrganisationVars, BrowserVars>>

\* What is alike in pairs: in one set the consumers, the executions of a browser's run,
\* the openers of a setup, the calls of an onboarding, the requests about accounts, the
\* waiting runs, the workers and the versions of one playbook; in the other what may
\* change places independently of those. No two parts move in one behaviour, so that one
\* permutation serves all of them: the members of all pairs of a set change places together.
Pairs == {Service, Executions, Openers, Callers, Requests, Runs, Workers, {version1, version2}}
OtherPairs ==
    {Captures, Completions, Clouds, Onboardings, Organisations, {identity2, identity3}}
Other(x) ==
    CHOOSE y \in UNION (Pairs \cup OtherPairs) :
        y # x /\ \E pair \in Pairs \cup OtherPairs : {x, y} = pair
Swapped(a, b) ==
    [x \in UNION (Pairs \cup OtherPairs) |->
        IF (x \in UNION Pairs /\ a) \/ (x \in UNION OtherPairs /\ b) THEN Other(x) ELSE x]
Symmetry == {Swapped(a, b) : a, b \in BOOLEAN}

-----------------------------------------------------------------------------
\* The state of the part that moves is of its declared types.
TypesOK ==
    /\ part = "generations" => TypeOK
    /\ part = "inventory" => Inventory!TypeOK
    /\ part = "github" => GitHub!TypeOK
    /\ part = "cloud" => Cloud!TypeOK
    /\ part = "playbooks" => Procedures!TypeOK
    /\ part = "probes" => Verification!TypeOK
    /\ part = "accounts" => Accounts!TypeOK
    /\ part = "session" => Session!TypeOK
    /\ part = "setup" => Setup!TypeOK
    /\ part = "waiting" => Waiting!TypeOK
    /\ part = "egress" => Egress!TypeOK

\* BrowserSession: a capture is ended only by the call that armed the barrier.
CaptureEndsByItsCaptor ==
    [][part = "session" => Session!EndedByItsCaptor]_sessionVars

\* BrowserSetup: a READY connection has a reference and a playbook.
ReadyIsUsable == part = "setup" => Setup!ReadyIsUsable

\* BrowserSetup: a completion whose session is no longer its own installs nothing.
LateCaptureInstallsNothing ==
    [][part = "setup" => Setup!InstallsNothingLate]_setupVars

\* WaitingRuns: no run drops out of the waiter document unless it was resumed.
WaiterNeverForgets ==
    [][part = "waiting" => Waiting!ForgetsNobody]_waitingVars

\* BrowserEgress: an egress that was granted stays open until its worker gives it up.
GrantedStaysOpen == part = "egress" => Egress!GrantedStaysOpen

\* Inventory: a credential has the bindings of its consumers, and of no other time.
BindingsFollowCredential == part = "inventory" => Inventory!BindingsFollowCredential

\* GitHubOnboarding: alerts are accepted for a completed onboarding of one organisation.
AcceptingIsComplete == part = "github" => GitHub!AcceptingIsComplete

\* GitHubOnboarding: a deleted installation is never accepted again.
DeletedForGood ==
    [][part = "github" => GitHub!StaysDeleted]_githubVars

\* GoogleCloudOnboarding: a connection becomes ready only as the broker validated it.
ReadyAsValidated ==
    [][part = "cloud" => Cloud!BecomesReadyAsValidated]_cloudVars

\* Playbooks and Probes: one active version, the one its playbook or probe names, no
\* attached drafts, and pinned probe versions as they were imported.
PublishedOnce ==
    [][/\ part = "playbooks" => Procedures!PublishesOnce
       /\ part = "probes" => Verification!ActivatesOnce]_<<playbookVars, probeVars>>

\* Playbooks: archiving takes a playbook only from the connections that have it.
ArchiveDetachesItsOwn ==
    [][part = "playbooks" => Procedures!DetachesItsOwn]_playbookVars

\* Accounts: an invitation lets one identity in.
OneMemberPerInvitation == part = "accounts" => Accounts!OneMemberPerInvitation
=============================================================================
