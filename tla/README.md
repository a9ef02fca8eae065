# Uumi: TLA+ models and proofs

This directory is a verification project for Uumi, a service that rotates credentials
through durable, fenced *runs*. It holds TLA+ modules translated from the source, TLC
configurations that check them on small instances, and TLAPS proofs that establish the
safety properties for every value of the constants. `PROJECT.json` is its index: components,
runs, mutants, the map from definitions to source lines, findings, hazards, theorems.

Paths below are relative to `src/`.

## 1. Inventory

Uumi is a set of Cloud Run services around one Firestore database. The services keep no
state between requests; everything durable is a Firestore document that is read and written
inside a transaction, so a *step* of the system is one transaction, one external call, or
one message. Between any two of them every other service may run, and the instance may die.

| Component | State it keeps | Operations | Correct when |
| --- | --- | --- | --- |
| Rotation runs (`server/core/state`, `core/storage/firestore.py`, `core/workflow`) | run document (status, stage, lease, fence, bindings, failure, revision), credential lock, trigger dedupe, one outbox event and step per revision | create, start, renew, complete stage, pause, resume, cleanup, fail, cancel, recover, complete recovery; the reaper | one live run per credential, one run per trigger, tokens never shared, stages in order, interrupted work picked up |
| Event outbox (`core/storage/outbox.py`, `core/events`, `server/publisher`) | outbox documents with lease and attempts, delivery cursor per run | claim, publish, mark published, mark failed, dead-letter | events of a run reach the topic in order, none is lost or left behind |
| Rotation workflow (`infra/workflows/rotation.yaml`) | the variables of a Workflows execution | load, start, execute stage, complete, pause, cleanup, recover, renew, wait | an execution drives a run to an end or to a pause; duplicate executions are harmless |
| Coordinator (`server/coordinator`) | stage results (`core/storage/catalog.py`), none of its own | twelve stage handlers, recovery, browser stages, approvals | a stage is repeated safely; every gate of a stage is really asked |
| Generations (`core/generation`, `core/storage/generation.py`) | generation states, credential pointer, consumer bindings, verification reports | create, stage bindings, verify bindings, promote, revoke, orphan | one active generation; nothing is revoked that consumers still use |
| Approvals (`core/approval`, `core/storage/approval.py`) | approval documents bound to an action digest and fence | request, decide, consume, expire | a protected action has one unexpired approval of exactly that action |
| Broker (`server/broker`) | tool attempts with a lease, single-use capabilities, evidence | validate, begin, reclaim, checkpoint, finish | an external mutation is made once per request, and only by the fence's holder |
| Verifier (`server/verifier`, `core/verification`) | immutable reports | run probes, store the report | a passed report really covers every required probe |
| Incidents and ingestion (`core/incident`, `core/storage/incident.py`, `server/ingestion`) | incidents, exposure events, links to runs | ingest, correlate, confirm, start rotation, link, contain, resolve, dismiss | an exposure is correlated once; an incident's run is its run and rotates its credential; a delivered alert is taken up |
| Notifications (`core/notification`, `core/storage/notification.py`, `server/notification`) | notifications, endpoints, deliveries with leases | register, switch, emit, claim, send, settle | what is sent goes to the endpoint as it was when the notification was emitted, and every delivery ends |
| Audit (`core/audit`, `core/storage/audit*.py`, `server/auditlog`) | hash chain per organisation, audit outbox | append, claim, log, dead-letter | the log grows in the order of the chain; no stored event disappears |
| Browser worker (`server/browser`, `coordinator/browser.py`) | sessions, control (agent or operator), setups, waiting runs, shared egress | open, execute, take over, release, freeze, capture, complete, resume | a late completion installs nothing; a capture is ended by who armed it; the egress of a granted worker stays open |
| Secure capture (`server/capture`, worker) | stored versions, the barrier of a session | arm, transfer, complete | the model never sees what is captured |
| Inventory (`core/inventory`, `core/storage/inventory.py`) | versioned connections, applications, environments, services, credentials, bindings | add, edit, import, rebind, archive with dependents | the bindings of a credential in use are those of its document |
| Playbooks and probes (`core/playbook`, `core/storage/playbook.py`, `core/storage/probe.py`) | versions, publication, attachment to connections | add, publish or activate, attach, archive | a version is published once; an archive detaches only what it attached |
| Accounts and connections (`core/account`, `core/github`, `core/googlecloud`) | members, invitations, onboardings, the index of installations | invite, activate, update, authorise; discover, complete, webhook, grant | one member per invitation; nothing deleted is revived; what is ready is what was validated |
| Agents, connectors, client, infrastructure | none | model calls, provider calls, UI, Terraform | out of scope, see section 10 |

How they interact: an operator request or an exposure event *creates* a run; the transaction
writes outbox event 0; the publisher puts it on the topic; Eventarc starts an execution of
the workflow; the execution starts the run (taking its lease under a new fencing token) and
asks the coordinator to execute the stage; the coordinator calls agents, the broker (which
calls connectors), the verifier, generations and approvals, and stores a stage result; the
execution completes the stage, renews the lease and goes on. A stage that needs a person
pauses the run; the operator resumes it, which writes another event, which starts another
execution. Once a minute Cloud Scheduler calls the reaper, which interrupts runs whose lease
ran out and starts their recovery, which again writes an event.

What is hard here: several executions and operators act on one run with stale copies of it;
leases expire while a worker is still busy; the reaper acts from a scan that is minutes old;
an HTTP call can fail although it took effect; events are delivered twice; a publisher dies
between sending and recording; and all of this while time passes. `PROJECT.json` lists these
under `hazards`, each at its line.

## 2. Plan

Done, in this order:

1. `RotationRuns`, `RotationRunsProofs` - the run repository, machine and reaper.
2. `EventOutbox` - delivery of run events; behind it `Audit` and `Notifications`, which consume
   what Pub/Sub stored; `EventOutboxProofs` about all three.
3. `Broker`, `BrokerProofs` - tool attempts, leases, reconciliation, compensation, for the one
   tool that reconciles.
4. `Generations`, `GenerationsProofs` - credential, lineage, bindings, reports.
5. `StageExecution`, `StageExecutionProofs` - the coordinator's CREATE to ROLLOUT, over
   `Generations`, which it is shown to implement.
6. `Revocation`, `RevocationProofs` - its APPROVAL, REVOKE and COMPLETE, over `Approvals`.
7. `Incidents`, `IncidentsProofs` - alerts, incidents and the runs they start.
8. `BrowserSession`, `BrowserSetup`, `WaitingRuns`, `BrowserEgress` - browsers.
9. `Inventory`, `GitHubOnboarding`, `GoogleCloudOnboarding`, `Playbooks`, `Probes`, `Accounts` -
   what an organisation configures.
10. `InventoryBrowserProofs` - the modules of 8 and 9, in the composition that is checked.

Left, most valuable first:

* `RotationWorkflow` - `rotation.yaml` over `RotationRuns`: duplicate executions, retries of calls
  that took effect, the replies of idempotent replays; an abstract `RunPromise` (pending, under
  way, waiting, over) that `RotationRuns` is shown to implement.
* An abstract append-only log for `Audit`, an abstract ordered delivery for `EventOutbox`.
* Recovery and the agent stages of the coordinator, the cascade delete of the routes.

## 3. RotationRuns

State: `runs` (the documents), `locks` and `dedupe` (the two index documents `create` writes),
`outbox` (for which revisions a step and an event exist), `sweep` (what a reaper pass has read
and not yet handled).

One action per command of the run API. Each is one call of `FirestoreRunRepository.mutate`,
written as `Mutate(r, op, revision, permitted, updated)`: `Accepts` is what the transaction
checks (existence, expected revision, the lock, the machine's own conditions, and
`RotationRun.validate_terminal_state`, which the record passes through before it is written),
`Write` is everything it writes. The definitions named in lower case (`start`, `complete`,
`recover`, ...) are the methods of `RotationMachine` on a record.

A command carries a revision, a token and an owner. The model lets them be *any* value the
sender can have seen (`Revisions`, `Tokens`, all of `Workers`), because commands are delayed
and resent. Rejected commands and idempotent replays write nothing and are not steps.

Abstractions. A lease's `ttl` counts ticks to its expiry; `Tick` lowers all of them. Failures
keep only `retryable`, recovery modes only "retry" against the compensating ones, because
no decision reads more. Bindings keep which fields are set. The stage proof's content
(`packages/policy` rules) is not represented: a proof that the policy refuses is a rejected
command. The reaper reads its candidates in one step (`list_runs` is one query), handles them
in scan order, one transaction per step, from the copy it read; the first rejected command ends
the pass, and a pass that dies is a new scan replacing what was left. Two passes at once are
not modelled: the second would only be another sender of commands that `Command` already admits.

Fairness (`FairSpec`): time passes, the reaper is started (Cloud Scheduler calls it every
minute and retries, `infra/terraform/modules/events/main.tf`), and a pass that was started goes
on. Nothing is assumed of workers or operators, so `StrandedIsReaped` says the reaper alone
frees a run whose worker is gone.

## 4. The queues: EventOutbox, Audit, Notifications

### EventOutbox

State: `events` (outbox documents), `cursor` (the delivery document, as the next revision),
`written` (how many events exist), `pubs` (each publisher call's position in `drain`: the window
its query read, its claims and how far each got), `wire` (messages handed to Pub/Sub that may
still arrive), `topic` (what was stored there), `clock` (ranks of `available_at`) and `mishaps`.

Actions: `WriteEvent` (the run repository), `Begin` and `ClaimNext` (the query and the transactions
of `claim`, one document at a time), `ScanDone`, `Deliver` (the next step of one claim: send, hear
an answer or an error, then `MarkPublished`, or `MarkFailed`, which backs off or dead-letters),
`Arrive` (a message whose sender may have given up is stored all the same), lease expiry, backoff
expiry, crash. A claim whose lease expired goes on in its publisher, as the code's does.

The window of the instance holds every document; `ScanWindow` scales down
`min(max(8 * limit, 64), 500)`. That assumption is needed: dead letters keep `published_at` empty
and so stay in the window, and a failed event queues behind later events of its own run, which
are not claimable before it. With two runs and `ScanWindow` = 2, `EveryEventSettles` fails: the
documents of one run fill the window and the other run is never seen.

### Audit

State: `message` (what Pub/Sub still delivers of an event), `chain` (the hash chain of an
organisation, as the sequence of its events), `outbox` (one document per entry, with lease and
attempts), `cursor`, `drain` (what each drain holds) and `log` (Cloud Logging). An event is
appended with its outbox document in one transaction and a second delivery of it is answered;
drains claim the next entry, write it, and settle it or back off or dead-letter it. Cloud
Logging knows an entry written again by its insertId, so `log` is a set.

### Notifications

State: `endpoint` (enabled or not, at a revision), `emission` (a message and the endpoints
selected for it), `notice`, `delivery`, `drain`, `claim`, `sent`. An emission lists the endpoints
and only then creates notification and deliveries in one transaction that compares the selected
endpoints' revisions; a drain claims a batch, reads each endpoint with its claim, sends all at once
(`asyncio.gather`) and settles each on its own. `SentAsEmitted` is what makes the claim compare
revision and state of the endpoint: one switched off and on again meanwhile is not written to.

### MCEventOutbox and fairness

The three queues share nothing but the event in between, so one moves at a time ("queue" says
which), and one run checks all of them. `QueuesFairness`: Pub/Sub delivers again, each queue's
drain is called every minute (`uumi-notification-sweep` and its siblings in
`infra/terraform/modules/events/main.tf`), a call goes on until it ends or dies, backoffs and leases
run out. That a send or a write succeeds is not assumed. Mishaps are bounded, so liveness says that
finitely many crashes, stalls and lost answers leave nothing behind.

## 5. The rotation: Broker, Generations, StageExecution, Approvals, Revocation

### Broker

One tool of the broker, `provider.createCredential`: the one that reconciles, because the
provider keeps what an interrupted call created. State: `attempts` (one `ToolAttempt` per
request), `calls` (the position and local variables of each execution of `BrokerService.execute`),
`wire` (a request in flight to the provider or to Secret Manager), `keys` (what the provider and
Secret Manager hold), `answers` (what was returned for each request), `fence` (the run's token; a
request's id contains the token it was made under, so tokens stand for requests) and `overran`, a
history variable: a lease or token ended under a call at work.

Actions follow `execute` line by line: read the attempt, validate, prepare (list the provider,
then the sink), begin or reclaim, reconcile each side and clean up what it finds, list, send,
hear or not hear an answer, store the secret, compensate, checkpoint, finish. `Expire` runs a
lease out. `Mishap`s are bounded by `MaxMishaps`, credentials by `MaxKeys`, leases by `MaxLeases`.

`OneAnswer` holds however leases end. `OneWorker` and `SucceededUsable` are stated for behaviours
in which nothing `overran`: a call that lost its lease compensates the credential its successor
reports. Two calls of one request are what one reclaim needs.

### Generations

The generation repository on its own, each method one action and its arguments arbitrary: the
callers of `StageExecution` are only some of them. State: `active` (the credential's
generation), `generations`, `bindings` (each consumer's current and target generation, the
generation whose secret it is given, its report) and `reports`. `Create`, `SaveReport`,
`StageBindings`, `VerifyBindings`, `Promote`, `Revoke` and `Orphan` are the methods of
`FirestoreGenerationRepository`; their guards are the `ResourceConflictError`s. A call that
raises or finds its work done changes nothing and is no step. The instance has the imported
generation and two new ones, two consumers and three reports, enough for one promotion after
another with late calls of the first.

### StageExecution

`Coordinator.execute` for CREATE to ROLLOUT. `Store == INSTANCE Generations` supplies every
write to the repository, so the two modules share one definition of it. State beyond that:
`live` (the run that holds the credential; the lock itself is `RotationRuns`'), `runs` (stage,
revision, token and bound generations), `results` and `audit` by stage execution, `calls`.

`Begin` reads and validates, a handler action makes one transaction of the repository,
`AppendAudit` and `CreateResult` are the two writes that end an execution, and a crash or a
failing tool may come between any two. VERIFY and ROLLOUT store the report in one step and use
it in the next. A handler's conflict is a failed result, as in `execute`. `Complete`, `Resume`
and `End` move the run meanwhile: nothing stops an execution that has begun. `End` covers
failure, cancellation and recovery, none of which writes to the generation repository
(recovery acts through broker tools only). A paused result, which only browser stages give,
and all but the last milestone of ROLLOUT are left out.

`TargetHeld` is about a binding that another execution could take away: an execution of the
earlier run, or of an earlier stage under another token, suffices. `stages_promotion` (section 9)
also means that no `Promote` of the coordinator is ever enabled here; promotion itself is examined
in `Generations`.

### Approvals and Revocation

`Approvals` is the repository: an action and its approval are created together, a person decides,
`Consume` compares the evidence. `Revocation` instantiates it and models the stages APPROVAL,
REVOKE and COMPLETE: `run`, `controls` (whether approval is required, whether an API or a browser
manages the credential, whether the old generation's id at the provider is known, whether the
playbook's step counts as proof; chosen at the start), `attempts` at the broker, `reports`,
`evidence` (the latest report of the replacement), `old` (the old credential at the provider, in
the secret store, in the repository), `incident`, `results`, `calls`. REVOKE is a step at the
provider, two verifications, disabling, generation, incident; an execution dies between any two,
runs beside another or outlives its stage.

A tool takes three steps: the coordinator looks for the approval (`Check`), the broker reads
attempt, run and approval (`Authorise`), and then begins the attempt, or reclaims one whose lease
has run out, and acts (`Invoke`). Approvals, reports, fence and the other execution may move in
between. A capability without approval is not asked for one at the broker, as in the code.

In a browser the step at the provider is the playbook's: the worker keeps no attempt and compares
the fence with its session's, not with the run's. `_revoke` skips the step if the old generation
was imported without an id, and otherwise takes the output "Step completed" for the proof, which the
worker also gives when its model proposes no action at all; the controls have no probe that asks the
provider (`test_browser_bootstrap_generation_skips_provider_revocation` has the first case). So
`RevocationInOrder` claims a refusal by the provider where an API manages the credential,
and nothing of the provider where a browser does (`Withdrawn`).

Simplified: running out of a run's lease or of a capability, and a session that another execution
has taken over, are mishaps at `Authorise`. The checks that follow `advance_run` in `_revoke` may
fail (`ContainIncident`, a mishap) with the incident contained; the one about a missing secret
reference cannot, since every generation is stored with one
(`core/generation/service.py:67`, `core/storage/inventory.py:510`).

## 6. Incidents

State: `incidents`, `runs` (an alert's or operator's run, as far as incidents depend on it),
`archived` credentials, `pending` alerts, `calls` of handlers and `deletion` of a credential in
progress. An alert is stored, its incident correlated (`Match`ing credentials, thresholds and
controls differ by credential) and, when the controls allow it, rotated: re-read, create the run,
link. Operators rotate, confirm and dismiss through the same steps; the coordinator contains and
resolves; a deletion cancels runs and dismisses incidents. Reading, creating and linking are
separate transactions with crashes between.

A delivery may conflict although its alert was stored before: a repeated detection describes it
anew (`core/storage/incident.py:42`). `left` bounds the deliveries of an alert: GitHub and the
providers' webhooks send once, push subscriptions ten times and then to the dead-letter topic
(`infra/terraform/modules/events/main.tf:358-361`, `400-403`), scheduled jobs repeat five times
(`508-513`, `542-547`). An alert has one to `MaxDeliveries` of them.

Fairness: the deliveries a source has left are made, each finding a free handler in the end (strong
fairness of `Deliver`, since a busy handler disables and enables it), and a call goes on until it
ends or dies. Nothing is assumed of operators or runs, nor that a delivery succeeds. So
`AlertIsTakenUp` says that an alert is taken up, or that its source has used up its deliveries and
knows that none was acknowledged (`GivenUp`); what it excludes is an alert acknowledged and left
lying. It starts from an incident already correlated, because a crash before the correlation leaves
it NEW (section 9).

## 7. Browsers and configuration

These parts have no document in common, so `MCInventoryBrowser` puts them into one run: "part"
says which of them moves. The variables of the others are `None`, the invariants and action
properties of a part are guarded by it, and the constants are model values, of which
interchangeable pairs are swapped by `Symmetry`. A part's behaviours are those of its own
specification, and the state space is the sum of the parts', not their product.

| Module | State and correspondence | Main hazard |
| --- | --- | --- |
| `BrowserSession` | `run`, `session` (status, fence, subject, captor), `vm`, `holders` (who has read the present revision), `agent`, `operator`. The coordinator's `_session` and steps, `BrowserService`, the worker's authorise and capture, the operator's takeover | a stale copy ends a capture that another armed |
| `BrowserSetup` | `setup` session, `connection`, `versions` of the secret container, `opener`, `capture`. Open, boot, claim, list, read, store, commit, check, reconcile, with the edits, archives and flags of the connection | a completion that lost its session installs its secret |
| `WaitingRuns` | `run`, `waiter` document, `coordinator`, `completion`. Remember, pause, resume each, replace the waiter | the waiter is replaced by a copy that lacks a run recorded since |
| `BrowserEgress` | `egress` document (status, leases, token), `procs`, `lapsed` leases. Acquire, poll, build, undo, release, reconcile | a superseded builder or remover acts on the gateway of others |
| `Inventory` | `revision` and `archived` of documents, `bindings`, `archive` (what each archiver has read), `importer`. Add, edit, import, rebind, and the four or five reads and one transaction of an archive | a binding survives or is lost beside an archive |
| `GitHubOnboarding` | `app` (at GitHub), `webhooks`, `onboarding`, `index`, `installation`, `repositories`, `receipt`, `caller`; `reported`, a history variable: a webhook told of other repositories since the completion. Begin, discover, complete as chains of reads and batches, five webhooks | alerts accepted for an incomplete, changed or deleted installation |
| `GoogleCloudOnboarding` | `session`, `connection`, `granted`, `prepared`, `caller`. Discover, prepare (reuse, add, attach, compensate), authorise (grant, validate, replace, spend) | a connection ready that is not what was validated |
| `Playbooks` | `playbook`, `version`, `connection`, `attach`, `archive`. Add, publish, rename, attach from a copy, archive with cascade | drafts in use, an archive that detaches another's playbook |
| `Probes` | `probe`, `version`, `pinned` (the versions that controls name). Create, add a version, activate, import | two active versions; a pinned one that changes |
| `Accounts` | `principal`, `invitation`, `invited`, `request`. Invite, revoke, activate by verified address, update, profile, each authorised by an earlier read | two members of one invitation |

Clouds, providers, GitHub, workers and browser pages are external: their answers are choices.
Every write of a document advances its revision, so comparing revisions stands for comparing
documents. No part has a property of liveness: an operator may always stay away. Left out: the limit of
1000 bindings that an archive lists (`core/storage/inventory.py:758`), and a resume that raises and is
passed over (`browser/setup.py:849-850`).

A run does not verify with the version that a probe's document names, but with those its controls
name, active or superseded (`coordinator/service.py:1609-1623`). An import writes them: active, each
under a fresh probe identifier without document (`core/inventory/controls.py:108-123`), and no code
names any others. So `PublishedOnce` makes two statements of probes: the versions that clients create
and activate are numbered and one of them is active, and pinned versions stay as imported.

## 8. Runs, bounds and proofs

| Run | Instance | Shows |
| --- | --- | --- |
| `runs_lifecycle` | 1 run, 1 worker that is also the reaper, lease of 1 tick, `MaxRevision` 13 | a run passes all twelve stages with interruptions at each; stranded work is reaped |
| `runs_contention` | 2 runs, 1 credential, 2 triggers, 2 workers, `MaxRevision` 3 | lock, dedupe, fence and reaper under contention and stale commands |
| `outbox_delivery` | events: 2 publishers, 2 events of a run, 2 attempts, 3 mishaps, window 4; audit: 2 events, 2 drains, 2 deliveries, 2 mishaps; notices: 1 notice, 1 endpoint, 2 drains, 2 attempts, 2 changes, 2 mishaps | order and settlement of the three queues |
| `broker_attempts` | 2 calls, 2 tokens, 3 leases, 3 credentials, 2 mishaps | one outcome per request, one worker, usable results |
| `stages_overlap` | 2 executions, 2 runs, 2 consumers, 5 revisions, 2 tokens, 1 mishap | results, audit and bindings agree |
| `revocation_order` | 2 fences, 5 revisions; 2 executions and 1 mishap, or, where controls ask for approval, 1 execution at a time and 4 requests | order of revocation, approval of what is protected |
| `incidents_alerts` | 1 alert, 2 credentials, 1 operator's key, 2 handlers, 2 deliveries, 2 revisions, 1 crash | links, order of statuses, alerts taken up |
| `inventory_browser` | see below | the ten parts of section 7 and `Generations` |
| `runs_failed_recovery`, `broker_stale`, `stages_promotion`, `browser_stale` | smallest that show it | the disagreements of section 9 |

`inventory_browser`: generations as in section 5; sessions with 2 executions, 1 operator, 2 fences;
setups with 2 openers, 2 captures, 2 sessions, 1 change, 1 mishap; waiting with 2 runs, 2
completions, 2 pauses; egress with 2 workers, 1 reaper, 5 tokens, 1 crash; an inventory of one
connection, application and environment, 2 services, 2 credentials of one key (one used by both
services, one by one), 1 archiver, 1 importer, revision 2; GitHub with 2 onboardings of 2
organisations, 2 calls, 1 repository, 2 changes at GitHub; Google Cloud with 1 onboarding, 1
selection, 2 connections, 2 calls, revision 3; 3 versions of 2 playbooks, 1 connection, 1 attacher, 1
archiver; 2 probes; a founder and 2 identities of one address, 2 requests, 3 revisions of an
invitation.

Why these are enough: the properties relate at most two actors, two runs or two generations, and the
failures behind them are one stale copy against one writer, so two of each suffice; a bound on
revisions, tokens or mishaps is large enough for a call to be outlived twice. `MaxRevision` of
`RotationRuns` bounds ordinary commands only; interruptions are exempt, so no run gets stuck at it.
Runs that may really stop (every request answered, every mishap spent) switch deadlock checking off;
`RotationRuns` never stops and is checked for it. The instance of `Revocation` is two in one (`Apart` of
`MCRevocation`, an action constraint): executions overlap and die where no approval is needed, and
approvals are asked, decided and used beside one execution at a time where it is, as long as the run
is not over and its stage APPROVAL can pass at all (credentials of an API whose id is known); with both
at once it is too large, and the theorems have no such restriction. Two deliveries of an alert stand for ten: the first dies or conflicts, the second is another or the last. Not covered for that reason: three concurrent
onboardings, two archives at once with an import, or two waiters. Every property of a passing run has
a mutant of the code in `PROJECT.json` that it catches under the same configuration.

Types are checked by `TypeOK` of `RotationRuns` and `Broker` and `TypesOK` of `MCInventoryBrowser`; the type
invariant of `EventOutbox` is a theorem. The other modules state theirs as documentation of
their variables.

### Proofs

`RotationRunsProofs` proves every safety property of `RotationRuns` for all sets of runs,
credentials, triggers and workers and any lease length. The properties are not inductive one by
one. `IInv` is `TypeOK` with:

* `Sound`, a statement about one document: its status decides which of lease, failure and recovery
  fields are set, the lease's token is the run's, the bindings of earlier stages are present;
* `CredentialExclusive`: the lock and the documents agree, which needs `Sound` (only an active run
  is written by anything but cancel);
* `TriggerBound`: the dedupe document names the run of its trigger, which is what makes
  `OneRunPerTrigger` inductive;
* `OutboxGapless`.

The argument has two layers. Lemmas about the machine show that each method maps a sound record
to a sound record and how it changes stage, token and status. `NextSteps` then shows that every
step is a creation, a committed write of such a record, a tick, or a step of the reaper
alone, so each theorem treats four cases rather than eighteen actions. `ReaperSparesLiveWork`
needs a second invariant, `SweepFresh`: a copy the reaper holds is outdated (the revision moved
on, so its command will be refused) or still describes a stranded run.

`EventOutboxProofs` proves every safety property of `EventOutbox`. Its invariant adds that a
document with an owner is the next one of its run and neither settled nor waiting
(`EventsSound`), that everything before the cursor is settled and nothing after it
(`CursorSound`), and that claims, messages and scans never run ahead of what was written
(`PublishersSound`, `WireSound`). The theorems of `Audit` and `Notifications` are stated of
`QueuesSpec`, which implements the specification of each queue (`QueuesKeepApart`), with an
invariant for each:

* `AuditInv`: the events of the chain that the cursor has passed are exactly the settled ones
  (`ChainSound`), and what a drain works on is at most the next one (`WorkSound`), also when its
  lease is gone. So when a late drain writes an entry for the first time, all before it is settled
  (`LogFollowsChain`); that what is settled as logged is in the log closes the argument.
* `NoticeInv`: a delivery is written once, in the transaction that emits its notice, and nobody
  claims or sends one that was not written (`DeliverySound`). Its revision is therefore for good,
  and a stale claim is compared with the endpoint it has read (`SentToWhomEmitted`).

`BrokerProofs` proves all safety properties of `Broker` for any number of
calls, tokens, leases and credentials. `CallSound` is what `OneAnswer` needs beside types: a
call at work knows its request, and one that read a terminal attempt read its present result.
`TerminalStays` (no step changes a terminal attempt) carries it over every step.

`OneWorker` and `SucceededUsable` rest on a second invariant, `WInv`. Its first part, `KInv`, holds
always: an attempt is written only onwards (`LaterThan`), so a call that wants to reclaim it holds
an expired lease or an outdated copy. The second, `InTime`, holds while nothing `overran`: every
lease a call has is the one its attempt has, and unexpired, so that at most one call has any
(`OneLease`); the lists a call has read contain every credential reported in between, and what it
cleans up, compensates or gives up is none of those (`SparesReported`). After an `overran` none of
this holds: a call that lost its lease works beside the one that reclaimed it.

`GenerationsProofs` proves all six properties of `Generations` for all sets of generations,
consumers and reports. Their conjunction is inductive. What a promotion does to the chain rests
on exactly one generation being active; that no second one becomes active rests on the credential
naming it and on every consumer running on it. The theorems hold of any callers.

`StageExecutionProofs` proves the three properties of `stages_overlap` and that `StageExecution`
implements `Generations` (`ImplementsRepository`: each step is a step of that specification on
the documents of the repository or leaves them alone), for all sets of runs, generations and
reports. A document of a run that an execution has read is the run's own as long as the run is at
that revision, and all executions of one request have read the same (`Remembered`, `OneDocument`);
an accepted result says what its stage has left in the repository (`Done`). `NothingPromoted` says
that the imported generation stays active for ever: promote asks every binding for the report that
the ROLLOUT execution has just saved, and a binding's report is one of VERIFY. It establishes the
divergence of section 9 on every instance, and the other properties need it: a promotion would
take the target from the bindings.

`RevocationProofs` proves `RevocationInOrder` and `ApprovedAsReported` for any executions and bounds,
without the constraint of the run. How far an execution of REVOKE has come says what has been
done to the old credential (`CallSound`), also when its run has moved on or ended, because nothing
done to it is undone (`Forward`). An accepted result says the same for the run as long as the run is
at its revision (`RunSound`), and so does a succeeded attempt at the broker (`AttemptSound`). An
execution between the coordinator's look at an approval and the tool has an `Allowed` one: consumed,
which no decision or expiry takes back, and for the disabling given on a report of REVOKE, because
evidence other than the report of OBSERVE is a passed one (`EvidenceSound`), and an execution at that
step has saved one.

`IncidentsProofs` proves `LinkedRunMatches` and `StatusForward`. Every update advances the revision
of its incident, so a handler whose copy has the present revision holds the present incident
(`CallSound`), and what it writes is a transition of the present status. The alert and credential
of a run are written once.

`InventoryBrowserProofs` proves every property of `inventory_browser` that is not one of
`Generations`: for any callers, workers, onboardings of Google Cloud, probes and bounds, and for the
few documents and organisations that `MCInventoryBrowser` names. One part moves in a behaviour
(`EachPart`), so that its own Init and Next suffice for the invariant of a part, and `PartsInv` is the
conjunction of all. What each adds to its types:

| Part | Invariant |
| --- | --- |
| `Accounts` | `AccountsInv`: while an invitation is pending, fewer identities of its email have joined than invitations were sent; what a request is about exists (`RequestSound`) |
| `Inventory` | `ArchiveSound`: once an archive call has read the bindings it has all of every credential it found that is still active, and of no other, and at its transaction a copy of each |
| `BrowserSetup` | `CaptureSound`: while the session is at the revision that a completion claimed, it is the completion's own, and while the connection is at the revision it read, it has a playbook |
| `WaitingRuns` | `CompletionSound`: a completion's copy of the waiter has every run of it as long as the waiter is at that revision, and what it resumed was accepted |
| `BrowserEgress` | `OperationSound`: operations have tokens of their own, the document is in the state of the operation whose token it has, and nobody removes but with that token; `LeaseSound`: who asked for the gateway has a lease until it lapses |
| `BrowserSession` | whoever is past arming and still holds the present copy is the captor, since each write takes the copy from all others |
| `GoogleCloudOnboarding` | `AccessSound`: the target of a validated connection was granted, and revisions that a call read never exceed the present ones |
| `GitHubOnboarding` | `GitOnboardingSound`: the onboarding that staged holds the index for ever, so completions that overlap are all of that one, store the same repositories and delete nothing of them; `GitIndexSound`: a ready index has a confirmed installation; `GitReportSound`: nothing was reported since its completion |
| `Playbooks` | `DetachSound`: what an archive call listed is attached as long as the connection is at that revision; what is attached or is being attached was published |
| `Probes` | the created versions of a probe have the numbers up to its latest, and their active one is the one it names; imported ones are active and pinned |

Assumptions are those of the modules: identifiers of absent things are not members of the sets
they are absent from, bounds are natural numbers, and in `MCInventoryBrowser` (`PartsAssumption`,
`DocumentsAssumption`) kinds of callers that share a set of holders are different from each other, and
so are the credentials from what they depend on. Nothing else is assumed. Theorems whose property
appears in no run (`RecoveryBound`, `StageByStage`, `OverStaysOver`, `CursorBehindSettled`,
`SettledForGood`, `ResultForGood`, `SecretFollows`, `RetiredForGood` and others) are proved only.

Every safety property that a passing run checks is a theorem. Only model-checked is liveness
(`StrandedIsReaped`, `EveryEventSettles`, `StoredIsAudited`, `EveryDeliverySettles`,
`AlertIsTakenUp`), since fairness and ENABLED are out of the prover's reach.

## 9. Where code and documentation disagree, and other observations

Findings, each the shortest behaviour of its run:

* `stages_promotion` (`RefusedOnlyUnverified`): `_rollout` asks `promote` with the id of the report
  of its last milestone, while the bindings carry the id that VERIFY marked them with
  (`coordinator/service.py:954-961`, `core/storage/generation.py:121`). Promotion is refused
  with "consumer binding has not verified the target" although every consumer has.
* `runs_failed_recovery` (`FailedRunCanRecover`): the repository deletes the credential lock of a
  failed run and requires it of every command but cancel, so a failed run cannot recover, although
  the machine admits it and a unit test does it.
* `broker_stale` (`StaleCannotCommit`): `checkpoint` and `finish` do not compare the lease, so a
  call that was reclaimed commits, against "Stale workers cannot commit" (`infra/README.md:269`).
* `browser_stale` (`StaleWorkersRejected`): the browser worker compares a capability's token with
  its session's and never with the run's, so a superseded execution keeps acting until another one
  rebinds the session (`browser/workerapp.py:1160`), against "fencing tokens reject stale workers"
  (`README.md:101`).

Observations the models reach or that reading the code for them turned up, without a text that would
make them a finding:

* Rotation. A token is part of a request's id (`coordinator/service.py:1330`), so after a recovery the
  step is a request the broker has never seen: what the earlier one created stays at the provider.
  `validate_request` requires a RUNNING run (`broker/validate.py:95`), so a recovery's tool is rejected.
  Nothing clears a binding's target when a run ends after STORE, so STORE of a later run conflicts
  (`core/storage/generation.py:230`). An audit record has one id per execution, so a repetition that
  ends differently meets its own record and raises each time.
* Revocation. `require_revoke_approval` also protects disabling the secret version
  (`core/inventory/controls.py:289`), and `_revoke` saves a new report before that step: the action
  then differs from the approved one and REVOKE fails after the provider has revoked. REVOKE repeated at
  the same revision fails on the saved report. An approval asked in REVOKE names the fence that the
  resume replaces. Where a browser manages the credential,
  the secret version is disabled although nothing asked the provider whether it refuses the old
  credential (`coordinator/service.py:1103`, `core/inventory/controls.py:162-190`): `README.md:103`,
  "Revocation is proved before the old Secret Manager version is disabled", is then only as good as the
  worker's word. With `require_revoke_approval` a browser's REVOKE step fails in APPROVAL, because
  steps of a playbook name no connection (`coordinator/service.py:1035-1040`). An API's credential
  without an id at the provider cannot be revoked (`2289-2300`). A playbook that revokes by a
  deterministic step never gives the output that counts as proof (`coordinator/browser.py:52-69`,
  `coordinator/service.py:1103-1113`), so REVOKE fails after the control was used. And an execution that
  dies between disabling and `generations.revoke` leaves a REVOKE that cannot pass: its rejection report
  asks for an enabled version.
* Incidents. `stable_payload` excludes only the time of reception, so a repeated detection conflicts and
  ends the rest of the loop (`core/storage/incident.py:42`). A crash before the correlation leaves an
  incident NEW and a redelivery is acknowledged; a link after the run ended leaves it ROTATING; the
  cascade delete lists incidents that dismiss refuses (`api/routes/inventory.py:49`).
* Inventory. An import may bind a service archived meanwhile; adding does not check archived
  parents; the reads of an archive precede its transaction; a changed connection of a service
  leaves its bindings.
* Onboarding. A suspension between discover and complete can write an index no reader parses again,
  by `model_copy`; an abandoned onboarding's index claim blocks its installation; a repeated
  preparation of Google Cloud can be given a connection that the failed one archives, and
  authorisation then makes an archived connection ready (`core/googlecloud/service.py:280`); after a
  crash before `authorize_session` nothing clears the sealed token. A webhook that reports other
  repositories between the discovery and the completion is acknowledged and forgotten: it finds no
  installation to mark, and the completion writes what the session found
  (`core/github/storage.py:326-353`, `194-208`). `AcceptingIsComplete` claims reports since then only.
* Probes. No code pins a version that was created through the probe service, so activating one changes
  nothing that runs verify with.
* Browsers. `terminate` reads through a check that refuses an expired session, so after its lifetime a
  session can neither be ended nor replaced; an agent's capture may end in TAKEOVER because the
  subject of the operator is kept; a failed or refused capture leaves its version enabled or the
  value unmasked; names of machines and leases are deterministic, so a late delete can meet a new
  session. The DELETING state of the egress is never taken over, and a builder that lost its turn
  recreates resources.
* Setups and waiting runs. Setups of a connection share a secret container, and reconciling may
  disable another's version; one resume command id per run serves it once only; a stale entry
  resumes a run that an operator paused.
* Playbooks and accounts. Attaching may install a superseded version or mark an archived connection
  READY; an archive can leave a connection attached that was attached meanwhile. Two administrators
  can disable each other. `save_invitation` overwrites an accepted invitation by a pending one, so
  two invitations of an address admit two identities.
* Audit and notifications. Dead letters stay in the claim's window; an abandoned delivery is reclaimed
  without limit; one conflict ends a drain while its other sends go on, and "failed" does not mean
  "not delivered".

## 10. Not modelled

* Agents (`server/agents`): prompts and model calls; what they decide is a nondeterministic
  choice where it matters. Detection, planning and recovery stages are agent work.
* Connectors other than the HTTP provider and Secret Manager, whose list, create, add and revoke
  calls `Broker` models: wrappers of provider APIs, nondeterministic in their callers.
* HTTP shapes, listings and the cascade delete of a connection in the API routes, the client,
  Terraform; the sequence of calls inside `rotation.yaml` (any stage may be executed at any time,
  which includes it).
* Adapters that turn provider messages into events, formats of notifications, verification of a
  stored audit chain, telemetry, redaction, configuration: no state a property could be about, or
  pure functions of one document.
* What happens inside a page, and the transfer of a captured value, which is one step.
