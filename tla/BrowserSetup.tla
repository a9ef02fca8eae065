------------------------------ MODULE BrowserSetup ------------------------------
(***************************************************************************)
(* The secure browser session in which an operator signs in at a provider, *)
(* and the connection it makes ready: BrowserSetupService and the changes  *)
(* of the connection that other parts make meanwhile.                      *)
(*                                                                         *)
(* A connection has one session document. Opening one boots a worker;      *)
(* completing one claims the session, lets the worker store the captured   *)
(* cookies as a new secret version, and writes session and connection in   *)
(* one transaction. A completion runs for a minute between its claim and   *)
(* its transaction, while the session may expire, be aborted, be reaped    *)
(* and be replaced, and the connection be edited. One that fails disables  *)
(* the version it made, which it may have to guess from the list of the    *)
(* container's versions.                                                   *)
(*                                                                         *)
(* Every write of a document advances its revision, so that the comparison *)
(* of whole documents is one of revisions. Workers are external: a boot, a *)
(* probe and a capture may succeed or not.                                 *)
(***************************************************************************)
EXTENDS Naturals, FiniteSets

CONSTANTS
    Openers,       \* calls of begin
    Captures,      \* calls of complete
    None,
    MaxSessions,   \* bound: sessions opened
    MaxChanges,    \* bound: changes of the connection by others
    MaxMishaps     \* bound: crashes and lost or failing calls

VARIABLES
    session,      \* the setup document of the connection
    connection,   \* the connection document
    versions,     \* session -> the secret version its worker stored
    opener,       \* begin -> [at, revision]
    capture,      \* complete -> its position and what it read
    changes,      \* bounded by MaxChanges
    mishaps       \* bounded by MaxMishaps

vars == <<session, connection, versions, opener, capture, changes, mishaps>>

-----------------------------------------------------------------------------
\* Sessions are numbered; the number stands for the token of its begin.
Session == 1..MaxSessions

Active == {"provisioning", "ready", "capturing"}
Age == {"fresh", "stalled", "expired"}
SetupSession ==
    [status : Active \cup {"absent", "complete", "terminated"}, number : 0..MaxSessions,
     worker : BOOLEAN, age : Age, revision : Nat]

\* A reference names the session that captured it.
Connection ==
    [status : {"setup_required", "ready", "reauthentication", "disabled"},
     reference : Session \cup {None}, playbook : BOOLEAN, archived : BOOLEAN,
     revision : Nat]

Capture ==
    [at : {"idle", "claimed", "listed", "storing", "committing", "checking",
           "reconciling", "ending", "marking"},
     number : 0..MaxSessions, revision : Nat, connection : Nat,
     before : SUBSET Session, known : BOOLEAN, reauthenticate : BOOLEAN]
NoCapture == [at |-> "idle", number |-> 0, revision |-> 0, connection |-> 0,
              before |-> {}, known |-> FALSE, reauthenticate |-> FALSE]
NoOpener == [at |-> "idle", revision |-> 0]

At(c, position) == capture[c].at = position
Goto(c, position) == capture' = [capture EXCEPT ![c].at = position]
Mishap == mishaps < MaxMishaps /\ mishaps' = mishaps + 1

\* catalog.replace
Moved(status) ==
    session' = [session EXCEPT !.status = status, !.revision = @ + 1]
Terminated == Moved("terminated")

Init ==
    /\ session = [status |-> "absent", number |-> 0, worker |-> FALSE,
                  age |-> "fresh", revision |-> 0]
    /\ connection = [status |-> "setup_required", reference |-> None, playbook |-> TRUE,
                     archived |-> FALSE, revision |-> 0]
    /\ versions = [n \in Session |-> "none"]
    /\ opener = [o \in Openers |-> NoOpener]
    /\ capture = [c \in Captures |-> NoCapture]
    /\ changes = 0 /\ mishaps = 0

-----------------------------------------------------------------------------
(***************************************************************************)
(* begin                                                                   *)
(***************************************************************************)

\* The checks of the connection, before the session is written.
Open(o) ==
    /\ opener[o].at = "idle"
    /\ connection.playbook
    /\ opener' = [opener EXCEPT ![o].at = "checked"]
    /\ UNCHANGED <<session, connection, versions, capture, changes, mishaps>>

\* An unexpired session may be replaced only if its worker is known and gone.
Occupied == session.status \in Active /\ session.age # "expired"

\* _replace_or_create
Replace(o) ==
    /\ opener[o].at = "checked"
    /\ session.number < MaxSessions
    /\ Occupied => session.worker
    /\ session' = [status |-> "provisioning", number |-> session.number + 1,
                   worker |-> FALSE, age |-> "fresh", revision |-> session.revision + 1]
    /\ opener' = [opener EXCEPT ![o] = [at |-> "booting", revision |-> session.revision + 1]]
    /\ UNCHANGED <<connection, versions, capture, changes, mishaps>>

\* "a setup session is already active for this connection"
OpenRefused(o) ==
    /\ opener[o].at = "checked" /\ Occupied
    /\ opener' = [opener EXCEPT ![o] = NoOpener]
    /\ UNCHANGED <<session, connection, versions, capture, changes, mishaps>>

\* The worker runs; its address is written unless the session has changed.
Boot(o) ==
    /\ opener[o].at = "booting"
    /\ session' = IF session.revision = opener[o].revision
                  THEN [session EXCEPT !.worker = TRUE, !.revision = @ + 1]
                  ELSE session
    /\ opener' = [opener EXCEPT ![o] = NoOpener]
    /\ UNCHANGED <<connection, versions, capture, changes, mishaps>>

\* _terminate_failed_begin
BootFails(o) ==
    /\ opener[o].at = "booting"
    /\ Mishap
    /\ IF session.revision = opener[o].revision THEN Terminated ELSE UNCHANGED session
    /\ opener' = [opener EXCEPT ![o] = NoOpener]
    /\ UNCHANGED <<connection, versions, capture, changes>>

-----------------------------------------------------------------------------
(***************************************************************************)
(* get, reap_expired and abort                                             *)
(***************************************************************************)

\* get finds that the worker answers.
MarkReady ==
    /\ session.status = "provisioning" /\ session.worker /\ session.age = "fresh"
    /\ Moved("ready")
    /\ UNCHANGED <<connection, versions, opener, capture, changes, mishaps>>

\* _must_terminate: expired, or too long without a worker that answers.
MustTerminate ==
    /\ session.status \in Active
    /\ \/ session.age = "expired"
       \/ session.status = "provisioning" /\ session.age = "stalled"

\* _terminate, by get or by the scheduled reap_expired.
Terminate ==
    /\ MustTerminate
    /\ Terminated
    /\ UNCHANGED <<connection, versions, opener, capture, changes, mishaps>>

Abort ==
    /\ session.status \in Active
    /\ Terminated
    /\ UNCHANGED <<connection, versions, opener, capture, changes, mishaps>>

\* Time: _PROVISIONING_TIMEOUT, then expires_at.
GrowOld ==
    /\ session.status \in Active /\ session.age # "expired"
    /\ session' = [session EXCEPT !.age = IF @ = "fresh" THEN "stalled" ELSE "expired"]
    /\ UNCHANGED <<connection, versions, opener, capture, changes, mishaps>>

-----------------------------------------------------------------------------
(***************************************************************************)
(* complete                                                                *)
(***************************************************************************)

\* The claim, which only the READY session's own token obtains.
Claim(c) ==
    /\ At(c, "idle")
    /\ session.status = "ready" /\ session.age # "expired"
    /\ Moved("capturing")
    /\ capture' = [capture EXCEPT ![c] =
           [NoCapture EXCEPT !.at = "claimed", !.number = session.number,
                             !.revision = session.revision + 1]]
    /\ UNCHANGED <<connection, versions, opener, changes, mishaps>>

\* The versions of the container, to tell the new one by.
List(c) ==
    /\ At(c, "claimed")
    /\ capture' = [capture EXCEPT ![c].at = "listed",
                                  ![c].before = {n \in Session : versions[n] # "none"}]
    /\ UNCHANGED <<session, connection, versions, opener, changes, mishaps>>

\* Without that list nothing is reconciled.
ListFails(c) ==
    /\ At(c, "claimed")
    /\ Mishap
    /\ Goto(c, "ending")
    /\ UNCHANGED <<session, connection, versions, opener, changes>>

\* The connection and the validation route of its playbook.
Read(c) ==
    /\ At(c, "listed")
    /\ capture' = [capture EXCEPT ![c].at = IF connection.playbook THEN "storing" ELSE "reconciling",
                                  ![c].connection = connection.revision]
    /\ UNCHANGED <<session, connection, versions, opener, changes, mishaps>>

\* _store, answered with the reference of the new version.
Store(c) ==
    /\ At(c, "storing")
    /\ versions' = [versions EXCEPT ![capture[c].number] = "enabled"]
    /\ capture' = [capture EXCEPT ![c].at = "committing", ![c].known = TRUE]
    /\ UNCHANGED <<session, connection, opener, changes, mishaps>>

\* _store without a usable answer: the version may be there all the same.
StoreUnanswered(c) ==
    /\ At(c, "storing")
    /\ Mishap
    /\ \E state \in {"none", "enabled"} :
          versions' = [versions EXCEPT ![capture[c].number] = state]
    /\ Goto(c, "reconciling")
    /\ UNCHANGED <<session, connection, opener, changes>>

\* authentication-required: the captured session does not outlive the login page.
StoreRefused(c) ==
    /\ At(c, "storing")
    /\ capture' = [capture EXCEPT ![c].at = "reconciling", ![c].reauthenticate = TRUE]
    /\ UNCHANGED <<session, connection, versions, opener, changes, mishaps>>

\* Mutant of Unmoved: the transaction compares the connection alone.
Unmoved_connection(c) == connection.revision = capture[c].connection

\* Mutant of Unmoved: the transaction compares the setup session alone.
Unmoved_session(c) == session.revision = capture[c].revision

\* complete_setup compares both documents with what was read.
Unmoved(c) ==
    /\ session.revision = capture[c].revision
    /\ connection.revision = capture[c].connection

\* The session and the connection that complete_setup writes.
Completed(c) ==
    [session EXCEPT !.status = "complete", !.number = capture[c].number,
                    !.revision = capture[c].revision + 1]
Authorised(c) ==
    [connection EXCEPT !.status = "ready", !.reference = capture[c].number,
                       !.revision = capture[c].connection + 1]

\* complete_setup; resuming the runs that wait is the subject of WaitingRuns.
Commit(c) ==
    /\ At(c, "committing")
    /\ Unmoved(c)
    /\ session' = Completed(c)
    /\ connection' = Authorised(c)
    /\ \/ /\ capture' = [capture EXCEPT ![c] = NoCapture]
          /\ UNCHANGED mishaps
       \/ Mishap /\ Goto(c, "checking")     \* the answer is lost
    /\ UNCHANGED <<versions, opener, changes>>

CommitRefused(c) ==
    /\ At(c, "committing")
    /\ ~Unmoved(c)
    /\ Goto(c, "checking")
    /\ UNCHANGED <<session, connection, versions, opener, changes, mishaps>>

CommitFails(c) ==
    /\ At(c, "committing")
    /\ Mishap
    /\ Goto(c, "checking")
    /\ UNCHANGED <<session, connection, versions, opener, changes>>

\* _committed_setup
IsCommitted(c) ==
    /\ session.status = "complete" /\ session.revision = capture[c].revision + 1
    /\ connection.revision = capture[c].connection + 1
    /\ connection.reference = capture[c].number

\* Documents that cannot be read count as not written.
Check(c) ==
    /\ At(c, "checking")
    /\ \/ /\ IsCommitted(c)
          /\ capture' = [capture EXCEPT ![c] = NoCapture]
          /\ UNCHANGED mishaps
       \/ /\ IF IsCommitted(c) THEN Mishap ELSE UNCHANGED mishaps
          /\ Goto(c, "reconciling")
    /\ UNCHANGED <<session, connection, versions, opener, changes>>

\* _reconcile_store: the version the worker named, or the only new one there is.
Discarded(c) ==
    LET fresh == {n \in Session : versions[n] = "enabled"} \ capture[c].before
    IN IF capture[c].known THEN {capture[c].number}
       ELSE IF Cardinality(fresh) = 1 THEN fresh ELSE {}

Reconcile(c) ==
    /\ At(c, "reconciling")
    /\ \/ /\ versions' = [n \in Session |->
                             IF n \in Discarded(c) THEN "disabled" ELSE versions[n]]
          /\ UNCHANGED mishaps
       \/ Mishap /\ UNCHANGED versions      \* "requires manual disablement"
    /\ Goto(c, "ending")
    /\ UNCHANGED <<session, connection, opener, changes>>

\* _terminate_failed
End(c) ==
    /\ At(c, "ending")
    /\ IF session.revision = capture[c].revision THEN Terminated ELSE UNCHANGED session
    /\ capture' = [capture EXCEPT ![c] = IF @.reauthenticate THEN [@ EXCEPT !.at = "marking"]
                                                             ELSE NoCapture]
    /\ UNCHANGED <<connection, versions, opener, changes, mishaps>>

\* _mark_reauthentication takes the connection's reference away.
Mark(c) ==
    /\ At(c, "marking")
    /\ connection' = [connection EXCEPT !.status = "reauthentication", !.reference = None,
                                        !.revision = @ + 1]
    /\ capture' = [capture EXCEPT ![c] = NoCapture]
    /\ UNCHANGED <<session, versions, opener, changes, mishaps>>

Crash ==
    /\ Mishap
    /\ \/ \E o \in Openers :
             /\ opener[o].at # "idle"
             /\ opener' = [opener EXCEPT ![o] = NoOpener]
             /\ UNCHANGED capture
       \/ \E c \in Captures :
             /\ ~At(c, "idle")
             /\ capture' = [capture EXCEPT ![c] = NoCapture]
             /\ UNCHANGED opener
    /\ UNCHANGED <<session, connection, versions, changes>>

-----------------------------------------------------------------------------
(***************************************************************************)
(* What else changes the connection.                                       *)
(***************************************************************************)

Changed(update) ==
    /\ changes < MaxChanges /\ changes' = changes + 1
    /\ connection' = update
    /\ UNCHANGED <<session, versions, opener, capture, mishaps>>

Next_revision == connection.revision + 1

\* update_connection and _validate_connection leave the status as it is.
UpdateConnection ==
    /\ ~connection.archived
    /\ Changed([connection EXCEPT !.revision = Next_revision])

\* attach_playbook: what is authorised is ready at once, archived or not.
AttachPlaybook ==
    Changed([connection EXCEPT !.playbook = TRUE, !.revision = Next_revision,
                !.status = IF connection.reference # None THEN "ready" ELSE "setup_required"])

\* detach_playbook, for each connection of a playbook that is archived.
DetachPlaybook ==
    /\ connection.playbook /\ ~connection.archived
    /\ Changed([connection EXCEPT !.playbook = FALSE, !.status = "setup_required",
                                  !.revision = Next_revision])

\* _flag_reauthentication, by a run whose browser landed on the login page.
FlagReauthentication ==
    /\ connection.status # "reauthentication"
    /\ Changed([connection EXCEPT !.status = "reauthentication", !.revision = Next_revision])

ArchiveConnection ==
    /\ ~connection.archived
    /\ Changed([connection EXCEPT !.archived = TRUE, !.status = "disabled",
                                  !.revision = Next_revision])

-----------------------------------------------------------------------------
Next ==
    \/ \E o \in Openers :
          Open(o) \/ Replace(o) \/ OpenRefused(o) \/ Boot(o) \/ BootFails(o)
    \/ MarkReady \/ Terminate \/ Abort \/ GrowOld \/ Crash
    \/ \E c \in Captures :
          \/ Claim(c) \/ List(c) \/ ListFails(c) \/ Read(c)
          \/ Store(c) \/ StoreUnanswered(c) \/ StoreRefused(c)
          \/ Commit(c) \/ CommitRefused(c) \/ CommitFails(c) \/ Check(c)
          \/ Reconcile(c) \/ End(c) \/ Mark(c)
    \/ UpdateConnection \/ AttachPlaybook \/ DetachPlaybook
    \/ FlagReauthentication \/ ArchiveConnection

Spec == Init /\ [][Next]_vars

-----------------------------------------------------------------------------
TypeOK ==
    /\ session \in SetupSession
    /\ connection \in Connection
    /\ versions \in [Session -> {"none", "enabled", "disabled"}]
    /\ opener \in [Openers -> [at : {"idle", "checked", "booting"}, revision : Nat]]
    /\ capture \in [Captures -> Capture]
    /\ changes \in 0..MaxChanges /\ mishaps \in 0..MaxMishaps

\* A connection that says READY can be used: it has the reference of a captured
\* session and a playbook, whatever was attached, archived, flagged or captured
\* at the same time.
ReadyIsUsable ==
    connection.status = "ready" => connection.reference # None /\ connection.playbook

InstallsNothingLate ==
    connection'.reference \notin {connection.reference, None} =>
       /\ session.status = "capturing" /\ session'.status = "complete"
       /\ connection'.reference = session.number

\* A completion whose session was aborted, expired and reaped, or replaced by a new
\* one while its worker captured installs nothing: the connection takes a reference
\* only from the session document's own capture, and in the step that completes it.
LateCaptureInstallsNothing == [][InstallsNothingLate]_vars
=============================================================================
