------------------------------- MODULE Inventory -------------------------------
(***************************************************************************)
(* What an organisation manages: connections, applications with their      *)
(* environments and services, and credentials bound to services.           *)
(*                                                                         *)
(* Archiving one resource archives what depends on it and deletes the      *)
(* bindings of every credential that goes. The service collects these in   *)
(* four or five reads, each of another moment, and hands them to one       *)
(* transaction, which compares the revision of each document and the       *)
(* content of each binding. Imports, edits, rotations and other archives   *)
(* go on between the reads.                                                *)
(*                                                                         *)
(* An edit compares the revision it read in the transaction that writes,   *)
(* so that it is one step. Who uses what is constant; of the connections   *)
(* only those that are READY take part.                                    *)
(***************************************************************************)
EXTENDS Naturals, FiniteSets

CONSTANTS
    Connections, Applications, Environments, Services, Credentials,
    ApplicationOf,   \* environment -> application
    EnvironmentOf,   \* service -> environment
    RuntimeOf,       \* service -> its runtime connection
    ConnectionsOf,   \* service -> its runtime and telemetry connections
    ManagedBy,       \* credential -> its provider and secret-store connections
    Consumers,       \* credential -> services it is bound to
    KeyOf,           \* credential -> the provider's key it stands for
    Archivers, Importers,   \* calls
    None,
    MaxRevision      \* bound: revisions of a document

VARIABLES
    revision,     \* document -> revision, 0 while it does not exist
    archived,     \* documents with archived_at
    bindings,     \* credential -> service -> revision of the binding, 0 if there is none
    archive,      \* archive call -> what it has read
    importer      \* import call -> the credential whose checks it passed

vars == <<revision, archived, bindings, archive, importer>>

-----------------------------------------------------------------------------
Documents == Connections \cup Applications \cup Environments \cup Services \cup Credentials
Exists(d) == revision[d] > 0
Active(d) == Exists(d) /\ d \notin archived
Bound(c) == {s \in Services : bindings[c][s] > 0}

Create(new) == revision' = [d \in Documents |-> IF d \in new THEN 1 ELSE revision[d]]
Advance(changed) ==
    /\ \A d \in changed : revision[d] < MaxRevision
    /\ revision' = [d \in Documents |-> IF d \in changed THEN revision[d] + 1 ELSE revision[d]]

\* copies: the revisions of the primary and of the environments and services that
\* go with it; credentials: the ids found so far; related: those read again at last.
Archive ==
    [at : {"idle", "first", "second", "bindings", "credentials", "transaction"},
     primary : Documents \cup {None},
     copies : [Documents -> 0..MaxRevision],
     credentials : SUBSET Credentials,
     bindings : [Credentials -> [Services -> 0..MaxRevision]]]

Nothing == [d \in Documents |-> 0]
Unbound == [c \in Credentials |-> [s \in Services |-> 0]]
NoArchive == [at |-> "idle", primary |-> None, copies |-> Nothing,
              credentials |-> {}, bindings |-> Unbound]

Init ==
    /\ revision = Nothing
    /\ archived = {}
    /\ bindings = Unbound
    /\ archive = [x \in Archivers |-> NoArchive]
    /\ importer = [i \in Importers |-> None]

-----------------------------------------------------------------------------
(***************************************************************************)
(* Adding and editing                                                      *)
(***************************************************************************)

\* The parents must exist; whether they are archived is not asked.
MayAdd(d) ==
    /\ ~Exists(d)
    /\ \/ d \in Connections \cup Applications
       \/ d \in Environments /\ Exists(ApplicationOf[d])
       \/ /\ d \in Services
          /\ \A p \in {EnvironmentOf[d]} \cup ConnectionsOf[d] : Exists(p)

Add(d) ==
    /\ MayAdd(d)
    /\ Create({d})
    /\ UNCHANGED <<archived, bindings, archive, importer>>

\* The application of a service with its environment.
SetupOf(s) == {s, EnvironmentOf[s], ApplicationOf[EnvironmentOf[s]]}

AddApplicationSetup(s) ==
    /\ \A d \in SetupOf(s) : ~Exists(d)
    /\ \A k \in ConnectionsOf[s] : Exists(k)
    /\ Create(SetupOf(s))
    /\ UNCHANGED <<archived, bindings, archive, importer>>

\* update_*, update_controls and replace_connection.
Edit(d) ==
    /\ Active(d)
    /\ Advance({d})
    /\ UNCHANGED <<archived, bindings, archive, importer>>

-----------------------------------------------------------------------------
(***************************************************************************)
(* Importing a credential                                                  *)
(***************************************************************************)

\* The checks that no transaction repeats: no active credential has the key, and
\* the connections that read the consumers' metrics are not archived.
CheckImport(i, c) ==
    /\ importer[i] = None
    /\ \A k \in ManagedBy[c] : Active(k)
    /\ \A s \in Consumers[c] : \A k \in ConnectionsOf[s] : Active(k)
    /\ \A other \in Credentials : Active(other) => KeyOf[other] # KeyOf[c]
    /\ importer' = [importer EXCEPT ![i] = c]
    /\ UNCHANGED <<revision, archived, bindings, archive>>

\* One transaction; a discovered service is created in it. An archived service
\* will do.
Import(i) ==
    LET c == importer[i]
        missing == {s \in Consumers[c] : ~Exists(s)}
        new == UNION {SetupOf(s) : s \in missing}
    IN /\ c # None
       /\ ~Exists(c)
       /\ \A k \in ManagedBy[c] \cup {RuntimeOf[s] : s \in Consumers[c]} : Active(k)
       /\ Cardinality(missing) <= 1 /\ \A d \in new : ~Exists(d)
       /\ Create(new \cup {c})
       /\ bindings' = [bindings EXCEPT ![c] =
              [s \in Services |-> IF s \in Consumers[c] THEN 1 ELSE 0]]
       /\ importer' = [importer EXCEPT ![i] = None]
       /\ UNCHANGED <<archived, archive>>

ImportRefused(i) ==
    /\ importer[i] # None
    /\ importer' = [importer EXCEPT ![i] = None]
    /\ UNCHANGED <<revision, archived, bindings, archive>>

-----------------------------------------------------------------------------
(***************************************************************************)
(* A rotation (module Generations) changes the bindings of its credential, *)
(* and the credential itself at its promotion, archived or not.            *)
(***************************************************************************)

Rebind(c) ==
    [bindings EXCEPT ![c] = [s \in Services |-> IF bindings[c][s] > 0 THEN bindings[c][s] + 1 ELSE 0]]

ChangeBindings(c) ==
    /\ Bound(c) = Consumers[c]
    /\ \A s \in Bound(c) : bindings[c][s] < MaxRevision
    /\ bindings' = Rebind(c)
    /\ \/ UNCHANGED revision
       \/ Advance({c})
    /\ UNCHANGED <<archived, archive, importer>>

-----------------------------------------------------------------------------
(***************************************************************************)
(* Archiving                                                               *)
(***************************************************************************)

\* The lists that are read before _archive_inventory, by the kind of the primary.
FirstStep(p) ==
    IF p \in Connections THEN Credentials
    ELSE IF p \in Applications THEN Environments
    ELSE IF p \in Environments THEN Services
    ELSE {}
Second(p) == IF p \in Connections \cup Applications THEN Services ELSE {}

DependsOn(d, p) ==
    \/ d \in Credentials /\ p \in ManagedBy[d]
    \/ d \in Environments /\ p = ApplicationOf[d]
    \/ d \in Services /\ p \in ConnectionsOf[d] \cup SetupOf(d)

Dependents(p, list) == {d \in list : Active(d) /\ DependsOn(d, p)}

Copied(x, found) ==
    [d \in Documents |-> IF d \in found \ Credentials THEN revision[d] ELSE archive[x].copies[d]]

\* The primary, unarchived.
BeginArchive(x, p) ==
    /\ archive[x].at = "idle"
    /\ Active(p)
    /\ archive' = [archive EXCEPT ![x] =
           [NoArchive EXCEPT !.at = "first", !.primary = p,
                             !.copies = [Nothing EXCEPT ![p] = revision[p]],
                             !.credentials = {p} \cap Credentials]]
    /\ UNCHANGED <<revision, archived, bindings, importer>>

ListFirst(x) ==
    LET p == archive[x].primary
        found == Dependents(p, FirstStep(p))
    IN /\ archive[x].at = "first"
       /\ archive' = [archive EXCEPT
              ![x].at = "second", ![x].copies = Copied(x, found),
              ![x].credentials = @ \cup (found \cap Credentials)
                    \cup {c \in Credentials : p \in Bound(c)}]
       /\ UNCHANGED <<revision, archived, bindings, importer>>

\* For a service: its credentials that are still active.
ListSecond(x) ==
    LET p == archive[x].primary
    IN /\ archive[x].at = "second"
       /\ archive' = [archive EXCEPT
              ![x].at = "bindings", ![x].copies = Copied(x, Dependents(p, Second(p))),
              ![x].credentials = IF p \in Services THEN {c \in @ : Active(c)} ELSE @]
       /\ UNCHANGED <<revision, archived, bindings, importer>>

Removed(x) == {s \in Services : archive[x].copies[s] > 0} \ {archive[x].primary}

\* Mutant of ListBindings: only the bindings of the services that go are removed.
ListBindings_of_services(x) ==
    LET lost == {c \in Credentials : Bound(c) \cap Removed(x) # {}}
    IN /\ archive[x].at = "bindings"
       /\ archive' = [archive EXCEPT
              ![x].at = "credentials",
              ![x].bindings = [c \in Credentials |-> [s \in Services |->
                  IF s \in Removed(x) THEN bindings[c][s] ELSE 0]],
              ![x].credentials = @ \cup lost]
       /\ UNCHANGED <<revision, archived, bindings, importer>>

\* All bindings: a credential that loses one consumer goes with all of its bindings.
ListBindings(x) ==
    LET lost == {c \in Credentials : Bound(c) \cap Removed(x) # {}}
        gone == archive[x].credentials \cup lost
    IN /\ archive[x].at = "bindings"
       /\ archive' = [archive EXCEPT
              ![x].at = "credentials",
              ![x].bindings = [c \in Credentials |-> IF c \in gone THEN bindings[c] ELSE Unbound[c]],
              ![x].credentials = gone]
       /\ UNCHANGED <<revision, archived, bindings, importer>>

\* The credentials that are active by now, whatever was listed before.
ListCredentials(x) ==
    /\ archive[x].at = "credentials"
    /\ archive' = [archive EXCEPT
           ![x].at = "transaction",
           ![x].copies = [d \in Documents |->
               IF d \in archive[x].credentials /\ Active(d) THEN revision[d] ELSE @[d]]]
    /\ UNCHANGED <<revision, archived, bindings, importer>>

Targets(x) == {d \in Documents : archive[x].copies[d] > 0}

\* The comparisons of archive_inventory.
Unchanged(x) ==
    /\ \A d \in Targets(x) : Active(d) /\ revision[d] = archive[x].copies[d]
    /\ \A c \in Credentials, s \in Services :
          archive[x].bindings[c][s] > 0 => bindings[c][s] = archive[x].bindings[c][s]

ArchiveInventory(x) ==
    /\ archive[x].at = "transaction"
    /\ Unchanged(x)
    /\ Advance(Targets(x))
    /\ archived' = archived \cup Targets(x)
    /\ bindings' = [c \in Credentials |-> [s \in Services |->
           IF archive[x].bindings[c][s] > 0 THEN 0 ELSE bindings[c][s]]]
    /\ archive' = [archive EXCEPT ![x] = NoArchive]
    /\ UNCHANGED importer

\* Refused for its dependents or by the transaction, or the process died.
ArchiveEnds(x) ==
    /\ archive[x].at # "idle"
    /\ archive' = [archive EXCEPT ![x] = NoArchive]
    /\ UNCHANGED <<revision, archived, bindings, importer>>

-----------------------------------------------------------------------------
Next ==
    \/ \E d \in Documents : Add(d) \/ Edit(d)
    \/ \E s \in Services : AddApplicationSetup(s)
    \/ \E i \in Importers :
          Import(i) \/ ImportRefused(i) \/ \E c \in Credentials : CheckImport(i, c)
    \/ \E c \in Credentials : ChangeBindings(c)
    \/ \E x \in Archivers :
          \/ \E p \in Documents : BeginArchive(x, p)
          \/ ListFirst(x) \/ ListSecond(x) \/ ListBindings(x) \/ ListCredentials(x)
          \/ ArchiveInventory(x) \/ ArchiveEnds(x)

Spec == Init /\ [][Next]_vars

-----------------------------------------------------------------------------
TypeOK ==
    /\ revision \in [Documents -> 0..MaxRevision]
    /\ archived \subseteq {d \in Documents : Exists(d)}
    /\ bindings \in [Credentials -> [Services -> 0..MaxRevision]]
    /\ archive \in [Archivers -> Archive]
    /\ importer \in [Importers -> Credentials \cup {None}]

\* A credential is bound to all its consumers while it is active and to none once
\* it is archived, whatever was imported, rotated or archived while the lists of
\* an archive call were read.
BindingsFollowCredential ==
    \A c \in Credentials : Bound(c) = IF Active(c) THEN Consumers[c] ELSE {}
=============================================================================
