------------------------------- MODULE Playbooks -------------------------------
(***************************************************************************)
(* Browser playbooks: their versions, and the browser connections that     *)
(* they are attached to.                                                   *)
(*                                                                         *)
(* A version is added, published (which supersedes the active one) and     *)
(* attached; a playbook is renamed and archived. Attaching reads the       *)
(* version outside the transaction that changes the connection, and        *)
(* archiving detaches each connection it found in a transaction of its     *)
(* own before it replaces the playbook. The calls overlap.                 *)
(***************************************************************************)
EXTENDS Naturals, FiniteSets

CONSTANTS
    Versions, Playbooks,
    PlaybookOf,     \* version -> playbook
    Connections,    \* active browser connections of one provider
    Authorised,     \* those with an authorization reference
    Attachers, Archivers,   \* calls
    None,
    MaxRevision, MaxEdits   \* bounds: revisions of a playbook, of a connection

VARIABLES
    playbook, version,
    connection,     \* connection -> its version, status and revision
    attach, archive \* what the calls have read

vars == <<playbook, version, connection, attach, archive>>

Playbook ==
    [exists : BOOLEAN, archived : BOOLEAN, latest : 0..Cardinality(Versions),
     active : Versions \cup {None}, revision : 0..MaxRevision]
Version ==
    [state : {"absent", "draft", "published", "superseded"}, number : 0..Cardinality(Versions)]
Connection ==
    [version : Versions \cup {None}, ready : BOOLEAN, revision : 0..MaxEdits]

Unattached == [k \in Connections |-> None]
NoAttach == [version |-> None, connection |-> None, revision |-> 0]
NoArchive == [at |-> "idle", playbook |-> None, revision |-> 0, attached |-> Unattached]

Init ==
    /\ playbook = [p \in Playbooks |-> [exists |-> FALSE, archived |-> FALSE, latest |-> 0,
                                        active |-> None, revision |-> 0]]
    /\ version = [v \in Versions |-> [state |-> "absent", number |-> 0]]
    /\ connection = [k \in Connections |-> [version |-> None, ready |-> FALSE, revision |-> 0]]
    /\ attach = [x \in Attachers |-> NoAttach]
    /\ archive = [a \in Archivers |-> NoArchive]

Open(p) == playbook[p].exists /\ ~playbook[p].archived

-----------------------------------------------------------------------------
(***************************************************************************)
(* Versions                                                                *)
(***************************************************************************)

\* The first version creates the playbook.
AddVersion(v) ==
    LET p == PlaybookOf[v]
        number == playbook[p].latest + 1
        revision == IF playbook[p].exists THEN playbook[p].revision + 1 ELSE 0
    IN /\ version[v].state = "absent"
       /\ ~playbook[p].archived
       /\ revision <= MaxRevision
       /\ version' = [version EXCEPT ![v] = [state |-> "draft", number |-> number]]
       /\ playbook' = [playbook EXCEPT ![p] =
              [@ EXCEPT !.exists = TRUE, !.latest = number, !.revision = revision]]
       /\ UNCHANGED <<connection, attach, archive>>

\* Mutant of MayPublish: a superseded version can be published again.
MayPublish_superseded(v) == version[v].state \in {"draft", "superseded"}

\* A version that is published already is answered as it is.
MayPublish(v) == version[v].state = "draft"

Publish(v) ==
    LET p == PlaybookOf[v]
        previous == playbook[p].active
    IN /\ Open(p)
       /\ MayPublish(v)
       /\ playbook[p].revision < MaxRevision
       /\ version' = [w \in Versions |->
              IF w = v THEN [version[v] EXCEPT !.state = "published"]
              ELSE IF w = previous THEN [version[w] EXCEPT !.state = "superseded"]
              ELSE version[w]]
       /\ playbook' = [playbook EXCEPT ![p].active = v, ![p].revision = @ + 1]
       /\ UNCHANGED <<connection, attach, archive>>

\* rename: a replacement at the revision that was read.
Rename(p) ==
    /\ Open(p)
    /\ playbook[p].revision < MaxRevision
    /\ playbook' = [playbook EXCEPT ![p].revision = @ + 1]
    /\ UNCHANGED <<version, connection, attach, archive>>

-----------------------------------------------------------------------------
(***************************************************************************)
(* Attaching                                                               *)
(***************************************************************************)

\* The version is published when it is read; its playbook is not read.
BeginAttach(x, v, k) ==
    /\ attach[x] = NoAttach
    /\ version[v].state = "published"
    /\ attach' = [attach EXCEPT ![x] =
           [version |-> v, connection |-> k, revision |-> connection[k].revision]]
    /\ UNCHANGED <<playbook, version, connection, archive>>

Attach(x) ==
    LET k == attach[x].connection
    IN /\ k # None
       /\ connection[k].revision = attach[x].revision
       /\ connection[k].revision < MaxEdits
       /\ connection' = [connection EXCEPT ![k] =
              [version |-> attach[x].version, ready |-> k \in Authorised,
               revision |-> @.revision + 1]]
       /\ attach' = [attach EXCEPT ![x] = NoAttach]
       /\ UNCHANGED <<playbook, version, archive>>

AttachEnds(x) ==
    /\ attach[x] # NoAttach
    /\ attach' = [attach EXCEPT ![x] = NoAttach]
    /\ UNCHANGED <<playbook, version, connection, archive>>

\* update_connection and the setup of the connection change its revision.
EditConnection(k) ==
    /\ connection[k].revision < MaxEdits
    /\ connection' = [connection EXCEPT ![k].revision = @ + 1]
    /\ UNCHANGED <<playbook, version, attach, archive>>

-----------------------------------------------------------------------------
(***************************************************************************)
(* Archiving                                                               *)
(***************************************************************************)

BeginArchive(a, p) ==
    /\ archive[a].at = "idle"
    /\ Open(p)
    /\ archive' = [archive EXCEPT ![a] =
           [NoArchive EXCEPT !.at = "list", !.playbook = p, !.revision = playbook[p].revision]]
    /\ UNCHANGED <<playbook, version, connection, attach>>

AttachedTo(p) ==
    {k \in Connections : connection[k].version # None /\ PlaybookOf[connection[k].version] = p}

ListAttached(a) ==
    LET found == AttachedTo(archive[a].playbook)
    IN /\ archive[a].at = "list"
       /\ archive' = [archive EXCEPT ![a].at = "detach",
              ![a].attached = [k \in Connections |->
                  IF k \in found THEN connection[k].revision ELSE None]]
       /\ UNCHANGED <<playbook, version, connection, attach>>

\* Mutant of MayDetach: the revision is not compared.
MayDetach_any_revision(a, k) == connection[k].version # None

MayDetach(a, k) ==
    connection[k].version # None /\ connection[k].revision = archive[a].attached[k]

\* The connections of the list, one transaction each.
Detach(a, k) ==
    /\ archive[a].at = "detach"
    /\ archive[a].attached[k] # None
    /\ MayDetach(a, k)
    /\ connection[k].revision < MaxEdits
    /\ connection' = [connection EXCEPT ![k] =
           [version |-> None, ready |-> FALSE, revision |-> @.revision + 1]]
    /\ archive' = [archive EXCEPT ![a].attached[k] = None]
    /\ UNCHANGED <<playbook, version, attach>>

Archive(a) ==
    LET p == archive[a].playbook
    IN /\ archive[a].at = "detach"
       /\ archive[a].attached = Unattached
       /\ playbook[p].revision = archive[a].revision
       /\ playbook[p].revision < MaxRevision
       /\ playbook' = [playbook EXCEPT ![p].archived = TRUE, ![p].revision = @ + 1]
       /\ archive' = [archive EXCEPT ![a] = NoArchive]
       /\ UNCHANGED <<version, connection, attach>>

\* Refused (attached and not cascading, or something changed), or the process died.
ArchiveEnds(a) ==
    /\ archive[a].at # "idle"
    /\ archive' = [archive EXCEPT ![a] = NoArchive]
    /\ UNCHANGED <<playbook, version, connection, attach>>

-----------------------------------------------------------------------------
Next ==
    \/ \E v \in Versions : AddVersion(v) \/ Publish(v)
    \/ \E p \in Playbooks : Rename(p)
    \/ \E x \in Attachers :
          \/ \E v \in Versions, k \in Connections : BeginAttach(x, v, k)
          \/ Attach(x) \/ AttachEnds(x)
    \/ \E k \in Connections : EditConnection(k)
    \/ \E a \in Archivers :
          \/ \E p \in Playbooks : BeginArchive(a, p)
          \/ \E k \in Connections : Detach(a, k)
          \/ ListAttached(a) \/ Archive(a) \/ ArchiveEnds(a)

Spec == Init /\ [][Next]_vars

-----------------------------------------------------------------------------
TypeOK ==
    /\ playbook \in [Playbooks -> Playbook]
    /\ version \in [Versions -> Version]
    /\ connection \in [Connections -> Connection]
    /\ attach \in [Attachers ->
           [version : Versions \cup {None}, connection : Connections \cup {None},
            revision : 0..MaxEdits]]
    /\ archive \in [Archivers ->
           [at : {"idle", "list", "detach"}, playbook : Playbooks \cup {None},
            revision : 0..MaxRevision, attached : [Connections -> 0..MaxEdits \cup {None}]]]

PublishesOnce ==
    /\ \A p \in Playbooks :
          {v \in Versions : PlaybookOf[v] = p /\ version'[v].state = "published"}
              = {playbook'[p].active} \ {None}
    /\ \A k \in Connections :
          connection'[k].version # None =>
              version'[connection'[k].version].state \in {"published", "superseded"}
    /\ \A v \in Versions :
          version[v].state = "superseded" => version'[v].state = "superseded"

\* What runs in a browser was published once: the active version of a playbook is its
\* only published one, a connection never has a draft, and a version that was
\* superseded stays so.
PublishedOnce == [][PublishesOnce]_vars

DetachesItsOwn ==
    \A k \in Connections :
       connection[k].version # None /\ connection'[k].version = None =>
           \E a \in Archivers : PlaybookOf[connection[k].version] = archive[a].playbook

\* An archive takes the playbook from connections that have it, never the playbook
\* that another call attached in the meantime.
ArchiveDetachesItsOwn == [][DetachesItsOwn]_vars
=============================================================================
