-------------------------------- MODULE Probes --------------------------------
(***************************************************************************)
(* Verification probes. A probe's versions are drafts until one of them is *)
(* activated, which supersedes the active one. The import of a credential  *)
(* creates versions too: active from the start, each for a probe           *)
(* identifier of its own that has no document, and pinned in the controls  *)
(* of the credential. A run of the credential verifies with the pinned     *)
(* versions only.                                                          *)
(*                                                                         *)
(* Each operation is one transaction. Identifiers of probes and of         *)
(* versions are given by clients; a version's is unique in the             *)
(* organisation, not in its probe, and a client may create a probe under   *)
(* the identifier that an import has made up.                              *)
(***************************************************************************)
EXTENDS Naturals, FiniteSets

CONSTANTS Probes, Versions, None

VARIABLES
    probe,      \* probe -> its document
    version,    \* version -> its document
    pinned      \* versions that the controls of credentials name

vars == <<probe, version, pinned>>

Probe ==
    [exists : BOOLEAN, latest : 0..Cardinality(Versions), active : Versions \cup {None}]
Version ==
    [state : {"absent", "draft", "active", "superseded"}, probe : Probes \cup {None},
     number : 0..Cardinality(Versions)]

Init ==
    /\ probe = [p \in Probes |-> [exists |-> FALSE, latest |-> 0, active |-> None]]
    /\ version = [v \in Versions |-> [state |-> "absent", probe |-> None, number |-> 0]]
    /\ pinned = {}

Create(p) ==
    /\ ~probe[p].exists
    /\ probe' = [probe EXCEPT ![p].exists = TRUE]
    /\ UNCHANGED <<version, pinned>>

CreateVersion(p, v) ==
    LET number == probe[p].latest + 1
    IN /\ probe[p].exists
       /\ version[v].state = "absent"
       /\ version' = [version EXCEPT ![v] = [state |-> "draft", probe |-> p, number |-> number]]
       /\ probe' = [probe EXCEPT ![p].latest = number]
       /\ UNCHANGED pinned

MayActivate(p, v) ==
    /\ probe[p].exists
    /\ version[v].state = "draft"
    /\ version[v].probe = p

Activate(p, v) ==
    /\ MayActivate(p, v)
    /\ version' = [w \in Versions |->
           IF w = v THEN [version[v] EXCEPT !.state = "active"]
           ELSE IF w = probe[p].active THEN [version[w] EXCEPT !.state = "superseded"]
           ELSE version[w]]
    /\ probe' = [probe EXCEPT ![p].active = v]
    /\ UNCHANGED pinned

\* A version that an import compiles for a credential, with the controls that name it,
\* under a fresh identifier of a probe. The versions of one import do not depend on each
\* other; each is imported by an action of its own.
Import(p, v) ==
    /\ ~probe[p].exists
    /\ \A w \in Versions : version[w].probe # p
    /\ version[v].state = "absent"
    /\ version' = [version EXCEPT ![v] = [state |-> "active", probe |-> p, number |-> 1]]
    /\ pinned' = pinned \cup {v}
    /\ UNCHANGED probe

Next ==
    \E p \in Probes :
        \/ Create(p)
        \/ \E v \in Versions : CreateVersion(p, v) \/ Activate(p, v) \/ Import(p, v)

Spec == Init /\ [][Next]_vars

TypeOK ==
    /\ probe \in [Probes -> Probe]
    /\ version \in [Versions -> Version]
    /\ pinned \subseteq Versions


ActivatesOnce ==
    /\ \A p \in Probes :
          LET own == {v \in Versions \ pinned' : version'[v].probe = p}
          IN /\ {v \in own : version'[v].state = "active"} = {probe'[p].active} \ {None}
             /\ {version'[v].number : v \in own} = 1..probe'[p].latest
             /\ Cardinality(own) = probe'[p].latest
             /\ \A v \in own : version[v].state = "superseded" => version'[v].state = "superseded"
    /\ \A v \in pinned : v \in pinned' /\ version'[v] = version[v]
    /\ \A v \in pinned' : version'[v].state = "active"

\* The active version that a probe's document names is the only active one created for
\* it; its versions are numbered in the order of their creation without a gap, and one
\* that was superseded stays so. What runs verify with are other versions: those pinned in
\* controls stay as they were imported, and active, whatever is created and activated,
\* under the same identifier of a probe too.
ActivatedOnce == [][ActivatesOnce]_vars
=============================================================================
