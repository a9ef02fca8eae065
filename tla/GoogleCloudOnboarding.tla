------------------------- MODULE GoogleCloudOnboarding -------------------------
(***************************************************************************)
(* Connecting Google Cloud: an administrator's onboarding discovers the    *)
(* projects with a short-lived token, prepares a connection for one of     *)
(* them (or takes one that still waits for access), and authorises it:     *)
(* the token grants access at Google Cloud, the broker validates it, the   *)
(* connection becomes ready and the token is given up.                     *)
(*                                                                         *)
(* Every call is a chain of reads and transactions, and may be repeated    *)
(* while an earlier one goes on; administrators edit and archive the       *)
(* connection meanwhile. A call that cannot attach the connection it made  *)
(* archives it again, even one that another call attached.                 *)
(***************************************************************************)
EXTENDS Naturals

CONSTANTS
    Onboardings,
    Selections,        \* a project and the automation identity chosen in it
    Connections,    \* identifiers of the connections that are made
    Callers, None,
    MaxRevision     \* bound: revisions of a connection

VARIABLES
    session,      \* onboarding -> its document
    connection,   \* connection -> its document
    granted,      \* selections with access at Google Cloud
    prepared,     \* onboarding -> the revision the client was last answered
    caller        \* call -> what it has read

vars == <<session, connection, granted, prepared, caller>>

-----------------------------------------------------------------------------
Session ==
    [status : {"absent", "pending", "complete"}, connection : Connections \cup {None},
     token : BOOLEAN, authorised : BOOLEAN]
Connection ==
    [target : Selections \cup {None}, status : {"absent", "setup-required", "ready", "disabled"},
     archived : BOOLEAN, revision : 0..MaxRevision]
Call ==
    [at : {"idle", "discover", "choose", "add", "attach", "archive",
           "connection", "grant", "validate", "replace", "spend"},
     onboarding : Onboardings \cup {None}, session : Session \cup {None},
     target : Selections \cup {None}, connection : Connections \cup {None}, made : BOOLEAN,
     revision : 0..MaxRevision, validated : 0..MaxRevision \cup {None}]

NoCall ==
    [at |-> "idle", onboarding |-> None, session |-> None, target |-> None,
     connection |-> None, made |-> FALSE, revision |-> 0, validated |-> None]

Init ==
    /\ session = [o \in Onboardings |-> [status |-> "absent", connection |-> None,
                                         token |-> FALSE, authorised |-> FALSE]]
    /\ connection = [k \in Connections |-> [target |-> None, status |-> "absent",
                                            archived |-> FALSE, revision |-> 0]]
    /\ granted = {}
    /\ prepared = [o \in Onboardings |-> None]
    /\ caller = [c \in Callers |-> NoCall]

\* The call's copy of its session, and the session now.
Copy(c) == caller[c].session
Current(c) == session[caller[c].onboarding]

Goto(c, at) == [caller EXCEPT ![c].at = at]
Ended(c) == [caller EXCEPT ![c] = NoCall]
Answered(o, k) == [prepared EXCEPT ![o] = connection[k].revision]

\* A call reads its session; after 15 minutes none passes.
ReadSession(c, o, t, at, status) ==
    /\ caller[c].at = "idle"
    /\ session[o].status = status
    /\ caller' = [caller EXCEPT ![c] =
           [NoCall EXCEPT !.at = at, !.onboarding = o, !.session = session[o], !.target = t]]

-----------------------------------------------------------------------------
(***************************************************************************)
(* begin, complete                                                         *)
(***************************************************************************)

Begin(o) ==
    /\ session[o].status = "absent"
    /\ session' = [session EXCEPT ![o].status = "pending"]
    /\ UNCHANGED <<connection, granted, prepared, caller>>

Discover(c, o) ==
    /\ ReadSession(c, o, None, "discover", "pending")
    /\ UNCHANGED <<session, connection, granted, prepared>>

Complete(c) ==
    /\ caller[c].at = "discover"
    /\ Current(c) = Copy(c)
    /\ session' = [session EXCEPT ![caller[c].onboarding] =
           [@ EXCEPT !.status = "complete", !.token = TRUE]]
    /\ caller' = Ended(c)
    /\ UNCHANGED <<connection, granted, prepared>>

-----------------------------------------------------------------------------
(***************************************************************************)
(* prepare_connection                                                      *)
(***************************************************************************)

Prepare(c, o, t) ==
    /\ ReadSession(c, o, t, "choose", "complete")
    /\ session[o].connection = None
    /\ UNCHANGED <<session, connection, granted, prepared>>

\* The connection of the session, archived or not, if it is of the selection.
PreparedAlready(o, t) ==
    LET k == session[o].connection
    IN /\ k # None
       /\ connection[k].target = t
       /\ prepared' = Answered(o, k)
       /\ UNCHANGED <<session, connection, granted, caller>>

Reusable(c, k) ==
    /\ connection[k].target = caller[c].target
    /\ connection[k].status = "setup-required"
    /\ ~connection[k].archived

Reuse(c, k) ==
    /\ caller[c].at = "choose"
    /\ Reusable(c, k)
    /\ caller' = [caller EXCEPT ![c] = [@ EXCEPT !.at = "attach", !.connection = k,
                                                !.revision = connection[k].revision]]
    /\ UNCHANGED <<session, connection, granted, prepared>>

\* Another call may add one before this one does.
SeesNone(c) ==
    /\ caller[c].at = "choose"
    /\ \A k \in Connections : ~Reusable(c, k)
    /\ caller' = Goto(c, "add")
    /\ UNCHANGED <<session, connection, granted, prepared>>

Add(c, k) ==
    /\ caller[c].at = "add"
    /\ connection[k].status = "absent"
    /\ connection' = [connection EXCEPT ![k] =
           [@ EXCEPT !.target = caller[c].target, !.status = "setup-required"]]
    /\ caller' = [caller EXCEPT ![c] = [@ EXCEPT !.at = "attach", !.connection = k, !.made = TRUE]]
    /\ UNCHANGED <<session, granted, prepared>>

MayAttach(c) == Current(c) = Copy(c) /\ Current(c).connection = None

\* The answer may be lost; the call then takes it for a failure.
Attach(c) ==
    LET o == caller[c].onboarding
        k == caller[c].connection
    IN /\ caller[c].at = "attach"
       /\ MayAttach(c)
       /\ session' = [session EXCEPT ![o].connection = k]
       /\ \/ /\ prepared' = [prepared EXCEPT ![o] = caller[c].revision]
             /\ caller' = Ended(c)
          \/ /\ caller[c].made
             /\ caller' = Goto(c, "archive")
             /\ UNCHANGED prepared
       /\ UNCHANGED <<connection, granted>>

AttachFails(c) ==
    /\ caller[c].at = "attach"
    /\ caller[c].made
    /\ caller' = Goto(c, "archive")
    /\ UNCHANGED <<session, connection, granted, prepared>>

\* Its status stays what it was.
ArchiveMade(c) ==
    LET k == caller[c].connection
    IN /\ caller[c].at = "archive"
       /\ connection[k].revision = caller[c].revision
       /\ connection[k].revision < MaxRevision
       /\ connection' = [connection EXCEPT ![k].archived = TRUE, ![k].revision = @ + 1]
       /\ caller' = Ended(c)
       /\ UNCHANGED <<session, granted, prepared>>

-----------------------------------------------------------------------------
(***************************************************************************)
(* authorize_connection                                                    *)
(***************************************************************************)

Authorize(c, o) ==
    /\ ReadSession(c, o, None, "connection", "complete")
    /\ session[o].connection # None
    /\ UNCHANGED <<session, connection, granted, prepared>>

\* A connection that is ready already only gives up the token.
ReadConnection(c) ==
    LET k == Copy(c).connection
        next == IF connection[k].status = "ready" THEN "spend" ELSE "grant"
    IN /\ caller[c].at = "connection"
       /\ \/ connection[k].status = "ready" /\ Copy(c).token
          \/ /\ connection[k].status = "setup-required"
             /\ connection[k].revision = prepared[caller[c].onboarding]
       /\ caller' = [caller EXCEPT ![c] = [@ EXCEPT !.at = next, !.connection = k,
                                                   !.revision = connection[k].revision]]
       /\ UNCHANGED <<session, connection, granted, prepared>>

\* With the token of the copy, whose selection is that of the connection.
Grant(c) ==
    /\ caller[c].at = "grant"
    /\ Copy(c).token
    /\ granted' = granted \cup {connection[caller[c].connection].target}
    /\ caller' = Goto(c, "validate")
    /\ UNCHANGED <<session, connection, prepared>>

\* The broker reads the connection itself.
Validate(c) ==
    LET k == connection[caller[c].connection]
    IN /\ caller[c].at = "validate"
       /\ k.status = "setup-required"
       /\ k.target \in granted
       /\ caller' = [caller EXCEPT ![c] = [@ EXCEPT !.at = "replace", !.validated = k.revision]]
       /\ UNCHANGED <<session, connection, granted, prepared>>

\* Mutant of Unchanged: the revision is not compared.
Unchanged_ignored(c) == TRUE

Unchanged(c) == connection[caller[c].connection].revision = caller[c].revision

BecomeReady(c) ==
    LET k == caller[c].connection
    IN /\ caller[c].at = "replace"
       /\ Unchanged(c)
       /\ connection[k].revision < MaxRevision
       /\ connection' = [connection EXCEPT ![k].status = "ready", ![k].revision = @ + 1]
       /\ caller' = Goto(c, "spend")
       /\ UNCHANGED <<session, granted, prepared>>

\* A session that was authorised in the meantime is answered as it is.
Spend(c) ==
    /\ caller[c].at = "spend"
    /\ \/ /\ Current(c) = Copy(c)
          /\ session' = [session EXCEPT ![caller[c].onboarding] =
                 [@ EXCEPT !.token = FALSE, !.authorised = TRUE]]
       \/ /\ Current(c) # Copy(c)
          /\ Current(c).authorised
          /\ UNCHANGED session
    /\ caller' = Ended(c)
    /\ UNCHANGED <<connection, granted, prepared>>

-----------------------------------------------------------------------------
\* Refused, an outcome of Google Cloud or of the broker, or the process died.
CallEnds(c) ==
    /\ caller[c].at # "idle"
    /\ caller' = Ended(c)
    /\ UNCHANGED <<session, connection, granted, prepared>>

\* update_connection.
Edit(k) ==
    /\ connection[k].status # "absent" /\ ~connection[k].archived
    /\ connection[k].revision < MaxRevision
    /\ connection' = [connection EXCEPT ![k].revision = @ + 1]
    /\ UNCHANGED <<session, granted, prepared, caller>>

\* archive_connection; nothing depends on the connection yet.
ArchiveConnection(k) ==
    /\ connection[k].status # "absent" /\ ~connection[k].archived
    /\ connection[k].revision < MaxRevision
    /\ connection' = [connection EXCEPT ![k].status = "disabled",
           ![k].archived = TRUE, ![k].revision = @ + 1]
    /\ UNCHANGED <<session, granted, prepared, caller>>

Next ==
    \/ \E o \in Onboardings : Begin(o) \/ \E t \in Selections : PreparedAlready(o, t)
    \/ \E c \in Callers :
          \/ \E o \in Onboardings :
                Discover(c, o) \/ Authorize(c, o) \/ \E t \in Selections : Prepare(c, o, t)
          \/ \E k \in Connections : Reuse(c, k) \/ Add(c, k)
          \/ SeesNone(c) \/ Complete(c) \/ Attach(c) \/ AttachFails(c) \/ ArchiveMade(c)
          \/ ReadConnection(c) \/ Grant(c) \/ Validate(c) \/ BecomeReady(c) \/ Spend(c)
          \/ CallEnds(c)
    \/ \E k \in Connections : Edit(k) \/ ArchiveConnection(k)

Spec == Init /\ [][Next]_vars

-----------------------------------------------------------------------------
TypeOK ==
    /\ session \in [Onboardings -> Session]
    /\ connection \in [Connections -> Connection]
    /\ granted \subseteq Selections
    /\ prepared \in [Onboardings -> 0..MaxRevision \cup {None}]
    /\ caller \in [Callers -> Call]

BecomesReadyAsValidated ==
    \A k \in Connections :
       connection[k].status # "ready" /\ connection'[k].status = "ready" =>
           \E c \in Callers :
               /\ caller[c].connection = k
               /\ caller[c].validated = connection[k].revision
               /\ connection[k].target \in granted

\* A connection becomes ready only as the broker validated it, with access that was
\* granted before: what was edited, archived or prepared again since is not ready.
ReadyAsValidated == [][BecomesReadyAsValidated]_vars
=============================================================================
