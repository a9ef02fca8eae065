------------------------------- MODULE Accounts -------------------------------
(***************************************************************************)
(* The members of an organisation: invitations by email address, grants of *)
(* the identities that sign in, and the administrators that change them.   *)
(*                                                                         *)
(* A request is authorised by one read of the caller's grant and acts in a *)
(* later transaction; inviting also lists the team between the two. An     *)
(* identity becomes a member the first time its grant is read while an     *)
(* invitation for its verified address is pending. Two identities can have *)
(* one address (two ways to sign in).                                      *)
(***************************************************************************)
EXTENDS Naturals, FiniteSets

CONSTANTS
    Identities, Founder,   \* the identity that creates the organisation
    Emails, EmailOf,       \* identity -> verified address
    Requests,              \* calls
    None,
    MaxRevision, MaxInvitations   \* bounds: revisions of a grant, of an invitation

VARIABLES
    principal,    \* identity -> its grant
    invitation,   \* address -> its invitation
    invited,      \* address -> invitations saved so far
    request       \* call -> what it will do

vars == <<principal, invitation, invited, request>>

\* Operators and viewers do not write the team.
Roles == {"administrator", "other"}
Principal == [role : Roles \cup {"none"}, enabled : BOOLEAN, revision : 0..MaxRevision]
Invitation ==
    [role : Roles \cup {"none"}, accepted : BOOLEAN, revoked : BOOLEAN, expired : BOOLEAN,
     revision : 0..MaxInvitations]
Request ==
    [at : {"idle", "team", "save", "update", "revoke", "profile"},
     by : Identities \cup {None}, email : Emails \cup {None}, member : Identities \cup {None},
     role : Roles \cup {"none"}, enabled : BOOLEAN, revision : Nat]

Stranger == [role |-> "none", enabled |-> FALSE, revision |-> 0]
NoInvitation == [role |-> "none", accepted |-> FALSE, revoked |-> FALSE, expired |-> FALSE,
                 revision |-> 0]
NoRequest == [at |-> "idle", by |-> None, email |-> None, member |-> None,
              role |-> "none", enabled |-> FALSE, revision |-> 0]

Member(i) == principal[i].role # "none"
Sent(e) == invitation[e].role # "none"
Pending(e) ==
    Sent(e) /\ ~invitation[e].accepted /\ ~invitation[e].revoked /\ ~invitation[e].expired

\* TEAM_WRITE.
MayWriteTeam(i) == principal[i].enabled /\ principal[i].role = "administrator"

\* create_organisation.
Init ==
    /\ principal = [i \in Identities |->
           IF i = Founder THEN [role |-> "administrator", enabled |-> TRUE, revision |-> 0]
           ELSE Stranger]
    /\ invitation = [e \in Emails |-> NoInvitation]
    /\ invited = [e \in Emails |-> 0]
    /\ request = [q \in Requests |-> NoRequest]

-----------------------------------------------------------------------------
(***************************************************************************)
(* Signing in                                                              *)
(***************************************************************************)

\* Mutant of Accepted: the invitation stays as it was.
Accepted_not(i) == i

Accepted(i) == [i EXCEPT !.accepted = TRUE, !.revision = @ + 1]

MayActivate(i) == ~Member(i) /\ Pending(EmailOf[i])

\* get, by session() and by every authorised request of the identity.
Activate(i) ==
    LET e == EmailOf[i]
    IN /\ MayActivate(i)
       /\ invitation[e].revision < MaxInvitations
       /\ principal' = [principal EXCEPT ![i] =
              [role |-> invitation[e].role, enabled |-> TRUE, revision |-> 0]]
       /\ invitation' = [invitation EXCEPT ![e] = Accepted(@)]
       /\ UNCHANGED <<invited, request>>

\* Seven days.
Expire(e) ==
    /\ Pending(e)
    /\ invitation' = [invitation EXCEPT ![e].expired = TRUE]
    /\ UNCHANGED <<principal, invited, request>>

-----------------------------------------------------------------------------
(***************************************************************************)
(* Requests: authorised by one read, carried out by another                *)
(***************************************************************************)

Authorise(q, new) ==
    /\ request[q].at = "idle"
    /\ request' = [request EXCEPT ![q] = new]
    /\ UNCHANGED <<principal, invitation, invited>>

Done(q) == request' = [request EXCEPT ![q] = NoRequest]

\* Refused, or the process died.
RequestEnds(q) ==
    /\ request[q].at # "idle"
    /\ Done(q)
    /\ UNCHANGED <<principal, invitation, invited>>

BeginInvite(q, i, e, r) ==
    /\ MayWriteTeam(i)
    /\ e # EmailOf[i]
    /\ Authorise(q, [NoRequest EXCEPT !.at = "team", !.by = i, !.email = e, !.role = r])

\* Neither a member, disabled or not, nor somebody who is invited has the address.
ListTeam(q) ==
    LET e == request[q].email
    IN /\ request[q].at = "team"
       /\ \A i \in Identities : Member(i) => EmailOf[i] # e
       /\ ~Pending(e)
       /\ request' = [request EXCEPT ![q].at = "save"]
       /\ UNCHANGED <<principal, invitation, invited>>

\* An invitation that was accepted in the meantime is replaced by a new one.
SaveInvitation(q) ==
    LET e == request[q].email
        revision == IF Sent(e) THEN invitation[e].revision + 1 ELSE 0
    IN /\ request[q].at = "save"
       /\ ~Pending(e)
       /\ revision <= MaxInvitations
       /\ invitation' = [invitation EXCEPT ![e] =
              [NoInvitation EXCEPT !.role = request[q].role, !.revision = revision]]
       /\ invited' = [invited EXCEPT ![e] = @ + 1]
       /\ Done(q)
       /\ UNCHANGED principal

BeginRevoke(q, i, e) ==
    /\ MayWriteTeam(i)
    /\ Sent(e)
    /\ Authorise(q, [NoRequest EXCEPT !.at = "revoke", !.by = i, !.email = e,
                                      !.revision = invitation[e].revision])

RevokeInvitation(q) ==
    LET e == request[q].email
    IN /\ request[q].at = "revoke"
       /\ invitation[e].revision = request[q].revision
       /\ ~invitation[e].accepted
       /\ invitation[e].revision < MaxInvitations
       /\ invitation' = [invitation EXCEPT ![e].revoked = TRUE, ![e].revision = @ + 1]
       /\ Done(q)
       /\ UNCHANGED <<principal, invited>>

\* Nobody changes their own access.
BeginUpdate(q, i, m, r, enabled) ==
    /\ MayWriteTeam(i)
    /\ m # i
    /\ Member(m)
    /\ Authorise(q, [NoRequest EXCEPT !.at = "update", !.by = i, !.member = m, !.role = r,
                                      !.enabled = enabled, !.revision = principal[m].revision])

UpdateMember(q) ==
    LET m == request[q].member
    IN /\ request[q].at = "update"
       /\ principal[m].revision = request[q].revision
       /\ principal[m].revision < MaxRevision
       /\ principal' = [principal EXCEPT ![m] =
              [role |-> request[q].role, enabled |-> request[q].enabled,
               revision |-> @.revision + 1]]
       /\ Done(q)
       /\ UNCHANGED <<invitation, invited>>

BeginProfile(q, i) ==
    /\ principal[i].enabled
    /\ Authorise(q, [NoRequest EXCEPT !.at = "profile", !.by = i,
                                      !.revision = principal[i].revision])

\* update_profile and sync_identity change the name, the address or the sign-in method.
UpdateProfile(q) ==
    LET i == request[q].by
    IN /\ request[q].at = "profile"
       /\ principal[i].revision = request[q].revision
       /\ principal[i].revision < MaxRevision
       /\ principal' = [principal EXCEPT ![i].revision = @ + 1]
       /\ Done(q)
       /\ UNCHANGED <<invitation, invited>>

-----------------------------------------------------------------------------
Next ==
    \/ \E i \in Identities : Activate(i)
    \/ \E e \in Emails : Expire(e)
    \/ \E q \in Requests :
          \/ \E i \in Identities, e \in Emails :
                BeginRevoke(q, i, e) \/ \E r \in Roles : BeginInvite(q, i, e, r)
          \/ \E i, m \in Identities, r \in Roles, enabled \in BOOLEAN :
                BeginUpdate(q, i, m, r, enabled)
          \/ \E i \in Identities : BeginProfile(q, i)
          \/ ListTeam(q) \/ SaveInvitation(q) \/ RevokeInvitation(q)
          \/ UpdateMember(q) \/ UpdateProfile(q) \/ RequestEnds(q)

Spec == Init /\ [][Next]_vars

-----------------------------------------------------------------------------
TypeOK ==
    /\ principal \in [Identities -> Principal]
    /\ invitation \in [Emails -> Invitation]
    /\ invited \in [Emails -> Nat]
    /\ request \in [Requests -> Request]

\* An invitation lets one identity in: no more identities of an address became
\* members than invitations were sent to it.
OneMemberPerInvitation ==
    \A e \in Emails :
        Cardinality({i \in Identities \ {Founder} : Member(i) /\ EmailOf[i] = e}) <= invited[e]
=============================================================================
