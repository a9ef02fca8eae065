----------------------- MODULE InventoryBrowserProofs -----------------------
(***************************************************************************)
(* Proofs about the parts around the inventory and the browser, for every  *)
(* set of callers and every bound, and for the documents the composition   *)
(* names. One part moves in a behaviour: an invariant of PartsSpec is that *)
(* of the part that moves, so each section proves its part's invariant     *)
(* from the part's own Init and Next.                                      *)
(***************************************************************************)
EXTENDS MCInventoryBrowser, GenerationsProofs, FiniteSetTheorems, TLAPS

-----------------------------------------------------------------------------
\* A step is one of the part that moves, and leaves alone which one that is.
LEMMA EachPart ==
    ASSUME [PartsNext]_<<part, OrganisationVars, BrowserVars>>
    PROVE  /\ part' = part
           /\ part = "generations" => [Next]_vars
           /\ part = "inventory" => [Inventory!Next]_inventoryVars
           /\ part = "github" => [GitHub!Next]_githubVars
           /\ part = "cloud" => [Cloud!Next]_cloudVars
           /\ part = "playbooks" => [Procedures!Next]_playbookVars
           /\ part = "probes" => [Verification!Next]_probeVars
           /\ part = "accounts" => [Accounts!Next]_accountVars
           /\ part = "session" => [Session!Next]_sessionVars
           /\ part = "setup" => [Setup!Next]_setupVars
           /\ part = "waiting" => [Waiting!Next]_waitingVars
           /\ part = "egress" => [Egress!Next]_egressVars
  <1>1. CASE PartsNext
    <2>1. CASE UNCHANGED BrowserVars
      BY <1>1, <2>1, Zenon DEF PartsNext, BrowserVars, OrganisationVars
    <2>2. CASE UNCHANGED OrganisationVars
      BY <1>1, <2>2, Zenon DEF PartsNext, BrowserVars, OrganisationVars
    <2> QED BY <1>1, <2>1, <2>2 DEF PartsNext
  <1>2. CASE UNCHANGED <<part, OrganisationVars, BrowserVars>>
    BY <1>2 DEF OrganisationVars, BrowserVars
  <1> QED BY <1>1, <1>2

LEMMA Bounds ==
    /\ MaxFence \in Nat /\ MaxSessions \in Nat /\ MaxChanges \in Nat /\ MaxMishaps \in Nat
    /\ MaxPauses \in Nat /\ MaxTokens \in Nat /\ MaxCrashes \in Nat /\ MaxRevision \in Nat
    /\ MaxAppChanges \in Nat /\ MaxAccess \in Nat /\ MaxPlaybook \in Nat /\ MaxEdits \in Nat
    /\ MaxGrant \in Nat /\ MaxInvitations \in Nat
    /\ MaxFence >= 1 /\ MaxRevision >= 1
  BY PartsAssumption

-----------------------------------------------------------------------------
(***************************************************************************)
(* Accounts                                                                *)
(***************************************************************************)

LEMMA OneMore ==
    ASSUME NEW S, NEW T, NEW x, IsFiniteSet(S), T = S \cup {x} \/ T = S
    PROVE  Cardinality(T) \in Nat /\ Cardinality(T) <= Cardinality(S) + 1
  <1>1. Cardinality(S) \in Nat
    BY FS_CardinalityType
  <1>2. CASE T = S
    BY <1>1, <1>2
  <1>3. CASE T = S \cup {x}
    <2>1. Cardinality(S \cup {x}) = IF x \in S THEN Cardinality(S) ELSE Cardinality(S) + 1
      BY FS_AddElement
    <2> QED BY <1>1, <1>3, <2>1
  <1> QED BY <1>2, <1>3

Joined(e) == {i \in Identities \ {Founder} : Accounts!Member(i) /\ EmailOf[i] = e}

\* What a request is about: somebody to be invited, or a member, who stays one.
RequestSound(r) ==
    /\ r.at = "update" => r.member \in Identities /\ Accounts!Member(r.member) /\ r.role # "none"
    /\ r.at \in {"team", "save", "revoke"} => r.email \in Emails

\* An invitation that may still be accepted has let nobody in.
AccountsInv ==
    /\ Accounts!TypeOK
    /\ \A q \in Requests : RequestSound(request[q])
    /\ \A e \in Emails : Cardinality(Joined(e)) <= invited[e]
    /\ \A e \in Emails : Accounts!Pending(e) => Cardinality(Joined(e)) < invited[e]

\* Accounts counts with its own instance of FiniteSets.
LEMMA OneCardinality ==
    ASSUME NEW S
    PROVE  Accounts!Cardinality(S) = Cardinality(S)
  BY DEF Accounts!Cardinality, Cardinality

LEMMA JoinedFinite ==
    ASSUME NEW e
    PROVE  IsFiniteSet(Joined(e)) /\ Cardinality(Joined(e)) \in Nat
  <1>1. IsFiniteSet(Identities)
    <2>1. Identities = ({identity1} \cup {identity2}) \cup {identity3}
      BY DEF Identities
    <2> QED BY <2>1, FS_Singleton, FS_Union
  <1>2. Joined(e) \in SUBSET Identities
    BY DEF Joined
  <1> QED BY <1>1, <1>2, FS_Subset, FS_CardinalityType

\* Nobody new: neither members nor invitations are more.
LEMMA NobodyJoins ==
    ASSUME AccountsInv, 
           \A i \in Identities : Accounts!Member(i)' => Accounts!Member(i),
           \A e \in Emails : invited'[e] = invited[e],
           \A e \in Emails : Accounts!Pending(e)' => Accounts!Pending(e)
    PROVE  /\ \A e \in Emails : Cardinality(Joined(e)') <= invited'[e]
           /\ \A e \in Emails : Accounts!Pending(e)' => Cardinality(Joined(e)') < invited'[e]
  <1> SUFFICES ASSUME NEW e \in Emails
               PROVE  /\ Cardinality(Joined(e)') <= invited'[e]
                      /\ Accounts!Pending(e)' => Cardinality(Joined(e)') < invited'[e]
    OBVIOUS
  <1>1. Joined(e)' \subseteq Joined(e)
    BY DEF Joined
  <1>2. IsFiniteSet(Joined(e)) /\ Cardinality(Joined(e)) \in Nat
    BY JoinedFinite
  <1>3. Cardinality(Joined(e)') <= Cardinality(Joined(e)) /\ Cardinality(Joined(e)') \in Nat
    BY <1>1, <1>2, FS_Subset, FS_CardinalityType
  <1>4. invited[e] \in Nat
    BY DEF AccountsInv, Accounts!TypeOK
  <1> QED BY <1>2, <1>3, <1>4 DEF AccountsInv

LEMMA AcceptedTyped ==
    ASSUME NEW v \in Accounts!Invitation, v.revision < MaxInvitations
    PROVE  Accounts!Accepted(v) \in Accounts!Invitation
  <1>1. v.revision + 1 \in 0..MaxInvitations
    BY Bounds DEF Accounts!Invitation
  <1> QED BY <1>1 DEF Accounts!Accepted, Accounts!Invitation

LEMMA AccountsActivate ==
    ASSUME AccountsInv, NEW i \in Identities, Accounts!Activate(i)
    PROVE  AccountsInv'
  <1> DEFINE e == EmailOf[i]
  <1>1. /\ e \in Emails /\ Accounts!Pending(e) /\ ~Accounts!Member(i)
        /\ invitation[e].role # "none" /\ invitation[e] \in Accounts!Invitation
        /\ invitation[e].revision < MaxInvitations
    BY DEF Accounts!Activate, Accounts!MayActivate, EmailOf, Emails, AccountsInv,
           Accounts!TypeOK, Accounts!Pending, Accounts!Sent
  <1>2. /\ principal' = [principal EXCEPT ![i] =
               [role |-> invitation[e].role, enabled |-> TRUE, revision |-> 0]]
        /\ invitation' = [invitation EXCEPT ![e] = Accounts!Accepted(@)]
        /\ invited' = invited /\ request' = request
    BY DEF Accounts!Activate
  <1>3. Accounts!TypeOK'
    <2>1. Accounts!Accepted(invitation[e]) \in Accounts!Invitation
      BY <1>1, AcceptedTyped
    <2>2. [role |-> invitation[e].role, enabled |-> TRUE, revision |-> 0] \in Accounts!Principal
      BY <1>1, Bounds DEF Accounts!Invitation, Accounts!Principal
    <2> QED BY <1>1, <1>2, <2>1, <2>2 DEF AccountsInv, Accounts!TypeOK
  <1>4. /\ \A d \in Emails : d = e => ~Accounts!Pending(d)'
        /\ \A d \in Emails \ {e} : Accounts!Pending(d)' <=> Accounts!Pending(d)
    BY <1>1, <1>2 DEF Accounts!Pending, Accounts!Sent, Accounts!Accepted, AccountsInv,
                      Accounts!TypeOK, Accounts!Invitation
  <1>5. /\ Accounts!Member(i)'
        /\ \A j \in Identities \ {i} : Accounts!Member(j)' <=> Accounts!Member(j)
    BY <1>1, <1>2 DEF Accounts!Member, AccountsInv, Accounts!TypeOK
  <1>6. \A q \in Requests : RequestSound(request[q])'
    BY <1>2, <1>5 DEF AccountsInv, RequestSound, Accounts!Member
  <1>7. ASSUME NEW d \in Emails
        PROVE  /\ Cardinality(Joined(d)') <= invited'[d]
               /\ Accounts!Pending(d)' => Cardinality(Joined(d)') < invited'[d]
    <2>0. /\ invited[d] \in Nat /\ invited'[d] = invited[d]
          /\ IsFiniteSet(Joined(d)) /\ Cardinality(Joined(d)) \in Nat
          /\ Cardinality(Joined(d)) <= invited[d]
          /\ Accounts!Pending(d) => Cardinality(Joined(d)) < invited[d]
      BY <1>2, JoinedFinite DEF AccountsInv, Accounts!TypeOK
    <2>1. CASE d = e
      <3>1. Joined(d)' = Joined(d) \cup {i} \/ Joined(d)' = Joined(d)
        BY <1>5, <2>1 DEF Joined
      <3>4. /\ Cardinality(Joined(d)') <= Cardinality(Joined(d)) + 1
            /\ Cardinality(Joined(d)') \in Nat
        BY <2>0, <3>1, OneMore
      <3>5. Cardinality(Joined(d)) < invited[d]
        <4>1. Accounts!Pending(d)
          BY <1>1, <2>1
        <4> QED BY <2>0, <4>1
      <3>6. Cardinality(Joined(d)') <= invited'[d]
        BY <2>0, <3>4, <3>5
      <3>7. ~Accounts!Pending(d)'
        BY <1>4, <2>1
      <3> QED BY <3>6, <3>7
    <2>2. CASE d # e
      <3>1. Joined(d)' = Joined(d)
        BY <1>5, <2>2 DEF Joined
      <3> QED BY <1>4, <2>0, <2>2, <3>1
    <2> QED BY <2>1, <2>2
  <1> QED BY <1>3, <1>6, <1>7 DEF AccountsInv

\* A step on invitations and requests that sends none.
LEMMA AccountsQuiet ==
    ASSUME AccountsInv, Accounts!TypeOK',
           \A i \in Identities : Accounts!Member(i)' <=> Accounts!Member(i),
           \A q \in Requests : request'[q] = request[q] \/ RequestSound(request'[q]),
           UNCHANGED invited,
           \A e \in Emails : Accounts!Pending(e)' => Accounts!Pending(e)
    PROVE  AccountsInv'
  <1>1. ASSUME NEW q \in Requests
        PROVE  RequestSound(request[q])'
    <2>1. PICK r : r = request'[q]
      OBVIOUS
    <2>2. RequestSound(r)
      BY <2>1 DEF AccountsInv
    <2> QED BY <2>1, <2>2 DEF RequestSound, Accounts!Member
  <1> QED BY <1>1, NobodyJoins DEF AccountsInv

\* Authorising a request.
LEMMA AccountsAuthorise ==
    ASSUME AccountsInv, NEW q \in Requests, NEW new \in Accounts!Request, Accounts!Authorise(q, new),
           RequestSound(new)
    PROVE  AccountsInv'
  <1>1. /\ request' = [request EXCEPT ![q] = new]
        /\ principal' = principal /\ invitation' = invitation /\ invited' = invited
    BY DEF Accounts!Authorise
  <1>2. Accounts!TypeOK'
    BY <1>1 DEF AccountsInv, Accounts!TypeOK
  <1>3. \A r \in Requests : request'[r] = IF r = q THEN new ELSE request[r]
    BY <1>1 DEF AccountsInv, Accounts!TypeOK
  <1>4. \A e \in Emails : Accounts!Pending(e)' => Accounts!Pending(e)
    BY <1>1 DEF Accounts!Pending, Accounts!Sent
  <1>5. \A i \in Identities : Accounts!Member(i)' <=> Accounts!Member(i)
    BY <1>1 DEF Accounts!Member
  <1> QED BY <1>1, <1>2, <1>3, <1>4, <1>5, AccountsQuiet

LEMMA NewRequests ==
    ASSUME AccountsInv, NEW q \in Requests, NEW i \in Identities,
           \/ \E e \in Emails :
                 Accounts!BeginRevoke(q, i, e) \/ \E r \in Accounts!Roles : Accounts!BeginInvite(q, i, e, r)
           \/ \E m \in Identities, r \in Accounts!Roles, enabled \in BOOLEAN :
                 Accounts!BeginUpdate(q, i, m, r, enabled)
           \/ Accounts!BeginProfile(q, i)
    PROVE  AccountsInv'
  <1> USE DEF Accounts!NoRequest
  <1>0. /\ \A e \in Emails : invitation[e].revision \in Nat
        /\ \A j \in Identities : principal[j].revision \in Nat
        /\ "none" \notin Accounts!Roles
    BY Bounds DEF AccountsInv, Accounts!TypeOK, Accounts!Invitation, Accounts!Principal,
                  Accounts!Roles
  <1>1. ASSUME NEW e \in Emails, Accounts!BeginRevoke(q, i, e)
        PROVE  AccountsInv'
    <2> DEFINE new == [Accounts!NoRequest EXCEPT !.at = "revoke", !.by = i, !.email = e,
                                                 !.revision = invitation[e].revision]
    <2>1. new \in Accounts!Request /\ new.at = "revoke" /\ new.email = e
      BY <1>0 DEF Accounts!Request
    <2>2. Accounts!Authorise(q, new)
      BY <1>1 DEF Accounts!BeginRevoke
    <2> HIDE DEF new
    <2>3. RequestSound(new)
      BY <2>1 DEF RequestSound
    <2> QED BY <2>1, <2>2, <2>3, AccountsAuthorise
  <1>2. ASSUME NEW e \in Emails, NEW r \in Accounts!Roles, Accounts!BeginInvite(q, i, e, r)
        PROVE  AccountsInv'
    <2> DEFINE new == [Accounts!NoRequest EXCEPT !.at = "team", !.by = i, !.email = e, !.role = r]
    <2>1. new \in Accounts!Request /\ new.at = "team" /\ new.email = e
      BY <1>0 DEF Accounts!Request
    <2>2. Accounts!Authorise(q, new)
      BY <1>2 DEF Accounts!BeginInvite
    <2> HIDE DEF new
    <2>3. RequestSound(new)
      BY <2>1 DEF RequestSound
    <2> QED BY <2>1, <2>2, <2>3, AccountsAuthorise
  <1>3. ASSUME NEW m \in Identities, NEW r \in Accounts!Roles, NEW enabled \in BOOLEAN,
               Accounts!BeginUpdate(q, i, m, r, enabled)
        PROVE  AccountsInv'
    <2> DEFINE new == [Accounts!NoRequest EXCEPT !.at = "update", !.by = i, !.member = m,
                           !.role = r, !.enabled = enabled, !.revision = principal[m].revision]
    <2>1. /\ new \in Accounts!Request /\ new.member = m /\ new.role = r /\ new.at = "update"
      BY <1>0 DEF Accounts!Request
    <2>2. Accounts!Authorise(q, new) /\ Accounts!Member(m)
      BY <1>3 DEF Accounts!BeginUpdate
    <2> HIDE DEF new
    <2>3. RequestSound(new)
      BY <1>0, <2>1, <2>2 DEF RequestSound, Accounts!Member
    <2> QED BY <2>1, <2>2, <2>3, AccountsAuthorise
  <1>4. CASE Accounts!BeginProfile(q, i)
    <2> DEFINE new == [Accounts!NoRequest EXCEPT !.at = "profile", !.by = i,
                                                 !.revision = principal[i].revision]
    <2>1. new \in Accounts!Request /\ new.at = "profile"
      BY <1>0 DEF Accounts!Request
    <2>2. Accounts!Authorise(q, new)
      BY <1>4 DEF Accounts!BeginProfile
    <2> HIDE DEF new
    <2>3. RequestSound(new)
      BY <2>1 DEF RequestSound
    <2> QED BY <2>1, <2>2, <2>3, AccountsAuthorise
  <1> QED BY <1>1, <1>2, <1>3, <1>4

\* A request that has acted or ended.
LEMMA RequestDone ==
    ASSUME AccountsInv, NEW q \in Requests, Accounts!Done(q)
    PROVE  /\ request' \in [Requests -> Accounts!Request]
           /\ \A r \in Requests : request'[r] = request[r] \/ RequestSound(request'[r])
  <1>1. Accounts!NoRequest \in Accounts!Request /\ Accounts!NoRequest.at = "idle"
    BY DEF Accounts!NoRequest, Accounts!Request
  <1>2. RequestSound(Accounts!NoRequest)
    BY <1>1 DEF RequestSound
  <1> QED BY <1>1, <1>2 DEF Accounts!Done, AccountsInv, Accounts!TypeOK

LEMMA AccountsExpire ==
    ASSUME AccountsInv, NEW e \in Emails, Accounts!Expire(e)
    PROVE  AccountsInv'
  <1>1. /\ invitation' = [invitation EXCEPT ![e] = [@ EXCEPT !.expired = TRUE]]
        /\ principal' = principal /\ invited' = invited /\ request' = request
    BY DEF Accounts!Expire
  <1>2. Accounts!TypeOK'
    BY <1>1 DEF AccountsInv, Accounts!TypeOK, Accounts!Invitation
  <1>3. \A d \in Emails : Accounts!Pending(d)' => Accounts!Pending(d)
    BY <1>1 DEF Accounts!Pending, Accounts!Sent, AccountsInv, Accounts!TypeOK, Accounts!Invitation
  <1>4. \A i \in Identities : Accounts!Member(i)' <=> Accounts!Member(i)
    BY <1>1 DEF Accounts!Member
  <1> QED BY <1>1, <1>2, <1>3, <1>4, AccountsQuiet

LEMMA AccountsListTeam ==
    ASSUME AccountsInv, NEW q \in Requests, Accounts!ListTeam(q)
    PROVE  AccountsInv'
  <1>1. /\ request' = [request EXCEPT ![q].at = "save"]
        /\ principal' = principal /\ invited' = invited /\ invitation' = invitation
    BY DEF Accounts!ListTeam
  <1>2. /\ Accounts!TypeOK'
        /\ \A r \in Requests : request'[r] = request[r] \/ RequestSound(request'[r])
    BY <1>1 DEF AccountsInv, Accounts!TypeOK, Accounts!Request, RequestSound, Accounts!ListTeam
  <1>3. \A d \in Emails : Accounts!Pending(d)' => Accounts!Pending(d)
    BY <1>1 DEF Accounts!Pending, Accounts!Sent
  <1>4. \A i \in Identities : Accounts!Member(i)' <=> Accounts!Member(i)
    BY <1>1 DEF Accounts!Member
  <1> QED BY <1>1, <1>2, <1>3, <1>4, AccountsQuiet

LEMMA AccountsRevoke ==
    ASSUME AccountsInv, NEW q \in Requests, Accounts!RevokeInvitation(q)
    PROVE  AccountsInv'
  <1>0. PICK e : e = request[q].email /\ e \in Emails
    BY DEF Accounts!RevokeInvitation, AccountsInv, RequestSound
  <1>1. /\ invitation' = [invitation EXCEPT ![e].revoked = TRUE, ![e].revision = @ + 1]
        /\ invitation[e].revision < MaxInvitations
        /\ principal' = principal /\ invited' = invited /\ Accounts!Done(q)
    BY <1>0 DEF Accounts!RevokeInvitation
  <1>2. invitation[e] \in Accounts!Invitation /\ invitation[e].revision + 1 \in 0..MaxInvitations
    BY <1>0, <1>1, Bounds DEF AccountsInv, Accounts!TypeOK, Accounts!Invitation
  <1>3. /\ invitation' \in [Emails -> Accounts!Invitation]
        /\ \A d \in Emails : invitation'[d] = invitation[d] \/ invitation'[d].revoked
    <2>1. invitation'[e] = [invitation[e] EXCEPT !.revoked = TRUE,
                                                 !.revision = invitation[e].revision + 1]
      BY <1>0, <1>1 DEF AccountsInv, Accounts!TypeOK
    <2>2. invitation'[e] \in Accounts!Invitation /\ invitation'[e].revoked
      BY <1>2, <2>1 DEF Accounts!Invitation
    <2>3. /\ invitation' = [d \in Emails |-> invitation'[d]]
          /\ \A d \in Emails \ {e} : invitation'[d] = invitation[d]
      BY <1>0, <1>1 DEF AccountsInv, Accounts!TypeOK
    <2> QED BY <2>2, <2>3 DEF AccountsInv, Accounts!TypeOK
  <1>4. Accounts!TypeOK'
    BY <1>1, <1>3, RequestDone DEF AccountsInv, Accounts!TypeOK
  <1>5. \A d \in Emails : Accounts!Pending(d)' => Accounts!Pending(d)
    BY <1>3 DEF Accounts!Pending, Accounts!Sent
  <1>6. \A i \in Identities : Accounts!Member(i)' <=> Accounts!Member(i)
    BY <1>1 DEF Accounts!Member
  <1>7. \A r \in Requests : request'[r] = request[r] \/ RequestSound(request'[r])
    BY <1>1, RequestDone
  <1> QED BY <1>1, <1>4, <1>5, <1>6, <1>7, AccountsQuiet

LEMMA AccountsSave ==
    ASSUME AccountsInv, NEW q \in Requests, Accounts!SaveInvitation(q)
    PROVE  AccountsInv'
  <1>0. PICK e, v : /\ e = request[q].email
                    /\ v = IF Accounts!Sent(e) THEN invitation[e].revision + 1 ELSE 0
                    /\ e \in Emails
    BY DEF Accounts!SaveInvitation, AccountsInv, RequestSound
  <1>1. /\ invitation' = [invitation EXCEPT ![e] =
               [Accounts!NoInvitation EXCEPT !.role = request[q].role, !.revision = v]]
        /\ v <= MaxInvitations
        /\ invited' = [invited EXCEPT ![e] = @ + 1]
        /\ principal' = principal /\ Accounts!Done(q) /\ ~Accounts!Pending(e)
    BY <1>0 DEF Accounts!SaveInvitation
  <1>2. v \in 0..MaxInvitations
    BY <1>0, <1>1, Bounds DEF AccountsInv, Accounts!TypeOK, Accounts!Invitation
  <1>3. request[q].role \in Accounts!Roles \cup {"none"}
    BY DEF AccountsInv, Accounts!TypeOK, Accounts!Request
  <1>4. Accounts!TypeOK'
    <2>1. [Accounts!NoInvitation EXCEPT !.role = request[q].role, !.revision = v]
              \in Accounts!Invitation
      BY <1>0, <1>2, <1>3 DEF Accounts!NoInvitation, Accounts!Invitation
    <2>2. invitation' \in [Emails -> Accounts!Invitation]
      BY <1>0, <1>1, <2>1 DEF AccountsInv, Accounts!TypeOK
    <2>4. invited' \in [Emails -> Nat]
      BY <1>0, <1>1 DEF AccountsInv, Accounts!TypeOK
    <2> QED BY <1>1, <2>2, <2>4, RequestDone DEF AccountsInv, Accounts!TypeOK
  <1>5. ASSUME NEW r \in Requests
        PROVE  RequestSound(request[r])'
    <2>1. PICK w : w = request'[r]
      OBVIOUS
    <2>2. RequestSound(w)
      BY <1>1, <2>1, RequestDone DEF AccountsInv
    <2> QED BY <1>1, <2>1, <2>2 DEF RequestSound, Accounts!Member
  <1>6. ASSUME NEW d \in Emails
        PROVE  /\ Cardinality(Joined(d)') <= invited'[d]
               /\ Accounts!Pending(d)' => Cardinality(Joined(d)') < invited'[d]
    <2>1. Joined(d)' = Joined(d) /\ Cardinality(Joined(d)) \in Nat
      BY <1>1, JoinedFinite DEF Joined, Accounts!Member
    <2>2. /\ Cardinality(Joined(d)) <= invited[d] /\ invited[d] \in Nat
          /\ Accounts!Pending(d) => Cardinality(Joined(d)) < invited[d]
      BY DEF AccountsInv, Accounts!TypeOK
    <2>3. CASE d = e
      <3>1. invited'[d] = invited[d] + 1
        BY <1>1, <2>3 DEF AccountsInv, Accounts!TypeOK
      <3> QED BY <2>1, <2>2, <3>1
    <2>4. CASE d # e
      <3>1. invited'[d] = invited[d] /\ (Accounts!Pending(d)' <=> Accounts!Pending(d))
        BY <1>1, <2>4 DEF AccountsInv, Accounts!TypeOK, Accounts!Pending, Accounts!Sent
      <3> QED BY <2>1, <2>2, <3>1
    <2> QED BY <2>3, <2>4
  <1> QED BY <1>4, <1>5, <1>6 DEF AccountsInv

LEMMA AccountsWrite ==
    ASSUME AccountsInv, NEW q \in Requests,
           \/ Accounts!UpdateMember(q)
           \/ Accounts!UpdateProfile(q)
    PROVE  AccountsInv'
  <1>1. PICK m, new :
           /\ principal' = [principal EXCEPT ![m] = new]
           /\ m \in Identities => /\ new \in Accounts!Principal
                                  /\ new.role # "none" <=> principal[m].role # "none"
    <2>1. CASE Accounts!UpdateMember(q)
      <3>1. PICK m : m = request[q].member
        OBVIOUS
      <3> DEFINE new == [role |-> request[q].role, enabled |-> request[q].enabled,
                         revision |-> principal[m].revision + 1]
      <3>2. /\ principal' = [principal EXCEPT ![m] = new]
            /\ request[q].at = "update" /\ principal[m].revision < MaxGrant
        BY <2>1, <3>1 DEF Accounts!UpdateMember
      <3>3. /\ request[q].role \in Accounts!Roles /\ request[q].enabled \in BOOLEAN
            /\ m \in Identities /\ principal[m].role # "none"
            /\ request[q].role # "none"
        BY <3>1, <3>2 DEF AccountsInv, RequestSound, Accounts!TypeOK, Accounts!Request, Accounts!Member
      <3>4. principal[m].revision + 1 \in 0..MaxGrant
        BY <3>2, <3>3, Bounds DEF AccountsInv, Accounts!TypeOK, Accounts!Principal
      <3>5. new \in Accounts!Principal /\ new.role = request[q].role
        BY <3>3, <3>4 DEF Accounts!Principal
      <3> QED BY <3>2, <3>3, <3>5
    <2>2. CASE Accounts!UpdateProfile(q)
      <3>1. PICK m : m = request[q].by
        OBVIOUS
      <3> DEFINE new == [principal[m] EXCEPT !.revision = @ + 1]
      <3>2. /\ principal' = [principal EXCEPT ![m] = new]
            /\ principal[m].revision < MaxGrant
        BY <2>2, <3>1 DEF Accounts!UpdateProfile
      <3>3. ASSUME m \in Identities
            PROVE  new \in Accounts!Principal /\ new.role = principal[m].role
        <4>1. principal[m] \in Accounts!Principal
          BY <3>3 DEF AccountsInv, Accounts!TypeOK
        <4>2. principal[m].revision + 1 \in 0..MaxGrant
          BY <3>2, <4>1, Bounds DEF Accounts!Principal
        <4> QED BY <4>1, <4>2 DEF Accounts!Principal
      <3> QED BY <3>2, <3>3
    <2> QED BY <2>1, <2>2
  <1>2. invitation' = invitation /\ invited' = invited /\ Accounts!Done(q)
    BY DEF Accounts!UpdateMember, Accounts!UpdateProfile
  <1>3. \A i \in Identities : Accounts!Member(i)' <=> Accounts!Member(i)
    BY <1>1 DEF Accounts!Member, AccountsInv, Accounts!TypeOK
  <1>4. Accounts!TypeOK'
    BY <1>1, <1>2, RequestDone DEF AccountsInv, Accounts!TypeOK
  <1>5. \A d \in Emails : Accounts!Pending(d)' => Accounts!Pending(d)
    BY <1>2 DEF Accounts!Pending, Accounts!Sent
  <1>6. \A r \in Requests : request'[r] = request[r] \/ RequestSound(request'[r])
    BY <1>2, RequestDone
  <1> QED BY <1>2, <1>3, <1>4, <1>5, <1>6, AccountsQuiet

LEMMA AccountsStep ==
    ASSUME AccountsInv, [Accounts!Next]_accountVars
    PROVE  AccountsInv'
  <1>1. CASE Accounts!Next
    <2>1. ASSUME NEW q \in Requests, Accounts!RequestEnds(q)
          PROVE  AccountsInv'
      <3>1. /\ principal' = principal /\ invitation' = invitation /\ invited' = invited
            /\ Accounts!Done(q)
        BY <2>1 DEF Accounts!RequestEnds
      <3>2. /\ Accounts!TypeOK'
            /\ \A r \in Requests : request'[r] = request[r] \/ RequestSound(request'[r])
        BY <3>1, RequestDone DEF AccountsInv, Accounts!TypeOK
      <3>3. /\ \A d \in Emails : Accounts!Pending(d)' => Accounts!Pending(d)
            /\ \A i \in Identities : Accounts!Member(i)' <=> Accounts!Member(i)
        BY <3>1 DEF Accounts!Pending, Accounts!Sent, Accounts!Member
      <3> QED BY <3>1, <3>2, <3>3, AccountsQuiet
    <2> QED
      BY <1>1, <2>1, AccountsActivate, AccountsExpire, NewRequests, AccountsListTeam,
         AccountsSave, AccountsRevoke, AccountsWrite, Zenon
      DEF Accounts!Next
  <1>2. CASE UNCHANGED accountVars
    <2>1. /\ principal' = principal /\ invitation' = invitation /\ invited' = invited
          /\ request' = request
      BY <1>2 DEF accountVars
    <2>2. /\ Accounts!TypeOK'
          /\ \A d \in Emails : Accounts!Pending(d)' => Accounts!Pending(d)
          /\ \A i \in Identities : Accounts!Member(i)' <=> Accounts!Member(i)
      BY <2>1 DEF Accounts!Pending, Accounts!Sent, Accounts!Member, AccountsInv, Accounts!TypeOK
    <2> QED BY <2>1, <2>2, AccountsQuiet
  <1> QED BY <1>1, <1>2

LEMMA AccountsStart ==
    ASSUME Accounts!Init
    PROVE  AccountsInv
  <1>1. Accounts!TypeOK
    BY Bounds DEF Accounts!Init, Accounts!TypeOK, Accounts!Principal, Accounts!Invitation,
        Accounts!Request, Accounts!Roles, Accounts!Stranger, Accounts!NoInvitation,
        Accounts!NoRequest
  <1>2. \A e \in Emails : Joined(e) = {} /\ ~Accounts!Pending(e) /\ invited[e] = 0
    BY DEF Accounts!Init, Joined, Accounts!Member, Accounts!Pending, Accounts!Sent,
           Accounts!Stranger, Accounts!NoInvitation
  <1>3. \A q \in Requests : RequestSound(request[q])
    BY DEF Accounts!Init, Accounts!NoRequest, RequestSound
  <1> QED BY <1>1, <1>2, <1>3, FS_EmptySet DEF AccountsInv

\* An invitation lets one identity in (module Accounts), whoever signs in, invites,
\* revokes and changes grants meanwhile (accounts.py).
THEOREM OneMember == PartsSpec => []OneMemberPerInvitation
  <1> DEFINE Inv == part = "accounts" => AccountsInv
  <1>1. PartsInit => Inv
    BY AccountsStart DEF PartsInit
  <1>2. Inv /\ [PartsNext]_<<part, OrganisationVars, BrowserVars>> => Inv'
    BY EachPart, AccountsStep
  <1>3. Inv => OneMemberPerInvitation
    BY OneCardinality
    DEF OneMemberPerInvitation, Accounts!OneMemberPerInvitation, AccountsInv, Joined
  <1> QED BY <1>1, <1>2, <1>3, PTL DEF PartsSpec

-----------------------------------------------------------------------------
(***************************************************************************)
(* Inventory                                                               *)
(***************************************************************************)

\* What an archive call has read. The credentials it found exist; those it will archive
\* are among them; once it has read the bindings it has all of every one that is still
\* active, and of no other; and at its transaction it has a copy of each of those.
ArchiveSound(x) ==
    LET a == archive[x]
    IN
    a.at # "idle" =>
        /\ \A c \in a.credentials : Inventory!Exists(c)
        /\ \A c \in Credentials : a.copies[c] > 0 => c \in a.credentials
        /\ a.at \in {"first", "second", "bindings"} =>
              \A c \in Credentials : a.copies[c] > 0 => c = a.primary
        /\ a.at \in {"credentials", "transaction"} =>
              \A c \in Credentials :
                 /\ \A s \in Services : a.bindings[c][s] > 0 => c \in a.credentials
                 /\ c \in a.credentials /\ c \notin archived =>
                       \A s \in Consumers[c] : a.bindings[c][s] > 0
        /\ a.at = "transaction" =>
              \A c \in a.credentials : c \notin archived => a.copies[c] > 0

InventoryInv ==
    /\ Inventory!TypeOK
    /\ Inventory!BindingsFollowCredential
    /\ \A x \in Archivers : ArchiveSound(x)

Resources == OnlyConnection \cup OnlyApplication \cup OnlyEnvironment \cup Services

LEMMA Kinds ==
    /\ Inventory!Documents = Resources \cup Credentials
    /\ Credentials \cap Resources = {}
    /\ Credentials \subseteq Inventory!Documents /\ Services \subseteq Inventory!Documents
    /\ \A c \in Credentials : Consumers[c] \subseteq Services /\ Consumers[c] # {}
  BY PartsAssumption
  DEF Inventory!Documents, Resources, Credentials, Services, OnlyConnection, OnlyApplication,
      OnlyEnvironment, Consumers

LEMMA InventoryTypes ==
    ASSUME InventoryInv
    PROVE  /\ revision \in [Inventory!Documents -> 0..MaxRevision]
           /\ archived \subseteq {d \in Inventory!Documents : Inventory!Exists(d)}
           /\ bound \in [Credentials -> [Services -> 0..MaxRevision]]
           /\ archive \in [Archivers -> Inventory!Archive]
           /\ importer \in [Importers -> Credentials \cup {None}]
           /\ \A d \in Inventory!Documents : revision[d] \in Nat
  BY Bounds DEF InventoryInv, Inventory!TypeOK

\* Documents and archived_at stay, bindings are as the credentials say, and an archive
\* call goes on with what it has read.
LEMMA InventoryMove ==
    ASSUME InventoryInv, Inventory!TypeOK', Inventory!BindingsFollowCredential',
           \A d \in Inventory!Documents : Inventory!Exists(d) => Inventory!Exists(d)',
           archived \subseteq archived',
           \A x \in Archivers : archive'[x] = archive[x] \/ ArchiveSound(x)'
    PROVE  InventoryInv'
  <1>1. ASSUME NEW x \in Archivers
        PROVE  ArchiveSound(x)'
    <2>1. CASE archive'[x] = archive[x]
      <3>1. ArchiveSound(x) /\ archive[x].credentials \subseteq Inventory!Documents
        BY InventoryTypes, Kinds DEF InventoryInv, Inventory!Archive
      <3> QED BY <2>1, <3>1 DEF ArchiveSound
    <2> QED BY <2>1
  <1> QED BY <1>1 DEF InventoryInv

\* Bindings and credentials that stay as they are.
LEMMA BindingsStay ==
    ASSUME InventoryInv,
           \A c \in Credentials :
              /\ Inventory!Bound(c)' = Inventory!Bound(c)
              /\ Inventory!Active(c)' <=> Inventory!Active(c)
    PROVE  Inventory!BindingsFollowCredential'
  BY DEF InventoryInv, Inventory!BindingsFollowCredential

\* New documents that are no credentials.
LEMMA InventoryAdd ==
    ASSUME InventoryInv, NEW new \in SUBSET Resources, Inventory!Create(new),
           UNCHANGED <<archived, bound, archive>>,
           importer' \in [Importers -> Credentials \cup {None}]
    PROVE  InventoryInv'
  <1>1. archived' = archived /\ bound' = bound /\ archive' = archive
    OBVIOUS
  <1>2. revision' = [d \in Inventory!Documents |-> IF d \in new THEN 1 ELSE revision[d]]
    BY DEF Inventory!Create
  <1>3. /\ revision' \in [Inventory!Documents -> 0..MaxRevision]
        /\ \A d \in Inventory!Documents : Inventory!Exists(d) => Inventory!Exists(d)'
    BY <1>2, InventoryTypes, Bounds DEF Inventory!Exists
  <1>4. Inventory!TypeOK'
    BY <1>1, <1>3, InventoryTypes DEF Inventory!TypeOK
  <1>5. \A c \in Credentials : revision'[c] = revision[c]
    BY <1>2, Kinds
  <1>6. Inventory!BindingsFollowCredential'
    BY <1>1, <1>5, BindingsStay DEF Inventory!Bound, Inventory!Active, Inventory!Exists
  <1> QED BY <1>1, <1>3, <1>4, <1>6, InventoryMove

\* Revisions advance.
LEMMA InventoryAdvance ==
    ASSUME InventoryInv, NEW changed, Inventory!Advance(changed) \/ revision' = revision,
           \A d \in changed : Inventory!Exists(d)
    PROVE  /\ revision' \in [Inventory!Documents -> 0..MaxRevision]
           /\ \A d \in Inventory!Documents : Inventory!Exists(d)' <=> Inventory!Exists(d)
  <1>1. CASE revision' = revision
    BY <1>1, InventoryTypes DEF Inventory!Exists
  <1>2. CASE Inventory!Advance(changed)
    <2>1. revision' = [d \in Inventory!Documents |-> IF d \in changed THEN revision[d] + 1 ELSE revision[d]]
      BY <1>2 DEF Inventory!Advance
    <2>2. ASSUME NEW d \in Inventory!Documents
          PROVE  revision'[d] \in 0..MaxRevision /\ (revision'[d] > 0 <=> revision[d] > 0)
      <3>1. revision[d] \in 0..MaxRevision /\ MaxRevision \in Nat
        BY InventoryTypes, Bounds
      <3>2. d \in changed => revision[d] < MaxRevision
        BY <1>2 DEF Inventory!Advance
      <3>3. revision'[d] = IF d \in changed THEN revision[d] + 1 ELSE revision[d]
        BY <2>1
      <3>4. CASE d \in changed
        <4>1. revision[d] > 0
          BY <3>4 DEF Inventory!Exists
        <4> QED BY <3>1, <3>2, <3>3, <3>4, <4>1
      <3>5. CASE d \notin changed
        BY <3>1, <3>3, <3>5
      <3> QED BY <3>4, <3>5
    <2> QED BY <2>1, <2>2 DEF Inventory!Exists
  <1> QED BY <1>1, <1>2

\* Editing a document, and a rotation's changes of a credential and its bindings.
LEMMA InventoryEdit ==
    ASSUME InventoryInv, NEW d \in Inventory!Documents, Inventory!Edit(d)
    PROVE  InventoryInv'
  <1>1. archived' = archived /\ bound' = bound /\ archive' = archive /\ importer' = importer
    BY DEF Inventory!Edit
  <1>2. /\ revision' \in [Inventory!Documents -> 0..MaxRevision]
        /\ \A e \in Inventory!Documents : Inventory!Exists(e)' <=> Inventory!Exists(e)
    BY InventoryAdvance DEF Inventory!Edit, Inventory!Active
  <1>3. Inventory!TypeOK'
    BY <1>1, <1>2, InventoryTypes DEF Inventory!TypeOK
  <1>4. Inventory!BindingsFollowCredential'
    BY <1>1, <1>2, Kinds, BindingsStay DEF Inventory!Bound, Inventory!Active
  <1> QED BY <1>1, <1>2, <1>3, <1>4, InventoryMove

LEMMA InventoryChange ==
    ASSUME InventoryInv, NEW c \in Credentials, Inventory!ChangeBindings(c)
    PROVE  InventoryInv'
  <1>1. /\ archived' = archived /\ archive' = archive /\ importer' = importer
        /\ \A s \in Inventory!Bound(c) : bound[c][s] < MaxRevision
    BY DEF Inventory!ChangeBindings
  <1>2. /\ revision' \in [Inventory!Documents -> 0..MaxRevision]
        /\ \A e \in Inventory!Documents : Inventory!Exists(e)' <=> Inventory!Exists(e)
    <2>1. Inventory!Bound(c) # {}
      BY Kinds DEF Inventory!ChangeBindings
    <2>2. Inventory!Exists(c)
      BY <2>1 DEF InventoryInv, Inventory!BindingsFollowCredential, Inventory!Active
    <2>3. Inventory!Advance({c}) \/ revision' = revision
      BY DEF Inventory!ChangeBindings
    <2>4. \A d \in {c} : Inventory!Exists(d)
      BY <2>2
    <2> QED BY <2>3, <2>4, InventoryAdvance
  <1>3. PICK new : /\ new = [s \in Services |-> IF bound[c][s] > 0 THEN bound[c][s] + 1 ELSE 0]
                   /\ bound' = [bound EXCEPT ![c] = new]
    BY DEF Inventory!ChangeBindings, Inventory!Rebind
  <1>4. ASSUME NEW s \in Services
        PROVE  new[s] \in 0..MaxRevision /\ (new[s] > 0 <=> bound[c][s] > 0)
    <2>1. bound[c][s] \in 0..MaxRevision /\ MaxRevision \in Nat
      BY InventoryTypes, Bounds
    <2>2. bound[c][s] > 0 => bound[c][s] < MaxRevision
      BY <1>1 DEF Inventory!Bound
    <2>3. new[s] = IF bound[c][s] > 0 THEN bound[c][s] + 1 ELSE 0
      BY <1>3
    <2> QED BY <2>1, <2>2, <2>3
  <1>5. new \in [Services -> 0..MaxRevision]
    BY <1>3, <1>4
  <1>6. bound' \in [Credentials -> [Services -> 0..MaxRevision]]
    BY <1>3, <1>5, InventoryTypes
  <1>7. \A k \in Credentials : Inventory!Bound(k)' = Inventory!Bound(k)
    <2>1. \A k \in Credentials : bound'[k] = IF k = c THEN new ELSE bound[k]
      BY <1>3, InventoryTypes
    <2> QED BY <1>4, <2>1 DEF Inventory!Bound
  <1>8. Inventory!TypeOK'
    BY <1>1, <1>2, <1>6, InventoryTypes DEF Inventory!TypeOK
  <1>9. Inventory!BindingsFollowCredential'
    BY <1>1, <1>2, <1>7, Kinds, BindingsStay DEF Inventory!Active
  <1> QED BY <1>1, <1>2, <1>8, <1>9, InventoryMove

LEMMA InventoryImport ==
    ASSUME InventoryInv, NEW i \in Importers, Inventory!Import(i)
    PROVE  InventoryInv'
  <1>1. PICK c \in Credentials : c = importer[i] /\ ~Inventory!Exists(c)
    BY InventoryTypes DEF Inventory!Import
  <1>2. PICK new : /\ new = UNION {Inventory!SetupOf(s) : s \in {s \in Consumers[c] : ~Inventory!Exists(s)}}
                   /\ Inventory!Create(new \cup {c})
    BY <1>1 DEF Inventory!Import
  <1>3. new \subseteq Resources
    BY <1>2, Kinds
    DEF Inventory!SetupOf, EnvironmentOf, ApplicationOf, Resources, OnlyEnvironment, OnlyApplication
  <1>4. PICK mine : /\ mine = [s \in Services |-> IF s \in Consumers[c] THEN 1 ELSE 0]
                    /\ bound' = [bound EXCEPT ![c] = mine]
    BY <1>1 DEF Inventory!Import
  <1>5. archived' = archived /\ archive' = archive /\ importer' = [importer EXCEPT ![i] = None]
    BY DEF Inventory!Import
  <1>6. revision' = [d \in Inventory!Documents |-> IF d \in new \cup {c} THEN 1 ELSE revision[d]]
    BY <1>2 DEF Inventory!Create
  <1>7. /\ revision' \in [Inventory!Documents -> 0..MaxRevision]
        /\ \A d \in Inventory!Documents : Inventory!Exists(d) => Inventory!Exists(d)'
        /\ Inventory!Exists(c)'
        /\ \A k \in Credentials \ {c} : Inventory!Exists(k)' <=> Inventory!Exists(k)
    BY <1>3, <1>6, InventoryTypes, Bounds, Kinds DEF Inventory!Exists
  <1>8. bound' \in [Credentials -> [Services -> 0..MaxRevision]]
    BY <1>4, InventoryTypes, Bounds
  <1>9. Inventory!TypeOK'
    BY <1>5, <1>7, <1>8, InventoryTypes DEF Inventory!TypeOK
  <1>10. \A k \in Credentials : bound'[k] = IF k = c THEN mine ELSE bound[k]
    BY <1>4, InventoryTypes
  <1>11. Inventory!Bound(c)' = Consumers[c] /\ Inventory!Active(c)'
    BY <1>1, <1>4, <1>5, <1>7, <1>10, InventoryTypes, Kinds DEF Inventory!Bound, Inventory!Active
  <1>12. \A k \in Credentials \ {c} :
            /\ Inventory!Bound(k)' = Inventory!Bound(k)
            /\ Inventory!Active(k)' <=> Inventory!Active(k)
    BY <1>5, <1>7, <1>10 DEF Inventory!Bound, Inventory!Active
  <1>13. Inventory!BindingsFollowCredential'
    BY <1>11, <1>12 DEF InventoryInv, Inventory!BindingsFollowCredential
  <1> QED BY <1>5, <1>7, <1>9, <1>13, InventoryMove

LEMMA InventoryAdds ==
    ASSUME InventoryInv,
           \/ \E d \in Inventory!Documents : Inventory!Add(d)
           \/ \E s \in Services : Inventory!AddApplicationSetup(s)
           \/ \E i \in Importers :
                 Inventory!ImportRefused(i) \/ \E c \in Credentials : Inventory!CheckImport(i, c)
    PROVE  InventoryInv'
  <1>1. ASSUME NEW d \in Inventory!Documents, Inventory!Add(d)
        PROVE  InventoryInv'
    <2>1. {d} \in SUBSET Resources
      BY <1>1 DEF Inventory!Add, Inventory!MayAdd, Resources
    <2> QED BY <1>1, <2>1, InventoryAdd, InventoryTypes DEF Inventory!Add
  <1>2. ASSUME NEW s \in Services, Inventory!AddApplicationSetup(s)
        PROVE  InventoryInv'
    <2>1. Inventory!SetupOf(s) \in SUBSET Resources
      BY DEF Inventory!SetupOf, EnvironmentOf, ApplicationOf, Resources, OnlyEnvironment,
             OnlyApplication
    <2> QED BY <1>2, <2>1, InventoryAdd, InventoryTypes DEF Inventory!AddApplicationSetup
  <1>3. ASSUME NEW i \in Importers,
               Inventory!ImportRefused(i) \/ \E c \in Credentials : Inventory!CheckImport(i, c)
        PROVE  InventoryInv'
    <2>1. /\ revision' = revision /\ archived' = archived /\ bound' = bound /\ archive' = archive
          /\ importer' \in [Importers -> Credentials \cup {None}]
      BY <1>3, InventoryTypes DEF Inventory!ImportRefused, Inventory!CheckImport
    <2>2. Inventory!TypeOK'
      BY <2>1, InventoryTypes DEF Inventory!TypeOK, Inventory!Exists
    <2>3. Inventory!BindingsFollowCredential'
      BY <2>1, BindingsStay DEF Inventory!Bound, Inventory!Active, Inventory!Exists
    <2> QED BY <2>1, <2>2, <2>3, InventoryMove DEF Inventory!Exists
  <1> QED BY <1>1, <1>2, <1>3

\* An archive call reads.
LEMMA ArchiveReads ==
    ASSUME InventoryInv, NEW x \in Archivers, NEW new \in Inventory!Archive,
           archive' = [archive EXCEPT ![x] = new],
           UNCHANGED <<revision, archived, bound, importer>>,
           new.at # "idle" =>
              /\ \A c \in new.credentials : Inventory!Exists(c)
              /\ \A c \in Credentials : new.copies[c] > 0 => c \in new.credentials
              /\ new.at \in {"first", "second", "bindings"} =>
                    \A c \in Credentials : new.copies[c] > 0 => c = new.primary
              /\ new.at \in {"credentials", "transaction"} =>
                    \A c \in Credentials :
                       /\ \A s \in Services : new.bindings[c][s] > 0 => c \in new.credentials
                       /\ c \in new.credentials /\ c \notin archived =>
                             \A s \in Consumers[c] : new.bindings[c][s] > 0
              /\ new.at = "transaction" =>
                    \A c \in new.credentials : c \notin archived => new.copies[c] > 0
    PROVE  InventoryInv'
  <1>1. revision' = revision /\ archived' = archived /\ bound' = bound /\ importer' = importer
    OBVIOUS
  <1>2. /\ archive' \in [Archivers -> Inventory!Archive]
        /\ \A y \in Archivers : archive'[y] = IF y = x THEN new ELSE archive[y]
    BY InventoryTypes
  <1>3. Inventory!TypeOK'
    BY <1>1, <1>2, InventoryTypes DEF Inventory!TypeOK, Inventory!Exists
  <1>4. Inventory!BindingsFollowCredential'
    BY <1>1, BindingsStay DEF Inventory!Bound, Inventory!Active, Inventory!Exists
  <1>5. ArchiveSound(x)'
    BY <1>1, <1>2 DEF ArchiveSound, Inventory!Exists
  <1> QED BY <1>1, <1>2, <1>3, <1>4, <1>5, InventoryMove DEF Inventory!Exists

LEMMA InventoryBegin ==
    ASSUME InventoryInv, NEW x \in Archivers, NEW p \in Inventory!Documents,
           Inventory!BeginArchive(x, p)
    PROVE  InventoryInv'
  <1>1. PICK copies, credentials :
           /\ copies = [Inventory!Nothing EXCEPT ![p] = revision[p]]
           /\ credentials = {p} \cap Credentials
    OBVIOUS
  <1>2. PICK new : /\ new = [Inventory!NoArchive EXCEPT !.at = "first", !.primary = p,
                                          !.copies = copies, !.credentials = credentials]
                   /\ archive' = [archive EXCEPT ![x] = new]
    BY <1>1 DEF Inventory!BeginArchive
  <1>3. /\ copies \in [Inventory!Documents -> 0..MaxRevision]
        /\ \A d \in Inventory!Documents : copies[d] > 0 => d = p
        /\ Inventory!Exists(p) /\ credentials \in SUBSET Credentials
    BY <1>1, InventoryTypes, Bounds DEF Inventory!Nothing, Inventory!BeginArchive, Inventory!Active
  <1>4. /\ Inventory!NoArchive \in Inventory!Archive
        /\ new \in Inventory!Archive /\ new.at = "first" /\ new.primary = p
        /\ new.copies = copies /\ new.credentials = credentials
    <2>1. Inventory!Nothing \in [Inventory!Documents -> 0..MaxRevision]
      BY Bounds DEF Inventory!Nothing
    <2>2. Inventory!Unbound \in [Credentials -> [Services -> 0..MaxRevision]]
      BY Bounds DEF Inventory!Unbound
    <2>3. Inventory!NoArchive \in Inventory!Archive
      BY <2>1, <2>2 DEF Inventory!NoArchive, Inventory!Archive
    <2> QED BY <1>2, <1>3, <2>3 DEF Inventory!Archive
  <1>5. UNCHANGED <<revision, archived, bound, importer>>
    BY DEF Inventory!BeginArchive
  <1>6. /\ \A c \in new.credentials : Inventory!Exists(c)
        /\ \A c \in Credentials : new.copies[c] > 0 => c \in new.credentials /\ c = new.primary
    BY <1>1, <1>3, <1>4, Kinds
  <1> QED BY <1>2, <1>4, <1>5, <1>6, ArchiveReads

\* The lists of documents copy no credential.
LEMMA CopiedResources ==
    ASSUME InventoryInv, NEW x \in Archivers, NEW found
    PROVE  /\ Inventory!Copied(x, found) \in [Inventory!Documents -> 0..MaxRevision]
           /\ \A c \in Credentials : Inventory!Copied(x, found)[c] = archive[x].copies[c]
  <1>1. archive[x].copies \in [Inventory!Documents -> 0..MaxRevision]
    BY InventoryTypes DEF Inventory!Archive
  <1> QED BY <1>1, InventoryTypes, Kinds DEF Inventory!Copied

LEMMA InventoryListFirst ==
    ASSUME InventoryInv, NEW x \in Archivers, Inventory!ListFirst(x)
    PROVE  InventoryInv'
  <1>0. /\ archive[x] \in Inventory!Archive /\ ArchiveSound(x) /\ archive[x].at = "first"
        /\ archive \in [Archivers -> Inventory!Archive]
    BY InventoryTypes DEF InventoryInv, Inventory!ListFirst
  <1>1. PICK p, found, copies, credentials :
           /\ p = archive[x].primary
           /\ found = Inventory!Dependents(p, Inventory!FirstStep(p))
           /\ copies = Inventory!Copied(x, found)
           /\ credentials = archive[x].credentials \cup (found \cap Credentials)
                               \cup {c \in Credentials : p \in Inventory!Bound(c)}
    OBVIOUS
  <1>2. PICK new : new = [archive[x] EXCEPT !.at = "second", !.copies = copies,
                                            !.credentials = credentials]
    OBVIOUS
  <1>3. archive' = [archive EXCEPT ![x] = new]
    BY <1>0, <1>1, <1>2 DEF Inventory!ListFirst, Inventory!Archive
  <1>4. /\ credentials \in SUBSET Credentials
        /\ \A c \in credentials : Inventory!Exists(c)
        /\ archive[x].credentials \subseteq credentials
    <2>1. \A c \in Credentials : p \in Inventory!Bound(c) => Inventory!Exists(c)
      BY DEF InventoryInv, Inventory!BindingsFollowCredential, Inventory!Active
    <2>2. \A c \in found : Inventory!Exists(c)
      BY <1>1 DEF Inventory!Dependents, Inventory!Active
    <2>3. \A c \in archive[x].credentials : Inventory!Exists(c) /\ c \in Credentials
      BY <1>0 DEF ArchiveSound, Inventory!Archive
    <2> QED BY <1>1, <2>1, <2>2, <2>3
  <1>5. /\ copies \in [Inventory!Documents -> 0..MaxRevision]
        /\ \A c \in Credentials : copies[c] = archive[x].copies[c]
    BY <1>1, CopiedResources
  <1>6. /\ new \in Inventory!Archive /\ new.at = "second" /\ new.primary = archive[x].primary
        /\ new.copies = copies /\ new.credentials = credentials
    BY <1>0, <1>2, <1>4, <1>5 DEF Inventory!Archive
  <1>7. UNCHANGED <<revision, archived, bound, importer>>
    BY DEF Inventory!ListFirst
  <1>8. \A c \in Credentials : copies[c] > 0 => c \in credentials /\ c = archive[x].primary
    BY <1>0, <1>4, <1>5 DEF ArchiveSound
  <1> QED BY <1>3, <1>4, <1>6, <1>7, <1>8, ArchiveReads

LEMMA InventoryListSecond ==
    ASSUME InventoryInv, NEW x \in Archivers, Inventory!ListSecond(x)
    PROVE  InventoryInv'
  <1>0. /\ archive[x] \in Inventory!Archive /\ ArchiveSound(x) /\ archive[x].at = "second"
        /\ archive \in [Archivers -> Inventory!Archive]
    BY InventoryTypes DEF InventoryInv, Inventory!ListSecond
  <1>1. PICK p, copies, credentials :
           /\ p = archive[x].primary
           /\ copies = Inventory!Copied(x, Inventory!Dependents(p, Inventory!Second(p)))
           /\ credentials = IF p \in Services
                            THEN {c \in archive[x].credentials : Inventory!Active(c)}
                            ELSE archive[x].credentials
    OBVIOUS
  <1>2. PICK new : new = [archive[x] EXCEPT !.at = "bindings", !.copies = copies,
                                            !.credentials = credentials]
    OBVIOUS
  <1>3. archive' = [archive EXCEPT ![x] = new]
    BY <1>0, <1>1, <1>2 DEF Inventory!ListSecond, Inventory!Archive
  <1>4. /\ credentials \in SUBSET Credentials
        /\ \A c \in credentials : Inventory!Exists(c)
        /\ p \notin Services => credentials = archive[x].credentials
    BY <1>0, <1>1 DEF ArchiveSound, Inventory!Archive
  <1>5. /\ copies \in [Inventory!Documents -> 0..MaxRevision]
        /\ \A c \in Credentials : copies[c] = archive[x].copies[c]
    BY <1>1, CopiedResources
  <1>6. /\ new \in Inventory!Archive /\ new.at = "bindings" /\ new.primary = archive[x].primary
        /\ new.copies = copies /\ new.credentials = credentials
    BY <1>0, <1>2, <1>4, <1>5 DEF Inventory!Archive
  <1>7. UNCHANGED <<revision, archived, bound, importer>>
    BY DEF Inventory!ListSecond
  <1>8. \A c \in Credentials : copies[c] > 0 => c \in credentials /\ c = archive[x].primary
    BY <1>0, <1>1, <1>4, <1>5, Kinds DEF ArchiveSound, Resources
  <1> QED BY <1>3, <1>4, <1>6, <1>7, <1>8, ArchiveReads

LEMMA InventoryListBindings ==
    ASSUME InventoryInv, NEW x \in Archivers, Inventory!ListBindings(x)
    PROVE  InventoryInv'
  <1>0. /\ archive[x] \in Inventory!Archive /\ ArchiveSound(x) /\ archive[x].at = "bindings"
        /\ archive \in [Archivers -> Inventory!Archive]
    BY InventoryTypes DEF InventoryInv, Inventory!ListBindings
  <1>1. PICK gone, copied :
           /\ gone = archive[x].credentials \cup
                        {c \in Credentials : Inventory!Bound(c) \cap Inventory!Removed(x) # {}}
           /\ copied = [c \in Credentials |-> IF c \in gone THEN bound[c] ELSE Inventory!Unbound[c]]
    OBVIOUS
  <1>2. PICK new : new = [archive[x] EXCEPT !.at = "credentials", !.bindings = copied,
                                            !.credentials = gone]
    OBVIOUS
  <1>3. archive' = [archive EXCEPT ![x] = new]
    BY <1>0, <1>1, <1>2 DEF Inventory!ListBindings, Inventory!Archive
  <1>4. /\ gone \in SUBSET Credentials
        /\ \A c \in gone : Inventory!Exists(c)
        /\ archive[x].credentials \subseteq gone
    BY <1>0, <1>1
    DEF ArchiveSound, Inventory!Archive, InventoryInv, Inventory!BindingsFollowCredential,
        Inventory!Active
  <1>5. /\ copied \in [Credentials -> [Services -> 0..MaxRevision]]
        /\ \A c \in Credentials, s \in Services :
              copied[c][s] = IF c \in gone THEN bound[c][s] ELSE 0
    BY <1>1, InventoryTypes, Bounds DEF Inventory!Unbound
  <1>6. /\ new \in Inventory!Archive /\ new.at = "credentials"
        /\ new.copies = archive[x].copies /\ new.credentials = gone /\ new.bindings = copied
    BY <1>0, <1>2, <1>4, <1>5 DEF Inventory!Archive
  <1>7. UNCHANGED <<revision, archived, bound, importer>>
    BY DEF Inventory!ListBindings
  <1>8. \A c \in Credentials : new.copies[c] > 0 => c \in gone
    BY <1>0, <1>4, <1>6 DEF ArchiveSound
  <1>9. ASSUME NEW c \in Credentials
        PROVE  /\ \A s \in Services : copied[c][s] > 0 => c \in gone
               /\ c \in gone /\ c \notin archived => \A s \in Consumers[c] : copied[c][s] > 0
    <2>1. c \in gone /\ c \notin archived => Inventory!Bound(c) = Consumers[c]
      BY <1>4 DEF InventoryInv, Inventory!BindingsFollowCredential, Inventory!Active
    <2> QED BY <1>5, <2>1, Kinds DEF Inventory!Bound
  <1> QED BY <1>3, <1>4, <1>6, <1>7, <1>8, <1>9, ArchiveReads

LEMMA InventoryListCredentials ==
    ASSUME InventoryInv, NEW x \in Archivers, Inventory!ListCredentials(x)
    PROVE  InventoryInv'
  <1>0. /\ archive[x] \in Inventory!Archive /\ ArchiveSound(x) /\ archive[x].at = "credentials"
        /\ archive \in [Archivers -> Inventory!Archive]
    BY InventoryTypes DEF InventoryInv, Inventory!ListCredentials
  <1>1. PICK copies :
           copies = [d \in Inventory!Documents |->
                       IF d \in archive[x].credentials /\ Inventory!Active(d)
                       THEN revision[d] ELSE archive[x].copies[d]]
    OBVIOUS
  <1>2. PICK new : new = [archive[x] EXCEPT !.at = "transaction", !.copies = copies]
    OBVIOUS
  <1>3. archive' = [archive EXCEPT ![x] = new]
    BY <1>0, <1>1, <1>2 DEF Inventory!ListCredentials, Inventory!Archive
  <1>4. copies \in [Inventory!Documents -> 0..MaxRevision]
    BY <1>0, <1>1, InventoryTypes DEF Inventory!Archive
  <1>5. /\ new \in Inventory!Archive /\ new.at = "transaction"
        /\ new.copies = copies /\ new.credentials = archive[x].credentials
        /\ new.bindings = archive[x].bindings
    BY <1>0, <1>2, <1>4 DEF Inventory!Archive
  <1>6. UNCHANGED <<revision, archived, bound, importer>>
    BY DEF Inventory!ListCredentials
  <1>7. \A c \in Credentials : copies[c] > 0 => c \in archive[x].credentials
    BY <1>0, <1>1, Kinds DEF ArchiveSound
  <1>8. \A c \in archive[x].credentials : c \notin archived => copies[c] > 0
    BY <1>0, <1>1, Kinds DEF ArchiveSound, Inventory!Active, Inventory!Exists, Inventory!Archive
  <1>9. /\ \A c \in archive[x].credentials : Inventory!Exists(c)
        /\ \A c \in Credentials :
              /\ \A s \in Services : archive[x].bindings[c][s] > 0 => c \in archive[x].credentials
              /\ c \in archive[x].credentials /\ c \notin archived =>
                    \A s \in Consumers[c] : archive[x].bindings[c][s] > 0
    BY <1>0 DEF ArchiveSound
  <1> QED BY <1>3, <1>5, <1>6, <1>7, <1>8, <1>9, ArchiveReads

\* The end of an archive call that archives nothing.
LEMMA InventoryEnds ==
    ASSUME InventoryInv, NEW x \in Archivers, Inventory!ArchiveEnds(x)
    PROVE  InventoryInv'
  <1>1. Inventory!NoArchive \in Inventory!Archive /\ Inventory!NoArchive.at = "idle"
    BY Bounds DEF Inventory!NoArchive, Inventory!Archive, Inventory!Nothing, Inventory!Unbound
  <1>2. /\ archive' = [archive EXCEPT ![x] = Inventory!NoArchive]
        /\ UNCHANGED <<revision, archived, bound, importer>>
    BY DEF Inventory!ArchiveEnds
  <1> QED BY <1>1, <1>2, ArchiveReads

\* The transaction. What is active and goes loses every binding, what stays loses none.
LEMMA InventoryArchive ==
    ASSUME InventoryInv, NEW x \in Archivers, Inventory!ArchiveInventory(x)
    PROVE  InventoryInv'
  <1>0. /\ archive[x] \in Inventory!Archive /\ ArchiveSound(x) /\ archive[x].at = "transaction"
        /\ archive \in [Archivers -> Inventory!Archive]
    BY InventoryTypes DEF InventoryInv, Inventory!ArchiveInventory
  <1>1. PICK targets, copied :
           /\ targets = {d \in Inventory!Documents : archive[x].copies[d] > 0}
           /\ copied = archive[x].bindings
    OBVIOUS
  <1>2. /\ Inventory!Advance(targets) /\ archived' = archived \cup targets
        /\ bound' = [c \in Credentials |-> [s \in Services |->
                        IF copied[c][s] > 0 THEN 0 ELSE bound[c][s]]]
        /\ archive' = [archive EXCEPT ![x] = Inventory!NoArchive]
        /\ importer' = importer
        /\ \A d \in targets : Inventory!Active(d)
        /\ \A c \in Credentials, s \in Services : copied[c][s] > 0 => bound[c][s] = copied[c][s]
    BY <1>1 DEF Inventory!ArchiveInventory, Inventory!Targets, Inventory!Unchanged
  <1>3. /\ revision' \in [Inventory!Documents -> 0..MaxRevision]
        /\ \A d \in Inventory!Documents : Inventory!Exists(d)' <=> Inventory!Exists(d)
    BY <1>2, InventoryAdvance DEF Inventory!Active
  <1>4. /\ Inventory!NoArchive \in Inventory!Archive /\ Inventory!NoArchive.at = "idle"
    BY Bounds DEF Inventory!NoArchive, Inventory!Archive, Inventory!Nothing, Inventory!Unbound
  <1>5. /\ archive' \in [Archivers -> Inventory!Archive]
        /\ \A y \in Archivers : archive'[y] = archive[y] \/ ArchiveSound(y)'
    BY <1>2, <1>4, InventoryTypes DEF ArchiveSound
  <1>6. Inventory!TypeOK'
    <2>1. bound' \in [Credentials -> [Services -> 0..MaxRevision]]
      BY <1>2, InventoryTypes, Bounds
    <2>2. archived' \subseteq {d \in Inventory!Documents : Inventory!Exists(d)'}
      BY <1>1, <1>2, <1>3, InventoryTypes DEF Inventory!Active
    <2> QED BY <1>2, <1>3, <1>5, <2>1, <2>2, InventoryTypes DEF Inventory!TypeOK
  <1>7. ASSUME NEW c \in Credentials
        PROVE  Inventory!Bound(c)' = IF Inventory!Active(c)' THEN Consumers[c] ELSE {}
    <2>0. /\ Inventory!Bound(c) = IF Inventory!Active(c) THEN Consumers[c] ELSE {}
          /\ \A s \in Services : bound'[c][s] = IF copied[c][s] > 0 THEN 0 ELSE bound[c][s]
          /\ Inventory!Active(c)' <=> Inventory!Active(c) /\ c \notin targets
      BY <1>2, <1>3, Kinds DEF InventoryInv, Inventory!BindingsFollowCredential, Inventory!Active
    <2>1. CASE c \in targets
      <3>1. Inventory!Active(c) /\ c \in archive[x].credentials
        BY <1>0, <1>1, <1>2, <2>1 DEF ArchiveSound
      <3>2. \A s \in Consumers[c] : copied[c][s] > 0
        BY <1>0, <1>1, <3>1 DEF ArchiveSound, Inventory!Active
      <3> QED BY <2>0, <2>1, <3>1, <3>2 DEF Inventory!Bound
    <2>2. CASE c \notin targets
      <3>1. ASSUME NEW s \in Services, copied[c][s] > 0
            PROVE  FALSE
        <4>1. c \in archive[x].credentials
          BY <1>0, <1>1, <3>1 DEF ArchiveSound
        <4>2. s \in Inventory!Bound(c)
          BY <1>2, <3>1 DEF Inventory!Bound
        <4>3. Inventory!Active(c)
          BY <2>0, <4>2
        <4>4. archive[x].copies[c] > 0
          BY <1>0, <4>1, <4>3 DEF ArchiveSound, Inventory!Active
        <4> QED BY <1>1, <2>2, <4>4, Kinds
      <3> QED BY <2>0, <2>2, <3>1 DEF Inventory!Bound
    <2> QED BY <2>1, <2>2
  <1>8. Inventory!BindingsFollowCredential'
    BY <1>7 DEF Inventory!BindingsFollowCredential
  <1>9. archived \subseteq archived'
    BY <1>2
  <1> QED BY <1>3, <1>5, <1>6, <1>8, <1>9, InventoryMove

LEMMA InventoryStep ==
    ASSUME InventoryInv, [Inventory!Next]_inventoryVars
    PROVE  InventoryInv'
  <1>1. CASE Inventory!Next
    BY <1>1, InventoryAdds, InventoryEdit, InventoryImport, InventoryChange, InventoryBegin,
       InventoryListFirst, InventoryListSecond, InventoryListBindings,
       InventoryListCredentials, InventoryArchive, InventoryEnds, Zenon
    DEF Inventory!Next
  <1>2. CASE UNCHANGED inventoryVars
    <2>1. /\ revision' = revision /\ archived' = archived /\ bound' = bound
          /\ archive' = archive /\ importer' = importer
      BY <1>2 DEF inventoryVars
    <2>2. Inventory!TypeOK'
      BY <2>1, InventoryTypes DEF Inventory!TypeOK, Inventory!Exists
    <2>3. Inventory!BindingsFollowCredential'
      BY <2>1, BindingsStay DEF Inventory!Bound, Inventory!Active, Inventory!Exists
    <2> QED BY <2>1, <2>2, <2>3, InventoryMove DEF Inventory!Exists
  <1> QED BY <1>1, <1>2

LEMMA InventoryStart ==
    ASSUME Inventory!Init
    PROVE  InventoryInv
  <1>1. /\ Inventory!NoArchive \in Inventory!Archive /\ Inventory!NoArchive.at = "idle"
        /\ revision \in [Inventory!Documents -> 0..MaxRevision]
        /\ bound \in [Credentials -> [Services -> 0..MaxRevision]]
        /\ \A d \in Inventory!Documents : ~Inventory!Exists(d)
    BY Bounds
    DEF Inventory!Init, Inventory!NoArchive, Inventory!Archive, Inventory!Nothing,
        Inventory!Unbound, Inventory!Exists
  <1>2. Inventory!TypeOK
    BY <1>1 DEF Inventory!Init, Inventory!TypeOK
  <1>3. Inventory!BindingsFollowCredential
    BY <1>1, Kinds
    DEF Inventory!Init, Inventory!BindingsFollowCredential, Inventory!Bound, Inventory!Unbound,
        Inventory!Active
  <1>4. \A x \in Archivers : ArchiveSound(x)
    BY <1>1 DEF Inventory!Init, ArchiveSound
  <1> QED BY <1>2, <1>3, <1>4 DEF InventoryInv

\* A credential is bound to all its consumers while it is active and to none once it is
\* archived (module Inventory), whatever is imported, rotated or archived while the
\* lists of an archive call are read (archive_inventory).
THEOREM BindingsFollow == PartsSpec => []BindingsFollowCredential
  <1> DEFINE Inv == part = "inventory" => InventoryInv
  <1>1. PartsInit => Inv
    BY InventoryStart DEF PartsInit
  <1>2. Inv /\ [PartsNext]_<<part, OrganisationVars, BrowserVars>> => Inv'
    BY EachPart, InventoryStep
  <1>3. Inv => BindingsFollowCredential
    BY DEF BindingsFollowCredential, InventoryInv
  <1> QED BY <1>1, <1>2, <1>3, PTL DEF PartsSpec

-----------------------------------------------------------------------------
(***************************************************************************)
(* BrowserSetup                                                            *)
(***************************************************************************)

\* A completion that claimed a session: while the session document is as the claim left
\* it, it is the completion's own, and while the connection is as it was read for the
\* worker, it has the playbook that was looked up.
CaptureSound(c) ==
    capture[c].at # "idle" =>
        /\ capture[c].number >= 1
        /\ capture[c].revision <= setup.revision
        /\ capture[c].revision = setup.revision =>
              setup.status = "capturing" /\ setup.number = capture[c].number
        /\ capture[c].at \in {"storing", "committing"} =>
              /\ capture[c].connection <= connection.revision
              /\ capture[c].connection = connection.revision => connection.playbook

SetupInv ==
    /\ Setup!TypeOK
    /\ setup.status \in Setup!Active => setup.number >= 1
    /\ Setup!ReadyIsUsable
    /\ \A c \in Captures : CaptureSound(c)

LEMMA SetupTypes ==
    ASSUME SetupInv
    PROVE  /\ setup \in Setup!SetupSession /\ connection \in Setup!Connection
           /\ versions \in [Setup!Session -> {"none", "enabled", "disabled"}]
           /\ opener \in [Openers -> [at : {"idle", "checked", "booting"}, revision : Nat]]
           /\ capture \in [Captures -> Setup!Capture]
           /\ changes \in 0..MaxChanges /\ mishaps \in 0..MaxMishaps
           /\ setup.revision \in Nat /\ connection.revision \in Nat
           /\ setup.number \in 0..MaxSessions
           /\ connection.playbook \in BOOLEAN
  BY DEF SetupInv, Setup!TypeOK, Setup!SetupSession, Setup!Connection

\* A completion stays where it was with what it read, ends, or has just read.
CaptureMoved(c) ==
    \/ capture'[c].at = "idle"
    \/ /\ capture[c].at # "idle"
       /\ capture'[c].number = capture[c].number /\ capture'[c].revision = capture[c].revision
       /\ capture'[c].connection = capture[c].connection
       /\ capture'[c].at \in {"storing", "committing"} =>
             capture[c].at \in {"storing", "committing"}
    \/ CaptureSound(c)'

\* A session document is replaced, or only grows old.
SessionMoved ==
    \/ setup'.revision = setup.revision + 1
    \/ setup'.revision = setup.revision /\ setup'.status = setup.status /\ setup'.number = setup.number

LEMMA SetupMove ==
    ASSUME SetupInv, Setup!TypeOK', SessionMoved,
           connection' = connection \/ connection'.revision = connection.revision + 1,
           setup'.status \in Setup!Active => setup'.number >= 1,
           connection'.status = "ready" => connection'.reference # None /\ connection'.playbook,
           \A c \in Captures : CaptureMoved(c)
    PROVE  SetupInv'
  <1>1. ASSUME NEW c \in Captures
        PROVE  CaptureSound(c)'
    <2>1. /\ setup.revision \in Nat /\ connection.revision \in Nat
          /\ capture[c].revision \in Nat /\ capture[c].connection \in Nat
      BY SetupTypes DEF Setup!Capture
    <2>2. CASE capture'[c].at = "idle"
      BY <2>2 DEF CaptureSound
    <2>3. CASE /\ capture[c].at # "idle"
               /\ capture'[c].number = capture[c].number
               /\ capture'[c].revision = capture[c].revision
               /\ capture'[c].connection = capture[c].connection
               /\ capture'[c].at \in {"storing", "committing"} =>
                     capture[c].at \in {"storing", "committing"}
      <3>1. CaptureSound(c)
        BY DEF SetupInv
      <3> QED BY <2>1, <2>3, <3>1 DEF CaptureSound, SessionMoved
    <2> QED BY <2>2, <2>3 DEF CaptureMoved
  <1> QED BY <1>1 DEF SetupInv, Setup!ReadyIsUsable

\* A completion that goes on without reading anything.
LEMMA CaptureGoes ==
    ASSUME SetupInv, NEW c \in Captures, NEW new \in Setup!Capture,
           capture' = [capture EXCEPT ![c] = new],
           \/ new.at = "idle"
           \/ /\ capture[c].at # "idle"
              /\ new.number = capture[c].number /\ new.revision = capture[c].revision
              /\ new.connection = capture[c].connection
              /\ new.at \in {"storing", "committing"} => capture[c].at \in {"storing", "committing"}
    PROVE  /\ capture' \in [Captures -> Setup!Capture]
           /\ \A d \in Captures : CaptureMoved(d)
  <1>1. capture \in [Captures -> Setup!Capture]
    BY SetupTypes
  <1>2. \A d \in Captures : capture'[d] = IF d = c THEN new ELSE capture[d]
    BY <1>1
  <1> QED BY <1>1, <1>2 DEF CaptureMoved

\* Steps that leave every completion alone.
LEMMA CapturesStay ==
    ASSUME SetupInv, capture' = capture
    PROVE  /\ capture' \in [Captures -> Setup!Capture]
           /\ \A d \in Captures : CaptureMoved(d)
  <1>1. \A d \in Captures : capture'[d] = capture[d]
    OBVIOUS
  <1> QED BY <1>1, SetupTypes DEF CaptureMoved

LEMMA SessionMoves ==
    ASSUME SetupInv, NEW status \in Setup!Active \cup {"complete", "terminated"},
           Setup!Moved(status)
    PROVE  /\ setup' \in Setup!SetupSession /\ setup'.revision = setup.revision + 1
           /\ setup'.status = status /\ setup'.number = setup.number
  <1>1. /\ setup' = [setup EXCEPT !.status = status, !.revision = setup.revision + 1]
        /\ status \in Setup!Active \cup {"absent", "complete", "terminated"}
        /\ setup.revision + 1 \in Nat
    BY SetupTypes DEF Setup!Moved
  <1>2. setup' \in Setup!SetupSession
    BY <1>1, SetupTypes DEF Setup!SetupSession
  <1> QED BY <1>1, <1>2, SetupTypes DEF Setup!SetupSession

LEMMA SetupOpener ==
    ASSUME SetupInv, NEW o \in Openers,
           \/ Setup!Open(o) \/ Setup!Replace(o) \/ Setup!OpenRefused(o)
           \/ Setup!Boot(o) \/ Setup!BootFails(o)
    PROVE  SetupInv'
  <1>0. /\ \A at \in {"idle", "checked", "booting"}, n \in Nat :
             [at |-> at, revision |-> n] \in [at : {"idle", "checked", "booting"}, revision : Nat]
        /\ opener[o].revision \in Nat /\ setup.revision + 1 \in Nat
    BY SetupTypes
  <1>1. /\ connection' = connection /\ versions' = versions /\ capture' = capture
        /\ changes' = changes
    BY DEF Setup!Open, Setup!Replace, Setup!OpenRefused, Setup!Boot, Setup!BootFails
  <1>2. opener' \in [Openers -> [at : {"idle", "checked", "booting"}, revision : Nat]]
    <2>1. [opener[o] EXCEPT !.at = "checked"] \in [at : {"idle", "checked", "booting"}, revision : Nat]
      BY SetupTypes
    <2>2. \E new \in [at : {"idle", "checked", "booting"}, revision : Nat] :
             opener' = [opener EXCEPT ![o] = new]
      BY <1>0, <2>1 DEF Setup!Open, Setup!Replace, Setup!OpenRefused, Setup!Boot, Setup!BootFails,
         Setup!NoOpener
    <2> QED BY <2>2, SetupTypes
  <1>3. /\ setup' \in Setup!SetupSession /\ SessionMoved
        /\ setup'.status \in Setup!Active => setup'.number >= 1
    <2>1. CASE setup' = setup
      BY <2>1, SetupTypes DEF SessionMoved, SetupInv
    <2>2. CASE Setup!Replace(o)
      <3>1. setup.number + 1 \in 1..MaxSessions
        BY <2>2, SetupTypes, Bounds DEF Setup!Replace
      <3>2. PICK n, v : /\ n = setup.number + 1 /\ v = setup.revision + 1
                        /\ n \in 1..MaxSessions /\ v \in Nat
        BY <1>0, <3>1
      <3>3. /\ setup' = [status |-> "provisioning", number |-> n, worker |-> FALSE,
                         age |-> "fresh", revision |-> v]
            /\ "provisioning" \in Setup!Active /\ "fresh" \in Setup!Age /\ FALSE \in BOOLEAN
        BY <2>2, <3>2 DEF Setup!Replace, Setup!Active, Setup!Age
      <3>4. setup' \in Setup!SetupSession
        BY <3>2, <3>3 DEF Setup!SetupSession
      <3> QED BY <3>2, <3>3, <3>4 DEF SessionMoved
    <2>3. CASE setup' = [setup EXCEPT !.worker = TRUE, !.revision = @ + 1]
      <3>0. setup' = [setup EXCEPT !.worker = TRUE, !.revision = setup.revision + 1]
        BY <2>3
      <3>1. /\ setup' \in Setup!SetupSession /\ setup'.revision = setup.revision + 1
            /\ setup'.status = setup.status /\ setup'.number = setup.number
        BY <1>0, <3>0, SetupTypes DEF Setup!SetupSession
      <3> QED BY <3>1 DEF SessionMoved, SetupInv
    <2>4. CASE Setup!BootFails(o) /\ setup' # setup
      <3>1. Setup!Moved("terminated")
        BY <2>4 DEF Setup!BootFails, Setup!Terminated
      <3> QED BY <3>1, SessionMoves DEF SessionMoved, Setup!Active
    <2> QED BY <2>1, <2>2, <2>3, <2>4 DEF Setup!Open, Setup!OpenRefused, Setup!Boot
  <1>4. mishaps' \in 0..MaxMishaps
    BY SetupTypes, Bounds
    DEF Setup!Open, Setup!Replace, Setup!OpenRefused, Setup!Boot, Setup!BootFails, Setup!Mishap
  <1>5. Setup!TypeOK'
    BY <1>1, <1>2, <1>3, <1>4, SetupTypes DEF Setup!TypeOK
  <1>6. connection'.status = "ready" => connection'.reference # None /\ connection'.playbook
    BY <1>1 DEF SetupInv, Setup!ReadyIsUsable
  <1> QED BY <1>1, <1>3, <1>5, <1>6, CapturesStay, SetupMove

\* The session document alone: get, the scheduled reaper, abort and time.
LEMMA SetupSessionSteps ==
    ASSUME SetupInv, Setup!MarkReady \/ Setup!Terminate \/ Setup!Abort \/ Setup!GrowOld
    PROVE  SetupInv'
  <1>1. /\ connection' = connection /\ versions' = versions /\ opener' = opener
        /\ capture' = capture /\ changes' = changes /\ mishaps' = mishaps
    BY DEF Setup!MarkReady, Setup!Terminate, Setup!Abort, Setup!GrowOld
  <1>2. /\ setup' \in Setup!SetupSession /\ SessionMoved
        /\ setup'.status \in Setup!Active => setup'.number >= 1
    <2>1. CASE Setup!MarkReady
      <3>1. Setup!Moved("ready") /\ setup.status \in Setup!Active /\ "ready" \in Setup!Active
        BY <2>1 DEF Setup!MarkReady, Setup!Active
      <3> QED BY <3>1, SessionMoves DEF SessionMoved, SetupInv
    <2>2. CASE Setup!Terminate \/ Setup!Abort
      <3>1. Setup!Moved("terminated")
        BY <2>2 DEF Setup!Terminate, Setup!Abort, Setup!Terminated
      <3> QED BY <3>1, SessionMoves DEF SessionMoved, Setup!Active
    <2>3. CASE Setup!GrowOld
      <3>1. PICK age \in Setup!Age : setup' = [setup EXCEPT !.age = age]
        BY <2>3 DEF Setup!GrowOld, Setup!Age
      <3>2. /\ setup' \in Setup!SetupSession /\ setup'.revision = setup.revision
            /\ setup'.status = setup.status /\ setup'.number = setup.number
        BY <3>1, SetupTypes DEF Setup!SetupSession
      <3> QED BY <3>2 DEF SessionMoved, SetupInv
    <2> QED BY <2>1, <2>2, <2>3
  <1>3. Setup!TypeOK'
    BY <1>1, <1>2, SetupTypes DEF Setup!TypeOK
  <1>4. connection'.status = "ready" => connection'.reference # None /\ connection'.playbook
    BY <1>1 DEF SetupInv, Setup!ReadyIsUsable
  <1> QED BY <1>1, <1>2, <1>3, <1>4, CapturesStay, SetupMove

LEMMA SetupCrash ==
    ASSUME SetupInv, Setup!Crash
    PROVE  SetupInv'
  <1>1. /\ setup' = setup /\ connection' = connection /\ versions' = versions
        /\ changes' = changes /\ mishaps' \in 0..MaxMishaps
    BY SetupTypes, Bounds DEF Setup!Crash, Setup!Mishap
  <1>2. /\ opener' \in [Openers -> [at : {"idle", "checked", "booting"}, revision : Nat]]
        /\ capture' \in [Captures -> Setup!Capture]
        /\ \A d \in Captures : CaptureMoved(d)
    <2>1. /\ Setup!NoOpener \in [at : {"idle", "checked", "booting"}, revision : Nat]
          /\ Setup!NoCapture \in Setup!Capture /\ Setup!NoCapture.at = "idle"
      BY Bounds DEF Setup!NoOpener, Setup!NoCapture, Setup!Capture
    <2>2. CASE \E o \in Openers : opener' = [opener EXCEPT ![o] = Setup!NoOpener] /\ capture' = capture
      BY <2>1, <2>2, SetupTypes, CapturesStay
    <2>3. CASE \E c \in Captures : capture' = [capture EXCEPT ![c] = Setup!NoCapture] /\ opener' = opener
      BY <2>1, <2>3, SetupTypes, CaptureGoes
    <2> QED BY <2>2, <2>3 DEF Setup!Crash
  <1>3. Setup!TypeOK'
    BY <1>1, <1>2, SetupTypes DEF Setup!TypeOK
  <1>4. SessionMoved /\ (setup'.status \in Setup!Active => setup'.number >= 1)
    BY <1>1 DEF SessionMoved, SetupInv
  <1>5. connection'.status = "ready" => connection'.reference # None /\ connection'.playbook
    BY <1>1 DEF SetupInv, Setup!ReadyIsUsable
  <1> QED BY <1>1, <1>2, <1>3, <1>4, <1>5, SetupMove

\* What else changes the connection.
LEMMA SetupConnection ==
    ASSUME SetupInv,
           \/ Setup!UpdateConnection \/ Setup!AttachPlaybook \/ Setup!DetachPlaybook
           \/ Setup!FlagReauthentication \/ Setup!ArchiveConnection
    PROVE  SetupInv'
  <1>1. /\ setup' = setup /\ versions' = versions /\ opener' = opener /\ capture' = capture
        /\ mishaps' = mishaps /\ changes' \in 0..MaxChanges
    BY SetupTypes, Bounds
    DEF Setup!UpdateConnection, Setup!AttachPlaybook, Setup!DetachPlaybook,
        Setup!FlagReauthentication, Setup!ArchiveConnection, Setup!Changed
  <1>2. PICK v : v = connection.revision + 1 /\ v \in Nat
    BY SetupTypes
  <1>3. /\ connection' \in Setup!Connection /\ connection'.revision = v
        /\ connection'.status = "ready" => connection'.reference # None /\ connection'.playbook
    <2>0. /\ connection \in Setup!Connection /\ TRUE \in BOOLEAN /\ FALSE \in BOOLEAN
          /\ connection.status = "ready" => connection.reference # None /\ connection.playbook
      BY SetupTypes DEF SetupInv, Setup!ReadyIsUsable
    <2>1. CASE Setup!UpdateConnection
      <3>1. connection' = [connection EXCEPT !.revision = v]
        BY <1>2, <2>1 DEF Setup!UpdateConnection, Setup!Changed, Setup!Next_revision
      <3> QED BY <1>2, <2>0, <3>1 DEF Setup!Connection
    <2>2. CASE Setup!AttachPlaybook
      <3>1. PICK st \in {"setup_required", "ready"} :
               /\ connection' = [connection EXCEPT !.playbook = TRUE, !.revision = v, !.status = st]
               /\ st = "ready" => connection.reference # None
        BY <1>2, <2>2 DEF Setup!AttachPlaybook, Setup!Changed, Setup!Next_revision
      <3> QED BY <1>2, <2>0, <3>1 DEF Setup!Connection
    <2>3. CASE Setup!DetachPlaybook
      <3>1. connection' = [connection EXCEPT !.playbook = FALSE, !.status = "setup_required",
                                             !.revision = v]
        BY <1>2, <2>3 DEF Setup!DetachPlaybook, Setup!Changed, Setup!Next_revision
      <3> QED BY <1>2, <2>0, <3>1 DEF Setup!Connection
    <2>4. CASE Setup!FlagReauthentication
      <3>1. connection' = [connection EXCEPT !.status = "reauthentication", !.revision = v]
        BY <1>2, <2>4 DEF Setup!FlagReauthentication, Setup!Changed, Setup!Next_revision
      <3> QED BY <1>2, <2>0, <3>1 DEF Setup!Connection
    <2>5. CASE Setup!ArchiveConnection
      <3>1. connection' = [connection EXCEPT !.archived = TRUE, !.status = "disabled", !.revision = v]
        BY <1>2, <2>5 DEF Setup!ArchiveConnection, Setup!Changed, Setup!Next_revision
      <3> QED BY <1>2, <2>0, <3>1 DEF Setup!Connection
    <2> QED BY <2>1, <2>2, <2>3, <2>4, <2>5
  <1>4. Setup!TypeOK'
    BY <1>1, <1>3, SetupTypes DEF Setup!TypeOK
  <1>5. SessionMoved /\ (setup'.status \in Setup!Active => setup'.number >= 1)
    BY <1>1 DEF SessionMoved, SetupInv
  <1> QED BY <1>1, <1>2, <1>3, <1>4, <1>5, CapturesStay, SetupMove

\* A completion goes on, with or without a version of its worker.
LEMMA SetupCapture ==
    ASSUME SetupInv, NEW c \in Captures,
           \/ Setup!List(c) \/ Setup!ListFails(c) \/ Setup!Read(c)
           \/ Setup!Store(c) \/ Setup!StoreUnanswered(c) \/ Setup!StoreRefused(c)
           \/ Setup!CommitRefused(c) \/ Setup!CommitFails(c) \/ Setup!Check(c)
           \/ Setup!Reconcile(c)
    PROVE  SetupInv'
  <1>0. /\ capture \in [Captures -> Setup!Capture] /\ capture[c] \in Setup!Capture
        /\ CaptureSound(c) /\ connection.revision \in Nat
        /\ versions \in [Setup!Session -> {"none", "enabled", "disabled"}]
        /\ connection.playbook \in BOOLEAN
    BY SetupTypes DEF SetupInv
  <1>1. setup' = setup /\ connection' = connection /\ opener' = opener /\ changes' = changes
    BY DEF Setup!List, Setup!ListFails, Setup!Read, Setup!Store, Setup!StoreUnanswered,
           Setup!StoreRefused, Setup!CommitRefused, Setup!CommitFails, Setup!Check,
           Setup!Reconcile
  <1>2. mishaps' \in 0..MaxMishaps
    BY SetupTypes, Bounds
    DEF Setup!List, Setup!ListFails, Setup!Read, Setup!Store, Setup!StoreUnanswered,
        Setup!StoreRefused, Setup!CommitRefused, Setup!CommitFails, Setup!Check,
        Setup!Reconcile, Setup!Mishap
  <1>3. versions' \in [Setup!Session -> {"none", "enabled", "disabled"}]
    BY <1>0
    DEF Setup!List, Setup!ListFails, Setup!Read, Setup!Store, Setup!StoreUnanswered,
        Setup!StoreRefused, Setup!CommitRefused, Setup!CommitFails, Setup!Check,
        Setup!Reconcile
  <1>4. ASSUME NEW at \in {"ending", "reconciling", "checking"}, Setup!Goto(c, at),
               ~Setup!At(c, "idle")
        PROVE  capture' \in [Captures -> Setup!Capture] /\ \A d \in Captures : CaptureMoved(d)
    <2>1. PICK new : new = [capture[c] EXCEPT !.at = at]
      OBVIOUS
    <2>2. capture' = [capture EXCEPT ![c] = new]
      BY <1>0, <1>4, <2>1 DEF Setup!Goto
    <2>3. /\ new \in Setup!Capture /\ new.number = capture[c].number
          /\ new.revision = capture[c].revision /\ new.connection = capture[c].connection
          /\ new.at \notin {"storing", "committing"}
      BY <1>0, <2>1 DEF Setup!Capture
    <2> QED BY <1>4, <2>2, <2>3, CaptureGoes DEF Setup!At
  <1>5. capture' \in [Captures -> Setup!Capture] /\ \A d \in Captures : CaptureMoved(d)
    <2>1. CASE Setup!List(c)
      <3>1. PICK found : found = {n \in Setup!Session : versions[n] # "none"}
        OBVIOUS
      <3>2. PICK new : new = [capture[c] EXCEPT !.at = "listed", !.before = found]
        OBVIOUS
      <3>3. capture' = [capture EXCEPT ![c] = new] /\ capture[c].at = "claimed"
        BY <1>0, <2>1, <3>1, <3>2 DEF Setup!List, Setup!At
      <3>4. found \in SUBSET Setup!Session
        BY <3>1
      <3>5. /\ new \in Setup!Capture /\ new.number = capture[c].number
            /\ new.revision = capture[c].revision /\ new.connection = capture[c].connection
            /\ new.at \notin {"storing", "committing"}
        BY <1>0, <3>2, <3>4 DEF Setup!Capture
      <3> QED BY <3>3, <3>5, CaptureGoes
    <2>2. CASE Setup!Read(c)
      <3>1. PICK at \in {"storing", "reconciling"} :
               capture' = [capture EXCEPT ![c].at = at, ![c].connection = connection.revision]
               /\ (at = "storing" => connection.playbook)
        BY <2>2 DEF Setup!Read
      <3>2. PICK new : new = [capture[c] EXCEPT !.at = at, !.connection = connection.revision]
        OBVIOUS
      <3>3. capture' = [capture EXCEPT ![c] = new] /\ capture[c].at = "listed"
        BY <1>0, <2>2, <3>1, <3>2 DEF Setup!Read, Setup!At
      <3>4. /\ new \in Setup!Capture /\ new.number = capture[c].number /\ new.at = at
            /\ new.revision = capture[c].revision /\ new.connection = connection.revision
        BY <1>0, <3>2 DEF Setup!Capture
      <3>5. \A d \in Captures : capture'[d] = IF d = c THEN new ELSE capture[d]
        BY <1>0, <3>3
      <3>6. CaptureSound(c)'
        BY <1>0, <1>1, <3>1, <3>3, <3>4, <3>5 DEF CaptureSound
      <3>7. \A d \in Captures : CaptureMoved(d)
        BY <3>5, <3>6 DEF CaptureMoved
      <3> QED BY <1>0, <3>3, <3>4, <3>7
    <2>3. CASE Setup!Store(c)
      <3>1. PICK new : new = [capture[c] EXCEPT !.at = "committing", !.known = TRUE]
        OBVIOUS
      <3>2. capture' = [capture EXCEPT ![c] = new] /\ capture[c].at = "storing"
        BY <1>0, <2>3, <3>1 DEF Setup!Store, Setup!At
      <3>3. TRUE \in BOOLEAN
        OBVIOUS
      <3>4. /\ new \in Setup!Capture /\ new.number = capture[c].number
            /\ new.revision = capture[c].revision /\ new.connection = capture[c].connection
        BY <1>0, <3>1, <3>3 DEF Setup!Capture
      <3> QED BY <3>2, <3>4, CaptureGoes
    <2>4. CASE Setup!StoreRefused(c)
      <3>1. PICK new : new = [capture[c] EXCEPT !.at = "reconciling", !.reauthenticate = TRUE]
        OBVIOUS
      <3>2. capture' = [capture EXCEPT ![c] = new] /\ capture[c].at = "storing"
        BY <1>0, <2>4, <3>1 DEF Setup!StoreRefused, Setup!At
      <3>3. TRUE \in BOOLEAN
        OBVIOUS
      <3>4. /\ new \in Setup!Capture /\ new.number = capture[c].number
            /\ new.revision = capture[c].revision /\ new.connection = capture[c].connection
        BY <1>0, <3>1, <3>3 DEF Setup!Capture
      <3> QED BY <3>2, <3>4, CaptureGoes
    <2>5. CASE capture' = [capture EXCEPT ![c] = Setup!NoCapture]
      <3>1. Setup!NoCapture \in Setup!Capture /\ Setup!NoCapture.at = "idle"
        BY Bounds DEF Setup!NoCapture, Setup!Capture
      <3> QED BY <2>5, <3>1, CaptureGoes
    <2>6. CASE \E at \in {"ending", "reconciling", "checking"} :
                  Setup!Goto(c, at) /\ ~Setup!At(c, "idle")
      BY <1>4, <2>6
    <2> QED
      BY <2>1, <2>2, <2>3, <2>4, <2>5, <2>6
      DEF Setup!ListFails, Setup!StoreUnanswered, Setup!CommitRefused, Setup!CommitFails,
          Setup!Check, Setup!Reconcile, Setup!At
  <1>6. Setup!TypeOK'
    BY <1>1, <1>2, <1>3, <1>5, SetupTypes DEF Setup!TypeOK
  <1>7. SessionMoved /\ (setup'.status \in Setup!Active => setup'.number >= 1)
    BY <1>1 DEF SessionMoved, SetupInv
  <1>8. connection'.status = "ready" => connection'.reference # None /\ connection'.playbook
    BY <1>1 DEF SetupInv, Setup!ReadyIsUsable
  <1> QED BY <1>1, <1>5, <1>6, <1>7, <1>8, SetupMove

\* The claim makes the session the completion's own.
LEMMA SetupClaim ==
    ASSUME SetupInv, NEW c \in Captures, Setup!Claim(c)
    PROVE  SetupInv'
  <1>0. /\ capture \in [Captures -> Setup!Capture]
        /\ setup.revision \in Nat /\ setup.number \in 0..MaxSessions
        /\ setup.status = "ready" /\ Setup!Moved("capturing")
    BY SetupTypes DEF Setup!Claim
  <1>1. /\ connection' = connection /\ versions' = versions /\ opener' = opener
        /\ changes' = changes /\ mishaps' = mishaps
    BY DEF Setup!Claim
  <1>2. /\ setup' \in Setup!SetupSession /\ setup'.revision = setup.revision + 1
        /\ setup'.status = "capturing" /\ setup'.number = setup.number
        /\ setup.number >= 1
    BY <1>0, SessionMoves DEF Setup!Active, SetupInv
  <1>3. PICK new : /\ new = [Setup!NoCapture EXCEPT !.at = "claimed", !.number = setup.number,
                                                   !.revision = setup.revision + 1]
                   /\ capture' = [capture EXCEPT ![c] = new]
    BY DEF Setup!Claim
  <1>4. /\ new \in Setup!Capture /\ new.at = "claimed" /\ new.number = setup.number
        /\ new.revision = setup.revision + 1
    <2>1. /\ Setup!NoCapture \in Setup!Capture /\ setup.revision + 1 \in Nat
          /\ setup.number \in 0..MaxSessions
      BY <1>0, Bounds DEF Setup!NoCapture, Setup!Capture
    <2> QED BY <1>3, <2>1 DEF Setup!Capture
  <1>5. \A d \in Captures : capture'[d] = IF d = c THEN new ELSE capture[d]
    BY <1>0, <1>3
  <1>6. CaptureSound(c)'
    BY <1>0, <1>2, <1>4, <1>5 DEF CaptureSound
  <1>7. \A d \in Captures : CaptureMoved(d)
    BY <1>5, <1>6 DEF CaptureMoved
  <1>8. Setup!TypeOK'
    <2>1. capture' \in [Captures -> Setup!Capture]
      BY <1>0, <1>3, <1>4
    <2> QED BY <1>1, <1>2, <2>1, SetupTypes DEF Setup!TypeOK
  <1>9. connection'.status = "ready" => connection'.reference # None /\ connection'.playbook
    BY <1>1 DEF SetupInv, Setup!ReadyIsUsable
  <1> QED BY <1>1, <1>2, <1>7, <1>8, <1>9, SetupMove DEF SessionMoved

\* complete_setup finds both documents as the completion knows them.
LEMMA Committed ==
    ASSUME SetupInv, NEW c \in Captures, Setup!Commit(c)
    PROVE  /\ setup.status = "capturing" /\ setup.number = capture[c].number
           /\ setup'.status = "complete" /\ setup'.number = setup.number
           /\ setup'.revision = setup.revision + 1 /\ setup' \in Setup!SetupSession
           /\ connection'.status = "ready" /\ connection'.reference = setup.number
           /\ connection'.playbook /\ connection'.revision = connection.revision + 1
           /\ connection' \in Setup!Connection /\ setup.number \in Setup!Session
  <1>0. /\ capture[c] \in Setup!Capture /\ CaptureSound(c) /\ capture[c].at = "committing"
        /\ setup.revision = capture[c].revision /\ connection.revision = capture[c].connection
        /\ setup \in Setup!SetupSession /\ connection \in Setup!Connection
    BY SetupTypes DEF SetupInv, Setup!Commit, Setup!At, Setup!Unmoved
  <1>1. PICK n, v, w : /\ n = capture[c].number /\ v = capture[c].revision + 1
                       /\ w = capture[c].connection + 1
    OBVIOUS
  <1>2. /\ setup' = [setup EXCEPT !.status = "complete", !.number = n, !.revision = v]
        /\ connection' = [connection EXCEPT !.status = "ready", !.reference = n, !.revision = w]
    BY <1>1 DEF Setup!Commit, Setup!Completed, Setup!Authorised
  <1>3. /\ n \in 1..MaxSessions /\ n \in 0..MaxSessions /\ v \in Nat /\ w \in Nat
        /\ n = setup.number /\ setup.status = "capturing"
    BY <1>0, <1>1, Bounds DEF Setup!Capture, CaptureSound
  <1>4. setup' \in Setup!SetupSession
    BY <1>0, <1>2, <1>3 DEF Setup!SetupSession
  <1>5. connection' \in Setup!Connection
    BY <1>0, <1>2, <1>3 DEF Setup!Connection, Setup!Session
  <1>6. /\ setup'.status = "complete" /\ setup'.number = n /\ setup'.revision = v
        /\ connection'.status = "ready" /\ connection'.reference = n /\ connection'.revision = w
    BY <1>0, <1>2 DEF Setup!SetupSession, Setup!Connection
  <1>7. connection.playbook
    BY <1>0 DEF CaptureSound, Setup!Connection
  <1>8. connection'.playbook
    BY <1>0, <1>2, <1>7 DEF Setup!Connection
  <1> QED BY <1>0, <1>1, <1>3, <1>4, <1>5, <1>6, <1>8 DEF Setup!Session

LEMMA SetupCommit ==
    ASSUME SetupInv, NEW c \in Captures, Setup!Commit(c)
    PROVE  SetupInv'
  <1>0. /\ capture \in [Captures -> Setup!Capture] /\ capture[c] \in Setup!Capture
        /\ capture[c].at = "committing"
    BY SetupTypes DEF Setup!Commit, Setup!At
  <1>1. /\ versions' = versions /\ opener' = opener /\ changes' = changes
        /\ mishaps' \in 0..MaxMishaps
    BY SetupTypes, Bounds DEF Setup!Commit, Setup!Mishap
  <1>2. capture' \in [Captures -> Setup!Capture] /\ \A d \in Captures : CaptureMoved(d)
    <2>1. CASE capture' = [capture EXCEPT ![c] = Setup!NoCapture]
      <3>1. Setup!NoCapture \in Setup!Capture /\ Setup!NoCapture.at = "idle"
        BY Bounds DEF Setup!NoCapture, Setup!Capture
      <3> QED BY <2>1, <3>1, CaptureGoes
    <2>2. CASE Setup!Goto(c, "checking")
      <3>1. PICK new : new = [capture[c] EXCEPT !.at = "checking"]
        OBVIOUS
      <3>2. capture' = [capture EXCEPT ![c] = new]
        BY <1>0, <2>2, <3>1 DEF Setup!Goto
      <3>3. /\ new \in Setup!Capture /\ new.number = capture[c].number
            /\ new.revision = capture[c].revision /\ new.connection = capture[c].connection
            /\ new.at \notin {"storing", "committing"}
        BY <1>0, <3>1 DEF Setup!Capture
      <3> QED BY <1>0, <3>2, <3>3, CaptureGoes
    <2> QED BY <2>1, <2>2 DEF Setup!Commit
  <1>3. Setup!TypeOK'
    BY <1>1, <1>2, Committed, SetupTypes DEF Setup!TypeOK
  <1>4. SessionMoved /\ (setup'.status \in Setup!Active => setup'.number >= 1)
    BY Committed DEF SessionMoved, Setup!Active
  <1>5. connection'.reference # None /\ connection'.playbook
    BY Committed, PartsAssumption, Bounds DEF Setup!Session
  <1>6. connection'.revision = connection.revision + 1
    BY Committed
  <1> QED BY <1>2, <1>3, <1>4, <1>5, <1>6, SetupMove

LEMMA SetupEnd ==
    ASSUME SetupInv, NEW c \in Captures, Setup!End(c) \/ Setup!Mark(c)
    PROVE  SetupInv'
  <1>0. /\ capture \in [Captures -> Setup!Capture] /\ capture[c] \in Setup!Capture
        /\ capture[c].at # "idle"
    BY SetupTypes DEF Setup!End, Setup!Mark, Setup!At
  <1>1. /\ versions' = versions /\ opener' = opener /\ changes' = changes /\ mishaps' = mishaps
    BY DEF Setup!End, Setup!Mark
  <1>2. capture' \in [Captures -> Setup!Capture] /\ \A d \in Captures : CaptureMoved(d)
    <2>1. CASE capture' = [capture EXCEPT ![c] = Setup!NoCapture]
      <3>1. Setup!NoCapture \in Setup!Capture /\ Setup!NoCapture.at = "idle"
        BY Bounds DEF Setup!NoCapture, Setup!Capture
      <3> QED BY <2>1, <3>1, CaptureGoes
    <2>2. CASE Setup!End(c) /\ capture[c].reauthenticate
      <3>1. PICK new : new = [capture[c] EXCEPT !.at = "marking"]
        OBVIOUS
      <3>2. capture' = [capture EXCEPT ![c] = new]
        BY <1>0, <2>2, <3>1 DEF Setup!End
      <3>3. /\ new \in Setup!Capture /\ new.number = capture[c].number
            /\ new.revision = capture[c].revision /\ new.connection = capture[c].connection
            /\ new.at \notin {"storing", "committing"}
        BY <1>0, <3>1 DEF Setup!Capture
      <3> QED BY <1>0, <3>2, <3>3, CaptureGoes
    <2>3. CASE Setup!End(c) /\ ~capture[c].reauthenticate
      BY <1>0, <2>1, <2>3 DEF Setup!End
    <2> QED BY <2>1, <2>2, <2>3 DEF Setup!Mark
  <1>3. /\ setup' \in Setup!SetupSession /\ SessionMoved
        /\ setup'.status \in Setup!Active => setup'.number >= 1
    <2>1. CASE setup' = setup
      BY <2>1, SetupTypes DEF SessionMoved, SetupInv
    <2>2. CASE Setup!Moved("terminated")
      BY <2>2, SessionMoves DEF SessionMoved, Setup!Active
    <2> QED BY <2>1, <2>2 DEF Setup!End, Setup!Mark, Setup!Terminated
  <1>4. /\ connection' \in Setup!Connection
        /\ connection' = connection \/ connection'.revision = connection.revision + 1
        /\ connection'.status = "ready" => connection'.reference # None /\ connection'.playbook
    <2>1. CASE Setup!End(c)
      BY <2>1, SetupTypes DEF Setup!End, SetupInv, Setup!ReadyIsUsable
    <2>2. CASE Setup!Mark(c)
      <3>1. PICK v : v = connection.revision + 1 /\ v \in Nat
        BY SetupTypes
      <3>2. connection' = [connection EXCEPT !.status = "reauthentication", !.reference = None,
                                             !.revision = v]
        BY <2>2, <3>1 DEF Setup!Mark
      <3> QED BY <3>1, <3>2, SetupTypes DEF Setup!Connection
    <2> QED BY <2>1, <2>2
  <1>5. Setup!TypeOK'
    BY <1>1, <1>2, <1>3, <1>4, SetupTypes DEF Setup!TypeOK
  <1> QED BY <1>2, <1>3, <1>4, <1>5, SetupMove

LEMMA SetupStep ==
    ASSUME SetupInv, [Setup!Next]_setupVars
    PROVE  SetupInv'
  <1>1. CASE Setup!Next
    <2> USE <1>1 DEF Setup!Next
    <2>1. CASE \E o \in Openers :
                 \/ Setup!Open(o) \/ Setup!Replace(o) \/ Setup!OpenRefused(o)
                 \/ Setup!Boot(o) \/ Setup!BootFails(o)
      BY <2>1, SetupOpener
    <2>2. CASE Setup!MarkReady \/ Setup!Terminate \/ Setup!Abort \/ Setup!GrowOld
      BY <2>2, SetupSessionSteps
    <2>3. CASE \E c \in Captures :
                 \/ Setup!List(c) \/ Setup!ListFails(c) \/ Setup!Read(c)
                 \/ Setup!Store(c) \/ Setup!StoreUnanswered(c) \/ Setup!StoreRefused(c)
                 \/ Setup!CommitRefused(c) \/ Setup!CommitFails(c) \/ Setup!Check(c)
                 \/ Setup!Reconcile(c)
      BY <2>3, SetupCapture
    <2>4. CASE \E c \in Captures :
                 Setup!Claim(c) \/ Setup!Commit(c) \/ Setup!End(c) \/ Setup!Mark(c)
      BY <2>4, SetupClaim, SetupCommit, SetupEnd
    <2>5. CASE \/ Setup!UpdateConnection \/ Setup!AttachPlaybook \/ Setup!DetachPlaybook
               \/ Setup!FlagReauthentication \/ Setup!ArchiveConnection
      BY <2>5, SetupConnection
    <2>6. CASE Setup!Crash
      BY <2>6, SetupCrash
    <2> QED BY <2>1, <2>2, <2>3, <2>4, <2>5, <2>6, Zenon
  <1>2. CASE UNCHANGED setupVars
    <2>1. /\ setup' = setup /\ connection' = connection /\ versions' = versions
          /\ opener' = opener /\ capture' = capture /\ changes' = changes /\ mishaps' = mishaps
      BY <1>2 DEF setupVars
    <2>2. Setup!TypeOK' /\ SessionMoved
      BY <2>1 DEF SetupInv, Setup!TypeOK, SessionMoved
    <2> QED BY <2>1, <2>2, CapturesStay, SetupMove DEF SetupInv, Setup!ReadyIsUsable
  <1> QED BY <1>1, <1>2

LEMMA SetupStart ==
    ASSUME Setup!Init
    PROVE  SetupInv
  <1>1. setup \in Setup!SetupSession /\ setup.status \notin Setup!Active
    BY Bounds DEF Setup!Init, Setup!SetupSession, Setup!Active, Setup!Age
  <1>2. connection \in Setup!Connection /\ connection.status # "ready"
    BY DEF Setup!Init, Setup!Connection
  <1>3. /\ opener \in [Openers -> [at : {"idle", "checked", "booting"}, revision : Nat]]
        /\ versions \in [Setup!Session -> {"none", "enabled", "disabled"}]
    BY DEF Setup!Init, Setup!NoOpener
  <1>4. capture \in [Captures -> Setup!Capture]
    <2>1. Setup!NoCapture \in Setup!Capture
      BY Bounds DEF Setup!NoCapture, Setup!Capture
    <2> QED BY <2>1 DEF Setup!Init
  <1>5. changes \in 0..MaxChanges /\ mishaps \in 0..MaxMishaps
    BY Bounds DEF Setup!Init
  <1>6. \A c \in Captures : CaptureSound(c)
    BY DEF Setup!Init, Setup!NoCapture, CaptureSound
  <1> QED BY <1>1, <1>2, <1>3, <1>4, <1>5, <1>6 DEF SetupInv, Setup!TypeOK, Setup!ReadyIsUsable

\* A connection that says READY has the reference of a captured session and a playbook
\* (module BrowserSetup), whatever was attached, archived, flagged or captured at the
\* same time (complete_setup, attach_playbook, detach_playbook).
THEOREM ReadyUsable == PartsSpec => []ReadyIsUsable
  <1> DEFINE Inv == part = "setup" => SetupInv
  <1>1. PartsInit => Inv
    BY SetupStart DEF PartsInit
  <1>2. Inv /\ [PartsNext]_<<part, OrganisationVars, BrowserVars>> => Inv'
    BY EachPart, SetupStep
  <1>3. Inv => ReadyIsUsable
    BY DEF ReadyIsUsable, SetupInv
  <1> QED BY <1>1, <1>2, <1>3, PTL DEF PartsSpec

\* Only a commit gives the connection a reference.
LEMMA InstallsOnTime ==
    ASSUME SetupInv, [Setup!Next]_setupVars
    PROVE  Setup!InstallsNothingLate
  <1>1. CASE \E c \in Captures : Setup!Commit(c)
    BY <1>1, Committed DEF Setup!InstallsNothingLate
  <1>2. CASE connection' = connection
    BY <1>2 DEF Setup!InstallsNothingLate
  <1>3. CASE connection'.reference \in {connection.reference, None}
    BY <1>3 DEF Setup!InstallsNothingLate
  <1>4. CASE \/ Setup!UpdateConnection \/ Setup!AttachPlaybook \/ Setup!DetachPlaybook
             \/ Setup!FlagReauthentication \/ Setup!ArchiveConnection
    <2>1. connection'.reference = connection.reference
      BY <1>4, SetupTypes
      DEF Setup!Connection, Setup!UpdateConnection, Setup!AttachPlaybook, Setup!DetachPlaybook,
          Setup!FlagReauthentication, Setup!ArchiveConnection, Setup!Changed
    <2> QED BY <1>3, <2>1
  <1>5. CASE \E c \in Captures : Setup!Mark(c)
    <2>1. connection'.reference = None
      BY <1>5, SetupTypes DEF Setup!Connection, Setup!Mark
    <2> QED BY <1>3, <2>1
  <1> QED
    BY <1>1, <1>2, <1>4, <1>5, Zenon
    DEF Setup!Next, setupVars, Setup!Open, Setup!Replace, Setup!OpenRefused, Setup!Boot,
        Setup!BootFails, Setup!MarkReady, Setup!Terminate, Setup!Abort, Setup!GrowOld,
        Setup!Crash, Setup!Claim, Setup!List, Setup!ListFails, Setup!Read, Setup!Store,
        Setup!StoreUnanswered, Setup!StoreRefused, Setup!CommitRefused, Setup!CommitFails,
        Setup!Check, Setup!Reconcile, Setup!End

\* A completion whose session was aborted, expired or replaced while its worker captured
\* installs nothing (module BrowserSetup): the connection takes a reference only in the
\* step that completes the session document's own capture (complete_setup).
THEOREM NothingInstalledLate == PartsSpec => LateCaptureInstallsNothing
  <1> DEFINE Inv == part = "setup" => SetupInv
  <1>1. PartsInit => Inv
    BY SetupStart DEF PartsInit
  <1>2. Inv /\ [PartsNext]_<<part, OrganisationVars, BrowserVars>> => Inv'
    BY EachPart, SetupStep
  <1>3. Inv /\ [PartsNext]_<<part, OrganisationVars, BrowserVars>>
           => [part = "setup" => Setup!InstallsNothingLate]_setupVars
    BY EachPart, InstallsOnTime
  <1> QED BY <1>1, <1>2, <1>3, PTL DEF PartsSpec, LateCaptureInstallsNothing

-----------------------------------------------------------------------------
(***************************************************************************)
(* WaitingRuns                                                             *)
(***************************************************************************)

\* What a completion has read of a waiter that did not change since, and what it has
\* resumed.
CompletionSound(c) ==
    /\ completion[c].resumed \subseteq used
    /\ completion[c].at = "resuming" =>
         /\ completion[c].revision <= waiter.revision
         /\ completion[c].revision = waiter.revision => completion[c].runs = waiter.runs

WaitingInv ==
    /\ Waiting!TypeOK
    /\ \A c \in Completions : CompletionSound(c)

\* A step of the coordinator, or none: completions have nothing to do with it.
LEMMA WaitingElsewhere ==
    ASSUME WaitingInv, Waiting!TypeOK', UNCHANGED <<used, completion>>,
           waiter' = waiter \/ waiter'.revision = waiter.revision + 1
    PROVE  WaitingInv'
  <1>1. used' = used /\ completion' = completion
    OBVIOUS
  <1>2. ASSUME NEW c \in Completions
        PROVE  CompletionSound(c)'
    <2>1. waiter.revision \in Nat /\ completion[c].revision \in Nat
      BY DEF WaitingInv, Waiting!TypeOK, Waiting!Completion
    <2> QED BY <1>1, <2>1 DEF WaitingInv, CompletionSound
  <1> QED BY <1>2 DEF WaitingInv

LEMMA WaitingCoordinator ==
    ASSUME WaitingInv, NEW r \in Runs,
           \/ Waiting!LandOnLogin(r) \/ Waiting!ReadWaiter(r) \/ Waiting!Remember(r)
           \/ Waiting!Pause(r) \/ Waiting!ResumeByHand(r)
    PROVE  WaitingInv'
  <1>1. used' = used /\ completion' = completion
    BY DEF Waiting!LandOnLogin, Waiting!ReadWaiter, Waiting!Remember, Waiting!Pause,
           Waiting!ResumeByHand
  <1>2. /\ waiting' \in [Runs -> Waiting!Run]
        /\ waiter' \in [runs : SUBSET Runs, revision : Nat]
        /\ coordinator' \in [Runs -> Waiting!Coordinator]
        /\ waiter' = waiter \/ waiter'.revision = waiter.revision + 1
    <2> USE DEF WaitingInv, Waiting!TypeOK
    <2>1. CASE Waiting!LandOnLogin(r)
      <3>1. [status |-> "blocked", pauses |-> waiting[r].pauses + 1] \in Waiting!Run
        BY <2>1, Bounds DEF Waiting!LandOnLogin, Waiting!Run
      <3> QED BY <2>1, <3>1 DEF Waiting!LandOnLogin
    <2>2. CASE Waiting!ReadWaiter(r)
      <3>1. \A at \in {"idle", "read", "done"} :
               [at |-> at, revision |-> waiter.revision] \in Waiting!Coordinator
        BY DEF Waiting!Coordinator
      <3> QED BY <2>2, <3>1 DEF Waiting!ReadWaiter
    <2>3. CASE Waiting!Remember(r)
      <3>1. /\ Waiting!Away \in Waiting!Coordinator
            /\ [coordinator[r] EXCEPT !.at = "done"] \in Waiting!Coordinator
        BY DEF Waiting!Coordinator, Waiting!Away
      <3>2. coordinator' \in [Runs -> Waiting!Coordinator]
        BY <2>3, <3>1 DEF Waiting!Remember
      <3>3. [runs |-> waiter.runs \cup {r}, revision |-> waiter.revision + 1]
               \in [runs : SUBSET Runs, revision : Nat]
        OBVIOUS
      <3> QED BY <2>3, <3>2, <3>3 DEF Waiting!Remember
    <2>4. CASE Waiting!Pause(r)
      <3>1. Waiting!Away \in Waiting!Coordinator /\ [waiting[r] EXCEPT !.status = "paused"] \in Waiting!Run
        BY DEF Waiting!Coordinator, Waiting!Away, Waiting!Run
      <3> QED BY <2>4, <3>1 DEF Waiting!Pause
    <2>5. CASE Waiting!ResumeByHand(r)
      <3>1. [waiting[r] EXCEPT !.status = "running"] \in Waiting!Run
        BY DEF Waiting!Run
      <3> QED BY <2>5, <3>1 DEF Waiting!ResumeByHand
    <2> QED BY <2>1, <2>2, <2>3, <2>4, <2>5
  <1>3. Waiting!TypeOK'
    BY <1>1, <1>2 DEF WaitingInv, Waiting!TypeOK
  <1> QED BY <1>1, <1>2, <1>3, WaitingElsewhere

\* A completion goes on, or ends, with what it has done.
LEMMA WaitingMove ==
    ASSUME WaitingInv, NEW c \in Completions, NEW new \in Waiting!Completion,
           completion' = [completion EXCEPT ![c] = new],
           waiting' \in [Runs -> Waiting!Run], coordinator' = coordinator,
           used \subseteq used', used' \subseteq Runs,
           waiter' \in [runs : SUBSET Runs, revision : Nat],
           waiter' = waiter \/ waiter'.revision = waiter.revision + 1,
           new.resumed \subseteq used',
           new.at = "resuming" =>
              /\ waiter' = waiter
              /\ new.revision <= waiter.revision
              /\ new.revision = waiter.revision => new.runs = waiter.runs
    PROVE  WaitingInv'
  <1>1. \A d \in Completions : completion'[d] = IF d = c THEN new ELSE completion[d]
    BY DEF WaitingInv, Waiting!TypeOK
  <1>2. Waiting!TypeOK'
    BY DEF WaitingInv, Waiting!TypeOK
  <1>3. ASSUME NEW d \in Completions
        PROVE  CompletionSound(d)'
    <2>1. waiter.revision \in Nat /\ completion[d].revision \in Nat
      BY DEF WaitingInv, Waiting!TypeOK, Waiting!Completion
    <2>2. CASE d = c
      BY <1>1, <2>2 DEF CompletionSound
    <2>3. CASE d # c
      <3>1. CompletionSound(d) /\ completion'[d] = completion[d]
        BY <1>1, <2>3 DEF WaitingInv
      <3> QED BY <2>1, <3>1 DEF CompletionSound
    <2> QED BY <2>2, <2>3
  <1> QED BY <1>2, <1>3 DEF WaitingInv

LEMMA WaitingCompletion ==
    ASSUME WaitingInv, NEW c \in Completions,
           \/ Waiting!Complete(c) \/ Waiting!Interrupted(c) \/ Waiting!ReplaceWaiter(c)
           \/ \E r \in Runs : Waiting!Resume(c, r)
    PROVE  WaitingInv'
  <1>0. /\ completion[c] \in Waiting!Completion /\ CompletionSound(c)
        /\ waiting \in [Runs -> Waiting!Run] /\ used \subseteq Runs
        /\ waiter \in [runs : SUBSET Runs, revision : Nat]
    BY DEF WaitingInv, Waiting!TypeOK
  <1>1. /\ Waiting!NoCompletion \in Waiting!Completion
        /\ Waiting!NoCompletion.resumed = {} /\ Waiting!NoCompletion.at # "resuming"
    BY DEF Waiting!NoCompletion, Waiting!Completion
  <1>2. CASE Waiting!Complete(c)
    <2>1. PICK new : new = [at |-> "resuming", revision |-> waiter.revision,
                            runs |-> waiter.runs, left |-> waiter.runs, resumed |-> {}]
      OBVIOUS
    <2>2. /\ new \in Waiting!Completion /\ new.resumed \subseteq used
          /\ new.revision <= waiter.revision /\ new.runs = waiter.runs
      BY <1>0, <2>1 DEF Waiting!Completion
    <2>3. /\ completion' = [completion EXCEPT ![c] = new]
          /\ waiting' = waiting /\ used' = used /\ waiter' = waiter /\ coordinator' = coordinator
      BY <1>2, <2>1 DEF Waiting!Complete
    <2> QED BY <1>0, <2>2, <2>3, WaitingMove
  <1>3. CASE Waiting!Interrupted(c)
    BY <1>0, <1>1, <1>3, WaitingMove DEF Waiting!Interrupted
  <1>4. CASE Waiting!ReplaceWaiter(c)
    <2>1. completion[c].runs \ completion[c].resumed \in SUBSET Runs
      BY <1>0 DEF Waiting!Completion
    <2>2. /\ waiter' \in [runs : SUBSET Runs, revision : Nat]
          /\ waiter' = waiter \/ waiter'.revision = waiter.revision + 1
      BY <1>0, <1>4, <2>1 DEF Waiting!ReplaceWaiter
    <2> QED BY <1>0, <1>1, <1>4, <2>2, WaitingMove DEF Waiting!ReplaceWaiter
  <1>5. ASSUME NEW r \in Runs, Waiting!Resume(c, r)
        PROVE  WaitingInv'
    <2>1. CASE waiting[r].status = "paused" /\ r \notin used
      <3>1. PICK new : new = [completion[c] EXCEPT !.left = completion[c].left \ {r},
                                                   !.resumed = completion[c].resumed \cup {r}]
        OBVIOUS
      <3>2. completion' = [completion EXCEPT ![c] = new]
        BY <1>0, <1>5, <2>1, <3>1 DEF Waiting!Resume, WaitingInv, Waiting!TypeOK, Waiting!Completion
      <3>3. /\ new \in Waiting!Completion /\ new.resumed = completion[c].resumed \cup {r}
            /\ new.at = completion[c].at /\ new.revision = completion[c].revision
            /\ new.runs = completion[c].runs
        BY <1>0, <3>1 DEF Waiting!Completion
      <3>4. [waiting[r] EXCEPT !.status = "running"] \in Waiting!Run
        BY <1>0 DEF Waiting!Run
      <3>5. /\ waiting' \in [Runs -> Waiting!Run] /\ used' = used \cup {r}
            /\ waiter' = waiter /\ coordinator' = coordinator
        BY <1>0, <1>5, <2>1, <3>4 DEF Waiting!Resume
      <3> QED BY <1>0, <3>2, <3>3, <3>5, WaitingMove DEF CompletionSound
    <2>2. CASE ~(waiting[r].status = "paused" /\ r \notin used)
      <3>1. PICK new : new = [completion[c] EXCEPT !.left = completion[c].left \ {r}]
        OBVIOUS
      <3>2. completion' = [completion EXCEPT ![c] = new]
        BY <1>0, <1>5, <2>2, <3>1 DEF Waiting!Resume, WaitingInv, Waiting!TypeOK
      <3>3. /\ new \in Waiting!Completion /\ new.resumed = completion[c].resumed
            /\ new.at = completion[c].at /\ new.revision = completion[c].revision
            /\ new.runs = completion[c].runs
        BY <1>0, <3>1 DEF Waiting!Completion
      <3>5. waiting' = waiting /\ used' = used /\ waiter' = waiter /\ coordinator' = coordinator
        BY <1>5, <2>2 DEF Waiting!Resume
      <3> QED BY <1>0, <3>2, <3>3, <3>5, WaitingMove DEF CompletionSound
    <2> QED BY <2>1, <2>2
  <1> QED BY <1>2, <1>3, <1>4, <1>5

LEMMA WaitingStep ==
    ASSUME WaitingInv, [Waiting!Next]_waitingVars
    PROVE  WaitingInv'
  <1>1. CASE Waiting!Next
    BY <1>1, WaitingCoordinator, WaitingCompletion, Zenon DEF Waiting!Next
  <1>2. CASE UNCHANGED waitingVars
    <2>1. /\ waiting' = waiting /\ used' = used /\ waiter' = waiter
          /\ coordinator' = coordinator /\ completion' = completion
      BY <1>2 DEF waitingVars
    <2>2. Waiting!TypeOK'
      BY <2>1 DEF WaitingInv, Waiting!TypeOK
    <2> QED BY <2>1, <2>2, WaitingElsewhere
  <1> QED BY <1>1, <1>2

LEMMA WaitingStart ==
    ASSUME Waiting!Init
    PROVE  WaitingInv
  <1>1. Waiting!TypeOK
    BY Bounds DEF Waiting!Init, Waiting!TypeOK, Waiting!Run, Waiting!Coordinator,
        Waiting!Completion, Waiting!Away, Waiting!NoCompletion
  <1>2. \A c \in Completions : CompletionSound(c)
    BY DEF Waiting!Init, Waiting!NoCompletion, CompletionSound
  <1> QED BY <1>1, <1>2 DEF WaitingInv

\* Only the replacement of an unchanged waiter takes runs out of it, and those were resumed.
LEMMA ForgetsNone ==
    ASSUME WaitingInv, [Waiting!Next]_waitingVars
    PROVE  Waiting!ForgetsNobody
  <1>1. CASE \E c \in Completions : Waiting!ReplaceWaiter(c)
    <2>1. PICK c \in Completions : Waiting!ReplaceWaiter(c)
      BY <1>1
    <2>2. CompletionSound(c)
      BY DEF WaitingInv
    <2>3. CASE waiter' = waiter
      BY <2>3 DEF Waiting!ForgetsNobody
    <2>4. CASE waiter' # waiter
      <3>1. /\ completion[c].at = "resuming" /\ waiter.revision = completion[c].revision
            /\ waiter'.runs = completion[c].runs \ completion[c].resumed
        BY <2>1, <2>4 DEF Waiting!ReplaceWaiter, Waiting!Unchanged
      <3> QED BY <2>2, <3>1 DEF CompletionSound, Waiting!ForgetsNobody
    <2> QED BY <2>3, <2>4
  <1>2. CASE \E r \in Runs : Waiting!Remember(r)
    BY <1>2 DEF Waiting!Remember, Waiting!ForgetsNobody
  <1>3. CASE waiter' = waiter
    BY <1>3 DEF Waiting!ForgetsNobody
  <1> QED
    BY <1>1, <1>2, <1>3
    DEF Waiting!Next, waitingVars, Waiting!LandOnLogin, Waiting!ReadWaiter, Waiting!Pause,
        Waiting!ResumeByHand, Waiting!Complete, Waiting!Interrupted, Waiting!Resume

\* A run recorded in a connection's waiter leaves it only after the setup's resume of it
\* was accepted (module WaitingRuns), whatever other runs are recorded and other
\* completions are resumed or interrupted meanwhile (_resume_waiting).
THEOREM NobodyForgotten == PartsSpec => WaiterNeverForgets
  <1> DEFINE Inv == part = "waiting" => WaitingInv
  <1>1. PartsInit => Inv
    BY WaitingStart DEF PartsInit
  <1>2. Inv /\ [PartsNext]_<<part, OrganisationVars, BrowserVars>> => Inv'
    BY EachPart, WaitingStep
  <1>3. Inv /\ [PartsNext]_<<part, OrganisationVars, BrowserVars>>
           => [part = "waiting" => Waiting!ForgetsNobody]_waitingVars
    BY EachPart, ForgetsNone
  <1> QED BY <1>1, <1>2, <1>3, PTL DEF PartsSpec, WaiterNeverForgets

-----------------------------------------------------------------------------
(***************************************************************************)
(* BrowserEgress                                                           *)
(***************************************************************************)

Operating == {"building", "undoing", "removing"}

\* An operation has a token of its own. The document is in the state of the operation
\* whose token it has, and nobody removes the gateway but with that token.
OperationSound(p) ==
    LET t == procs[p].token
        at == procs[p].at
    IN
    at \in Operating =>
        /\ t \in 1..tokens
        /\ \A q \in Egress!Processes : procs[q].at \in Operating /\ procs[q].token = t => q = p
        /\ at = "building" /\ egress.token = t => egress.status = "provisioning"
        /\ at # "building" => egress.token = t /\ egress.status = "deleting"

\* Who has asked for the gateway and was not refused has a lease until it lapses.
LeaseSound(w) ==
    w \notin lapsed =>
        /\ procs[w].at \in {"waiting", "asking", "building", "undoing", "granted"}
             => w \in egress.leases
        /\ procs[w].at = "granted" => egress.status = "ready"

EgressInv ==
    /\ Egress!TypeOK
    /\ egress.token # None => egress.token <= tokens
    /\ \A p \in Egress!Processes : OperationSound(p)
    /\ \A w \in Workers : LeaseSound(w)

LEMMA EgressTypes ==
    ASSUME EgressInv
    PROVE  /\ egress \in Egress!Egress /\ lapsed \subseteq Workers /\ stale \in BOOLEAN
           /\ procs \in [Egress!Processes -> Egress!Process]
           /\ tokens \in Nat /\ tokens <= MaxTokens /\ crashes \in 0..MaxCrashes
           /\ egress.leases \subseteq Workers
           /\ egress.token \in 1..tokens \cup {None} /\ None \notin Nat
           /\ egress.status \in {"provisioning", "deleting"} => egress.token # None
           /\ Workers \subseteq Egress!Processes /\ Reapers \subseteq Egress!Processes
           /\ \A r \in Reapers : r \notin Workers
  BY Bounds, PartsAssumption
  DEF EgressInv, Egress!TypeOK, Egress!Egress, Egress!Token, Egress!Processes

\* A process goes to another position, with a token of its own if it operates.
LEMMA EgressMove ==
    ASSUME EgressInv, NEW p \in Egress!Processes, NEW new \in Egress!Process,
           procs' = [procs EXCEPT ![p] = new],
           Egress!TypeOK', lapsed \subseteq lapsed', tokens' \in {tokens, tokens + 1},
           egress'.token # None => egress'.token <= tokens',
           \* the document
           \A w \in Workers \ {p} : w \notin lapsed' /\ w \in egress.leases => w \in egress'.leases,
           \A w \in Workers \ {p} : w \notin lapsed' /\ procs[w].at = "granted" => egress'.status = "ready",
           \A q \in Egress!Processes \ {p} : procs[q].at \in Operating =>
              \/ egress'.token = egress.token /\ egress'.status = egress.status
              \/ procs[q].at = "building" /\ egress'.token # procs[q].token,
           \* the process
           new.at \in Operating =>
              /\ new.token \in 1..tokens'
              /\ \A q \in Egress!Processes \ {p} : procs[q].at \in Operating => procs[q].token # new.token
              /\ new.at = "building" /\ egress'.token = new.token => egress'.status = "provisioning"
              /\ new.at # "building" => egress'.token = new.token /\ egress'.status = "deleting",
           p \in Workers /\ p \notin lapsed' =>
              /\ new.at \in {"waiting", "asking", "building", "undoing", "granted"} => p \in egress'.leases
              /\ new.at = "granted" => egress'.status = "ready"
    PROVE  EgressInv'
  <1>1. \A q \in Egress!Processes : procs'[q] = IF q = p THEN new ELSE procs[q]
    BY EgressTypes
  <1>2. ASSUME NEW q \in Egress!Processes
        PROVE  OperationSound(q)'
    <2>1. CASE q = p
      BY <1>1, <2>1 DEF OperationSound
    <2>2. CASE q # p
      BY <1>1, <2>2, EgressTypes DEF OperationSound, EgressInv
    <2> QED BY <2>1, <2>2
  <1>3. ASSUME NEW w \in Workers
        PROVE  LeaseSound(w)'
    BY <1>1, EgressTypes DEF LeaseSound, EgressInv
  <1> QED BY <1>2, <1>3 DEF EgressInv

LEMMA NewPosition ==
    ASSUME NEW at \in Egress!Position, NEW t \in 1..MaxTokens \cup {None}
    PROVE  [at |-> at, token |-> t] \in Egress!Process
  BY DEF Egress!Process, Egress!Token

LEMMA EgressTyped ==
    ASSUME EgressInv, NEW p, NEW new \in Egress!Process, procs' = [procs EXCEPT ![p] = new],
           egress' \in Egress!Egress,
           egress'.status \in {"provisioning", "deleting"} => egress'.token # None,
           stale' \in BOOLEAN, lapsed' \subseteq Workers,
           tokens' \in 0..MaxTokens, crashes' \in 0..MaxCrashes
    PROVE  Egress!TypeOK'
  <1>1. procs' \in [Egress!Processes -> Egress!Process]
    BY EgressTypes
  <1> QED BY <1>1 DEF Egress!TypeOK

\* A request changes the document in one transaction, with a token nobody has yet.
LEMMA EgressRequest ==
    ASSUME EgressInv, NEW p \in Egress!Processes, NEW new \in Egress!Process, NEW leases,
           procs' = [procs EXCEPT ![p] = new], Egress!NewToken,
           lapsed' = lapsed, crashes' = crashes, stale' = FALSE,
           leases \subseteq Workers,
           \A v \in Workers \ {p} : v \in egress.leases /\ v \notin lapsed => v \in leases,
           \/ /\ egress.status \in {"absent", "failed", "provisioning"}
              /\ egress' = [status |-> "provisioning", leases |-> leases, token |-> tokens']
           \/ /\ egress.status \in {"ready", "failed", "provisioning"} /\ leases = {}
              /\ egress' = [status |-> "deleting", leases |-> leases, token |-> tokens']
           \/ egress' = [egress EXCEPT !.leases = leases],
           new.at \in Operating =>
              /\ new.token = tokens' /\ egress'.token = tokens'
              /\ egress'.status = IF new.at = "building" THEN "provisioning" ELSE "deleting",
           p \in Workers /\ p \notin lapsed =>
              /\ new.at \in {"waiting", "asking", "building", "undoing", "granted"} => p \in leases
              /\ new.at = "granted" => egress'.status = "ready"
    PROVE  EgressInv'
  <1>0. tokens' = tokens + 1 /\ tokens' \in 1..MaxTokens
    BY EgressTypes, Bounds DEF Egress!NewToken
  <1>1. /\ egress' \in Egress!Egress /\ egress'.leases = leases
        /\ \/ /\ egress.status \in {"absent", "failed", "provisioning"}
              /\ egress'.status = "provisioning" /\ egress'.token = tokens'
           \/ /\ egress.status \in {"ready", "failed", "provisioning"} /\ leases = {}
              /\ egress'.status = "deleting" /\ egress'.token = tokens'
           \/ egress'.status = egress.status /\ egress'.token = egress.token
    BY <1>0, EgressTypes DEF Egress!Egress, Egress!Status, Egress!Token
  <1>2. Egress!TypeOK'
    <2>1. egress'.status \in {"provisioning", "deleting"} => egress'.token # None
      BY <1>0, <1>1, EgressTypes
    <2>2. stale' \in BOOLEAN /\ lapsed' \subseteq Workers /\ crashes' \in 0..MaxCrashes
      BY EgressTypes
    <2>3. tokens' \in 0..MaxTokens
      BY <1>0, Bounds
    <2> QED BY <1>1, <2>1, <2>2, <2>3, EgressTyped
  <1>3. \A q \in Egress!Processes : procs[q].at \in Operating =>
           /\ procs[q].token \in 1..tokens
           /\ procs[q].at # "building" => egress.status = "deleting"
    BY DEF EgressInv, OperationSound
  <1>4. \A v \in Workers : v \notin lapsed /\ procs[v].at = "granted" =>
           egress.status = "ready" /\ v \in egress.leases
    BY DEF EgressInv, LeaseSound
  <1>5. egress'.token # None => egress'.token <= tokens'
    BY <1>0, <1>1, EgressTypes DEF EgressInv
  <1>6. \A q \in Egress!Processes \ {p} : procs[q].at \in Operating =>
              /\ \/ egress'.token = egress.token /\ egress'.status = egress.status
                 \/ procs[q].at = "building" /\ egress'.token # procs[q].token
              /\ procs[q].token # tokens'
    BY <1>0, <1>1, <1>3, EgressTypes DEF Operating
  <1>7. new.at \in Operating =>
              /\ new.token \in 1..tokens'
              /\ \A q \in Egress!Processes \ {p} :
                    procs[q].at \in Operating => procs[q].token # new.token
    BY <1>0, <1>6
  <1>8. \A v \in Workers \ {p} :
            /\ v \notin lapsed' /\ v \in egress.leases => v \in egress'.leases
            /\ v \notin lapsed' /\ procs[v].at = "granted" => egress'.status = "ready"
    BY <1>1, <1>4
  <1> QED
    BY <1>0, <1>1, <1>2, <1>5, <1>6, <1>7, <1>8, EgressMove

LEMMA EgressAcquire ==
    ASSUME EgressInv, NEW w \in Workers, Egress!Acquire(w)
    PROVE  EgressInv'
  <1>0. /\ w \in Egress!Processes /\ Egress!NewToken /\ tokens' \in 1..MaxTokens
        /\ lapsed' = lapsed /\ crashes' = crashes /\ stale' = FALSE
        /\ egress' = Egress!RequestAcquire(w, tokens')
    BY EgressTypes, Bounds DEF Egress!Acquire, Egress!NewToken
  <1>1. PICK new :
           /\ new = IF egress'.status = "ready" THEN Egress!Rest("granted")
                    ELSE IF egress'.status = "provisioning" /\ egress'.token = tokens'
                         THEN [at |-> "building", token |-> tokens']
                         ELSE Egress!Rest("waiting")
           /\ procs' = [procs EXCEPT ![w] = new]
    BY DEF Egress!Acquire, Egress!Proceed
  <1>2. /\ new \in Egress!Process
        /\ new.at \in {"granted", "building", "waiting"}
        /\ new.at = "granted" => egress'.status = "ready"
        /\ new.at = "building" =>
              egress'.status = "provisioning" /\ egress'.token = tokens' /\ new.token = tokens'
    BY <1>0, <1>1, NewPosition DEF Egress!Rest, Egress!Position
  <1>3. PICK leases : leases = Egress!Unlapsed(egress.leases) \cup {w}
    OBVIOUS
  <1>4. /\ leases \subseteq Workers /\ w \in leases
        /\ \A v \in Workers : v \in egress.leases /\ v \notin lapsed => v \in leases
    BY <1>3, EgressTypes DEF Egress!Unlapsed
  <1>5. \/ /\ egress.status \in {"absent", "failed", "provisioning"}
           /\ egress' = [status |-> "provisioning", leases |-> leases, token |-> tokens']
        \/ egress' = [egress EXCEPT !.leases = leases]
    BY <1>0, <1>3 DEF Egress!RequestAcquire, Egress!Unused, Egress!Overdue
  <1> QED BY <1>0, <1>1, <1>2, <1>4, <1>5, EgressRequest DEF Operating

LEMMA EgressRelease ==
    ASSUME EgressInv, NEW w \in Workers, Egress!Release(w)
    PROVE  EgressInv'
  <1>0. /\ w \in Egress!Processes /\ Egress!NewToken /\ tokens' \in 1..MaxTokens
        /\ lapsed' = lapsed /\ crashes' = crashes /\ stale' = FALSE
        /\ egress' = Egress!RequestRelease(w, tokens')
    BY EgressTypes, Bounds DEF Egress!Release, Egress!NewToken
  <1>1. PICK new :
           /\ new = IF egress'.status = "deleting" /\ egress'.token = tokens'
                    THEN [at |-> "removing", token |-> tokens'] ELSE Egress!Rest("idle")
           /\ procs' = [procs EXCEPT ![w] = new]
    BY DEF Egress!Release
  <1>2. /\ new \in Egress!Process
        /\ new.at \in {"idle", "removing"}
        /\ new.at = "removing" =>
              egress'.status = "deleting" /\ egress'.token = tokens' /\ new.token = tokens'
    BY <1>0, <1>1, NewPosition DEF Egress!Rest, Egress!Position
  <1>3. PICK leases : leases = Egress!Unlapsed(egress.leases) \ {w}
    OBVIOUS
  <1>4. /\ leases \subseteq Workers
        /\ \A v \in Workers \ {w} : v \in egress.leases /\ v \notin lapsed => v \in leases
    BY <1>3, EgressTypes DEF Egress!Unlapsed
  <1>5. \/ /\ egress.status \in {"ready", "failed", "provisioning"} /\ leases = {}
           /\ egress' = [status |-> "deleting", leases |-> leases, token |-> tokens']
        \/ egress' = [egress EXCEPT !.leases = leases]
    BY <1>0, <1>3 DEF Egress!RequestRelease
  <1> QED BY <1>0, <1>1, <1>2, <1>4, <1>5, EgressRequest DEF Operating

LEMMA EgressReconcile ==
    ASSUME EgressInv, NEW r \in Reapers, Egress!Reconcile(r)
    PROVE  EgressInv'
  <1>0. /\ r \in Egress!Processes /\ Egress!NewToken /\ tokens' \in 1..MaxTokens
        /\ lapsed' = lapsed /\ crashes' = crashes /\ stale' = FALSE
        /\ egress' = Egress!RequestReconcile(tokens') /\ r \notin Workers
    BY EgressTypes, Bounds DEF Egress!Reconcile, Egress!NewToken
  <1>1. PICK new :
           /\ new = IF egress'.token # tokens' THEN Egress!Rest("idle")
                    ELSE [at |-> IF egress'.status = "provisioning" THEN "building" ELSE "removing",
                          token |-> tokens']
           /\ procs' = [procs EXCEPT ![r] = new]
    BY DEF Egress!Reconcile
  <1>2. /\ new \in Egress!Process
        /\ new.at \in {"idle", "building", "removing"}
        /\ new.at # "idle" =>
              /\ egress'.token = tokens' /\ new.token = tokens'
              /\ new.at = IF egress'.status = "provisioning" THEN "building" ELSE "removing"
    BY <1>0, <1>1, NewPosition DEF Egress!Rest, Egress!Position
  <1>3. PICK leases : leases = Egress!Unlapsed(egress.leases)
    OBVIOUS
  <1>4. /\ leases \subseteq Workers
        /\ \A v \in Workers : v \in egress.leases /\ v \notin lapsed => v \in leases
    BY <1>3, EgressTypes DEF Egress!Unlapsed
  <1>5. \/ /\ egress.status \in {"absent", "failed", "provisioning"}
           /\ egress' = [status |-> "provisioning", leases |-> leases, token |-> tokens']
        \/ /\ egress.status \in {"ready", "failed", "provisioning"} /\ leases = {}
           /\ egress' = [status |-> "deleting", leases |-> leases, token |-> tokens']
        \/ egress' = [egress EXCEPT !.leases = leases]
    BY <1>0, <1>3 DEF Egress!RequestReconcile, Egress!Unused, Egress!Overdue
  <1>6. egress'.token = tokens' => egress'.status \in {"provisioning", "deleting"}
    <2>1. egress.token # tokens'
      BY <1>0, EgressTypes DEF Egress!NewToken
    <2>2. [egress EXCEPT !.leases = leases].token = egress.token
      BY EgressTypes DEF Egress!Egress
    <2>3. egress' # [egress EXCEPT !.leases = leases] \/ egress'.token # tokens'
      BY <2>1, <2>2
    <2> QED BY <1>5, <2>3
  <1>7. new.at \in Operating =>
              /\ new.token = tokens' /\ egress'.token = tokens'
              /\ egress'.status = IF new.at = "building" THEN "provisioning" ELSE "deleting"
    BY <1>2, <1>6 DEF Operating
  <1> QED BY <1>0, <1>1, <1>2, <1>4, <1>5, <1>7, EgressRequest

LEMMA Resting ==
    ASSUME NEW at \in Egress!Position
    PROVE  Egress!Rest(at) \in Egress!Process /\ Egress!Rest(at).at = at
  BY NewPosition DEF Egress!Rest

\* A process waits, asks, is granted or ends, and leaves the document alone.
LEMMA EgressPause ==
    ASSUME EgressInv, NEW p \in Egress!Processes,
           NEW at \in {"idle", "waiting", "asking", "granted"},
           procs' = [procs EXCEPT ![p] = Egress!Rest(at)],
           UNCHANGED <<egress, stale, lapsed, tokens>>, crashes' \in 0..MaxCrashes,
           at = "idle" \/ procs[p].at = "waiting",
           at = "granted" => egress.status = "ready"
    PROVE  EgressInv'
  <1>1. PICK new : new = Egress!Rest(at)
    OBVIOUS
  <1>2. new \in Egress!Process /\ new.at = at /\ new.at \notin Operating
    BY <1>1, Resting DEF Egress!Position, Operating
  <1>3. egress' = egress /\ stale' = stale /\ lapsed' = lapsed /\ tokens' = tokens
    OBVIOUS
  <1>4. Egress!TypeOK'
    <2>1. /\ stale' \in BOOLEAN /\ lapsed' \subseteq Workers
          /\ tokens' \in 0..MaxTokens /\ egress' \in Egress!Egress
          /\ egress'.status \in {"provisioning", "deleting"} => egress'.token # None
      BY <1>3, EgressTypes, Bounds
    <2> QED BY <1>1, <1>2, <2>1, EgressTyped
  <1>5. \A w \in Workers : w \notin lapsed => LeaseSound(w)
    BY DEF EgressInv
  <1>6. \A w \in Workers : w \notin lapsed /\ procs[w].at = "granted" => egress.status = "ready"
    BY <1>5 DEF LeaseSound
  <1>7. p \in Workers /\ p \notin lapsed' =>
              (new.at \in {"waiting", "asking", "building", "undoing", "granted"}
                 => p \in egress'.leases)
    BY <1>2, <1>3, <1>5 DEF LeaseSound
  <1>8. egress'.token # None => egress'.token <= tokens'
    BY <1>3 DEF EgressInv
  <1> QED BY <1>1, <1>2, <1>3, <1>4, <1>6, <1>7, <1>8, EgressMove

LEMMA EgressLooks ==
    ASSUME EgressInv, NEW w \in Workers, Egress!Poll(w) \/ Egress!GiveUp(w)
    PROVE  EgressInv'
  <1>1. PICK at \in {"idle", "asking", "granted"} :
           /\ procs' = [procs EXCEPT ![w] = Egress!Rest(at)]
           /\ at = "idle" \/ procs[w].at = "waiting"
           /\ at = "granted" => egress.status = "ready"
    BY DEF Egress!Poll, Egress!GiveUp
  <1>2. UNCHANGED <<egress, stale, lapsed, tokens, crashes>>
    BY DEF Egress!Poll, Egress!GiveUp
  <1> QED BY <1>1, <1>2, EgressPause, EgressTypes

LEMMA EgressCrash ==
    ASSUME EgressInv, NEW p \in Egress!Processes, Egress!Crash(p)
    PROVE  EgressInv'
  <1>1. /\ procs' = [procs EXCEPT ![p] = Egress!Rest("idle")]
        /\ UNCHANGED <<egress, stale, lapsed, tokens>>
        /\ crashes' \in 0..MaxCrashes
    BY EgressTypes, Bounds DEF Egress!Crash
  <1> QED BY <1>1, EgressPause

\* An operation ends. The document is another only if it has the operation's token.
LEMMA EgressOperated ==
    ASSUME EgressInv, NEW p \in Egress!Processes, NEW new \in Egress!Process,
           procs[p].at \in Operating,
           procs' = [procs EXCEPT ![p] = new],
           UNCHANGED <<lapsed, tokens, crashes>>, stale' \in BOOLEAN,
           egress' = egress \/ egress.token = procs[p].token,
           egress' \in Egress!Egress, Egress!Unlapsed(egress.leases) \subseteq egress'.leases,
           egress'.token \in {egress.token, None},
           egress'.status \in {"provisioning", "deleting"} => egress'.token # None,
           new.at \in {"idle", "waiting", "undoing"},
           new.at = "waiting" => p \in Workers /\ procs[p].at # "removing",
           new.at = "undoing" =>
              /\ procs[p].at = "building" /\ new.token = procs[p].token
              /\ egress'.token = procs[p].token /\ egress'.status = "deleting"
    PROVE  EgressInv'
  <1>1. /\ tokens' = tokens /\ lapsed' = lapsed /\ crashes' = crashes
        /\ procs[p].token \in 1..tokens /\ procs[p].token # None
        /\ \A q \in Egress!Processes \ {p} :
              procs[q].at \in Operating => procs[q].token \in 1..tokens /\ procs[q].token # procs[p].token
        /\ egress.token = procs[p].token => egress.status \in {"provisioning", "deleting"}
    BY EgressTypes DEF EgressInv, OperationSound, Operating
  <1>2. Egress!TypeOK'
    <2>1. /\ stale' \in BOOLEAN /\ lapsed' \subseteq Workers
          /\ tokens' \in 0..MaxTokens /\ crashes' \in 0..MaxCrashes
      BY <1>1, EgressTypes, Bounds
    <2> QED BY <2>1, EgressTyped
  <1>3. \A q \in Egress!Processes \ {p} : procs[q].at \in Operating =>
              \/ egress'.token = egress.token /\ egress'.status = egress.status
              \/ procs[q].at = "building" /\ egress'.token # procs[q].token
    <2> SUFFICES ASSUME NEW q \in Egress!Processes \ {p}, procs[q].at \in Operating, egress' # egress
                 PROVE  procs[q].at = "building" /\ egress'.token # procs[q].token
      OBVIOUS
    <2>1. egress.token # procs[q].token /\ procs[q].token # None
      BY <1>1, EgressTypes
    <2>2. procs[q].at # "building" => egress.token = procs[q].token
      BY DEF EgressInv, OperationSound
    <2> QED BY <2>1, <2>2
  <1>4. \A v \in Workers : v \notin lapsed => LeaseSound(v)
    BY DEF EgressInv
  <1>5. \A v \in Workers \ {p} :
            /\ v \notin lapsed' /\ v \in egress.leases => v \in egress'.leases
            /\ v \notin lapsed' /\ procs[v].at = "granted" => egress'.status = "ready"
    BY <1>1, <1>4 DEF LeaseSound, Egress!Unlapsed
  <1>6. p \in Workers /\ p \notin lapsed' =>
              (new.at \in {"waiting", "asking", "building", "undoing", "granted"}
                 => p \in egress'.leases)
    BY <1>1, <1>4 DEF LeaseSound, Egress!Unlapsed, Operating
  <1>7. egress'.token # None => egress'.token <= tokens'
    BY <1>1 DEF EgressInv
  <1>8. new.at \in Operating =>
           /\ new.at = "undoing" /\ new.token \in 1..tokens'
           /\ \A q \in Egress!Processes \ {p} : procs[q].at \in Operating => procs[q].token # new.token
    BY <1>1 DEF Operating
  <1> QED BY <1>1, <1>2, <1>3, <1>5, <1>6, <1>7, <1>8, EgressMove

LEMMA EgressBuilt ==
    ASSUME EgressInv, NEW p \in Egress!Processes, Egress!Built(p)
    PROVE  EgressInv'
  <1>1. PICK t, leases : t = procs[p].token /\ leases = Egress!Unlapsed(egress.leases)
    OBVIOUS
  <1>2. PICK new :
           /\ new = IF egress'.status = "deleting" /\ egress'.token = t
                    THEN [at |-> "undoing", token |-> t] ELSE Egress!Back(p)
           /\ procs' = [procs EXCEPT ![p] = new]
    BY <1>1 DEF Egress!Built
  <1>3. /\ procs[p].at = "building" /\ t \in 1..MaxTokens
        /\ egress.token = t => egress.status = "provisioning"
    BY <1>1, EgressTypes, Bounds
    DEF Egress!Built, EgressInv, OperationSound, Operating
  <1>4. /\ new \in Egress!Process
        /\ new.at \in {"idle", "waiting", "undoing"}
        /\ new.at = "waiting" => p \in Workers
        /\ new.at = "undoing" =>
              new.token = t /\ egress'.token = t /\ egress'.status = "deleting"
    BY <1>2, <1>3, NewPosition, Resting DEF Egress!Back, Egress!Position
  <1>5. \/ egress' = egress /\ stale' = stale
        \/ /\ egress.token = t /\ stale' = FALSE
           /\ egress' = [egress EXCEPT !.status = IF leases # {} THEN "ready" ELSE "deleting",
                                       !.leases = leases]
    BY <1>1 DEF Egress!Built, Egress!Current, Egress!FinishProvision
  <1>6. leases \subseteq egress.leases
    BY <1>1 DEF Egress!Unlapsed
  <1>7. /\ egress' \in Egress!Egress /\ leases \subseteq egress'.leases
        /\ egress'.token = egress.token /\ stale' \in BOOLEAN
        /\ egress' = egress \/ egress.token = t
        /\ egress'.status \in {"provisioning", "deleting"} => egress'.token # None
    BY <1>3, <1>5, <1>6, EgressTypes DEF Egress!Egress, Egress!Status
  <1> QED BY <1>1, <1>2, <1>3, <1>4, <1>7, EgressOperated DEF Operating, Egress!Built

LEMMA EgressRemoved ==
    ASSUME EgressInv, NEW p \in Egress!Processes, Egress!Removed(p)
    PROVE  EgressInv'
  <1>1. PICK t, leases : t = procs[p].token /\ leases = Egress!Unlapsed(egress.leases)
    OBVIOUS
  <1>2. PICK new :
           /\ new = IF procs[p].at = "undoing" THEN Egress!Back(p) ELSE Egress!Rest("idle")
           /\ procs' = [procs EXCEPT ![p] = new]
    BY DEF Egress!Removed
  <1>3. procs[p].at \in {"undoing", "removing"}
    BY DEF Egress!Removed
  <1>4. /\ new \in Egress!Process
        /\ new.at \in {"idle", "waiting"}
        /\ new.at = "waiting" => p \in Workers /\ procs[p].at = "undoing"
    BY <1>2, Resting DEF Egress!Back, Egress!Position
  <1>5. \/ egress' = egress /\ stale' = stale
        \/ /\ egress.token = t /\ stale' = FALSE
           /\ egress' = [status |-> "absent", leases |-> leases, token |-> None]
    BY <1>1 DEF Egress!Removed, Egress!Current, Egress!FinishDelete
  <1>6. leases \subseteq egress.leases
    BY <1>1 DEF Egress!Unlapsed
  <1>7. /\ egress' \in Egress!Egress /\ leases \subseteq egress'.leases
        /\ egress'.token \in {egress.token, None} /\ stale' \in BOOLEAN
        /\ egress' = egress \/ egress.token = t
        /\ egress'.status \in {"provisioning", "deleting"} => egress'.token # None
    <2>1. CASE egress' = egress /\ stale' = stale
      BY <1>6, <2>1, EgressTypes
    <2>2. CASE /\ egress.token = t /\ stale' = FALSE
               /\ egress' = [status |-> "absent", leases |-> leases, token |-> None]
      BY <1>6, <2>2, EgressTypes DEF Egress!Egress, Egress!Status, Egress!Token
    <2> QED BY <1>5, <2>1, <2>2
  <1> QED BY <1>1, <1>2, <1>3, <1>4, <1>7, EgressOperated DEF Operating, Egress!Removed

LEMMA EgressFails ==
    ASSUME EgressInv, NEW p \in Egress!Processes, Egress!Fails(p)
    PROVE  EgressInv'
  <1>1. PICK t : t = procs[p].token
    OBVIOUS
  <1>2. PICK at \in {"idle", "waiting"} :
           /\ procs' = [procs EXCEPT ![p] = Egress!Rest(at)]
           /\ at = "waiting" => p \in Workers /\ procs[p].at # "removing"
    BY DEF Egress!Fails
  <1>3. PICK new : new = Egress!Rest(at)
    OBVIOUS
  <1>4. new \in Egress!Process /\ new.at = at
    BY <1>3, Resting DEF Egress!Position
  <1>5. \/ egress' = egress
        \/ egress.token = t /\ egress' = [egress EXCEPT !.status = "failed", !.token = None]
    BY <1>1 DEF Egress!Fails, Egress!Failed
  <1>6. /\ egress' \in Egress!Egress /\ egress.leases = egress'.leases
        /\ egress'.token \in {egress.token, None} /\ stale' \in BOOLEAN
        /\ egress' = egress \/ egress.token = t
        /\ egress'.status \in {"provisioning", "deleting"} => egress'.token # None
    BY <1>5, EgressTypes DEF Egress!Egress, Egress!Status, Egress!Fails
  <1>7. Egress!Unlapsed(egress.leases) \subseteq egress'.leases
    BY <1>6 DEF Egress!Unlapsed
  <1> QED BY <1>1, <1>2, <1>3, <1>4, <1>6, <1>7, EgressOperated DEF Operating, Egress!Fails

\* Time: a lease lapses, an operation grows old.
LEMMA EgressTime ==
    ASSUME EgressInv, UNCHANGED <<egress, procs, tokens, crashes>>,
           lapsed \subseteq lapsed', lapsed' \subseteq Workers, stale' \in BOOLEAN
    PROVE  EgressInv'
  <1>1. egress' = egress /\ procs' = procs /\ tokens' = tokens /\ crashes' = crashes
    OBVIOUS
  <1>2. Egress!TypeOK' /\ (egress'.token # None => egress'.token <= tokens')
    BY <1>1 DEF EgressInv, Egress!TypeOK
  <1>3. \A p \in Egress!Processes : OperationSound(p)'
    BY <1>1 DEF EgressInv, OperationSound
  <1>4. \A w \in Workers : LeaseSound(w)'
    BY <1>1 DEF EgressInv, LeaseSound
  <1> QED BY <1>2, <1>3, <1>4 DEF EgressInv

LEMMA EgressStep ==
    ASSUME EgressInv, [Egress!Next]_egressVars
    PROVE  EgressInv'
  <1>1. ASSUME NEW w \in Workers, Egress!Lapse(w)
        PROVE  EgressInv'
    <2>1. lapsed' = lapsed \cup {w} /\ UNCHANGED <<egress, stale, procs, tokens, crashes>>
      BY <1>1 DEF Egress!Lapse
    <2> QED BY <2>1, EgressTime, EgressTypes
  <1>2. CASE Egress!GrowStale
    <2>1. stale' = TRUE /\ UNCHANGED <<egress, lapsed, procs, tokens, crashes>>
      BY <1>2 DEF Egress!GrowStale
    <2> QED BY <2>1, EgressTime, EgressTypes
  <1>3. CASE UNCHANGED egressVars
    <2>1. UNCHANGED <<egress, stale, lapsed, procs, tokens, crashes>>
      BY <1>3 DEF egressVars
    <2> QED BY <2>1, EgressTime, EgressTypes
  <1>4. CASE Egress!Next
    BY <1>1, <1>2, <1>4, EgressAcquire, EgressLooks, EgressRelease, EgressBuilt, EgressRemoved,
       EgressFails, EgressCrash, EgressReconcile, Zenon
    DEF Egress!Next
  <1> QED BY <1>3, <1>4

LEMMA EgressStart ==
    ASSUME Egress!Init
    PROVE  EgressInv
  <1>1. Egress!TypeOK
    <2>1. egress \in Egress!Egress /\ egress.status \notin {"provisioning", "deleting"}
      BY DEF Egress!Init, Egress!Egress, Egress!Status
    <2>2. procs \in [Egress!Processes -> Egress!Process]
      BY Resting DEF Egress!Init, Egress!Position
    <2>3. stale \in BOOLEAN /\ lapsed \subseteq Workers
      BY DEF Egress!Init
    <2>4. tokens \in 0..MaxTokens /\ crashes \in 0..MaxCrashes
      BY Bounds DEF Egress!Init
    <2> QED BY <2>1, <2>2, <2>3, <2>4 DEF Egress!TypeOK
  <1>2. /\ egress.token = None /\ tokens = 0
        /\ \A p \in Egress!Processes : procs[p].at = "idle"
    BY Resting DEF Egress!Init, Egress!Position
  <1>3. /\ \A p \in Egress!Processes : OperationSound(p)
        /\ \A w \in Workers : LeaseSound(w)
    BY <1>2 DEF OperationSound, Operating, LeaseSound, Egress!Processes
  <1> QED BY <1>1, <1>2, <1>3 DEF EgressInv

\* An egress that was granted stays open, and nobody is removing it, until its worker
\* gives it up or its lease lapses (module BrowserEgress), whoever was taken over,
\* failed, died or released it meanwhile (BrowserEgressManager).
THEOREM GrantedIsOpen == PartsSpec => []GrantedStaysOpen
  <1> DEFINE Inv == part = "egress" => EgressInv
  <1>1. PartsInit => Inv
    BY EgressStart DEF PartsInit
  <1>2. Inv /\ [PartsNext]_<<part, OrganisationVars, BrowserVars>> => Inv'
    BY EachPart, EgressStep
  <1>3. EgressInv => Egress!GrantedStaysOpen
    BY EgressTypes
    DEF Egress!GrantedStaysOpen, EgressInv, LeaseSound, OperationSound, Operating
  <1>4. Inv => GrantedStaysOpen
    BY <1>3 DEF GrantedStaysOpen
  <1> QED BY <1>1, <1>2, <1>4, PTL DEF PartsSpec

-----------------------------------------------------------------------------
(***************************************************************************)
(* BrowserSession                                                          *)
(***************************************************************************)

Armed == {"armed", "capturing", "completing"}

\* The capture is that of c.
CapturedBy(c) == browser.status = "capturing" /\ browser.captor = c

\* Who has armed the barrier and still has a copy of the present revision is the captor.
SessionInv ==
    /\ Session!TypeOK
    /\ \A e \in Executions : agent[e].at \in Armed /\ e \in holders => CapturedBy(e)
    /\ \A o \in Operators : operator[o] = "capturing" /\ o \in holders => CapturedBy(o)

LEMMA SessionTypes ==
    ASSUME SessionInv
    PROVE  /\ run \in [status : {"running", "paused", "failed"}, fence : 1..MaxFence]
           /\ browser \in Session!Session /\ vm \in BOOLEAN
           /\ holders \subseteq Executions \cup Operators
           /\ agent \in [Executions -> Session!Agent]
           /\ operator \in [Operators -> {"away", "connected", "capturing"}]
           /\ \A e \in Executions : agent[e].at \in Session!Working => vm
           /\ \A o \in Operators : operator[o] # "away" => vm
  BY DEF SessionInv, Session!TypeOK

LEMMA AwayTyped == Session!Away \in Session!Agent /\ Session!Away.at = "idle"
  BY Bounds DEF Session!Away, Session!Agent

LEMMA ArmedWorks == Armed \subseteq Session!Working /\ "idle" \notin Session!Working
  BY DEF Armed, Session!Working

\* A step of a caller e: what it leaves to the others, and what it has to show for itself.
LEMMA SessionMove ==
    ASSUME SessionInv, Session!TypeOK', NEW e,
           \/ /\ browser'.status = browser.status /\ browser'.captor = browser.captor
              /\ holders' \subseteq holders \cup {e}
           \/ holders' \subseteq {e},
           \A x \in Executions \ {e} : agent'[x].at \in Armed => agent[x].at \in Armed,
           \A o \in Operators \ {e} : operator'[o] = "capturing" => operator[o] = "capturing",
           e \in Executions /\ agent'[e].at \in Armed /\ e \in holders' => CapturedBy(e)',
           e \in Operators /\ operator'[e] = "capturing" /\ e \in holders' => CapturedBy(e)'
    PROVE  SessionInv'
  <1>1. ASSUME NEW x \in Executions, agent'[x].at \in Armed, x \in holders'
        PROVE  CapturedBy(x)'
    <2>1. CASE x = e
      BY <1>1, <2>1
    <2>2. CASE x # e
      BY <1>1, <2>2 DEF SessionInv, CapturedBy
    <2> QED BY <2>1, <2>2
  <1>2. ASSUME NEW o \in Operators, operator'[o] = "capturing", o \in holders'
        PROVE  CapturedBy(o)'
    <2>1. CASE o = e
      BY <1>2, <2>1
    <2>2. CASE o # e
      BY <1>2, <2>2 DEF SessionInv, CapturedBy
    <2> QED BY <2>1, <2>2
  <1> QED BY <1>1, <1>2 DEF SessionInv

\* The same with the machine as it was, the execution e going on as a.
LEMMA SessionGoes ==
    ASSUME SessionInv, NEW e \in Executions, NEW a \in Session!Agent,
           agent' = [agent EXCEPT ![e] = a], UNCHANGED <<vm, operator>>,
           a.at \in Session!Working => vm,
           run' \in [status : {"running", "paused", "failed"}, fence : 1..MaxFence],
           browser' \in Session!Session,
           \/ UNCHANGED browser /\ holders' \subseteq holders \cup {e}
           \/ holders' \subseteq {e},
           a.at \in Armed /\ e \in holders' => CapturedBy(e)'
    PROVE  SessionInv'
  <1>1. agent' \in [Executions -> Session!Agent] /\ agent'[e] = a
    BY SessionTypes
  <1>2. \A x \in Executions \ {e} : agent'[x] = agent[x]
    BY SessionTypes
  <1>3. \A x \in Executions : agent'[x].at \in Session!Working => vm'
    BY <1>1, <1>2, SessionTypes
  <1>4. holders' \subseteq Executions \cup Operators
    BY SessionTypes
  <1>5. Session!TypeOK'
    BY <1>1, <1>3, <1>4, SessionTypes DEF Session!TypeOK
  <1>6. e \notin Operators
    BY PartsAssumption
  <1> QED BY <1>1, <1>2, <1>5, <1>6, SessionMove

LEMMA HaltedTyped ==
    ASSUME NEW a \in Session!Agent
    PROVE  /\ Session!Halted(a) \in Session!Agent
           /\ Session!Halted(a).at \notin Session!Working
  <1>1. CASE a.at \notin Session!Working
    BY <1>1 DEF Session!Halted
  <1>2. CASE a.at \in Session!Working /\ a.deserted
    BY <1>2, AwayTyped, ArmedWorks DEF Session!Halted
  <1>3. CASE a.at \in Session!Working /\ ~a.deserted
    <2>1. PICK new : new = [a EXCEPT !.at = "broken"]
      OBVIOUS
    <2>2. new \in Session!Agent /\ new.at = "broken"
      BY <2>1 DEF Session!Agent, Session!Coordinating
    <2> QED BY <1>3, <2>1, <2>2 DEF Session!Halted, Session!Working
  <1> QED BY <1>1, <1>2, <1>3

\* The machine is created, deleted or stays, and e goes on as a.
LEMMA SessionMachine ==
    ASSUME SessionInv, NEW e \in Executions \cup {None}, NEW a \in Session!Agent, NEW there \in BOOLEAN,
           Session!Machine(there, e, a), a.at \notin Session!Working,
           there => vm \/ a.at = "attaching",
           run' \in [status : {"running", "paused", "failed"}, fence : 1..MaxFence],
           browser' \in Session!Session,
           \/ UNCHANGED <<browser, holders>>
           \/ holders' = {}
           \/ UNCHANGED browser /\ holders' \subseteq holders
    PROVE  SessionInv'
  <1>1. \A x \in Executions :
           agent'[x] = IF x = e THEN a ELSE IF there THEN agent[x] ELSE Session!Halted(agent[x])
    BY DEF Session!Machine
  <1>2. \A x \in Executions : agent'[x] \in Session!Agent
    BY <1>1, SessionTypes, HaltedTyped
  <1>3. agent' \in [Executions -> Session!Agent]
    BY <1>2 DEF Session!Machine
  <1>4. \A x \in Executions : agent'[x].at \in Session!Working =>
           there /\ agent'[x] = agent[x]
    BY <1>1, SessionTypes, HaltedTyped
  <1>5. \A o \in Operators : operator'[o] # "away" => there /\ operator'[o] = operator[o]
    BY SessionTypes DEF Session!Machine
  <1>6. operator' \in [Operators -> {"away", "connected", "capturing"}] /\ vm' = there
    BY SessionTypes DEF Session!Machine
  <1>7. holders' \subseteq holders
    BY SessionTypes
  <1>8. Session!TypeOK'
    BY <1>3, <1>4, <1>5, <1>6, <1>7, SessionTypes DEF Session!TypeOK
  <1>9. \A x \in Executions : agent'[x].at \in Armed => agent[x].at \in Armed
    BY <1>4, ArmedWorks
  <1>10. \A o \in Operators : operator'[o] = "capturing" => operator[o] = "capturing"
    BY <1>5
  <1>11. \/ browser' = browser /\ holders' \subseteq holders
         \/ holders' = {}
    OBVIOUS
  <1>12. \A x \in Executions : agent'[x].at \in Armed /\ x \in holders' => CapturedBy(x)'
    BY <1>9, <1>11 DEF SessionInv, CapturedBy
  <1>13. \A o \in Operators : operator'[o] = "capturing" /\ o \in holders' => CapturedBy(o)'
    BY <1>10, <1>11 DEF SessionInv, CapturedBy
  <1> QED BY <1>8, <1>12, <1>13 DEF SessionInv

Positions == {"idle"} \cup Session!Coordinating \cup Session!Working

LEMMA SessionGoto ==
    ASSUME SessionInv, NEW e \in Executions, NEW position \in Positions,
           Session!Goto(e, position)
    PROVE  \E a \in Session!Agent :
              agent' = [agent EXCEPT ![e] = a] /\ a.at = position
  <1>1. PICK a : a = [agent[e] EXCEPT !.at = position]
    OBVIOUS
  <1>2. agent[e] \in Session!Agent
    BY SessionTypes
  <1>3. a \in Session!Agent /\ a.at = position
    BY <1>1, <1>2 DEF Session!Agent, Positions
  <1>4. agent' = [agent EXCEPT ![e] = a]
    BY <1>1, SessionTypes DEF Session!Goto
  <1> QED BY <1>3, <1>4

LEMMA SessionPut ==
    ASSUME NEW document \in Session!Session, Session!Put(document)
    PROVE  browser' \in Session!Session /\ holders' = {} /\ browser'.status = document.status
  BY DEF Session!Put, Session!Session

LEMMA SessionWrite ==
    ASSUME NEW document \in Session!Session, NEW c, Session!Write(c, document)
    PROVE  /\ browser' \in Session!Session /\ holders' = {c}
           /\ browser'.status = document.status
           /\ document.status = "capturing" => browser'.captor = document.captor
  BY DEF Session!Write, Session!Session

LEMMA SessionEndCall ==
    ASSUME SessionInv, NEW e, NEW status \in {"paused", "failed"}, Session!EndCall(e, status)
    PROVE  run' \in [status : {"running", "paused", "failed"}, fence : 1..MaxFence]
  BY SessionTypes DEF Session!EndCall

\* terminate, also where it is refused.
LEMMA SessionTerminate ==
    ASSUME SessionInv, NEW e \in Executions, Session!Terminate(e, Session!Away),
           run' \in [status : {"running", "paused", "failed"}, fence : 1..MaxFence]
    PROVE  SessionInv'
  <1>1. CASE /\ Session!Put([browser EXCEPT !.status = IF @ \in Session!Live THEN "terminated" ELSE @])
             /\ Session!Machine(vm /\ ~browser.worker, e, Session!Away)
    <2>1. PICK document : document =
              [browser EXCEPT !.status = IF browser.status \in Session!Live THEN "terminated"
                                         ELSE browser.status]
      OBVIOUS
    <2>2. document \in Session!Session
      BY <2>1, SessionTypes DEF Session!Session
    <2>3. Session!Put(document)
      BY <1>1, <2>1
    <2>4. browser' \in Session!Session /\ holders' = {}
      BY <2>2, <2>3, SessionPut
    <2>5. (vm /\ ~browser.worker) \in BOOLEAN
      OBVIOUS
    <2>6. Session!Away.at \notin Session!Working
      BY AwayTyped, ArmedWorks
    <2> QED BY <1>1, <2>4, <2>5, <2>6, AwayTyped, SessionMachine
  <1>2. CASE Session!Drop(e) /\ Session!Machine(vm, e, Session!Away)
    <2>1. UNCHANGED browser /\ holders' \subseteq holders
      BY <1>2 DEF Session!Drop
    <2>2. Session!Away.at \notin Session!Working
      BY AwayTyped, ArmedWorks
    <2> QED BY <1>2, <2>1, <2>2, AwayTyped, SessionTypes, SessionMachine
  <1> QED BY <1>1, <1>2 DEF Session!Terminate

\* An execution that leaves, having dropped its copy or written the session.
LEMMA SessionLeaves ==
    ASSUME SessionInv, NEW e \in Executions, Session!Leave(e), UNCHANGED <<vm, operator>>,
           run' \in [status : {"running", "paused", "failed"}, fence : 1..MaxFence],
           browser' \in Session!Session,
           \/ UNCHANGED browser /\ holders' \subseteq holders
           \/ holders' = {}
    PROVE  SessionInv'
  <1>1. agent' = [agent EXCEPT ![e] = Session!Away]
    BY DEF Session!Leave
  <1>2. Session!Away.at \notin Session!Working /\ Session!Away.at \notin Armed
    BY AwayTyped, ArmedWorks DEF Armed
  <1> QED BY <1>1, <1>2, AwayTyped, SessionGoes

\* The stage fails, and with it the browser, unless nobody waits for the worker.
LEMMA SessionFail ==
    ASSUME SessionInv, NEW e \in Executions, Session!Fail(e)
    PROVE  SessionInv'
  <1>1. run' \in [status : {"running", "paused", "failed"}, fence : 1..MaxFence]
    BY SessionEndCall DEF Session!Fail
  <1>2. CASE Session!Leave(e) /\ Session!Drop(e) /\ UNCHANGED <<vm, operator>>
    BY <1>1, <1>2, SessionTypes, SessionLeaves DEF Session!Drop
  <1>3. CASE Session!Terminate(e, Session!Away)
    BY <1>1, <1>3, SessionTerminate
  <1> QED BY <1>2, <1>3 DEF Session!Fail

\* A deserted worker, of which the session and the machine know nothing.
LEMMA SessionDeserted ==
    ASSUME SessionInv, NEW e \in Executions, agent[e].at \in Session!Working,
           agent' = [agent EXCEPT ![e].deserted = TRUE],
           UNCHANGED <<browser, holders, vm, operator>>,
           run' \in [status : {"running", "paused", "failed"}, fence : 1..MaxFence]
    PROVE  SessionInv'
  <1>1. PICK a : a = [agent[e] EXCEPT !.deserted = TRUE]
    OBVIOUS
  <1>2. TRUE \in BOOLEAN /\ agent[e] \in Session!Agent
    BY SessionTypes
  <1>3. a \in Session!Agent /\ a.at = agent[e].at
    BY <1>1, <1>2 DEF Session!Agent
  <1>4. agent' = [agent EXCEPT ![e] = a]
    BY <1>1, SessionTypes
  <1>5. a.at \in Armed /\ e \in holders' => CapturedBy(e)'
    BY <1>3 DEF SessionInv, CapturedBy
  <1> QED BY <1>3, <1>4, <1>5, SessionTypes, SessionGoes

LEMMA SessionEnds ==
    ASSUME SessionInv, NEW e \in Executions,
           Session!Breaks(e) \/ Session!Crash(e) \/ Session!EndStage(e)
    PROVE  SessionInv'
  <1>1. CASE Session!Breaks(e)
    <2>1. CASE Session!Fail(e)
      BY <2>1, SessionFail
    <2>2. CASE /\ agent[e].at \in Session!Working /\ Session!EndCall(e, "failed")
               /\ agent' = [agent EXCEPT ![e].deserted = TRUE]
               /\ UNCHANGED <<browser, holders, vm, operator>>
      BY <2>2, SessionEndCall, SessionDeserted
    <2> QED BY <1>1, <2>1, <2>2 DEF Session!Breaks
  <1>2. CASE Session!Crash(e)
    <2>1. CASE /\ agent[e].at \in Session!Working
               /\ agent' = [agent EXCEPT ![e].deserted = TRUE]
               /\ UNCHANGED <<browser, holders>>
      BY <1>2, <2>1, SessionTypes, SessionDeserted DEF Session!Crash
    <2>2. CASE Session!Leave(e) /\ Session!Drop(e)
      BY <1>2, <2>2, SessionTypes, SessionLeaves DEF Session!Crash, Session!Drop
    <2> QED BY <1>2, <2>1, <2>2 DEF Session!Crash
  <1>3. CASE Session!EndStage(e)
    <2>1. run' \in [status : {"running", "paused", "failed"}, fence : 1..MaxFence]
      BY <1>3, SessionEndCall, SessionTypes DEF Session!EndStage
    <2>2. CASE Session!Drop(e)
      BY <1>3, <2>1, <2>2, SessionTypes, SessionLeaves DEF Session!EndStage, Session!Drop
    <2>3. CASE Session!Put([browser EXCEPT !.status = "paused"])
      <3>1. [browser EXCEPT !.status = "paused"] \in Session!Session
        BY SessionTypes DEF Session!Session, Session!Live
      <3> QED BY <1>3, <2>1, <2>3, <3>1, SessionPut, SessionLeaves DEF Session!EndStage
    <2> QED BY <1>3, <2>2, <2>3 DEF Session!EndStage
  <1> QED BY <1>1, <1>2, <1>3

\* An execution that is not at work goes on, having read or written the session.
LEMMA SessionCoordinates ==
    ASSUME SessionInv, NEW e \in Executions,
           NEW position \in Positions \ Session!Working, Session!Goto(e, position),
           UNCHANGED <<run, vm, operator>>, browser' \in Session!Session,
           \/ UNCHANGED browser /\ holders' \subseteq holders \cup {e}
           \/ holders' \subseteq {e}
    PROVE  SessionInv'
  <1>1. PICK a \in Session!Agent : agent' = [agent EXCEPT ![e] = a] /\ a.at = position
    BY SessionGoto
  <1>2. a.at \notin Armed
    BY <1>1, ArmedWorks
  <1> QED BY <1>1, <1>2, SessionTypes, SessionGoes

LEMMA Coordinators ==
    {"reading", "discarding", "deleting", "provisioning", "creating", "undoing",
     "attaching", "rebinding", "starting", "posting", "broken"}
      \subseteq Positions \ Session!Working
  BY DEF Positions, Session!Working, Session!Coordinating

\* _session: the browser is found, ended, made and bound for the execution.
LEMMA SessionReads ==
    ASSUME SessionInv, NEW e \in Executions, Session!Begin(e) \/ Session!ReadSession(e)
    PROVE  SessionInv'
  <1>1. CASE Session!Begin(e)
    <2>1. PICK a : a = [Session!Away EXCEPT !.at = "reading", !.fence = run.fence]
      OBVIOUS
    <2>2. run.fence \in 0..MaxFence
      BY SessionTypes, Bounds
    <2>3. a \in Session!Agent /\ a.at = "reading"
      BY <2>1, <2>2, AwayTyped DEF Session!Agent, Session!Coordinating
    <2>4. a.at \notin Session!Working /\ a.at \notin Armed
      BY <2>3 DEF Session!Working, Armed
    <2> QED BY <1>1, <2>1, <2>3, <2>4, SessionTypes, SessionGoes DEF Session!Begin
  <1>2. CASE Session!ReadSession(e)
    <2>1. PICK position \in {"provisioning", "discarding", "rebinding", "starting", "posting"} :
             Session!Goto(e, position)
      BY <1>2 DEF Session!ReadSession, Session!Prepared
    <2> QED BY <1>2, <2>1, Coordinators, SessionTypes, SessionCoordinates DEF Session!ReadSession
  <1> QED BY <1>1, <1>2

\* A document of the session that e writes.
LEMMA SessionWrites ==
    ASSUME SessionInv, NEW e \in Executions, NEW document \in Session!Session,
           NEW position \in Positions \ Session!Working, Session!Goto(e, position),
           Session!Write(e, document) \/ Session!Put(document), UNCHANGED <<run, vm, operator>>
    PROVE  SessionInv'
  BY SessionPut, SessionWrite, SessionCoordinates

LEMMA SessionProvisions ==
    ASSUME SessionInv, NEW e \in Executions,
           \/ Session!Discard(e) \/ Session!Provision(e) \/ Session!Attach(e)
           \/ Session!Rebind(e) \/ Session!Start(e)
    PROVE  SessionInv'
  <1>1. CASE Session!Fail(e)
    BY <1>1, SessionFail
  <1>2. agent[e].fence \in 0..MaxFence
    BY SessionTypes DEF Session!Agent
  <1>3. /\ [browser EXCEPT !.status = "terminated"] \in Session!Session
        /\ [browser EXCEPT !.status = "ready", !.worker = TRUE] \in Session!Session
        /\ [browser EXCEPT !.status = "running"] \in Session!Session
    BY SessionTypes DEF Session!Session, Session!Live
  <1>4. [browser EXCEPT !.fence = agent[e].fence] \in Session!Session
    BY <1>2, SessionTypes DEF Session!Session
  <1>5. [browser EXCEPT !.status = "provisioning", !.fence = agent[e].fence,
                        !.subject = None, !.worker = FALSE, !.expired = FALSE]
           \in Session!Session
    BY <1>2, SessionTypes DEF Session!Session, Session!Live
  <1>6. CASE Session!Discard(e) /\ ~Session!Fail(e)
    <2>1. PICK position \in {"deleting", "provisioning"} : Session!Goto(e, position)
      BY <1>6 DEF Session!Discard
    <2> QED BY <1>3, <1>6, <2>1, Coordinators, SessionWrites DEF Session!Discard
  <1>7. CASE Session!Provision(e) /\ ~Session!Fail(e)
    BY <1>5, <1>7, Coordinators, SessionWrites DEF Session!Provision
  <1>8. CASE Session!Attach(e) /\ ~Session!Fail(e)
    BY <1>3, <1>8, Coordinators, SessionWrites DEF Session!Attach
  <1>9. CASE Session!Rebind(e) /\ ~Session!Fail(e)
    BY <1>4, <1>9, Coordinators, SessionWrites DEF Session!Rebind
  <1>10. CASE Session!Start(e) /\ ~Session!Fail(e)
    BY <1>3, <1>10, Coordinators, SessionWrites DEF Session!Start
  <1> QED BY <1>1, <1>6, <1>7, <1>8, <1>9, <1>10

\* The machine is created, or deleted by its name.
LEMMA SessionMachines ==
    ASSUME SessionInv, NEW e \in Executions,
           \/ Session!DeleteMachine(e) \/ Session!CreateMachine(e) \/ Session!UndoCreate(e)
    PROVE  SessionInv'
  <1>1. UNCHANGED <<run, browser, holders>>
    BY DEF Session!DeleteMachine, Session!CreateMachine, Session!UndoCreate
  <1>2. CASE Session!Goto(e, "undoing") /\ UNCHANGED <<vm, operator>>
    BY <1>1, <1>2, Coordinators, SessionTypes, SessionCoordinates
  <1>3. ASSUME NEW there \in BOOLEAN, NEW position \in {"provisioning", "attaching", "broken"},
               Session!Machine(there, e, [agent[e] EXCEPT !.at = position]),
               there => position = "attaching"
        PROVE  SessionInv'
    <2>1. PICK a : a = [agent[e] EXCEPT !.at = position]
      OBVIOUS
    <2>2. a \in Session!Agent /\ a.at = position
      BY <2>1, SessionTypes DEF Session!Agent, Session!Coordinating
    <2>3. a.at \notin Session!Working
      BY <2>2 DEF Session!Working
    <2>4. Session!Machine(there, e, a)
      BY <1>3, <2>1
    <2>5. there => vm \/ a.at = "attaching"
      BY <1>3, <2>2
    <2>6. /\ run' \in [status : {"running", "paused", "failed"}, fence : 1..MaxFence]
          /\ browser' \in Session!Session /\ UNCHANGED <<browser, holders>>
      BY <1>1, SessionTypes
    <2> QED BY <2>2, <2>3, <2>4, <2>5, <2>6, SessionMachine
  <1>4. CASE Session!DeleteMachine(e)
    BY <1>3, <1>4 DEF Session!DeleteMachine
  <1>5. CASE Session!UndoCreate(e)
    BY <1>3, <1>5 DEF Session!UndoCreate
  <1>6. CASE Session!CreateMachine(e)
    BY <1>2, <1>3, <1>6 DEF Session!CreateMachine
  <1> QED BY <1>4, <1>5, <1>6

\* A worker goes on, as a.
LEMMA SessionWorks ==
    ASSUME SessionInv, NEW e \in Executions, NEW position \in Positions,
           Session!Goto(e, position), UNCHANGED <<run, vm, operator>>,
           agent[e].at \in Session!Working, browser' \in Session!Session,
           \/ UNCHANGED browser /\ holders' \subseteq holders \cup {e}
           \/ holders' \subseteq {e},
           position \in Armed /\ e \in holders' => CapturedBy(e)'
    PROVE  SessionInv'
  <1>1. PICK a \in Session!Agent : agent' = [agent EXCEPT ![e] = a] /\ a.at = position
    BY SessionGoto
  <1> QED BY <1>1, SessionTypes, SessionGoes

\* The worker reads the session, and authorises an action.
LEMMA SessionAuthorises ==
    ASSUME SessionInv, NEW e \in Executions,
           Session!Authorise(e) \/ Session!AuthoriseAction(e)
    PROVE  SessionInv'
  <1>1. CASE Session!Fail(e)
    BY <1>1, SessionFail
  <1>2. ASSUME NEW position \in {"acting", "arming", "freezing", "executing"},
               NEW protected \in BOOLEAN,
               agent' = [agent EXCEPT ![e].at = position, ![e].protected = protected]
        PROVE  \E a \in Session!Agent : /\ agent' = [agent EXCEPT ![e] = a]
                                        /\ a.at = position /\ a.at \notin Armed
    <2>1. PICK a : a = [agent[e] EXCEPT !.at = position, !.protected = protected]
      OBVIOUS
    <2>2. agent[e] \in Session!Agent
      BY SessionTypes
    <2>3. position \in Session!Working
      BY DEF Session!Working
    <2>4. a \in Session!Agent
      BY <2>1, <2>2, <2>3 DEF Session!Agent
    <2>5. a.at = position
      BY <2>1, <2>2 DEF Session!Agent
    <2>6. agent' = [agent EXCEPT ![e] = a]
      BY <1>2, <2>1, SessionTypes
    <2> QED BY <2>4, <2>5, <2>6 DEF Armed
  <1>3. CASE Session!Authorise(e) /\ ~Session!Fail(e)
    <2>1. PICK position \in {"acting", "arming", "freezing"}, protected \in BOOLEAN :
             agent' = [agent EXCEPT ![e].at = position, ![e].protected = protected]
      BY <1>3 DEF Session!Authorise
    <2>2. PICK a \in Session!Agent : agent' = [agent EXCEPT ![e] = a] /\ a.at \notin Armed
      BY <1>2, <2>1
    <2>3. /\ vm /\ UNCHANGED <<run, browser, vm, operator>>
          /\ holders' = holders \cup {e}
      BY <1>3 DEF Session!Authorise, Session!Admitted
    <2> QED BY <2>2, <2>3, SessionTypes, SessionGoes
  <1>4. CASE Session!AuthoriseAction(e) /\ ~Session!Fail(e)
    <2>1. agent' = [agent EXCEPT ![e].at = "executing", ![e].protected = FALSE]
      BY <1>4 DEF Session!AuthoriseAction
    <2>2. FALSE \in BOOLEAN
      OBVIOUS
    <2>3. PICK a \in Session!Agent : agent' = [agent EXCEPT ![e] = a] /\ a.at \notin Armed
      BY <1>2, <2>1, <2>2
    <2>4. /\ agent[e].at = "acting" /\ Session!Write(e, browser)
          /\ UNCHANGED <<run, vm, operator>>
      BY <1>4 DEF Session!AuthoriseAction, Session!At
    <2>5. vm
      BY <2>4, SessionTypes DEF Session!Working
    <2>6. browser' \in Session!Session /\ holders' = {e}
      BY <2>4, SessionTypes, SessionWrite
    <2> QED BY <2>3, <2>4, <2>5, <2>6, SessionTypes, SessionGoes
  <1> QED BY <1>1, <1>3, <1>4

\* A call that has ended with the session written for the last time.
LEMMA SessionAnswers ==
    ASSUME SessionInv, NEW e \in Executions, Session!Answer(e), UNCHANGED <<run, vm, operator>>,
           browser' \in Session!Session,
           \/ UNCHANGED browser /\ holders' \subseteq holders
           \/ holders' = {}
    PROVE  SessionInv'
  <1>1. CASE Session!Leave(e)
    BY <1>1, SessionTypes, SessionLeaves
  <1>2. CASE Session!Goto(e, "reading")
    BY <1>2, Coordinators, SessionCoordinates
  <1> QED BY <1>1, <1>2 DEF Session!Answer

LEMMA SessionPauses ==
    ASSUME SessionInv, NEW e \in Executions,
           \/ Session!NeedsLogin(e) \/ Session!Executed(e) \/ Session!ExecuteFails(e)
           \/ Session!Freeze(e)
    PROVE  SessionInv'
  <1>1. CASE Session!Terminate(e, Session!Away) /\ Session!EndCall(e, "paused")
    BY <1>1, SessionEndCall, SessionTerminate
  <1>2. CASE Session!Fail(e)
    BY <1>2, SessionFail
  <1>3. CASE Session!Executed(e)
    BY <1>3, SessionTypes, SessionAnswers DEF Session!Executed, Session!Drop
  <1>4. CASE /\ agent[e].at = "executing" /\ Session!Goto(e, "freezing")
             /\ UNCHANGED <<run, browser, vm, holders, operator>>
    <2>1. "freezing" \in Positions /\ "freezing" \notin Armed
      BY DEF Positions, Session!Working, Armed
    <2>2. agent[e].at \in Session!Working
      BY <1>4 DEF Session!Working
    <2> QED BY <1>4, <2>1, <2>2, SessionTypes, SessionWorks
  <1>5. CASE Session!Freeze(e) /\ ~Session!Fail(e)
    <2>1. [browser EXCEPT !.status = "paused"] \in Session!Session
      BY SessionTypes DEF Session!Session, Session!Live
    <2>2. run' \in [status : {"running", "paused", "failed"}, fence : 1..MaxFence]
      BY <1>5, SessionEndCall DEF Session!Freeze
    <2> QED BY <1>5, <2>1, <2>2, SessionPut, SessionLeaves DEF Session!Freeze
  <1> QED BY <1>1, <1>2, <1>3, <1>4, <1>5
          DEF Session!NeedsLogin, Session!ExecuteFails, Session!Freeze, Session!At

LEMMA SessionArms ==
    ASSUME SessionInv, NEW e \in Executions,
           Session!Arm(e) \/ Session!AuthoriseCapture(e) \/ Session!Transfer(e)
    PROVE  SessionInv'
  <1>1. CASE Session!Fail(e)
    BY <1>1, SessionFail
  <1>2. {"freezing", "armed", "capturing", "completing"} \subseteq Positions
    BY DEF Positions, Session!Working
  <1>3. CASE Session!Arm(e) /\ ~Session!Fail(e)
    <2>1. PICK document : document = [browser EXCEPT !.status = "capturing", !.captor = e]
      OBVIOUS
    <2>2. /\ document \in Session!Session
          /\ document.status = "capturing" /\ document.captor = e
      BY <2>1, SessionTypes DEF Session!Session, Session!Live
    <2>3. Session!Write(e, document)
      BY <1>3, <2>1 DEF Session!Arm
    <2>4. browser' \in Session!Session /\ holders' = {e} /\ CapturedBy(e)'
      BY <2>2, <2>3, SessionWrite DEF CapturedBy
    <2>5. /\ agent[e].at \in Session!Working /\ Session!Goto(e, "armed")
          /\ UNCHANGED <<run, vm, operator>>
      BY <1>3 DEF Session!Arm, Session!At, Session!Working
    <2> QED BY <1>2, <2>4, <2>5, SessionWorks
  <1>4. CASE Session!AuthoriseCapture(e) /\ ~Session!Fail(e)
    <2>1. /\ agent[e].at = "armed" /\ e \in holders
          /\ Session!Write(e, browser) /\ Session!Goto(e, "capturing")
          /\ UNCHANGED <<run, vm, operator>>
      BY <1>4 DEF Session!AuthoriseCapture, Session!At, Session!Unmoved
    <2>2. CapturedBy(e) /\ agent[e].at \in Session!Working
      BY <2>1 DEF SessionInv, Armed, Session!Working
    <2>3. browser' \in Session!Session /\ holders' = {e} /\ CapturedBy(e)'
      BY <2>1, <2>2, SessionTypes, SessionWrite DEF CapturedBy
    <2> QED BY <1>2, <2>1, <2>2, <2>3, SessionWorks
  <1>5. CASE Session!Transfer(e)
    <2>1. PICK position \in {"completing", "freezing"} : Session!Goto(e, position)
      BY <1>5 DEF Session!Transfer
    <2>2. /\ agent[e].at = "capturing"
          /\ UNCHANGED <<run, browser, vm, holders, operator>>
      BY <1>5 DEF Session!Transfer, Session!At
    <2>3. e \in holders => CapturedBy(e)
      BY <2>2 DEF SessionInv, Armed
    <2>4. e \in holders' => CapturedBy(e)'
      BY <2>2, <2>3 DEF CapturedBy
    <2>5. agent[e].at \in Session!Working
      BY <2>2 DEF Session!Working
    <2> QED BY <1>2, <2>1, <2>2, <2>4, <2>5, SessionTypes, SessionWorks
  <1> QED BY <1>1, <1>3, <1>4, <1>5

LEMMA SessionResumes ==
    ASSUME SessionInv
    PROVE  [browser EXCEPT !.status = Session!Resumed] \in Session!Session
  <1>1. Session!Resumed \in {"takeover", "running"}
    BY DEF Session!Resumed
  <1> QED BY <1>1, SessionTypes DEF Session!Session, Session!Live

LEMMA SessionCompletes ==
    ASSUME SessionInv, NEW e \in Executions, Session!CompleteCapture(e)
    PROVE  SessionInv'
  <1>1. CASE Session!Fail(e)
    BY <1>1, SessionFail
  <1>2. CASE ~Session!Fail(e)
    BY <1>2, SessionResumes, SessionPut, SessionAnswers DEF Session!CompleteCapture
  <1> QED BY <1>1, <1>2

\* The operator, whose step leaves the machine and the executions alone.
LEMMA SessionOperated ==
    ASSUME SessionInv, NEW o \in Operators, NEW position \in {"away", "connected", "capturing"},
           operator' = [operator EXCEPT ![o] = position], UNCHANGED <<run, vm, agent>>,
           position # "away" => vm, browser' \in Session!Session,
           UNCHANGED <<browser, holders>> \/ holders' = {} \/ holders' = {o},
           position = "capturing" /\ o \in holders' => CapturedBy(o)'
    PROVE  SessionInv'
  <1>1. /\ operator' \in [Operators -> {"away", "connected", "capturing"}]
        /\ operator'[o] = position
        /\ \A x \in Operators \ {o} : operator'[x] = operator[x]
    BY SessionTypes
  <1>2. \A x \in Operators : operator'[x] # "away" => vm'
    BY <1>1, SessionTypes
  <1>3. holders' \subseteq Executions \cup Operators
    BY SessionTypes
  <1>4. Session!TypeOK'
    BY <1>1, <1>2, <1>3, SessionTypes DEF Session!TypeOK
  <1>5. o \notin Executions
    BY PartsAssumption
  <1>6. \/ browser' = browser /\ holders' \subseteq holders \cup {o}
        \/ holders' \subseteq {o}
    OBVIOUS
  <1> QED BY <1>1, <1>4, <1>5, <1>6, SessionMove

LEMMA SessionTakenOver ==
    ASSUME SessionInv, NEW o \in Operators,
           \/ Session!Takeover(o) \/ Session!HumanAction(o) \/ Session!Release(o)
           \/ Session!Disconnect(o) \/ Session!HumanArm(o) \/ Session!HumanCompletes(o)
           \/ Session!HumanFreezes(o)
    PROVE  SessionInv'
  <1>1. operator = [operator EXCEPT ![o] = operator[o]]
        /\ operator[o] \in {"away", "connected", "capturing"}
    BY SessionTypes
  <1>2. /\ [browser EXCEPT !.status = "takeover", !.subject = o] \in Session!Session
        /\ [browser EXCEPT !.status = "paused", !.subject = None] \in Session!Session
        /\ [browser EXCEPT !.status = "paused"] \in Session!Session
    BY SessionTypes DEF Session!Session, Session!Live
  <1>3. CASE Session!Takeover(o)
    <2>1. PICK position \in {"connected", "away"} :
             operator' = [operator EXCEPT ![o] = position] /\ (position # "away" => vm)
      BY <1>3 DEF Session!Takeover
    <2>2. browser' \in Session!Session /\ (UNCHANGED <<browser, holders>> \/ holders' = {})
      BY <1>2, <1>3, SessionTypes, SessionPut DEF Session!Takeover
    <2> QED BY <1>3, <2>1, <2>2, SessionOperated DEF Session!Takeover
  <1>4. CASE Session!HumanAction(o)
    <2>1. operator' = [operator EXCEPT ![o] = operator[o]] /\ operator[o] = "connected"
      BY <1>1, <1>4 DEF Session!HumanAction
    <2>2. browser' \in Session!Session /\ holders' = {}
      BY <1>4, SessionTypes, SessionPut DEF Session!HumanAction
    <2> QED BY <1>4, <2>1, <2>2, SessionTypes, SessionOperated DEF Session!HumanAction
  <1>5. CASE Session!Release(o)
    <2>1. operator' = [operator EXCEPT ![o] = operator[o]]
      BY <1>1, <1>5 DEF Session!Release
    <2>2. browser' \in Session!Session /\ holders' = {}
      BY <1>2, <1>5, SessionPut DEF Session!Release
    <2> QED BY <1>1, <1>5, <2>1, <2>2, SessionTypes, SessionOperated DEF Session!Release
  <1>6. CASE Session!Disconnect(o)
    BY <1>6, SessionTypes, SessionOperated DEF Session!Disconnect
  <1>7. CASE Session!HumanArm(o)
    <2>1. PICK document : document = [browser EXCEPT !.status = "capturing", !.captor = o]
      OBVIOUS
    <2>2. /\ document \in Session!Session
          /\ document.status = "capturing" /\ document.captor = o
      BY <2>1, SessionTypes DEF Session!Session, Session!Live
    <2>3. Session!Write(o, document)
      BY <1>7, <2>1 DEF Session!HumanArm
    <2>4. browser' \in Session!Session /\ holders' = {o} /\ CapturedBy(o)'
      BY <2>2, <2>3, SessionWrite DEF CapturedBy
    <2>5. vm
      BY <1>7, SessionTypes DEF Session!HumanArm
    <2> QED BY <1>7, <2>4, <2>5, SessionOperated DEF Session!HumanArm
  <1>8. CASE Session!HumanCompletes(o)
    <2>1. browser' \in Session!Session /\ holders' = {} /\ vm
      BY <1>8, SessionResumes, SessionPut, SessionTypes DEF Session!HumanCompletes
    <2> QED BY <1>8, <2>1, SessionOperated DEF Session!HumanCompletes
  <1>9. CASE Session!HumanFreezes(o)
    <2>1. browser' \in Session!Session /\ holders' = {} /\ vm
      BY <1>2, <1>9, SessionPut, SessionTypes DEF Session!HumanFreezes
    <2> QED BY <1>9, <2>1, SessionOperated DEF Session!HumanFreezes
  <1> QED BY <1>3, <1>4, <1>5, <1>6, <1>7, <1>8, <1>9

\* The run and time.
LEMMA SessionPasses ==
    ASSUME SessionInv,
           \/ Session!PauseRun \/ Session!ResumeRun \/ Session!Expire
           \/ Session!MachineGone \/ UNCHANGED sessionVars
    PROVE  SessionInv'
  <1>1. ASSUME run' \in [status : {"running", "paused", "failed"}, fence : 1..MaxFence],
               browser' \in Session!Session, browser'.status = browser.status,
               browser'.captor = browser.captor, UNCHANGED <<vm, holders, agent, operator>>
        PROVE  SessionInv'
    <2>1. Session!TypeOK'
      BY <1>1, SessionTypes DEF Session!TypeOK
    <2> QED BY <1>1, <2>1 DEF SessionInv, CapturedBy
  <1>2. CASE Session!PauseRun
    BY <1>1, <1>2, SessionTypes DEF Session!PauseRun
  <1>3. CASE Session!ResumeRun
    <2>1. run.fence + 1 \in 1..MaxFence
      BY <1>3, SessionTypes, Bounds DEF Session!ResumeRun
    <2> QED BY <1>1, <1>3, <2>1, SessionTypes DEF Session!ResumeRun
  <1>4. CASE Session!Expire
    <2>1. PICK document : document = [browser EXCEPT !.expired = TRUE]
      OBVIOUS
    <2>2. TRUE \in BOOLEAN
      OBVIOUS
    <2>3. /\ document \in Session!Session /\ document.status = browser.status
          /\ document.captor = browser.captor
      BY <2>1, <2>2, SessionTypes DEF Session!Session
    <2> QED BY <1>1, <1>4, <2>1, <2>3, SessionTypes DEF Session!Expire
  <1>5. CASE Session!MachineGone
    <2>1. /\ Session!Machine(FALSE, None, Session!Away) /\ FALSE \in BOOLEAN
          /\ UNCHANGED <<run, browser, holders>>
      BY <1>5 DEF Session!MachineGone
    <2>2. Session!Away.at \notin Session!Working
      BY AwayTyped, ArmedWorks
    <2>3. /\ run' \in [status : {"running", "paused", "failed"}, fence : 1..MaxFence]
          /\ browser' \in Session!Session
      BY <2>1, SessionTypes
    <2> QED BY <2>1, <2>2, <2>3, AwayTyped, SessionMachine
  <1>6. CASE UNCHANGED sessionVars
    BY <1>1, <1>6, SessionTypes DEF sessionVars
  <1> QED BY <1>2, <1>3, <1>4, <1>5, <1>6

LEMMA SessionStep ==
    ASSUME SessionInv, [Session!Next]_sessionVars
    PROVE  SessionInv'
  <1>1. ASSUME NEW e \in Executions
        PROVE  /\ Session!Begin(e) \/ Session!ReadSession(e) => SessionInv'
               /\ Session!Breaks(e) \/ Session!Crash(e) \/ Session!EndStage(e) => SessionInv'
               /\ Session!Discard(e) \/ Session!Provision(e) \/ Session!Attach(e) => SessionInv'
               /\ Session!Rebind(e) \/ Session!Start(e) => SessionInv'
               /\ Session!DeleteMachine(e) \/ Session!CreateMachine(e) => SessionInv'
               /\ Session!UndoCreate(e) => SessionInv'
    BY SessionReads, SessionEnds, SessionProvisions, SessionMachines
  <1>2. ASSUME NEW e \in Executions
        PROVE  /\ Session!Authorise(e) \/ Session!AuthoriseAction(e) => SessionInv'
               /\ Session!NeedsLogin(e) \/ Session!Executed(e) => SessionInv'
               /\ Session!ExecuteFails(e) \/ Session!Freeze(e) => SessionInv'
               /\ Session!Arm(e) \/ Session!AuthoriseCapture(e) => SessionInv'
               /\ Session!Transfer(e) \/ Session!CompleteCapture(e) => SessionInv'
    BY SessionAuthorises, SessionPauses, SessionArms, SessionCompletes
  <1>3. ASSUME NEW o \in Operators
        PROVE  /\ Session!Takeover(o) \/ Session!HumanAction(o) => SessionInv'
               /\ Session!Release(o) \/ Session!Disconnect(o) => SessionInv'
               /\ Session!HumanArm(o) \/ Session!HumanCompletes(o) => SessionInv'
               /\ Session!HumanFreezes(o) => SessionInv'
    BY SessionTakenOver
  <1>4. /\ Session!PauseRun \/ Session!ResumeRun => SessionInv'
        /\ Session!Expire \/ Session!MachineGone => SessionInv'
        /\ UNCHANGED sessionVars => SessionInv'
    BY SessionPasses
  <1> QED BY <1>1, <1>2, <1>3, <1>4, Zenon DEF Session!Next

LEMMA SessionStart ==
    ASSUME Session!Init
    PROVE  SessionInv
  <1>1. 0 \in 0..MaxFence /\ 1 \in 1..MaxFence /\ FALSE \in BOOLEAN
    BY Bounds
  <1>2. browser \in Session!Session /\ browser.status = "absent"
    BY <1>1 DEF Session!Init, Session!Session
  <1>3. /\ run \in [status : {"running", "paused", "failed"}, fence : 1..MaxFence]
        /\ vm \in BOOLEAN /\ holders = {}
        /\ agent \in [Executions -> Session!Agent]
        /\ \A e \in Executions : agent[e].at = "idle"
        /\ \A o \in Operators : operator[o] = "away"
        /\ operator \in [Operators -> {"away", "connected", "capturing"}]
    BY <1>1, AwayTyped DEF Session!Init
  <1>4. Session!TypeOK
    BY <1>2, <1>3, ArmedWorks DEF Session!TypeOK
  <1> QED BY <1>3, <1>4 DEF SessionInv

\* The session leaves a capture for RUNNING or the operator by a completion alone, whose
\* copy is of the present revision.
LEMMA CaptorEnds ==
    ASSUME SessionInv, [Session!Next]_sessionVars
    PROVE  Session!EndedByItsCaptor
  <1> SUFFICES ASSUME browser.status = "capturing",
                      browser'.status \in {"running", "takeover"}
               PROVE  \/ browser.captor \in Executions /\ agent[browser.captor].at = "completing"
                      \/ browser.captor \in Operators /\ operator[browser.captor] = "capturing"
    BY DEF Session!EndedByItsCaptor, Session!At
  <1> DEFINE Off == browser'.status \notin {"running", "takeover"}
  <1>1. ASSUME NEW document, Session!Put(document) \/ \E c : Session!Write(c, document)
        PROVE  browser'.status = document.status
    <2>1. PICK x : browser' = [document EXCEPT !.captor = x]
      <3>1. CASE Session!Put(document)
        BY <3>1 DEF Session!Put
      <3>2. CASE \E c : Session!Write(c, document)
        BY <3>2 DEF Session!Write
      <3> QED BY <1>1, <3>1, <3>2
    <2> QED BY <2>1
  <1>2. browser' = browser => Off
    OBVIOUS
  <1>3. \A e \in Executions : Session!Terminate(e, Session!Away) => Off
    <2>1. Session!Put([browser EXCEPT !.status =
                          IF @ \in Session!Live THEN "terminated" ELSE @]) => Off
      BY <1>1, SessionTypes DEF Session!Session, Session!Live
    <2> QED BY <1>2, <2>1 DEF Session!Terminate, Session!Drop
  <1>4. \A e \in Executions : Session!Fail(e) => Off
    BY <1>2, <1>3 DEF Session!Fail, Session!Drop
  <1>5. ASSUME NEW e \in Executions
        PROVE  /\ Session!Begin(e) \/ Session!EndStage(e) \/ Session!ReadSession(e) => Off
               /\ Session!DeleteMachine(e) \/ Session!CreateMachine(e) => Off
               /\ Session!UndoCreate(e) \/ Session!NeedsLogin(e) => Off
               /\ Session!Authorise(e) \/ Session!Executed(e) => Off
               /\ Session!ExecuteFails(e) \/ Session!Transfer(e) => Off
               /\ Session!Breaks(e) \/ Session!Crash(e) => Off
    <2>1. Session!Begin(e) \/ Session!EndStage(e) \/ Session!ReadSession(e) => Off
      BY <1>2 DEF Session!Begin, Session!EndStage, Session!ReadSession, Session!Drop
    <2>2. Session!DeleteMachine(e) \/ Session!CreateMachine(e) => Off
      BY <1>2 DEF Session!DeleteMachine, Session!CreateMachine
    <2>3. Session!UndoCreate(e) \/ Session!NeedsLogin(e) => Off
      BY <1>2, <1>3 DEF Session!UndoCreate, Session!NeedsLogin
    <2>4. Session!Authorise(e) \/ Session!Executed(e) => Off
      BY <1>2, <1>4 DEF Session!Authorise, Session!Executed, Session!Drop
    <2>5. Session!ExecuteFails(e) \/ Session!Transfer(e) => Off
      BY <1>2, <1>3 DEF Session!ExecuteFails, Session!Transfer
    <2>6. Session!Breaks(e) \/ Session!Crash(e) => Off
      BY <1>2, <1>4 DEF Session!Breaks, Session!Crash, Session!Drop
    <2> QED BY <2>1, <2>2, <2>3, <2>4, <2>5, <2>6
  <1>6. ASSUME NEW e \in Executions
        PROVE  /\ Session!Discard(e) \/ Session!Provision(e) \/ Session!Attach(e) => Off
               /\ Session!Rebind(e) \/ Session!Start(e) => Off
               /\ Session!AuthoriseAction(e) \/ Session!Freeze(e) => Off
               /\ Session!Arm(e) \/ Session!AuthoriseCapture(e) => Off
    <2> DEFINE ended == [browser EXCEPT !.status = "terminated"]
               made == [browser EXCEPT !.status = "provisioning", !.fence = agent[e].fence,
                                       !.subject = None, !.worker = FALSE, !.expired = FALSE]
               frozen == [browser EXCEPT !.status = "paused"]
               armed == [browser EXCEPT !.status = "capturing", !.captor = e]
    <2>1. /\ ended.status = "terminated" /\ made.status = "provisioning"
          /\ frozen.status = "paused" /\ armed.status = "capturing"
      BY SessionTypes DEF Session!Session
    <2>2. Session!Discard(e) => Off
      <3>1. Session!Write(e, ended) => Off
        BY <1>1, <2>1
      <3> QED BY <1>4, <3>1 DEF Session!Discard
    <2>3. Session!Provision(e) => Off
      <3>1. Session!Write(e, made) => Off
        BY <1>1, <2>1
      <3> QED BY <1>4, <3>1 DEF Session!Provision
    <2>4. Session!Attach(e) \/ Session!Rebind(e) \/ Session!Start(e) => Off
      BY <1>4 DEF Session!Attach, Session!Rebind, Session!Start
    <2>5. Session!AuthoriseAction(e) \/ Session!AuthoriseCapture(e) => Off
      <3>1. Session!Write(e, browser) => Off
        BY <1>1
      <3> QED BY <1>4, <3>1 DEF Session!AuthoriseAction, Session!AuthoriseCapture
    <2>6. Session!Freeze(e) => Off
      <3>1. Session!Put(frozen) => Off
        BY <1>1, <2>1
      <3> QED BY <1>4, <3>1 DEF Session!Freeze
    <2>7. Session!Arm(e) => Off
      <3>1. Session!Write(e, armed) => Off
        BY <1>1, <2>1
      <3> QED BY <1>4, <3>1 DEF Session!Arm
    <2> QED BY <2>2, <2>3, <2>4, <2>5, <2>6, <2>7
  <1>7. ASSUME NEW o \in Operators
        PROVE  /\ Session!Takeover(o) \/ Session!HumanAction(o) \/ Session!Release(o) => Off
               /\ Session!Disconnect(o) \/ Session!HumanArm(o) \/ Session!HumanFreezes(o) => Off
    <2>1. Session!Takeover(o) \/ Session!HumanAction(o) \/ Session!Release(o) => Off
      BY <1>2 DEF Session!Takeover, Session!HumanAction, Session!Release
    <2>2. Session!Disconnect(o) \/ Session!HumanArm(o) => Off
      BY <1>2 DEF Session!Disconnect, Session!HumanArm
    <2>3. Session!HumanFreezes(o) => Off
      <3>1. [browser EXCEPT !.status = "paused"].status = "paused"
        BY SessionTypes DEF Session!Session
      <3> QED BY <1>1, <3>1 DEF Session!HumanFreezes
    <2> QED BY <2>1, <2>2, <2>3
  <1>8. /\ Session!PauseRun \/ Session!ResumeRun \/ Session!MachineGone => Off
        /\ Session!Expire => Off
        /\ UNCHANGED sessionVars => Off
    <2>1. Session!PauseRun \/ Session!ResumeRun \/ Session!MachineGone => Off
      BY <1>2 DEF Session!PauseRun, Session!ResumeRun, Session!MachineGone
    <2>2. Session!Expire => Off
      BY SessionTypes DEF Session!Expire, Session!Session
    <2>3. UNCHANGED sessionVars => Off
      BY <1>2 DEF sessionVars
    <2> QED BY <2>1, <2>2, <2>3
  <1>9. \/ \E e \in Executions : Session!CompleteCapture(e)
        \/ \E o \in Operators : Session!HumanCompletes(o)
    BY <1>5, <1>6, <1>7, <1>8, Zenon DEF Session!Next
  <1>10. ASSUME NEW e \in Executions, Session!CompleteCapture(e)
         PROVE  browser.captor = e /\ agent[e].at = "completing"
    <2>1. agent[e].at = "completing" /\ e \in holders
      BY <1>4, <1>10 DEF Session!CompleteCapture, Session!At, Session!Unmoved
    <2> QED BY <2>1 DEF SessionInv, Armed, CapturedBy
  <1>11. ASSUME NEW o \in Operators, Session!HumanCompletes(o)
         PROVE  browser.captor = o /\ operator[o] = "capturing"
    BY <1>11 DEF Session!HumanCompletes, Session!Unmoved, SessionInv, CapturedBy
  <1> QED BY <1>9, <1>10, <1>11

\* A capture is ended by the call that armed the barrier and by no other (module
\* BrowserSession), whoever terminated, expired, rebound, reprovisioned or took over the
\* session meanwhile (_complete_capture, secure input).
THEOREM CaptorOnly == PartsSpec => CaptureEndsByItsCaptor
  <1> DEFINE Inv == part = "session" => SessionInv
  <1>1. PartsInit => Inv
    BY SessionStart DEF PartsInit
  <1>2. Inv /\ [PartsNext]_<<part, OrganisationVars, BrowserVars>> => Inv'
    BY EachPart, SessionStep
  <1>3. Inv /\ [PartsNext]_<<part, OrganisationVars, BrowserVars>>
           => [part = "session" => Session!EndedByItsCaptor]_sessionVars
    BY EachPart, CaptorEnds
  <1> QED BY <1>1, <1>2, <1>3, PTL DEF PartsSpec, CaptureEndsByItsCaptor

-----------------------------------------------------------------------------
(***************************************************************************)
(* GoogleCloudOnboarding                                                   *)
(***************************************************************************)

\* What a call has read of its connection: it was there, its revision has not gone back,
\* and once the broker validated it, between that reading and now, it has access.
AccessSound(a) ==
    LET k == a.connection
    IN
    /\ a.at # "idle" => a.onboarding \in CloudOnboardings /\ a.session \in Cloud!Session
    /\ a.at \in {"choose", "add"} => a.target \in Selections
    /\ a.at = "connection" => a.session.connection \in Clouds
    /\ a.at \in {"attach", "archive", "grant", "validate", "replace"} => k \in Clouds
    /\ a.at \in {"grant", "validate", "replace"} =>
          cloud[k].status # "absent" /\ a.revision <= cloud[k].revision
    /\ a.at \in {"validate", "replace"} => cloud[k].target \in granted
    /\ a.at = "replace" =>
          a.validated \in Nat /\ a.revision <= a.validated /\ a.validated <= cloud[k].revision

CloudInv ==
    /\ Cloud!TypeOK
    /\ \A k \in Clouds : cloud[k].status # "absent" => cloud[k].target \in Selections
    /\ \A c \in Callers : AccessSound(cloudCaller[c])

LEMMA CloudTypes ==
    ASSUME CloudInv
    PROVE  /\ onboarded \in [CloudOnboardings -> Cloud!Session]
           /\ cloud \in [Clouds -> Cloud!Connection] /\ granted \subseteq Selections
           /\ prepared \in [CloudOnboardings -> 0..MaxAccess \cup {None}]
           /\ cloudCaller \in [Callers -> Cloud!Call]
           /\ MaxAccess \in Nat
           /\ \A k \in Clouds : cloud[k].revision \in Nat /\ cloud[k].revision <= MaxAccess
           /\ \A c \in Callers : cloudCaller[c].revision \in Nat
           /\ \A c \in Callers : cloudCaller[c].revision <= MaxAccess
  BY Bounds DEF CloudInv, Cloud!TypeOK, Cloud!Connection, Cloud!Call

\* No connection that is there goes away, gets another target or an earlier revision.
CloudGrows ==
    /\ cloud' \in [Clouds -> Cloud!Connection]
    /\ granted \subseteq granted' /\ granted' \subseteq Selections
    /\ \A k \in Clouds :
          /\ cloud'[k].status # "absent" => cloud'[k].target \in Selections
          /\ cloud[k].status # "absent" =>
                /\ cloud'[k].status # "absent" /\ cloud'[k].target = cloud[k].target
                /\ cloud[k].revision <= cloud'[k].revision

LEMMA CloudUnchanged ==
    ASSUME CloudInv, UNCHANGED <<cloud, granted>>
    PROVE  CloudGrows
  BY CloudTypes DEF CloudGrows, CloudInv

LEMMA AccessStays ==
    ASSUME CloudInv, CloudGrows, NEW c \in Callers, cloudCaller'[c] = cloudCaller[c]
    PROVE  AccessSound(cloudCaller[c])'
  <1>1. AccessSound(cloudCaller[c])
    BY DEF CloudInv
  <1>2. /\ \A k \in Clouds : cloud[k].revision \in Nat /\ cloud'[k].revision \in Nat
        /\ cloudCaller[c].revision \in Nat
    BY CloudTypes, Bounds DEF CloudGrows, Cloud!Connection
  <1> DEFINE a == cloudCaller[c]
             k == a.connection
  <1>3. a.at \in {"grant", "validate", "replace"} =>
           /\ k \in Clouds /\ cloud'[k].status # "absent"
           /\ a.revision <= cloud'[k].revision
           /\ cloud'[k].target = cloud[k].target
           /\ cloud[k].revision <= cloud'[k].revision
    BY <1>1, <1>2 DEF AccessSound, CloudGrows
  <1>4. a.at = "replace" => a.validated <= cloud'[k].revision
    BY <1>1, <1>2, <1>3 DEF AccessSound
  <1>5. a.at \in {"validate", "replace"} => cloud'[k].target \in granted'
    BY <1>1, <1>3 DEF AccessSound, CloudGrows
  <1> QED BY <1>1, <1>3, <1>4, <1>5 DEF AccessSound

\* A step of one call, and what there is to show about it.
LEMMA CloudMove ==
    ASSUME CloudInv, CloudGrows, NEW c \in Callers, NEW new \in Cloud!Call,
           cloudCaller' = [cloudCaller EXCEPT ![c] = new],
           onboarded' \in [CloudOnboardings -> Cloud!Session],
           prepared' \in [CloudOnboardings -> 0..MaxAccess \cup {None}],
           AccessSound(new)'
    PROVE  CloudInv'
  <1>1. cloudCaller' \in [Callers -> Cloud!Call]
    BY CloudTypes
  <1>2. Cloud!TypeOK'
    BY <1>1 DEF Cloud!TypeOK, CloudGrows
  <1>3. cloudCaller'[c] = new
    BY CloudTypes
  <1>4. AccessSound(cloudCaller[c])'
    BY <1>3 DEF AccessSound
  <1>5. ASSUME NEW d \in Callers, d # c
        PROVE  AccessSound(cloudCaller[d])'
    <2>1. cloudCaller'[d] = cloudCaller[d]
      BY <1>5, CloudTypes
    <2> QED BY <2>1, AccessStays
  <1> QED BY <1>2, <1>4, <1>5 DEF CloudInv, CloudGrows

\* A step of no call.
LEMMA CloudElsewhere ==
    ASSUME CloudInv, CloudGrows, UNCHANGED cloudCaller,
           onboarded' \in [CloudOnboardings -> Cloud!Session],
           prepared' \in [CloudOnboardings -> 0..MaxAccess \cup {None}]
    PROVE  CloudInv'
  <1>1. cloudCaller' \in [Callers -> Cloud!Call]
    BY CloudTypes
  <1>2. Cloud!TypeOK'
    BY <1>1 DEF Cloud!TypeOK, CloudGrows
  <1>3. \A d \in Callers : AccessSound(cloudCaller[d])'
    BY AccessStays
  <1> QED BY <1>2, <1>3 DEF CloudInv, CloudGrows

LEMMA NoCloudCall == Cloud!NoCall \in Cloud!Call /\ Cloud!NoCall.at = "idle"
  BY Bounds DEF Cloud!NoCall, Cloud!Call

\* A call ends.
LEMMA CloudCallEnds ==
    ASSUME CloudInv, CloudGrows, NEW c \in Callers, cloudCaller' = Cloud!Ended(c),
           onboarded' \in [CloudOnboardings -> Cloud!Session],
           prepared' \in [CloudOnboardings -> 0..MaxAccess \cup {None}]
    PROVE  CloudInv'
  <1>1. cloudCaller' = [cloudCaller EXCEPT ![c] = Cloud!NoCall]
    BY DEF Cloud!Ended
  <1>2. AccessSound(Cloud!NoCall)'
    BY NoCloudCall DEF AccessSound
  <1> QED BY <1>1, <1>2, NoCloudCall, CloudMove

\* A call goes on with another value, where nothing else changes but what it granted.
LEMMA CloudReads ==
    ASSUME CloudInv, NEW c \in Callers, NEW o \in CloudOnboardings,
           \/ Cloud!Discover(c, o) \/ Cloud!Authorize(c, o)
           \/ \E t \in Selections : Cloud!Prepare(c, o, t)
    PROVE  CloudInv'
  <1>1. UNCHANGED <<onboarded, cloud, granted, prepared>>
    BY DEF Cloud!Discover, Cloud!Prepare, Cloud!Authorize
  <1>2. CloudGrows
    BY <1>1, CloudUnchanged
  <1>3. PICK target \in Selections \cup {None}, at \in {"discover", "choose", "connection"} :
           /\ cloudCaller' = [cloudCaller EXCEPT ![c] =
                 [Cloud!NoCall EXCEPT !.at = at, !.onboarding = o, !.session = onboarded[o],
                                      !.target = target]]
           /\ at = "choose" => target \in Selections
           /\ at = "connection" => onboarded[o].connection # None
    BY Zenon DEF Cloud!Discover, Cloud!Prepare, Cloud!Authorize, Cloud!ReadSession
  <1>4. PICK new : new = [Cloud!NoCall EXCEPT !.at = at, !.onboarding = o,
                                !.session = onboarded[o], !.target = target]
    OBVIOUS
  <1>5. onboarded[o] \in Cloud!Session
    BY CloudTypes
  <1>6. /\ new \in Cloud!Call /\ new.at = at /\ new.onboarding = o
        /\ new.session = onboarded[o] /\ new.target = target
    BY <1>4, <1>5, NoCloudCall DEF Cloud!Call
  <1>7. at = "connection" => onboarded[o].connection \in Clouds
    BY <1>3, <1>5 DEF Cloud!Session
  <1>8. /\ cloudCaller' = [cloudCaller EXCEPT ![c] = new]
        /\ onboarded' \in [CloudOnboardings -> Cloud!Session]
        /\ prepared' \in [CloudOnboardings -> 0..MaxAccess \cup {None}]
    BY <1>1, <1>3, <1>4, CloudTypes
  <1>9. AccessSound(new)'
    BY <1>3, <1>5, <1>6, <1>7 DEF AccessSound
  <1> QED BY <1>2, <1>6, <1>8, <1>9, CloudMove
\* A transaction of the onboarding alone, after which its call has ended or archives.
LEMMA CloudSessions ==
    ASSUME CloudInv, NEW c \in Callers,
           Cloud!Complete(c) \/ Cloud!Spend(c) \/ Cloud!Attach(c) \/ Cloud!AttachFails(c)
           \/ Cloud!CallEnds(c)
    PROVE  CloudInv'
  <1> DEFINE o == cloudCaller[c].onboarding
  <1>1. UNCHANGED <<cloud, granted>>
    BY Zenon DEF Cloud!Complete, Cloud!Spend, Cloud!Attach, Cloud!AttachFails, Cloud!CallEnds
  <1>2. CloudGrows
    BY <1>1, CloudUnchanged
  <1>3. AccessSound(cloudCaller[c]) /\ cloudCaller[c] \in Cloud!Call
    BY CloudTypes DEF CloudInv
  <1>4. cloudCaller[c].at \in {"discover", "attach", "spend"} => o \in CloudOnboardings
    BY <1>3 DEF AccessSound
  <1>5. onboarded' \in [CloudOnboardings -> Cloud!Session]
    <2>1. CASE Cloud!Complete(c)
      BY <2>1, <1>4, CloudTypes DEF Cloud!Complete, Cloud!Session
    <2>2. CASE Cloud!Spend(c)
      BY <2>2, <1>4, CloudTypes DEF Cloud!Spend, Cloud!Session
    <2>3. CASE Cloud!Attach(c)
      <3>1. cloudCaller[c].connection \in Clouds \cup {None}
        BY <1>3 DEF Cloud!Call
      <3> QED BY <2>3, <3>1, <1>4, CloudTypes DEF Cloud!Attach, Cloud!Session
    <2>4. CASE UNCHANGED onboarded
      BY <2>4, CloudTypes
    <2> QED BY <2>1, <2>2, <2>3, <2>4 DEF Cloud!AttachFails, Cloud!CallEnds
  <1>6. prepared' \in [CloudOnboardings -> 0..MaxAccess \cup {None}]
    <2>1. cloudCaller[c].revision \in 0..MaxAccess
      BY <1>3 DEF Cloud!Call
    <2> QED BY <2>1, CloudTypes
            DEF Cloud!Complete, Cloud!Spend, Cloud!Attach, Cloud!AttachFails, Cloud!CallEnds
  <1>7. \/ cloudCaller' = Cloud!Ended(c)
        \/ cloudCaller[c].at = "attach" /\ cloudCaller' = Cloud!Goto(c, "archive")
    BY Zenon DEF Cloud!Complete, Cloud!Spend, Cloud!Attach, Cloud!AttachFails, Cloud!CallEnds
  <1>8. CASE cloudCaller' = Cloud!Ended(c)
    BY <1>2, <1>5, <1>6, <1>8, CloudCallEnds
  <1>9. CASE cloudCaller[c].at = "attach" /\ cloudCaller' = Cloud!Goto(c, "archive")
    <2>1. PICK new : new = [cloudCaller[c] EXCEPT !.at = "archive"]
      OBVIOUS
    <2>2. /\ new \in Cloud!Call /\ new.at = "archive"
          /\ new.onboarding = o /\ new.session = cloudCaller[c].session
          /\ new.connection = cloudCaller[c].connection
      BY <1>3, <2>1 DEF Cloud!Call
    <2>3. cloudCaller' = [cloudCaller EXCEPT ![c] = new]
      BY <1>9, <2>1, CloudTypes DEF Cloud!Goto
    <2>4. AccessSound(new)'
      BY <1>3, <1>9, <2>2 DEF AccessSound
    <2> QED BY <1>2, <1>5, <1>6, <2>2, <2>3, <2>4, CloudMove
  <1> QED BY <1>7, <1>8, <1>9

\* The connection of a call: found, added, or read again.
LEMMA CloudSeesNone ==
    ASSUME CloudInv, NEW c \in Callers, Cloud!SeesNone(c)
    PROVE  CloudInv'
  <1>1. /\ AccessSound(cloudCaller[c]) /\ cloudCaller[c] \in Cloud!Call
        /\ cloudCaller[c].at = "choose"
    BY CloudTypes DEF CloudInv, Cloud!SeesNone
  <1>2. UNCHANGED <<onboarded, cloud, granted, prepared>>
    BY DEF Cloud!SeesNone
  <1>3. PICK new : new = [cloudCaller[c] EXCEPT !.at = "add"]
    OBVIOUS
  <1>4. /\ new \in Cloud!Call /\ new.at = "add"
        /\ new.onboarding = cloudCaller[c].onboarding /\ new.session = cloudCaller[c].session
        /\ new.target = cloudCaller[c].target
    BY <1>1, <1>3 DEF Cloud!Call
  <1>5. cloudCaller' = [cloudCaller EXCEPT ![c] = new]
    BY <1>3, CloudTypes DEF Cloud!SeesNone, Cloud!Goto
  <1>6. AccessSound(new)'
    BY <1>1, <1>4 DEF AccessSound
  <1> QED BY <1>2, <1>4, <1>5, <1>6, CloudTypes, CloudUnchanged, CloudMove

LEMMA CloudConnections ==
    ASSUME CloudInv, NEW c \in Callers, NEW k \in Clouds,
           Cloud!Reuse(c, k) \/ Cloud!Add(c, k)
    PROVE  CloudInv'
  <1> DEFINE a == cloudCaller[c]
  <1>1. AccessSound(a) /\ a \in Cloud!Call /\ a.at \in {"choose", "add"}
    BY CloudTypes DEF CloudInv, Cloud!Reuse, Cloud!Add
  <1>2. UNCHANGED <<onboarded, granted, prepared>>
    BY DEF Cloud!Reuse, Cloud!Add
  <1>3. CloudGrows
    <2>1. CASE UNCHANGED cloud
      BY <1>2, <2>1, CloudUnchanged
    <2>2. CASE Cloud!Add(c, k)
      <3>1. PICK document : document = [cloud[k] EXCEPT !.target = a.target,
                                                       !.status = "setup-required"]
        OBVIOUS
      <3>2. a.target \in Selections
        BY <1>1 DEF AccessSound
      <3>3. /\ document \in Cloud!Connection /\ document.target = a.target
        BY <3>1, <3>2, CloudTypes DEF Cloud!Connection
      <3>4. cloud[k].status = "absent" /\ cloud' = [cloud EXCEPT ![k] = document]
        BY <2>2, <3>1, CloudTypes DEF Cloud!Add
      <3>5. cloud' \in [Clouds -> Cloud!Connection]
        BY <3>3, <3>4, CloudTypes
      <3>6. ASSUME NEW j \in Clouds
            PROVE  /\ cloud'[j].status # "absent" => cloud'[j].target \in Selections
                   /\ cloud[j].status # "absent" => cloud'[j] = cloud[j]
        BY <3>2, <3>3, <3>4, CloudTypes DEF CloudInv
      <3> QED BY <1>2, <3>5, <3>6, CloudTypes DEF CloudGrows
    <2> QED BY <2>1, <2>2 DEF Cloud!Reuse
  <1>4. cloud[k].revision \in 0..MaxAccess
    BY CloudTypes DEF Cloud!Connection
  <1>5. PICK new \in Cloud!Call :
           /\ cloudCaller' = [cloudCaller EXCEPT ![c] = new]
           /\ new.at = "attach" /\ new.connection \in Clouds
           /\ new.onboarding = a.onboarding /\ new.session = a.session
    <2>1. CASE Cloud!Reuse(c, k)
      <3>1. PICK new : new = [a EXCEPT !.at = "attach", !.connection = k,
                                      !.revision = cloud[k].revision]
        OBVIOUS
      <3>2. /\ new \in Cloud!Call /\ new.at = "attach" /\ new.connection = k
            /\ new.onboarding = a.onboarding /\ new.session = a.session
            /\ new.target = a.target
        BY <1>1, <1>4, <3>1 DEF Cloud!Call
      <3>3. cloudCaller' = [cloudCaller EXCEPT ![c] = new]
        BY <2>1, <3>1, CloudTypes DEF Cloud!Reuse
      <3> QED BY <3>2, <3>3
    <2>2. CASE Cloud!Add(c, k)
      <3>1. PICK new : new = [a EXCEPT !.at = "attach", !.connection = k, !.made = TRUE]
        OBVIOUS
      <3>2. /\ new \in Cloud!Call /\ new.at = "attach" /\ new.connection = k
            /\ new.onboarding = a.onboarding /\ new.session = a.session
            /\ new.target = a.target
        BY <1>1, <3>1 DEF Cloud!Call
      <3>3. cloudCaller' = [cloudCaller EXCEPT ![c] = new]
        BY <2>2, <3>1, CloudTypes DEF Cloud!Add
      <3> QED BY <3>2, <3>3
    <2> QED BY <2>1, <2>2
  <1>6. AccessSound(new)'
    BY <1>1, <1>5 DEF AccessSound
  <1> QED BY <1>2, <1>3, <1>5, <1>6, CloudTypes, CloudMove

\* The chain of authorize_connection up to its transaction.
LEMMA CloudAuthorises ==
    ASSUME CloudInv, NEW c \in Callers,
           Cloud!ReadConnection(c) \/ Cloud!Grant(c) \/ Cloud!Validate(c)
    PROVE  CloudInv'
  <1> DEFINE a == cloudCaller[c]
  <1>1. AccessSound(a) /\ a \in Cloud!Call /\ a.at \in {"connection", "grant", "validate"}
    BY CloudTypes DEF CloudInv, Cloud!ReadConnection, Cloud!Grant, Cloud!Validate
  <1>2. UNCHANGED <<onboarded, cloud, prepared>>
    BY DEF Cloud!ReadConnection, Cloud!Grant, Cloud!Validate
  <1>3. CloudGrows
    <2>1. CASE UNCHANGED granted
      BY <1>2, <2>1, CloudUnchanged
    <2>2. CASE Cloud!Grant(c)
      <3>1. a.connection \in Clouds /\ cloud[a.connection].status # "absent"
        BY <1>1, <2>2 DEF Cloud!Grant, AccessSound
      <3>2. cloud[a.connection].target \in Selections
        BY <3>1 DEF CloudInv
      <3> QED BY <1>2, <2>2, <3>2, CloudTypes DEF Cloud!Grant, CloudGrows, CloudInv
    <2> QED BY <2>1, <2>2 DEF Cloud!ReadConnection, Cloud!Validate
  <1>4. PICK new \in Cloud!Call :
           /\ cloudCaller' = [cloudCaller EXCEPT ![c] = new]
           /\ AccessSound(new)'
    <2>1. CASE Cloud!ReadConnection(c)
      <3> DEFINE k == a.session.connection
      <3>1. k \in Clouds
        BY <1>1, <2>1 DEF Cloud!ReadConnection, AccessSound, Cloud!Copy
      <3>2. PICK at \in {"spend", "grant"} :
               cloudCaller' = [cloudCaller EXCEPT ![c] =
                   [a EXCEPT !.at = at, !.connection = k, !.revision = cloud[k].revision]]
        <4>1. cloudCaller' = [cloudCaller EXCEPT ![c] =
                   [a EXCEPT !.at = IF cloud[k].status = "ready" THEN "spend" ELSE "grant",
                             !.connection = k, !.revision = cloud[k].revision]]
          BY <2>1, CloudTypes DEF Cloud!ReadConnection, Cloud!Copy
        <4> QED BY <4>1
      <3>3. PICK new : new = [a EXCEPT !.at = at, !.connection = k, !.revision = cloud[k].revision]
        OBVIOUS
      <3>4. cloud[k].revision \in 0..MaxAccess /\ cloud[k].revision \in Nat
        BY <3>1, CloudTypes DEF Cloud!Connection
      <3>5. /\ new \in Cloud!Call /\ new.at = at /\ new.connection = k
            /\ new.revision = cloud[k].revision
            /\ new.onboarding = a.onboarding /\ new.session = a.session
        BY <1>1, <3>1, <3>3, <3>4 DEF Cloud!Call
      <3>6. cloud[k].status # "absent"
        BY <2>1 DEF Cloud!ReadConnection, Cloud!Copy
      <3>7. AccessSound(new)'
        BY <1>1, <1>2, <3>1, <3>4, <3>5, <3>6 DEF AccessSound
      <3> QED BY <3>2, <3>3, <3>5, <3>7
    <2>2. CASE Cloud!Grant(c)
      <3>1. PICK new : new = [a EXCEPT !.at = "validate"]
        OBVIOUS
      <3>2. /\ new \in Cloud!Call /\ new.at = "validate" /\ new.connection = a.connection
            /\ new.revision = a.revision /\ new.onboarding = a.onboarding
            /\ new.session = a.session
        BY <1>1, <3>1 DEF Cloud!Call
      <3>3. cloudCaller' = [cloudCaller EXCEPT ![c] = new]
        BY <2>2, <3>1, CloudTypes DEF Cloud!Grant, Cloud!Goto
      <3>4. a.at = "grant" /\ cloud'[a.connection].target \in granted'
        BY <1>2, <2>2 DEF Cloud!Grant
      <3>5. AccessSound(new)'
        BY <1>1, <1>2, <3>2, <3>4 DEF AccessSound
      <3> QED BY <3>2, <3>3, <3>5
    <2>3. CASE Cloud!Validate(c)
      <3>1. a.connection \in Clouds /\ a.revision <= cloud[a.connection].revision
        BY <1>1, <2>3 DEF Cloud!Validate, AccessSound
      <3>2. PICK new : new = [a EXCEPT !.at = "replace",
                                      !.validated = cloud[a.connection].revision]
        OBVIOUS
      <3>3. /\ cloud[a.connection].revision \in 0..MaxAccess
            /\ cloud[a.connection].revision \in Nat
            /\ cloud[a.connection].revision <= cloud[a.connection].revision
        BY <3>1, CloudTypes DEF Cloud!Connection
      <3>4. /\ new \in Cloud!Call /\ new.at = "replace" /\ new.connection = a.connection
            /\ new.revision = a.revision /\ new.onboarding = a.onboarding
            /\ new.session = a.session /\ new.validated = cloud[a.connection].revision
        BY <1>1, <3>2, <3>3 DEF Cloud!Call
      <3>5. cloudCaller' = [cloudCaller EXCEPT ![c] = new]
        BY <2>3, <3>2, CloudTypes DEF Cloud!Validate
      <3>6. /\ a.at = "validate" /\ UNCHANGED granted
            /\ cloud[a.connection].target \in granted
            /\ cloud[a.connection].status # "absent"
        BY <2>3 DEF Cloud!Validate
      <3>7. AccessSound(new)'
        BY <1>1, <1>2, <3>1, <3>3, <3>4, <3>6 DEF AccessSound
      <3> QED BY <3>4, <3>5, <3>7
    <2> QED BY <2>1, <2>2, <2>3
  <1> QED BY <1>2, <1>3, <1>4, CloudTypes, CloudMove

\* A replacement of a connection that is there.
LEMMA CloudReplaces ==
    ASSUME CloudInv, NEW k \in Clouds, NEW document \in Cloud!Connection,
           cloud' = [cloud EXCEPT ![k] = document], UNCHANGED granted,
           document.status = "absent" <=> cloud[k].status = "absent",
           document.target = cloud[k].target, cloud[k].revision <= document.revision
    PROVE  CloudGrows
  <1>1. cloud' \in [Clouds -> Cloud!Connection]
    BY CloudTypes
  <1>2. ASSUME NEW j \in Clouds
        PROVE  /\ cloud'[j].status # "absent" => cloud'[j].target \in Selections
               /\ cloud[j].status # "absent" =>
                     /\ cloud'[j].status # "absent" /\ cloud'[j].target = cloud[j].target
                     /\ cloud[j].revision <= cloud'[j].revision
    <2>1. CASE j = k
      BY <2>1, CloudTypes DEF CloudInv
    <2>2. CASE j # k
      BY <2>2, CloudTypes DEF CloudInv
    <2> QED BY <2>1, <2>2
  <1> QED BY <1>1, <1>2, CloudTypes DEF CloudGrows

LEMMA CloudWrites ==
    ASSUME CloudInv, NEW c \in Callers, Cloud!ArchiveMade(c) \/ Cloud!BecomeReady(c)
    PROVE  CloudInv'
  <1> DEFINE a == cloudCaller[c]
             k == a.connection
  <1>1. AccessSound(a) /\ a \in Cloud!Call /\ a.at \in {"archive", "replace"}
    BY CloudTypes DEF CloudInv, Cloud!ArchiveMade, Cloud!BecomeReady
  <1>2. UNCHANGED <<onboarded, granted, prepared>>
    BY DEF Cloud!ArchiveMade, Cloud!BecomeReady
  <1>3. k \in Clouds /\ cloud[k] \in Cloud!Connection /\ cloud[k].revision \in Nat
    BY <1>1, CloudTypes DEF AccessSound
  <1>4. PICK v : v = cloud[k].revision + 1
    OBVIOUS
  <1>5. v \in 0..MaxAccess /\ cloud[k].revision <= v
    <2>1. cloud[k].revision < MaxAccess
      BY DEF Cloud!ArchiveMade, Cloud!BecomeReady
    <2> QED BY <1>3, <1>4, <2>1, Bounds
  <1>6. CASE Cloud!ArchiveMade(c)
    <2>1. PICK document : document = [cloud[k] EXCEPT !.archived = TRUE, !.revision = v]
      OBVIOUS
    <2>2. TRUE \in BOOLEAN
      OBVIOUS
    <2>3. /\ document \in Cloud!Connection /\ document.status = cloud[k].status
          /\ document.target = cloud[k].target /\ document.revision = v
      BY <1>3, <1>5, <2>1, <2>2 DEF Cloud!Connection
    <2>4. cloud' = [cloud EXCEPT ![k] = document]
      BY <1>3, <1>4, <1>6, <2>1, CloudTypes DEF Cloud!ArchiveMade
    <2>5. CloudGrows
      BY <1>2, <1>3, <1>5, <2>3, <2>4, CloudReplaces
    <2> QED BY <1>2, <1>6, <2>5, CloudTypes, CloudCallEnds DEF Cloud!ArchiveMade
  <1>7. CASE Cloud!BecomeReady(c)
    <2>1. PICK document : document = [cloud[k] EXCEPT !.status = "ready", !.revision = v]
      OBVIOUS
    <2>2. cloud[k].status # "absent"
      BY <1>1, <1>7 DEF AccessSound, Cloud!BecomeReady
    <2>3. /\ document \in Cloud!Connection /\ document.status = "ready"
          /\ document.target = cloud[k].target /\ document.revision = v
      BY <1>3, <1>5, <2>1 DEF Cloud!Connection
    <2>4. cloud' = [cloud EXCEPT ![k] = document]
      BY <1>3, <1>4, <1>7, <2>1, CloudTypes DEF Cloud!BecomeReady
    <2>5. CloudGrows
      BY <1>2, <1>3, <1>5, <2>2, <2>3, <2>4, CloudReplaces
    <2>6. PICK new : new = [a EXCEPT !.at = "spend"]
      OBVIOUS
    <2>7. /\ new \in Cloud!Call /\ new.at = "spend"
          /\ new.onboarding = a.onboarding /\ new.session = a.session
      BY <1>1, <2>6 DEF Cloud!Call
    <2>8. cloudCaller' = [cloudCaller EXCEPT ![c] = new]
      BY <1>7, <2>6, CloudTypes DEF Cloud!BecomeReady, Cloud!Goto
    <2>9. AccessSound(new)'
      BY <1>1, <2>7 DEF AccessSound
    <2> QED BY <1>2, <2>5, <2>7, <2>8, <2>9, CloudTypes, CloudMove
  <1> QED BY <1>6, <1>7

\* An onboarding begins, or is answered with the connection it has.
LEMMA CloudBegins ==
    ASSUME CloudInv, NEW o \in CloudOnboardings,
           Cloud!Begin(o) \/ \E t \in Selections : Cloud!PreparedAlready(o, t)
    PROVE  CloudInv'
  <1>1. CASE Cloud!Begin(o)
    <2>1. UNCHANGED <<cloud, granted, prepared, cloudCaller>>
      BY <1>1 DEF Cloud!Begin
    <2>2. onboarded' \in [CloudOnboardings -> Cloud!Session]
      BY <1>1, CloudTypes DEF Cloud!Begin, Cloud!Session
    <2> QED BY <2>1, <2>2, CloudTypes, CloudUnchanged, CloudElsewhere
  <1>2. ASSUME NEW t \in Selections, Cloud!PreparedAlready(o, t)
        PROVE  CloudInv'
    <2>1. UNCHANGED <<onboarded, cloud, granted, cloudCaller>>
      BY <1>2 DEF Cloud!PreparedAlready
    <2>2. onboarded[o].connection \in Clouds
      BY <1>2, CloudTypes DEF Cloud!PreparedAlready, Cloud!Session
    <2>3. cloud[onboarded[o].connection].revision \in 0..MaxAccess
      BY <2>2, CloudTypes DEF Cloud!Connection
    <2>4. prepared' \in [CloudOnboardings -> 0..MaxAccess \cup {None}]
      BY <1>2, <2>3, CloudTypes DEF Cloud!PreparedAlready, Cloud!Answered
    <2> QED BY <2>1, <2>4, CloudTypes, CloudUnchanged, CloudElsewhere
  <1> QED BY <1>1, <1>2

\* Administrators edit and archive a connection.
LEMMA CloudEdited ==
    ASSUME CloudInv, NEW k \in Clouds, Cloud!Edit(k) \/ Cloud!ArchiveConnection(k)
    PROVE  CloudInv'
  <1>1. /\ cloud[k].status # "absent" /\ cloud[k].revision < MaxAccess
        /\ UNCHANGED <<onboarded, granted, prepared, cloudCaller>>
    BY DEF Cloud!Edit, Cloud!ArchiveConnection
  <1>2. cloud[k] \in Cloud!Connection /\ cloud[k].revision \in Nat
    BY CloudTypes
  <1>3. PICK v : v = cloud[k].revision + 1
    OBVIOUS
  <1>4. v \in 0..MaxAccess /\ cloud[k].revision <= v
    BY <1>1, <1>2, <1>3, Bounds
  <1>5. PICK document \in Cloud!Connection :
           /\ cloud' = [cloud EXCEPT ![k] = document]
           /\ document.status # "absent" /\ document.target = cloud[k].target
           /\ document.revision = v
    <2>1. CASE Cloud!Edit(k)
      <3>1. PICK document : document = [cloud[k] EXCEPT !.revision = v]
        OBVIOUS
      <3>2. /\ document \in Cloud!Connection /\ document.status = cloud[k].status
            /\ document.target = cloud[k].target /\ document.revision = v
        BY <1>2, <1>4, <3>1 DEF Cloud!Connection
      <3>3. cloud' = [cloud EXCEPT ![k] = document]
        BY <2>1, <1>3, <3>1, CloudTypes DEF Cloud!Edit
      <3> QED BY <1>1, <3>2, <3>3
    <2>2. CASE Cloud!ArchiveConnection(k)
      <3>1. PICK document : document = [cloud[k] EXCEPT !.status = "disabled",
                                            !.archived = TRUE, !.revision = v]
        OBVIOUS
      <3>2. TRUE \in BOOLEAN
        OBVIOUS
      <3>3. /\ document \in Cloud!Connection /\ document.status = "disabled"
            /\ document.target = cloud[k].target /\ document.revision = v
        BY <1>2, <1>4, <3>1, <3>2 DEF Cloud!Connection
      <3>4. cloud' = [cloud EXCEPT ![k] = document]
        BY <2>2, <1>3, <3>1, CloudTypes DEF Cloud!ArchiveConnection
      <3> QED BY <3>3, <3>4
    <2> QED BY <2>1, <2>2
  <1>6. CloudGrows
    BY <1>1, <1>4, <1>5, CloudReplaces
  <1> QED BY <1>1, <1>6, CloudTypes, CloudElsewhere

LEMMA CloudStep ==
    ASSUME CloudInv, [Cloud!Next]_cloudVars
    PROVE  CloudInv'
  <1>1. CASE UNCHANGED cloudVars
    BY <1>1, CloudTypes, CloudUnchanged, CloudElsewhere DEF cloudVars
  <1>2. CASE Cloud!Next
    <2>1. \A o \in CloudOnboardings :
             Cloud!Begin(o) \/ (\E t \in Selections : Cloud!PreparedAlready(o, t)) => CloudInv'
      BY CloudBegins
    <2>2. ASSUME NEW c \in Callers
          PROVE  /\ \A o \in CloudOnboardings :
                       Cloud!Discover(c, o) \/ Cloud!Authorize(c, o) => CloudInv'
                 /\ \A o \in CloudOnboardings, t \in Selections :
                       Cloud!Prepare(c, o, t) => CloudInv'
      BY CloudReads
    <2>3. ASSUME NEW c \in Callers
          PROVE  /\ \A k \in Clouds : Cloud!Reuse(c, k) \/ Cloud!Add(c, k) => CloudInv'
                 /\ Cloud!SeesNone(c) => CloudInv'
      BY CloudConnections, CloudSeesNone
    <2>4. ASSUME NEW c \in Callers
          PROVE  /\ Cloud!Complete(c) => CloudInv'
                 /\ Cloud!Attach(c) \/ Cloud!AttachFails(c) => CloudInv'
                 /\ Cloud!Spend(c) \/ Cloud!CallEnds(c) => CloudInv'
      BY CloudSessions
    <2>5. ASSUME NEW c \in Callers
          PROVE  /\ Cloud!ReadConnection(c) \/ Cloud!Grant(c) \/ Cloud!Validate(c) => CloudInv'
                 /\ Cloud!ArchiveMade(c) \/ Cloud!BecomeReady(c) => CloudInv'
      BY CloudAuthorises, CloudWrites
    <2>6. \A k \in Clouds : Cloud!Edit(k) \/ Cloud!ArchiveConnection(k) => CloudInv'
      BY CloudEdited
    <2> QED BY <1>2, <2>1, <2>2, <2>3, <2>4, <2>5, <2>6, Zenon DEF Cloud!Next
  <1> QED BY <1>1, <1>2

LEMMA CloudStart ==
    ASSUME Cloud!Init
    PROVE  CloudInv
  <1>1. 0 \in 0..MaxAccess /\ FALSE \in BOOLEAN
    BY Bounds
  <1>2. /\ onboarded \in [CloudOnboardings -> Cloud!Session]
        /\ cloud \in [Clouds -> Cloud!Connection]
    BY <1>1 DEF Cloud!Init, Cloud!Session, Cloud!Connection
  <1>3. Cloud!TypeOK
    BY <1>2, NoCloudCall DEF Cloud!TypeOK, Cloud!Init
  <1>4. \A k \in Clouds : cloud[k].status = "absent"
    BY DEF Cloud!Init
  <1>5. \A c \in Callers : cloudCaller[c].at = "idle"
    BY NoCloudCall DEF Cloud!Init
  <1> QED BY <1>3, <1>4, <1>5 DEF CloudInv, AccessSound

\* What the transaction of authorize_connection writes is the connection it validated.
LEMMA ReadyOnlyThen ==
    ASSUME CloudInv, [Cloud!Next]_cloudVars
    PROVE  Cloud!BecomesReadyAsValidated
  <1> SUFFICES ASSUME NEW k \in Clouds, cloud[k].status # "ready", cloud'[k].status = "ready"
               PROVE  \E c \in Callers :
                          /\ cloudCaller[c].connection = k
                          /\ cloudCaller[c].validated = cloud[k].revision
                          /\ cloud[k].target \in granted
    BY DEF Cloud!BecomesReadyAsValidated
  <1>1. PICK c \in Callers : Cloud!BecomeReady(c)
    <2>1. ASSUME NEW c \in Callers, Cloud!ArchiveMade(c)
          PROVE  FALSE
      BY <2>1, CloudTypes DEF Cloud!ArchiveMade, Cloud!Connection
    <2>2. ASSUME NEW c \in Callers, NEW j \in Clouds, Cloud!Add(c, j)
          PROVE  FALSE
      BY <2>2, CloudTypes DEF Cloud!Add, Cloud!Connection
    <2>3. ASSUME NEW j \in Clouds, Cloud!Edit(j) \/ Cloud!ArchiveConnection(j)
          PROVE  FALSE
      BY <2>3, CloudTypes DEF Cloud!Edit, Cloud!ArchiveConnection, Cloud!Connection
    <2>4. cloud' # cloud
      OBVIOUS
    <2> QED
      BY <2>1, <2>2, <2>3, <2>4
      DEF Cloud!Next, cloudVars, Cloud!Begin, Cloud!PreparedAlready, Cloud!Discover,
          Cloud!Authorize, Cloud!Prepare, Cloud!Reuse, Cloud!SeesNone, Cloud!Complete,
          Cloud!Attach, Cloud!AttachFails, Cloud!ReadConnection, Cloud!Grant,
          Cloud!Validate, Cloud!Spend, Cloud!CallEnds
  <1>2. AccessSound(cloudCaller[c])
    BY DEF CloudInv
  <1>3. /\ cloudCaller[c].at = "replace"
        /\ cloud[cloudCaller[c].connection].revision = cloudCaller[c].revision
    BY <1>1 DEF Cloud!BecomeReady, Cloud!Unchanged
  <1>4. cloudCaller[c].connection = k
    BY <1>1, CloudTypes DEF Cloud!BecomeReady, Cloud!Connection
  <1>5. cloudCaller[c].validated = cloud[k].revision
    BY <1>2, <1>3, <1>4, CloudTypes DEF AccessSound
  <1> QED BY <1>2, <1>3, <1>4, <1>5 DEF AccessSound

\* A connection becomes ready only at the revision that the broker validated and with
\* access that was granted before (module GoogleCloudOnboarding): what was edited,
\* archived or validated by another call since is refused (authorize_connection).
THEOREM OnlyReadyValidated == PartsSpec => ReadyAsValidated
  <1> DEFINE Inv == part = "cloud" => CloudInv
  <1>1. PartsInit => Inv
    BY CloudStart DEF PartsInit
  <1>2. Inv /\ [PartsNext]_<<part, OrganisationVars, BrowserVars>> => Inv'
    BY EachPart, CloudStep
  <1>3. Inv /\ [PartsNext]_<<part, OrganisationVars, BrowserVars>>
           => [part = "cloud" => Cloud!BecomesReadyAsValidated]_cloudVars
    BY EachPart, ReadyOnlyThen
  <1> QED BY <1>1, <1>2, <1>3, PTL DEF PartsSpec, ReadyAsValidated

-----------------------------------------------------------------------------
(***************************************************************************)
(* GitHubOnboarding                                                        *)
(***************************************************************************)

GitSettled(o) == onboarding[o].status \in {"discovered", "complete"}
GitStored(o) == repositories[OrganisationOf[o]]

\* An installation as it is staged: ready only if confirmed, and not switched off yet.
GitStaged(i) ==
    /\ i \in GitHub!Installation /\ i.active
    /\ i.ready => i.verified /\ i.repositoriesReady

\* Who discovered the installation holds its index, and only what it found is stored.
GitOnboardingSound(o) ==
    GitSettled(o) =>
        /\ index # None /\ index.onboarding = o
        /\ GitStaged(onboarding[o].installation)
        /\ GitStored(o) \subseteq onboarding[o].repositories
        /\ onboarding[o].status = "complete" =>
              /\ GitStored(o) = onboarding[o].repositories
              /\ installation[OrganisationOf[o]] # None

GitOrganisationSound(g) ==
    /\ installation[g] # None =>
          \E o \in Onboardings : OrganisationOf[o] = g /\ onboarding[o].status = "complete"
    /\ repositories[g] # {} =>
          \E o \in Onboardings : OrganisationOf[o] = g /\ GitSettled(o)

GitIndexSound ==
    index # None /\ index.ready =>
        /\ onboarding[index.onboarding].status = "complete"
        /\ LET i == installation[OrganisationOf[index.onboarding]]
           IN i.active /\ i.verified /\ i.repositoriesReady

\* An installation with repositories that are ready is as its onboarding discovered it:
\* no change of them was reported since the completion.
GitReportSound ==
    \A o \in Onboardings :
        onboarding[o].status = "complete" /\ installation[OrganisationOf[o]].repositoriesReady
           => ~reported /\ onboarding[o].installation.repositoriesReady

GitCallSound(a) ==
    /\ a.at # "idle" => a.onboarding \in Onboardings
    /\ a.at \in {"receipt", "stage"} => GitStaged(a.installation)
    /\ a.at \in {"reserve", "existing", "write", "delete", "finish"} => GitSettled(a.onboarding)
    /\ a.at \in {"delete", "finish"} =>
          onboarding[a.onboarding].repositories \subseteq GitStored(a.onboarding)

GitHubInv ==
    /\ GitHub!TypeOK
    /\ \A o \in Onboardings : GitOnboardingSound(o)
    /\ \A g \in Organisations : GitOrganisationSound(g)
    /\ GitIndexSound /\ GitReportSound
    /\ \A c \in Callers : GitCallSound(caller[c])

LEMMA GitTypes ==
    ASSUME GitHubInv
    PROVE  /\ onboarding \in [Onboardings -> GitHub!Onboarding]
           /\ index # None => index \in GitHub!Index /\ index.onboarding \in Onboardings
           /\ installation \in [Organisations -> GitHub!Installation \cup {None}]
           /\ repositories \in [Organisations -> SUBSET Repositories]
           /\ receipt \in BOOLEAN
           /\ caller \in [Callers -> GitHub!Call]
           /\ \A o \in Onboardings : OrganisationOf[o] \in Organisations
           /\ None \notin GitHub!Index /\ None \notin GitHub!Installation
  <1>1. \A o \in Onboardings : OrganisationOf[o] \in Organisations
    BY DEF OrganisationOf, Organisations
  <1> QED BY <1>1, DocumentsAssumption DEF GitHubInv, GitHub!TypeOK, GitHub!Index

\* A deleted installation stays deleted.
GitDeletedStays ==
    index # None /\ index.deleted => index' # None /\ index'.deleted

\* A step that leaves the onboardings and the repositories alone.
LEMMA GitHubKeeps ==
    ASSUME GitHubInv, GitHub!TypeOK', UNCHANGED <<onboarding, repositories>>,
           index # None => index' # None /\ index'.onboarding = index.onboarding,
           \A g \in Organisations : installation'[g] = None <=> installation[g] = None,
           GitIndexSound', GitReportSound',
           \A c \in Callers : caller'[c] = caller[c] \/ GitCallSound(caller[c])'
    PROVE  GitHubInv'
  <1>1. \A o \in Onboardings : GitOnboardingSound(o)'
    <2>1. \A o \in Onboardings : GitOnboardingSound(o) /\ OrganisationOf[o] \in Organisations
      BY GitTypes DEF GitHubInv
    <2> QED BY <2>1 DEF GitOnboardingSound, GitSettled, GitStored
  <1>2. \A g \in Organisations : GitOrganisationSound(g)'
    BY DEF GitHubInv, GitOrganisationSound, GitSettled
  <1>3. \A c \in Callers : GitCallSound(caller[c])'
    BY DEF GitHubInv, GitCallSound, GitSettled, GitStored
  <1> QED BY <1>1, <1>2, <1>3 DEF GitHubInv

LEMMA GitNoCall ==
    GitHub!NoCall \in GitHub!Call /\ GitHub!NoCall.at = "idle"
  BY DEF GitHub!NoCall, GitHub!Call

LEMMA GitHubStart ==
    ASSUME GitHub!Init
    PROVE  GitHubInv
  <1>1. /\ TRUE \in BOOLEAN /\ FALSE \in BOOLEAN /\ MaxAppChanges \in Nat
        /\ Repositories \in SUBSET Repositories /\ {} \in SUBSET Repositories
    BY Bounds
  <1>2. onboarding \in [Onboardings -> GitHub!Onboarding]
    BY <1>1 DEF GitHub!Init, GitHub!Onboarding
  <1>3. app \in [status : {"installed", "suspended", "deleted"},
                 repositories : SUBSET Repositories, scanned : BOOLEAN]
    BY <1>1 DEF GitHub!Init
  <1>4. GitHub!TypeOK
    <2>1. /\ appChanges \in 0..MaxAppChanges /\ webhooks = {"created"}
          /\ index \in GitHub!Index \cup {None} /\ receipt \in BOOLEAN /\ reported \in BOOLEAN
          /\ reconciling = {}
      <3>1. /\ appChanges = 0 /\ webhooks = {"created"} /\ index = None /\ receipt = FALSE
            /\ reported = FALSE
            /\ reconciling = {}
        BY DEF GitHub!Init
      <3>2. 0 \in 0..MaxAppChanges
        BY <1>1
      <3> QED BY <3>1, <3>2, <1>1
    <2>2. installation \in [Organisations -> GitHub!Installation \cup {None}]
      BY DEF GitHub!Init
    <2>3. repositories \in [Organisations -> SUBSET Repositories]
      BY DEF GitHub!Init
    <2>4. caller \in [Callers -> GitHub!Call]
      BY GitNoCall DEF GitHub!Init
    <2>5. github \in [Organisations -> {"none", "setup-required", "ready"}]
      BY DEF GitHub!Init
    <2> QED BY <1>2, <1>3, <2>1, <2>2, <2>3, <2>4, <2>5 DEF GitHub!TypeOK
  <1>5. \A o \in Onboardings : onboarding[o].status = "absent"
    BY DEF GitHub!Init
  <1>6. \A g \in Organisations : installation[g] = None /\ repositories[g] = {}
    BY DEF GitHub!Init
  <1>7. \A c \in Callers : caller[c].at = "idle"
    BY GitNoCall DEF GitHub!Init
  <1>8. index = None
    BY DEF GitHub!Init
  <1> QED
    BY <1>4, <1>5, <1>6, <1>7, <1>8
    DEF GitHubInv, GitOnboardingSound, GitOrganisationSound, GitIndexSound, GitReportSound,
        GitCallSound,
        GitSettled

-----------------------------------------------------------------------------
\* What changes at GitHub is no document.
LEMMA GitHubMoves ==
    ASSUME GitHubInv,
           GitHub!AppSuspended \/ GitHub!AppUnsuspended \/ GitHub!AppDeleted
              \/ GitHub!AppRepositoriesChanged
    PROVE  GitHubInv' /\ GitDeletedStays
  <1>1. UNCHANGED <<GitHub!documents, caller, GitHub!connections>>
    BY DEF GitHub!AppSuspended, GitHub!AppUnsuspended, GitHub!AppDeleted, GitHub!AppMoves,
           GitHub!AppRepositoriesChanged
  <1>2. /\ onboarding' = onboarding /\ index' = index /\ installation' = installation
        /\ repositories' = repositories /\ receipt' = receipt /\ reported' = reported
        /\ caller' = caller
        /\ github' = github /\ reconciling' = reconciling
    BY <1>1 DEF GitHub!documents, GitHub!connections
  <1>3. /\ app \in [status : {"installed", "suspended", "deleted"},
                    repositories : SUBSET Repositories, scanned : BOOLEAN]
        /\ appChanges \in 0..MaxAppChanges
        /\ webhooks \subseteq {"created", "unsuspend", "suspend", "deleted", "repositories"}
    BY DEF GitHubInv, GitHub!TypeOK
  <1>4. /\ app' \in [status : {"installed", "suspended", "deleted"},
                     repositories : SUBSET Repositories, scanned : BOOLEAN]
        /\ webhooks' \subseteq {"created", "unsuspend", "suspend", "deleted", "repositories"}
        /\ appChanges < MaxAppChanges /\ appChanges' = appChanges + 1
    <2>1. CASE GitHub!AppSuspended
      BY <1>3, <2>1 DEF GitHub!AppSuspended, GitHub!AppMoves
    <2>2. CASE GitHub!AppUnsuspended
      BY <1>3, <2>2 DEF GitHub!AppUnsuspended, GitHub!AppMoves
    <2>3. CASE GitHub!AppDeleted
      BY <1>3, <2>3 DEF GitHub!AppDeleted, GitHub!AppMoves
    <2>4. CASE GitHub!AppRepositoriesChanged
      BY <1>3, <2>4 DEF GitHub!AppRepositoriesChanged
    <2> QED BY <2>1, <2>2, <2>3, <2>4
  <1>5. appChanges' \in 0..MaxAppChanges
    BY <1>3, <1>4, Bounds
  <1>6. GitHub!TypeOK'
    BY <1>2, <1>4, <1>5 DEF GitHubInv, GitHub!TypeOK
  <1>7. GitIndexSound' /\ GitReportSound'
    BY <1>2 DEF GitHubInv, GitIndexSound, GitReportSound
  <1> QED BY <1>2, <1>6, <1>7, GitHubKeeps DEF GitDeletedStays

LEMMA GitHubConnects ==
    ASSUME GitHubInv,
           \/ \E o \in Onboardings : GitHub!AddConnection(o)
           \/ \E ready \in BOOLEAN : GitHub!Reconcile(ready)
    PROVE  GitHubInv' /\ GitDeletedStays
  <1>1. UNCHANGED <<GitHub!calls, GitHub!documents, caller>>
    BY DEF GitHub!AddConnection, GitHub!Reconcile
  <1>2. /\ onboarding' = onboarding /\ index' = index /\ installation' = installation
        /\ repositories' = repositories /\ receipt' = receipt /\ reported' = reported
        /\ caller' = caller
        /\ app' = app /\ appChanges' = appChanges /\ webhooks' = webhooks
    BY <1>1 DEF GitHub!calls, GitHub!documents
  <1>3. /\ github \in [Organisations -> {"none", "setup-required", "ready"}]
        /\ reconciling \subseteq BOOLEAN
    BY DEF GitHubInv, GitHub!TypeOK
  <1>4. /\ github' \in [Organisations -> {"none", "setup-required", "ready"}]
        /\ reconciling' \subseteq BOOLEAN
    BY <1>3 DEF GitHub!AddConnection, GitHub!Reconcile
  <1>5. GitHub!TypeOK'
    BY <1>2, <1>4 DEF GitHubInv, GitHub!TypeOK
  <1>6. GitIndexSound' /\ GitReportSound'
    BY <1>2 DEF GitHubInv, GitIndexSound, GitReportSound
  <1> QED BY <1>2, <1>5, <1>6, GitHubKeeps DEF GitDeletedStays
-----------------------------------------------------------------------------
\* A call goes on, and the documents stay.
LEMMA GitHubCallMoves ==
    ASSUME GitHubInv, UNCHANGED <<GitHub!calls, GitHub!documents, GitHub!connections>>,
           NEW c \in Callers, NEW new \in GitHub!Call, caller' = [caller EXCEPT ![c] = new],
           GitCallSound(new)
    PROVE  GitHubInv' /\ GitDeletedStays
  <1>1. /\ onboarding' = onboarding /\ index' = index /\ installation' = installation
        /\ repositories' = repositories /\ receipt' = receipt /\ reported' = reported
        /\ github' = github
        /\ reconciling' = reconciling
        /\ app' = app /\ appChanges' = appChanges /\ webhooks' = webhooks
    BY DEF GitHub!calls, GitHub!documents, GitHub!connections
  <1>2. /\ caller' \in [Callers -> GitHub!Call]
        /\ caller'[c] = new /\ \A d \in Callers \ {c} : caller'[d] = caller[d]
    BY GitTypes
  <1>3. GitHub!TypeOK'
    BY <1>1, <1>2 DEF GitHubInv, GitHub!TypeOK
  <1>4. GitIndexSound' /\ GitReportSound'
    BY <1>1 DEF GitHubInv, GitIndexSound, GitReportSound
  <1>5. GitCallSound(caller[c])'
    BY <1>1, <1>2 DEF GitCallSound, GitSettled, GitStored
  <1>6. \A d \in Callers : caller'[d] = caller[d] \/ GitCallSound(caller[d])'
    BY <1>2, <1>5
  <1> QED BY <1>1, <1>3, <1>4, <1>6, GitHubKeeps DEF GitDeletedStays

LEMMA GitHubDiscovers ==
    ASSUME GitHubInv, NEW c \in Callers, NEW o \in Onboardings, GitHub!Discover(c, o)
    PROVE  GitHubInv' /\ GitDeletedStays
  <1>1. PICK found : found = [verified |-> FALSE, repositoriesReady |-> app.scanned,
                             active |-> TRUE, deleted |-> FALSE, ready |-> FALSE]
    OBVIOUS
  <1>2. app.scanned \in BOOLEAN /\ app.repositories \in SUBSET Repositories
    BY DEF GitHubInv, GitHub!TypeOK
  <1>3. TRUE \in BOOLEAN /\ FALSE \in BOOLEAN
    OBVIOUS
  <1>4. found \in GitHub!Installation
    BY <1>1, <1>2, <1>3 DEF GitHub!Installation
  <1>5. GitStaged(found)
    BY <1>1, <1>4 DEF GitStaged
  <1>6. PICK new : new = [GitHub!NoCall EXCEPT
           !.at = "receipt", !.onboarding = o, !.repositories = app.repositories,
           !.installation = found]
    OBVIOUS
  <1>7. new \in GitHub!Call
    BY <1>2, <1>4, <1>6, GitNoCall DEF GitHub!Call
  <1>8. new.at = "receipt" /\ new.onboarding = o /\ new.installation = found
    BY <1>6, GitNoCall DEF GitHub!Call
  <1>9. GitCallSound(new)
    BY <1>5, <1>8 DEF GitCallSound
  <1>10. /\ caller' = [caller EXCEPT ![c] = new]
         /\ UNCHANGED <<GitHub!calls, GitHub!documents, GitHub!connections>>
    BY <1>1, <1>6 DEF GitHub!Discover
  <1> QED BY <1>7, <1>9, <1>10, GitHubCallMoves

LEMMA GitHubReceipts ==
    ASSUME GitHubInv, NEW c \in Callers, GitHub!ReadReceipt(c)
    PROVE  GitHubInv' /\ GitDeletedStays
  <1> DEFINE old == caller[c]
             was == old.installation
  <1>1. /\ old \in GitHub!Call /\ old.at = "receipt" /\ old.onboarding \in Onboardings
        /\ GitStaged(was) /\ receipt \in BOOLEAN
    BY GitTypes DEF GitHub!ReadReceipt, GitHubInv, GitCallSound
  <1>2. PICK ready : ready = (receipt /\ was.repositoriesReady)
    OBVIOUS
  <1>3. was \in GitHub!Installation /\ was.active
    BY <1>1 DEF GitStaged
  <1>4. was.repositoriesReady \in BOOLEAN
    BY <1>3 DEF GitHub!Installation
  <1>5. ready \in BOOLEAN
    BY <1>1, <1>2, <1>4
  <1>6. PICK now : now = [was EXCEPT !.verified = receipt, !.ready = ready]
    OBVIOUS
  <1>7. now \in GitHub!Installation
    BY <1>1, <1>3, <1>5, <1>6 DEF GitHub!Installation
  <1>8. /\ now.active = was.active /\ now.verified = receipt /\ now.ready = ready
        /\ now.repositoriesReady = was.repositoriesReady
    BY <1>3, <1>6 DEF GitHub!Installation
  <1>9. GitStaged(now)
    BY <1>2, <1>3, <1>7, <1>8 DEF GitStaged
  <1>10. PICK new : new = [old EXCEPT !.at = "stage", !.installation = now]
    OBVIOUS
  <1>11. new \in GitHub!Call
    BY <1>1, <1>7, <1>10 DEF GitHub!Call
  <1>12. new.at = "stage" /\ new.onboarding = old.onboarding /\ new.installation = now
    BY <1>1, <1>10 DEF GitHub!Call
  <1>13. GitCallSound(new)
    BY <1>1, <1>9, <1>12 DEF GitCallSound
  <1>14. caller' = [caller EXCEPT ![c].at = "stage", ![c].installation = now]
    BY <1>2, <1>6 DEF GitHub!ReadReceipt
  <1>15. caller' = [caller EXCEPT ![c] = new]
    BY <1>10, <1>14, GitTypes
  <1>16. UNCHANGED <<GitHub!calls, GitHub!documents, GitHub!connections>>
    BY DEF GitHub!ReadReceipt
  <1> QED BY <1>11, <1>13, <1>15, <1>16, GitHubCallMoves

LEMMA GitHubCompletes ==
    ASSUME GitHubInv, NEW c \in Callers,
           \/ \E o \in Onboardings : GitHub!Complete(c, o)
           \/ GitHub!ReadExisting(c) \/ GitHub!CallEnds(c)
    PROVE  GitHubInv' /\ GitDeletedStays
  <1>1. UNCHANGED <<GitHub!calls, GitHub!documents, GitHub!connections>>
    BY DEF GitHub!Complete, GitHub!ReadExisting, GitHub!CallEnds
  <1>2. PICK new \in GitHub!Call : caller' = [caller EXCEPT ![c] = new] /\ GitCallSound(new)
    <2>1. ASSUME NEW o \in Onboardings, GitHub!Complete(c, o)
          PROVE  \E new \in GitHub!Call : caller' = [caller EXCEPT ![c] = new] /\ GitCallSound(new)
      <3>1. PICK new : new = [GitHub!NoCall EXCEPT !.at = "reserve", !.onboarding = o]
        OBVIOUS
      <3>2. new \in GitHub!Call /\ new.at = "reserve" /\ new.onboarding = o
        BY <3>1, GitNoCall DEF GitHub!Call
      <3>3. GitCallSound(new)
        BY <2>1, <3>2 DEF GitCallSound, GitHub!Complete, GitHub!Record, GitSettled
      <3> QED BY <2>1, <3>1, <3>2, <3>3 DEF GitHub!Complete
    <2>2. CASE GitHub!ReadExisting(c)
      <3>1. /\ caller[c] \in GitHub!Call /\ caller[c].at = "existing"
            /\ GitCallSound(caller[c])
        BY <2>2, GitTypes DEF GitHub!ReadExisting, GitHubInv
      <3>2. PICK found : found = repositories[OrganisationOf[caller[c].onboarding]]
        OBVIOUS
      <3>3. found \in SUBSET Repositories
        BY <3>1, <3>2, GitTypes DEF GitCallSound
      <3>4. PICK new : new = [caller[c] EXCEPT !.at = "write", !.existing = found]
        OBVIOUS
      <3>5. new \in GitHub!Call
        BY <3>1, <3>3, <3>4 DEF GitHub!Call
      <3>6. new.at = "write" /\ new.onboarding = caller[c].onboarding
        BY <3>1, <3>4 DEF GitHub!Call
      <3>7. GitCallSound(new)
        BY <3>1, <3>6 DEF GitCallSound
      <3>8. caller' = [caller EXCEPT ![c] = new]
        BY <2>2, <3>2, <3>4, GitTypes DEF GitHub!ReadExisting
      <3> QED BY <3>5, <3>7, <3>8
    <2>3. CASE GitHub!CallEnds(c)
      BY <2>3, GitNoCall DEF GitHub!CallEnds, GitCallSound
    <2> QED BY <2>1, <2>2, <2>3
  <1> QED BY <1>1, <1>2, GitHubCallMoves

\* Reserving finds the index of the onboarding, which discovery wrote.
LEMMA GitHubReserves ==
    ASSUME GitHubInv, NEW c \in Callers, GitHub!Reserve(c)
    PROVE  GitHubInv' /\ GitDeletedStays
  <1> DEFINE o == caller[c].onboarding
  <1>1. /\ caller[c] \in GitHub!Call /\ caller[c].at = "reserve" /\ GitCallSound(caller[c])
    BY GitTypes DEF GitHub!Reserve, GitHubInv
  <1>2. o \in Onboardings /\ GitSettled(o)
    BY <1>1 DEF GitCallSound
  <1>3. index # None /\ index.onboarding = o /\ index \in GitHub!Index
    BY <1>2, GitTypes DEF GitHubInv, GitOnboardingSound
  <1>4. index' = index /\ caller' = [caller EXCEPT ![c].at = "existing", ![c].index = index]
    BY <1>3 DEF GitHub!Reserve
  <1>5. UNCHANGED <<GitHub!calls, GitHub!documents, GitHub!connections>>
    BY <1>4 DEF GitHub!Reserve, GitHub!documents
  <1>6. PICK new : new = [caller[c] EXCEPT !.at = "existing", !.index = index]
    OBVIOUS
  <1>7. new \in GitHub!Call
    BY <1>1, <1>3, <1>6 DEF GitHub!Call
  <1>8. new.at = "existing" /\ new.onboarding = o
    BY <1>1, <1>6 DEF GitHub!Call
  <1>9. GitCallSound(new)
    BY <1>2, <1>8 DEF GitCallSound
  <1>10. caller' = [caller EXCEPT ![c] = new]
    BY <1>4, <1>6, GitTypes
  <1> QED BY <1>5, <1>7, <1>9, <1>10, GitHubCallMoves
-----------------------------------------------------------------------------
LEMMA GitHubBegins ==
    ASSUME GitHubInv, NEW o \in Onboardings, GitHub!Begin(o)
    PROVE  GitHubInv' /\ GitDeletedStays
  <1>1. /\ index' = index /\ installation' = installation /\ repositories' = repositories
        /\ receipt' = receipt /\ reported' = reported
        /\ github' = github /\ reconciling' = reconciling
        /\ app' = app /\ appChanges' = appChanges /\ webhooks' = webhooks /\ caller' = caller
    BY DEF GitHub!Begin, GitHub!calls, GitHub!connections
  <1>2. onboarding[o] \in GitHub!Onboarding /\ onboarding[o].status = "absent"
    BY GitTypes DEF GitHub!Begin, GitHub!Record
  <1>3. PICK new : new = [onboarding[o] EXCEPT !.status = "pending"]
    OBVIOUS
  <1>4. new \in GitHub!Onboarding /\ new.status = "pending"
    BY <1>2, <1>3 DEF GitHub!Onboarding
  <1>5. /\ onboarding' \in [Onboardings -> GitHub!Onboarding] /\ onboarding'[o] = new
        /\ \A p \in Onboardings \ {o} : onboarding'[p] = onboarding[p]
    BY <1>3, <1>4, GitTypes DEF GitHub!Begin
  <1>6. GitHub!TypeOK'
    BY <1>1, <1>5 DEF GitHubInv, GitHub!TypeOK
  <1>7. \A p \in Onboardings : GitSettled(p) => p # o
    BY <1>2 DEF GitSettled
  <1>8. \A p \in Onboardings : GitSettled(p)' => p # o
    BY <1>4, <1>5 DEF GitSettled
  <1>9. \A p \in Onboardings : GitOnboardingSound(p)'
    <2> SUFFICES ASSUME NEW p \in Onboardings, GitSettled(p)'
                 PROVE  GitOnboardingSound(p)'
      BY DEF GitOnboardingSound
    <2>1. onboarding'[p] = onboarding[p]
      BY <1>5, <1>8
    <2>2. GitOnboardingSound(p)
      BY DEF GitHubInv
    <2> QED BY <1>1, <2>1, <2>2 DEF GitOnboardingSound, GitSettled, GitStored
  <1>10. \A p \in Onboardings : GitSettled(p) => onboarding'[p] = onboarding[p]
    BY <1>5, <1>7
  <1>11. \A g \in Organisations : GitOrganisationSound(g)'
    <2> SUFFICES ASSUME NEW g \in Organisations
                 PROVE  GitOrganisationSound(g)'
      OBVIOUS
    <2>1. GitOrganisationSound(g)
      BY DEF GitHubInv
    <2> QED BY <1>1, <1>10, <2>1 DEF GitOrganisationSound, GitSettled
  <1>12. GitIndexSound' /\ GitReportSound'
    <2>1. GitIndexSound'
      BY <1>1, <1>10, GitTypes DEF GitHubInv, GitIndexSound, GitSettled
    <2>2. ASSUME NEW p \in Onboardings, onboarding'[p].status = "complete"
          PROVE  onboarding'[p] = onboarding[p]
      BY <1>5, <1>8, <2>2 DEF GitSettled
    <2>3. GitReportSound'
      BY <1>1, <2>2 DEF GitHubInv, GitReportSound
    <2> QED BY <2>1, <2>3
  <1>13. \A c \in Callers : GitCallSound(caller[c])'
    <2> SUFFICES ASSUME NEW c \in Callers
                 PROVE  GitCallSound(caller[c])'
      OBVIOUS
    <2>1. GitCallSound(caller[c])
      BY DEF GitHubInv
    <2> QED BY <1>1, <1>10, <2>1 DEF GitCallSound, GitSettled, GitStored
  <1> QED BY <1>1, <1>6, <1>9, <1>11, <1>12, <1>13 DEF GitHubInv, GitDeletedStays

LEMMA GitNewIndex ==
    ASSUME NEW o \in Onboardings
    PROVE  /\ GitHub!NewIndex(o) \in GitHub!Index /\ GitHub!NewIndex(o) # None
           /\ GitHub!NewIndex(o).onboarding = o /\ ~GitHub!NewIndex(o).ready
  <1>1. TRUE \in BOOLEAN /\ FALSE \in BOOLEAN
    OBVIOUS
  <1>2. GitHub!NewIndex(o) \in GitHub!Index
    BY <1>1 DEF GitHub!NewIndex, GitHub!Index
  <1> QED BY <1>2, DocumentsAssumption DEF GitHub!NewIndex

\* The discovery that takes the index is the first of any onboarding.
LEMMA GitHubStages ==
    ASSUME GitHubInv, NEW c \in Callers, GitHub!Stage(c)
    PROVE  GitHubInv' /\ GitDeletedStays
  <1> DEFINE o == caller[c].onboarding
  <1>1. /\ installation' = installation /\ repositories' = repositories
        /\ receipt' = receipt /\ reported' = reported
        /\ github' = github /\ reconciling' = reconciling
        /\ app' = app /\ appChanges' = appChanges /\ webhooks' = webhooks
    BY DEF GitHub!Stage, GitHub!calls, GitHub!connections
  <1>2. /\ caller[c] \in GitHub!Call /\ o \in Onboardings
        /\ GitStaged(caller[c].installation)
    BY GitTypes DEF GitHub!Stage, GitHubInv, GitCallSound
  <1>3. onboarding[o] \in GitHub!Onboarding /\ onboarding[o].status = "pending"
    BY <1>2, GitTypes DEF GitHub!Stage, GitHub!Record
  <1>4. /\ index # None => index.onboarding = o
        /\ index' = IF index = None THEN GitHub!NewIndex(o) ELSE index
        /\ caller' = [caller EXCEPT ![c] = GitHub!NoCall]
    BY DEF GitHub!Stage
  <1>5. PICK new : new = [onboarding[o] EXCEPT !.status = "discovered",
                            !.installation = caller[c].installation,
                            !.repositories = caller[c].repositories]
    OBVIOUS
  <1>6. /\ caller[c].installation \in GitHub!Installation
        /\ caller[c].repositories \in SUBSET Repositories
    BY <1>2 DEF GitStaged, GitHub!Call
  <1>7. new \in GitHub!Onboarding
    BY <1>3, <1>5, <1>6 DEF GitHub!Onboarding
  <1>8. new.status = "discovered" /\ new.installation = caller[c].installation
    BY <1>3, <1>5 DEF GitHub!Onboarding
  <1>9. /\ onboarding' \in [Onboardings -> GitHub!Onboarding] /\ onboarding'[o] = new
        /\ \A p \in Onboardings \ {o} : onboarding'[p] = onboarding[p]
    BY <1>2, <1>5, <1>7, GitTypes DEF GitHub!Stage, GitHub!Record
  <1>10. \A p \in Onboardings : ~GitSettled(p)
    <2> SUFFICES ASSUME NEW p \in Onboardings, GitSettled(p)
                 PROVE  FALSE
      OBVIOUS
    <2>1. p = o
      BY <1>4 DEF GitHubInv, GitOnboardingSound
    <2> QED BY <1>3, <2>1 DEF GitSettled
  <1>11. \A g \in Organisations : installation[g] = None /\ repositories[g] = {}
    BY <1>10 DEF GitHubInv, GitOrganisationSound, GitSettled
  <1>12. index' \in GitHub!Index /\ index' # None /\ index'.onboarding = o
    BY <1>2, <1>4, GitNewIndex, GitTypes
  <1>13. ~index'.ready
    <2>1. CASE index = None
      BY <1>2, <1>4, <2>1, GitNewIndex
    <2>2. CASE index # None
      <3>1. ~index.ready
        BY <1>3, <1>4, <2>2 DEF GitHubInv, GitIndexSound
      <3> QED BY <1>4, <2>2, <3>1
    <2> QED BY <2>1, <2>2
  <1>14. /\ caller' \in [Callers -> GitHub!Call] /\ caller'[c].at = "idle"
         /\ \A d \in Callers \ {c} : caller'[d] = caller[d]
    BY <1>4, GitTypes, GitNoCall
  <1>15. GitHub!TypeOK'
    BY <1>1, <1>9, <1>12, <1>14 DEF GitHubInv, GitHub!TypeOK
  <1>16. \A p \in Onboardings : GitOnboardingSound(p)'
    <2> SUFFICES ASSUME NEW p \in Onboardings, GitSettled(p)'
                 PROVE  GitOnboardingSound(p)'
      BY DEF GitOnboardingSound
    <2>1. p = o
      BY <1>9, <1>10 DEF GitSettled
    <2>2. GitStored(p)' = {}
      BY <1>1, <1>11, GitTypes DEF GitStored
    <2>3. GitStaged(new.installation)
      BY <1>2, <1>8
    <2>4. /\ index' # None /\ index'.onboarding = p /\ onboarding'[p] = new
          /\ new.status = "discovered"
      BY <1>8, <1>9, <1>12, <2>1
    <2> QED BY <2>2, <2>3, <2>4 DEF GitOnboardingSound, GitStaged
  <1>17. \A g \in Organisations : GitOrganisationSound(g)'
    BY <1>1, <1>11 DEF GitOrganisationSound
  <1>18. \A d \in Callers : GitCallSound(caller[d])'
    <2>1. GitCallSound(caller[c])'
      BY <1>14 DEF GitCallSound
    <2>2. ASSUME NEW d \in Callers \ {c}
          PROVE  GitCallSound(caller[d])'
      <3>1. GitCallSound(caller[d])
        BY DEF GitHubInv
      <3>2. caller[d].at \in {"idle", "receipt", "stage"}
        <4>1. caller[d] \in GitHub!Call
          BY GitTypes
        <4> QED BY <1>10, <3>1, <4>1 DEF GitCallSound, GitHub!Call
      <3>3. caller'[d] = caller[d]
        BY <1>14
      <3> QED BY <3>1, <3>2, <3>3 DEF GitCallSound, GitStaged
    <2> QED BY <2>1, <2>2
  <1>19. GitDeletedStays
    BY <1>4 DEF GitDeletedStays
  <1>20. GitReportSound'
    <2>1. \A p \in Onboardings : onboarding'[p].status # "complete"
      BY <1>8, <1>9, <1>10 DEF GitSettled
    <2> QED BY <2>1 DEF GitReportSound
  <1> QED BY <1>13, <1>15, <1>16, <1>17, <1>18, <1>19, <1>20 DEF GitHubInv, GitIndexSound
-----------------------------------------------------------------------------
\* A batch of a completion: all it may do is to store what its onboarding found.
LEMMA GitHubStores ==
    ASSUME GitHubInv, NEW c \in Callers, NEW o \in Onboardings, NEW at, NEW stored,
           o = caller[c].onboarding, GitSettled(o), at \in {"delete", "finish"},
           UNCHANGED <<GitHub!calls, onboarding, index, installation, receipt, reported,
                       GitHub!connections>>,
           caller' = GitHub!Goto(c, at),
           repositories' = [repositories EXCEPT ![OrganisationOf[o]] = stored],
           stored = onboarding[o].repositories
    PROVE  GitHubInv' /\ GitDeletedStays
  <1>1. /\ onboarding' = onboarding /\ index' = index /\ installation' = installation
        /\ receipt' = receipt /\ reported' = reported
        /\ github' = github /\ reconciling' = reconciling
        /\ app' = app /\ appChanges' = appChanges /\ webhooks' = webhooks
    BY DEF GitHub!calls, GitHub!connections
  <1>2. PICK new : new = [caller[c] EXCEPT !.at = at]
    OBVIOUS
  <1>3. caller[c] \in GitHub!Call
    BY GitTypes
  <1>4. new \in GitHub!Call
    BY <1>2, <1>3 DEF GitHub!Call
  <1>5. new.at = at /\ new.onboarding = o
    BY <1>2, <1>3 DEF GitHub!Call
  <1>6. /\ caller' \in [Callers -> GitHub!Call] /\ caller'[c] = new
        /\ \A d \in Callers \ {c} : caller'[d] = caller[d]
    BY <1>2, <1>4, GitTypes DEF GitHub!Goto
  <1>7. stored \in SUBSET Repositories
    BY GitTypes DEF GitHub!Onboarding
  <1>8. /\ repositories' \in [Organisations -> SUBSET Repositories]
        /\ repositories'[OrganisationOf[o]] = stored
        /\ \A g \in Organisations \ {OrganisationOf[o]} : repositories'[g] = repositories[g]
    BY <1>7, GitTypes
  <1>9. GitHub!TypeOK'
    BY <1>1, <1>6, <1>8 DEF GitHubInv, GitHub!TypeOK
  <1>10. \A p \in Onboardings : GitSettled(p) => p = o
    BY DEF GitHubInv, GitOnboardingSound
  <1>11. \A p \in Onboardings : GitOnboardingSound(p)'
    <2> SUFFICES ASSUME NEW p \in Onboardings, GitSettled(p)'
                 PROVE  GitOnboardingSound(p)'
      BY DEF GitOnboardingSound
    <2>1. p = o
      BY <1>1, <1>10 DEF GitSettled
    <2>2. GitOnboardingSound(o)
      BY DEF GitHubInv
    <2>3. GitStored(p)' = onboarding[o].repositories
      BY <1>8, <2>1 DEF GitStored
    <2> QED BY <1>1, <2>1, <2>2, <2>3 DEF GitOnboardingSound, GitSettled
  <1>12. \A g \in Organisations : GitOrganisationSound(g)'
    <2> SUFFICES ASSUME NEW g \in Organisations
                 PROVE  GitOrganisationSound(g)'
      OBVIOUS
    <2>1. GitOrganisationSound(g)
      BY DEF GitHubInv
    <2>2. CASE g = OrganisationOf[o]
      BY <1>1, <2>1, <2>2 DEF GitOrganisationSound, GitSettled
    <2>3. CASE g # OrganisationOf[o]
      BY <1>1, <1>8, <2>1, <2>3 DEF GitOrganisationSound, GitSettled
    <2> QED BY <2>2, <2>3
  <1>13. GitIndexSound' /\ GitReportSound'
    BY <1>1 DEF GitHubInv, GitIndexSound, GitReportSound
  <1>14. GitCallSound(caller[c])'
    BY <1>1, <1>5, <1>6, <1>8 DEF GitCallSound, GitSettled, GitStored
  <1>15. ASSUME NEW d \in Callers \ {c}
         PROVE  GitCallSound(caller[d])'
    <2>1. GitCallSound(caller[d]) /\ caller'[d] = caller[d]
      BY <1>6 DEF GitHubInv
    <2>2. ASSUME caller[d].at \in {"delete", "finish"}
          PROVE  /\ caller[d].onboarding = o
                 /\ onboarding[o].repositories \subseteq repositories'[OrganisationOf[o]]
      BY <1>8, <1>10, <2>1, <2>2 DEF GitCallSound
    <2> QED BY <1>1, <2>1, <2>2 DEF GitCallSound, GitSettled, GitStored
  <1> QED BY <1>1, <1>9, <1>11, <1>12, <1>13, <1>14, <1>15 DEF GitHubInv, GitDeletedStays

\* Whatever another completion of the onboarding has written or deleted by now, what is
\* stored after the first batch is what was discovered, and the second deletes nothing of it.
LEMMA GitHubBatches ==
    ASSUME GitHubInv, NEW c \in Callers, GitHub!WriteRepositories(c) \/ GitHub!DeleteStale(c)
    PROVE  GitHubInv' /\ GitDeletedStays
  <1>1. PICK o : o = caller[c].onboarding
    OBVIOUS
  <1>2. GitCallSound(caller[c]) /\ caller[c].at \in {"write", "delete"}
    BY DEF GitHubInv, GitHub!WriteRepositories, GitHub!DeleteStale
  <1>3. o \in Onboardings /\ GitSettled(o)
    BY <1>1, <1>2 DEF GitCallSound
  <1>4. GitStored(o) \subseteq onboarding[o].repositories
    BY <1>3 DEF GitHubInv, GitOnboardingSound
  <1>5. UNCHANGED <<GitHub!calls, onboarding, index, installation, receipt, reported,
                  GitHub!connections>>
    BY DEF GitHub!WriteRepositories, GitHub!DeleteStale
  <1>6. CASE GitHub!WriteRepositories(c)
    <2>1. GitStored(o) \cup onboarding[o].repositories = onboarding[o].repositories
      BY <1>4
    <2>2. repositories' = [repositories EXCEPT ![OrganisationOf[o]] = onboarding[o].repositories]
      BY <1>1, <1>6, <2>1 DEF GitHub!WriteRepositories, GitHub!Record, GitStored
    <2>3. caller' = GitHub!Goto(c, "delete")
      BY <1>6 DEF GitHub!WriteRepositories
    <2> QED BY <1>1, <1>3, <1>5, <2>2, <2>3, GitHubStores
  <1>7. CASE GitHub!DeleteStale(c)
    <2>1. onboarding[o].repositories = GitStored(o)
      BY <1>1, <1>2, <1>4, <1>7 DEF GitHub!DeleteStale, GitCallSound
    <2>2. GitStored(o) \ (caller[c].existing \ onboarding[o].repositories)
             = onboarding[o].repositories
      BY <2>1
    <2>3. repositories' = [repositories EXCEPT ![OrganisationOf[o]] = onboarding[o].repositories]
      BY <1>1, <1>7, <2>2 DEF GitHub!DeleteStale, GitHub!Record, GitStored
    <2>4. caller' = GitHub!Goto(c, "finish")
      BY <1>7 DEF GitHub!DeleteStale
    <2> QED BY <1>1, <1>3, <1>5, <2>3, <2>4, GitHubStores
  <1> QED BY <1>6, <1>7

LEMMA GitHubFinishes ==
    ASSUME GitHubInv, NEW c \in Callers, GitHub!Finish(c)
    PROVE  GitHubInv' /\ GitDeletedStays
  <1>1. PICK o : o = caller[c].onboarding
    OBVIOUS
  <1>2. /\ repositories' = repositories
        /\ receipt' = receipt /\ reported' = FALSE
        /\ github' = github /\ reconciling' = reconciling
        /\ app' = app /\ appChanges' = appChanges /\ webhooks' = webhooks
    BY DEF GitHub!Finish, GitHub!calls, GitHub!connections
  <1>3. GitCallSound(caller[c]) /\ caller[c].at = "finish"
    BY DEF GitHubInv, GitHub!Finish
  <1>4. /\ o \in Onboardings /\ GitSettled(o) /\ OrganisationOf[o] \in Organisations
        /\ onboarding[o].repositories \subseteq GitStored(o)
    BY <1>1, <1>3, GitTypes DEF GitCallSound
  <1>5. /\ GitOnboardingSound(o) /\ onboarding[o] \in GitHub!Onboarding
        /\ index # None /\ index.onboarding = o /\ index \in GitHub!Index
    BY <1>4, GitTypes DEF GitHubInv, GitOnboardingSound
  <1>6. PICK found : found = onboarding[o].installation
    OBVIOUS
  <1>7. GitStaged(found) /\ found \in GitHub!Installation /\ found # None
    BY <1>4, <1>5, <1>6, GitTypes DEF GitOnboardingSound, GitStaged
  <1>8. found.ready \in BOOLEAN
    BY <1>7 DEF GitHub!Installation
  <1>9. PICK new : new = [index EXCEPT !.ready = found.ready]
    OBVIOUS
  <1>10. new \in GitHub!Index
    BY <1>5, <1>8, <1>9 DEF GitHub!Index
  <1>11. new.onboarding = o /\ new.ready = found.ready /\ new.deleted = index.deleted
    BY <1>5, <1>9 DEF GitHub!Index
  <1>12. index' = new /\ new # None
    BY <1>1, <1>6, <1>9, <1>10, GitTypes DEF GitHub!Finish, GitHub!MayFinish, GitHub!Record
  <1>13. /\ installation' \in [Organisations -> GitHub!Installation \cup {None}]
         /\ installation'[OrganisationOf[o]] = found
         /\ \A g \in Organisations \ {OrganisationOf[o]} : installation'[g] = installation[g]
    BY <1>1, <1>4, <1>6, <1>7, GitTypes DEF GitHub!Finish, GitHub!Record
  <1>14. PICK done : done = [onboarding[o] EXCEPT !.status = "complete"]
    OBVIOUS
  <1>15. done \in GitHub!Onboarding
    BY <1>5, <1>14 DEF GitHub!Onboarding
  <1>16. /\ done.status = "complete" /\ done.installation = found
         /\ done.repositories = onboarding[o].repositories
    BY <1>5, <1>6, <1>14 DEF GitHub!Onboarding
  <1>17. /\ onboarding' \in [Onboardings -> GitHub!Onboarding] /\ onboarding'[o] = done
         /\ \A p \in Onboardings \ {o} : onboarding'[p] = onboarding[p]
    BY <1>1, <1>4, <1>14, <1>15, GitTypes DEF GitHub!Finish
  <1>18. /\ caller' \in [Callers -> GitHub!Call] /\ caller'[c].at = "idle"
         /\ \A d \in Callers \ {c} : caller'[d] = caller[d]
    BY GitTypes, GitNoCall DEF GitHub!Finish
  <1>19. GitHub!TypeOK'
    BY <1>2, <1>10, <1>12, <1>13, <1>17, <1>18 DEF GitHubInv, GitHub!TypeOK
  <1>20. \A p \in Onboardings : GitSettled(p) => p = o
    BY <1>5 DEF GitHubInv, GitOnboardingSound
  <1>21. \A p \in Onboardings : GitOnboardingSound(p)'
    <2> SUFFICES ASSUME NEW p \in Onboardings, GitSettled(p)'
                 PROVE  GitOnboardingSound(p)'
      BY DEF GitOnboardingSound
    <2>1. p = o
      BY <1>17, <1>20 DEF GitSettled
    <2>2. GitStored(p)' = onboarding'[p].repositories
      <3>1. GitStored(o) = onboarding[o].repositories
        BY <1>4, <1>5 DEF GitOnboardingSound
      <3>2. GitStored(p)' = GitStored(o)
        BY <1>2, <2>1 DEF GitStored
      <3> QED BY <1>16, <1>17, <2>1, <3>1, <3>2
    <2>3. GitStaged(onboarding'[p].installation) /\ installation'[OrganisationOf[p]] # None
      BY <1>7, <1>13, <1>16, <1>17, <2>1
    <2>4. index' # None /\ index'.onboarding = p
      BY <1>11, <1>12, <2>1
    <2> QED BY <2>2, <2>3, <2>4 DEF GitOnboardingSound, GitStaged
  <1>22. \A g \in Organisations : GitOrganisationSound(g)'
    <2> SUFFICES ASSUME NEW g \in Organisations
                 PROVE  GitOrganisationSound(g)'
      OBVIOUS
    <2>1. GitOrganisationSound(g)
      BY DEF GitHubInv
    <2>2. GitSettled(o)' /\ onboarding'[o].status = "complete"
      BY <1>16, <1>17 DEF GitSettled
    <2>3. CASE g = OrganisationOf[o]
      BY <1>4, <2>2, <2>3 DEF GitOrganisationSound
    <2>4. CASE g # OrganisationOf[o]
      <3>1. installation'[g] = None /\ repositories'[g] = {}
        BY <1>2, <1>13, <1>20, <2>1, <2>4 DEF GitOrganisationSound, GitSettled
      <3> QED BY <3>1 DEF GitOrganisationSound
    <2> QED BY <2>3, <2>4
  <1>23. GitIndexSound'
    BY <1>7, <1>11, <1>12, <1>13, <1>16, <1>17 DEF GitIndexSound, GitStaged
  <1>24. GitCallSound(caller[c])'
    BY <1>18 DEF GitCallSound
  <1>25. ASSUME NEW d \in Callers \ {c}
         PROVE  GitCallSound(caller[d])'
    <2>1. GitCallSound(caller[d]) /\ caller'[d] = caller[d]
      BY <1>18 DEF GitHubInv
    <2>2. \A p \in Onboardings : /\ GitSettled(p) => GitSettled(p)'
                                 /\ onboarding'[p].repositories = onboarding[p].repositories
      BY <1>16, <1>17 DEF GitSettled
    <2>3. \A p : GitStored(p)' = GitStored(p)
      BY <1>2 DEF GitStored
    <2> QED BY <2>1, <2>2, <2>3 DEF GitCallSound, GitStaged, GitSettled, GitStored
  <1>26. GitDeletedStays
    BY <1>11, <1>12 DEF GitDeletedStays
  <1>27. GitReportSound'
    <2> SUFFICES ASSUME NEW p \in Onboardings, onboarding'[p].status = "complete",
                        installation'[OrganisationOf[p]].repositoriesReady
                 PROVE  ~reported' /\ onboarding'[p].installation.repositoriesReady
      BY DEF GitReportSound
    <2>1. p = o
      BY <1>17, <1>20 DEF GitSettled
    <2> QED BY <1>2, <1>13, <1>16, <1>17, <2>1
  <1> QED BY <1>19, <1>21, <1>22, <1>23, <1>24, <1>25, <1>26, <1>27 DEF GitHubInv
-----------------------------------------------------------------------------
\* A webhook: it changes the index and, once that is stored, the installation.
LEMMA GitHubDelivers ==
    ASSUME GitHubInv,
           UNCHANGED <<GitHub!calls, onboarding, repositories, caller, github>>,
           receipt' \in BOOLEAN, reported' \in BOOLEAN, reconciling' \subseteq BOOLEAN,
           index = None => index' = None,
           index # None => /\ index' \in GitHub!Index
                           /\ index'.onboarding = index.onboarding
                           /\ index.deleted => index'.deleted,
           \/ installation' = installation
           \/ /\ index # None /\ installation[OrganisationOf[index.onboarding]] # None
              /\ \E new \in GitHub!Installation :
                    installation' = [installation EXCEPT ![OrganisationOf[index.onboarding]] = new],
           GitIndexSound', GitReportSound'
    PROVE  GitHubInv' /\ GitDeletedStays
  <1>1. /\ onboarding' = onboarding /\ repositories' = repositories /\ caller' = caller
        /\ github' = github
        /\ app' = app /\ appChanges' = appChanges /\ webhooks' = webhooks
    BY DEF GitHub!calls
  <1>2. /\ installation' \in [Organisations -> GitHub!Installation \cup {None}]
        /\ \A g \in Organisations : installation'[g] = None <=> installation[g] = None
    BY GitTypes
  <1>3. index' \in GitHub!Index \cup {None} /\ (index # None => index' # None)
    BY GitTypes
  <1>4. GitHub!TypeOK'
    BY <1>1, <1>2, <1>3 DEF GitHubInv, GitHub!TypeOK
  <1>5. GitHubInv'
    BY <1>1, <1>2, <1>3, <1>4, GitHubKeeps
  <1> QED BY <1>3, <1>5 DEF GitDeletedStays

LEMMA GitHubSuspends ==
    ASSUME GitHubInv, NEW e,
           \/ GitHub!ReceiptStored(e) \/ GitHub!Deactivate(e) \/ GitHub!InvalidateRepositories(e)
    PROVE  GitHubInv' /\ GitDeletedStays
  <1>1. UNCHANGED <<GitHub!calls, onboarding, repositories, caller, github>>
    BY DEF GitHub!ReceiptStored, GitHub!Deactivate, GitHub!InvalidateRepositories,
           GitHub!Delivered
  <1>2. receipt' \in BOOLEAN /\ reported' \in BOOLEAN /\ reconciling' \subseteq BOOLEAN
    BY DEF GitHub!ReceiptStored, GitHub!Deactivate, GitHub!InvalidateRepositories,
           GitHubInv, GitHub!TypeOK
  <1>3. CASE GitHub!ReceiptStored(e)
    <2>1. index' = index /\ installation' = installation /\ reported' = reported
      BY <1>3 DEF GitHub!ReceiptStored
    <2>2. GitIndexSound' /\ GitReportSound'
      BY <1>1, <2>1 DEF GitHubInv, GitIndexSound, GitReportSound
    <2> QED BY <1>1, <1>2, <2>1, <2>2, GitTypes, GitHubDelivers
  <1>4. ASSUME index # None => \E new \in GitHub!Index :
                  /\ index' = new /\ new.onboarding = index.onboarding /\ ~new.ready
                  /\ index.deleted => new.deleted,
               index = None => index' = None,
               GitHub!Known => \E new \in GitHub!Installation :
                  /\ installation' = [installation EXCEPT ![GitHub!Owner] = new]
                  /\ new.repositoriesReady =>
                        reported' = reported /\ installation[GitHub!Owner].repositoriesReady,
               index # None => GitHub!Readable(index),
               ~GitHub!Known => installation' = installation
        PROVE  GitHubInv' /\ GitDeletedStays
    <2>1. GitIndexSound'
      BY <1>4 DEF GitIndexSound
    <2>2. \/ installation' = installation
          \/ /\ index # None /\ installation[OrganisationOf[index.onboarding]] # None
             /\ \E new \in GitHub!Installation :
                   installation' = [installation EXCEPT ![OrganisationOf[index.onboarding]] = new]
      BY <1>4 DEF GitHub!Known, GitHub!Owner
    <2>3. GitReportSound'
      <3> SUFFICES ASSUME NEW o \in Onboardings, onboarding[o].status = "complete",
                          installation'[OrganisationOf[o]].repositoriesReady
                   PROVE  ~reported' /\ onboarding[o].installation.repositoriesReady
        BY <1>1 DEF GitReportSound
      <3>1. /\ index # None /\ index.onboarding = o
            /\ installation[OrganisationOf[o]] # None /\ OrganisationOf[o] \in Organisations
        BY GitTypes DEF GitHubInv, GitOnboardingSound, GitSettled
      <3>2. GitHub!Known /\ GitHub!Owner = OrganisationOf[o]
        BY <1>4, <3>1 DEF GitHub!Known, GitHub!Owner
      <3>3. PICK new \in GitHub!Installation :
                  /\ installation' = [installation EXCEPT ![OrganisationOf[o]] = new]
                  /\ new.repositoriesReady =>
                        reported' = reported /\ installation[OrganisationOf[o]].repositoriesReady
        BY <1>4, <3>2
      <3>4. installation'[OrganisationOf[o]] = new
        BY <3>1, <3>3, GitTypes
      <3> QED BY <3>3, <3>4 DEF GitHubInv, GitReportSound
    <2> QED BY <1>1, <1>2, <1>4, <2>1, <2>2, <2>3, GitHubDelivers
  <1>5. FALSE \in BOOLEAN
    OBVIOUS
  <1>6. ASSUME GitHub!Known
        PROVE  installation[GitHub!Owner] \in GitHub!Installation
    BY <1>6, GitTypes DEF GitHub!Known, GitHub!Owner
  <1>7. CASE GitHub!Deactivate(e)
    <2>1. ASSUME index # None
          PROVE  \E new \in GitHub!Index :
                    /\ index' = new /\ new.onboarding = index.onboarding /\ ~new.ready
                    /\ index.deleted => new.deleted
      <3>1. PICK deleted : deleted = (index.deleted \/ e = "deleted")
        OBVIOUS
      <3>2. index \in GitHub!Index
        BY <2>1, GitTypes
      <3>3. deleted \in BOOLEAN
        BY <3>1
      <3>4. PICK new : new = [index EXCEPT !.active = FALSE, !.ready = FALSE, !.deleted = deleted]
        OBVIOUS
      <3>5. new \in GitHub!Index
        BY <1>5, <3>2, <3>3, <3>4 DEF GitHub!Index
      <3>6. new.onboarding = index.onboarding /\ new.ready = FALSE /\ new.deleted = deleted
        BY <3>2, <3>4 DEF GitHub!Index
      <3>7. index' = new
        BY <1>7, <2>1, <3>1, <3>4 DEF GitHub!Deactivate
      <3> QED BY <3>1, <3>5, <3>6, <3>7
    <2>2. ASSUME GitHub!Known
          PROVE  \E new \in GitHub!Installation :
                    /\ installation' = [installation EXCEPT ![GitHub!Owner] = new]
                    /\ new.repositoriesReady =>
                          reported' = reported /\ installation[GitHub!Owner].repositoriesReady
      <3> DEFINE was == installation[GitHub!Owner]
      <3>1. PICK deleted : deleted = (was.deleted \/ e = "deleted")
        OBVIOUS
      <3>2. deleted \in BOOLEAN
        BY <3>1
      <3>3. PICK new : new = [was EXCEPT !.active = FALSE, !.ready = FALSE, !.deleted = deleted]
        OBVIOUS
      <3>4. new \in GitHub!Installation
        BY <1>5, <1>6, <2>2, <3>2, <3>3 DEF GitHub!Installation
      <3>5. installation' = [installation EXCEPT ![GitHub!Owner] = new]
        BY <1>7, <2>2, <3>1, <3>3 DEF GitHub!Deactivate
      <3>6. new.repositoriesReady = was.repositoriesReady /\ reported' = reported
        BY <1>6, <1>7, <2>2, <3>3 DEF GitHub!Installation, GitHub!Deactivate
      <3> QED BY <3>4, <3>5, <3>6
    <2>3. /\ index = None => index' = None
          /\ ~GitHub!Known => installation' = installation
          /\ index # None => GitHub!Readable(index)
      BY <1>7 DEF GitHub!Deactivate
    <2> QED BY <1>4, <2>1, <2>2, <2>3
  <1>8. CASE GitHub!InvalidateRepositories(e)
    <2>1. ASSUME index # None
          PROVE  \E new \in GitHub!Index :
                    /\ index' = new /\ new.onboarding = index.onboarding /\ ~new.ready
                    /\ index.deleted => new.deleted
      <3>1. index \in GitHub!Index
        BY <2>1, GitTypes
      <3>2. PICK new : new = [index EXCEPT !.ready = FALSE]
        OBVIOUS
      <3>3. new \in GitHub!Index
        BY <1>5, <3>1, <3>2 DEF GitHub!Index
      <3>4. new.onboarding = index.onboarding /\ new.ready = FALSE
            /\ new.deleted = index.deleted
        BY <3>1, <3>2 DEF GitHub!Index
      <3>5. index' = new
        BY <1>8, <2>1, <3>2 DEF GitHub!InvalidateRepositories
      <3> QED BY <3>3, <3>4, <3>5
    <2>2. ASSUME GitHub!Known
          PROVE  \E new \in GitHub!Installation :
                    /\ installation' = [installation EXCEPT ![GitHub!Owner] = new]
                    /\ new.repositoriesReady =>
                          reported' = reported /\ installation[GitHub!Owner].repositoriesReady
      <3> DEFINE was == installation[GitHub!Owner]
      <3>1. PICK new : new = [was EXCEPT !.repositoriesReady = FALSE, !.ready = FALSE]
        OBVIOUS
      <3>2. new \in GitHub!Installation
        BY <1>5, <1>6, <2>2, <3>1 DEF GitHub!Installation
      <3>3. installation' = [installation EXCEPT ![GitHub!Owner] = new]
        BY <1>8, <2>2, <3>1, GitTypes DEF GitHub!InvalidateRepositories
      <3>4. new.repositoriesReady = FALSE
        BY <1>6, <2>2, <3>1 DEF GitHub!Installation
      <3> QED BY <3>2, <3>3, <3>4
    <2>3. /\ index = None => index' = None
          /\ ~GitHub!Known => installation' = installation
          /\ index # None => GitHub!Readable(index)
      BY <1>8 DEF GitHub!InvalidateRepositories
    <2> QED BY <1>4, <2>1, <2>2, <2>3
  <1> QED BY <1>3, <1>7, <1>8

\* A recorded receipt makes the installation ready only with checked repositories, and
\* only that of a completed onboarding.
LEMMA GitHubRecords ==
    ASSUME GitHubInv, NEW e, GitHub!ReceiptRecorded(e)
    PROVE  GitHubInv' /\ GitDeletedStays
  <1>1. UNCHANGED <<GitHub!calls, onboarding, repositories, caller, github>>
    BY DEF GitHub!ReceiptRecorded, GitHub!Delivered
  <1>2. PICK owner : owner = OrganisationOf[index.onboarding]
    OBVIOUS
  <1>3. PICK was : was = installation[owner]
    OBVIOUS
  <1>4. /\ index # None /\ index \in GitHub!Index /\ index.onboarding \in Onboardings
        /\ owner \in Organisations /\ was # None /\ was \in GitHub!Installation
    BY <1>2, <1>3, GitTypes DEF GitHub!ReceiptRecorded, GitHub!Known, GitHub!Owner
  <1>5. PICK on : on = (index.active \/ (e = "unsuspend" /\ ~index.deleted))
    OBVIOUS
  <1>6. PICK ready : ready = (on /\ was.repositoriesReady)
    OBVIOUS
  <1>7. on \in BOOLEAN /\ ready \in BOOLEAN /\ TRUE \in BOOLEAN
    BY <1>5, <1>6
  <1>8. /\ receipt' = TRUE /\ reported' = reported
        /\ reconciling' = reconciling \cup {ready}
        /\ installation' = [installation EXCEPT
              ![owner] = [was EXCEPT !.verified = TRUE, !.active = on, !.ready = ready]]
        /\ index' = [index EXCEPT !.active = on, !.ready = ready]
    BY <1>2, <1>3, <1>5, <1>6, GitTypes
    DEF GitHub!ReceiptRecorded, GitHub!ReadyAgain, GitHub!Owner
  <1>9. receipt' \in BOOLEAN /\ reported' \in BOOLEAN /\ reconciling' \subseteq BOOLEAN
    BY <1>7, <1>8 DEF GitHubInv, GitHub!TypeOK
  <1>10. PICK now : now = [was EXCEPT !.verified = TRUE, !.active = on, !.ready = ready]
    OBVIOUS
  <1>11. now \in GitHub!Installation
    BY <1>4, <1>7, <1>10 DEF GitHub!Installation
  <1>12. now.verified /\ now.active = on /\ now.repositoriesReady = was.repositoriesReady
    BY <1>4, <1>10 DEF GitHub!Installation
  <1>13. PICK new : new = [index EXCEPT !.active = on, !.ready = ready]
    OBVIOUS
  <1>14. new \in GitHub!Index
    BY <1>4, <1>7, <1>13 DEF GitHub!Index
  <1>15. /\ new.onboarding = index.onboarding /\ new.ready = ready
         /\ new.deleted = index.deleted
    BY <1>4, <1>13 DEF GitHub!Index
  <1>16. index' = new /\ installation' = [installation EXCEPT ![owner] = now]
    BY <1>8, <1>10, <1>13
  <1>17. installation'[owner] = now
    BY <1>4, <1>16, GitTypes
  <1>18. onboarding[index.onboarding].status = "complete"
    <2>1. GitOrganisationSound(owner)
      BY <1>4 DEF GitHubInv
    <2>2. PICK o \in Onboardings : onboarding[o].status = "complete"
      BY <1>3, <1>4, <2>1 DEF GitOrganisationSound
    <2>3. index.onboarding = o
      BY <2>2 DEF GitHubInv, GitOnboardingSound, GitSettled
    <2> QED BY <2>2, <2>3
  <1>19. GitIndexSound'
    BY <1>1, <1>2, <1>6, <1>12, <1>15, <1>16, <1>17, <1>18 DEF GitIndexSound
  <1>20. GitReportSound'
    <2> SUFFICES ASSUME NEW o \in Onboardings, onboarding[o].status = "complete",
                        installation'[OrganisationOf[o]].repositoriesReady
                 PROVE  ~reported /\ onboarding[o].installation.repositoriesReady
      BY <1>1, <1>8 DEF GitReportSound
    <2>1. index.onboarding = o /\ owner = OrganisationOf[o]
      BY <1>2 DEF GitHubInv, GitOnboardingSound, GitSettled
    <2>2. installation[OrganisationOf[o]].repositoriesReady
      BY <1>3, <1>12, <1>17, <2>1
    <2> QED BY <2>2 DEF GitHubInv, GitReportSound
  <1> QED
    BY <1>1, <1>2, <1>3, <1>4, <1>9, <1>11, <1>14, <1>15, <1>16, <1>19, <1>20, GitHubDelivers

-----------------------------------------------------------------------------
LEMMA GitHubStep ==
    ASSUME GitHubInv, [GitHub!Next]_githubVars
    PROVE  GitHubInv' /\ GitDeletedStays
  <1>1. CASE UNCHANGED githubVars
    <2>1. /\ onboarding' = onboarding /\ index' = index /\ installation' = installation
          /\ repositories' = repositories /\ receipt' = receipt /\ reported' = reported
        /\ caller' = caller
          /\ github' = github /\ reconciling' = reconciling
          /\ app' = app /\ appChanges' = appChanges /\ webhooks' = webhooks
      BY <1>1 DEF githubVars
    <2>2. GitHub!TypeOK' /\ GitIndexSound' /\ GitReportSound'
      BY <2>1 DEF GitHubInv, GitHub!TypeOK, GitIndexSound, GitReportSound
    <2>3. GitHubInv'
      BY <2>1, <2>2, GitHubKeeps
    <2> QED BY <2>1, <2>3 DEF GitDeletedStays
  <1> DEFINE Good == GitHubInv' /\ GitDeletedStays
  <1>2. GitHub!AppSuspended \/ GitHub!AppUnsuspended \/ GitHub!AppDeleted
           \/ GitHub!AppRepositoriesChanged => Good
    BY GitHubMoves
  <1>3. \A e : GitHub!ReceiptStored(e) \/ GitHub!Deactivate(e)
                  \/ GitHub!InvalidateRepositories(e) => Good
    BY GitHubSuspends
  <1>4. \A e : GitHub!ReceiptRecorded(e) => Good
    BY GitHubRecords
  <1>5. \A o \in Onboardings : GitHub!Begin(o) => Good
    BY GitHubBegins
  <1>6. /\ \A o \in Onboardings : GitHub!AddConnection(o) => Good
        /\ \A ready \in BOOLEAN : GitHub!Reconcile(ready) => Good
    BY GitHubConnects
  <1>7. \A c \in Callers, o \in Onboardings : GitHub!Discover(c, o) => Good
    BY GitHubDiscovers
  <1>8. \A c \in Callers : /\ \A o \in Onboardings : GitHub!Complete(c, o) => Good
                           /\ GitHub!ReadExisting(c) \/ GitHub!CallEnds(c) => Good
    BY GitHubCompletes
  <1>9. \A c \in Callers : /\ GitHub!ReadReceipt(c) => Good
                           /\ GitHub!Stage(c) => Good
                           /\ GitHub!Reserve(c) => Good
    BY GitHubReceipts, GitHubStages, GitHubReserves
  <1>10. \A c \in Callers : /\ GitHub!WriteRepositories(c) \/ GitHub!DeleteStale(c) => Good
                            /\ GitHub!Finish(c) => Good
    BY GitHubBatches, GitHubFinishes
  <1> HIDE DEF Good
  <1>11. Good
    BY <1>1, <1>2, <1>3, <1>4, <1>5, <1>6, <1>7, <1>8, <1>9, <1>10, Zenon
    DEF GitHub!Next, Good
  <1> QED BY <1>11 DEF Good

LEMMA GitAccepts ==
    ASSUME GitHubInv
    PROVE  GitHub!AcceptingIsComplete
  <1> SUFFICES ASSUME GitHub!Accepting
               PROVE  /\ GitHub!Record(index.onboarding).status = "complete"
                      /\ repositories[GitHub!Owner] = GitHub!Record(index.onboarding).repositories
                      /\ GitHub!Record(index.onboarding).installation.repositoriesReady
                      /\ ~reported
                      /\ \A g \in Organisations \ {GitHub!Owner} :
                            installation[g] = None /\ repositories[g] = {}
                      /\ installation[GitHub!Owner] # None
                      /\ installation[GitHub!Owner].active /\ installation[GitHub!Owner].verified
    BY DEF GitHub!AcceptingIsComplete
  <1>1. PICK o : o = index.onboarding
    OBVIOUS
  <1>2. index # None /\ index.ready /\ o \in Onboardings
    BY <1>1, GitTypes DEF GitHub!Accepting
  <1>3. /\ onboarding[o].status = "complete"
        /\ LET i == installation[OrganisationOf[o]]
           IN i.active /\ i.verified /\ i.repositoriesReady
    BY <1>1, <1>2 DEF GitHubInv, GitIndexSound
  <1>4. GitStored(o) = onboarding[o].repositories /\ installation[OrganisationOf[o]] # None
    BY <1>2, <1>3 DEF GitHubInv, GitOnboardingSound, GitSettled
  <1>5. \A p \in Onboardings : GitSettled(p) => p = o
    BY <1>1 DEF GitHubInv, GitOnboardingSound
  <1>6. \A g \in Organisations \ {OrganisationOf[o]} : installation[g] = None /\ repositories[g] = {}
    BY <1>5 DEF GitHubInv, GitOrganisationSound, GitSettled
  <1>7. ~reported /\ onboarding[o].installation.repositoriesReady
    BY <1>2, <1>3 DEF GitHubInv, GitReportSound
  <1> QED BY <1>1, <1>3, <1>4, <1>6, <1>7 DEF GitHub!Record, GitHub!Owner, GitStored

\* Alerts of an installation are accepted only for a completed onboarding and one
\* organisation, with the repositories that were discovered, all scanned for secrets then,
\* and none reported changed since the completion (module GitHubOnboarding; discover,
\* complete and the installation webhooks), for any number of calls. What was reported
\* before the completion is lost, and not claimed.
THEOREM AcceptsComplete == PartsSpec => []AcceptingIsComplete
  <1> DEFINE Inv == part = "github" => GitHubInv
  <1>1. PartsInit => Inv
    BY GitHubStart DEF PartsInit
  <1>2. Inv /\ [PartsNext]_<<part, OrganisationVars, BrowserVars>> => Inv'
    BY EachPart, GitHubStep
  <1>3. Inv => AcceptingIsComplete
    BY GitAccepts DEF AcceptingIsComplete
  <1> QED BY <1>1, <1>2, <1>3, PTL DEF PartsSpec

\* An installation that GitHub deleted is not accepted again (module GitHubOnboarding),
\* although a completion that began earlier writes the index it has read, and webhooks
\* arrive in any order.
THEOREM NeverBackFromDeleted == PartsSpec => DeletedForGood
  <1> DEFINE Inv == part = "github" => GitHubInv
  <1>1. PartsInit => Inv
    BY GitHubStart DEF PartsInit
  <1>2. Inv /\ [PartsNext]_<<part, OrganisationVars, BrowserVars>> => Inv'
    BY EachPart, GitHubStep
  <1>3. GitDeletedStays => GitHub!StaysDeleted
    BY DEF GitDeletedStays, GitHub!StaysDeleted, GitHub!Readable
  <1>4. Inv /\ [PartsNext]_<<part, OrganisationVars, BrowserVars>>
           => [part = "github" => GitHub!StaysDeleted]_githubVars
    BY <1>3, EachPart, GitHubStep
  <1> QED BY <1>1, <1>2, <1>4, PTL DEF PartsSpec, DeletedForGood

-----------------------------------------------------------------------------
(***************************************************************************)
(* Playbooks                                                               *)
(***************************************************************************)

\* Both parts count with instances of FiniteSets of their own.
LEMMA CountsVersions ==
    ASSUME NEW S
    PROVE  /\ Procedures!Cardinality(S) = Cardinality(S)
           /\ Verification!Cardinality(S) = Cardinality(S)
  BY DEF Procedures!Cardinality, Verification!Cardinality, Cardinality

LEMMA FiniteVersions ==
    ASSUME NEW S \in SUBSET Versions
    PROVE  /\ IsFiniteSet(S) /\ Cardinality(S) \in Nat
           /\ Cardinality(S) <= Cardinality(Versions) /\ Cardinality(Versions) \in Nat
           /\ \A v \in Versions \ S : /\ Cardinality(S \cup {v}) = Cardinality(S) + 1
                                      /\ S \cup {v} \in SUBSET Versions
  <1>1. IsFiniteSet(Versions)
    <2>1. IsFiniteSet({})
      BY FS_EmptySet
    <2>2. IsFiniteSet(({} \cup {version1}) \cup {version2})
      BY <2>1, FS_AddElement
    <2>3. IsFiniteSet((({} \cup {version1}) \cup {version2}) \cup {version3})
      BY <2>2, FS_AddElement
    <2>4. Versions = (({} \cup {version1}) \cup {version2}) \cup {version3}
      BY DEF Versions
    <2> QED BY <2>3, <2>4
  <1>2. IsFiniteSet(S) /\ Cardinality(S) <= Cardinality(Versions)
    BY <1>1, FS_Subset
  <1>3. Cardinality(S) \in Nat /\ Cardinality(Versions) \in Nat
    BY <1>1, <1>2, FS_CardinalityType
  <1>4. ASSUME NEW v \in Versions \ S
        PROVE  Cardinality(S \cup {v}) = Cardinality(S) + 1
    BY <1>2, FS_AddElement
  <1> QED BY <1>2, <1>3, <1>4

Added(p) == {v \in Versions : PlaybookOf[v] = p /\ version[v].state # "absent"}
Published(p) == {v \in Versions : PlaybookOf[v] = p /\ version[v].state = "published"}

\* A version that was published at some time.
Lasting(v) == v \in Versions /\ version[v].state \in {"published", "superseded"}

\* What an archive call found attached: while the connection is at that revision it still
\* has a version of the playbook.
DetachSound(a, k) ==
    LET found == detaching[a].attached[k]
    IN
    found # None =>
        /\ found \in Nat /\ found <= attached[k].revision
        /\ found = attached[k].revision =>
              /\ attached[k].version # None
              /\ PlaybookOf[attached[k].version] = detaching[a].playbook

PlaybooksInv ==
    /\ Procedures!TypeOK
    /\ \A p \in Playbooks : Cardinality(Added(p)) = playbook[p].latest
    /\ \A p \in Playbooks : Published(p) = {playbook[p].active} \ {None}
    /\ \A k \in OnlyConnection : attached[k].version # None => Lasting(attached[k].version)
    /\ \A x \in Attachers : attach[x].connection # None => Lasting(attach[x].version)
    /\ \A a \in Archivers, k \in OnlyConnection : DetachSound(a, k)

LEMMA PlaybookTypes ==
    ASSUME PlaybooksInv
    PROVE  /\ playbook \in [Playbooks -> Procedures!Playbook]
           /\ version \in [Versions -> Procedures!Version]
           /\ attached \in [OnlyConnection -> Procedures!Connection]
           /\ attach \in [Attachers ->
                  [version : Versions \cup {None}, connection : OnlyConnection \cup {None},
                   revision : 0..MaxEdits]]
           /\ detaching \in [Archivers ->
                  [at : {"idle", "list", "detach"}, playbook : Playbooks \cup {None},
                   revision : 0..MaxPlaybook,
                   attached : [OnlyConnection -> 0..MaxEdits \cup {None}]]]
           /\ \A v \in Versions : PlaybookOf[v] \in Playbooks
           /\ None \notin Versions /\ None \notin Nat
  BY PartsAssumption DEF PlaybooksInv, Procedures!TypeOK, PlaybookOf, Playbooks, Versions

\* Versions only go on: from absent to draft, to published, to superseded.
PlaybooksGo ==
    \A v \in Versions :
       /\ version[v].state # "absent" => version'[v].state # "absent"
       /\ Lasting(v) => Lasting(v)'

\* A step that takes versions on and leaves connections and calls alone.
LEMMA PlaybooksOn ==
    ASSUME PlaybooksInv, PlaybooksGo, Procedures!TypeOK',
           UNCHANGED <<attached, attach, detaching>>,
           \A p \in Playbooks : Cardinality(Added(p))' = playbook'[p].latest,
           \A p \in Playbooks : Published(p)' = {playbook'[p].active} \ {None}
    PROVE  PlaybooksInv'
  <1>1. attached' = attached /\ attach' = attach /\ detaching' = detaching
    OBVIOUS
  <1>2. \A v : Lasting(v) => Lasting(v)'
    BY DEF PlaybooksGo, Lasting
  <1>3. \A k \in OnlyConnection : attached'[k].version # None => Lasting(attached[k].version)'
    <2>1. \A k \in OnlyConnection : attached[k].version # None => Lasting(attached[k].version)
      BY DEF PlaybooksInv
    <2> QED BY <1>1, <1>2, <2>1 DEF Lasting
  <1>4. \A x \in Attachers : attach'[x].connection # None => Lasting(attach[x].version)'
    <2>1. \A x \in Attachers : attach[x].connection # None => Lasting(attach[x].version)
      BY DEF PlaybooksInv
    <2> QED BY <1>1, <1>2, <2>1 DEF Lasting
  <1>5. \A a \in Archivers, k \in OnlyConnection : DetachSound(a, k)'
    BY <1>1 DEF PlaybooksInv, DetachSound
  <1> QED BY <1>3, <1>4, <1>5 DEF PlaybooksInv

LEMMA PlaybookAdds ==
    ASSUME PlaybooksInv, NEW v \in Versions, Procedures!AddVersion(v)
    PROVE  PlaybooksInv'
  <1> DEFINE p == PlaybookOf[v]
             number == playbook[p].latest + 1
             revision0 == IF playbook[p].exists THEN playbook[p].revision + 1 ELSE 0
  <1>1. p \in Playbooks /\ playbook[p] \in Procedures!Playbook
    BY PlaybookTypes
  <1>2. /\ version[v].state = "absent" /\ revision0 <= MaxPlaybook
        /\ version' = [version EXCEPT ![v] = [state |-> "draft", number |-> number]]
        /\ UNCHANGED <<attached, attach, detaching>>
    BY DEF Procedures!AddVersion
  <1>3. v \in Versions \ Added(p) /\ Added(p) \in SUBSET Versions
    BY <1>2 DEF Added
  <1>4. /\ Cardinality(Added(p)) = playbook[p].latest
        /\ Cardinality(Added(p) \cup {v}) = number
        /\ Cardinality(Added(p) \cup {v}) <= Cardinality(Versions)
        /\ number \in Nat /\ Cardinality(Versions) \in Nat
    <2>1. Cardinality(Added(p)) = playbook[p].latest /\ Cardinality(Added(p)) \in Nat
      BY <1>1, <1>3, FiniteVersions DEF PlaybooksInv
    <2>2. Cardinality(Added(p) \cup {v}) = Cardinality(Added(p)) + 1
          /\ Added(p) \cup {v} \in SUBSET Versions
      BY <1>3, FiniteVersions
    <2>3. Cardinality(Added(p) \cup {v}) <= Cardinality(Versions) /\ Cardinality(Versions) \in Nat
      BY <2>2, FiniteVersions
    <2> QED BY <2>1, <2>2, <2>3
  <1>5. number \in 0..Procedures!Cardinality(Versions)
    BY <1>4, CountsVersions
  <1>6. revision0 \in 0..MaxPlaybook
    BY <1>1, <1>2, Bounds DEF Procedures!Playbook
  <1>7. PICK document : document = [playbook[p] EXCEPT !.exists = TRUE, !.latest = number,
                                                      !.revision = revision0]
    OBVIOUS
  <1>8. TRUE \in BOOLEAN
    OBVIOUS
  <1>9. /\ document \in Procedures!Playbook /\ document.latest = number
        /\ document.active = playbook[p].active
    BY <1>1, <1>5, <1>6, <1>7, <1>8 DEF Procedures!Playbook
  <1>10. playbook' = [playbook EXCEPT ![p] = document]
    BY <1>7, PlaybookTypes DEF Procedures!AddVersion
  <1>11. playbook' \in [Playbooks -> Procedures!Playbook]
    BY <1>1, <1>9, <1>10, PlaybookTypes
  <1>12. /\ version' \in [Versions -> Procedures!Version] /\ version'[v].state = "draft"
         /\ \A w \in Versions \ {v} : version'[w] = version[w]
    BY <1>2, <1>5, PlaybookTypes DEF Procedures!Version
  <1>13. Procedures!TypeOK'
    BY <1>2, <1>11, <1>12, PlaybookTypes DEF Procedures!TypeOK
  <1>14. PlaybooksGo
    BY <1>2, <1>12 DEF PlaybooksGo, Lasting
  <1>15. ASSUME NEW q \in Playbooks
         PROVE  /\ Cardinality(Added(q))' = playbook'[q].latest
                /\ Published(q)' = {playbook'[q].active} \ {None}
    <2>1. Published(q)' = Published(q)
      BY <1>2, <1>12 DEF Published
    <2>2. playbook'[q].active = playbook[q].active
      BY <1>9, <1>10, PlaybookTypes
    <2>3. CASE q = p
      <3>1. Added(q)' = Added(p) \cup {v}
        BY <1>2, <1>12, <2>3 DEF Added
      <3>2. playbook'[q].latest = number
        BY <1>1, <1>9, <1>10, <2>3, PlaybookTypes
      <3> QED BY <1>4, <2>1, <2>2, <3>1, <3>2 DEF PlaybooksInv
    <2>4. CASE q # p
      <3>1. Added(q)' = Added(q)
        BY <1>2, <1>12, <2>4 DEF Added
      <3>2. playbook'[q].latest = playbook[q].latest
        BY <1>10, <2>4, PlaybookTypes
      <3> QED BY <2>1, <2>2, <3>1, <3>2 DEF PlaybooksInv
    <2> QED BY <2>3, <2>4
  <1> QED BY <1>2, <1>13, <1>14, <1>15, PlaybooksOn

LEMMA PlaybookPublishes ==
    ASSUME PlaybooksInv, NEW v \in Versions, Procedures!Publish(v)
    PROVE  PlaybooksInv' /\ PlaybooksGo
  <1> DEFINE p == PlaybookOf[v]
             previous == playbook[p].active
  <1>1. p \in Playbooks /\ playbook[p] \in Procedures!Playbook
    BY PlaybookTypes
  <1>2. /\ version[v].state = "draft" /\ playbook[p].revision < MaxPlaybook
        /\ version' = [w \in Versions |->
              IF w = v THEN [version[v] EXCEPT !.state = "published"]
              ELSE IF w = previous THEN [version[w] EXCEPT !.state = "superseded"]
              ELSE version[w]]
        /\ UNCHANGED <<attached, attach, detaching>>
    BY DEF Procedures!Publish, Procedures!MayPublish
  <1>3. \A w \in Versions : version[w] \in Procedures!Version
    BY PlaybookTypes
  <1>4. /\ version' \in [Versions -> Procedures!Version]
        /\ version'[v].state = "published"
        /\ \A w \in Versions \ {v} : version'[w].state =
              IF w = previous THEN "superseded" ELSE version[w].state
    BY <1>2, <1>3 DEF Procedures!Version
  <1>5. previous \in Versions =>
           PlaybookOf[previous] = p /\ version[previous].state = "published"
    <2>1. Published(p) = {previous} \ {None}
      BY <1>1 DEF PlaybooksInv
    <2> QED BY <2>1, PlaybookTypes DEF Published
  <1>6. PICK u : u = playbook[p].revision + 1
    OBVIOUS
  <1>7. u \in 0..MaxPlaybook
    BY <1>1, <1>2, <1>6, Bounds DEF Procedures!Playbook
  <1>8. PICK document : document = [playbook[p] EXCEPT !.active = v, !.revision = u]
    OBVIOUS
  <1>9. /\ document \in Procedures!Playbook /\ document.active = v
        /\ document.latest = playbook[p].latest
    BY <1>1, <1>7, <1>8 DEF Procedures!Playbook
  <1>10. playbook' = [playbook EXCEPT ![p] = document]
    BY <1>6, <1>8, PlaybookTypes DEF Procedures!Publish
  <1>11. playbook' \in [Playbooks -> Procedures!Playbook]
    BY <1>1, <1>9, <1>10, PlaybookTypes
  <1>12. Procedures!TypeOK'
    BY <1>2, <1>4, <1>11, PlaybookTypes DEF Procedures!TypeOK
  <1>13. PlaybooksGo
    BY <1>2, <1>4, <1>5 DEF PlaybooksGo, Lasting
  <1>14. ASSUME NEW q \in Playbooks
         PROVE  /\ Cardinality(Added(q))' = playbook'[q].latest
                /\ Published(q)' = {playbook'[q].active} \ {None}
    <2>1. Added(q)' = Added(q)
      BY <1>2, <1>4, <1>5 DEF Added
    <2>2. playbook'[q].latest = playbook[q].latest
      BY <1>9, <1>10, PlaybookTypes
    <2>3. CASE q = p
      <3>1. playbook'[q].active = v
        BY <1>1, <1>9, <1>10, <2>3, PlaybookTypes
      <3>2. Published(p) = {previous} \ {None}
        BY <1>1 DEF PlaybooksInv
      <3>3. Published(q)' = {v}
        BY <1>4, <2>3, <3>2 DEF Published
      <3> QED BY <2>1, <2>2, <3>1, <3>3, PlaybookTypes DEF PlaybooksInv
    <2>4. CASE q # p
      <3>1. playbook'[q].active = playbook[q].active
        BY <1>10, <2>4, PlaybookTypes
      <3>2. Published(q)' = Published(q)
        BY <1>4, <1>5, <2>4 DEF Published
      <3> QED BY <2>1, <2>2, <3>1, <3>2 DEF PlaybooksInv
    <2> QED BY <2>3, <2>4
  <1> QED BY <1>2, <1>12, <1>13, <1>14, PlaybooksOn

\* A step of connections and calls, which leaves the versions alone. Calls keep what they
\* have read, forget it or read it now; and who writes a connection advances its revision.
LEMMA PlaybooksMove ==
    ASSUME PlaybooksInv, UNCHANGED version, Procedures!TypeOK',
           \A p \in Playbooks : /\ playbook'[p].latest = playbook[p].latest
                                /\ playbook'[p].active = playbook[p].active,
           \A k \in OnlyConnection :
              \/ attached'[k] = attached[k]
              \/ /\ attached'[k].revision = attached[k].revision + 1
                 /\ attached'[k].version # None => Lasting(attached[k].version)',
           \A x \in Attachers :
              \/ attach'[x] = attach[x] \/ attach'[x].connection = None
              \/ Lasting(attach[x].version)',
           \A a \in Archivers, k \in OnlyConnection :
              \/ detaching'[a].attached[k] = None
              \/ /\ detaching'[a].attached[k] = detaching[a].attached[k]
                 /\ detaching'[a].playbook = detaching[a].playbook
              \/ /\ detaching'[a].attached[k] = attached[k].revision
                 /\ attached'[k] = attached[k] /\ attached[k].version # None
                 /\ PlaybookOf[attached[k].version] = detaching'[a].playbook
    PROVE  PlaybooksInv'
  <1>1. \A p \in Playbooks : Added(p)' = Added(p) /\ Published(p)' = Published(p)
    BY DEF Added, Published
  <1>2. ASSUME NEW p \in Playbooks
        PROVE  /\ Cardinality(Added(p))' = playbook'[p].latest
               /\ Published(p)' = {playbook'[p].active} \ {None}
    BY <1>1 DEF PlaybooksInv
  <1>3. ASSUME NEW k \in OnlyConnection, attached'[k].version # None
        PROVE  Lasting(attached[k].version)'
    BY <1>3 DEF PlaybooksInv, Lasting
  <1>4. ASSUME NEW x \in Attachers, attach'[x].connection # None
        PROVE  Lasting(attach[x].version)'
    BY <1>4 DEF PlaybooksInv, Lasting
  <1>5. ASSUME NEW a \in Archivers, NEW k \in OnlyConnection
        PROVE  DetachSound(a, k)'
    <2>1. attached[k].revision \in Nat /\ attached[k].revision + 1 \in Nat
      BY PlaybookTypes, Bounds DEF Procedures!Connection
    <2>2. DetachSound(a, k)
      BY DEF PlaybooksInv
    <2>3. CASE detaching'[a].attached[k] = None
      BY <2>3 DEF DetachSound
    <2>4. CASE /\ detaching'[a].attached[k] = attached[k].revision
               /\ attached'[k] = attached[k] /\ attached[k].version # None
               /\ PlaybookOf[attached[k].version] = detaching'[a].playbook
      BY <2>1, <2>4 DEF DetachSound
    <2>5. CASE /\ detaching'[a].attached[k] = detaching[a].attached[k]
               /\ detaching'[a].playbook = detaching[a].playbook
      <3>1. CASE attached'[k] = attached[k]
        BY <2>2, <2>5, <3>1 DEF DetachSound
      <3>2. CASE attached'[k].revision = attached[k].revision + 1
        BY <2>1, <2>2, <2>5, <3>2 DEF DetachSound
      <3> QED BY <3>1, <3>2
    <2> QED BY <2>3, <2>4, <2>5
  <1> QED BY <1>2, <1>3, <1>4, <1>5 DEF PlaybooksInv

LEMMA NoPlaybookCalls ==
    /\ Procedures!NoAttach \in [version : Versions \cup {None}, connection : OnlyConnection \cup {None},
                                revision : 0..MaxEdits]
    /\ Procedures!NoAttach.connection = None
    /\ Procedures!NoArchive \in [at : {"idle", "list", "detach"}, playbook : Playbooks \cup {None},
                                 revision : 0..MaxPlaybook,
                                 attached : [OnlyConnection -> 0..MaxEdits \cup {None}]]
    /\ \A k \in OnlyConnection : Procedures!NoArchive.attached[k] = None
  BY Bounds DEF Procedures!NoAttach, Procedures!NoArchive, Procedures!Unattached

\* A connection takes or keeps a published version, or edits.
LEMMA PlaybookAttaches ==
    ASSUME PlaybooksInv,
           \/ \E x \in Attachers : Procedures!Attach(x)
           \/ \E k \in OnlyConnection : Procedures!EditConnection(k)
    PROVE  PlaybooksInv'
  <1>1. UNCHANGED <<playbook, version, detaching>>
    BY DEF Procedures!Attach, Procedures!EditConnection
  <1>2. PICK j \in OnlyConnection, document \in Procedures!Connection :
           /\ attached' = [attached EXCEPT ![j] = document]
           /\ document.revision = attached[j].revision + 1
           /\ document.version # None =>
                 Lasting(document.version) \/ document.version = attached[j].version
    <2>1. ASSUME NEW x \in Attachers, Procedures!Attach(x)
          PROVE  \E j \in OnlyConnection, document \in Procedures!Connection :
                    /\ attached' = [attached EXCEPT ![j] = document]
                    /\ document.revision = attached[j].revision + 1
                    /\ document.version # None =>
                          Lasting(document.version) \/ document.version = attached[j].version
      <3> DEFINE j == attach[x].connection
      <3>1. j \in OnlyConnection /\ Lasting(attach[x].version)
        BY <2>1, PlaybookTypes DEF Procedures!Attach, PlaybooksInv
      <3>2. attached[j].revision \in Nat /\ attached[j].revision < MaxEdits
        BY <2>1, <3>1, PlaybookTypes DEF Procedures!Attach, Procedures!Connection
      <3>3. PICK u : u = attached[j].revision + 1
        OBVIOUS
      <3>4. u \in 0..MaxEdits
        BY <3>2, <3>3, Bounds
      <3>5. (j \in OnlyConnection) = TRUE
        BY <3>1
      <3>6. PICK document : document = [version |-> attach[x].version, ready |-> TRUE,
                                        revision |-> u]
        OBVIOUS
      <3>7. document \in Procedures!Connection
        BY <3>1, <3>4, <3>6 DEF Procedures!Connection, Lasting
      <3>8. attached' = [attached EXCEPT ![j] = document]
        BY <2>1, <3>3, <3>5, <3>6, PlaybookTypes DEF Procedures!Attach
      <3> QED BY <3>1, <3>3, <3>6, <3>7, <3>8
    <2>2. ASSUME NEW k \in OnlyConnection, Procedures!EditConnection(k)
          PROVE  \E j \in OnlyConnection, document \in Procedures!Connection :
                    /\ attached' = [attached EXCEPT ![j] = document]
                    /\ document.revision = attached[j].revision + 1
                    /\ document.version # None =>
                          Lasting(document.version) \/ document.version = attached[j].version
      <3>1. attached[k].revision \in Nat /\ attached[k].revision < MaxEdits
        BY <2>2, PlaybookTypes DEF Procedures!EditConnection, Procedures!Connection
      <3>2. PICK u : u = attached[k].revision + 1
        OBVIOUS
      <3>3. u \in 0..MaxEdits
        BY <3>1, <3>2, Bounds
      <3>4. PICK document : document = [attached[k] EXCEPT !.revision = u]
        OBVIOUS
      <3>5. attached[k] \in Procedures!Connection
        BY PlaybookTypes
      <3>6. document.revision = u /\ document.version = attached[k].version
        BY <3>4, <3>5 DEF Procedures!Connection
      <3>7. document \in Procedures!Connection
        BY <3>3, <3>4, <3>5 DEF Procedures!Connection
      <3>8. attached' = [attached EXCEPT ![k] = document]
        BY <2>2, <3>2, <3>4, PlaybookTypes DEF Procedures!EditConnection
      <3> QED BY <3>2, <3>6, <3>7, <3>8
    <2> QED BY <2>1, <2>2
  <1>3. \/ attach' = attach
        \/ \E x \in Attachers : attach' = [attach EXCEPT ![x] = Procedures!NoAttach]
    BY DEF Procedures!Attach, Procedures!EditConnection
  <1>4. /\ attach' \in [Attachers ->
               [version : Versions \cup {None}, connection : OnlyConnection \cup {None},
                revision : 0..MaxEdits]]
        /\ \A y \in Attachers : attach'[y] = attach[y] \/ attach'[y].connection = None
    <2>1. CASE attach' = attach
      BY <2>1, PlaybookTypes
    <2>2. ASSUME NEW x \in Attachers, attach' = [attach EXCEPT ![x] = Procedures!NoAttach]
          PROVE  /\ attach' \in [Attachers ->
                       [version : Versions \cup {None}, connection : OnlyConnection \cup {None},
                        revision : 0..MaxEdits]]
                 /\ \A y \in Attachers :
                       attach'[y] = attach[y] \/ attach'[y].connection = None
      BY <2>2, PlaybookTypes, NoPlaybookCalls
    <2> QED BY <1>3, <2>1, <2>2
  <1>5. /\ attached' \in [OnlyConnection -> Procedures!Connection]
        /\ attached'[j] = document /\ \A i \in OnlyConnection \ {j} : attached'[i] = attached[i]
    BY <1>2, PlaybookTypes
  <1>6. Procedures!TypeOK'
    BY <1>1, <1>4, <1>5, PlaybookTypes DEF Procedures!TypeOK
  <1>7. attached[j].version # None => Lasting(attached[j].version)
    BY DEF PlaybooksInv
  <1>8. document.version # None => Lasting(attached[j].version)'
    BY <1>1, <1>2, <1>5, <1>7 DEF Lasting
  <1>9. \A i \in OnlyConnection :
           \/ attached'[i] = attached[i]
           \/ /\ attached'[i].revision = attached[i].revision + 1
              /\ attached'[i].version # None => Lasting(attached[i].version)'
    BY <1>2, <1>5, <1>8
  <1> QED BY <1>1, <1>4, <1>6, <1>9, PlaybooksMove

\* Attaching begins or ends without a connection having changed.
LEMMA PlaybookCalls ==
    ASSUME PlaybooksInv, NEW x \in Attachers,
           \/ \E v \in Versions, k \in OnlyConnection : Procedures!BeginAttach(x, v, k)
           \/ Procedures!AttachEnds(x)
    PROVE  PlaybooksInv'
  <1>1. UNCHANGED <<playbook, version, attached, detaching>>
    BY DEF Procedures!BeginAttach, Procedures!AttachEnds
  <1>2. PICK new \in [version : Versions \cup {None}, connection : OnlyConnection \cup {None},
                      revision : 0..MaxEdits] :
           /\ attach' = [attach EXCEPT ![x] = new]
           /\ new.connection = None \/ Lasting(new.version)
    <2>1. CASE Procedures!AttachEnds(x)
      BY <2>1, NoPlaybookCalls DEF Procedures!AttachEnds
    <2>2. ASSUME NEW v \in Versions, NEW k \in OnlyConnection, Procedures!BeginAttach(x, v, k)
          PROVE  \E new \in [version : Versions \cup {None}, connection : OnlyConnection \cup {None},
                             revision : 0..MaxEdits] :
                    /\ attach' = [attach EXCEPT ![x] = new]
                    /\ new.connection = None \/ Lasting(new.version)
      <3>1. attached[k].revision \in 0..MaxEdits
        BY PlaybookTypes DEF Procedures!Connection
      <3>2. PICK new : new = [version |-> v, connection |-> k, revision |-> attached[k].revision]
        OBVIOUS
      <3>3. new \in [version : Versions \cup {None}, connection : OnlyConnection \cup {None},
                     revision : 0..MaxEdits]
        BY <3>1, <3>2
      <3>4. Lasting(new.version) /\ attach' = [attach EXCEPT ![x] = new]
        BY <2>2, <3>2 DEF Procedures!BeginAttach, Lasting
      <3> QED BY <3>3, <3>4
    <2> QED BY <2>1, <2>2
  <1>3. /\ attach' \in [Attachers ->
               [version : Versions \cup {None}, connection : OnlyConnection \cup {None},
                revision : 0..MaxEdits]]
        /\ attach'[x] = new /\ \A y \in Attachers \ {x} : attach'[y] = attach[y]
    BY <1>2, PlaybookTypes
  <1>4. \A y \in Attachers :
           attach'[y] = attach[y] \/ attach'[y].connection = None \/ Lasting(attach[y].version)'
    BY <1>1, <1>2, <1>3 DEF Lasting
  <1>5. Procedures!TypeOK'
    BY <1>1, <1>3, PlaybookTypes DEF Procedures!TypeOK
  <1> QED BY <1>1, <1>4, <1>5, PlaybooksMove

DetachCall ==
    [at : {"idle", "list", "detach"}, playbook : Playbooks \cup {None}, revision : 0..MaxPlaybook,
     attached : [OnlyConnection -> 0..MaxEdits \cup {None}]]

\* An archive call begins, lists what is attached, or ends: connections stay.
LEMMA PlaybookLists ==
    ASSUME PlaybooksInv, NEW a \in Archivers,
           \/ \E p \in Playbooks : Procedures!BeginArchive(a, p)
           \/ Procedures!ListAttached(a) \/ Procedures!ArchiveEnds(a)
    PROVE  PlaybooksInv'
  <1>1. UNCHANGED <<playbook, version, attached, attach>>
    BY DEF Procedures!BeginArchive, Procedures!ListAttached, Procedures!ArchiveEnds
  <1>2. PICK new \in DetachCall :
           /\ detaching' = [detaching EXCEPT ![a] = new]
           /\ \A k \in OnlyConnection :
                 \/ new.attached[k] = None
                 \/ /\ new.attached[k] = attached[k].revision /\ attached[k].version # None
                    /\ PlaybookOf[attached[k].version] = new.playbook
    <2>1. CASE Procedures!ArchiveEnds(a)
      BY <2>1, NoPlaybookCalls DEF Procedures!ArchiveEnds, DetachCall
    <2>2. ASSUME NEW p \in Playbooks, Procedures!BeginArchive(a, p)
          PROVE  \E new \in DetachCall :
                    /\ detaching' = [detaching EXCEPT ![a] = new]
                    /\ \A k \in OnlyConnection : new.attached[k] = None
      <3>1. playbook[p].revision \in 0..MaxPlaybook
        BY PlaybookTypes DEF Procedures!Playbook
      <3>2. PICK new : new = [Procedures!NoArchive EXCEPT !.at = "list", !.playbook = p,
                                                         !.revision = playbook[p].revision]
        OBVIOUS
      <3>3. new \in DetachCall /\ new.attached = Procedures!NoArchive.attached
        BY <3>1, <3>2, NoPlaybookCalls DEF DetachCall
      <3> QED BY <2>2, <3>2, <3>3, NoPlaybookCalls DEF Procedures!BeginArchive
    <2>3. CASE Procedures!ListAttached(a)
      <3> DEFINE p == detaching[a].playbook
      <3>1. PICK list : list = [k \in OnlyConnection |->
                   IF k \in Procedures!AttachedTo(p) THEN attached[k].revision ELSE None]
        OBVIOUS
      <3>2. \A k \in OnlyConnection : attached[k].revision \in 0..MaxEdits
        BY PlaybookTypes DEF Procedures!Connection
      <3>3. list \in [OnlyConnection -> 0..MaxEdits \cup {None}]
        BY <3>1, <3>2
      <3>4. PICK new : new = [detaching[a] EXCEPT !.at = "detach", !.attached = list]
        OBVIOUS
      <3>5. /\ new \in DetachCall /\ new.attached = list /\ new.playbook = p
        BY <3>3, <3>4, PlaybookTypes DEF DetachCall
      <3>6. detaching' = [detaching EXCEPT ![a] = new]
        BY <2>3, <3>1, <3>4, PlaybookTypes DEF Procedures!ListAttached
      <3>7. \A k \in OnlyConnection :
               \/ list[k] = None
               \/ /\ list[k] = attached[k].revision /\ attached[k].version # None
                  /\ PlaybookOf[attached[k].version] = p
        BY <3>1 DEF Procedures!AttachedTo
      <3> QED BY <3>5, <3>6, <3>7
    <2> QED BY <2>1, <2>2, <2>3
  <1>3. /\ detaching' \in [Archivers -> DetachCall]
        /\ detaching'[a] = new /\ \A b \in Archivers \ {a} : detaching'[b] = detaching[b]
    BY <1>2, PlaybookTypes DEF DetachCall
  <1>4. Procedures!TypeOK'
    BY <1>1, <1>3, PlaybookTypes DEF Procedures!TypeOK, DetachCall
  <1> QED BY <1>1, <1>2, <1>3, <1>4, PlaybooksMove

\* Archiving detaches a connection.
LEMMA PlaybookDetaches ==
    ASSUME PlaybooksInv, NEW a \in Archivers, NEW k \in OnlyConnection, Procedures!Detach(a, k)
    PROVE  PlaybooksInv'
  <1>1. UNCHANGED <<playbook, version, attach>> /\ attached[k].revision < MaxEdits
    BY DEF Procedures!Detach
  <1>2. attached[k].revision \in Nat
    BY PlaybookTypes DEF Procedures!Connection
  <1>3. PICK u : u = attached[k].revision + 1
    OBVIOUS
  <1>4. u \in 0..MaxEdits
    BY <1>1, <1>2, <1>3, Bounds
  <1>5. PICK document : document = [version |-> None, ready |-> FALSE, revision |-> u]
    OBVIOUS
  <1>6. document \in Procedures!Connection
    BY <1>4, <1>5 DEF Procedures!Connection
  <1>7. attached' = [attached EXCEPT ![k] = document]
    BY <1>3, <1>5, PlaybookTypes DEF Procedures!Detach
  <1>8. /\ attached' \in [OnlyConnection -> Procedures!Connection]
        /\ attached'[k] = document
        /\ \A j \in OnlyConnection \ {k} : attached'[j] = attached[j]
    BY <1>6, <1>7, PlaybookTypes
  <1>9. PICK list : list = [detaching[a].attached EXCEPT ![k] = None]
    OBVIOUS
  <1>10. /\ list \in [OnlyConnection -> 0..MaxEdits \cup {None}]
         /\ \A j \in OnlyConnection : list[j] = None \/ list[j] = detaching[a].attached[j]
    BY <1>9, PlaybookTypes
  <1>11. PICK new : new = [detaching[a] EXCEPT !.attached = list]
    OBVIOUS
  <1>12. new \in DetachCall /\ new.attached = list /\ new.playbook = detaching[a].playbook
    BY <1>10, <1>11, PlaybookTypes DEF DetachCall
  <1>13. detaching' = [detaching EXCEPT ![a] = new]
    BY <1>9, <1>11, PlaybookTypes DEF Procedures!Detach
  <1>14. /\ detaching' \in [Archivers -> DetachCall]
         /\ detaching'[a] = new /\ \A b \in Archivers \ {a} : detaching'[b] = detaching[b]
    BY <1>12, <1>13, PlaybookTypes DEF DetachCall
  <1>15. Procedures!TypeOK'
    BY <1>1, <1>8, <1>14, PlaybookTypes DEF Procedures!TypeOK, DetachCall
  <1>16. \A b \in Archivers, j \in OnlyConnection :
            \/ detaching'[b].attached[j] = None
            \/ /\ detaching'[b].attached[j] = detaching[b].attached[j]
               /\ detaching'[b].playbook = detaching[b].playbook
    BY <1>10, <1>12, <1>14
  <1>17. \A j \in OnlyConnection :
            \/ attached'[j] = attached[j]
            \/ /\ attached'[j].revision = attached[j].revision + 1
               /\ attached'[j].version # None => Lasting(attached[j].version)'
    BY <1>3, <1>5, <1>8
  <1> QED BY <1>1, <1>15, <1>16, <1>17, PlaybooksMove

\* A playbook is renamed or archived.
LEMMA PlaybookReplaced ==
    ASSUME PlaybooksInv,
           \/ \E p \in Playbooks : Procedures!Rename(p)
           \/ \E a \in Archivers : Procedures!Archive(a)
    PROVE  PlaybooksInv'
  <1>1. UNCHANGED <<version, attached, attach>>
    BY DEF Procedures!Rename, Procedures!Archive
  <1>2. playbook' \in [Playbooks -> Procedures!Playbook]
        /\ \A p \in Playbooks : /\ playbook'[p].latest = playbook[p].latest
                                /\ playbook'[p].active = playbook[p].active
    <2>1. ASSUME NEW p \in Playbooks, NEW document, NEW u \in Nat,
                 playbook[p].revision < MaxPlaybook, u = playbook[p].revision + 1,
                 \/ document = [playbook[p] EXCEPT !.revision = u]
                 \/ document = [playbook[p] EXCEPT !.archived = TRUE, !.revision = u]
          PROVE  /\ document \in Procedures!Playbook
                 /\ document.latest = playbook[p].latest /\ document.active = playbook[p].active
      <3>1. playbook[p] \in Procedures!Playbook /\ TRUE \in BOOLEAN
        BY PlaybookTypes
      <3>2. u \in 0..MaxPlaybook
        BY <2>1, <3>1, Bounds DEF Procedures!Playbook
      <3> QED BY <2>1, <3>1, <3>2 DEF Procedures!Playbook
    <2>2. \A p \in Playbooks : playbook[p].revision \in Nat /\ playbook[p].revision + 1 \in Nat
      BY PlaybookTypes, Bounds DEF Procedures!Playbook
    <2>3. PICK p, document :
             /\ playbook' = [playbook EXCEPT ![p] = document]
             /\ p \in Playbooks => /\ document \in Procedures!Playbook
                                   /\ document.latest = playbook[p].latest
                                   /\ document.active = playbook[p].active
      <3>1. ASSUME NEW p \in Playbooks, Procedures!Rename(p)
            PROVE  \E document :
                      /\ playbook' = [playbook EXCEPT ![p] = document]
                      /\ document \in Procedures!Playbook
                      /\ document.latest = playbook[p].latest
                      /\ document.active = playbook[p].active
        <4>1. PICK u : u = playbook[p].revision + 1
          OBVIOUS
        <4>2. PICK document : document = [playbook[p] EXCEPT !.revision = u]
          OBVIOUS
        <4>3. playbook' = [playbook EXCEPT ![p] = document]
          BY <3>1, <4>1, <4>2, PlaybookTypes DEF Procedures!Rename
        <4>4. playbook[p].revision < MaxPlaybook /\ u \in Nat
          BY <2>2, <3>1, <4>1 DEF Procedures!Rename
        <4> QED BY <2>1, <4>1, <4>2, <4>3, <4>4
      <3>2. ASSUME NEW a \in Archivers, Procedures!Archive(a)
            PROVE  \E p, document :
                      /\ playbook' = [playbook EXCEPT ![p] = document]
                      /\ p \in Playbooks => /\ document \in Procedures!Playbook
                                            /\ document.latest = playbook[p].latest
                                            /\ document.active = playbook[p].active
        <4> DEFINE p == detaching[a].playbook
        <4>1. PICK u : u = playbook[p].revision + 1
          OBVIOUS
        <4>2. PICK document : document = [playbook[p] EXCEPT !.archived = TRUE, !.revision = u]
          OBVIOUS
        <4>3. playbook' = [playbook EXCEPT ![p] = document]
          BY <3>2, <4>1, <4>2, PlaybookTypes DEF Procedures!Archive
        <4>4. p \in Playbooks => playbook[p].revision < MaxPlaybook /\ u \in Nat
          BY <2>2, <3>2, <4>1 DEF Procedures!Archive
        <4>5. p \in Playbooks => /\ document \in Procedures!Playbook
                                 /\ document.latest = playbook[p].latest
                                 /\ document.active = playbook[p].active
          BY <2>1, <4>1, <4>2, <4>4
        <4> QED BY <4>3, <4>5
      <3> QED BY <3>1, <3>2
    <2> QED BY <2>3, PlaybookTypes
  <1>3. /\ detaching' \in [Archivers -> DetachCall]
        /\ \A a \in Archivers, k \in OnlyConnection :
              \/ detaching'[a].attached[k] = None
              \/ detaching'[a] = detaching[a]
    <2>1. \/ detaching' = detaching
          \/ \E a \in Archivers : detaching' = [detaching EXCEPT ![a] = Procedures!NoArchive]
      BY DEF Procedures!Rename, Procedures!Archive
    <2> QED BY <2>1, PlaybookTypes, NoPlaybookCalls DEF DetachCall
  <1>4. Procedures!TypeOK'
    BY <1>1, <1>2, <1>3, PlaybookTypes DEF Procedures!TypeOK, DetachCall
  <1> QED BY <1>1, <1>2, <1>3, <1>4, PlaybooksMove

LEMMA PlaybooksStep ==
    ASSUME PlaybooksInv, [Procedures!Next]_playbookVars
    PROVE  PlaybooksInv'
  <1>1. CASE UNCHANGED playbookVars
    <2>1. UNCHANGED <<playbook, version, attached, attach, detaching>>
      BY <1>1 DEF playbookVars
    <2>2. Procedures!TypeOK'
      BY <2>1, PlaybookTypes DEF Procedures!TypeOK
    <2> QED BY <2>1, <2>2, PlaybooksMove
  <1>2. \A v \in Versions : Procedures!AddVersion(v) \/ Procedures!Publish(v) => PlaybooksInv'
    BY PlaybookAdds, PlaybookPublishes
  <1>3. /\ \A p \in Playbooks : Procedures!Rename(p) => PlaybooksInv'
        /\ \A a \in Archivers : Procedures!Archive(a) => PlaybooksInv'
    BY PlaybookReplaced
  <1>4. \A x \in Attachers :
           /\ \A v \in Versions, k \in OnlyConnection :
                 Procedures!BeginAttach(x, v, k) => PlaybooksInv'
           /\ Procedures!AttachEnds(x) => PlaybooksInv'
    BY PlaybookCalls
  <1>5. /\ \A x \in Attachers : Procedures!Attach(x) => PlaybooksInv'
        /\ \A k \in OnlyConnection : Procedures!EditConnection(k) => PlaybooksInv'
    BY PlaybookAttaches
  <1>6. \A a \in Archivers :
           /\ \A p \in Playbooks : Procedures!BeginArchive(a, p) => PlaybooksInv'
           /\ Procedures!ListAttached(a) \/ Procedures!ArchiveEnds(a) => PlaybooksInv'
    BY PlaybookLists
  <1>7. \A a \in Archivers, k \in OnlyConnection : Procedures!Detach(a, k) => PlaybooksInv'
    BY PlaybookDetaches
  <1> QED BY <1>1, <1>2, <1>3, <1>4, <1>5, <1>6, <1>7, Zenon DEF Procedures!Next

LEMMA PlaybooksStart ==
    ASSUME Procedures!Init
    PROVE  PlaybooksInv
  <1>1. /\ 0 \in 0..Procedures!Cardinality(Versions) /\ 0 \in 0..MaxPlaybook
        /\ 0 \in 0..MaxEdits /\ FALSE \in BOOLEAN
    BY FiniteVersions, CountsVersions, Bounds
  <1>2. /\ playbook \in [Playbooks -> Procedures!Playbook]
        /\ version \in [Versions -> Procedures!Version]
        /\ attached \in [OnlyConnection -> Procedures!Connection]
    BY <1>1
    DEF Procedures!Init, Procedures!Playbook, Procedures!Version, Procedures!Connection
  <1>3. Procedures!TypeOK
    BY <1>2, NoPlaybookCalls DEF Procedures!TypeOK, Procedures!Init
  <1>4. \A p \in Playbooks : Added(p) = {} /\ Published(p) = {}
    BY DEF Added, Published, Procedures!Init
  <1>5. \A p \in Playbooks : playbook[p].latest = 0 /\ playbook[p].active = None
    BY DEF Procedures!Init
  <1>6. /\ \A k \in OnlyConnection : attached[k].version = None
        /\ \A x \in Attachers : attach[x].connection = None
        /\ \A a \in Archivers, k \in OnlyConnection : detaching[a].attached[k] = None
    BY NoPlaybookCalls DEF Procedures!Init
  <1> QED BY <1>3, <1>4, <1>5, <1>6, FS_EmptySet DEF PlaybooksInv, DetachSound

LEMMA PlaybooksGoOn ==
    ASSUME PlaybooksInv, [Procedures!Next]_playbookVars
    PROVE  \A v \in Versions : version[v].state = "superseded" => version'[v].state = "superseded"
  <1>1. CASE UNCHANGED version
    BY <1>1
  <1>2. ASSUME NEW v \in Versions, Procedures!AddVersion(v)
        PROVE  \A w \in Versions : version[w].state = "superseded" => version'[w].state = "superseded"
    BY <1>2, PlaybookTypes DEF Procedures!AddVersion
  <1>3. ASSUME NEW v \in Versions, Procedures!Publish(v)
        PROVE  \A w \in Versions : version[w].state = "superseded" => version'[w].state = "superseded"
    BY <1>3, PlaybookTypes DEF Procedures!Publish, Procedures!MayPublish, Procedures!Version
  <1> QED
    BY <1>1, <1>2, <1>3
    DEF Procedures!Next, playbookVars, Procedures!Rename, Procedures!BeginAttach,
        Procedures!Attach, Procedures!AttachEnds, Procedures!EditConnection,
        Procedures!BeginArchive, Procedures!Detach, Procedures!ListAttached,
        Procedures!Archive, Procedures!ArchiveEnds

LEMMA PlaybooksPublishOnce ==
    ASSUME PlaybooksInv, PlaybooksInv', [Procedures!Next]_playbookVars
    PROVE  Procedures!PublishesOnce
  <1>1. \A p \in Playbooks :
           {v \in Versions : PlaybookOf[v] = p /\ version'[v].state = "published"}
               = {playbook'[p].active} \ {None}
    BY DEF PlaybooksInv, Published
  <1>2. \A k \in OnlyConnection : attached'[k].version # None =>
           version'[attached'[k].version].state \in {"published", "superseded"}
    BY DEF PlaybooksInv, Lasting
  <1> QED BY <1>1, <1>2, PlaybooksGoOn DEF Procedures!PublishesOnce

\* What detaches a connection holds a list in which it has the present revision.
LEMMA PlaybooksDetachOwn ==
    ASSUME PlaybooksInv, [Procedures!Next]_playbookVars
    PROVE  Procedures!DetachesItsOwn
  <1> SUFFICES ASSUME NEW k \in OnlyConnection, attached[k].version # None,
                      attached'[k].version = None
               PROVE  \E a \in Archivers : PlaybookOf[attached[k].version] = detaching[a].playbook
    BY DEF Procedures!DetachesItsOwn
  <1>1. attached' # attached
    OBVIOUS
  <1>2. ASSUME NEW x \in Attachers, Procedures!Attach(x)
        PROVE  FALSE
    <2>1. Lasting(attach[x].version) /\ attach[x].connection \in OnlyConnection
      BY <1>2, PlaybookTypes DEF Procedures!Attach, PlaybooksInv
    <2>2. attach[x].version # None
      BY <2>1, PlaybookTypes DEF Lasting
    <2> QED BY <1>2, <2>1, <2>2, PlaybookTypes DEF Procedures!Attach
  <1>3. ASSUME NEW j \in OnlyConnection, Procedures!EditConnection(j)
        PROVE  FALSE
    BY <1>3, PlaybookTypes DEF Procedures!EditConnection, Procedures!Connection
  <1>4. PICK a \in Archivers, j \in OnlyConnection : Procedures!Detach(a, j)
    BY <1>1, <1>2, <1>3
    DEF Procedures!Next, playbookVars, Procedures!AddVersion, Procedures!Publish,
        Procedures!Rename, Procedures!BeginAttach, Procedures!AttachEnds,
        Procedures!BeginArchive, Procedures!ListAttached, Procedures!Archive,
        Procedures!ArchiveEnds
  <1>5. j = k
    BY <1>4, PlaybookTypes DEF Procedures!Detach
  <1>6. DetachSound(a, k)
    BY DEF PlaybooksInv
  <1> QED BY <1>4, <1>5, <1>6 DEF Procedures!Detach, Procedures!MayDetach, DetachSound

\* An archive call takes a connection's playbook only if it is its own (module Playbooks),
\* although it listed the connections in an earlier transaction and other calls attach
\* playbooks meanwhile (archive_playbook).
THEOREM DetachesOwn == PartsSpec => ArchiveDetachesItsOwn
  <1> DEFINE Inv == part = "playbooks" => PlaybooksInv
  <1>1. PartsInit => Inv
    BY PlaybooksStart DEF PartsInit
  <1>2. Inv /\ [PartsNext]_<<part, OrganisationVars, BrowserVars>> => Inv'
    BY EachPart, PlaybooksStep
  <1>3. Inv /\ [PartsNext]_<<part, OrganisationVars, BrowserVars>>
           => [part = "playbooks" => Procedures!DetachesItsOwn]_playbookVars
    BY EachPart, PlaybooksDetachOwn
  <1> QED BY <1>1, <1>2, <1>3, PTL DEF PartsSpec, ArchiveDetachesItsOwn

-----------------------------------------------------------------------------
(***************************************************************************)
(* Probes                                                                  *)
(***************************************************************************)

\* The versions created for a probe's document, which no controls name.
Own(p) == {v \in Versions \ pinned : probed[v].probe = p}
Active(p) == {v \in Own(p) : probed[v].state = "active"}
Numbers(p) == {probed[v].number : v \in Own(p)}

ProbesInv ==
    /\ Verification!TypeOK
    /\ \A v \in Versions : probed[v].state = "absent" => probed[v].probe = None
    /\ \A v \in pinned : probed[v].state = "active"
    /\ \A p \in Probes :
          /\ Cardinality(Own(p)) = probe[p].latest
          /\ Active(p) = {probe[p].active} \ {None}
          /\ Numbers(p) = 1..probe[p].latest

LEMMA ProbeTypes ==
    ASSUME ProbesInv
    PROVE  /\ probe \in [Probes -> Verification!Probe]
           /\ probed \in [Versions -> Verification!Version]
           /\ pinned \subseteq Versions
           /\ None \notin Versions /\ None \notin Probes
  BY PartsAssumption DEF ProbesInv, Verification!TypeOK, Versions

LEMMA ProbesStart ==
    ASSUME Verification!Init
    PROVE  ProbesInv
  <1>1. 0 \in 0..Verification!Cardinality(Versions) /\ FALSE \in BOOLEAN
    BY FiniteVersions, CountsVersions
  <1>2. Verification!TypeOK
    BY <1>1 DEF Verification!Init, Verification!TypeOK, Verification!Probe, Verification!Version
  <1>3. \A p \in Probes : Own(p) = {}
    BY PartsAssumption DEF Own, Verification!Init
  <1>4. \A p \in Probes : probe[p].latest = 0 /\ probe[p].active = None
    BY DEF Verification!Init
  <1>5. \A v \in Versions : probed[v].probe = None
    BY DEF Verification!Init
  <1>6. \A p \in Probes : Active(p) = {} /\ Numbers(p) = {}
    BY <1>3 DEF Active, Numbers
  <1>7. Cardinality({}) = 0 /\ 1..0 = {}
    BY FS_EmptySet
  <1>8. \A p \in Probes : /\ Cardinality(Own(p)) = probe[p].latest
                         /\ Active(p) = {probe[p].active} \ {None}
                         /\ Numbers(p) = 1..probe[p].latest
    BY <1>3, <1>4, <1>6, <1>7
  <1>9. pinned = {}
    BY DEF Verification!Init
  <1> QED BY <1>2, <1>5, <1>8, <1>9 DEF ProbesInv

LEMMA ProbeCreated ==
    ASSUME ProbesInv, NEW p \in Probes, Verification!Create(p)
    PROVE  ProbesInv'
  <1>1. probe[p] \in Verification!Probe
    BY ProbeTypes
  <1>2. PICK document : document = [probe[p] EXCEPT !.exists = TRUE]
    OBVIOUS
  <1>3. TRUE \in BOOLEAN
    OBVIOUS
  <1>4. document \in Verification!Probe
    BY <1>1, <1>2, <1>3 DEF Verification!Probe
  <1>5. document.latest = probe[p].latest /\ document.active = probe[p].active
    BY <1>1, <1>2 DEF Verification!Probe
  <1>6. probe' = [probe EXCEPT ![p] = document] /\ probed' = probed /\ pinned' = pinned
    BY <1>2, ProbeTypes DEF Verification!Create
  <1>7. Verification!TypeOK'
    BY <1>4, <1>6, ProbeTypes DEF Verification!TypeOK
  <1>8. \A q \in Probes :
           /\ probe'[q].latest = probe[q].latest /\ probe'[q].active = probe[q].active
           /\ Own(q)' = Own(q) /\ Active(q)' = Active(q) /\ Numbers(q)' = Numbers(q)
    BY <1>5, <1>6, ProbeTypes DEF Own, Active, Numbers
  <1> QED BY <1>6, <1>7, <1>8 DEF ProbesInv

LEMMA ProbeVersionCreated ==
    ASSUME ProbesInv, NEW p \in Probes, NEW v \in Versions, Verification!CreateVersion(p, v)
    PROVE  ProbesInv'
  <1> DEFINE number == probe[p].latest + 1
  <1>1. probe[p] \in Verification!Probe
    BY ProbeTypes
  <1>2. /\ probed[v].state = "absent" /\ probed[v].probe = None
        /\ v \notin pinned /\ pinned' = pinned
    BY DEF Verification!CreateVersion, ProbesInv
  <1>3. v \in Versions \ Own(p) /\ Own(p) \in SUBSET Versions
    BY <1>2, ProbeTypes DEF Own
  <1>4. /\ Cardinality(Own(p)) = probe[p].latest
        /\ Cardinality(Own(p) \cup {v}) = number
        /\ Cardinality(Own(p) \cup {v}) <= Cardinality(Versions)
        /\ probe[p].latest \in Nat /\ Cardinality(Versions) \in Nat
    <2>1. Cardinality(Own(p)) = probe[p].latest /\ Cardinality(Own(p)) \in Nat
      BY <1>3, FiniteVersions DEF ProbesInv
    <2>2. /\ Cardinality(Own(p) \cup {v}) = Cardinality(Own(p)) + 1
          /\ Own(p) \cup {v} \in SUBSET Versions
      BY <1>3, FiniteVersions
    <2>3. Cardinality(Own(p) \cup {v}) <= Cardinality(Versions) /\ Cardinality(Versions) \in Nat
      BY <2>2, FiniteVersions
    <2> QED BY <2>1, <2>2, <2>3
  <1>5. number \in 0..Verification!Cardinality(Versions)
    BY <1>4, CountsVersions
  <1>6. PICK document : document = [probe[p] EXCEPT !.latest = number]
    OBVIOUS
  <1>7. document \in Verification!Probe
    BY <1>1, <1>5, <1>6 DEF Verification!Probe
  <1>8. document.latest = number /\ document.active = probe[p].active
    BY <1>1, <1>6 DEF Verification!Probe
  <1>9. PICK draft : draft = [state |-> "draft", probe |-> p, number |-> number]
    OBVIOUS
  <1>10. /\ draft \in Verification!Version /\ draft.probe = p
         /\ draft.number = number /\ draft.state = "draft"
    BY <1>5, <1>9 DEF Verification!Version
  <1>11. probe' = [probe EXCEPT ![p] = document] /\ probed' = [probed EXCEPT ![v] = draft]
    BY <1>6, <1>9, ProbeTypes DEF Verification!CreateVersion
  <1>12. /\ probe' \in [Probes -> Verification!Probe] /\ probe'[p] = document
         /\ \A q \in Probes \ {p} : probe'[q] = probe[q]
    BY <1>7, <1>11, ProbeTypes
  <1>13. /\ probed' \in [Versions -> Verification!Version] /\ probed'[v] = draft
         /\ \A w \in Versions \ {v} : probed'[w] = probed[w]
    BY <1>10, <1>11, ProbeTypes
  <1>14. Verification!TypeOK'
    BY <1>2, <1>12, <1>13, ProbeTypes DEF Verification!TypeOK
  <1>15. \A w \in Versions : probed'[w].state = "absent" => probed'[w].probe = None
    BY <1>10, <1>13 DEF ProbesInv
  <1>16. ASSUME NEW q \in Probes
         PROVE  /\ Cardinality(Own(q))' = probe'[q].latest
                /\ Active(q)' = {probe'[q].active} \ {None}
                /\ Numbers(q)' = 1..probe'[q].latest
    <2>1. /\ Cardinality(Own(q)) = probe[q].latest
          /\ Active(q) = {probe[q].active} \ {None}
          /\ Numbers(q) = 1..probe[q].latest
      BY DEF ProbesInv
    <2>2. CASE q = p
      <3>1. Own(p)' = Own(p) \cup {v}
        BY <1>2, <1>3, <1>10, <1>13 DEF Own
      <3>2. \A w \in Own(p) : w \in Versions \ {v}
        BY <1>3
      <3>3. Active(p)' = Active(p)
        BY <1>10, <1>13, <3>1, <3>2 DEF Active
      <3>4. Numbers(p)' = Numbers(p) \cup {number}
        BY <1>10, <1>13, <3>1, <3>2 DEF Numbers
      <3>5. (1..probe[p].latest) \cup {number} = 1..number
        BY <1>4
      <3>6. probe'[p].latest = number /\ probe'[p].active = probe[p].active
        BY <1>8, <1>12
      <3> QED BY <1>4, <2>1, <2>2, <3>1, <3>3, <3>4, <3>5, <3>6
    <2>3. CASE q # p
      <3>1. Own(q)' = Own(q)
        <4>1. v \notin Own(q) /\ v \notin Own(q)'
          BY <1>2, <1>10, <1>13, <2>3, ProbeTypes DEF Own
        <4> QED BY <1>2, <1>13, <4>1 DEF Own
      <3>2. \A w \in Own(q) : probed'[w] = probed[w]
        BY <1>2, <1>13, ProbeTypes DEF Own
      <3>3. Active(q)' = Active(q) /\ Numbers(q)' = Numbers(q)
        BY <3>1, <3>2 DEF Active, Numbers
      <3>4. probe'[q] = probe[q]
        BY <1>12, <2>3
      <3> QED BY <2>1, <3>1, <3>3, <3>4
    <2> QED BY <2>2, <2>3
  <1>17. \A w \in pinned' : probed'[w].state = "active"
    BY <1>2, <1>13, ProbeTypes DEF ProbesInv
  <1> QED BY <1>14, <1>15, <1>16, <1>17 DEF ProbesInv

\* The version that was active is one of the same probe.
LEMMA ProbeActivated ==
    ASSUME ProbesInv, NEW p \in Probes, NEW v \in Versions, Verification!Activate(p, v)
    PROVE  /\ ProbesInv'
           /\ \A w \in Versions :
                 probed[w].state = "superseded" => probed'[w].state = "superseded"
           /\ pinned' = pinned /\ \A w \in pinned : probed'[w] = probed[w]
  <1> DEFINE previous == probe[p].active
  <1>1. probe[p] \in Verification!Probe /\ \A w \in Versions : probed[w] \in Verification!Version
    BY ProbeTypes
  <1>0. pinned' = pinned /\ v \notin pinned
    BY DEF Verification!Activate, Verification!MayActivate, ProbesInv
  <1>2. /\ probed[v].state = "draft" /\ v \in Own(p)
        /\ probed' = [w \in Versions |->
               IF w = v THEN [probed[v] EXCEPT !.state = "active"]
               ELSE IF w = previous THEN [probed[w] EXCEPT !.state = "superseded"]
               ELSE probed[w]]
    BY <1>0 DEF Verification!Activate, Verification!MayActivate, Own
  <1>3. /\ probed' \in [Versions -> Verification!Version]
        /\ probed'[v].state = "active"
        /\ \A w \in Versions \ {v} : probed'[w].state =
              IF w = previous THEN "superseded" ELSE probed[w].state
        /\ \A w \in Versions : /\ probed'[w].probe = probed[w].probe
                               /\ probed'[w].number = probed[w].number
    BY <1>1, <1>2 DEF Verification!Version
  <1>4. previous \in Versions => previous \in Own(p) /\ probed[previous].state = "active"
    <2>1. Active(p) = {previous} \ {None}
      BY DEF ProbesInv
    <2> QED BY <2>1, ProbeTypes DEF Active
  <1>5. PICK document : document = [probe[p] EXCEPT !.active = v]
    OBVIOUS
  <1>6. document \in Verification!Probe
    BY <1>1, <1>5 DEF Verification!Probe
  <1>7. document.active = v /\ document.latest = probe[p].latest
    BY <1>1, <1>5 DEF Verification!Probe
  <1>8. probe' = [probe EXCEPT ![p] = document]
    BY <1>5, ProbeTypes DEF Verification!Activate
  <1>9. /\ probe' \in [Probes -> Verification!Probe] /\ probe'[p] = document
        /\ \A q \in Probes \ {p} : probe'[q] = probe[q]
    BY <1>6, <1>8, ProbeTypes
  <1>10. Verification!TypeOK'
    BY <1>0, <1>3, <1>9, ProbeTypes DEF Verification!TypeOK
  <1>11. \A q \in Probes : Own(q)' = Own(q) /\ Numbers(q)' = Numbers(q)
    <2>1. \A q \in Probes : Own(q)' = Own(q)
      BY <1>0, <1>3 DEF Own
    <2> QED BY <1>3, <2>1 DEF Own, Numbers
  <1>12. \A w \in Versions : probed'[w].state = "absent" => probed'[w].probe = None
    BY <1>3 DEF ProbesInv
  <1>13. ASSUME NEW q \in Probes
         PROVE  /\ Active(q)' = {probe'[q].active} \ {None}
                /\ probe'[q].latest = probe[q].latest
    <2>1. Active(q) = {probe[q].active} \ {None}
      BY DEF ProbesInv
    <2>2. CASE q = p
      <3>1. Active(p)' = {v}
        BY <1>2, <1>3, <1>11, <2>1, <2>2 DEF Active, Own
      <3> QED BY <1>7, <1>9, <2>2, <3>1, ProbeTypes
    <2>3. CASE q # p
      <3>1. v \notin Own(q) /\ previous \notin Own(q)
        BY <1>2, <1>4, <2>3 DEF Own
      <3>2. Active(q)' = Active(q)
        BY <1>3, <1>11, <3>1 DEF Active, Own
      <3> QED BY <1>9, <2>1, <2>3, <3>2
    <2> QED BY <2>2, <2>3
  <1>14. \A w \in pinned : probed'[w] = probed[w]
    BY <1>0, <1>2, <1>4, ProbeTypes DEF Own
  <1>15. ProbesInv'
    <2>1. \A w \in pinned' : probed'[w].state = "active"
      BY <1>0, <1>14 DEF ProbesInv
    <2> QED BY <1>10, <1>11, <1>12, <1>13, <2>1 DEF ProbesInv
  <1> QED BY <1>0, <1>2, <1>3, <1>14, <1>15

\* An imported version is one of no document's.
LEMMA ProbeImported ==
    ASSUME ProbesInv, NEW p \in Probes, NEW v \in Versions, Verification!Import(p, v)
    PROVE  /\ ProbesInv'
           /\ v \notin pinned /\ pinned' = pinned \cup {v}
           /\ \A w \in Versions \ {v} : probed'[w] = probed[w]
  <1>1. /\ probed[v].state = "absent" /\ probed[v].probe = None /\ v \notin pinned
        /\ probe' = probe /\ pinned' = pinned \cup {v}
    BY DEF Verification!Import, ProbesInv
  <1>2. PICK new : new = [state |-> "active", probe |-> p, number |-> 1]
    OBVIOUS
  <1>3. 1 \in 0..Verification!Cardinality(Versions)
    <2>1. {v} \in SUBSET Versions
      OBVIOUS
    <2>2. /\ Cardinality({v}) <= Cardinality(Versions) /\ Cardinality(Versions) \in Nat
          /\ Cardinality({v}) = 1
      BY <2>1, FiniteVersions, FS_Singleton
    <2> QED BY <2>2, CountsVersions
  <1>4. new \in Verification!Version
    BY <1>2, <1>3 DEF Verification!Version
  <1>5. /\ probed' \in [Versions -> Verification!Version] /\ probed'[v] = new
        /\ \A w \in Versions \ {v} : probed'[w] = probed[w]
    BY <1>2, <1>4, ProbeTypes DEF Verification!Import
  <1>6. Verification!TypeOK'
    BY <1>1, <1>5, ProbeTypes DEF Verification!TypeOK
  <1>7. /\ \A w \in Versions : probed'[w].state = "absent" => probed'[w].probe = None
        /\ \A w \in pinned' : probed'[w].state = "active"
    BY <1>1, <1>2, <1>5, ProbeTypes DEF ProbesInv
  <1>8. ASSUME NEW q \in Probes
        PROVE  Own(q)' = Own(q) /\ Active(q)' = Active(q) /\ Numbers(q)' = Numbers(q)
    <2>1. Own(q)' = Own(q)
      BY <1>1, <1>5, ProbeTypes DEF Own
    <2>2. \A w \in Own(q) : probed'[w] = probed[w]
      BY <1>1, <1>5, ProbeTypes DEF Own
    <2> QED BY <2>1, <2>2 DEF Active, Numbers
  <1>9. ProbesInv'
    BY <1>1, <1>6, <1>7, <1>8 DEF ProbesInv
  <1> QED BY <1>1, <1>5, <1>9

LEMMA ProbesStep ==
    ASSUME ProbesInv, [Verification!Next]_probeVars
    PROVE  ProbesInv' /\ Verification!ActivatesOnce
  <1>1. ASSUME ProbesInv',
               \A w \in Versions :
                  probed[w].state = "superseded" => probed'[w].state = "superseded",
               \A w \in pinned : w \in pinned' /\ probed'[w] = probed[w]
        PROVE  Verification!ActivatesOnce
    <2>1. ASSUME NEW p \in Probes
          PROVE  /\ Own(p)' = {v \in Versions \ pinned' : probed'[v].probe = p}
                 /\ Active(p)' = {v \in Own(p)' : probed'[v].state = "active"}
                 /\ Numbers(p)' = {probed'[v].number : v \in Own(p)'}
      BY DEF Own, Active, Numbers
    <2>2. ASSUME NEW p \in Probes
          PROVE  /\ Active(p)' = {probe'[p].active} \ {None}
                 /\ Numbers(p)' = 1..probe'[p].latest
                 /\ Verification!Cardinality(Own(p)') = probe'[p].latest
      BY <1>1, CountsVersions DEF ProbesInv
    <2>3. /\ \A p \in Probes : Own(p)' \subseteq Versions
          /\ \A w \in pinned' : probed'[w].state = "active"
      BY <1>1, <2>1 DEF ProbesInv
    <2> QED BY <1>1, <2>1, <2>2, <2>3 DEF Verification!ActivatesOnce
  <1>2. CASE UNCHANGED probeVars
    <2>1. \A p : Own(p)' = Own(p) /\ Active(p)' = Active(p) /\ Numbers(p)' = Numbers(p)
      BY <1>2 DEF probeVars, Own, Active, Numbers
    <2>2. ProbesInv'
      BY <1>2, <2>1 DEF ProbesInv, Verification!TypeOK, probeVars
    <2> QED BY <1>1, <1>2, <2>2 DEF probeVars
  <1>3. ASSUME NEW p \in Probes, Verification!Create(p)
        PROVE  ProbesInv' /\ Verification!ActivatesOnce
    <2>1. probed' = probed /\ pinned' = pinned
      BY <1>3 DEF Verification!Create
    <2> QED BY <1>1, <1>3, <2>1, ProbeCreated
  <1>4. ASSUME NEW p \in Probes, NEW v \in Versions, Verification!CreateVersion(p, v)
        PROVE  ProbesInv' /\ Verification!ActivatesOnce
    <2>1. /\ \A w \in Versions \ {v} : probed'[w] = probed[w]
          /\ probed[v].state = "absent" /\ v \notin pinned /\ pinned' = pinned
      BY <1>4, ProbeTypes DEF Verification!CreateVersion, ProbesInv
    <2>2. \A w \in pinned : w \in Versions \ {v}
      BY <2>1, ProbeTypes
    <2> QED BY <1>1, <1>4, <2>1, <2>2, ProbeVersionCreated
  <1>5. ASSUME NEW p \in Probes, NEW v \in Versions, Verification!Activate(p, v)
        PROVE  ProbesInv' /\ Verification!ActivatesOnce
    BY <1>1, <1>5, ProbeActivated
  <1>6. ASSUME NEW p \in Probes, NEW v \in Versions, Verification!Import(p, v)
        PROVE  ProbesInv' /\ Verification!ActivatesOnce
    <2>1. /\ ProbesInv' /\ v \notin pinned /\ pinned' = pinned \cup {v}
          /\ \A w \in Versions \ {v} : probed'[w] = probed[w]
      BY <1>6, ProbeImported
    <2>2. probed[v].state = "absent" /\ \A w \in pinned : w \in Versions \ {v}
      BY <1>6, <2>1, ProbeTypes DEF Verification!Import
    <2> QED BY <1>1, <2>1, <2>2
  <1> QED BY <1>2, <1>3, <1>4, <1>5, <1>6, Zenon DEF Verification!Next

\* A playbook and a probe name the one active version created for them, a connection only
\* gets a version that was published, what was superseded stays so, and the probe versions
\* that an import pinned in controls stay as they are (modules Playbooks and Probes;
\* publish_version, attach, activate, import_credential), for any number of probes and of
\* concurrent calls.
THEOREM VersionsPublishedOnce == PartsSpec => PublishedOnce
  <1> DEFINE Inv == /\ part = "playbooks" => PlaybooksInv
                    /\ part = "probes" => ProbesInv
  <1>1. PartsInit => Inv
    BY PlaybooksStart, ProbesStart DEF PartsInit
  <1>2. Inv /\ [PartsNext]_<<part, OrganisationVars, BrowserVars>> => Inv'
    BY EachPart, PlaybooksStep, ProbesStep
  <1>3. Inv /\ [PartsNext]_<<part, OrganisationVars, BrowserVars>>
           => [/\ part = "playbooks" => Procedures!PublishesOnce
               /\ part = "probes" => Verification!ActivatesOnce]_<<playbookVars, probeVars>>
    BY EachPart, PlaybooksStep, PlaybooksPublishOnce, ProbesStep
  <1> QED BY <1>1, <1>2, <1>3, PTL DEF PartsSpec, PublishedOnce

-----------------------------------------------------------------------------
(***************************************************************************)
(* All parts                                                               *)
(***************************************************************************)

PartsInv ==
    /\ part = "generations" => IInv
    /\ part = "inventory" => InventoryInv
    /\ part = "github" => GitHubInv
    /\ part = "cloud" => CloudInv
    /\ part = "playbooks" => PlaybooksInv
    /\ part = "probes" => ProbesInv
    /\ part = "accounts" => AccountsInv
    /\ part = "session" => SessionInv
    /\ part = "setup" => SetupInv
    /\ part = "waiting" => WaitingInv
    /\ part = "egress" => EgressInv

LEMMA PartsStart ==
    ASSUME PartsInit
    PROVE  PartsInv
  <1>1. /\ part = "inventory" => Inventory!Init
        /\ part = "github" => GitHub!Init
        /\ part = "cloud" => Cloud!Init
        /\ part = "playbooks" => Procedures!Init
        /\ part = "probes" => Verification!Init
        /\ part = "accounts" => Accounts!Init
        /\ part = "session" => Session!Init
        /\ part = "setup" => Setup!Init
        /\ part = "waiting" => Waiting!Init
        /\ part = "egress" => Egress!Init
    BY DEF PartsInit
  <1>2. Init
    BY DEF PartsInit
  <1> QED
    BY <1>1, <1>2, InitSound, InventoryStart, GitHubStart, CloudStart, PlaybooksStart,
       ProbesStart, AccountsStart, SessionStart, SetupStart, WaitingStart, EgressStart
    DEF PartsInv

LEMMA PartsStep ==
    ASSUME PartsInv, [PartsNext]_<<part, OrganisationVars, BrowserVars>>
    PROVE  PartsInv'
  <1>1. /\ part = "generations" => IInv'
        /\ part = "inventory" => InventoryInv'
        /\ part = "github" => GitHubInv'
        /\ part = "cloud" => CloudInv'
    BY EachPart, NextSound, InventoryStep, GitHubStep, CloudStep DEF PartsInv
  <1>2. /\ part = "playbooks" => PlaybooksInv'
        /\ part = "probes" => ProbesInv'
        /\ part = "accounts" => AccountsInv'
        /\ part = "session" => SessionInv'
    BY EachPart, PlaybooksStep, ProbesStep, AccountsStep, SessionStep DEF PartsInv
  <1>3. /\ part = "setup" => SetupInv'
        /\ part = "waiting" => WaitingInv'
        /\ part = "egress" => EgressInv'
    BY EachPart, SetupStep, WaitingStep, EgressStep DEF PartsInv
  <1> QED BY <1>1, <1>2, <1>3, EachPart DEF PartsInv

\* The documents of every part stay of their declared types, whatever its callers do, and
\* a revision, fencing token or number within its bound.
THEOREM PartsTyped == PartsSpec => []TypesOK
  <1>1. PartsInit => PartsInv
    BY PartsStart
  <1>2. PartsInv /\ [PartsNext]_<<part, OrganisationVars, BrowserVars>> => PartsInv'
    BY PartsStep
  <1>3. PartsInv => TypesOK
    BY DEF PartsInv, TypesOK, IInv, InventoryInv, GitHubInv, CloudInv, PlaybooksInv, ProbesInv,
           AccountsInv, SessionInv, SetupInv, WaitingInv, EgressInv
  <1> QED BY <1>1, <1>2, <1>3, PTL DEF PartsSpec
=============================================================================
