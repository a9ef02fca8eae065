------------------------------- MODULE Approvals -------------------------------
(***************************************************************************)
(* The approval repository: a protected action and the approval it waits   *)
(* for are created together, a person decides, and the holder of the       *)
(* one-time capability consumes the approval before the action may run.    *)
(*                                                                         *)
(* An action's id is made of its run, step, fencing token and parameters,  *)
(* so a document is named by its action. What else the action's digest     *)
(* covers is the evidence it was requested with.                           *)
(***************************************************************************)
CONSTANTS
    Action,     \* ids of protected actions
    Evidence    \* digests of what an approver was shown

VARIABLE approvals   \* action -> its approval

Decision == {"none", "pending", "approved", "rejected", "cancelled"}

Approval == [decision : Decision, evidence : Evidence, consumed : BOOLEAN,
             expired : BOOLEAN]

Requested(e) == [decision |-> "pending", evidence |-> e, consumed |-> FALSE,
                 expired |-> FALSE]

Stored(a) == approvals[a].decision # "none"

\* create: a repetition of the same approval is answered and changes nothing,
\* and a second approval of the action is refused.
Request(a, e) ==
    /\ ~Stored(a)
    /\ approvals' = [approvals EXCEPT ![a] = Requested(e)]

\* decide: once, and not after the approval expired, except to cancel it.
Decide(a, decision) ==
    /\ approvals[a].decision = "pending"
    /\ decision = "cancelled" \/ ~approvals[a].expired
    /\ approvals' = [approvals EXCEPT ![a].decision = decision]

\* consume: what is presented must be what was approved.
Consume(a, e) ==
    /\ approvals[a].decision = "approved"
    /\ ~approvals[a].consumed
    /\ ~approvals[a].expired
    /\ approvals[a].evidence = e
    /\ approvals' = [approvals EXCEPT ![a].consumed = TRUE]

Expire(a) ==
    /\ Stored(a) /\ ~approvals[a].expired
    /\ approvals' = [approvals EXCEPT ![a].expired = TRUE]

=============================================================================
