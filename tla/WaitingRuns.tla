------------------------------ MODULE WaitingRuns ------------------------------
(***************************************************************************)
(* Runs that wait for a connection. A run whose browser lands on the       *)
(* provider's login page is recorded in the connection's waiter by its     *)
(* coordinator and then paused by the workflow; whoever completes the      *)
(* secure browser setup of the connection (module BrowserSetup), or        *)
(* repeats the completion, resumes the recorded runs that are paused and   *)
(* takes those it resumed out of the waiter.                               *)
(*                                                                         *)
(* The waiter is read, the runs are resumed one by one, and the waiter is  *)
(* replaced, while other runs are recorded and other completions resume.   *)
(***************************************************************************)
EXTENDS Naturals, FiniteSets

CONSTANTS
    Runs,
    Completions,   \* calls of complete
    MaxPauses      \* bound: times one run is sent to the login page

VARIABLES
    run,          \* run -> [status, revision]
    used,         \* runs whose resume command is spent: there is one per run
    waiter,       \* [runs, revision]: the waiter document
    coordinator,  \* run -> what _remember_waiting_run has read
    completion    \* complete -> what _resume_waiting has read and done

vars == <<run, used, waiter, coordinator, completion>>

-----------------------------------------------------------------------------
Run == [status : {"running", "blocked", "paused"}, pauses : 0..MaxPauses]
Coordinator == [at : {"idle", "read", "done"}, revision : Nat]
Completion == [at : {"idle", "resuming"}, revision : Nat,
               runs : SUBSET Runs, left : SUBSET Runs, resumed : SUBSET Runs]
Away == [at |-> "idle", revision |-> 0]
NoCompletion == [at |-> "idle", revision |-> 0, runs |-> {}, left |-> {}, resumed |-> {}]

Init ==
    /\ run = [r \in Runs |-> [status |-> "running", pauses |-> 0]]
    /\ used = {}
    /\ waiter = [runs |-> {}, revision |-> 0]
    /\ coordinator = [r \in Runs |-> Away]
    /\ completion = [c \in Completions |-> NoCompletion]

-----------------------------------------------------------------------------
(***************************************************************************)
(* The coordinator                                                         *)
(***************************************************************************)

\* The stage pauses with authentication_required.
LandOnLogin(r) ==
    /\ run[r].status = "running" /\ run[r].pauses < MaxPauses
    /\ run' = [run EXCEPT ![r] = [status |-> "blocked", pauses |-> @.pauses + 1]]
    /\ UNCHANGED <<used, waiter, coordinator, completion>>

\* _remember_waiting_run reads the waiter; a run that is in it is not added.
ReadWaiter(r) ==
    /\ run[r].status = "blocked" /\ coordinator[r].at = "idle"
    /\ coordinator' = [coordinator EXCEPT ![r] =
           [at |-> IF r \in waiter.runs THEN "done" ELSE "read", revision |-> waiter.revision]]
    /\ UNCHANGED <<run, used, waiter, completion>>

\* It creates or replaces the waiter; after a conflict it reads again.
Remember(r) ==
    /\ coordinator[r].at = "read"
    /\ IF waiter.revision = coordinator[r].revision
       THEN /\ waiter' = [runs |-> waiter.runs \cup {r}, revision |-> waiter.revision + 1]
            /\ coordinator' = [coordinator EXCEPT ![r].at = "done"]
       ELSE /\ coordinator' = [coordinator EXCEPT ![r] = Away]
            /\ UNCHANGED waiter
    /\ UNCHANGED <<run, used, completion>>

\* The record is best-effort: after three conflicts or a failure the run pauses
\* all the same.
Pause(r) ==
    /\ run[r].status = "blocked"
    /\ run' = [run EXCEPT ![r].status = "paused"]
    /\ coordinator' = [coordinator EXCEPT ![r] = Away]
    /\ UNCHANGED <<used, waiter, completion>>

\* An operator resumes the run by a command of its own.
ResumeByHand(r) ==
    /\ run[r].status = "paused"
    /\ run' = [run EXCEPT ![r].status = "running"]
    /\ UNCHANGED <<used, waiter, coordinator, completion>>

-----------------------------------------------------------------------------
(***************************************************************************)
(* _resume_waiting and WorkflowRunResumer                                  *)
(***************************************************************************)

Complete(c) ==
    /\ completion[c].at = "idle"
    /\ waiter.runs # {}
    /\ completion' = [completion EXCEPT ![c] =
           [at |-> "resuming", revision |-> waiter.revision, runs |-> waiter.runs,
            left |-> waiter.runs, resumed |-> {}]]
    /\ UNCHANGED <<run, used, waiter, coordinator>>

\* A run that is not paused is passed over, and so is one whose only resume
\* command was spent on an earlier pause or by another completion.
Resume(c, r) ==
    /\ completion[c].at = "resuming" /\ r \in completion[c].left
    /\ IF run[r].status = "paused" /\ r \notin used
       THEN /\ run' = [run EXCEPT ![r].status = "running"]
            /\ used' = used \cup {r}
            /\ completion' = [completion EXCEPT ![c].left = @ \ {r}, ![c].resumed = @ \cup {r}]
       ELSE /\ completion' = [completion EXCEPT ![c].left = @ \ {r}]
            /\ UNCHANGED <<run, used>>
    /\ UNCHANGED <<waiter, coordinator>>

\* A failing resume or a crash: the waiter stays as it is.
Interrupted(c) ==
    /\ completion[c].at = "resuming"
    /\ completion' = [completion EXCEPT ![c] = NoCompletion]
    /\ UNCHANGED <<run, used, waiter, coordinator>>

\* Mutant of Unchanged: what remains is written over whatever the waiter holds.
Unchanged_ignored(c) == TRUE

\* The waiter is as it was read.
Unchanged(c) == waiter.revision = completion[c].revision

\* What was not resumed remains; a conflict fails the call.
ReplaceWaiter(c) ==
    /\ completion[c].at = "resuming" /\ completion[c].left = {}
    /\ IF completion[c].resumed # {} /\ Unchanged(c)
       THEN waiter' = [runs |-> completion[c].runs \ completion[c].resumed,
                       revision |-> waiter.revision + 1]
       ELSE UNCHANGED waiter
    /\ completion' = [completion EXCEPT ![c] = NoCompletion]
    /\ UNCHANGED <<run, used, coordinator>>

Next ==
    \/ \E r \in Runs :
          LandOnLogin(r) \/ ReadWaiter(r) \/ Remember(r) \/ Pause(r) \/ ResumeByHand(r)
    \/ \E c \in Completions :
          \/ Complete(c) \/ Interrupted(c) \/ ReplaceWaiter(c)
          \/ \E r \in Runs : Resume(c, r)

Spec == Init /\ [][Next]_vars

-----------------------------------------------------------------------------
TypeOK ==
    /\ run \in [Runs -> Run]
    /\ used \subseteq Runs
    /\ waiter \in [runs : SUBSET Runs, revision : Nat]
    /\ coordinator \in [Runs -> Coordinator]
    /\ completion \in [Completions -> Completion]

ForgetsNobody ==
    waiter.runs \ waiter'.runs \subseteq used

\* A recorded run is not forgotten: it leaves the waiter only after the setup's
\* resume of it was accepted, whatever other runs are recorded and other
\* completions are resumed or interrupted meanwhile.
WaiterNeverForgets == [][ForgetsNobody]_vars
=============================================================================
