----------------------------- MODULE BrowserSession -----------------------------
(***************************************************************************)
(* The isolated browser of a run: its session document (BrowserService),   *)
(* the coordinator's executions that provision it and send it the steps of *)
(* the playbook (BrowserStepExecutor), the worker that authorises each     *)
(* action and captures the disclosed secret, and the operator who takes    *)
(* the browser over.                                                       *)
(*                                                                         *)
(* Every change of the session compares the revision its caller has read   *)
(* and advances it; "holders" are the callers whose copy is of the present *)
(* revision. An execution goes on after its run was paused and resumed     *)
(* under a new fencing token. The model and the recorder are paused in     *)
(* every status but RUNNING. Virtual machines and pages are external.      *)
(***************************************************************************)
EXTENDS Naturals

CONSTANTS
    Executions,   \* executions of the run's stages
    Operators,
    None,
    MaxFence      \* bound: fencing tokens of the run

VARIABLES
    run,        \* [status, fence]
    session,    \* the session document
    vm,         \* the machine of the session's name is there
    holders,    \* calls whose copy is of the present revision
    agent,      \* execution -> [at, fence, protected, deserted]
    operator    \* operator -> position of the connection to the worker

vars == <<run, session, vm, holders, agent, operator>>

-----------------------------------------------------------------------------
Live == {"provisioning", "ready", "running", "paused", "takeover", "capturing"}

\* "worker" is worker_instance; "captor" remembers who armed the capture.
Session ==
    [status : Live \cup {"absent", "terminated"}, fence : 0..MaxFence,
     subject : Operators \cup {None}, worker : BOOLEAN, expired : BOOLEAN,
     captor : Executions \cup Operators \cup {None}]

\* Where the coordinator stands, and then the worker that it has called. A worker
\* goes on "deserted" when the coordinator no longer waits for it.
Coordinating == {"reading", "discarding", "deleting", "provisioning", "creating",
                 "undoing", "attaching", "rebinding", "starting", "posting", "broken"}
Working == {"acting", "executing", "freezing", "arming", "armed", "capturing", "completing"}
Agent == [at : {"idle"} \cup Coordinating \cup Working, fence : 0..MaxFence,
          protected : BOOLEAN, deserted : BOOLEAN]
Away == [at |-> "idle", fence |-> 0, protected |-> FALSE, deserted |-> FALSE]

At(e, position) == agent[e].at = position
Goto(e, position) == agent' = [agent EXCEPT ![e].at = position]

\* A write by c, whose copy is then the only one of the present revision.
Write(c, document) ==
    /\ session' = [document EXCEPT !.captor = IF document.status = "capturing" THEN @ ELSE None]
    /\ holders' = {c}

\* A write of which the writer keeps no copy.
Put(document) ==
    /\ session' = [document EXCEPT !.captor = IF document.status = "capturing" THEN @ ELSE None]
    /\ holders' = {}

\* c has no use for its copy any more.
Drop(c) ==
    /\ holders' = holders \ {c}
    /\ UNCHANGED session

\* Without the machine there is no worker, and no connection to it: a coordinator
\* that waits for its answer gets none.
Halted(a) ==
    IF a.at \notin Working THEN a
    ELSE IF a.deserted THEN Away
    ELSE [a EXCEPT !.at = "broken"]

\* A step of e that leaves the machine there or not, and e at a.
Machine(there, e, a) ==
    /\ vm' = there
    /\ operator' = IF there THEN operator ELSE [o \in Operators |-> "away"]
    /\ agent' = [x \in Executions |->
                    IF x = e THEN a ELSE IF there THEN agent[x] ELSE Halted(agent[x])]

\* Mutant of Unmoved: the revision is not compared.
Unmoved_ignored(c) == ~session.expired

\* _current, and the comparison in the transaction.
Unmoved(c) == c \in holders /\ ~session.expired

Init ==
    /\ run = [status |-> "running", fence |-> 1]
    /\ session = [status |-> "absent", fence |-> 0, subject |-> None, worker |-> FALSE,
                  expired |-> FALSE, captor |-> None]
    /\ vm = FALSE
    /\ holders = {}
    /\ agent = [e \in Executions |-> Away]
    /\ operator = [o \in Operators |-> "away"]

-----------------------------------------------------------------------------
(***************************************************************************)
(* The end of an execution                                                 *)
(***************************************************************************)

\* The workflow pauses or ends the run, unless it has gone on meanwhile.
EndCall(e, status) ==
    run' = IF agent[e].fence = run.fence /\ run.status = "running" /\ ~agent[e].deserted
           THEN [run EXCEPT !.status = status] ELSE run

Leave(e) == agent' = [agent EXCEPT ![e] = Away]

\* terminate ends the session and deletes its machine, and e goes to a. It is refused
\* for a session that has expired or that changes under it, and the machine stays.
Terminate(e, a) ==
    \/ /\ session.status \in Live => ~session.expired
       /\ Put([session EXCEPT !.status = IF @ \in Live THEN "terminated" ELSE @])
       /\ Machine(vm /\ ~session.worker, e, a)
    \/ /\ Drop(e)
       /\ Machine(vm, e, a)

\* Whatever raises ends the stage as FAILED, and the browser with it.
Fail(e) ==
    /\ IF agent[e].deserted
       THEN Leave(e) /\ Drop(e) /\ UNCHANGED <<vm, operator>>
       ELSE Terminate(e, Away)
    /\ EndCall(e, "failed")

\* Any call may fail. A worker that its coordinator no longer waits for goes on, if
\* the machine could not be deleted.
Breaks(e) ==
    /\ ~At(e, "idle")
    /\ \/ Fail(e)
       \/ /\ agent[e].at \in Working /\ ~agent[e].deserted
          /\ EndCall(e, "failed")
          /\ agent' = [agent EXCEPT ![e].deserted = TRUE]
          /\ UNCHANGED <<session, holders, vm, operator>>

\* The coordinator dies; a worker goes on.
Crash(e) ==
    /\ ~At(e, "idle") /\ ~agent[e].deserted
    /\ \/ /\ agent[e].at \in Working
          /\ agent' = [agent EXCEPT ![e].deserted = TRUE]
          /\ UNCHANGED <<session, holders>>
       \/ /\ agent[e].at \notin Working
          /\ Leave(e)
          /\ Drop(e)
    /\ UNCHANGED <<run, vm, operator>>

-----------------------------------------------------------------------------
(***************************************************************************)
(* _session: the browser that the execution's next step runs in            *)
(***************************************************************************)

Begin(e) ==
    /\ At(e, "idle") /\ run.status = "running"
    /\ agent' = [agent EXCEPT ![e] = [Away EXCEPT !.at = "reading", !.fence = run.fence]]
    /\ UNCHANGED <<run, session, vm, holders, operator>>

\* Its stage is done, or all of its steps but one that waits for an approval: then
\* pause_for_approval freezes a running browser.
EndStage(e) ==
    /\ At(e, "reading")
    /\ \/ Drop(e) /\ UNCHANGED run
       \/ /\ EndCall(e, "paused")
          /\ IF session.status = "running"
             THEN ~session.expired /\ Put([session EXCEPT !.status = "paused"])
             ELSE Drop(e)
    /\ Leave(e)
    /\ UNCHANGED <<vm, operator>>

\* Expired, without a machine, or with one that is gone.
Dead == session.expired \/ ~session.worker \/ ~vm

\* What is left to do with a session that is there.
Prepared(e) ==
    IF session.fence # agent[e].fence THEN "rebinding"
    ELSE IF session.status \in {"ready", "paused"} THEN "starting"
    ELSE "posting"

ReadSession(e) ==
    /\ At(e, "reading")
    /\ holders' = holders \cup {e}
    /\ Goto(e, IF session.status \notin Live THEN "provisioning"
               ELSE IF Dead THEN "discarding"
               ELSE Prepared(e))
    /\ UNCHANGED <<run, session, vm, operator>>

Discard(e) ==
    /\ At(e, "discarding")
    /\ IF Unmoved(e)
       THEN /\ Write(e, [session EXCEPT !.status = "terminated"])
            /\ Goto(e, IF session.worker THEN "deleting" ELSE "provisioning")
            /\ UNCHANGED <<run, vm, operator>>
       ELSE Fail(e)

\* The machine is deleted by its name.
DeleteMachine(e) ==
    /\ At(e, "deleting")
    /\ Machine(FALSE, e, [agent[e] EXCEPT !.at = "provisioning"])
    /\ UNCHANGED <<run, session, holders>>

\* create and reprovision, under the token the execution began with.
Provision(e) ==
    /\ At(e, "provisioning")
    /\ IF e \in holders
       THEN /\ Write(e, [session EXCEPT !.status = "provisioning", !.fence = agent[e].fence,
                             !.subject = None, !.worker = FALSE, !.expired = FALSE])
            /\ Goto(e, "creating")
            /\ UNCHANGED <<run, vm, operator>>
       ELSE Fail(e)

\* "connection still needs login": the browser is terminated, the stage paused.
NeedsLogin(e) ==
    /\ At(e, "provisioning")
    /\ Terminate(e, Away)
    /\ EndCall(e, "paused")

CreateMachine(e) ==
    /\ At(e, "creating")
    /\ \/ ~vm /\ Machine(TRUE, e, [agent[e] EXCEPT !.at = "attaching"])
       \/ Goto(e, "undoing") /\ UNCHANGED <<vm, operator>>
    /\ UNCHANGED <<run, session, holders>>

\* When the machine does not come up, or one of its name is there, whichever is there
\* is deleted.
UndoCreate(e) ==
    /\ At(e, "undoing")
    /\ Machine(FALSE, e, [agent[e] EXCEPT !.at = "broken"])
    /\ UNCHANGED <<run, session, holders>>

Attach(e) ==
    /\ At(e, "attaching")
    /\ IF Unmoved(e) /\ session.status = "provisioning"
       THEN /\ Write(e, [session EXCEPT !.status = "ready", !.worker = TRUE])
            /\ Goto(e, "starting")
            /\ UNCHANGED <<run, vm, operator>>
       ELSE Fail(e)

\* rebind_fence: only an inactive browser, and only a later token.
Rebind(e) ==
    /\ At(e, "rebinding")
    /\ IF /\ Unmoved(e) /\ session.status \in {"ready", "paused"}
          /\ agent[e].fence > session.fence
       THEN /\ Write(e, [session EXCEPT !.fence = agent[e].fence])
            /\ Goto(e, "starting")
            /\ UNCHANGED <<run, vm, operator>>
       ELSE Fail(e)

Start(e) ==
    /\ At(e, "starting")
    /\ IF Unmoved(e) /\ session.status \in {"ready", "paused"}
       THEN /\ Put([session EXCEPT !.status = "running"])
            /\ Goto(e, "posting")
            /\ UNCHANGED <<run, vm, operator>>
       ELSE Fail(e)

-----------------------------------------------------------------------------
(***************************************************************************)
(* The worker, called for one step                                         *)
(***************************************************************************)

\* _authorise compares the capability with the session, not with the run.
Admitted(e) == vm /\ session.worker /\ agent[e].fence = session.fence

\* The worker reads the session and goes on with what the step is: an action, a
\* secure capture, or a proposal that nobody has confirmed.
Authorise(e) ==
    /\ At(e, "posting")
    /\ IF Admitted(e)
       THEN /\ holders' = holders \cup {e}
            /\ \E position \in {"acting", "arming", "freezing"}, protected \in BOOLEAN :
                  /\ protected => position = "acting"
                  /\ agent' = [agent EXCEPT ![e].at = position, ![e].protected = protected]
            /\ UNCHANGED <<run, session, vm, operator>>
       ELSE Fail(e)

\* authorize_action: in RUNNING, by whoever has taken over, and in a capture.
Accepting(protected) ==
    \/ session.status = "running"
    \/ session.status = "takeover" /\ ~protected
    \/ session.status = "capturing" /\ protected

AuthoriseAction(e) ==
    /\ At(e, "acting")
    /\ IF Unmoved(e) /\ Accepting(agent[e].protected)
       THEN /\ Write(e, session)
            /\ agent' = [agent EXCEPT ![e].at = "executing", ![e].protected = FALSE]
            /\ UNCHANGED <<run, vm, operator>>
       ELSE Fail(e)

\* A worker has done its part.
Answer(e) == IF agent[e].deserted THEN Leave(e) ELSE Goto(e, "reading")

Executed(e) ==
    /\ At(e, "executing")
    /\ Answer(e)
    /\ Drop(e)
    /\ UNCHANGED <<run, vm, operator>>

\* A control fails the stage, see Breaks; an action of the model freezes the session;
\* and a page that asks for a login ends the browser and pauses the stage.
ExecuteFails(e) ==
    /\ At(e, "executing")
    /\ \/ Goto(e, "freezing") /\ UNCHANGED <<run, session, vm, holders, operator>>
       \/ ~agent[e].deserted /\ Terminate(e, Away) /\ EndCall(e, "paused")

Freeze(e) ==
    /\ At(e, "freezing")
    /\ IF Unmoved(e)
       THEN /\ Put([session EXCEPT !.status = "paused"])
            /\ EndCall(e, "paused")
            /\ Leave(e)
            /\ UNCHANGED <<vm, operator>>
       ELSE Fail(e)

-----------------------------------------------------------------------------
(***************************************************************************)
(* Secure capture by the agent                                             *)
(***************************************************************************)

Arm(e) ==
    /\ At(e, "arming")
    /\ IF Unmoved(e) /\ session.status = "running"
       THEN /\ Write(e, [session EXCEPT !.status = "capturing", !.captor = e])
            /\ Goto(e, "armed")
            /\ UNCHANGED <<run, vm, operator>>
       ELSE Fail(e)

AuthoriseCapture(e) ==
    /\ At(e, "armed")
    /\ IF Unmoved(e) /\ Accepting(TRUE)
       THEN /\ Write(e, session)
            /\ Goto(e, "capturing")
            /\ UNCHANGED <<run, vm, operator>>
       ELSE Fail(e)

\* The control is clicked and the value stored and masked, or not.
Transfer(e) ==
    /\ At(e, "capturing")
    /\ Goto(e, "completing") \/ Goto(e, "freezing")
    /\ UNCHANGED <<run, session, vm, holders, operator>>

Resumed == IF session.subject # None THEN "takeover" ELSE "running"

\* Where the transition is refused, so is the freeze that follows.
CompleteCapture(e) ==
    /\ At(e, "completing")
    /\ IF Unmoved(e) /\ session.status = "capturing"
       THEN /\ Put([session EXCEPT !.status = Resumed])
            /\ Answer(e)
            /\ UNCHANGED <<run, vm, operator>>
       ELSE Fail(e)

-----------------------------------------------------------------------------
(***************************************************************************)
(* The operator                                                            *)
(***************************************************************************)

\* A grant of access, and the connection that it is for.
Takeover(o) ==
    /\ run.status # "failed" /\ ~session.expired
    /\ session.subject \in {None, o}
    /\ \/ /\ session.status \in {"running", "paused"}
          /\ Put([session EXCEPT !.status = "takeover", !.subject = o])
       \/ /\ session.status = "takeover"
          /\ UNCHANGED <<session, holders>>
    /\ operator' = [operator EXCEPT ![o] = IF vm THEN "connected" ELSE "away"]
    /\ operator[o] = "away"
    /\ UNCHANGED <<run, vm, agent>>

HumanAction(o) ==
    /\ operator[o] = "connected"
    /\ session.status = "takeover" /\ ~session.expired
    /\ Put(session)
    /\ UNCHANGED <<run, vm, agent, operator>>

\* The API releases the takeover; the connection may stay.
Release(o) ==
    /\ session.status = "takeover" /\ session.subject = o /\ ~session.expired
    /\ Put([session EXCEPT !.status = "paused", !.subject = None])
    /\ UNCHANGED <<run, vm, agent, operator>>

Disconnect(o) ==
    /\ operator[o] # "away"
    /\ operator' = [operator EXCEPT ![o] = "away"]
    /\ UNCHANGED <<run, session, vm, holders, agent>>

\* Secure input, over a connection whose takeover may have been released.
HumanArm(o) ==
    /\ operator[o] = "connected"
    /\ session.status \in {"takeover", "paused"} /\ ~session.expired
    /\ Write(o, [session EXCEPT !.status = "capturing", !.captor = o])
    /\ operator' = [operator EXCEPT ![o] = "capturing"]
    /\ UNCHANGED <<run, vm, agent>>

\* The value is stored, or the session freezes; where both transitions are refused the
\* connection ends.
HumanCompletes(o) ==
    /\ operator[o] = "capturing"
    /\ Unmoved(o) /\ session.status = "capturing"
    /\ Put([session EXCEPT !.status = Resumed])
    /\ operator' = [operator EXCEPT ![o] = "connected"]
    /\ UNCHANGED <<run, vm, agent>>

HumanFreezes(o) ==
    /\ operator[o] = "capturing"
    /\ Unmoved(o)
    /\ Put([session EXCEPT !.status = "paused"])
    /\ operator' = [operator EXCEPT ![o] = "connected"]
    /\ UNCHANGED <<run, vm, agent>>

-----------------------------------------------------------------------------
(***************************************************************************)
(* The run and time                                                        *)
(***************************************************************************)

PauseRun ==
    /\ run.status = "running"
    /\ run' = [run EXCEPT !.status = "paused"]
    /\ UNCHANGED <<session, vm, holders, agent, operator>>

\* Resumed, or recovered after a failure.
ResumeRun ==
    /\ run.status # "running" /\ run.fence < MaxFence
    /\ run' = [status |-> "running", fence |-> run.fence + 1]
    /\ UNCHANGED <<session, vm, holders, agent, operator>>

Expire ==
    /\ session.status \in Live /\ ~session.expired
    /\ session' = [session EXCEPT !.expired = TRUE]
    /\ UNCHANGED <<run, vm, holders, agent, operator>>

\* It stops by itself, at the end of its time too.
MachineGone ==
    /\ vm
    /\ Machine(FALSE, None, Away)
    /\ UNCHANGED <<run, session, holders>>

Next ==
    \/ \E e \in Executions :
          \/ Begin(e) \/ EndStage(e) \/ ReadSession(e) \/ Discard(e) \/ DeleteMachine(e)
          \/ Provision(e) \/ NeedsLogin(e) \/ CreateMachine(e) \/ UndoCreate(e) \/ Attach(e)
          \/ Rebind(e) \/ Start(e) \/ Authorise(e) \/ AuthoriseAction(e)
          \/ Executed(e) \/ ExecuteFails(e) \/ Freeze(e)
          \/ Arm(e) \/ AuthoriseCapture(e) \/ Transfer(e) \/ CompleteCapture(e)
          \/ Breaks(e) \/ Crash(e)
    \/ \E o \in Operators :
          \/ Takeover(o) \/ HumanAction(o) \/ Release(o) \/ Disconnect(o)
          \/ HumanArm(o) \/ HumanCompletes(o) \/ HumanFreezes(o)
    \/ PauseRun \/ ResumeRun \/ Expire \/ MachineGone

Spec == Init /\ [][Next]_vars

-----------------------------------------------------------------------------
\* The state is of the declared types; no worker and no connection outlives its machine.
TypeOK ==
    /\ run \in [status : {"running", "paused", "failed"}, fence : 1..MaxFence]
    /\ session \in Session
    /\ vm \in BOOLEAN
    /\ holders \subseteq Executions \cup Operators
    /\ agent \in [Executions -> Agent]
    /\ operator \in [Operators -> {"away", "connected", "capturing"}]
    /\ ~vm => /\ \A e \in Executions : agent[e].at \notin Working
              /\ \A o \in Operators : operator[o] = "away"

EndedByItsCaptor ==
    session.status = "capturing" /\ session'.status \in {"running", "takeover"} =>
       \/ session.captor \in Executions /\ At(session.captor, "completing")
       \/ session.captor \in Operators /\ operator[session.captor] = "capturing"

\* A capture ends the way it began: the session leaves CAPTURING for RUNNING or for
\* the operator only by the call that armed the barrier, whoever terminated,
\* expired, rebound, reprovisioned or armed the session meanwhile.
CaptureEndsByItsCaptor == [][EndedByItsCaptor]_vars

\* README.md: "Revisions, leases, and fencing tokens reject stale workers". An
\* action of the agent is authorised only under the token the run has by then.
StaleWorkersRejected ==
    [][\A e \in Executions :
          At(e, "acting") /\ agent'[e].at = "executing" => agent[e].fence = run.fence]_vars
=============================================================================
