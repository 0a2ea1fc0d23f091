------------------------------ MODULE A2ATask ------------------------------
(***************************************************************************)
(* tasks/send of the A2A gateway: handleTaskSend of                        *)
(* internal/gateway/a2a/handler.go over the rows of                        *)
(* internal/repository/a2a_task.go.                                        *)
(*                                                                         *)
(* Each send is served by a run: insert the task or find it, start it,     *)
(* call the API for its skill, settle it.  Runs of one task id may be on   *)
(* different replicas.  Up to the call everything is done in the caller's  *)
(* name: when the caller leaves, the statement at hand fails.  One that     *)
(* fails, for that or for a lost connection, may have been carried out.    *)
(*                                                                         *)
(* Skills differ in the call they make and are one here; so are the two    *)
(* calls of create_post, of which the first only reads.  A task is a pair  *)
(* of participant and task id, so nobody else's.  tasks/get only reads.    *)
(***************************************************************************)
EXTENDS Integers

CONSTANTS
    Tasks,
    Requests,   \* skill and input, as stored
    Nothing,
    MaxSends,   \* bound: tasks/send requests
    MaxFaults   \* bound: failed statements and crashes, but not callers that leave

ASSUME NothingAssumption == Nothing \notin Tasks \cup Requests
ASSUME BoundAssumption == MaxSends \in Nat /\ MaxFaults \in Nat

Sends == 1 .. MaxSends

VARIABLES
    row,         \* a2a_tasks
    run,         \* where the handler of each send is
    call,        \* its call of the API, which outlives the handler's wait
    faults,
    performed,   \* history: sends whose call the API carried out, for each task
    interrupted  \* history: tasks whose own run a failed statement or a crash cut short

vars == <<row, run, call, faults, performed, interrupted>>

Terminal == {"completed", "failed"}

Rows == [state : {"absent", "submitted", "working"} \cup Terminal,
         request : Requests \cup {Nothing}]

Serving == {"start", "skill", "complete", "fail"}

Runs == [pc : {"unused", "create", "find", "ended", "abandoned"} \cup Serving,
         task : Tasks \cup {Nothing}, request : Requests \cup {Nothing}]

TypeOK ==
    /\ row \in [Tasks -> Rows]
    /\ run \in [Sends -> Runs]
    /\ \A n \in Sends : run[n].pc # "unused" =>
         run[n].task \in Tasks /\ run[n].request \in Requests
    /\ call \in [Sends -> {"none", "sent", "done", "refused"}]
    /\ faults \in 0 .. MaxFaults
    /\ performed \in [Tasks -> SUBSET Sends]
    /\ interrupted \subseteq Tasks

Init ==
    /\ row = [t \in Tasks |-> [state |-> "absent", request |-> Nothing]]
    /\ run = [n \in Sends |-> [pc |-> "unused", task |-> Nothing, request |-> Nothing]]
    /\ call = [n \in Sends |-> "none"]
    /\ faults = 0
    /\ performed = [t \in Tasks |-> {}]
    /\ interrupted = {}

-----------------------------------------------------------------------------

Goto(n, pc) == run' = [run EXCEPT ![n].pc = pc]

\* INSERT ... ON CONFLICT DO NOTHING: the row it leaves.
Created(t, r) ==
    IF row[t].state = "absent"
      THEN [row EXCEPT ![t] = [state |-> "submitted", request |-> r]]
      ELSE row

\* UPDATE ... WHERE state = from: the row it leaves.
Moved(t, from, to) ==
    IF row[t].state = from THEN [row EXCEPT ![t].state = to] ELSE row

Send(n, t, r) ==
    /\ run[n].pc = "unused" /\ \A k \in 1 .. n - 1 : run[k].pc # "unused"
    /\ run' = [run EXCEPT ![n] = [pc |-> "create", task |-> t, request |-> r]]
    /\ UNCHANGED <<row, call, faults, performed, interrupted>>

\* Mutant: a resend goes on as if it had inserted the task.
CreateTask_Resend(n) ==
    /\ run[n].pc = "create"
    /\ row' = Created(run[n].task, run[n].request)
    /\ Goto(n, "start")
    /\ UNCHANGED <<call, faults, performed, interrupted>>

CreateTask(n) ==
    LET t == run[n].task IN
    /\ run[n].pc = "create"
    /\ row' = Created(t, run[n].request)
    /\ Goto(n, IF row[t].state = "absent" THEN "start" ELSE "find")
    /\ UNCHANGED <<call, faults, performed, interrupted>>

\* A resend is answered with the task as it is.
FindTask(n) ==
    /\ run[n].pc = "find"
    /\ Goto(n, "ended")
    /\ UNCHANGED <<row, call, faults, performed, interrupted>>

StartTask(n) ==
    LET t == run[n].task IN
    /\ run[n].pc = "start"
    /\ row' = Moved(t, "submitted", "working")
    /\ Goto(n, IF row[t].state = "submitted" THEN "skill" ELSE "ended")
    /\ UNCHANGED <<call, faults, performed, interrupted>>

\* An input the skill does not accept, or of a caller who has left, never reaches
\* the API.
RejectInput(n) ==
    /\ run[n].pc = "skill" /\ call[n] = "none"
    /\ Goto(n, "fail")
    /\ UNCHANGED <<row, call, faults, performed, interrupted>>

CallAPI(n) ==
    /\ run[n].pc = "skill" /\ call[n] = "none"
    /\ call' = [call EXCEPT ![n] = "sent"]
    /\ UNCHANGED <<row, run, faults, performed, interrupted>>

\* The API, at any time after the call, whether or not anybody still waits.
Perform(n) ==
    /\ call[n] = "sent"
    /\ call' = [call EXCEPT ![n] = "done"]
    /\ performed' = [performed EXCEPT ![run[n].task] = @ \cup {n}]
    /\ UNCHANGED <<row, run, faults, interrupted>>

Refuse(n) ==
    /\ call[n] = "sent"
    /\ call' = [call EXCEPT ![n] = "refused"]
    /\ UNCHANGED <<row, run, faults, performed, interrupted>>

Answered(n) ==
    /\ run[n].pc = "skill" /\ call[n] \in {"done", "refused"}
    /\ Goto(n, IF call[n] = "done" THEN "complete" ELSE "fail")
    /\ UNCHANGED <<row, call, faults, performed, interrupted>>

\* Mutant: the failure is written under the caller's canceled context.
GiveUp_Canceled(n) ==
    /\ run[n].pc = "skill" /\ call[n] # "none"
    /\ Goto(n, "ended")
    /\ UNCHANGED <<row, call, faults, performed, interrupted>>

\* Mutant: the client has no time-out.
GiveUp_Never(n) == call[n] = "late" /\ Goto(n, "fail") /\ UNCHANGED <<row, call, faults, performed, interrupted>>

\* The client's time-out, a lost answer, or the caller gone: the task fails,
\* whatever the API has done or will do.
GiveUp(n) ==
    /\ run[n].pc = "skill" /\ call[n] # "none"
    /\ Goto(n, "fail")
    /\ UNCHANGED <<row, call, faults, performed, interrupted>>

\* Written under a context of its own, which the caller cannot cancel.
SettleTask(n) ==
    /\ run[n].pc \in {"complete", "fail"}
    /\ row' = Moved(run[n].task, "working",
                    IF run[n].pc = "complete" THEN "completed" ELSE "failed")
    /\ Goto(n, "ended")
    /\ UNCHANGED <<call, faults, performed, interrupted>>

\* What the statement a run is at would leave, had it been carried out.
Carried(n) ==
    LET t == run[n].task IN
    CASE run[n].pc = "create"   -> Created(t, run[n].request)
      [] run[n].pc = "start"    -> Moved(t, "submitted", "working")
      [] run[n].pc = "complete" -> Moved(t, "working", "completed")
      [] run[n].pc = "fail"     -> Moved(t, "working", "failed")
      [] OTHER                  -> row

\* The task is the run's own: it inserted it, or is about to have done so.
Owns(n) == run[n].pc \in Serving \/ (run[n].pc = "create" /\ row[run[n].task].state = "absent")

\* The run leaves a task of its own behind.
Strands(n) == Owns(n) /\ row'[run[n].task].state # "absent"

\* The caller leaves before the task is started: create, find and start are
\* under the request's context, and an error of theirs ends the run.
Leave(n) ==
    /\ run[n].pc \in {"create", "find", "start"}
    /\ row' \in {row, Carried(n)}
    /\ Goto(n, IF Strands(n) THEN "abandoned" ELSE "ended")
    /\ UNCHANGED <<call, faults, performed, interrupted>>

\* A statement reports an error, carried out or not, or the process dies.
\* Nobody takes the task up again.
Fault(n) ==
    /\ faults < MaxFaults
    /\ run[n].pc \notin {"unused", "ended", "abandoned"}
    /\ faults' = faults + 1
    /\ row' \in {row, Carried(n)}
    /\ interrupted' = IF Strands(n) THEN interrupted \cup {run[n].task} ELSE interrupted
    /\ Goto(n, "ended")
    /\ UNCHANGED <<call, performed>>

-----------------------------------------------------------------------------

Arrive == \E n \in Sends, t \in Tasks, r \in Requests : Send(n, t, r)

Handle(n) ==
    \/ CreateTask(n) \/ FindTask(n) \/ StartTask(n)
    \/ RejectInput(n) \/ CallAPI(n) \/ Answered(n) \/ GiveUp(n) \/ SettleTask(n)

Next ==
    \/ Arrive
    \/ \E n \in Sends : Handle(n) \/ Perform(n) \/ Refuse(n) \/ Leave(n) \/ Fault(n)

Spec == Init /\ [][Next]_vars

\* A handler goes on: statements answer or fail, and the client's time-out ends
\* the wait for the API.  The API itself need never answer.
FairSpec == Spec /\ \A n \in Sends : WF_vars(Handle(n))

-----------------------------------------------------------------------------
(* Properties. *)

\* Of all the sends with one id, one runs the skill, once and with the stored
\* request; "completed" means that it was carried out, and no task leaves its
\* terminal state, whatever is resent, timed out, carried out late or crashed.
Promise == INSTANCE TaskPromise WITH
    asked <- [t \in Tasks |-> row[t].request],
    performed <- [t \in Tasks |->
        IF performed[t] = {} THEN Nothing
        ELSE IF \E n \in performed[t] : performed[t] = {n} /\ run[n].request = row[t].request
             THEN row[t].request ELSE "twice"],
    verdict <- [t \in Tasks |-> IF row[t].state \in Terminal THEN row[t].state ELSE "none"]

PromiseKept == Promise!Spec

\* Nobody serves the task any more: its run was cut short by a failed statement
\* or a crash, or its caller left before it was started.
Stranded(t) ==
    t \in interrupted \/ \E n \in Sends : run[n].task = t /\ run[n].pc = "abandoned"

\* A task that has no verdict is being served by a run of its own or is stranded,
\* for ever: a resend only reads it.  Once the task is started neither the
\* caller's leaving nor a time-out nor a refusal strands it.
UnfinishedIsServed ==
    \A t \in Tasks : row[t].state \in {"submitted", "working"} =>
        Stranded(t) \/ \E n \in Sends : run[n].task = t /\ run[n].pc \in Serving

\* A task gets its verdict unless it is stranded, also when the API never answers.
Settles ==
    \A t \in Tasks :
        row[t].state = "submitted" ~> row[t].state \in Terminal \/ Stranded(t)

\* Does not hold: a canceled request still persists its failure (handler_test.go:636)
\* if its task was started.  The context of the verdict cannot be canceled, but that
\* of the insert and of the start can (handler.go:304 and 316).
LeavingStrandsNothing ==
    \A t \in Tasks : row[t].state \in {"submitted", "working"} =>
        t \in interrupted \/ \E n \in Sends : run[n].task = t /\ run[n].pc \in Serving

=============================================================================
