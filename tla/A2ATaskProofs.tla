---------------------------- MODULE A2ATaskProofs ----------------------------
(***************************************************************************)
(* Theorems about A2ATask for every set of tasks and requests and any      *)
(* number of sends and faults.                                             *)
(***************************************************************************)
EXTENDS A2ATask, TLAPS

\* A run that has inserted its task and serves it, or whose call of the API
\* may still be carried out.
Engaged(n) == run[n].pc \in Serving \/ call[n] # "none"

\* A row has a request from its insert on.
RowsAgree == \A t \in Tasks : row[t].state = "absent" <=> row[t].request = Nothing

\* A run calls the API after it has started its task, and only the answer to
\* the call lets it complete the task.
CallsFollowStart ==
    \A n \in Sends :
        /\ call[n] # "none" => run[n].pc \in {"skill", "complete", "fail", "ended"}
        /\ run[n].pc = "complete" => call[n] = "done"

\* A task is where the run that serves it has brought it, with the request the
\* run was sent with.
OwnerKnowsTask ==
    \A n \in Sends :
        /\ Engaged(n) => /\ row[run[n].task].state # "absent"
                         /\ row[run[n].task].request = run[n].request
        /\ run[n].pc = "start" => row[run[n].task].state = "submitted"
        /\ run[n].pc \in {"skill", "complete", "fail"} => row[run[n].task].state = "working"

OneOwner ==
    \A m, n \in Sends : Engaged(m) /\ Engaged(n) /\ run[m].task = run[n].task => m = n

PerformedByCall ==
    \A t \in Tasks : performed[t] = {n \in Sends : run[n].task = t /\ call[n] = "done"}

CompletedWasPerformed == \A t \in Tasks : row[t].state = "completed" => performed[t] # {}

OwnerInv ==
    /\ TypeOK
    /\ RowsAgree
    /\ CallsFollowStart
    /\ OwnerKnowsTask
    /\ OneOwner
    /\ PerformedByCall
    /\ CompletedWasPerformed
    /\ UnfinishedIsServed

-----------------------------------------------------------------------------
(* Type correctness.                                                       *)

LEMMA RowsWritten ==
    ASSUME row \in [Tasks -> Rows], NEW t \in Tasks
    PROVE  /\ \A r \in Requests : Created(t, r) \in [Tasks -> Rows]
           /\ \A from, to \in {"submitted", "working"} \cup Terminal :
                Moved(t, from, to) \in [Tasks -> Rows]
<1>1. \A to \in {"submitted", "working"} \cup Terminal : [row[t] EXCEPT !.state = to] \in Rows
  BY DEF Rows
<1>2. \A to \in {"submitted", "working"} \cup Terminal :
        [row EXCEPT ![t].state = to] = [row EXCEPT ![t] = [row[t] EXCEPT !.state = to]]
  OBVIOUS
<1>3. \A r \in Requests : [state |-> "submitted", request |-> r] \in Rows
  BY DEF Rows
<1> QED BY <1>1, <1>2, <1>3 DEF Created, Moved

\* Run n has moved to pc, and no other run.
Stepped(n, pc) ==
    /\ \A m \in Sends : m # n => run'[m] = run[m]
    /\ run'[n].pc = pc /\ run'[n].task = run[n].task /\ run'[n].request = run[n].request

LEMMA RunStepped ==
    ASSUME TypeOK, NEW n \in Sends, NEW pc \in {"find", "ended", "abandoned"} \cup Serving, Goto(n, pc)
    PROVE  Stepped(n, pc)
<1>1. run[n] \in Runs /\ run' = [run EXCEPT ![n] = [run[n] EXCEPT !.pc = pc]]
  BY DEF TypeOK, Goto
<1>2. /\ [run[n] EXCEPT !.pc = pc].task = run[n].task
      /\ [run[n] EXCEPT !.pc = pc].request = run[n].request
      /\ [run[n] EXCEPT !.pc = pc].pc = pc
  BY <1>1 DEF Runs
<1> QED BY <1>1, <1>2 DEF TypeOK, Stepped

LEMMA RunMoved ==
    ASSUME TypeOK, NEW n \in Sends, run[n].pc # "unused",
           NEW pc \in {"find", "ended", "abandoned"} \cup Serving, Goto(n, pc)
    PROVE  /\ run' \in [Sends -> Runs]
           /\ \A m \in Sends : run'[m].pc # "unused" =>
                run'[m].task \in Tasks /\ run'[m].request \in Requests
<1>1. run[n] \in Runs /\ run[n].task \in Tasks /\ run[n].request \in Requests
  BY DEF TypeOK
<1>2. [run[n] EXCEPT !.pc = pc] \in Runs
  BY <1>1 DEF Runs
<1>3. run' = [run EXCEPT ![n] = [run[n] EXCEPT !.pc = pc]]
  BY DEF Goto
<1> QED BY <1>1, <1>2, <1>3, RunStepped DEF TypeOK, Stepped

\* Each action keeps every variable in its type.
LEMMA TypeInvariance == TypeOK /\ [Next]_vars => TypeOK'
<1> SUFFICES ASSUME TypeOK, [Next]_vars PROVE TypeOK'
  OBVIOUS
<1>1. ASSUME NEW n \in Sends, NEW t \in Tasks, NEW r \in Requests, Send(n, t, r)
      PROVE  TypeOK'
  <2>1. [pc |-> "create", task |-> t, request |-> r] \in Runs
    BY DEF Runs
  <2> QED BY <1>1, <2>1 DEF TypeOK, Send
<1>2. ASSUME NEW n \in Sends, CreateTask(n) PROVE TypeOK'
  <2>1. run[n].task \in Tasks /\ run[n].request \in Requests /\ run[n].pc # "unused"
    BY <1>2 DEF TypeOK, CreateTask
  <2>2. PICK pc \in {"start", "find"} : Goto(n, pc)
    BY <1>2 DEF CreateTask
  <2>3. row' \in [Tasks -> Rows]
    BY <1>2, <2>1, RowsWritten DEF TypeOK, CreateTask
  <2> QED BY <1>2, <2>1, <2>2, <2>3, RunMoved DEF TypeOK, CreateTask, Serving
<1>3. ASSUME NEW n \in Sends, StartTask(n) PROVE TypeOK'
  <2>1. run[n].task \in Tasks /\ run[n].pc # "unused"
    BY <1>3 DEF TypeOK, StartTask
  <2>2. PICK pc \in {"skill", "ended"} : Goto(n, pc)
    BY <1>3 DEF StartTask
  <2>3. row' \in [Tasks -> Rows]
    BY <1>3, <2>1, RowsWritten DEF TypeOK, StartTask
  <2> QED BY <1>3, <2>1, <2>2, <2>3, RunMoved DEF TypeOK, StartTask, Serving
<1>4. ASSUME NEW n \in Sends, SettleTask(n) PROVE TypeOK'
  <2>1. run[n].task \in Tasks /\ run[n].pc # "unused"
    BY <1>4 DEF TypeOK, SettleTask
  <2>3. row' \in [Tasks -> Rows]
    BY <1>4, <2>1, RowsWritten DEF TypeOK, SettleTask, Terminal
  <2> QED BY <1>4, <2>1, <2>3, RunMoved DEF TypeOK, SettleTask, Serving
<1>5. ASSUME NEW n \in Sends, FindTask(n) \/ RejectInput(n) \/ Answered(n) \/ GiveUp(n)
      PROVE  TypeOK'
  <2>1. PICK pc \in {"ended", "fail", "complete"} : Goto(n, pc)
    BY <1>5 DEF FindTask, RejectInput, Answered, GiveUp
  <2>2. run[n].pc # "unused"
    BY <1>5 DEF FindTask, RejectInput, Answered, GiveUp
  <2> QED BY <1>5, <2>1, <2>2, RunMoved
          DEF TypeOK, FindTask, RejectInput, Answered, GiveUp, Serving
<1>6. ASSUME NEW n \in Sends, CallAPI(n) \/ Refuse(n) \/ Perform(n) PROVE TypeOK'
  BY <1>6 DEF TypeOK, CallAPI, Refuse, Perform
<1>7. ASSUME NEW n \in Sends, Fault(n) PROVE TypeOK'
  <2>1. run[n].task \in Tasks /\ run[n].request \in Requests /\ run[n].pc # "unused"
    BY <1>7 DEF TypeOK, Fault
  <2>2. Carried(n) \in [Tasks -> Rows]
    BY <2>1, RowsWritten DEF TypeOK, Carried, Terminal
  <2>3. row' \in [Tasks -> Rows]
    BY <1>7, <2>2 DEF TypeOK, Fault
  <2>4. faults' \in 0 .. MaxFaults
    BY <1>7, BoundAssumption DEF TypeOK, Fault
  <2> QED BY <1>7, <2>1, <2>3, <2>4, RunMoved DEF TypeOK, Fault, Serving
<1>8. CASE UNCHANGED vars
  BY <1>8 DEF TypeOK, vars
<1>9. ASSUME NEW n \in Sends, Leave(n) PROVE TypeOK'
  <2>1. run[n].task \in Tasks /\ run[n].request \in Requests /\ run[n].pc # "unused"
    BY <1>9 DEF TypeOK, Leave
  <2>2. Carried(n) \in [Tasks -> Rows]
    BY <2>1, RowsWritten DEF TypeOK, Carried, Terminal
  <2>3. row' \in [Tasks -> Rows]
    BY <1>9, <2>2 DEF TypeOK, Leave
  <2>4. PICK pc \in {"ended", "abandoned"} : Goto(n, pc)
    BY <1>9 DEF Leave
  <2> QED BY <1>9, <2>1, <2>3, <2>4, RunMoved DEF TypeOK, Leave, Serving
<1> QED
  BY <1>1, <1>2, <1>3, <1>4, <1>5, <1>6, <1>7, <1>8, <1>9 DEF Next, Arrive, Handle

\* Every row the gateway writes is a row of a2a_tasks, with a state of its own.
THEOREM TypeCorrect == Spec => []TypeOK
<1>1. Init => TypeOK
  BY BoundAssumption DEF Init, TypeOK, Rows, Runs
<1> QED BY <1>1, TypeInvariance, PTL DEF Spec

-----------------------------------------------------------------------------
(* The run that inserts a task owns it.                                    *)

\* A step of a run that serves no task, or stops serving it, and leaves its row.
LEMMA RowsKept ==
    ASSUME OwnerInv, TypeOK', NEW n \in Sends, UNCHANGED <<row, call, performed>>,
           \A m \in Sends : m # n => run'[m] = run[m],
           run'[n].task = run[n].task, run'[n].request = run[n].request,
           run[n].pc # "unused",
           \/ run'[n].pc \in {"find", "ended"}
           \/ run[n].pc \in {"find", "create", "start"} /\ run'[n].pc = "abandoned"
           \/ run[n].pc = "skill" /\ run'[n].pc = "fail"
           \/ run[n].pc = "skill" /\ run'[n].pc = "complete" /\ call[n] = "done",
           run'[n].pc # "find" \/ call[n] = "none",
           run[n].pc # "abandoned",
           interrupted \subseteq interrupted',
           \/ run'[n].pc \in Serving \cup {"abandoned"}
           \/ run[n].pc \notin Serving
           \/ run[n].task \in interrupted'
           \/ row[run[n].task].state \notin {"submitted", "working"}
    PROVE  OwnerInv'
<1> USE DEF Engaged, Serving
<1>1. RowsAgree' /\ CompletedWasPerformed'
  BY DEF OwnerInv, RowsAgree, CompletedWasPerformed
<1>2. CallsFollowStart'
  BY DEF OwnerInv, CallsFollowStart
<1>3. OwnerKnowsTask' /\ OneOwner'
  BY DEF OwnerInv, OwnerKnowsTask, OneOwner
<1>4. PerformedByCall'
  BY DEF OwnerInv, PerformedByCall
<1>5. UnfinishedIsServed'
  BY DEF OwnerInv, UnfinishedIsServed, Stranded
<1> QED BY <1>1, <1>2, <1>3, <1>4, <1>5 DEF OwnerInv

\* Only the run that serves task t moves its row.
LEMMA RowMoved ==
    ASSUME OwnerInv, TypeOK', NEW n \in Sends, NEW t \in Tasks, UNCHANGED <<call, performed>>,
           run[n].task = t, run[n].pc \in {"start", "complete", "fail"},
           \A m \in Sends : m # n => run'[m] = run[m],
           run'[n].task = run[n].task, run'[n].request = run[n].request,
           \/ run'[n].pc \in {"skill", "ended"}
           \/ run[n].pc = "start" /\ run'[n].pc = "abandoned",
           \A u \in Tasks : u # t => row'[u] = row[u],
           row'[t].request = row[t].request,
           row'[t].state \in {"working"} \cup Terminal,
           row'[t].state = "completed" => run[n].pc = "complete",
           run'[n].pc = "skill" => row'[t].state = "working",
           interrupted \subseteq interrupted',
           row'[t].state = "working" /\ run'[n].pc = "ended" => t \in interrupted'
    PROVE  OwnerInv'
<1> USE DEF Engaged, Serving
<1>0. /\ row[t].state # "absent" /\ row[t].request = run[n].request
      /\ row[t].request # Nothing
      /\ \A m \in Sends : m # n /\ Engaged(m) => run[m].task # t
  BY DEF OwnerInv, OwnerKnowsTask, OneOwner, RowsAgree
<1>1. RowsAgree'
  BY <1>0 DEF OwnerInv, RowsAgree, Terminal
<1>2. CallsFollowStart'
  BY DEF OwnerInv, CallsFollowStart
<1>3. OwnerKnowsTask'
  <2>1. ASSUME NEW m \in Sends, m # n, Engaged(m), run[m].task \in Tasks
        PROVE  row'[run'[m].task] = row[run[m].task]
    BY <1>0, <2>1
  <2>2. \A m \in Sends : Engaged(m) => run[m].task \in Tasks
    BY DEF OwnerInv, TypeOK, CallsFollowStart
  <2>3. ASSUME NEW m \in Sends, m # n
        PROVE  /\ Engaged(m)' => /\ row'[run'[m].task].state # "absent"
                                 /\ row'[run'[m].task].request = run'[m].request
               /\ run'[m].pc = "start" => row'[run'[m].task].state = "submitted"
               /\ run'[m].pc \in {"skill", "complete", "fail"} =>
                    row'[run'[m].task].state = "working"
    BY <2>1, <2>2, <2>3 DEF OwnerInv, OwnerKnowsTask
  <2>4. /\ row'[run'[n].task].state # "absent"
        /\ row'[run'[n].task].request = run'[n].request
    BY <1>0 DEF Terminal
  <2> QED BY <2>3, <2>4 DEF OwnerKnowsTask
<1>4. OneOwner'
  BY <1>0 DEF OwnerInv, OneOwner
<1>5. PerformedByCall'
  BY DEF OwnerInv, PerformedByCall
<1>6. CompletedWasPerformed'
  <2>1. run[n].pc = "complete" => n \in performed[t]
    BY DEF OwnerInv, CallsFollowStart, PerformedByCall
  <2> QED BY <2>1 DEF OwnerInv, CompletedWasPerformed
<1>7. UnfinishedIsServed'
  <2>1. ASSUME NEW u \in Tasks, u # t, row[u].state \in {"submitted", "working"}
        PROVE  Stranded(u)' \/ \E m \in Sends : run'[m].task = u /\ run'[m].pc \in Serving
    BY <2>1 DEF OwnerInv, UnfinishedIsServed, Stranded
  <2>2. row'[t].state \in {"submitted", "working"} =>
          Stranded(t)' \/ (run'[n].task = t /\ run'[n].pc \in Serving)
    BY DEF Terminal, Stranded
  <2> QED BY <2>1, <2>2 DEF UnfinishedIsServed
<1> QED BY <1>1, <1>2, <1>3, <1>4, <1>5, <1>6, <1>7 DEF OwnerInv

\* Run n, which is about to insert its task, inserts it and goes on or is cut
\* short.
Inserts(n) ==
    /\ call' = call /\ performed' = performed
    /\ run[n].pc = "create" /\ row[run[n].task].state = "absent"
    /\ \A m \in Sends : m # n => run'[m] = run[m]
    /\ run'[n].task = run[n].task /\ run'[n].request = run[n].request
    /\ \A u \in Tasks : u # run[n].task => row'[u] = row[u]
    /\ row'[run[n].task].state = "submitted"
    /\ row'[run[n].task].request = run[n].request
    /\ interrupted \subseteq interrupted'
    /\ \/ run'[n].pc = "start"
       \/ run'[n].pc = "abandoned"
       \/ run'[n].pc = "ended" /\ run[n].task \in interrupted'

\* That makes it the only run of its task.
LEMMA RowInserted ==
    ASSUME OwnerInv, TypeOK', NEW n \in Sends, Inserts(n)
    PROVE  OwnerInv'
<1> DEFINE t == run[n].task
<1> USE DEF Engaged, Serving, Inserts
<1>a. t \in Tasks /\ t = run[n].task
  BY DEF OwnerInv, TypeOK
<1> HIDE DEF t
<1>0. /\ run[n].request # Nothing /\ call[n] = "none"
      /\ \A m \in Sends : Engaged(m) => run[m].task \in Tasks /\ run[m].task # t
  <2>1. run[n].request \in Requests /\ call[n] = "none"
    BY DEF OwnerInv, TypeOK, CallsFollowStart
  <2>2. \A m \in Sends : Engaged(m) => run[m].task \in Tasks
    BY DEF OwnerInv, TypeOK, CallsFollowStart
  <2>3. \A m \in Sends : Engaged(m) => run[m].task # t
    BY <1>a DEF OwnerInv, OwnerKnowsTask
  <2> QED BY <2>1, <2>2, <2>3, <1>a, NothingAssumption DEF OwnerInv, TypeOK
<1>1. RowsAgree'
  BY <1>0, <1>a DEF OwnerInv, RowsAgree
<1>2. CallsFollowStart'
  BY <1>0, <1>a DEF OwnerInv, CallsFollowStart
<1>3. OwnerKnowsTask'
  BY <1>0, <1>a DEF OwnerInv, OwnerKnowsTask
<1>4. OneOwner'
  BY <1>0, <1>a DEF OwnerInv, OneOwner
<1>5. PerformedByCall'
  BY <1>0, <1>a DEF OwnerInv, PerformedByCall
<1>6. CompletedWasPerformed'
  BY <1>0, <1>a DEF OwnerInv, CompletedWasPerformed
<1>7. UnfinishedIsServed'
  BY <1>0, <1>a DEF OwnerInv, UnfinishedIsServed, Stranded
<1> QED BY <1>1, <1>2, <1>3, <1>4, <1>5, <1>6, <1>7 DEF OwnerInv

LEMMA OwnerInvariance == OwnerInv /\ [Next]_vars => OwnerInv'
<1> SUFFICES ASSUME OwnerInv, [Next]_vars PROVE OwnerInv'
  OBVIOUS
<1>0. TypeOK /\ TypeOK'
  BY TypeInvariance DEF OwnerInv
<1> USE DEF Engaged, Serving
<1>1. ASSUME NEW n \in Sends, NEW t \in Tasks, NEW r \in Requests, Send(n, t, r)
      PROVE  OwnerInv'
  <2>1. /\ run[n].pc = "unused" /\ run'[n].pc = "create"
        /\ \A m \in Sends : m # n => run'[m] = run[m]
    BY <1>0, <1>1 DEF Send, TypeOK
  <2>2. call[n] = "none"
    BY <2>1 DEF OwnerInv, CallsFollowStart
  <2>3. UNCHANGED <<row, call, faults, performed, interrupted>>
    BY <1>1 DEF Send
  <2>4. RowsAgree' /\ CallsFollowStart' /\ CompletedWasPerformed'
    BY <2>1, <2>2, <2>3 DEF OwnerInv, RowsAgree, CallsFollowStart, CompletedWasPerformed
  <2>5. OwnerKnowsTask' /\ OneOwner'
    BY <2>1, <2>2, <2>3 DEF OwnerInv, OwnerKnowsTask, OneOwner
  <2>6. PerformedByCall'
    BY <2>1, <2>2, <2>3 DEF OwnerInv, PerformedByCall
  <2>7. UnfinishedIsServed'
    BY <2>1, <2>3 DEF OwnerInv, UnfinishedIsServed, Stranded
  <2> QED BY <1>0, <2>4, <2>5, <2>6, <2>7 DEF OwnerInv
<1>2. ASSUME NEW n \in Sends, CreateTask(n) PROVE OwnerInv'
  <2> DEFINE t == run[n].task
  <2>1. /\ run[n].pc = "create" /\ t \in Tasks
        /\ UNCHANGED <<call, performed, interrupted>>
        /\ row' = Created(t, run[n].request)
    BY <1>0, <1>2 DEF CreateTask, TypeOK
  <2>2. CASE row[t].state = "absent"
    <3>1. Goto(n, "start")
      BY <1>2, <2>2 DEF CreateTask
    <3>2. Stepped(n, "start")
      BY <1>0, <3>1, RunStepped
    <3>3. row' = [row EXCEPT ![t] = [state |-> "submitted", request |-> run[n].request]]
      BY <2>1, <2>2 DEF Created
    <3>4. /\ \A u \in Tasks : u # t => row'[u] = row[u]
          /\ row'[t].state = "submitted" /\ row'[t].request = run[n].request
      BY <1>0, <2>1, <3>3 DEF TypeOK
    <3>5. Inserts(n)
      BY <2>1, <2>2, <3>2, <3>4 DEF Stepped, Inserts
    <3> QED BY <1>0, <3>5, RowInserted
  <2>3. CASE row[t].state # "absent"
    <3>1. Goto(n, "find") /\ row' = row
      BY <1>2, <2>3 DEF CreateTask, Created
    <3>2. call[n] = "none"
      BY <2>1 DEF OwnerInv, CallsFollowStart
    <3>3. Stepped(n, "find")
      BY <1>0, <3>1, RunStepped
    <3> QED BY <1>0, <2>1, <3>1, <3>2, <3>3, RowsKept DEF Stepped
  <2> QED BY <2>2, <2>3
<1>3. ASSUME NEW n \in Sends, StartTask(n) PROVE OwnerInv'
  <2>1. /\ run[n].pc = "start" /\ run[n].task \in Tasks
        /\ UNCHANGED <<call, performed, interrupted>>
    BY <1>0, <1>3 DEF StartTask, TypeOK
  <2>2. row[run[n].task].state = "submitted"
    BY <2>1 DEF OwnerInv, OwnerKnowsTask
  <2>3. Goto(n, "skill") /\ row' = [row EXCEPT ![run[n].task].state = "working"]
    BY <1>3, <2>2 DEF StartTask, Moved
  <2>4. /\ \A u \in Tasks : u # run[n].task => row'[u] = row[u]
        /\ row'[run[n].task].state = "working"
        /\ row'[run[n].task].request = row[run[n].task].request
    BY <1>0, <2>1, <2>3 DEF TypeOK, Rows
  <2>5. Stepped(n, "skill")
    BY <1>0, <2>3, RunStepped
  <2> QED BY <1>0, <2>1, <2>4, <2>5, RowMoved DEF Stepped
<1>4. ASSUME NEW n \in Sends, SettleTask(n) PROVE OwnerInv'
  <2>1. /\ run[n].pc \in {"complete", "fail"} /\ run[n].task \in Tasks
        /\ UNCHANGED <<call, performed, interrupted>> /\ Goto(n, "ended")
    BY <1>0, <1>4 DEF SettleTask, TypeOK
  <2>2. row[run[n].task].state = "working"
    BY <2>1 DEF OwnerInv, OwnerKnowsTask
  <2>3. row' = [row EXCEPT ![run[n].task].state =
                  IF run[n].pc = "complete" THEN "completed" ELSE "failed"]
    BY <1>4, <2>2 DEF SettleTask, Moved
  <2>4. /\ \A u \in Tasks : u # run[n].task => row'[u] = row[u]
        /\ row'[run[n].task].state = IF run[n].pc = "complete" THEN "completed" ELSE "failed"
        /\ row'[run[n].task].request = row[run[n].task].request
    BY <1>0, <2>1, <2>3 DEF TypeOK, Rows
  <2>5. Stepped(n, "ended")
    BY <1>0, <2>1, RunStepped
  <2> QED BY <1>0, <2>1, <2>4, <2>5, RowMoved DEF Stepped, Terminal
<1>5. ASSUME NEW n \in Sends, FindTask(n) \/ RejectInput(n) \/ Answered(n) \/ GiveUp(n)
      PROVE  OwnerInv'
  <2>1. /\ run[n].pc \in {"find", "skill"}
        /\ UNCHANGED <<row, call, performed, interrupted>>
    BY <1>5 DEF FindTask, RejectInput, Answered, GiveUp
  <2>2. \/ Goto(n, "ended") /\ run[n].pc = "find"
        \/ Goto(n, "fail") /\ run[n].pc = "skill"
        \/ Goto(n, "complete") /\ run[n].pc = "skill" /\ call[n] = "done"
    BY <1>5 DEF FindTask, RejectInput, Answered, GiveUp
  <2>3. CASE Goto(n, "ended") /\ run[n].pc = "find"
    <3>1. Stepped(n, "ended")
      BY <1>0, <2>3, RunStepped
    <3> QED BY <1>0, <2>1, <2>3, <3>1, RowsKept DEF Stepped
  <2>4. CASE Goto(n, "fail") /\ run[n].pc = "skill"
    <3>1. Stepped(n, "fail")
      BY <1>0, <2>4, RunStepped
    <3> QED BY <1>0, <2>1, <2>4, <3>1, RowsKept DEF Stepped
  <2>5. CASE Goto(n, "complete") /\ run[n].pc = "skill" /\ call[n] = "done"
    <3>1. Stepped(n, "complete")
      BY <1>0, <2>5, RunStepped
    <3> QED BY <1>0, <2>1, <2>5, <3>1, RowsKept DEF Stepped
  <2> QED BY <2>2, <2>3, <2>4, <2>5
<1>6. ASSUME NEW n \in Sends, CallAPI(n) \/ Refuse(n) \/ Perform(n) PROVE OwnerInv'
  <2>1. /\ UNCHANGED <<row, run, interrupted>>
        /\ \A m \in Sends : m # n => call'[m] = call[m]
        /\ run[n].pc = "skill" \/ call[n] = "sent"
        /\ call'[n] # "none" /\ call[n] # "done"
    BY <1>0, <1>6 DEF CallAPI, Refuse, Perform, TypeOK
  <2>2. run[n].pc \in {"skill", "complete", "fail", "ended"} /\ Engaged(n)
    BY <2>1 DEF OwnerInv, CallsFollowStart
  <2>3. RowsAgree' /\ UnfinishedIsServed'
    BY <2>1 DEF OwnerInv, RowsAgree, UnfinishedIsServed, Stranded
  <2>4. CallsFollowStart'
    BY <2>1, <2>2 DEF OwnerInv, CallsFollowStart
  <2>5. OwnerKnowsTask' /\ OneOwner'
    BY <2>1, <2>2 DEF OwnerInv, OwnerKnowsTask, OneOwner
  <2>6. PerformedByCall'
    <3>1. CASE Perform(n)
      <4>1. /\ call'[n] = "done"
            /\ performed' = [performed EXCEPT ![run[n].task] = @ \cup {n}]
        BY <1>0, <3>1 DEF Perform, TypeOK
      <4> QED BY <1>0, <2>1, <4>1 DEF OwnerInv, PerformedByCall, TypeOK
    <3>2. CASE CallAPI(n) \/ Refuse(n)
      <4>1. performed' = performed /\ call'[n] # "done"
        BY <1>0, <3>2 DEF CallAPI, Refuse, TypeOK
      <4> QED BY <2>1, <4>1 DEF OwnerInv, PerformedByCall
    <3> QED BY <1>6, <3>1, <3>2
  <2>7. \A t \in Tasks : performed[t] \subseteq performed'[t]
    BY <1>0, <1>6 DEF CallAPI, Refuse, Perform, TypeOK
  <2>8. CompletedWasPerformed'
    BY <2>1, <2>7 DEF OwnerInv, CompletedWasPerformed
  <2> QED BY <1>0, <2>3, <2>4, <2>5, <2>6, <2>8 DEF OwnerInv
<1>7. ASSUME NEW n \in Sends, Fault(n) \/ Leave(n) PROVE OwnerInv'
  <2> DEFINE t == run[n].task
  <2>1. /\ run[n].pc \in {"create", "find"} \cup Serving /\ t \in Tasks
        /\ UNCHANGED <<call, performed>>
    BY <1>0, <1>7 DEF Fault, Leave, TypeOK, Runs
  <2>2. PICK pc \in {"ended", "abandoned"} :
          /\ Goto(n, pc)
          /\ interrupted \subseteq interrupted'
          /\ Strands(n) => pc = "abandoned" \/ t \in interrupted'
          /\ pc = "abandoned" => run[n].pc \in {"create", "find", "start"}
    BY <1>7 DEF Fault, Leave
  <2>0. Stepped(n, pc)
    BY <1>0, <2>2, RunStepped
  <2>3. CASE row' = row
    <3>1. run[n].pc \in Serving => pc = "abandoned" \/ t \in interrupted'
      BY <2>2, <2>3 DEF Strands, Owns, OwnerInv, OwnerKnowsTask
    <3> QED BY <1>0, <2>0, <2>1, <2>2, <2>3, <3>1, RowsKept DEF Stepped
  <2>4. CASE run[n].pc = "create" /\ row' = Carried(n) /\ row' # row
    <3>1. row' = Created(t, run[n].request)
      BY <2>4 DEF Carried
    <3>2. row[t].state = "absent"
      BY <2>4, <3>1 DEF Created
    <3>4. row' = [row EXCEPT ![t] = [state |-> "submitted", request |-> run[n].request]]
      BY <3>1, <3>2 DEF Created
    <3>5. /\ \A u \in Tasks : u # t => row'[u] = row[u]
          /\ row'[t].state = "submitted" /\ row'[t].request = run[n].request
      BY <1>0, <2>1, <3>4 DEF TypeOK
    <3>3. pc = "abandoned" \/ t \in interrupted'
      BY <2>2, <2>4, <3>2, <3>5 DEF Strands, Owns
    <3>6. Inserts(n)
      BY <2>0, <2>1, <2>2, <2>4, <3>2, <3>3, <3>5 DEF Stepped, Inserts
    <3> QED BY <1>0, <3>6, RowInserted
  <2>5. CASE run[n].pc # "create" /\ row' = Carried(n) /\ row' # row
    <3>1. PICK to \in {"working"} \cup Terminal :
            /\ \E from \in {"submitted", "working"} : row' = Moved(t, from, to)
            /\ run[n].pc \in {"start", "complete", "fail"}
            /\ to = "completed" => run[n].pc = "complete"
      BY <2>1, <2>5 DEF Carried, Terminal
    <3>2. row' = [row EXCEPT ![t].state = to]
      BY <2>5, <3>1 DEF Moved
    <3>3. /\ \A u \in Tasks : u # t => row'[u] = row[u]
          /\ row'[t].state = to /\ row'[t].request = row[t].request
      BY <1>0, <2>1, <3>2 DEF TypeOK, Rows
    <3>4. pc = "abandoned" \/ t \in interrupted'
      BY <2>2, <3>1, <3>3 DEF Strands, Owns, Terminal
    <3>5. pc = "abandoned" => run[n].pc = "start"
      BY <2>2, <3>1
    <3> QED BY <1>0, <2>0, <2>1, <2>2, <3>1, <3>3, <3>4, <3>5, RowMoved DEF Stepped
  <2> QED BY <1>7, <2>3, <2>4, <2>5 DEF Fault, Leave
<1>8. CASE UNCHANGED vars
  BY <1>0, <1>8 DEF OwnerInv, RowsAgree, CallsFollowStart, OwnerKnowsTask, OneOwner,
                    PerformedByCall, CompletedWasPerformed, UnfinishedIsServed, Stranded, vars
<1> QED
  BY <1>1, <1>2, <1>3, <1>4, <1>5, <1>6, <1>7, <1>8 DEF Next, Arrive, Handle

LEMMA OwnerInitially == Init => OwnerInv
<1> SUFFICES ASSUME Init PROVE OwnerInv
  OBVIOUS
<1>1. TypeOK
  BY BoundAssumption DEF Init, TypeOK, Rows, Runs
<1> QED BY <1>1 DEF Init, OwnerInv, RowsAgree, CallsFollowStart, OwnerKnowsTask, OneOwner,
                    PerformedByCall, CompletedWasPerformed, UnfinishedIsServed, Engaged, Serving

\* A task without a verdict has a run of its own that serves it, unless that run
\* was cut short or its caller left before the start, however many sends and
\* resends there are.
THEOREM Served == Spec => []UnfinishedIsServed
<1>1. OwnerInv => UnfinishedIsServed
  BY DEF OwnerInv
<1> QED BY <1>1, OwnerInitially, OwnerInvariance, PTL DEF Spec

-----------------------------------------------------------------------------
(* The gateway implements TaskPromise.                                     *)

Asked == [t \in Tasks |-> row[t].request]

Performed ==
    [t \in Tasks |->
        IF performed[t] = {} THEN Nothing
        ELSE IF \E n \in performed[t] : performed[t] = {n} /\ run[n].request = row[t].request
             THEN row[t].request ELSE "twice"]

Verdict == [t \in Tasks |-> IF row[t].state \in Terminal THEN row[t].state ELSE "none"]

PerformedAsAsked ==
    \A t \in Tasks : Performed[t] = IF performed[t] = {} THEN Nothing ELSE row[t].request

\* What was performed was performed once, and is the recorded request.
LEMMA PerformedOnce == OwnerInv => PerformedAsAsked
<1> SUFFICES ASSUME OwnerInv, NEW t \in Tasks
             PROVE  Performed[t] = IF performed[t] = {} THEN Nothing ELSE row[t].request
  BY DEF PerformedAsAsked
<1>1. ASSUME NEW n \in performed[t]
      PROVE  performed[t] = {n} /\ run[n].request = row[t].request
  <2>1. \A m \in performed[t] : m \in Sends /\ run[m].task = t /\ Engaged(m)
    BY DEF OwnerInv, PerformedByCall, Engaged
  <2>2. \A m \in performed[t] : m = n
    BY <1>1, <2>1 DEF OwnerInv, OneOwner
  <2> QED BY <1>1, <2>1, <2>2 DEF OwnerInv, OwnerKnowsTask
<1> QED BY <1>1 DEF Performed

\* The promise sees a step only through the rows and what was performed.
LEMMA PromiseUnseen ==
    ASSUME OwnerInv, OwnerInv',
           \A t \in Tasks : /\ row'[t].request = row[t].request
                            /\ row'[t].state \in Terminal \/ row[t].state \in Terminal =>
                                 row'[t].state = row[t].state
                            /\ performed'[t] = performed[t]
    PROVE  UNCHANGED <<Asked, Performed, Verdict>>
<1>1. Asked' = Asked /\ Verdict' = Verdict
  BY DEF Asked, Verdict
<1>0. PerformedAsAsked
  BY PerformedOnce
<1>2. OwnerInv' => PerformedAsAsked'
  BY PerformedOnce, PTL
<1>3. \A t \in Tasks : Performed'[t] = Performed[t]
  BY <1>0, <1>2 DEF PerformedAsAsked
<1> QED BY <1>1, <1>3 DEF Performed

\* An insert accepts the task.
LEMMA PromiseAccepts ==
    ASSUME OwnerInv, OwnerInv', NEW t \in Tasks, NEW r \in Requests,
           row[t].state = "absent", performed' = performed,
           row' = [row EXCEPT ![t] = [state |-> "submitted", request |-> r]]
    PROVE  Promise!Accept(t, r)
<1>1. row \in [Tasks -> Rows] /\ row[t].request = Nothing
  BY DEF OwnerInv, TypeOK, RowsAgree
<1>2. /\ row'[t].request = r /\ row'[t].state = "submitted"
      /\ \A u \in Tasks : u # t => row'[u] = row[u]
  BY <1>1
<1>3. Asked' = [Asked EXCEPT ![t] = r] /\ Asked[t] = Nothing
  BY <1>1, <1>2 DEF Asked
<1>4. Verdict' = Verdict
  BY <1>1, <1>2 DEF Verdict, Terminal
<1>5. performed[t] = {}
  BY DEF OwnerInv, PerformedByCall, OwnerKnowsTask, Engaged
<1>6. \A u \in Tasks : Performed'[u] = Performed[u]
  <2>1. PerformedAsAsked /\ PerformedAsAsked'
    BY PerformedOnce, PTL
  <2> QED BY <1>2, <1>5, <2>1 DEF PerformedAsAsked
<1>7. Performed' = Performed
  BY <1>6 DEF Performed
<1> QED BY <1>3, <1>4, <1>7 DEF Promise!Accept, Asked, Performed, Verdict

\* A verdict settles it, as completed only after it was performed.
LEMMA PromiseSettles ==
    ASSUME OwnerInv, OwnerInv', NEW t \in Tasks, NEW v \in Terminal,
           row[t].state = "working", performed' = performed,
           v = "completed" => performed[t] # {},
           row' = [row EXCEPT ![t].state = v]
    PROVE  Promise!Settle(t, v)
<1>1. row \in [Tasks -> Rows] /\ row[t].request # Nothing
  BY DEF OwnerInv, TypeOK, RowsAgree
<1>2. /\ row'[t].request = row[t].request /\ row'[t].state = v
      /\ \A u \in Tasks : u # t => row'[u] = row[u]
  BY <1>1 DEF Rows
<1>3. Asked' = Asked /\ Asked[t] # Nothing
  BY <1>1, <1>2 DEF Asked
<1>4. Verdict' = [Verdict EXCEPT ![t] = v] /\ Verdict[t] = "none"
  BY <1>1, <1>2 DEF Verdict, Terminal
<1>5. PerformedAsAsked /\ PerformedAsAsked'
  BY PerformedOnce, PTL
<1>6. \A u \in Tasks : Performed'[u] = Performed[u]
  BY <1>2, <1>5 DEF PerformedAsAsked
<1>7. Performed' = Performed /\ (v = "completed" => Performed[t] # Nothing)
  BY <1>1, <1>5, <1>6 DEF Performed, PerformedAsAsked
<1> QED BY <1>3, <1>4, <1>7 DEF Promise!Settle, Asked, Performed, Verdict

\* The API carries out what it was asked for, once.
LEMMA PromisePerforms ==
    ASSUME OwnerInv, OwnerInv', NEW n \in Sends, Perform(n),
           NEW t \in Tasks, t = run[n].task
    PROVE  Promise!Perform(t)
<1>1. /\ t \in Tasks /\ row[t].state # "absent" /\ row[t].request # Nothing
  BY DEF OwnerInv, TypeOK, RowsAgree, CallsFollowStart, OwnerKnowsTask, Engaged, Perform
<1>2. row' = row /\ performed' = [performed EXCEPT ![t] = @ \cup {n}]
  BY DEF Perform
<1>3. performed \in [Tasks -> SUBSET Sends]
  BY DEF OwnerInv, TypeOK
<1>4. performed[t] = {}
  <2>1. n \notin performed[t]
    BY <1>1 DEF OwnerInv, PerformedByCall, Perform
  <2>2. \A m \in performed[t] : m \in Sends /\ Engaged(m) /\ run[m].task = t
    BY <1>1 DEF OwnerInv, PerformedByCall, Engaged
  <2>3. Engaged(n)
    BY DEF Engaged, Perform
  <2> QED BY <2>1, <2>2, <2>3 DEF OwnerInv, OneOwner
<1>5. performed'[t] # {} /\ \A u \in Tasks : u # t => performed'[u] = performed[u]
  BY <1>1, <1>2, <1>3
<1>6. PerformedAsAsked /\ PerformedAsAsked'
  BY PerformedOnce, PTL
<1>7. /\ Performed[t] = Nothing /\ Performed'[t] = Asked[t] /\ Asked[t] # Nothing
      /\ \A u \in Tasks : u # t => Performed'[u] = Performed[u]
  BY <1>1, <1>2, <1>4, <1>5, <1>6 DEF PerformedAsAsked, Asked
<1>8. Performed' = [Performed EXCEPT ![t] = Asked[t]]
  BY <1>1, <1>7 DEF Performed
<1>9. Asked' = Asked /\ Verdict' = Verdict
  BY <1>2 DEF Asked, Verdict
<1> QED BY <1>7, <1>8, <1>9 DEF Promise!Perform, Asked, Performed, Verdict

LEMMA PromiseStep == OwnerInv /\ [Next]_vars => [Promise!Next]_Promise!vars
<1> SUFFICES ASSUME OwnerInv, [Next]_vars PROVE [Promise!Next]_Promise!vars
  OBVIOUS
<1>0. OwnerInv' /\ TypeOK
  BY OwnerInvariance DEF OwnerInv
<1> DEFINE Unseen == UNCHANGED <<Asked, Performed, Verdict>>
<1>a. Unseen => UNCHANGED Promise!vars
  BY DEF Promise!vars, Asked, Performed, Verdict
<1>b. ASSUME row' = row, performed' = performed PROVE Unseen
  BY <1>0, <1>b, PromiseUnseen
<1>c. ASSUME NEW t \in Tasks, row[t].state = "submitted", performed' = performed,
             row' = [row EXCEPT ![t].state = "working"]
      PROVE  Unseen
  <2>1. /\ row'[t].request = row[t].request /\ row'[t].state = "working"
        /\ \A u \in Tasks : u # t => row'[u] = row[u]
    BY <1>0, <1>c DEF TypeOK, Rows
  <2> QED BY <1>0, <1>c, <2>1, PromiseUnseen DEF Terminal
<1>d. ASSUME NEW t \in Tasks, NEW r \in Requests, Promise!Accept(t, r) PROVE Promise!Next
  BY <1>d DEF Promise!Next
<1>e. ASSUME NEW t \in Tasks, NEW v \in Terminal, Promise!Settle(t, v) PROVE Promise!Next
  BY <1>e DEF Promise!Next, Terminal
<1>f. ASSUME NEW t \in Tasks, Promise!Perform(t) PROVE Promise!Next
  BY <1>f DEF Promise!Next
<1> HIDE DEF Unseen
<1>1. ASSUME NEW n \in Sends, CreateTask(n) PROVE Unseen \/ Promise!Next
  <2> DEFINE t == run[n].task
  <2>1. /\ run[n].request \in Requests /\ t \in Tasks /\ performed' = performed
        /\ row' = Created(t, run[n].request)
    BY <1>0, <1>1 DEF CreateTask, TypeOK
  <2>2. CASE row[t].state = "absent"
    BY <1>0, <1>d, <2>1, <2>2, PromiseAccepts DEF Created
  <2>3. CASE row[t].state # "absent"
    BY <1>b, <2>1, <2>3 DEF Created
  <2> QED BY <2>2, <2>3
<1>2. ASSUME NEW n \in Sends, StartTask(n) PROVE Unseen
  <2>1. run[n].task \in Tasks /\ row[run[n].task].state = "submitted"
    BY <1>0, <1>2 DEF StartTask, TypeOK, OwnerInv, OwnerKnowsTask
  <2> QED BY <1>2, <1>c, <2>1 DEF StartTask, Moved
<1>3. ASSUME NEW n \in Sends, SettleTask(n) PROVE Promise!Next
  <2> DEFINE t == run[n].task
             v == IF run[n].pc = "complete" THEN "completed" ELSE "failed"
  <2>1. /\ t \in Tasks /\ row[t].state = "working" /\ v \in Terminal
        /\ v = "completed" => n \in performed[t]
    BY <1>0, <1>3 DEF SettleTask, TypeOK, OwnerInv, OwnerKnowsTask, CallsFollowStart,
                      PerformedByCall, Terminal
  <2>2. row' = [row EXCEPT ![t].state = v] /\ performed' = performed
    BY <1>3, <2>1 DEF SettleTask, Moved
  <2> HIDE DEF v, t
  <2> QED BY <1>0, <1>e, <2>1, <2>2, PromiseSettles
<1>4. ASSUME NEW n \in Sends, Perform(n) PROVE Promise!Next
  <2>1. run[n].task \in Tasks
    BY <1>0, <1>4 DEF OwnerInv, TypeOK, CallsFollowStart, Perform
  <2>2. PICK t \in Tasks : t = run[n].task
    BY <2>1
  <2>3. Promise!Perform(t)
    BY <1>0, <1>4, <2>2, PromisePerforms
  <2> QED BY <1>f, <2>3
<1>5. ASSUME NEW n \in Sends, Fault(n) \/ Leave(n) PROVE Unseen \/ Promise!Next
  <2> DEFINE t == run[n].task
  <2>1. /\ run[n].pc # "unused" /\ t \in Tasks /\ run[n].request \in Requests
        /\ performed' = performed /\ row' \in {row, Carried(n)}
    BY <1>0, <1>5 DEF Fault, Leave, TypeOK
  <2>2. CASE row' = row
    BY <1>b, <2>1, <2>2
  <2>3. CASE run[n].pc = "create" /\ row' = Carried(n) /\ row' # row
    <3>1. row[t].state = "absent"
      BY <2>3 DEF Carried, Created
    <3> QED BY <1>0, <1>d, <2>1, <2>3, <3>1, PromiseAccepts DEF Carried, Created
  <2>4. CASE run[n].pc = "start" /\ row' = Carried(n) /\ row' # row
    <3>1. row[t].state = "submitted" /\ row' = [row EXCEPT ![t].state = "working"]
      BY <2>4 DEF Carried, Moved
    <3> QED BY <1>c, <2>1, <3>1
  <2>5. CASE run[n].pc \in {"complete", "fail"} /\ row' = Carried(n) /\ row' # row
    <3> DEFINE v == IF run[n].pc = "complete" THEN "completed" ELSE "failed"
    <3>1. row[t].state = "working" /\ row' = [row EXCEPT ![t].state = v]
      BY <2>5 DEF Carried, Moved
    <3>2. v \in Terminal /\ (v = "completed" => n \in performed[t])
      BY <2>1, <2>5 DEF OwnerInv, CallsFollowStart, PerformedByCall, Terminal
    <3> HIDE DEF v, t
    <3> QED BY <1>0, <1>e, <2>1, <3>1, <3>2, PromiseSettles
  <2> QED BY <2>1, <2>2, <2>3, <2>4, <2>5 DEF Carried
<1>6. ASSUME NEW n \in Sends,
             \/ FindTask(n) \/ RejectInput(n) \/ CallAPI(n) \/ Answered(n) \/ GiveUp(n)
             \/ Refuse(n)
      PROVE  Unseen
  BY <1>6, <1>b DEF FindTask, RejectInput, CallAPI, Answered, GiveUp, Refuse
<1>7. CASE Arrive
  BY <1>7, <1>a, <1>b DEF Arrive, Send
<1>8. CASE UNCHANGED vars
  BY <1>8, <1>a, <1>b DEF vars
<1> QED BY <1>a, <1>1, <1>2, <1>3, <1>4, <1>5, <1>6, <1>7, <1>8 DEF Next, Handle

LEMMA PromiseInitially == Init => Promise!Init
  BY DEF Init, Promise!Init, Terminal

\* The gateway implements TaskPromise: one request is recorded for a task id, at
\* most one call of the API performs it, "completed" says that it was performed,
\* and no verdict changes, whatever is resent, timed out, failed or carried out
\* late.
THEOREM PromiseImplemented == Spec => PromiseKept
  BY PromiseInitially, PromiseStep, OwnerInitially, OwnerInvariance, PTL
     DEF Spec, PromiseKept, Promise!Spec

=============================================================================
