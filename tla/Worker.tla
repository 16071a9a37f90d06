------------------------------- MODULE Worker -------------------------------
(***************************************************************************)
(* The worker (pkg/worker): the triggers of the process resources, driven  *)
(* by the synchronizer, and the workflow executions they start, cancel and *)
(* terminate in Temporal, which is modelled from its use here.             *)
(*                                                                         *)
(* A trigger has the prefix and the suffix of its workflow's id, what to   *)
(* do if it is running and what to do on drop; timeouts, the cron schedule *)
(* and the retry policy go to Temporal as they are.  Foreign is a spec of  *)
(* another type, Unknown one of a type the worker cannot unmarshal, Empty  *)
(* a Process without trigger.                                              *)
(***************************************************************************)
EXTENDS Synchronizer

CONSTANTS Workflows,   \* the ids that are not random
          Random, Invalid, Foreign, Unknown, Empty

VARIABLES
    triggers,  \* Worker.triggers
    todo,      \* ids that OnEndOfPage has still to trigger
    start,     \* the trigger between checkIfIsRunning and ExecuteWorkflow
    wf,        \* status of each workflow in Temporal
    run,       \* parity of the runs that have replaced a running one
    orphans    \* history: workflows that may go on without a trigger

vars == <<syncVars, triggers, todo, start, wf, run, orphans>>
workVars == <<triggers, todo, start, wf, run, orphans>>

Triggers == Specs \ {Foreign, Unknown, Empty}

\* The id of the workflow: the prefix, joined with the exact suffix of the
\* trigger or with a UUID, made from the prefix or random; or an error.
workflowIdFromTrigger(t) ==
    CASE t.suffix = "only_prefix" -> <<t.prefix>>
      [] t.suffix = "unique" -> <<t.prefix, "sha1">>
      [] t.suffix = "random" -> Random
      [] t.suffix = "unset" -> Invalid
      [] OTHER -> <<t.prefix, t.suffix>>

ASSUME TriggersAssumption == \A t \in Triggers :
    /\ workflowIdFromTrigger(t) \in Workflows \cup {Random, Invalid}
    /\ t.ifRunning \in {"abort", "overlap", "invalid"}
    /\ t.onDrop \in {"nothing", "cancel", "terminate", "invalid"}
    /\ t.args \in BOOLEAN   \* json_arguments is an array

TypeOK ==
    /\ SyncTypeOK
    /\ triggers \in [Ids -> Triggers \cup {Empty, None}]
    /\ todo \in SUBSET Ids
    /\ \/ start = None
       \/ start \in [of : Triggers, policy : {"failedOnly", "terminate"}]
    /\ wf \in [Workflows -> {"none", "running", "canceling", "completed",
                             "failed"}]
    /\ run \in [Workflows -> {0, 1}]
    /\ orphans \in SUBSET Workflows

Init ==
    /\ SyncInit
    /\ triggers = Nothing /\ todo = {} /\ start = None
    /\ wf = [w \in Workflows |-> "none"] /\ run = [w \in Workflows |-> 0]
    /\ orphans = {}

-----------------------------------------------------------------------------
(* Temporal *)

IsRunning(w) == wf[w] \in {"running", "canceling"}

\* ExecuteWorkflow: a run that the reuse policy does not allow is no error.
Execute(w, policy) ==
    IF policy = "terminate" \/ wf[w] \in {"none", "failed"}
    THEN /\ wf' = [wf EXCEPT ![w] = "running"]
         /\ run' = [run EXCEPT ![w] = IF IsRunning(w) THEN 1 - @ ELSE 0]
    ELSE UNCHANGED <<wf, run>>

\* A workflow ends by itself or obeys its cancellation.
Completes(w) ==
    /\ IsRunning(w)
    /\ wf' \in {[wf EXCEPT ![w] = "completed"], [wf EXCEPT ![w] = "failed"]}
    /\ run' = [run EXCEPT ![w] = 0]
    /\ UNCHANGED <<syncVars, triggers, todo, start, orphans>>

\* A call to Temporal fails for another reason than NotFound.
Fault == faults < MaxFaults /\ faults' = faults + 1

\* The fields of the synchronizer, with and without a failing call.
SyncBut(f) == UNCHANGED <<stored, changes, view, recv, cancelled>> /\ f

-----------------------------------------------------------------------------
(* worker.go *)

\* Workflows that lose their trigger in another way than by its drop action.
Left(i) ==
    IF triggers[i] \in {None, Empty} THEN {}
    ELSE {workflowIdFromTrigger(triggers[i])} \cap Workflows

\* OnUpdated: a process sets its trigger, another type is ignored, and one that
\* cannot be unmarshalled ends the synchronizer.
OnUpdated(i) ==
    /\ loop.pc = "update" /\ loop.upd[i] # None
    /\ IF loop.upd[i] = Unknown
       THEN Panics /\ UNCHANGED <<triggers, orphans>>
       ELSE /\ loop' = [loop EXCEPT !.upd[i] = None]
            /\ IF loop.upd[i] = Foreign THEN UNCHANGED <<triggers, orphans>>
               ELSE /\ triggers' = [triggers EXCEPT ![i] = loop.upd[i]]
                    /\ orphans' = orphans \cup Left(i)
    /\ SyncBut(UNCHANGED faults)
    /\ UNCHANGED <<todo, start, wf, run>>

\* Mutant of OnDropped: on drop, a workflow is never terminated.
OnDropped_NeverStops(i) ==
    /\ loop.pc = "drop" /\ i \in loop.drp
    /\ loop' = [loop EXCEPT !.drp = @ \ {i}]
    /\ triggers' = [triggers EXCEPT ![i] = None]
    /\ SyncBut(UNCHANGED faults)
    /\ UNCHANGED <<todo, start, wf, run, orphans>>

\* OnDropped: the workflow is cancelled or terminated.  One that is not running,
\* as a Random one never is, an invalid specification and a failing call end the
\* synchronizer: the NotFound of Temporal is not recognised.
OnDropped(i) ==
    LET t == triggers[i]
        w == workflowIdFromTrigger(t)
        done == loop' = [loop EXCEPT !.drp = @ \ {i}]
        stops == t.onDrop \in {"cancel", "terminate"}
    IN  /\ loop.pc = "drop" /\ i \in loop.drp
        /\ triggers' = [triggers EXCEPT ![i] = None]
        /\ CASE t = None -> done /\ UNCHANGED <<wf, orphans, faults>>
             [] t = Empty -> Panics /\ UNCHANGED <<wf, orphans, faults>>
             [] OTHER ->
                  \/ /\ stops /\ w \in Workflows /\ IsRunning(w)
                     /\ wf' = [wf EXCEPT ![w] = IF t.onDrop = "cancel"
                                               THEN "canceling" ELSE "failed"]
                     /\ done /\ UNCHANGED <<orphans, faults>>
                  \/ /\ t.onDrop = "nothing" /\ w # Invalid
                     /\ orphans' = orphans \cup Left(i)
                     /\ done /\ UNCHANGED <<wf, faults>>
                  \/ /\ \/ w \in {Random, Invalid} /\ t.onDrop # "nothing"
                        \/ w = Invalid \/ t.onDrop = "invalid"
                        \/ stops /\ w \in Workflows /\ ~IsRunning(w)
                     /\ Panics /\ UNCHANGED <<wf, orphans, faults>>
                  \/ /\ stops /\ w # Invalid /\ Fault
                     /\ Panics /\ UNCHANGED wf
                     /\ orphans' = orphans \cup Left(i)
        /\ SyncBut(TRUE)
        /\ UNCHANGED <<todo, start, run>>

\* Mutant of OnEndOfPage: a workflow that has been started is left out.
OnEndOfPage_Once ==
    /\ loop.pc = "endOfPage" /\ todo = {} /\ start = None
    /\ todo' = {i \in Ids : triggers[i] # None /\
                            \A w \in Left(i) : wf[w] = "none"}
    /\ loop' = IF todo' = {} THEN [loop EXCEPT !.pc = "select"] ELSE loop
    /\ SyncBut(UNCHANGED faults)
    /\ UNCHANGED <<triggers, start, wf, run, orphans>>

\* OnEndOfPage goes through the triggers in any order.
OnEndOfPage ==
    /\ loop.pc = "endOfPage" /\ todo = {} /\ start = None
    /\ todo' = {i \in Ids : triggers[i] # None}
    /\ loop' = IF todo' = {} THEN [loop EXCEPT !.pc = "select"] ELSE loop
    /\ SyncBut(UNCHANGED faults)
    /\ UNCHANGED <<triggers, start, wf, run, orphans>>

\* The next id, or the end of the page.
NextTrigger(rest) ==
    /\ todo' = rest
    /\ loop' = IF rest = {} THEN [loop EXCEPT !.pc = "select"] ELSE loop

-----------------------------------------------------------------------------
(* trigger.go *)

\* Mutant of triggerToWorkflowStartOptions: a running workflow is terminated.
triggerToWorkflowStartOptions_Terminate(t) ==
    [of |-> t, policy |-> "terminate"]

triggerToWorkflowStartOptions(t) == [of |-> t, policy |-> "failedOnly"]

\* checkIfIsRunning: its answer is not used, only what it writes into the
\* options, if the workflow exists and Temporal answers.
checkIfIsRunning(opts) ==
    IF /\ workflowIdFromTrigger(opts.of) \in Workflows
       /\ wf[workflowIdFromTrigger(opts.of)] # "none"
       /\ opts.of.ifRunning = "overlap"
    THEN [opts EXCEPT !.policy = "terminate"] ELSE opts

\* Trigger, up to ExecuteWorkflow.  A process without trigger is a nil pointer,
\* an invalid id or invalid arguments only an error in the log.
Trigger(i) ==
    LET t == triggers[i]
    IN  /\ loop.pc = "endOfPage" /\ start = None /\ i \in todo
        /\ CASE t = Empty -> /\ Panics
                             /\ UNCHANGED <<todo, start, faults>>
             [] t # Empty /\ (workflowIdFromTrigger(t) = Invalid \/ ~t.args) ->
                    NextTrigger(todo \ {i}) /\ UNCHANGED <<start, faults>>
             [] OTHER ->
                  /\ LET opts == triggerToWorkflowStartOptions(t)
                     IN  \/ start' = checkIfIsRunning(opts) /\ UNCHANGED faults
                         \/ start' = opts /\ Fault
                  /\ todo' = todo \ {i} /\ UNCHANGED loop
        /\ SyncBut(TRUE)
        /\ UNCHANGED <<triggers, wf, run, orphans>>

\* ExecuteWorkflow; a Random workflow is a new one.
ExecuteWorkflow ==
    /\ start # None
    /\ \/ /\ UNCHANGED faults
          /\ LET w == workflowIdFromTrigger(start.of)
             IN  IF w = Random THEN UNCHANGED <<wf, run>>
                 ELSE Execute(w, start.policy)
       \/ Fault /\ UNCHANGED <<wf, run>>
    /\ start' = None
    /\ NextTrigger(todo)
    /\ SyncBut(TRUE)
    /\ UNCHANGED <<triggers, orphans>>

-----------------------------------------------------------------------------
\* Everything the process knew is lost.
WorkerRestarts ==
    /\ Restart
    /\ triggers' = Nothing /\ todo' = {} /\ start' = None
    /\ orphans' = orphans \cup (UNION {Left(i) : i \in Ids})
                      \cup {w \in Workflows : IsRunning(w)}
    /\ UNCHANGED <<wf, run>>

Handles(i) == OnUpdated(i) \/ OnDropped(i) \/ Trigger(i)

Steps ==
    \/ SyncSteps /\ UNCHANGED workVars
    \/ OnEndOfPage \/ ExecuteWorkflow \/ WorkerRestarts
    \/ \E i \in Ids : Handles(i)

Next ==
    \/ Steps
    \/ SyncEnv /\ UNCHANGED workVars
    \/ \E w \in Workflows : Completes(w)

\* Every goroutine runs, the server goes on to send, a select that can end in
\* different ways takes one, and a process that has died is started again.
Fairness ==
    /\ WF_vars(Recv /\ UNCHANGED workVars)
    /\ WF_vars(RecvCancelled /\ UNCHANGED workVars)
    /\ WF_vars(/\ OpenWatch \/ Take \/ LoopEnds \/ NextPart
               /\ UNCHANGED workVars)
    /\ WF_vars(OnEndOfPage) /\ WF_vars(ExecuteWorkflow)
    /\ WF_vars(\E i \in Ids : Handles(i)) /\ WF_vars(WorkerRestarts)

Spec == Init /\ [][Next]_vars /\ Fairness

-----------------------------------------------------------------------------
\* When everything sent is handled, the triggers are those of the resources the
\* server has sent, except for resources that turned into another type.
TriggersInStep ==
    Quiet => \A i \in Ids : view[i] # Foreign => triggers[i] = view[i]

\* With everything handled, a workflow runs only for a trigger that is there:
\* dropped ones were cancelled or terminated.
OnlyTriggeredRuns ==
    Quiet => \A w \in Workflows \ orphans :
        wf[w] = "running" => \E i \in Ids : w \in Left(i)

\* A running workflow is replaced only for a trigger that asks to overlap it,
\* whatever happens between checkIfIsRunning and ExecuteWorkflow.
RunningIsKept ==
    [][\A w \in Workflows :
           IsRunning(w) /\ wf'[w] = "running" /\ run'[w] # run[w]
               => start.of.ifRunning = "overlap"]_vars

\* The worker is up and stays so, and resource i keeps a usable trigger.
Stays(i) ==
    /\ ~cancelled /\ loop.pc # "panicked"
    /\ stored[i] \in Triggers
    /\ workflowIdFromTrigger(stored[i]) \in Workflows /\ stored[i].args

\* The workflow of a trigger that stays is started, and started again after it
\* fails, although errors of Trigger are only logged.
TriggeredAgain ==
    \A i \in Ids : <>[]Stays(i) =>
        []<>(/\ stored[i] \in Triggers
             /\ \E w \in Workflows \cap {workflowIdFromTrigger(stored[i])} :
                    wf[w] \in {"running", "canceling", "completed"})

\* A cancelled synchronizer ends.
CancelEnds == cancelled ~> loop.pc = "panicked"
=============================================================================
