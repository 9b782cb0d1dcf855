------------------------------ MODULE NodeJobs ------------------------------
(***************************************************************************)
(* A node job (ImagePrePullJob, operations/v1alpha2) from its creation to  *)
(* its final phase: the reconciler and the timeout job of the controller   *)
(* manager, the executor, the status updater and the upstream handler of   *)
(* CloudCore's task manager, and the action runners of the edge nodes.     *)
(* They share one API object, which every party reads, changes and writes  *)
(* back; a write of a stale copy is refused by the API server.             *)
(*                                                                         *)
(* A write of the object and the informer event it causes are one step, so *)
(* the lag of the watch is the lag of the downstream channel.              *)
(***************************************************************************)
EXTENDS Integers, FiniteSets, Sequences

CONSTANTS NodeSeq,         \* the nodes of the job, in the order of its status
          Concurrency,     \* spec.imagePrePullTemplate.concurrency
          FailureTolerate, \* spec...failureTolerate, in percent
          TimeoutSeconds,  \* spec...timeoutSeconds, 0 when not given
          MaxExecs,        \* bound: executors created
          MaxFaults,       \* bound: losses, restarts and deletions
          Budgets          \* the combinations of the two bounds to explore

Nodes == {NodeSeq[i] : i \in 1..Len(NodeSeq)}
Execs == 1..MaxExecs

ASSUME JobAssumption ==
    /\ NodeSeq \in Seq(Nodes) /\ NodeSeq # << >>
    /\ Concurrency \in Int /\ FailureTolerate \in Nat /\ TimeoutSeconds \in Nat
    /\ MaxExecs \in Nat /\ MaxFaults \in Nat
    /\ Budgets \subseteq [execs : 0..MaxExecs, faults : 0..MaxFaults]

VARIABLES phase,      \* Status.Phase of the job, "new" while it is empty,
                      \* "gone" once the job is removed
          task,       \* Phase of each node's task in Status.NodeStatus
          deleting,   \* the DeletionTimestamp is set
          events,     \* the downstream channel: of each object, the pending tasks
          exec,       \* the executors, by creation number
          current,    \* the executor in nodeTaskExecutors, 0 when none
          updates,    \* updateCh of the status updater
          reports,    \* upstream messages on their way to the handler
          runs,       \* what has become of the task each executor gave a node
          registered, \* the job has an entry in timeoutJobs
          ticker,     \* where the goroutine of the timeout job is
          expired,    \* the tasks CheckTimeout marks in its copy of the job;
                      \* empty once that copy is stale
          budget,     \* executors, and losses, restarts and deletions, left
          pulled,     \* history: the nodes that did pull the images
          disrupted,  \* history: the job was deleted or CloudCore was restarted
          panicked    \* history: the processes that died of a panic

objVars == <<phase, task, deleting>>
cloudVars == <<events, exec, current, updates>>
timerVars == <<registered, ticker>>
edgeVars == <<reports, runs, pulled>>
histVars == <<budget, disrupted, panicked>>
vars == <<phase, task, deleting, events, exec, current, updates, reports, runs,
          registered, ticker, expired, budget, pulled, disrupted, panicked>>

JobFinal == {"Completed", "Failure"}
TaskFinal == {"Successful", "Failure", "Unknown"}
TaskPhases == {"Pending", "InProgress"} \cup TaskFinal
Actions == {"Check", "Pull"}
Working == {"sent", "Check", "Pull"}

NewExec == [pc |-> "unused", i |-> 1, pending |-> {}, sent |-> FALSE, pool |-> 0, wg |-> 0, interrupted |-> FALSE]
GoneExec == [NewExec EXCEPT !.pc = "gone"]

Init ==
    /\ phase = "new" /\ task = [n \in Nodes |-> "Pending"] /\ deleting = FALSE
    /\ events = << >> /\ exec = [k \in Execs |-> NewExec] /\ current = 0
    /\ updates = << >> /\ reports = << >>
    /\ runs = [n \in Nodes |-> [k \in Execs |-> "none"]]
    /\ registered = FALSE /\ ticker = "off" /\ expired = {}
    /\ budget \in Budgets /\ pulled = {}
    /\ disrupted = FALSE /\ panicked = {}

(***************************************************************************)
(* The API object.  A write makes every copy read before it stale, and in  *)
(* the phase Init the informer's OnUpdate hands the object to downstream.  *)
(***************************************************************************)
PendingOf(t) == {n \in Nodes : t[n] = "Pending"}

Write(p, t) ==
    /\ phase' = p /\ task' = t /\ expired' = {}
    /\ events' = IF p = "Init" THEN Append(events, PendingOf(t)) ELSE events

(***************************************************************************)
(* The executor of the task manager.                                       *)
(***************************************************************************)
PoolSize == IF Concurrency <= 0 THEN 1 ELSE Concurrency

\* The node of the task executor k is at.
At(k) == NodeSeq[exec[k].i]

\* Execute, the head of the loop, for an executor record e about to look at its
\* i-th task: tasks that are not pending are skipped.
Continue(e) ==
    LET rest == {i \in e.i..Len(NodeSeq) : NodeSeq[i] \in e.pending}
    IN IF e.i <= Len(NodeSeq) /\ e.interrupted THEN GoneExec
       ELSE IF rest = {} THEN [e EXCEPT !.pc = "wait", !.i = Len(NodeSeq) + 1]
       ELSE [e EXCEPT !.pc = "acquire", !.i = CHOOSE i \in rest : \A j \in rest : i <= j]

\* watchJobDownstream: an event for a job that has an executor is ignored.
IgnoreEvent ==
    /\ events # << >> /\ current # 0
    /\ events' = Tail(events)
    /\ UNCHANGED <<exec, current, updates, expired, objVars, timerVars, edgeVars, histVars>>

\* A mutant of StartExecutor: the executor already in the map is not looked for.
StartExecutorAnyway(k) ==
    /\ events # << >> /\ budget.execs > 0
    /\ budget' = [budget EXCEPT !.execs = @ - 1]
    /\ exec[k].pc = "unused" /\ \A j \in 1..(k - 1) : exec[j].pc # "unused"
    /\ events' = Tail(events)
    /\ current' = k
    /\ exec' = [exec EXCEPT ![k] = Continue([NewExec EXCEPT !.pending = Head(events)])]
    /\ UNCHANGED <<updates, expired, objVars, timerVars, edgeVars, disrupted, panicked>>

StartExecutor(k) ==
    /\ events # << >> /\ current = 0 /\ budget.execs > 0
    /\ budget' = [budget EXCEPT !.execs = @ - 1]
    /\ exec[k].pc = "unused" /\ \A j \in 1..(k - 1) : exec[j].pc # "unused"
    /\ events' = Tail(events)
    /\ current' = k
    /\ exec' = [exec EXCEPT ![k] = Continue([NewExec EXCEPT !.pending = Head(events)])]
    /\ UNCHANGED <<updates, expired, objVars, timerVars, edgeVars, disrupted,
                   panicked>>

\* Execute, the body: a slot of the pool, then executeTask.  When the node is
\* not among the sessions CloudCore had when the executor started, or the send
\* fails, FinishTask gives the slot back.
ExecSend(k) ==
    /\ exec[k].pc = "acquire" /\ exec[k].pool < PoolSize
    /\ \/ /\ exec' = [exec EXCEPT ![k].pc = "update", ![k].pool = @ + 1, ![k].wg = @ + 1,
                                  ![k].sent = TRUE]
          /\ runs' = [runs EXCEPT ![At(k)][k] = "sent"]
       \/ /\ exec' = [exec EXCEPT ![k].pc = "update", ![k].sent = FALSE]
          /\ UNCHANGED runs
    /\ UNCHANGED <<events, current, updates, reports, pulled, expired, objVars, timerVars,
                   histVars>>

\* Execute, UpdateNodeTaskStatus, which nobody waits for, and the next task.  When
\* the executor was interrupted it returns, and the deferred RemoveExecutor deletes
\* whatever executor is in the map under the job's name.
ExecUpdate(k) ==
    /\ exec[k].pc = "update"
    /\ updates' = Append(updates, [node |-> At(k), wait |-> FALSE,
                                   phase |-> IF exec[k].sent THEN "InProgress" ELSE "Failure"])
    /\ LET e == [exec[k] EXCEPT !.i = @ + 1, !.sent = FALSE, !.pending = @ \ {At(k)}]
       IN exec' = [exec EXCEPT ![k] = Continue(e)]
    /\ current' = IF exec'[k] = GoneExec THEN 0 ELSE current
    /\ UNCHANGED <<events, expired, objVars, timerVars, edgeVars, histVars>>

\* Execute, wg.Wait and the deferred RemoveExecutor.
ExecDone(k) ==
    /\ exec[k].pc = "wait" /\ exec[k].wg = 0
    /\ exec' = [exec EXCEPT ![k] = GoneExec]
    /\ current' = 0
    /\ UNCHANGED <<events, updates, expired, objVars, timerVars, edgeVars, histVars>>

\* A mutant of FinishTask: the wait group is not told.
FinishTaskReleaseOnly(k) == [exec EXCEPT ![k].pool = IF @ > 0 THEN @ - 1 ELSE 0]

\* FinishTask of executor k: Release never blocks, Done panics at zero.
FinishTask(k) ==
    [exec EXCEPT ![k].pool = IF @ > 0 THEN @ - 1 ELSE 0, ![k].wg = @ - 1]

\* A process that dies takes its executors, its queues and the messages it
\* has not sent with it; the informer of the next one starts with a list.
CloudCoreRestarts ==
    /\ exec' = [k \in Execs |-> IF exec[k].pc = "unused" THEN NewExec
                                ELSE GoneExec]
    /\ current' = 0 /\ updates' = << >> /\ reports' = << >>
    /\ events' = IF phase = "Init" THEN <<PendingOf(task)>> ELSE << >>
    /\ runs' = [n \in Nodes |-> [k \in Execs |->
                   IF runs[n][k] = "sent" THEN "lost" ELSE runs[n][k]]]

(***************************************************************************)
(* The status updater and the upstream handler of the task manager.        *)
(***************************************************************************)

\* WatchUpdateChannel with tryUpdateImagePrePullJobStatus: the phase is set
\* whatever it was.  A conflict is retried; a job that is gone fails.
UpdateStatus ==
    /\ updates # << >>
    /\ updates' = Tail(updates)
    /\ LET u == Head(updates)
       IN IF phase = "gone" THEN UNCHANGED <<phase, task, expired, events>>
                            ELSE Write(phase, [task EXCEPT ![u.node] = u.phase])
    /\ UNCHANGED <<deleting, exec, current, timerVars, edgeVars, histVars>>

\* A mutant of IsFinalAction: a flow that ends with its first action.
IsFirstAction(r) == r.action = "Check" \/ ~r.succ

\* The flow Check -> Pull of action_flow.go has no action after a failure.
IsFinalAction(r) == r.action = "Pull" \/ ~r.succ

\* handleUpstreamMessage: the final action releases the executor found under
\* the job's name; the handler then waits for its own status update.
HandleReport ==
    /\ reports # << >>
    /\ ~\E i \in 1..Len(updates) : updates[i].wait
    /\ LET r == Head(reports)
           p == IF ~IsFinalAction(r) THEN "InProgress"
                ELSE IF r.succ THEN "Successful" ELSE "Failure"
       IN IF IsFinalAction(r) /\ current # 0 /\ exec[current].wg = 0
          THEN CloudCoreRestarts /\ panicked' = panicked \cup {"cloudcore"}
          ELSE /\ exec' = IF IsFinalAction(r) /\ current # 0
                          THEN FinishTask(current) ELSE exec
               /\ updates' = Append(updates, [node |-> r.node, phase |-> p, wait |-> TRUE])
               /\ reports' = Tail(reports)
               /\ UNCHANGED <<events, current, runs, panicked>>
    /\ UNCHANGED <<expired, budget, pulled, disrupted, objVars, timerVars>>

(***************************************************************************)
(* The edge node: RunTask in a goroutine of its own for every message, and *)
(* RunAction along the flow, reporting each action.                        *)
(***************************************************************************)
EdgeReceive(n, k) ==
    /\ runs[n][k] = "sent"
    /\ runs' = [runs EXCEPT ![n][k] = "Check"]
    /\ UNCHANGED <<reports, pulled, expired, objVars, cloudVars, timerVars, histVars>>

RunAction(n, k, succ) ==
    /\ runs[n][k] \in Actions
    /\ LET r == [node |-> n, action |-> runs[n][k], succ |-> succ]
       IN /\ reports' = Append(reports, r)
          /\ runs' = [runs EXCEPT ![n][k] = IF IsFinalAction(r) THEN "done" ELSE "Pull"]
          /\ pulled' = IF r.action = "Pull" /\ succ THEN pulled \cup {n} ELSE pulled
    /\ UNCHANGED <<expired, objVars, cloudVars, timerVars, histVars>>

(***************************************************************************)
(* The reconciler and the timeout job of the controller manager.           *)
(***************************************************************************)

\* Reconcile of a new job: InitNodesStatus marks the nodes that are not ready
\* as failed; a job whose nodes cannot be verified fails at once.
InitNodesStatus(ready) ==
    /\ phase = "new" /\ ~deleting
    /\ \/ Write("Init", [n \in Nodes |-> IF n \in ready THEN "Pending" ELSE "Failure"])
       \/ ready = {} /\ Write("Failure", task)
    /\ UNCHANGED <<deleting, exec, current, updates, timerVars, edgeVars, histVars>>

\* The share of failed nodes, rounded to two decimals, is above FailureTolerate.
Exceeds(fail) == 200 * fail + Len(NodeSeq) >= 2 * Len(NodeSeq) * (FailureTolerate + 1)

\* CalculateStatus with CalculatePhaseWithCounts.
CalculatePhase ==
    LET failed == {n \in Nodes : task[n] \in {"Failure", "Unknown"}}
    IN IF \E n \in Nodes : task[n] \notin TaskFinal THEN "InProgress"
       ELSE IF failed # {} /\ Exceeds(Cardinality(failed)) THEN "Failure"
       ELSE "Completed"

\* RunReconcile of a job under way: the timeout job is started unless the map
\* has one, then the phase is calculated; a conflict is retried.
Reconcile ==
    /\ phase \in {"Init", "InProgress"} /\ ~deleting
    /\ CalculatePhase # phase \/ ~registered
    /\ registered' = TRUE
    /\ ticker' = IF registered THEN ticker ELSE "idle"
    /\ IF CalculatePhase # phase THEN Write(CalculatePhase, task)
                                 ELSE UNCHANGED <<phase, task, expired, events>>
    /\ UNCHANGED <<deleting, exec, current, updates, edgeVars, histVars>>

\* ReleaseTimeoutJob: a stopped ticker leaves its goroutine waiting for good;
\* one whose ticker has just fired goes on to its check, and one that is
\* checking the job goes on until it is done.
Release ==
    /\ registered' = FALSE
    /\ ticker' \in IF ticker = "idle" THEN {"off", "ticked"} ELSE {ticker}

ReconcileFinal ==
    /\ phase \in JobFinal /\ ~deleting /\ registered
    /\ Release
    /\ UNCHANGED <<expired, objVars, cloudVars, edgeVars, histVars>>

\* RunReconcile of a deleted job removes the finalizer, and with it the job;
\* the informer's OnDelete interrupts the executor and takes it off the map.
ReconcileDeleted ==
    /\ deleting /\ phase # "gone"
    /\ Release
    /\ phase' = "gone" /\ expired' = {}
    /\ exec' = IF current = 0 THEN exec ELSE [exec EXCEPT ![current].interrupted = TRUE]
    /\ current' = 0
    /\ UNCHANGED <<task, deleting, events, updates, edgeVars, histVars>>

\* A mutant of Unfinished: a task that never started cannot be late.
Started == {n \in Nodes : task[n] = "InProgress"}

Unfinished == {n \in Nodes : task[n] \notin TaskFinal}

\* TimeoutJob.Run: the ticker fires, and CheckTimeout reads the job and marks the
\* tasks late, those that have been silent for longer than the timeout, in its
\* copy.  When there are none the goroutine waits for the next tick.
CheckRead(late) ==
    /\ ticker = "idle" /\ phase = "InProgress" /\ TimeoutSeconds > 0
    /\ late # {} /\ late \subseteq Unfinished
    /\ expired' = late
    /\ ticker' = "checking"
    /\ UNCHANGED <<registered, objVars, cloudVars, edgeVars, histVars>>

\* The check of a goroutine whose timeout job was released: a final job is left
\* alone.  For a job that is gone GetJob returns nil, which CheckTimeout
\* dereferences: the controller manager dies.
CheckReleased ==
    /\ ticker = "ticked"
    /\ ticker' = "off"
    /\ panicked' = IF phase = "gone" THEN panicked \cup {"controllermanager"} ELSE panicked
    /\ UNCHANGED <<registered, expired, budget, disrupted, objVars, cloudVars, edgeVars>>

\* A mutant of CheckWrite: a stale copy is written over the object.
CheckWriteBlind ==
    /\ ticker = "checking"
    /\ Write("InProgress", [n \in Nodes |-> IF n \in expired THEN "Unknown" ELSE task[n]])
    /\ ticker' = "idle"
    /\ UNCHANGED <<deleting, exec, current, updates, registered, edgeVars, histVars>>

\* CheckTimeout writes its copy back; an error, a conflict too, ends the
\* goroutine, whose entry stays in timeoutJobs.
CheckWrite ==
    /\ ticker = "checking"
    /\ IF expired # {}
       THEN /\ Write(phase, [n \in Nodes |-> IF n \in expired THEN "Unknown" ELSE task[n]])
            /\ ticker' = "idle"
       ELSE /\ UNCHANGED <<phase, task, expired, events>>
            /\ ticker' = "off"
    /\ UNCHANGED <<deleting, exec, current, updates, registered, edgeVars, histVars>>

(***************************************************************************)
(* Faults, MaxFaults of them in all.                                       *)
(***************************************************************************)
Fault == budget.faults > 0 /\ budget' = [budget EXCEPT !.faults = @ - 1]

\* A message to or from the edge is lost: neither is acknowledged.
LoseTask(n, k) ==
    /\ Fault /\ runs[n][k] = "sent"
    /\ runs' = [runs EXCEPT ![n][k] = "lost"]
    /\ UNCHANGED <<reports, pulled, disrupted, panicked, expired, objVars, cloudVars, timerVars>>

LoseReport ==
    /\ Fault /\ reports # << >>
    /\ reports' = Tail(reports)
    /\ UNCHANGED <<runs, pulled, disrupted, panicked, expired, objVars, cloudVars, timerVars>>

\* Nothing of a running node task is kept across a restart of the edge.
EdgeRestarts(n) ==
    /\ Fault /\ \E k \in Execs : runs[n][k] \in Actions
    /\ runs' = [runs EXCEPT ![n] = [k \in Execs |-> IF @[k] \in Actions THEN "lost" ELSE @[k]]]
    /\ UNCHANGED <<reports, pulled, disrupted, panicked, expired, objVars, cloudVars, timerVars>>

CloudRestart ==
    /\ Fault /\ phase # "new" /\ CloudCoreRestarts
    /\ disrupted' = TRUE
    /\ UNCHANGED <<pulled, panicked, expired, objVars, timerVars>>

ManagerRestart ==
    /\ Fault /\ registered
    /\ registered' = FALSE /\ ticker' = "off" /\ expired' = {}
    /\ UNCHANGED <<disrupted, panicked, objVars, cloudVars, edgeVars>>

DeleteJob ==
    /\ Fault /\ ~deleting
    /\ deleting' = TRUE /\ disrupted' = TRUE /\ expired' = {}
    /\ events' = IF phase = "Init" THEN Append(events, PendingOf(task)) ELSE events
    /\ UNCHANGED <<phase, task, exec, current, updates, panicked, timerVars, edgeVars>>

\* Every retry of a status update fails.
UpdateFails ==
    /\ Fault /\ updates # << >>
    /\ updates' = Tail(updates)
    /\ UNCHANGED <<events, exec, current, disrupted, panicked, expired, objVars, timerVars,
                   edgeVars>>

Faults ==
    \/ \E n \in Nodes, k \in Execs : LoseTask(n, k)
    \/ LoseReport
    \/ \E n \in Nodes : EdgeRestarts(n)
    \/ CloudRestart
    \/ ManagerRestart
    \/ DeleteJob
    \/ UpdateFails

ExecStep(k) == ExecSend(k) \/ ExecUpdate(k) \/ ExecDone(k)

EdgeStep(n, k) == EdgeReceive(n, k) \/ \E succ \in BOOLEAN : RunAction(n, k, succ)

ManagerStep ==
    \/ \E ready \in SUBSET Nodes : InitNodesStatus(ready)
    \/ Reconcile
    \/ ReconcileFinal
    \/ ReconcileDeleted

TimerStep ==
    \/ \E late \in SUBSET Nodes : CheckRead(late)
    \/ CheckReleased
    \/ CheckWrite

Next ==
    \/ IgnoreEvent
    \/ \E k \in Execs : StartExecutor(k)
    \/ \E k \in Execs : ExecStep(k)
    \/ UpdateStatus
    \/ HandleReport
    \/ \E n \in Nodes, k \in Execs : EdgeStep(n, k)
    \/ ManagerStep
    \/ TimerStep
    \/ Faults

(***************************************************************************)
(* Fairness: every goroutine runs, the controller's queue is drained, and  *)
(* time passes, so that a silent task is found late by some later check.   *)
(***************************************************************************)
Fairness ==
    /\ WF_vars(IgnoreEvent)
    /\ WF_vars(\E k \in Execs : StartExecutor(k))
    /\ \A k \in Execs : WF_vars(ExecStep(k))
    /\ WF_vars(UpdateStatus)
    /\ WF_vars(HandleReport)
    /\ \A n \in Nodes, k \in Execs : WF_vars(EdgeStep(n, k))
    /\ WF_vars(ManagerStep)
    /\ WF_vars(TimerStep)
    /\ SF_vars(CheckRead(Unfinished))

Spec == Init /\ [][Next]_vars /\ Fairness

----------------------------------------------------------------------------
(***************************************************************************)
(* Properties.                                                             *)
(***************************************************************************)

\* Every variable has its type; pool and wait group of an executor agree.
TypeOK ==
    /\ phase \in {"new", "Init", "InProgress", "gone"} \cup JobFinal
    /\ task \in [Nodes -> TaskPhases]
    /\ deleting \in BOOLEAN /\ registered \in BOOLEAN
    /\ disrupted \in BOOLEAN /\ panicked \subseteq {"cloudcore", "controllermanager"}
    /\ \A i \in 1..Len(events) : events[i] \subseteq Nodes
    /\ exec \in [Execs -> [pc : {"unused", "acquire", "update", "wait", "gone"},
                           i : 1..(Len(NodeSeq) + 1), pending : SUBSET Nodes,
                           sent : BOOLEAN, pool : 0..PoolSize, wg : 0..PoolSize,
                           interrupted : BOOLEAN]]
    /\ \A k \in Execs : exec[k].pool = exec[k].wg
    /\ current \in 0..MaxExecs
    /\ \A i \in 1..Len(updates) :
          updates[i] \in [node : Nodes, phase : TaskPhases, wait : BOOLEAN]
    /\ \A i \in 1..Len(reports) :
          reports[i] \in [node : Nodes, action : Actions, succ : BOOLEAN]
    /\ runs \in [Nodes -> [Execs -> {"none", "lost", "done"} \cup Working]]
    /\ ticker \in {"off", "idle", "ticked", "checking"}
    /\ expired \subseteq Nodes /\ pulled \subseteq Nodes 
    /\ budget \in [execs : 0..MaxExecs, faults : 0..MaxFaults]

\* The runs of the job that nodes still have to end.
AtWork == {r \in Nodes \X Execs : runs[r[1]][r[2]] \in Working}

\* As long as the job is not deleted and CloudCore is not restarted, at most
\* Concurrency nodes work on it at a time (Execute takes a slot of the pool for
\* each and only the final report gives it back), none of them twice, and
\* neither process panics: FinishTask never brings the wait group below zero.
SlotsRespected ==
    ~disrupted => /\ Cardinality(AtWork) <= PoolSize
                  /\ panicked = {}

\* A job is Completed only when no more nodes than FailureTolerate admits have
\* not pulled the images: neither a late or reordered status update nor a
\* report of an earlier action makes a task of CalculateStatus successful.
CompletedMeansPulled ==
    phase = "Completed" => Nodes \subseteq pulled \/ ~Exceeds(Cardinality(Nodes \ pulled))

\* A final phase stays until the job is removed, whatever copy of the job
\* CheckTimeout or the reconciler still holds.
FinalPhaseStays == [][(phase \in JobFinal) => (phase' \in {phase, "gone"})]_phase

\* A job with a timeout that has been initialised ends, unless an error in
\* CheckTimeout has ended the goroutine of its timeout job.
JobEndsWhileTimed ==
    phase = "Init" ~> (phase \in JobFinal \cup {"gone"} \/ (registered /\ ticker = "off"))

\* A job with a timeout that has been initialised ends: CheckTimeout sets a
\* node task that has timed out to unknown.
JobEnds == phase = "Init" ~> phase \in JobFinal \cup {"gone"}
=============================================================================
